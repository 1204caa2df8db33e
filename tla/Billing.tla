------------------------------- MODULE Billing -------------------------------
(***************************************************************************)
(* Subscriptions, invoices and notification preferences: the endpoints of  *)
(* the API that write them, one statement at a time, and the daily monitor *)
(* that takes lapsed subscriptions through a grace period to suspension.   *)
(*                                                                         *)
(* Time is counted in days.  A row keeps two dates, period_end and         *)
(* grace_period_end; here they are the days left, and 0 is a date that has *)
(* come.  Requests and the monitor take less than a day.                   *)
(*                                                                         *)
(* The callers of the billing requests are members of the organisation     *)
(* (assertOrgAccess); what others ask for leaves no trace.                 *)
(***************************************************************************)
EXTENDS Integers, FiniteSets

CONSTANTS
    Org, User, NoOrg,
    Period,        \* days a renewal buys
    Grace,         \* days of grace, 14 in the code
    Leaf,          \* entries of the preferences document,
    Asks,          \*   and the documents a request may carry
    MaxRequests, MaxRows, MaxInvoices, MaxFaults

ASSUME BillingAssumption ==
    /\ {Period, Grace, MaxRows, MaxInvoices} \subseteq Nat \ {0}
    /\ {MaxRequests, MaxFaults} \subseteq Nat
    /\ NoOrg \notin Org /\ Org # {} /\ User # {}
    /\ Asks \subseteq [inApp : {"on", "off", "unset"}, preferences : [Leaf -> {"on", "off", "unset"}]]

VARIABLES
    subs,       \* rows of subscriptions
    invoices,   \* rows of invoices
    prefs,      \* rows of notification_preferences
    notices,    \* rows of notifications: recipient and type
    job,        \* the run of the monitor
    requests,
    graceDays,  \* history: full days since the monitor last started the grace period,
    raced,      \*   rows renewed while the monitor had them selected,
    wished,     \*   what a user last set, answered with success,
    clashed,    \*   users whose updates overlapped,
    faults      \*   statements failed, runs cut short

tables  == <<subs, invoices, prefs, notices>>
history == <<graceDays, raced, wished, clashed, faults>>
vars    == <<tables, job, requests, history>>

Row == 1..MaxRows
Invoice == 1..MaxInvoices
Request == 1..MaxRequests

SubRow     == [org : Org \cup {NoOrg}, status : {"active", "grace_period", "suspended"},
               periodLeft : 0..Period, graceLeft : 0..Grace]
InvoiceRow == [org : Org \cup {NoOrg}, status : {"pending", "paid"}]
Settings   == {"on", "off", "unset"}
PrefsRow   == [exists : BOOLEAN, inApp : BOOLEAN, preferences : [Leaf -> Settings]]
NoticeRow  == User \X {"subscription_expiring", "subscription_expired"}

NoSub == [org |-> NoOrg, status |-> "suspended", periodLeft |-> 0, graceLeft |-> 0]
NoInvoice == [org |-> NoOrg, status |-> "paid"]
NoPrefs == [exists |-> FALSE, inApp |-> TRUE, preferences |-> [l \in Leaf |-> "unset"]]

JobRecord == [at : {"idle", "findExpiring", "grace", "findExpired", "suspend"}, todo : SUBSET Row]
NoRun == [at |-> "idle", todo |-> {}]

\* A request, with what it asks for and what it has read: the row to renew (0 for
\* none), the invoice to pay, the old preferences.
RequestRecord ==
    [at : {"idle", "renew", "invoice", "pay", "find", "insert", "update"}, org : Org, user : User,
     row : 0..MaxRows, invoice : Invoice, read : [Leaf -> Settings],
     asked : [inApp : Settings, preferences : [Leaf -> Settings]]]

Idle == [at |-> "idle", org |-> CHOOSE o \in Org : TRUE, user |-> CHOOSE u \in User : TRUE,
         row |-> 0, invoice |-> 1, read |-> NoPrefs.preferences,
         asked |-> [inApp |-> "unset", preferences |-> NoPrefs.preferences]]

Begin(r, record) ==
    /\ requests[r].at = "idle" /\ \A q \in 1..(r - 1) : requests[q].at # "idle"
    /\ requests' = [requests EXCEPT ![r] = record]
Done(r) == requests' = [requests EXCEPT ![r] = Idle]

\* A date is a day nearer.
Sooner(days) == IF days > 0 THEN days - 1 ELSE 0

-----------------------------------------------------------------------------
(* Subscriptions and invoices.  They share no row with the preferences, so that a   *)
(* behaviour of the model exercises either.                                        *)

Updating(u) == \E r \in Request : requests[r].at \in {"find", "insert", "update"} /\ requests[r].user = u

RowsOf(o) == {s \in Row : subs[s].org = o}

\* Every renewal under way has an invoice left to write.
RoomForInvoice ==
    Cardinality({r \in Request : requests[r].at \in {"renew", "invoice"}})
        < Cardinality({i \in Invoice : invoices[i] = NoInvoice})

\* renewSubscription reads one of the organisation's rows; nothing says which.
StartRenew(r, o) ==
    /\ RoomForInvoice
    /\ \A u \in User : prefs[u] = NoPrefs /\ ~Updating(u)
    /\ \E s \in IF RowsOf(o) = {} THEN {0} ELSE RowsOf(o) :
         Begin(r, [Idle EXCEPT !.at = "renew", !.org = o, !.row = s])
    /\ UNCHANGED <<tables, job, history>>

\* The row the request has read, or else the next one.
RowToWrite(r) ==
    IF requests[r].row # 0 THEN requests[r].row ELSE 1 + Cardinality({s \in Row : subs[s] # NoSub})

\* Mutant: the renewed row keeps its status.
Renew_KeepsStatus(r) ==
    LET s == RowToWrite(r)
    IN /\ requests[r].at = "renew" /\ s \in Row
       /\ subs' = [subs EXCEPT ![s].org = requests[r].org, ![s].periodLeft = Period,
                               ![s].status = IF requests[r].row = 0 THEN "active" ELSE @]
       /\ raced' = IF s \in job.todo THEN raced \cup {s} ELSE raced \ {s}
       /\ requests' = [requests EXCEPT ![r].at = "invoice"]
       /\ UNCHANGED <<invoices, prefs, notices, job, graceDays, wished, clashed, faults>>

\* Mutant: the period is added to what is left of the old one.
Renew_Extends(r) ==
    LET s == RowToWrite(r)
    IN /\ requests[r].at = "renew" /\ s \in Row
       /\ subs' = [subs EXCEPT ![s].org = requests[r].org, ![s].periodLeft = @ + Period,
                               ![s].status = "active"]
       /\ raced' = IF s \in job.todo THEN raced \cup {s} ELSE raced \ {s}
       /\ requests' = [requests EXCEPT ![r].at = "invoice"]
       /\ UNCHANGED <<invoices, prefs, notices, job, graceDays, wished, clashed, faults>>

\* An active subscription whose period starts today, paid for or not.
Renew(r) ==
    LET s == RowToWrite(r)
    IN /\ requests[r].at = "renew" /\ s \in Row
       /\ subs' = [subs EXCEPT ![s].org = requests[r].org, ![s].periodLeft = Period,
                               ![s].status = "active"]
       /\ raced' = IF s \in job.todo THEN raced \cup {s} ELSE raced \ {s}
       /\ requests' = [requests EXCEPT ![r].at = "invoice"]
       /\ UNCHANGED <<invoices, prefs, notices, job, graceDays, wished, clashed, faults>>

\* renewSubscription ends with an invoice.
CreateInvoice(r) ==
    /\ requests[r].at = "invoice"
    /\ \E i \in Invoice :
         /\ invoices[i] = NoInvoice /\ \A j \in 1..(i - 1) : invoices[j] # NoInvoice
         /\ invoices' = [invoices EXCEPT ![i] = [org |-> requests[r].org, status |-> "pending"]]
    /\ Done(r)
    /\ UNCHANGED <<subs, prefs, notices, job, history>>

\* payInvoice reads a pending invoice of the organisation, then marks it as paid.
StartPay(r, o, i) ==
    /\ invoices[i] = [org |-> o, status |-> "pending"]
    /\ Begin(r, [Idle EXCEPT !.at = "pay", !.org = o, !.invoice = i])
    /\ UNCHANGED <<tables, job, history>>

Pay(r) ==
    /\ requests[r].at = "pay"
    /\ invoices' = [invoices EXCEPT ![requests[r].invoice].status = "paid"]
    /\ Done(r)
    /\ UNCHANGED <<subs, prefs, notices, job, history>>

-----------------------------------------------------------------------------
(* Notification preferences: two columns of the row and a document *)

\* updatePreferences reads the row, of which it needs the document.
StartUpdatePreferences(r, u, asked) ==
    /\ \A s \in Row : subs[s] = NoSub
    /\ \A q \in Request : requests[q].at # "renew"
    /\ Begin(r, [Idle EXCEPT !.at = "find", !.user = u, !.asked = asked,
                             !.read = prefs[u].preferences])
    /\ clashed' = clashed \cup (IF Updating(u) THEN {u} ELSE {})
    /\ UNCHANGED <<tables, job, graceDays, raced, wished, faults>>

\* upsert looks for the row again.
FindPreferences(r) ==
    /\ requests[r].at = "find"
    /\ requests' = [requests EXCEPT ![r].at = IF prefs[requests[r].user].exists
                                              THEN "update" ELSE "insert"]
    /\ UNCHANGED <<tables, job, history>>

\* Mutant: the document of the request replaces the other.
Merged_Replaced(old, new) == new

\* A document with the settings of another laid over it.
Merged(old, new) == [l \in Leaf |-> IF new[l] = "unset" THEN old[l] ELSE new[l]]

\* A column is set if the request names it, the document always.
WritePreferences(r) ==
    LET q == requests[r]
    IN /\ prefs' = [prefs EXCEPT ![q.user] =
                      [exists |-> TRUE, preferences |-> Merged(q.read, q.asked.preferences),
                       inApp |-> IF q.asked.inApp = "unset" THEN @.inApp ELSE q.asked.inApp = "on"]]
       /\ wished' = [wished EXCEPT ![q.user] =
                       [l \in Leaf |-> IF q.asked.preferences[l] = "unset" THEN @[l]
                                       ELSE q.asked.preferences[l]]]
       /\ Done(r)
       /\ UNCHANGED <<subs, invoices, notices, job, graceDays, raced, clashed, faults>>

UpdatePreferences(r) == requests[r].at = "update" /\ WritePreferences(r)

\* user_id is unique: an insert finds no row, or fails.
InsertPreferences(r) ==
    /\ requests[r].at = "insert"
    /\ IF prefs[requests[r].user].exists
       THEN Done(r) /\ UNCHANGED <<tables, job, history>>
       ELSE WritePreferences(r)

-----------------------------------------------------------------------------
(* The monitor *)

MANDATORY_TYPES == {"subscription_expiring", "subscription_expired"}

ShouldSendInApp(u, type) ==
    type \in MANDATORY_TYPES \/ (prefs[u].inApp /\ (type \in Leaf => prefs[u].preferences[type] # "off"))

\* dispatch: user_id of notifications refers to users, and an insert that fails is logged.
Dispatch(recipients, type) ==
    notices' = notices \cup {<<u, type>> : u \in {v \in recipients \cap User : ShouldSendInApp(v, type)}}

\* Mutant: only trials are looked for.
FindExpiring_Trials ==
    /\ job.at = "findExpiring"
    /\ job' = [at |-> "grace", todo |-> {s \in Row : subs[s].status = "trial" /\ subs[s].periodLeft = 0}]
    /\ UNCHANGED <<tables, requests, history>>

\* checkExpiring selects the active rows whose period has ended.
FindExpiring ==
    /\ job.at = "findExpiring"
    /\ job' = [at |-> "grace", todo |-> {s \in Row : subs[s].status = "active" /\ subs[s].periodLeft = 0}]
    /\ UNCHANGED <<tables, requests, history>>

\* checkExpiring, one row: the grace period starts, and a notification goes to recipient
\* sub.orgId.
StartGrace(s) ==
    /\ job.at = "grace" /\ s \in job.todo
    /\ subs' = [subs EXCEPT ![s].status = "grace_period", ![s].graceLeft = Grace]
    /\ graceDays' = [graceDays EXCEPT ![s] = 0]
    /\ Dispatch({subs[s].org}, "subscription_expiring")
    /\ job' = [job EXCEPT !.todo = @ \ {s}]
    /\ UNCHANGED <<invoices, prefs, requests, raced, wished, clashed, faults>>

\* Mutant: the date compared is the end of the period.
FindGracePeriodExpired_Period ==
    /\ job.at = "grace" /\ job.todo = {}
    /\ job' = [at |-> "suspend",
               todo |-> {s \in Row : subs[s].status = "grace_period" /\ subs[s].periodLeft = 0}]
    /\ UNCHANGED <<tables, requests, history>>

\* findGracePeriodExpired, once the first loop is through.
FindGracePeriodExpired ==
    /\ job.at = "grace" /\ job.todo = {}
    /\ job' = [at |-> "suspend",
               todo |-> {s \in Row : subs[s].status = "grace_period" /\ subs[s].graceLeft = 0}]
    /\ UNCHANGED <<tables, requests, history>>

\* checkGracePeriodExpired, one row.
Suspend(s) ==
    /\ job.at = "suspend" /\ s \in job.todo
    /\ subs' = [subs EXCEPT ![s].status = "suspended"]
    /\ Dispatch({subs[s].org}, "subscription_expired")
    /\ job' = [job EXCEPT !.todo = @ \ {s}]
    /\ UNCHANGED <<invoices, prefs, requests, history>>

FinishRun ==
    /\ job.at = "suspend" /\ job.todo = {}
    /\ job' = NoRun
    /\ UNCHANGED <<tables, requests, history>>

\* A statement about one row fails: the loop catches it and goes on with the next.
SkipRow(s) ==
    /\ s \in job.todo /\ faults < MaxFaults
    /\ job' = [job EXCEPT !.todo = @ \ {s}]
    /\ faults' = faults + 1
    /\ UNCHANGED <<tables, requests, graceDays, raced, wished, clashed>>

\* A query of the monitor fails, or the process ends.
AbortRun ==
    /\ job.at # "idle" /\ faults < MaxFaults
    /\ job' = NoRun
    /\ faults' = faults + 1
    /\ UNCHANGED <<tables, requests, graceDays, raced, wished, clashed>>

\* A statement of a request fails, or the process ends.
Stop(r) ==
    /\ requests[r].at # "idle" /\ faults < MaxFaults
    /\ Done(r)
    /\ faults' = faults + 1
    /\ UNCHANGED <<tables, job, graceDays, raced, wished, clashed>>

\* A day ends, and at one in the morning the monitor starts.
Day ==
    /\ job = NoRun /\ \A r \in Request : requests[r] = Idle
    /\ subs' = [s \in Row |-> [subs[s] EXCEPT !.periodLeft = Sooner(@), !.graceLeft = Sooner(@)]]
    /\ graceDays' = [s \in Row |-> IF graceDays[s] < Grace THEN graceDays[s] + 1 ELSE Grace]
    /\ job' = [at |-> "findExpiring", todo |-> {}]
    /\ UNCHANGED <<invoices, prefs, notices, requests, raced, wished, clashed, faults>>

-----------------------------------------------------------------------------
Init ==
    /\ subs = [s \in Row |-> NoSub]
    /\ invoices = [i \in Invoice |-> NoInvoice]
    /\ prefs = [u \in User |-> NoPrefs]
    /\ notices = {}
    /\ job = NoRun
    /\ requests = [r \in Request |-> Idle]
    /\ graceDays = [s \in Row |-> 0]
    /\ raced = {}
    /\ wished = [u \in User |-> NoPrefs.preferences]
    /\ clashed = {}
    /\ faults = 0

\* The routes that write.
BillingController(r) ==
    \E o \in Org : StartRenew(r, o) \/ \E i \in Invoice : StartPay(r, o, i)

NotificationsController(r) ==
    \E u \in User, asked \in Asks : StartUpdatePreferences(r, u, asked)

Handle(r) ==
    \/ Renew(r) \/ CreateInvoice(r) \/ Pay(r)
    \/ FindPreferences(r) \/ UpdatePreferences(r) \/ InsertPreferences(r)

Monitor ==
    \/ FindExpiring \/ FindGracePeriodExpired \/ FinishRun
    \/ \E s \in Row : StartGrace(s) \/ Suspend(s)

Next ==
    \/ \E r \in Request :
           BillingController(r) \/ NotificationsController(r) \/ Handle(r) \/ Stop(r)
    \/ Monitor \/ Day
    \/ AbortRun \/ \E s \in Row : SkipRow(s)

\* The monitor runs every day to its end, unless it fails; handlers end within a day,
\* and days go by however many there are.
Fairness == WF_vars(Monitor) /\ SF_vars(Day) /\ \A r \in Request : WF_vars(Handle(r))

Spec == Init /\ [][Next]_vars
FairSpec == Spec /\ Fairness

-----------------------------------------------------------------------------
(* Properties *)

\* Rows, the run of the monitor and the requests have the form of tables and handlers.
BillingTypeOK ==
    /\ subs \in [Row -> SubRow]
    /\ invoices \in [Invoice -> InvoiceRow]
    /\ prefs \in [User -> PrefsRow]
    /\ notices \subseteq NoticeRow
    /\ job \in JobRecord
    /\ requests \in [Request -> RequestRecord]
    /\ graceDays \in [Row -> 0..Grace]
    /\ raced \subseteq Row
    /\ wished \in [User -> [Leaf -> Settings]]
    /\ clashed \subseteq User
    /\ faults \in 0..MaxFaults

\* A subscription is active until its period ends, unless it was renewed while the
\* monitor, which updates rows by id, had it selected.
PaidIsActive ==
    \A s \in Row \ raced : subs[s].periodLeft > 0 => subs[s].status = "active"

\* No subscription is suspended before the grace period the monitor gave it is over,
\* whatever renewals and failed runs come between.
SuspendedAfterGrace ==
    [][\A s \in Row : subs[s].status # "suspended" /\ subs'[s].status = "suspended"
                        => graceDays[s] = Grace]_vars

\* A subscription that lapses is renewed or suspended in the end: a row whose update
\* failed, and a run that was cut short, are made up for on a later day.
LapsedIsSuspended ==
    \A s \in Row : subs[s].status = "active" /\ subs[s].periodLeft = 0
                     ~> subs[s].status = "suspended" \/ subs[s].periodLeft > 0

\* A setting that was answered with success stays until its user sets it again, if his
\* updates do not overlap.
SettingsStay == \A u \in User \ clashed : prefs[u].preferences = wished[u]
=============================================================================

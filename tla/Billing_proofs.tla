---------------------------- MODULE Billing_proofs ----------------------------
(***************************************************************************)
(* Proofs about Billing: for any number of organisations, users, rows,     *)
(* invoices and requests, and any length of the period and of the grace.   *)
(***************************************************************************)
EXTENDS Billing, TLAPS

-----------------------------------------------------------------------------
(* Types *)

LEMMA NoPrefsType == NoPrefs \in PrefsRow
  BY DEF NoPrefs, PrefsRow, Settings

LEMMA IdleType == Idle \in RequestRecord
  <1>1. (CHOOSE o \in Org : TRUE) \in Org /\ (CHOOSE u \in User : TRUE) \in User
    BY BillingAssumption
  <1>2. 1 \in Invoice /\ 0 \in 0..MaxRows
    BY BillingAssumption DEF Invoice
  <1>3. NoPrefs.preferences \in [Leaf -> Settings]
    BY DEF NoPrefs, Settings
  <1>4. QED
    BY <1>1, <1>2, <1>3 DEF Idle, RequestRecord, Settings

LEMMA TypeInit == Init => BillingTypeOK
  <1> SUFFICES ASSUME Init PROVE BillingTypeOK
    OBVIOUS
  <1>1. NoSub \in SubRow /\ NoInvoice \in InvoiceRow /\ NoRun \in JobRecord
    BY BillingAssumption DEF NoSub, SubRow, NoInvoice, InvoiceRow, NoRun, JobRecord
  <1>2. NoPrefs.preferences \in [Leaf -> Settings] /\ 0 \in 0..Grace /\ 0 \in 0..MaxFaults
    BY BillingAssumption DEF NoPrefs, Settings
  <1>3. QED
    BY <1>1, <1>2, NoPrefsType, IdleType DEF Init, BillingTypeOK

LEMMA DoneType ==
  ASSUME BillingTypeOK, NEW r \in Request, Done(r)
  PROVE  requests' \in [Request -> RequestRecord]
  BY IdleType DEF Done, BillingTypeOK

LEMMA BeginType ==
  ASSUME BillingTypeOK, NEW r \in Request, NEW record \in RequestRecord, Begin(r, record)
  PROVE  requests' \in [Request -> RequestRecord]
  BY DEF Begin, BillingTypeOK

LEMMA MergedType ==
  ASSUME NEW old \in [Leaf -> Settings], NEW new \in [Leaf -> Settings]
  PROVE  Merged(old, new) \in [Leaf -> Settings]
  BY DEF Merged

LEMMA DispatchType ==
  ASSUME BillingTypeOK, NEW recipients, NEW type \in MANDATORY_TYPES, Dispatch(recipients, type)
  PROVE  notices' \subseteq NoticeRow
  BY DEF BillingTypeOK, Dispatch, NoticeRow, MANDATORY_TYPES

LEMMA SoonerType ==
  ASSUME NEW n \in Nat, NEW d \in 0..n
  PROVE  Sooner(d) \in 0..n
  BY DEF Sooner

\* A row as Renew, and as StartGrace, leaves it.
LEMMA Renewed ==
  ASSUME NEW sub \in SubRow, NEW o \in Org
  PROVE  [sub EXCEPT !.org = o, !.periodLeft = Period, !.status = "active"]
           = [org |-> o, status |-> "active", periodLeft |-> Period, graceLeft |-> sub.graceLeft]
  <1> DEFINE a == [sub EXCEPT !.org = o]
             b == [a EXCEPT !.periodLeft = Period]
             c == [b EXCEPT !.status = "active"]
  <1>1. a = [org |-> o, status |-> sub.status, periodLeft |-> sub.periodLeft,
             graceLeft |-> sub.graceLeft]
    BY DEF SubRow
  <1>2. c = [sub EXCEPT !.org = o, !.periodLeft = Period, !.status = "active"]
    OBVIOUS
  <1> HIDE DEF a
  <1>3. b = [org |-> o, status |-> sub.status, periodLeft |-> Period, graceLeft |-> sub.graceLeft]
    BY <1>1
  <1> HIDE DEF b
  <1>4. c = [org |-> o, status |-> "active", periodLeft |-> Period, graceLeft |-> sub.graceLeft]
    BY <1>3
  <1> HIDE DEF c
  <1>5. QED
    BY <1>2, <1>4

LEMMA GraceStarted ==
  ASSUME NEW sub \in SubRow
  PROVE  [sub EXCEPT !.status = "grace_period", !.graceLeft = Grace]
           = [org |-> sub.org, status |-> "grace_period", periodLeft |-> sub.periodLeft,
              graceLeft |-> Grace]
  <1> DEFINE a == [sub EXCEPT !.status = "grace_period"]
             b == [a EXCEPT !.graceLeft = Grace]
  <1>1. a = [org |-> sub.org, status |-> "grace_period", periodLeft |-> sub.periodLeft,
             graceLeft |-> sub.graceLeft]
    BY DEF SubRow
  <1>2. b = [sub EXCEPT !.status = "grace_period", !.graceLeft = Grace]
    OBVIOUS
  <1> HIDE DEF a
  <1>3. b = [org |-> sub.org, status |-> "grace_period", periodLeft |-> sub.periodLeft,
             graceLeft |-> Grace]
    BY <1>1
  <1> HIDE DEF b
  <1>4. QED
    BY <1>2, <1>3

\* The row that Renew, and StartGrace, write.
RenewedRow(r) == [org |-> requests[r].org, status |-> "active", periodLeft |-> Period,
                  graceLeft |-> subs[RowToWrite(r)].graceLeft]
LapsedRow(s) == [org |-> subs[s].org, status |-> "grace_period",
                 periodLeft |-> subs[s].periodLeft, graceLeft |-> Grace]

LEMMA RenewWrites ==
  ASSUME BillingTypeOK, NEW r \in Request, Renew(r)
  PROVE  /\ RowToWrite(r) \in Row /\ subs[RowToWrite(r)] \in SubRow
         /\ RenewedRow(r) \in SubRow
         /\ subs' = [subs EXCEPT ![RowToWrite(r)] = RenewedRow(r)]
         /\ subs'[RowToWrite(r)] = RenewedRow(r)
         /\ \A t \in Row \ {RowToWrite(r)} : subs'[t] = subs[t]
  <1> DEFINE s == RowToWrite(r)
  <1>1. s \in Row /\ requests[r].org \in Org
    BY DEF Renew, BillingTypeOK, RequestRecord
  <1>2. subs[s] \in SubRow
    BY <1>1 DEF BillingTypeOK
  <1>3. RenewedRow(r) \in SubRow
    BY <1>1, <1>2, BillingAssumption DEF RenewedRow, SubRow
  <1>4. subs' = [subs EXCEPT ![s] = [subs[s] EXCEPT !.org = requests[r].org,
                                                   !.periodLeft = Period, !.status = "active"]]
    BY <1>1 DEF Renew, BillingTypeOK
  <1>5. subs' = [subs EXCEPT ![s] = RenewedRow(r)]
    BY <1>1, <1>2, <1>4, Renewed DEF RenewedRow
  <1>6. QED
    BY <1>1, <1>2, <1>3, <1>5 DEF BillingTypeOK

LEMMA StartGraceWrites ==
  ASSUME BillingTypeOK, NEW s \in Row, StartGrace(s)
  PROVE  /\ LapsedRow(s) \in SubRow
         /\ subs' = [subs EXCEPT ![s] = LapsedRow(s)]
         /\ subs'[s] = LapsedRow(s) /\ \A t \in Row \ {s} : subs'[t] = subs[t]
  <1>1. subs[s] \in SubRow
    BY DEF BillingTypeOK
  <1>2. LapsedRow(s) \in SubRow
    BY <1>1, BillingAssumption DEF LapsedRow, SubRow
  <1>3. subs' = [subs EXCEPT ![s] = [subs[s] EXCEPT !.status = "grace_period", !.graceLeft = Grace]]
    BY DEF StartGrace, BillingTypeOK
  <1>4. subs' = [subs EXCEPT ![s] = LapsedRow(s)]
    BY <1>1, <1>3, GraceStarted DEF LapsedRow
  <1>5. QED
    BY <1>2, <1>4 DEF BillingTypeOK

LEMMA WriteType ==
  ASSUME BillingTypeOK, NEW r \in Request, WritePreferences(r)
  PROVE  BillingTypeOK'
  <1> DEFINE q == requests[r]
             merged == Merged(q.read, q.asked.preferences)
  <1>1. q \in RequestRecord
    BY DEF BillingTypeOK
  <1>2. /\ q.user \in User /\ q.read \in [Leaf -> Settings]
        /\ q.asked.preferences \in [Leaf -> Settings]
    BY <1>1 DEF RequestRecord
  <1>3. merged \in [Leaf -> Settings]
    BY <1>2, MergedType
  <1> DEFINE row == [exists |-> TRUE, preferences |-> merged,
                     inApp |-> IF q.asked.inApp = "unset" THEN prefs[q.user].inApp
                               ELSE q.asked.inApp = "on"]
  <1>4. prefs[q.user].inApp \in BOOLEAN
    BY <1>2 DEF BillingTypeOK, PrefsRow
  <1>5. row \in PrefsRow
    BY <1>3, <1>4 DEF PrefsRow
  <1>6. prefs' = [prefs EXCEPT ![q.user] = row]
    BY DEF WritePreferences
  <1>7. prefs' \in [User -> PrefsRow]
    <2> HIDE DEF row
    <2> QED BY <1>5, <1>6 DEF BillingTypeOK
  <1>8. wished' \in [User -> [Leaf -> Settings]]
    BY <1>2 DEF WritePreferences, BillingTypeOK
  <1>9. QED
    BY <1>7, <1>8, DoneType DEF WritePreferences, BillingTypeOK

LEMMA TypeNext == BillingTypeOK /\ [Next]_vars => BillingTypeOK'
  <1> SUFFICES ASSUME BillingTypeOK, [Next]_vars PROVE BillingTypeOK'
    OBVIOUS
  <1> USE DEF BillingTypeOK, tables, history
  <1>0. Period \in Nat /\ Grace \in Nat /\ MaxRows \in Nat /\ MaxFaults \in Nat
    BY BillingAssumption
  <1>1. ASSUME NEW r \in Request, NEW o \in Org, StartRenew(r, o) PROVE BillingTypeOK'
    <2>1. PICK s \in IF RowsOf(o) = {} THEN {0} ELSE RowsOf(o) :
                 Begin(r, [Idle EXCEPT !.at = "renew", !.org = o, !.row = s])
      BY <1>1 DEF StartRenew
    <2>2. s \in 0..MaxRows
      BY <1>0 DEF RowsOf, Row
    <2>3. [Idle EXCEPT !.at = "renew", !.org = o, !.row = s] \in RequestRecord
      BY <2>2, IdleType DEF RequestRecord
    <2>4. requests' \in [Request -> RequestRecord]
      BY <2>1, <2>3, BeginType
    <2>5. QED
      BY <1>1, <2>4 DEF StartRenew
  <1>2. ASSUME NEW r \in Request, NEW o \in Org, NEW i \in Invoice, StartPay(r, o, i)
        PROVE  BillingTypeOK'
    <2>1. [Idle EXCEPT !.at = "pay", !.org = o, !.invoice = i] \in RequestRecord
      BY IdleType DEF RequestRecord
    <2>2. requests' \in [Request -> RequestRecord]
      BY <1>2, <2>1, BeginType DEF StartPay
    <2>3. QED
      BY <1>2, <2>2 DEF StartPay
  <1>3. ASSUME NEW r \in Request, NEW u \in User, NEW asked \in Asks,
               StartUpdatePreferences(r, u, asked)
        PROVE  BillingTypeOK'
    <2>1. asked \in [inApp : Settings, preferences : [Leaf -> Settings]]
      BY BillingAssumption DEF Settings
    <2>2. prefs[u].preferences \in [Leaf -> Settings]
      BY DEF PrefsRow
    <2>3. [Idle EXCEPT !.at = "find", !.user = u, !.asked = asked, !.read = prefs[u].preferences]
              \in RequestRecord
      BY <2>1, <2>2, IdleType DEF RequestRecord
    <2>4. requests' \in [Request -> RequestRecord]
      BY <1>3, <2>3, BeginType DEF StartUpdatePreferences
    <2>5. QED
      BY <1>3, <2>4 DEF StartUpdatePreferences
  <1>4. ASSUME NEW r \in Request, Renew(r) PROVE BillingTypeOK'
    <2> DEFINE s == RowToWrite(r)
    <2>1. s \in Row /\ subs[s] \in SubRow /\ RenewedRow(r) \in SubRow
      BY <1>4, RenewWrites
    <2>2. subs' \in [Row -> SubRow]
      BY <1>4, <2>1, RenewWrites
    <2>3. requests' \in [Request -> RequestRecord]
      <3>1. requests[r] \in RequestRecord
        OBVIOUS
      <3>2. [requests[r] EXCEPT !.at = "invoice"] \in RequestRecord
        BY <3>1 DEF RequestRecord
      <3>3. QED
        BY <1>4, <3>2 DEF Renew
    <2>4. raced' \subseteq Row
      BY <1>4, <2>1 DEF Renew
    <2>5. QED
      BY <1>4, <2>2, <2>3, <2>4 DEF Renew
  <1>5. ASSUME NEW r \in Request, CreateInvoice(r) PROVE BillingTypeOK'
    <2>1. requests[r].org \in Org
      BY DEF RequestRecord
    <2>2. [org |-> requests[r].org, status |-> "pending"] \in InvoiceRow
      BY <2>1 DEF InvoiceRow
    <2>3. invoices' \in [Invoice -> InvoiceRow]
      BY <1>5, <2>2 DEF CreateInvoice
    <2>4. QED
      BY <1>5, <2>3, DoneType DEF CreateInvoice
  <1>6. ASSUME NEW r \in Request, Pay(r) PROVE BillingTypeOK'
    <2>1. invoices' \in [Invoice -> InvoiceRow]
      BY <1>6 DEF Pay, InvoiceRow
    <2>2. QED
      BY <1>6, <2>1, DoneType DEF Pay
  <1>7. ASSUME NEW r \in Request, FindPreferences(r) PROVE BillingTypeOK'
    <2>1. \A at \in {"update", "insert"} : [requests[r] EXCEPT !.at = at] \in RequestRecord
      <3> DEFINE old == requests[r]
      <3>1. old \in RequestRecord
        OBVIOUS
      <3> HIDE DEF old
      <3>2. \A at \in {"update", "insert"} : [old EXCEPT !.at = at] \in RequestRecord
        BY <3>1 DEF RequestRecord
      <3>3. QED
        BY <3>2 DEF old
    <2>2. requests' \in [Request -> RequestRecord]
      BY <1>7, <2>1 DEF FindPreferences
    <2>3. QED
      BY <1>7, <2>2 DEF FindPreferences
  <1>8. ASSUME NEW r \in Request, UpdatePreferences(r) PROVE BillingTypeOK'
    BY <1>8, WriteType DEF UpdatePreferences
  <1>9. ASSUME NEW r \in Request, InsertPreferences(r) PROVE BillingTypeOK'
    BY <1>9, WriteType, DoneType DEF InsertPreferences
  <1>10. CASE FindExpiring
    BY <1>10 DEF FindExpiring, JobRecord
  <1>11. ASSUME NEW s \in Row, StartGrace(s) PROVE BillingTypeOK'
    <2>1. notices' \subseteq NoticeRow
      BY <1>11, DispatchType DEF StartGrace, MANDATORY_TYPES
    <2>2. subs' \in [Row -> SubRow]
      BY <1>11, StartGraceWrites
    <2>3. graceDays' \in [Row -> 0..Grace] /\ job' \in JobRecord
      BY <1>0, <1>11 DEF StartGrace, JobRecord
    <2>4. QED
      BY <1>11, <2>1, <2>2, <2>3 DEF StartGrace
  <1>12. CASE FindGracePeriodExpired
    BY <1>12 DEF FindGracePeriodExpired, JobRecord
  <1>13. ASSUME NEW s \in Row, Suspend(s) PROVE BillingTypeOK'
    <2>1. notices' \subseteq NoticeRow
      BY <1>13, DispatchType DEF Suspend, MANDATORY_TYPES
    <2>2. subs' \in [Row -> SubRow] /\ job' \in JobRecord
      BY <1>13 DEF Suspend, SubRow, JobRecord
    <2>3. QED
      BY <1>13, <2>1, <2>2 DEF Suspend
  <1>14. CASE FinishRun
    BY <1>14 DEF FinishRun, NoRun, JobRecord
  <1>15. ASSUME NEW s \in Row, SkipRow(s) PROVE BillingTypeOK'
    <2>1. job' \in JobRecord /\ faults' \in 0..MaxFaults
      BY <1>0, <1>15 DEF SkipRow, JobRecord
    <2>2. QED
      BY <1>15, <2>1 DEF SkipRow
  <1>16. CASE AbortRun
    <2>1. job' \in JobRecord /\ faults' \in 0..MaxFaults
      BY <1>0, <1>16 DEF AbortRun, NoRun, JobRecord
    <2>2. QED
      BY <1>16, <2>1 DEF AbortRun
  <1>17. ASSUME NEW r \in Request, Stop(r) PROVE BillingTypeOK'
    <2>1. requests' \in [Request -> RequestRecord] /\ faults' \in 0..MaxFaults
      BY <1>0, <1>17, DoneType DEF Stop
    <2>2. QED
      BY <1>17, <2>1 DEF Stop
  <1>18. CASE Day
    <2>1. \A s \in Row : /\ Sooner(subs[s].periodLeft) \in 0..Period
                         /\ Sooner(subs[s].graceLeft) \in 0..Grace
      BY <1>0, SoonerType DEF SubRow
    <2>2. subs' \in [Row -> SubRow]
      BY <1>18, <2>1 DEF Day, SubRow
    <2>a. \A s \in Row : (IF graceDays[s] < Grace THEN graceDays[s] + 1 ELSE Grace) \in 0..Grace
      BY <1>0
    <2>b. graceDays' \in [Row -> 0..Grace]
      BY <1>18, <2>a DEF Day
    <2>3. graceDays' \in [Row -> 0..Grace] /\ job' \in JobRecord
      BY <1>18, <2>b DEF Day, JobRecord
    <2>4. QED
      BY <1>18, <2>2, <2>3 DEF Day
  <1>19. CASE UNCHANGED vars
    BY <1>19 DEF vars
  <1>20. QED
    BY <1>1, <1>2, <1>3, <1>4, <1>5, <1>6, <1>7, <1>8, <1>9, <1>10, <1>11, <1>12, <1>13, <1>14,
       <1>15, <1>16, <1>17, <1>18, <1>19
       DEF Next, BillingController, NotificationsController, Handle, Monitor

\* The tables, the run of the monitor and the requests keep their form, whatever requests
\* are under way, whichever statement fails and however the monitor is cut short.
THEOREM BillingTypeCorrect == Spec => []BillingTypeOK
  BY TypeInit, TypeNext, PTL DEF Spec

-----------------------------------------------------------------------------
(* The monitor and the renewals *)

\* What keeps the promises to those who pay: the rows the monitor has selected are lapsed,
\* or were renewed since; those it is to suspend have had their days of grace, and the
\* dates of the others leave them enough.
MonitorInv ==
    /\ job.at \in {"idle", "findExpiring"} => job.todo = {}
    /\ \A s \in job.todo : subs[s].periodLeft > 0 => s \in raced
    /\ job.at = "suspend" => \A s \in job.todo : graceDays[s] = Grace
    /\ \A s \in Row : subs[s].status = "grace_period" => graceDays[s] + subs[s].graceLeft >= Grace

PaidInv == PaidIsActive /\ MonitorInv

LEMMA PaidInit == Init => PaidInv
  BY BillingAssumption DEF Init, PaidInv, PaidIsActive, MonitorInv, NoSub, NoRun

\* The numbers of a row.
LEMMA RowType ==
  ASSUME BillingTypeOK, NEW s \in Row
  PROVE  /\ subs[s] \in SubRow
         /\ subs[s].periodLeft \in Nat /\ subs[s].graceLeft \in Nat
         /\ graceDays[s] \in Nat /\ graceDays[s] <= Grace
         /\ Grace \in Nat
  BY BillingAssumption DEF BillingTypeOK, SubRow

LEMMA PaidNext == BillingTypeOK /\ PaidInv /\ [Next]_vars => PaidInv'
  <1> SUFFICES ASSUME BillingTypeOK, PaidInv, [Next]_vars PROVE PaidInv'
    OBVIOUS
  <1> USE DEF PaidInv, PaidIsActive, MonitorInv, tables, history
  <1>0. job.todo \subseteq Row
    BY DEF BillingTypeOK, JobRecord
  <1>1. ASSUME UNCHANGED <<subs, job, graceDays, raced>> PROVE PaidInv'
    BY <1>1
  <1>2. ASSUME NEW r \in Request, Renew(r) PROVE PaidInv'
    <2> DEFINE s == RowToWrite(r)
    <2>1. /\ s \in Row
          /\ subs'[s].status = "active" /\ \A t \in Row \ {s} : subs'[t] = subs[t]
      <3>1. s \in Row /\ subs'[s] = RenewedRow(r) /\ \A t \in Row \ {s} : subs'[t] = subs[t]
        BY <1>2, RenewWrites
      <3>2. QED
        BY <3>1 DEF RenewedRow
    <2>2. /\ job' = job /\ graceDays' = graceDays
          /\ raced' = IF s \in job.todo THEN raced \cup {s} ELSE raced \ {s}
      BY <1>2 DEF Renew
    <2> HIDE DEF s
    <2>3. PaidIsActive'
      BY <2>1, <2>2
    <2>4. QED
      BY <1>0, <2>1, <2>2, <2>3
  <1>3. CASE FindExpiring
    BY <1>3 DEF FindExpiring
  <1>4. ASSUME NEW s \in Row, StartGrace(s) PROVE PaidInv'
    <2>1. /\ subs'[s].status = "grace_period" /\ subs'[s].graceLeft = Grace
          /\ subs'[s].periodLeft = subs[s].periodLeft
          /\ \A t \in Row \ {s} : subs'[t] = subs[t]
      <3>1. subs'[s] = LapsedRow(s) /\ \A t \in Row \ {s} : subs'[t] = subs[t]
        BY <1>4, StartGraceWrites
      <3>2. QED
        BY <3>1 DEF LapsedRow
    <2>2. /\ s \in job.todo /\ job'.todo = job.todo \ {s} /\ job'.at = "grace"
          /\ raced' = raced
      BY <1>4 DEF StartGrace, BillingTypeOK, JobRecord
    <2>3. graceDays'[s] = 0 /\ \A t \in Row \ {s} : graceDays'[t] = graceDays[t]
      BY <1>4 DEF StartGrace, BillingTypeOK
    <2>4. PaidIsActive'
      BY <2>1, <2>2
    <2>5. \A t \in Row : subs'[t].status = "grace_period"
                            => graceDays'[t] + subs'[t].graceLeft >= Grace
      BY <2>1, <2>3, RowType
    <2>6. QED
      BY <1>0, <2>1, <2>2, <2>4, <2>5
  <1>5. CASE FindGracePeriodExpired
    <2>1. /\ job'.at = "suspend"
          /\ job'.todo = {s \in Row : subs[s].status = "grace_period" /\ subs[s].graceLeft = 0}
          /\ subs' = subs /\ graceDays' = graceDays /\ raced' = raced
      BY <1>5 DEF FindGracePeriodExpired
    <2>2. \A s \in job'.todo : graceDays[s] = Grace
      BY <2>1, RowType
    <2>3. QED
      BY <2>1, <2>2
  <1>6. ASSUME NEW s \in Row, Suspend(s) PROVE PaidInv'
    <2>1. /\ s \in job.todo /\ job'.todo = job.todo \ {s}
          /\ job'.at = "suspend" /\ job.at = "suspend"
          /\ raced' = raced /\ graceDays' = graceDays
      BY <1>6 DEF Suspend, BillingTypeOK, JobRecord
    <2>2. /\ subs'[s].status = "suspended" /\ subs'[s].periodLeft = subs[s].periodLeft
          /\ \A t \in Row \ {s} : subs'[t] = subs[t]
      BY <1>6, RowType DEF Suspend, SubRow, BillingTypeOK
    <2>3. QED
      BY <1>0, <2>1, <2>2
  <1>7. CASE FinishRun
    BY <1>7 DEF FinishRun, NoRun
  <1>8. ASSUME NEW s \in Row, SkipRow(s) PROVE PaidInv'
    <2>1. job'.todo = job.todo \ {s} /\ job'.at = job.at
      BY <1>8 DEF SkipRow, BillingTypeOK, JobRecord
    <2>2. QED
      BY <1>8, <2>1 DEF SkipRow
  <1>9. CASE AbortRun
    BY <1>9 DEF AbortRun, NoRun
  <1>10. CASE Day
    <2>1. job'.at = "findExpiring" /\ job'.todo = {} /\ raced' = raced
      BY <1>10 DEF Day
    <2>2. \A s \in Row : /\ subs'[s].status = subs[s].status
                         /\ subs'[s].periodLeft = Sooner(subs[s].periodLeft)
                         /\ subs'[s].graceLeft = Sooner(subs[s].graceLeft)
      BY <1>10, RowType DEF Day, SubRow
    <2>3. \A s \in Row : graceDays'[s] = IF graceDays[s] < Grace THEN graceDays[s] + 1 ELSE Grace
      BY <1>10 DEF Day
    <2>4. PaidIsActive'
      BY <2>1, <2>2, RowType DEF Sooner
    <2>5. \A s \in Row : subs'[s].status = "grace_period"
                            => graceDays'[s] + subs'[s].graceLeft >= Grace
      BY <2>2, <2>3, RowType DEF Sooner
    <2>6. QED
      BY <2>1, <2>4, <2>5
  <1>11. CASE UNCHANGED vars
    BY <1>1, <1>11 DEF vars
  <1>12. ASSUME NEW r \in Request, \/ BillingController(r) \/ NotificationsController(r)
                                  \/ CreateInvoice(r) \/ Pay(r) \/ FindPreferences(r)
                                  \/ UpdatePreferences(r) \/ InsertPreferences(r) \/ Stop(r)
         PROVE  PaidInv'
    BY <1>1, <1>12
       DEF BillingController, StartRenew, StartPay, NotificationsController,
           StartUpdatePreferences, CreateInvoice, Pay, FindPreferences, UpdatePreferences,
           InsertPreferences, WritePreferences, Stop
  <1>13. QED
    BY <1>2, <1>3, <1>4, <1>5, <1>6, <1>7, <1>8, <1>9, <1>10, <1>11, <1>12 DEF Next, Handle, Monitor

\* The rows of subscriptions, their grace and the runs of the monitor fit together: a row a run
\* has still to suspend has had its grace, or was paid for after the run selected it.
THEOREM PaidInvariant == Spec => []PaidInv
  BY PaidInit, PaidNext, BillingTypeCorrect, PTL DEF Spec

\* Who has paid for the period is not in a grace period nor suspended, however renewals,
\* runs of the monitor and failed statements interleave: only a renewal of a row that the
\* monitor has selected by then can be undone.
THEOREM PaidStaysActive == Spec => []PaidIsActive
  <1>1. PaidInv => PaidIsActive
    BY DEF PaidInv
  <1>2. QED
    BY <1>1, PaidInvariant, PTL

\* The update by id that suspends a row finds one that has had its full grace, although
\* the row may have changed since the monitor selected it.
THEOREM GraceIsGiven == Spec => SuspendedAfterGrace
  <1>1. BillingTypeOK /\ PaidInv /\ [Next]_vars
          => [\A s \in Row : subs[s].status # "suspended" /\ subs'[s].status = "suspended"
                                => graceDays[s] = Grace]_vars
    <2> SUFFICES ASSUME BillingTypeOK, PaidInv, Next, NEW s \in Row,
                        subs[s].status # "suspended", subs'[s].status = "suspended"
                 PROVE  graceDays[s] = Grace
      OBVIOUS
    <2>1. ASSUME UNCHANGED subs PROVE FALSE
      BY <2>1
    <2>2. ASSUME NEW r \in Request, Renew(r) PROVE FALSE
      <3>1. subs'[s] = subs[s] \/ subs'[s].status = "active"
        <4> DEFINE t == RowToWrite(r)
        <4>1. s # t => subs'[s] = subs[s]
          BY <2>2, RenewWrites
        <4>2. subs'[t] = RenewedRow(r)
          BY <2>2, RenewWrites
        <4>3. QED
          BY <4>1, <4>2 DEF RenewedRow
      <3>2. QED
        BY <3>1
    <2>3. ASSUME NEW t \in Row, StartGrace(t) PROVE FALSE
      <3>1. subs'[s] = subs[s] \/ subs'[s].status = "grace_period"
        <4>1. s # t => subs'[s] = subs[s]
          BY <2>3, StartGraceWrites
        <4>2. subs'[t] = LapsedRow(t)
          BY <2>3, StartGraceWrites
        <4>3. QED
          BY <4>1, <4>2 DEF LapsedRow
      <3>2. QED
        BY <3>1
    <2>4. ASSUME NEW t \in Row, Suspend(t) PROVE graceDays[s] = Grace
      <3>1. s = t
        BY <2>4 DEF Suspend, BillingTypeOK
      <3>2. QED
        BY <2>4, <3>1 DEF Suspend, PaidInv, MonitorInv
    <2>5. ASSUME Day PROVE FALSE
      <3>1. subs'[s].status = subs[s].status
        BY <2>5, RowType DEF Day, SubRow
      <3>2. QED
        BY <3>1
    <2>6. QED
      BY <2>1, <2>2, <2>3, <2>4, <2>5
         DEF Next, BillingController, StartRenew, StartPay, NotificationsController,
             StartUpdatePreferences, Handle, CreateInvoice, Pay, FindPreferences,
             UpdatePreferences, InsertPreferences, WritePreferences, Stop, Monitor,
             FindExpiring, FindGracePeriodExpired, FinishRun, AbortRun, SkipRow, tables
  <1>2. QED
    BY <1>1, BillingTypeCorrect, PaidInvariant, PTL DEF Spec, SuspendedAfterGrace

-----------------------------------------------------------------------------
(* Preferences *)

UpdatingSteps == {"find", "insert", "update"}

\* Two updates of one user's preferences under way are known to have overlapped, and one
\* that is alone has read what the table still holds.
SettingsInv ==
    /\ SettingsStay
    /\ \A r, q \in Request :
          /\ requests[r].at \in UpdatingSteps /\ requests[q].at \in UpdatingSteps
          /\ requests[r].user = requests[q].user /\ r # q
          => requests[r].user \in clashed
    /\ \A r \in Request :
          requests[r].at \in UpdatingSteps /\ requests[r].user \notin clashed
            => requests[r].read = prefs[requests[r].user].preferences

LEMMA SettingsInit == Init => SettingsInv
  BY DEF Init, SettingsInv, SettingsStay, Idle, UpdatingSteps

\* A request that comes to another step, or to its end, without a write.
LEMMA SettingsStep ==
  ASSUME BillingTypeOK, SettingsInv, NEW r \in Request, NEW record,
         requests' = [requests EXCEPT ![r] = record],
         \/ record.at \notin UpdatingSteps
         \/ /\ requests[r].at \in UpdatingSteps
            /\ record.user = requests[r].user /\ record.read = requests[r].read,
         UNCHANGED <<prefs, wished, clashed>>
  PROVE  SettingsInv'
  <1>1. requests'[r] = record /\ \A q \in Request \ {r} : requests'[q] = requests[q]
    BY DEF BillingTypeOK
  <1>2. QED
    BY <1>1 DEF SettingsInv, SettingsStay

LEMMA SettingsWrite ==
  ASSUME BillingTypeOK, SettingsInv, NEW r \in Request, WritePreferences(r),
         requests[r].at \in UpdatingSteps
  PROVE  SettingsInv'
  <1> DEFINE q == requests[r]
             merged == Merged(q.read, q.asked.preferences)
             wish == [l \in Leaf |-> IF q.asked.preferences[l] = "unset" THEN wished[q.user][l]
                                     ELSE q.asked.preferences[l]]
  <1>1. q \in RequestRecord /\ q.user \in User
    BY DEF BillingTypeOK, RequestRecord
  <1>2. prefs'[q.user].preferences = merged /\ wished'[q.user] = wish
    BY <1>1 DEF WritePreferences, BillingTypeOK
  <1>3. \A u \in User \ {q.user} : prefs'[u] = prefs[u] /\ wished'[u] = wished[u]
    BY DEF WritePreferences, BillingTypeOK
  <1>4. clashed' = clashed
    BY DEF WritePreferences
  <1>5. requests'[r].at = "idle" /\ \A p \in Request \ {r} : requests'[p] = requests[p]
    BY DEF WritePreferences, Done, Idle, BillingTypeOK
  <1>6. q.user \notin clashed => merged = wish
    <2> SUFFICES ASSUME q.user \notin clashed PROVE merged = wish
      OBVIOUS
    <2>1. q.read = wished[q.user]
      BY <1>1 DEF SettingsInv, SettingsStay
    <2>2. QED
      BY <2>1 DEF Merged
  <1>7. SettingsStay'
    BY <1>1, <1>2, <1>3, <1>4, <1>6 DEF SettingsInv, SettingsStay
  <1>8. \A p \in Request :
           requests'[p].at \in UpdatingSteps /\ requests'[p].user \notin clashed'
             => requests'[p].read = prefs'[requests'[p].user].preferences
    <2> SUFFICES ASSUME NEW p \in Request, requests'[p].at \in UpdatingSteps,
                        requests'[p].user \notin clashed'
                 PROVE  requests'[p].read = prefs'[requests'[p].user].preferences
      OBVIOUS
    <2>1. p # r /\ requests'[p] = requests[p]
      BY <1>5 DEF UpdatingSteps
    <2>2. requests[p].user # q.user
      BY <1>4, <2>1 DEF SettingsInv
    <2>3. requests[p].user \in User
      BY DEF BillingTypeOK, RequestRecord
    <2>4. QED
      BY <1>3, <1>4, <2>1, <2>2, <2>3 DEF SettingsInv
  <1>9. QED
    BY <1>4, <1>5, <1>7, <1>8 DEF SettingsInv, UpdatingSteps

LEMMA SettingsNext == BillingTypeOK /\ SettingsInv /\ [Next]_vars => SettingsInv'
  <1> SUFFICES ASSUME BillingTypeOK, SettingsInv, [Next]_vars PROVE SettingsInv'
    OBVIOUS
  <1> USE DEF tables, history
  <1>1. ASSUME UNCHANGED <<requests, prefs, wished, clashed>> PROVE SettingsInv'
    BY <1>1 DEF SettingsInv, SettingsStay
  <1>2. ASSUME NEW r \in Request, Done(r), UNCHANGED <<prefs, wished, clashed>> PROVE SettingsInv'
    BY <1>2, SettingsStep DEF Done, Idle, UpdatingSteps
  <1>3. ASSUME NEW r \in Request, NEW o \in Org, StartRenew(r, o) PROVE SettingsInv'
    <2>1. PICK s : Begin(r, [Idle EXCEPT !.at = "renew", !.org = o, !.row = s])
      BY <1>3 DEF StartRenew
    <2>2. [Idle EXCEPT !.at = "renew", !.org = o, !.row = s].at = "renew"
      BY DEF Idle
    <2>3. QED
      BY <1>3, <2>1, <2>2, SettingsStep DEF StartRenew, Begin, UpdatingSteps
  <1>4. ASSUME NEW r \in Request, NEW o \in Org, NEW i \in Invoice, StartPay(r, o, i)
        PROVE  SettingsInv'
    <2>1. [Idle EXCEPT !.at = "pay", !.org = o, !.invoice = i].at = "pay"
      BY DEF Idle
    <2>2. QED
      BY <1>4, <2>1, SettingsStep DEF StartPay, Begin, UpdatingSteps
  <1>5. ASSUME NEW r \in Request, NEW u \in User, NEW asked \in Asks,
               StartUpdatePreferences(r, u, asked)
        PROVE  SettingsInv'
    <2> DEFINE record == [Idle EXCEPT !.at = "find", !.user = u, !.asked = asked,
                                      !.read = prefs[u].preferences]
    <2>1. record.at = "find" /\ record.user = u /\ record.read = prefs[u].preferences
      BY DEF Idle
    <2>2. requests' = [requests EXCEPT ![r] = record]
      BY <1>5 DEF StartUpdatePreferences, Begin
    <2> HIDE DEF record
    <2>3. requests'[r] = record /\ \A q \in Request \ {r} : requests'[q] = requests[q]
      BY <2>2 DEF BillingTypeOK
    <2>4. /\ clashed \subseteq clashed' /\ prefs' = prefs /\ wished' = wished
          /\ Updating(u) => u \in clashed'
      BY <1>5 DEF StartUpdatePreferences
    <2>5. \A q \in Request \ {r} :
             requests[q].at \in UpdatingSteps /\ requests[q].user = u => u \in clashed'
      BY <2>4 DEF Updating, UpdatingSteps
    <2>6. SettingsStay'
      BY <2>4 DEF SettingsInv, SettingsStay
    <2>7. QED
      BY <2>1, <2>3, <2>4, <2>5, <2>6 DEF SettingsInv
  <1>6. ASSUME NEW r \in Request, Renew(r) PROVE SettingsInv'
    <2>1. [requests[r] EXCEPT !.at = "invoice"].at = "invoice"
      BY DEF BillingTypeOK, RequestRecord
    <2>2. requests' = [requests EXCEPT ![r] = [requests[r] EXCEPT !.at = "invoice"]]
      BY <1>6 DEF Renew, BillingTypeOK
    <2>3. QED
      BY <1>6, <2>1, <2>2, SettingsStep DEF Renew, UpdatingSteps
  <1>7. ASSUME NEW r \in Request, FindPreferences(r) PROVE SettingsInv'
    <2>1. PICK at \in {"update", "insert"} : requests' = [requests EXCEPT ![r].at = at]
      BY <1>7 DEF FindPreferences
    <2> DEFINE record == [requests[r] EXCEPT !.at = at]
    <2>2. requests' = [requests EXCEPT ![r] = record]
      BY <2>1 DEF BillingTypeOK
    <2>3. record.user = requests[r].user /\ record.read = requests[r].read
      BY DEF BillingTypeOK, RequestRecord
    <2> HIDE DEF record
    <2>4. QED
      BY <1>7, <2>2, <2>3, SettingsStep DEF FindPreferences, UpdatingSteps
  <1>8. ASSUME NEW r \in Request, UpdatePreferences(r) PROVE SettingsInv'
    BY <1>8, SettingsWrite DEF UpdatePreferences, UpdatingSteps
  <1>9. ASSUME NEW r \in Request, InsertPreferences(r) PROVE SettingsInv'
    BY <1>2, <1>9, SettingsWrite DEF InsertPreferences, UpdatingSteps
  <1>10. ASSUME NEW r \in Request, CreateInvoice(r) \/ Pay(r) \/ Stop(r) PROVE SettingsInv'
    BY <1>2, <1>10 DEF CreateInvoice, Pay, Stop
  <1>11. CASE \/ Monitor \/ Day \/ AbortRun \/ \E s \in Row : SkipRow(s)
    BY <1>1, <1>11
       DEF Monitor, FindExpiring, FindGracePeriodExpired, FinishRun, StartGrace, Suspend, Day,
           AbortRun, SkipRow
  <1>12. CASE UNCHANGED vars
    BY <1>1, <1>12 DEF vars
  <1>13. QED
    BY <1>3, <1>4, <1>5, <1>6, <1>7, <1>8, <1>9, <1>10, <1>11, <1>12
       DEF Next, BillingController, NotificationsController, Handle

\* What updatePreferences answered with success stays in the row until the user's next
\* update, as long as his updates do not overlap: the document it merges with was read
\* before the row was looked for and written.
THEOREM SettingsAreKept == Spec => []SettingsStay
  <1>1. SettingsInv => SettingsStay
    BY DEF SettingsInv
  <1>2. QED
    BY <1>1, SettingsInit, SettingsNext, BillingTypeCorrect, PTL DEF Spec
=============================================================================

------------------------------- MODULE Accounts ------------------------------
(***************************************************************************)
(* Organisations, their users and invite codes: the orgs service of the    *)
(* API over the rows of three tables, which it reads and writes one        *)
(* statement at a time, without a transaction.  A request is split at its  *)
(* awaits: between two of them the requests of others run, and any of them *)
(* may be the last (a failed statement or the end of the process).         *)
(*                                                                         *)
(* Who a caller is comes from the claims of his token.  They are copied    *)
(* from the users row when he logs in and from the session afterwards, and *)
(* nothing brings them up to date.                                         *)
(***************************************************************************)
EXTENDS Integers, FiniteSets

CONSTANTS
    User, Org, Code,
    MaxRequests,    \* requests of joinOrg and createOrg under way at once
    MaxUsesInputs,  \* values of maxUses in a generateInvite
    NoOrg, NoUser

ASSUME AccountsAssumption ==
    /\ User # {} /\ Code # {}
    /\ MaxRequests \in Nat
    /\ MaxUsesInputs \subseteq Nat \ {0}
    /\ NoOrg \notin Org /\ NoUser \notin User

VARIABLES
    users,       \* rows of users
    orgs,        \* rows of organizations: the creator, or NoUser for no row
    invites,     \* rows of invite_codes; maxUses 0 for no row
    sessionOrg,  \* orgId of the session of a user
    token,       \* the claims of his access token
    requests,
    admissions,  \* history: how often a user was put into an organisation,
    joins,       \*   and through which code;
    ruled,       \*   who passed as an administrator of what;
    overlapped,  \*   users with two requests under way at once;
    faulty       \*   codes with a request that stopped half-way

rows    == <<users, orgs, invites>>
claims  == <<sessionOrg, token>>
history == <<admissions, joins, ruled, overlapped, faulty>>
vars    == <<rows, claims, requests, history>>

Request == 1..MaxRequests

\* The bits of role_in_org that the service sets.
Roles == {"viewer", "org_admin"}

UserRow   == [org : Org \cup {NoOrg}, role : SUBSET Roles]
InviteRow == [org : Org \cup {NoOrg}, maxUses : MaxUsesInputs \cup {0}, uses : Nat, expired : BOOLEAN]
NewUser   == [org |-> NoOrg, role |-> {"viewer"}]
NoInvite  == [org |-> NoOrg, maxUses |-> 0, uses |-> 0, expired |-> FALSE]

\* A request: the statement it runs next, and what it has read so far.
RequestRecord ==
    [at : {"idle", "insert", "invite", "admit", "count"}, user : User, code : Code,
     org : Org \cup {NoOrg}, role : SUBSET Roles, invite : InviteRow, joining : BOOLEAN]

Idle == [at |-> "idle", user |-> CHOOSE u \in User : TRUE, code |-> CHOOSE c \in Code : TRUE,
         org |-> NoOrg, role |-> {}, invite |-> NoInvite, joining |-> FALSE]

Done(r) == requests' = [requests EXCEPT ![r] = Idle]

-----------------------------------------------------------------------------
(* Claims *)

\* verifyAndLogin from the upsert of the user on: the session and the token copy his row.
Login(u) ==
    /\ sessionOrg' = [sessionOrg EXCEPT ![u] = users[u].org]
    /\ token' = [token EXCEPT ![u] = users[u]]
    /\ UNCHANGED <<rows, requests, history>>

\* refresh: the organisation of the session, and no role.
Refresh(u) ==
    /\ token' = [token EXCEPT ![u] = [org |-> sessionOrg[u], role |-> {}]]
    /\ UNCHANGED <<rows, sessionOrg, requests, history>>

IsOrgAdmin(u, o) == token[u].org = o /\ "org_admin" \in token[u].role

\* Whoever passes the checks of updateOrg changes name and legal name.
UpdateOrg(u, o) ==
    /\ IsOrgAdmin(u, o)
    /\ ruled' = ruled \cup {<<u, o>>}
    /\ UNCHANGED <<rows, claims, requests, admissions, joins, overlapped, faulty>>

\* generateInvite; the code is drawn at random and unique.  The role asked for is
\* answered but not stored.
GenerateInvite(u, o, c, maxUses) ==
    /\ IsOrgAdmin(u, o)
    /\ invites[c] = NoInvite
    /\ invites' = [invites EXCEPT ![c] = [NoInvite EXCEPT !.org = o, !.maxUses = maxUses]]
    /\ ruled' = ruled \cup {<<u, o>>}
    /\ UNCHANGED <<users, orgs, claims, requests, admissions, joins, overlapped, faulty>>

ExpireInvite(c) ==
    /\ invites[c] # NoInvite /\ ~invites[c].expired
    /\ invites' = [invites EXCEPT ![c].expired = TRUE]
    /\ UNCHANGED <<users, orgs, claims, requests, history>>

-----------------------------------------------------------------------------
(* Requests that change who belongs where.  One that is refused leaves no trace. *)

\* The request has read a user without an organisation.
Begin(r, u, s, c) ==
    /\ requests[r].at = "idle" /\ \A q \in 1..(r - 1) : requests[q].at # "idle"
    /\ requests' = [requests EXCEPT ![r] = [Idle EXCEPT !.at = s, !.user = u, !.code = c,
                                                        !.joining = (s = "invite")]]
    /\ overlapped' = overlapped \cup
                       (IF \E q \in Request : requests[q].at # "idle" /\ requests[q].user = u
                        THEN {u} ELSE {})
    /\ UNCHANGED <<rows, claims, admissions, joins, ruled, faulty>>

StartCreateOrg(r, u) == users[u].org = NoOrg /\ Begin(r, u, "insert", Idle.code)

\* Mutant: joinOrg does not look at the user's organisation.
StartJoinOrg_AnyUser(r, u, c) == Begin(r, u, "invite", c)

StartJoinOrg(r, u, c) == users[u].org = NoOrg /\ Begin(r, u, "invite", c)

\* createOrg: the row of the organisation.
InsertOrg(r, o) ==
    /\ requests[r].at = "insert" /\ orgs[o] = NoUser
    /\ orgs' = [orgs EXCEPT ![o] = requests[r].user]
    /\ requests' = [requests EXCEPT ![r] = [@ EXCEPT !.at = "admit", !.org = o, !.role = {"org_admin"}]]
    /\ UNCHANGED <<users, invites, claims, history>>

\* joinOrg: the row of the code, which must neither have expired nor be used up.
CheckInvite(r) ==
    LET invite == invites[requests[r].code]
    IN /\ requests[r].at = "invite"
       /\ IF invite # NoInvite /\ ~invite.expired /\ invite.uses < invite.maxUses
          THEN requests' = [requests EXCEPT ![r] = [@ EXCEPT !.at = "admit", !.org = invite.org,
                                                            !.role = {"viewer"}, !.invite = invite]]
          ELSE Done(r)
       /\ UNCHANGED <<rows, claims, history>>

\* Mutant: the update of a joiner leaves his role alone.
AdmitUser_KeepsRole(r) ==
    LET q == requests[r]
    IN /\ q.at = "admit"
       /\ users' = [users EXCEPT ![q.user] = [org |-> q.org,
                                              role |-> IF q.joining THEN users[q.user].role ELSE q.role]]
       /\ admissions' = [admissions EXCEPT ![q.user] = @ + 1]
       /\ joins' = IF q.joining THEN [joins EXCEPT ![q.code] = @ + 1] ELSE joins
       /\ IF q.joining THEN requests' = [requests EXCEPT ![r].at = "count"] ELSE Done(r)
       /\ UNCHANGED <<orgs, invites, claims, ruled, overlapped, faulty>>

\* users.update, with the organisation and the role together: the end of createOrg, and
\* of joinOrg the statement before its use of the code is counted.
AdmitUser(r) ==
    LET q == requests[r]
    IN /\ q.at = "admit"
       /\ users' = [users EXCEPT ![q.user] = [org |-> q.org, role |-> q.role]]
       /\ admissions' = [admissions EXCEPT ![q.user] = @ + 1]
       /\ joins' = IF q.joining THEN [joins EXCEPT ![q.code] = @ + 1] ELSE joins
       /\ IF q.joining THEN requests' = [requests EXCEPT ![r].at = "count"] ELSE Done(r)
       /\ UNCHANGED <<orgs, invites, claims, ruled, overlapped, faulty>>

\* Mutant: the new value is computed from the row that was checked.
IncrementUses_FromRow(r) ==
    LET q == requests[r]
    IN /\ q.at = "count"
       /\ invites' = [invites EXCEPT ![q.code].uses = q.invite.uses + 1]
       /\ Done(r)
       /\ UNCHANGED <<users, orgs, claims, history>>

\* Mutant: the table has no chk_invite_uses.
IncrementUses_NoCheck(r) ==
    LET q == requests[r]
    IN /\ q.at = "count"
       /\ invites' = [invites EXCEPT ![q.code].uses = @ + 1]
       /\ Done(r)
       /\ UNCHANGED <<users, orgs, claims, history>>

\* incrementUses adds one in the database, unless chk_invite_uses refuses it.
IncrementUses(r) ==
    LET q == requests[r]
    IN /\ q.at = "count"
       /\ invites' = [invites EXCEPT ![q.code].uses =
                        IF @ < invites[q.code].maxUses THEN @ + 1 ELSE @]
       /\ Done(r)
       /\ UNCHANGED <<users, orgs, claims, history>>

\* A statement fails, or the process ends: what was written stays.
Stop(r) ==
    /\ requests[r].at # "idle"
    /\ Done(r)
    /\ faulty' = faulty \cup (IF requests[r].at = "count" THEN {requests[r].code} ELSE {})
    /\ UNCHANGED <<rows, claims, admissions, joins, ruled, overlapped>>

-----------------------------------------------------------------------------
Init ==
    /\ users = [u \in User |-> NewUser]
    /\ orgs = [o \in Org |-> NoUser]
    /\ invites = [c \in Code |-> NoInvite]
    /\ sessionOrg = [u \in User |-> NoOrg]
    /\ token = [u \in User |-> NewUser]
    /\ requests = [r \in Request |-> Idle]
    /\ admissions = [u \in User |-> 0]
    /\ joins = [c \in Code |-> 0]
    /\ ruled = {}
    /\ overlapped = {}
    /\ faulty = {}

\* The routes that write, for user u: two of them as a request of several statements.
OrgsController(u) ==
    \/ \E r \in Request : StartCreateOrg(r, u) \/ \E c \in Code : StartJoinOrg(r, u, c)
    \/ \E o \in Org :
          UpdateOrg(u, o) \/ \E c \in Code, n \in MaxUsesInputs : GenerateInvite(u, o, c, n)

Next ==
    \/ \E u \in User : Login(u) \/ Refresh(u) \/ OrgsController(u)
    \/ \E c \in Code : ExpireInvite(c)
    \/ \E r \in Request :
         \/ \E o \in Org : InsertOrg(r, o)
         \/ CheckInvite(r) \/ AdmitUser(r) \/ IncrementUses(r) \/ Stop(r)

Spec == Init /\ [][Next]_vars

-----------------------------------------------------------------------------
(* Properties *)

\* Rows and requests have the form of the tables and of the handlers' variables, and
\* chk_invite_uses holds.
AccountsTypeOK ==
    /\ users \in [User -> UserRow]
    /\ orgs \in [Org -> User \cup {NoUser}]
    /\ invites \in [Code -> InviteRow]
    /\ \A c \in Code : invites[c].uses <= invites[c].maxUses
    /\ sessionOrg \in [User -> Org \cup {NoOrg}]
    /\ token \in [User -> UserRow]
    /\ requests \in [Request -> RequestRecord]
    /\ admissions \in [User -> Nat]
    /\ joins \in [Code -> Nat]
    /\ ruled \subseteq User \X Org
    /\ overlapped \subseteq User
    /\ faulty \subseteq Code

\* Only its creator administers an organisation, although a user who creates one and
\* joins another at the same time ends up in either of them.
OnlyCreatorRules == \A p \in ruled : orgs[p[2]] = p[1]

\* A user whose requests do not overlap is admitted once: repeating a request that
\* failed half-way, or whose answer was lost, moves him nowhere.
OneAdmission == \A u \in User \ overlapped : admissions[u] <= 1

\* Once its requests have finished, a code has counted every user it admitted, up to
\* its limit, however they interleaved.
UsesCountAdmissions ==
    \A c \in Code \ faulty :
        (\A r \in Request : requests[r].at = "idle" \/ requests[r].code # c)
            => invites[c].uses = IF joins[c] < invites[c].maxUses THEN joins[c] ELSE invites[c].maxUses

\* "concurrent invite use - second join fails when uses exhausted": a code admits no
\* more users than it may.
InviteWithinLimit == \A c \in Code : joins[c] <= invites[c].maxUses
=============================================================================

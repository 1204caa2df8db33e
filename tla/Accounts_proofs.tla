--------------------------- MODULE Accounts_proofs ---------------------------
(***************************************************************************)
(* Proofs about Accounts: for any number of users, organisations, codes    *)
(* and requests under way.                                                 *)
(***************************************************************************)
EXTENDS Accounts, FiniteSetTheorems, TLAPS

-----------------------------------------------------------------------------
(* Types *)

LEMMA IdleType == Idle \in RequestRecord
  <1>1. (CHOOSE u \in User : TRUE) \in User
    BY AccountsAssumption
  <1>2. (CHOOSE c \in Code : TRUE) \in Code
    BY AccountsAssumption
  <1>3. NoInvite \in InviteRow
    BY DEF NoInvite, InviteRow
  <1>4. QED
    BY <1>1, <1>2, <1>3 DEF Idle, RequestRecord

LEMMA TypeInit == Init => AccountsTypeOK
  <1> SUFFICES ASSUME Init PROVE AccountsTypeOK
    OBVIOUS
  <1>1. NewUser \in UserRow /\ NoInvite \in InviteRow
    BY DEF NewUser, NoInvite, UserRow, InviteRow, Roles
  <1>2. \A c \in Code : invites[c].uses <= invites[c].maxUses
    BY DEF Init, NoInvite
  <1>3. QED
    BY <1>1, <1>2, IdleType DEF Init, AccountsTypeOK

\* What a request refers to.
LEMMA RequestType ==
  ASSUME AccountsTypeOK, NEW r \in Request
  PROVE  /\ requests[r] \in RequestRecord
         /\ requests[r].user \in User
         /\ requests[r].code \in Code
         /\ invites[requests[r].code] \in InviteRow
  <1>1. requests[r] \in RequestRecord
    BY DEF AccountsTypeOK
  <1>2. requests[r].user \in User /\ requests[r].code \in Code
    BY <1>1 DEF RequestRecord
  <1>3. QED
    BY <1>1, <1>2 DEF AccountsTypeOK

LEMMA InviteCounts ==
  ASSUME AccountsTypeOK, NEW c \in Code
  PROVE  /\ invites[c].uses \in Nat
         /\ invites[c].maxUses \in Nat
         /\ invites[c].uses <= invites[c].maxUses
  <1>1. invites[c] \in InviteRow
    BY DEF AccountsTypeOK
  <1>2. invites[c].maxUses \in MaxUsesInputs \cup {0} /\ invites[c].uses \in Nat
    BY <1>1 DEF InviteRow
  <1>3. MaxUsesInputs \cup {0} \subseteq Nat
    BY AccountsAssumption
  <1>4. invites[c].uses <= invites[c].maxUses
    BY DEF AccountsTypeOK
  <1>5. invites[c].maxUses \in Nat
    BY <1>2, <1>3
  <1>6. QED
    BY <1>2, <1>4, <1>5

LEMMA TypeNext == AccountsTypeOK /\ [Next]_vars => AccountsTypeOK'
  <1> SUFFICES ASSUME AccountsTypeOK, [Next]_vars PROVE AccountsTypeOK'
    OBVIOUS
  <1> USE DEF AccountsTypeOK, rows, claims, history
  <1>1. ASSUME NEW u \in User, Login(u) PROVE AccountsTypeOK'
    BY <1>1 DEF Login, UserRow
  <1>2. ASSUME NEW u \in User, Refresh(u) PROVE AccountsTypeOK'
    BY <1>2 DEF Refresh, UserRow
  <1>3. ASSUME NEW r \in Request, NEW u \in User, NEW c \in Code,
               NEW s \in {"insert", "invite"}, Begin(r, u, s, c)
        PROVE  AccountsTypeOK'
    <2>1. [Idle EXCEPT !.at = s, !.user = u, !.code = c, !.joining = (s = "invite")]
              \in RequestRecord
      BY IdleType DEF RequestRecord
    <2>2. requests' \in [Request -> RequestRecord]
      BY <1>3, <2>1 DEF Begin
    <2>3. overlapped' \subseteq User
      BY <1>3 DEF Begin
    <2>4. QED
      BY <1>3, <2>2, <2>3 DEF Begin
  <1>4. ASSUME NEW r \in Request, NEW u \in User, StartCreateOrg(r, u) PROVE AccountsTypeOK'
    <2>1. Idle.code \in Code
      BY IdleType DEF RequestRecord
    <2>2. QED
      BY <1>3, <1>4, <2>1 DEF StartCreateOrg
  <1>5. ASSUME NEW r \in Request, NEW u \in User, NEW c \in Code, StartJoinOrg(r, u, c)
        PROVE  AccountsTypeOK'
    BY <1>3, <1>5 DEF StartJoinOrg
  <1>6. ASSUME NEW u \in User, NEW o \in Org, UpdateOrg(u, o) PROVE AccountsTypeOK'
    BY <1>6 DEF UpdateOrg
  <1>7. ASSUME NEW u \in User, NEW o \in Org, NEW c \in Code, NEW n \in MaxUsesInputs,
               GenerateInvite(u, o, c, n)
        PROVE  AccountsTypeOK'
    <2>1. n \in Nat /\ n >= 0
      BY AccountsAssumption
    <2> DEFINE row == [NoInvite EXCEPT !.org = o, !.maxUses = n]
    <2>2. row \in InviteRow /\ row.uses = 0 /\ row.maxUses = n
      BY <2>1 DEF NoInvite, InviteRow
    <2>3. invites' = [invites EXCEPT ![c] = row]
      BY <1>7 DEF GenerateInvite
    <2> HIDE DEF row
    <2>4. invites' \in [Code -> InviteRow]
      BY <2>2, <2>3
    <2>5. \A d \in Code : invites'[d].uses <= invites'[d].maxUses
      BY <2>1, <2>2, <2>3
    <2>6. QED
      BY <1>7, <2>4, <2>5 DEF GenerateInvite
  <1>8. ASSUME NEW c \in Code, ExpireInvite(c) PROVE AccountsTypeOK'
    BY <1>8 DEF ExpireInvite, InviteRow
  <1>9. ASSUME NEW r \in Request, NEW o \in Org, InsertOrg(r, o) PROVE AccountsTypeOK'
    <2>1. [requests[r] EXCEPT !.at = "admit", !.org = o, !.role = {"org_admin"}] \in RequestRecord
      BY DEF RequestRecord, Roles
    <2>2. requests' \in [Request -> RequestRecord]
      BY <1>9, <2>1 DEF InsertOrg
    <2>3. orgs' \in [Org -> User \cup {NoUser}]
      BY <1>9 DEF InsertOrg, RequestRecord
    <2>4. QED
      BY <1>9, <2>3, <2>2 DEF InsertOrg
  <1>10. ASSUME NEW r \in Request, Done(r) PROVE requests' \in [Request -> RequestRecord]
    BY <1>10, IdleType DEF Done
  <1>11. ASSUME NEW r \in Request, CheckInvite(r) PROVE AccountsTypeOK'
    <2>1. requests[r] \in RequestRecord /\ invites[requests[r].code] \in InviteRow
      BY RequestType
    <2> DEFINE invite == invites[requests[r].code]
    <2>2. [requests[r] EXCEPT !.at = "admit", !.org = invite.org, !.role = {"viewer"},
                              !.invite = invite] \in RequestRecord
      BY <2>1 DEF RequestRecord, InviteRow, Roles
    <2>3. requests' \in [Request -> RequestRecord]
      BY <1>10, <1>11, <2>2 DEF CheckInvite
    <2>4. QED
      BY <1>11, <2>3 DEF CheckInvite
  <1>12. ASSUME NEW r \in Request, AdmitUser(r) PROVE AccountsTypeOK'
    <2>1. requests[r] \in RequestRecord
      OBVIOUS
    <2>2. users' \in [User -> UserRow]
      BY <1>12, <2>1 DEF AdmitUser, RequestRecord, UserRow
    <2>3. admissions' \in [User -> Nat] /\ joins' \in [Code -> Nat]
      BY <1>12, <2>1 DEF AdmitUser, RequestRecord
    <2>4. requests' \in [Request -> RequestRecord]
      BY <1>10, <1>12, <2>1 DEF AdmitUser, RequestRecord
    <2>5. QED
      BY <1>12, <2>2, <2>3, <2>4 DEF AdmitUser
  <1>13. ASSUME NEW r \in Request, IncrementUses(r) PROVE AccountsTypeOK'
    <2> DEFINE c == requests[r].code
    <2>1. c \in Code /\ invites[c] \in InviteRow
      BY RequestType
    <2>2. /\ invites[c].uses \in Nat /\ invites[c].maxUses \in Nat
          /\ invites[c].uses <= invites[c].maxUses
      BY <2>1, InviteCounts
    <2> DEFINE n == IF invites[c].uses < invites[c].maxUses
                    THEN invites[c].uses + 1 ELSE invites[c].uses
    <2>3. n \in Nat /\ n <= invites[c].maxUses
      BY <2>2
    <2>4. invites' = [invites EXCEPT ![c].uses = n]
      BY <1>13 DEF IncrementUses
    <2> HIDE DEF n, c
    <2>5. invites' \in [Code -> InviteRow] /\ \A d \in Code : invites'[d].uses <= invites'[d].maxUses
      BY <2>1, <2>3, <2>4 DEF InviteRow
    <2>6. requests' \in [Request -> RequestRecord]
      BY <1>10, <1>13 DEF IncrementUses
    <2>7. QED
      BY <1>13, <2>5, <2>6 DEF IncrementUses
  <1>14. ASSUME NEW r \in Request, Stop(r) PROVE AccountsTypeOK'
    <2>1. requests[r].code \in Code
      BY RequestType
    <2>2. requests' \in [Request -> RequestRecord]
      BY <1>10, <1>14 DEF Stop
    <2>3. QED
      BY <1>14, <2>1, <2>2 DEF Stop
  <1>15. CASE UNCHANGED vars
    BY <1>15 DEF vars
  <1>16. QED
    BY <1>1, <1>2, <1>4, <1>5, <1>6, <1>7, <1>8, <1>9, <1>11, <1>12, <1>13, <1>14, <1>15
    DEF Next, OrgsController

\* Rows and requests have the form of the tables and of the handlers' variables, and
\* chk_invite_uses holds, whatever the requests do and wherever they stop.
THEOREM AccountsTypes == Spec => []AccountsTypeOK
  BY TypeInit, TypeNext, PTL DEF Spec

-----------------------------------------------------------------------------
(* Who administers an organisation *)

(* Whoever is called an administrator of an organisation, in his row, in his *)
(* token or in a request of his under way, is its creator; and the creator   *)
(* of an organisation never changes.                                         *)
Creator(u, o) == o \in Org /\ orgs[o] = u

AdminsAreCreators ==
    /\ \A u \in User : "org_admin" \in users[u].role => Creator(u, users[u].org)
    /\ \A u \in User : "org_admin" \in token[u].role => Creator(u, token[u].org)
    /\ \A r \in Request :
          "org_admin" \in requests[r].role => Creator(requests[r].user, requests[r].org)

RulersInv == AccountsTypeOK /\ AdminsAreCreators /\ OnlyCreatorRules

LEMMA RulersInit == Init => AdminsAreCreators /\ OnlyCreatorRules
  BY DEF Init, AdminsAreCreators, OnlyCreatorRules, NewUser, Idle

LEMMA RulersNext == RulersInv /\ [Next]_vars => AdminsAreCreators' /\ OnlyCreatorRules'
  <1> SUFFICES ASSUME RulersInv, [Next]_vars PROVE AdminsAreCreators' /\ OnlyCreatorRules'
    OBVIOUS
  <1> USE DEF RulersInv, rows, claims, history
  \* A step that leaves the organisations alone keeps the creators.
  <1>1. ASSUME orgs' = orgs, UNCHANGED <<users, token, ruled>>,
               \A r \in Request : \/ requests'[r] = requests[r]
                                  \/ "org_admin" \notin requests'[r].role
        PROVE  AdminsAreCreators' /\ OnlyCreatorRules'
    BY <1>1 DEF AdminsAreCreators, OnlyCreatorRules, Creator
  <1>2. ASSUME NEW u \in User, Login(u) PROVE AdminsAreCreators' /\ OnlyCreatorRules'
    <2>1. \A v \in User : token'[v] = token[v] \/ (v = u /\ token'[v] = users[u])
      BY <1>2 DEF Login, AccountsTypeOK
    <2>2. QED
      BY <1>2, <2>1 DEF Login, AdminsAreCreators, OnlyCreatorRules, Creator
  <1>3. ASSUME NEW u \in User, Refresh(u) PROVE AdminsAreCreators' /\ OnlyCreatorRules'
    <2>1. \A v \in User : token'[v] = token[v] \/ token'[v].role = {}
      BY <1>3 DEF Refresh, AccountsTypeOK
    <2>2. QED
      BY <1>3, <2>1 DEF Refresh, AdminsAreCreators, OnlyCreatorRules, Creator
  <1>4. ASSUME NEW r \in Request, Done(r)
        PROVE  \A q \in Request : \/ requests'[q] = requests[q]
                                  \/ "org_admin" \notin requests'[q].role
    BY <1>4 DEF Done, Idle, AccountsTypeOK
  <1>5. ASSUME NEW r \in Request, NEW u \in User, NEW c, NEW s, Begin(r, u, s, c)
        PROVE  AdminsAreCreators' /\ OnlyCreatorRules'
    <2> DEFINE q == [Idle EXCEPT !.at = s, !.user = u, !.code = c, !.joining = (s = "invite")]
    <2>1. q.role = {}
      BY DEF Idle
    <2>2. requests' = [requests EXCEPT ![r] = q]
      BY <1>5 DEF Begin
    <2> HIDE DEF q
    <2>3. \A p \in Request : \/ requests'[p] = requests[p]
                             \/ "org_admin" \notin requests'[p].role
      BY <2>1, <2>2 DEF AccountsTypeOK
    <2>4. QED
      BY <1>1, <1>5, <2>3 DEF Begin
  <1>6. ASSUME NEW u \in User, NEW o \in Org, IsOrgAdmin(u, o) PROVE orgs[o] = u
    BY <1>6 DEF IsOrgAdmin, AdminsAreCreators, Creator
  <1>7. ASSUME NEW u \in User, NEW o \in Org, UpdateOrg(u, o)
        PROVE  AdminsAreCreators' /\ OnlyCreatorRules'
    BY <1>6, <1>7 DEF UpdateOrg, AdminsAreCreators, OnlyCreatorRules, Creator
  <1>8. ASSUME NEW u \in User, NEW o \in Org, NEW c \in Code, NEW n \in MaxUsesInputs,
               GenerateInvite(u, o, c, n)
        PROVE  AdminsAreCreators' /\ OnlyCreatorRules'
    BY <1>6, <1>8 DEF GenerateInvite, AdminsAreCreators, OnlyCreatorRules, Creator
  <1>9. ASSUME NEW c \in Code, ExpireInvite(c) PROVE AdminsAreCreators' /\ OnlyCreatorRules'
    BY <1>1, <1>9 DEF ExpireInvite
  \* The row of a new organisation was nobody's.
  <1>10. ASSUME NEW r \in Request, NEW o \in Org, InsertOrg(r, o)
         PROVE  AdminsAreCreators' /\ OnlyCreatorRules'
    <2>1. requests[r].user \in User
      BY RequestType
    <2>2. /\ orgs[o] = NoUser
          /\ orgs' = [orgs EXCEPT ![o] = requests[r].user]
          /\ UNCHANGED <<users, token, ruled>>
      BY <1>10 DEF InsertOrg
    <2>3. \A u \in User : \A p : Creator(u, p) => p \in Org /\ orgs'[p] = u
      BY <2>2, AccountsAssumption DEF Creator, AccountsTypeOK
    <2>4. orgs'[o] = requests[r].user
      BY <1>10, <2>2 DEF Creator, AccountsTypeOK, InsertOrg
    <2>5. \A p \in Request : requests'[p] = IF p = r THEN [requests[r] EXCEPT
                                                !.at = "admit", !.org = o, !.role = {"org_admin"}]
                                            ELSE requests[p]
      BY <1>10 DEF InsertOrg, AccountsTypeOK
    <2>6. requests'[r].user = requests[r].user /\ requests'[r].org = o
      BY <2>5, RequestType DEF RequestRecord
    <2>7. \A p \in Request : requests[p].user \in User
      BY RequestType
    <2>8. \A p \in Request :
             "org_admin" \in requests'[p].role => requests'[p].org \in Org /\ orgs'[requests'[p].org] = requests'[p].user
      BY <2>1, <2>3, <2>4, <2>5, <2>6, <2>7 DEF AdminsAreCreators
    <2>9. \A u \in User : "org_admin" \in users'[u].role => users'[u].org \in Org /\ orgs'[users'[u].org] = u
      BY <2>2, <2>3 DEF AdminsAreCreators
    <2>10. \A u \in User : "org_admin" \in token'[u].role => token'[u].org \in Org /\ orgs'[token'[u].org] = u
      BY <2>2, <2>3 DEF AdminsAreCreators
    <2>11. OnlyCreatorRules'
      <3>1. \A p \in ruled : p[1] \in User /\ p[2] \in Org /\ Creator(p[1], p[2])
        BY DEF OnlyCreatorRules, Creator, AccountsTypeOK
      <3>2. QED
        BY <2>2, <2>3, <3>1 DEF OnlyCreatorRules, Creator
    <2>12. QED
      BY <2>8, <2>9, <2>10, <2>11 DEF AdminsAreCreators, Creator
  <1>11. ASSUME NEW r \in Request, CheckInvite(r) PROVE AdminsAreCreators' /\ OnlyCreatorRules'
    <2> DEFINE invite == invites[requests[r].code]
               q == [requests[r] EXCEPT !.at = "admit", !.org = invite.org, !.role = {"viewer"},
                                        !.invite = invite]
    <2>1. "org_admin" \notin q.role
      BY RequestType DEF RequestRecord
    <2>2. Done(r) \/ requests' = [requests EXCEPT ![r] = q]
      BY <1>11 DEF CheckInvite
    <2> HIDE DEF q
    <2>3. \A p \in Request : \/ requests'[p] = requests[p]
                             \/ "org_admin" \notin requests'[p].role
      BY <1>4, <2>1, <2>2 DEF AccountsTypeOK
    <2>4. QED
      BY <1>1, <1>11, <2>3 DEF CheckInvite
  <1>12. ASSUME NEW r \in Request, AdmitUser(r) PROVE AdminsAreCreators' /\ OnlyCreatorRules'
    <2> DEFINE q == requests[r]
    <2>1. /\ UNCHANGED <<orgs, token, ruled>>
          /\ users' = [users EXCEPT ![q.user] = [org |-> q.org, role |-> q.role]]
      BY <1>12 DEF AdmitUser
    <2>2. \A p \in Request : \/ requests'[p].role = requests[p].role /\ requests'[p].user = requests[p].user
                                  /\ requests'[p].org = requests[p].org
                             \/ "org_admin" \notin requests'[p].role
      <3>1. CASE Done(r)
        BY <1>4, <3>1
      <3>2. CASE requests' = [requests EXCEPT ![r].at = "count"]
        BY <3>2, RequestType DEF RequestRecord, AccountsTypeOK
      <3>3. QED
        BY <1>12, <3>1, <3>2 DEF AdmitUser
    <2>3. \A u \in User : users'[u] = users[u] \/ (u = q.user /\ users'[u] = [org |-> q.org, role |-> q.role])
      BY <2>1 DEF AccountsTypeOK
    <2>4. \A u \in User : "org_admin" \in users'[u].role => users'[u].org \in Org /\ orgs'[users'[u].org] = u
      BY <2>1, <2>3 DEF AdminsAreCreators, Creator
    <2>5. QED
      BY <2>1, <2>2, <2>4 DEF AdminsAreCreators, OnlyCreatorRules, Creator
  <1>13. ASSUME NEW r \in Request, IncrementUses(r) PROVE AdminsAreCreators' /\ OnlyCreatorRules'
    BY <1>1, <1>4, <1>13 DEF IncrementUses
  <1>14. ASSUME NEW r \in Request, Stop(r) PROVE AdminsAreCreators' /\ OnlyCreatorRules'
    BY <1>1, <1>4, <1>14 DEF Stop
  <1>15. CASE UNCHANGED vars
    BY <1>15 DEF vars, AdminsAreCreators, OnlyCreatorRules, Creator
  <1>16. QED
    BY <1>2, <1>3, <1>5, <1>7, <1>8, <1>9, <1>10, <1>11, <1>12, <1>13, <1>14, <1>15
    DEF Next, OrgsController, StartCreateOrg, StartJoinOrg

\* Whoever changes an organisation or makes out an invite to it is the one who created
\* it, although users join, create, log in and refresh at the same time, with tokens
\* that outlive what they say.
THEOREM CreatorRules == Spec => []OnlyCreatorRules
  <1>1. Init => RulersInv
    BY TypeInit, RulersInit DEF RulersInv
  <1>2. RulersInv /\ [Next]_vars => RulersInv'
    BY TypeNext, RulersNext DEF RulersInv
  <1>3. RulersInv => OnlyCreatorRules
    BY DEF RulersInv
  <1>4. QED
    BY <1>1, <1>2, <1>3, PTL DEF Spec

-----------------------------------------------------------------------------
(* How often a user is admitted *)

Busy(r, u) == requests[r].at # "idle" /\ requests[r].user = u

(* Only a user without an organisation begins a request, and while he has    *)
(* one under way he is admitted to one organisation: from then on he has an  *)
(* organisation, and all that his request may still do is to count the use   *)
(* of the code.                                                              *)
Admissions(u) ==
    u \notin overlapped =>
        /\ \A r, q \in Request : Busy(r, u) /\ Busy(q, u) => r = q
        /\ \/ admissions[u] = 0
           \/ /\ admissions[u] = 1 /\ users[u].org # NoOrg
              /\ \A r \in Request : Busy(r, u) => requests[r].at = "count"

\* A request that is to admit names an organisation, and so does a code that was made out.
OrgsAreNamed ==
    /\ \A r \in Request : requests[r].at = "admit" => requests[r].org \in Org
    /\ \A c \in Code : invites[c] # NoInvite => invites[c].org \in Org

AdmissionInv ==
    AccountsTypeOK /\ OrgsAreNamed /\ \A u \in User : Admissions(u)

LEMMA AdmissionInit == Init => OrgsAreNamed /\ \A u \in User : Admissions(u)
  BY DEF Init, OrgsAreNamed, Admissions, Busy, Idle

LEMMA OrgsAreNamedNext == AccountsTypeOK /\ OrgsAreNamed /\ [Next]_vars => OrgsAreNamed'
  <1> SUFFICES ASSUME AccountsTypeOK, OrgsAreNamed, [Next]_vars PROVE OrgsAreNamed'
    OBVIOUS
  <1> USE DEF rows, claims, history
  <1>1. ASSUME invites' = invites,
               \A r \in Request : \/ requests'[r] = requests[r]
                                  \/ requests'[r].at # "admit"
        PROVE  OrgsAreNamed'
    BY <1>1 DEF OrgsAreNamed
  <1>2. ASSUME NEW r \in Request, Done(r)
        PROVE  \A q \in Request : requests'[q] = requests[q] \/ requests'[q].at # "admit"
    BY <1>2 DEF Done, Idle, AccountsTypeOK
  <1>3. ASSUME NEW r \in Request, NEW u \in User, NEW c, NEW s \in {"insert", "invite"},
               Begin(r, u, s, c)
        PROVE  OrgsAreNamed'
    <2> DEFINE q == [Idle EXCEPT !.at = s, !.user = u, !.code = c, !.joining = (s = "invite")]
    <2>1. q.at = s
      BY DEF Idle
    <2>2. requests' = [requests EXCEPT ![r] = q]
      BY <1>3 DEF Begin
    <2> HIDE DEF q
    <2>3. \A p \in Request : requests'[p] = requests[p] \/ requests'[p].at # "admit"
      BY <2>1, <2>2 DEF AccountsTypeOK
    <2>4. QED
      BY <1>1, <1>3, <2>3 DEF Begin
  <1>4. ASSUME NEW u \in User, NEW o \in Org, NEW c \in Code, NEW n \in MaxUsesInputs,
               GenerateInvite(u, o, c, n)
        PROVE  OrgsAreNamed'
    <2> DEFINE row == [NoInvite EXCEPT !.org = o, !.maxUses = n]
    <2>1. row.org = o
      BY DEF NoInvite
    <2>2. invites' = [invites EXCEPT ![c] = row] /\ requests' = requests
      BY <1>4 DEF GenerateInvite
    <2> HIDE DEF row
    <2>3. QED
      BY <2>1, <2>2 DEF OrgsAreNamed, AccountsTypeOK
  <1>5. ASSUME NEW c \in Code, ExpireInvite(c) PROVE OrgsAreNamed'
    <2>1. \A d \in Code : invites'[d] # NoInvite => invites[d] # NoInvite /\ invites'[d].org = invites[d].org
      BY <1>5 DEF ExpireInvite, AccountsTypeOK, InviteRow
    <2>2. QED
      BY <1>5, <2>1 DEF ExpireInvite, OrgsAreNamed
  <1>6. ASSUME NEW r \in Request, NEW o \in Org, InsertOrg(r, o) PROVE OrgsAreNamed'
    <2>1. \A p \in Request : requests'[p] = requests[p] \/ requests'[p].org = o
      BY <1>6, RequestType DEF InsertOrg, AccountsTypeOK, RequestRecord
    <2>2. QED
      BY <1>6, <2>1 DEF InsertOrg, OrgsAreNamed
  <1>7. ASSUME NEW r \in Request, CheckInvite(r) PROVE OrgsAreNamed'
    <2> DEFINE invite == invites[requests[r].code]
    <2>1. CASE Done(r)
      BY <1>1, <1>2, <1>7, <2>1 DEF CheckInvite
    <2>2. CASE ~Done(r)
      <3>1. /\ invite # NoInvite /\ invites' = invites
            /\ requests' = [requests EXCEPT ![r] = [@ EXCEPT !.at = "admit", !.org = invite.org,
                                                       !.role = {"viewer"}, !.invite = invite]]
        BY <1>7, <2>2 DEF CheckInvite
      <3>2. invite.org \in Org
        BY <3>1, RequestType DEF OrgsAreNamed
      <3>3. \A p \in Request : requests'[p] = requests[p] \/ requests'[p].org = invite.org
        BY <3>1, RequestType DEF AccountsTypeOK, RequestRecord
      <3>4. QED
        BY <3>1, <3>2, <3>3 DEF OrgsAreNamed
    <2>3. QED
      BY <2>1, <2>2
  <1>8. ASSUME NEW r \in Request, AdmitUser(r) PROVE OrgsAreNamed'
    <2>1. \A p \in Request : requests'[p] = requests[p] \/ requests'[p].at # "admit"
      <3>1. CASE Done(r)
        BY <1>2, <3>1
      <3>2. CASE requests' = [requests EXCEPT ![r].at = "count"]
        BY <3>2, RequestType DEF RequestRecord, AccountsTypeOK
      <3>3. QED
        BY <1>8, <3>1, <3>2 DEF AdmitUser
    <2>2. QED
      BY <1>1, <1>8, <2>1 DEF AdmitUser
  <1>9. ASSUME NEW r \in Request, IncrementUses(r) PROVE OrgsAreNamed'
    <2>1. invites[requests[r].code].uses < invites[requests[r].code].maxUses
             => invites[requests[r].code] # NoInvite
      BY DEF NoInvite
    <2>2. \A d \in Code : /\ invites'[d] # NoInvite => invites[d] # NoInvite
                          /\ invites'[d].org = invites[d].org
      <3>1. CASE invites[requests[r].code].uses < invites[requests[r].code].maxUses
        BY <1>9, <2>1, <3>1 DEF IncrementUses, AccountsTypeOK, InviteRow
      <3>2. CASE ~(invites[requests[r].code].uses < invites[requests[r].code].maxUses)
        <4>1. invites' = [invites EXCEPT ![requests[r].code].uses = @]
          BY <1>9, <3>2 DEF IncrementUses
        <4>2. \A d \in Code : invites'[d] = invites[d]
          BY <4>1 DEF AccountsTypeOK, InviteRow
        <4>3. QED
          BY <4>2
      <3>3. QED
        BY <3>1, <3>2
    <2>3. \A p \in Request : requests'[p] = requests[p] \/ requests'[p].at # "admit"
      BY <1>2, <1>9 DEF IncrementUses
    <2>4. QED
      BY <2>2, <2>3 DEF OrgsAreNamed
  <1>10. ASSUME NEW r \in Request, Stop(r) PROVE OrgsAreNamed'
    BY <1>1, <1>2, <1>10 DEF Stop
  <1>11. ASSUME UNCHANGED <<invites, requests>> PROVE OrgsAreNamed'
    BY <1>11 DEF OrgsAreNamed
  <1>12. QED
    BY <1>3, <1>4, <1>5, <1>6, <1>7, <1>8, <1>9, <1>10, <1>11
    DEF Next, OrgsController, StartCreateOrg, StartJoinOrg, Login, Refresh, UpdateOrg, vars

LEMMA AdmissionsNext ==
  ASSUME AdmissionInv, [Next]_vars, NEW u \in User
  PROVE  Admissions(u)'
  <1> USE DEF AdmissionInv, rows, claims, history
  \* A step that neither admits u nor begins a request of his.
  <1>1. ASSUME overlapped \subseteq overlapped',
               users'[u] = users[u], admissions'[u] = admissions[u],
               \A r \in Request :
                  Busy(r, u)' => /\ Busy(r, u)
                                 /\ requests[r].at = "count" => requests'[r].at = "count"
        PROVE  Admissions(u)'
    BY <1>1 DEF Admissions, Busy
  <1>2. ASSUME NEW r \in Request, Done(r)
        PROVE  \A q \in Request :
                  Busy(q, u)' => /\ Busy(q, u)
                                 /\ requests[q].at = "count" => requests'[q].at = "count"
    BY <1>2 DEF Done, Idle, Busy, AccountsTypeOK
  <1>3. ASSUME NEW r \in Request, NEW v \in User, NEW c, NEW s \in {"insert", "invite"},
               users[v].org = NoOrg, Begin(r, v, s, c)
        PROVE  Admissions(u)'
    <2> DEFINE q == [Idle EXCEPT !.at = s, !.user = v, !.code = c, !.joining = (s = "invite")]
    <2>1. q.at = s /\ q.user = v
      BY DEF Idle
    <2>2. requests' = [requests EXCEPT ![r] = q]
      BY <1>3 DEF Begin
    <2> HIDE DEF q
    <2>3. /\ \A p \in Request \ {r} : requests'[p] = requests[p]
          /\ requests'[r].at = s /\ requests'[r].user = v
      BY <2>1, <2>2 DEF AccountsTypeOK
    <2>4. /\ users' = users /\ admissions' = admissions /\ overlapped \subseteq overlapped'
          /\ (\E p \in Request : requests[p].at # "idle" /\ requests[p].user = v) => v \in overlapped'
      BY <1>3 DEF Begin
    <2>5. CASE u # v
      BY <1>1, <2>3, <2>4, <2>5 DEF Busy
    <2>6. CASE u = v /\ u \notin overlapped'
      <3>1. \A p \in Request : ~Busy(p, u)
        BY <2>4, <2>6 DEF Busy
      <3>2. admissions[u] = 0
        BY <1>3, <2>4, <2>6 DEF Admissions
      <3>3. \A p \in Request : Busy(p, u)' => p = r
        BY <2>3, <3>1 DEF Busy
      <3>4. QED
        BY <2>4, <3>2, <3>3 DEF Admissions
    <2>7. CASE u \in overlapped'
      BY <2>7 DEF Admissions
    <2>8. QED
      BY <2>5, <2>6, <2>7
  <1>4. ASSUME NEW r \in Request, NEW o \in Org, InsertOrg(r, o) PROVE Admissions(u)'
    <2>1. /\ requests[r].at = "insert"
          /\ requests'[r].user = requests[r].user
          /\ \A p \in Request \ {r} : requests'[p] = requests[p]
      BY <1>4, RequestType DEF InsertOrg, AccountsTypeOK, RequestRecord
    <2>2. QED
      BY <1>1, <1>4, <2>1 DEF InsertOrg, Busy
  <1>5. ASSUME NEW r \in Request, CheckInvite(r) PROVE Admissions(u)'
    <2>1. CASE Done(r)
      BY <1>1, <1>2, <1>5, <2>1 DEF CheckInvite
    <2>2. CASE ~Done(r)
      <3> DEFINE invite == invites[requests[r].code]
      <3>1. /\ requests[r].at = "invite"
            /\ requests' = [requests EXCEPT ![r] = [@ EXCEPT !.at = "admit", !.org = invite.org,
                                                       !.role = {"viewer"}, !.invite = invite]]
        BY <1>5, <2>2 DEF CheckInvite
      <3>2. /\ requests'[r].user = requests[r].user
            /\ \A p \in Request \ {r} : requests'[p] = requests[p]
        BY <3>1, RequestType DEF AccountsTypeOK, RequestRecord
      <3>3. QED
        BY <1>1, <1>5, <3>1, <3>2 DEF CheckInvite, Busy
    <2>3. QED
      BY <2>1, <2>2
  <1>6. ASSUME NEW r \in Request, AdmitUser(r) PROVE Admissions(u)'
    <2> DEFINE q == requests[r]
    <2>1. /\ q.at = "admit" /\ q.org \in Org /\ q.user \in User
          /\ overlapped' = overlapped
          /\ users' = [users EXCEPT ![q.user] = [org |-> q.org, role |-> q.role]]
          /\ admissions' = [admissions EXCEPT ![q.user] = @ + 1]
      BY <1>6, RequestType DEF AdmitUser, OrgsAreNamed
    <2>2. /\ \A p \in Request \ {r} : requests'[p] = requests[p]
          /\ \/ requests'[r].at = "idle"
             \/ requests'[r].at = "count" /\ requests'[r].user = q.user
      <3>1. CASE Done(r)
        BY <3>1 DEF Done, Idle, AccountsTypeOK
      <3>2. CASE requests' = [requests EXCEPT ![r].at = "count"]
        BY <3>2, RequestType DEF RequestRecord, AccountsTypeOK
      <3>3. QED
        BY <1>6, <3>1, <3>2 DEF AdmitUser
    <2>3. CASE u # q.user
      <3>1. users'[u] = users[u] /\ admissions'[u] = admissions[u]
        BY <2>1, <2>3 DEF AccountsTypeOK
      <3>2. QED
        BY <1>1, <2>1, <2>2, <2>3, <3>1 DEF Busy
    <2>4. CASE u = q.user /\ u \notin overlapped
      <3>1. Busy(r, u)
        BY <2>1, <2>4 DEF Busy
      <3>2. /\ admissions[u] = 0
            /\ \A p \in Request : Busy(p, u) => p = r
        BY <2>1, <2>4, <3>1 DEF Admissions
      <3>3. admissions'[u] = 1
        BY <2>1, <2>4, <3>2 DEF AccountsTypeOK
      <3>4. users'[u].org # NoOrg
        BY <2>1, <2>4, AccountsAssumption DEF AccountsTypeOK
      <3>5. \A p \in Request : Busy(p, u)' => p = r /\ requests'[p].at = "count"
        BY <2>2, <2>4, <3>2 DEF Busy
      <3>6. QED
        BY <3>3, <3>4, <3>5 DEF Admissions
    <2>5. CASE u \in overlapped
      BY <2>1, <2>5 DEF Admissions
    <2>6. QED
      BY <2>3, <2>4, <2>5
  <1>7. ASSUME NEW r \in Request, IncrementUses(r) PROVE Admissions(u)'
    BY <1>1, <1>2, <1>7 DEF IncrementUses
  <1>8. ASSUME NEW r \in Request, Stop(r) PROVE Admissions(u)'
    BY <1>1, <1>2, <1>8 DEF Stop
  <1>9. ASSUME UNCHANGED <<users, requests, admissions, overlapped>> PROVE Admissions(u)'
    BY <1>9 DEF Admissions, Busy
  <1>10. ASSUME NEW v \in User, OrgsController(v) PROVE Admissions(u)'
    BY <1>3, <1>9, <1>10
    DEF OrgsController, StartCreateOrg, StartJoinOrg, UpdateOrg, GenerateInvite
  <1>11. QED
    BY <1>4, <1>5, <1>6, <1>7, <1>8, <1>9, <1>10 DEF Next, Login, Refresh, ExpireInvite, vars

\* A user whose requests do not overlap is admitted once, however often a request of his
\* fails half-way and is sent again, and whatever the others do.
THEOREM AdmittedOnce == Spec => []OneAdmission
  <1>1. Init => AdmissionInv
    BY TypeInit, AdmissionInit DEF AdmissionInv
  <1>2. AdmissionInv /\ [Next]_vars => AdmissionInv'
    BY TypeNext, OrgsAreNamedNext, AdmissionsNext DEF AdmissionInv
  <1>3. AdmissionInv => OneAdmission
    BY DEF AdmissionInv, Admissions, OneAdmission
  <1>4. QED
    BY <1>1, <1>2, <1>3, PTL DEF Spec

-----------------------------------------------------------------------------
(* The uses of a code *)

\* The joins through c whose use is still to be counted.
Uncounted(c) == {r \in Request : requests[r].at = "count" /\ requests[r].code = c}

(* The uses of a code are the joins through it that have been counted, as    *)
(* far as the check constraint lets them.                                    *)
Counted(c) ==
    c \notin faulty =>
        LET n == joins[c] - Cardinality(Uncounted(c))
        IN /\ n >= 0
           /\ invites[c].uses = IF n < invites[c].maxUses THEN n ELSE invites[c].maxUses

\* Nobody joins through a code that was not made out.
JoinsAreInvited ==
    /\ \A r \in Request : requests[r].at = "count" => invites[requests[r].code] # NoInvite
    /\ \A r \in Request : requests[r].at = "admit" /\ requests[r].joining
                            => invites[requests[r].code] # NoInvite
    /\ \A r \in Request : requests[r].at = "insert" => ~requests[r].joining
    /\ \A c \in Code : joins[c] > 0 => invites[c] # NoInvite

CountInv == AccountsTypeOK /\ JoinsAreInvited /\ \A c \in Code : Counted(c)

LEMMA UncountedFinite ==
  ASSUME NEW c
  PROVE  IsFiniteSet(Uncounted(c)) /\ Cardinality(Uncounted(c)) \in Nat
  <1>1. IsFiniteSet(Request)
    BY FS_Interval, AccountsAssumption DEF Request
  <1>2. IsFiniteSet(Uncounted(c))
    BY <1>1, FS_Subset DEF Uncounted
  <1>3. QED
    BY <1>2, FS_CardinalityType

LEMMA CountInit == Init => JoinsAreInvited /\ \A c \in Code : Counted(c)
  <1> SUFFICES ASSUME Init PROVE JoinsAreInvited /\ \A c \in Code : Counted(c)
    OBVIOUS
  <1>1. JoinsAreInvited
    BY DEF Init, JoinsAreInvited, Idle
  <1>2. ASSUME NEW c \in Code PROVE Counted(c)
    <2>1. Uncounted(c) = {}
      BY DEF Init, Idle, Uncounted
    <2>2. Cardinality(Uncounted(c)) = 0
      BY <2>1, FS_EmptySet
    <2>3. QED
      BY <2>2 DEF Init, Counted, NoInvite
  <1>3. QED
    BY <1>1, <1>2

\* What the steps of the requests do to the request that takes them.
LEMMA RequestSteps ==
  ASSUME AccountsTypeOK, NEW r \in Request
  PROVE  /\ Done(r) => /\ requests'[r].at = "idle"
                       /\ \A p \in Request \ {r} : requests'[p] = requests[p]
         /\ \A u, c : \A s \in {"insert", "invite"} : Begin(r, u, s, c) =>
                /\ requests[r].at = "idle" /\ requests'[r].at = s
                /\ requests'[r].joining = (s = "invite")
                /\ \A p \in Request \ {r} : requests'[p] = requests[p]
         /\ \A o \in Org : InsertOrg(r, o) =>
                /\ requests[r].at = "insert" /\ requests'[r].at = "admit"
                /\ requests'[r].joining = requests[r].joining
                /\ \A p \in Request \ {r} : requests'[p] = requests[p]
         /\ CheckInvite(r) =>
                /\ requests[r].at = "invite"
                /\ \/ requests'[r].at = "idle"
                   \/ /\ requests'[r].at = "admit" /\ requests'[r].code = requests[r].code
                      /\ invites[requests[r].code] # NoInvite
                /\ \A p \in Request \ {r} : requests'[p] = requests[p]
         /\ AdmitUser(r) =>
                /\ requests[r].at = "admit"
                /\ IF requests[r].joining
                   THEN requests'[r].at = "count" /\ requests'[r].code = requests[r].code
                   ELSE requests'[r].at = "idle"
                /\ \A p \in Request \ {r} : requests'[p] = requests[p]
  <1> USE RequestType
  <1>1. Done(r) => /\ requests'[r].at = "idle"
                   /\ \A p \in Request \ {r} : requests'[p] = requests[p]
    BY DEF Done, Idle, AccountsTypeOK
  <1>2. ASSUME NEW u, NEW c, NEW s \in {"insert", "invite"}, Begin(r, u, s, c)
        PROVE  /\ requests[r].at = "idle" /\ requests'[r].at = s
               /\ requests'[r].joining = (s = "invite")
               /\ \A p \in Request \ {r} : requests'[p] = requests[p]
    <2> DEFINE q == [Idle EXCEPT !.at = s, !.user = u, !.code = c, !.joining = (s = "invite")]
    <2>1. q.at = s /\ q.joining = (s = "invite")
      BY DEF Idle
    <2>2. requests[r].at = "idle" /\ requests' = [requests EXCEPT ![r] = q]
      BY <1>2 DEF Begin
    <2> HIDE DEF q
    <2>3. QED
      BY <2>1, <2>2 DEF AccountsTypeOK
  <1>3. ASSUME NEW o \in Org, InsertOrg(r, o)
        PROVE  /\ requests[r].at = "insert" /\ requests'[r].at = "admit"
               /\ requests'[r].joining = requests[r].joining
               /\ \A p \in Request \ {r} : requests'[p] = requests[p]
    BY <1>3 DEF InsertOrg, AccountsTypeOK, RequestRecord
  <1>4. ASSUME CheckInvite(r)
        PROVE  /\ requests[r].at = "invite"
               /\ \/ requests'[r].at = "idle"
                  \/ /\ requests'[r].at = "admit" /\ requests'[r].code = requests[r].code
                     /\ invites[requests[r].code] # NoInvite
               /\ \A p \in Request \ {r} : requests'[p] = requests[p]
    <2>1. CASE Done(r)
      BY <1>1, <1>4, <2>1 DEF CheckInvite
    <2>2. CASE ~Done(r)
      <3> DEFINE invite == invites[requests[r].code]
      <3>1. /\ requests[r].at = "invite" /\ invite # NoInvite
            /\ requests' = [requests EXCEPT ![r] = [@ EXCEPT !.at = "admit", !.org = invite.org,
                                                       !.role = {"viewer"}, !.invite = invite]]
        BY <1>4, <2>2 DEF CheckInvite
      <3>2. QED
        BY <3>1 DEF AccountsTypeOK, RequestRecord
    <2>3. QED
      BY <2>1, <2>2
  <1>5. ASSUME AdmitUser(r)
        PROVE  /\ requests[r].at = "admit"
               /\ IF requests[r].joining
                  THEN requests'[r].at = "count" /\ requests'[r].code = requests[r].code
                  ELSE requests'[r].at = "idle"
               /\ \A p \in Request \ {r} : requests'[p] = requests[p]
    <2>1. CASE requests[r].joining
      BY <1>5, <2>1 DEF AdmitUser, AccountsTypeOK, RequestRecord
    <2>2. CASE ~requests[r].joining
      BY <1>1, <1>5, <2>2 DEF AdmitUser
    <2>3. QED
      BY <2>1, <2>2
  <1>6. QED
    BY <1>1, <1>2, <1>3, <1>4, <1>5

\* What counting a use does to the codes.
LEMMA UseCounted ==
  ASSUME AccountsTypeOK, NEW r \in Request, IncrementUses(r)
  PROVE  LET d == requests[r].code
         IN /\ \A c \in Code \ {d} : invites'[c] = invites[c]
            /\ invites'[d].maxUses = invites[d].maxUses
            /\ invites'[d].uses = IF invites[d].uses < invites[d].maxUses
                                  THEN invites[d].uses + 1 ELSE invites[d].uses
            /\ invites[d].uses >= invites[d].maxUses => invites'[d] = invites[d]
  <1> DEFINE d == requests[r].code
             n == IF invites[d].uses < invites[d].maxUses
                  THEN invites[d].uses + 1 ELSE invites[d].uses
  <1>1. d \in Code /\ invites[d] \in InviteRow
    BY RequestType
  <1>2. invites' = [invites EXCEPT ![d].uses = n]
    BY DEF IncrementUses
  <1>3. ASSUME invites[d].uses >= invites[d].maxUses PROVE n = invites[d].uses
    BY <1>1, <1>3, InviteCounts
  <1> HIDE DEF d, n
  <1>4. ASSUME invites[d].uses >= invites[d].maxUses PROVE invites'[d] = invites[d]
    BY <1>1, <1>2, <1>3, <1>4 DEF AccountsTypeOK, InviteRow
  <1>5. /\ \A c \in Code \ {d} : invites'[c] = invites[c]
        /\ invites'[d].maxUses = invites[d].maxUses
        /\ invites'[d].uses = n
    BY <1>1, <1>2 DEF AccountsTypeOK, InviteRow
  <1>6. QED
    BY <1>5, <1>4 DEF d, n

LEMMA JoinsAreInvitedNext == AccountsTypeOK /\ JoinsAreInvited /\ [Next]_vars => JoinsAreInvited'
  <1> SUFFICES ASSUME AccountsTypeOK, JoinsAreInvited, [Next]_vars PROVE JoinsAreInvited'
    OBVIOUS
  <1> USE DEF rows, claims, history
  <1>1. ASSUME \A c \in Code : /\ invites[c] # NoInvite => invites'[c] # NoInvite
                              /\ joins'[c] = joins[c],
               \A r \in Request :
                  \/ requests'[r] = requests[r]
                  \/ requests'[r].at \in {"idle", "invite"}
                  \/ /\ requests'[r].at \in {"admit", "count"}
                     /\ invites[requests'[r].code] # NoInvite /\ requests'[r].code \in Code
                  \/ requests'[r].at \in {"insert", "admit"} /\ ~requests'[r].joining
        PROVE  JoinsAreInvited'
    BY <1>1, RequestType DEF JoinsAreInvited
  <1>2. ASSUME NEW r \in Request, NEW u, NEW c, NEW s \in {"insert", "invite"}, Begin(r, u, s, c)
        PROVE  JoinsAreInvited'
    <2>1. /\ requests'[r].at = s /\ requests'[r].joining = (s = "invite")
          /\ \A p \in Request \ {r} : requests'[p] = requests[p]
      BY <1>2, RequestSteps
    <2>2. invites' = invites /\ joins' = joins
      BY <1>2 DEF Begin
    <2>3. QED
      BY <1>1, <2>1, <2>2
  <1>3. ASSUME NEW u \in User, NEW o \in Org, NEW c \in Code, NEW n \in MaxUsesInputs,
               GenerateInvite(u, o, c, n)
        PROVE  JoinsAreInvited'
    BY <1>1, <1>3 DEF GenerateInvite, AccountsTypeOK
  <1>4. ASSUME NEW c \in Code, ExpireInvite(c) PROVE JoinsAreInvited'
    <2>1. /\ invites'[c].expired /\ ~NoInvite.expired
          /\ \A d \in Code \ {c} : invites'[d] = invites[d]
      BY <1>4 DEF ExpireInvite, AccountsTypeOK, InviteRow, NoInvite
    <2>2. \A d \in Code : invites[d] # NoInvite => invites'[d] # NoInvite
      BY <2>1
    <2>3. QED
      BY <1>1, <1>4, <2>2 DEF ExpireInvite
  <1>5. ASSUME NEW r \in Request, NEW o \in Org, InsertOrg(r, o) PROVE JoinsAreInvited'
    BY <1>1, <1>5, RequestSteps DEF InsertOrg, JoinsAreInvited
  <1>6. ASSUME NEW r \in Request, CheckInvite(r) PROVE JoinsAreInvited'
    BY <1>1, <1>6, RequestSteps, RequestType DEF CheckInvite
  <1>7. ASSUME NEW r \in Request, AdmitUser(r) PROVE JoinsAreInvited'
    <2> DEFINE q == requests[r]
    <2>1. invites' = invites /\ q.at = "admit" /\ q.code \in Code
      BY <1>7, RequestType DEF AdmitUser
    <2>2. \A c \in Code : joins'[c] = joins[c] \/ (q.joining /\ c = q.code)
      BY <1>7 DEF AdmitUser, AccountsTypeOK
    <2>3. q.joining => invites[q.code] # NoInvite
      BY <2>1 DEF JoinsAreInvited
    <2>4. /\ \A p \in Request \ {r} : requests'[p] = requests[p]
          /\ \/ requests'[r].at = "idle"
             \/ requests'[r].at = "count" /\ q.joining /\ requests'[r].code = q.code
      BY <1>7, RequestSteps
    <2>5. QED
      BY <2>1, <2>2, <2>3, <2>4 DEF JoinsAreInvited
  <1>8. ASSUME NEW r \in Request, IncrementUses(r) PROVE JoinsAreInvited'
    <2> DEFINE d == requests[r].code
    <2>1. d \in Code /\ invites[d].uses \in Nat /\ invites[d].maxUses \in Nat
      BY RequestType, InviteCounts
    <2>2. \/ invites'[d] = invites[d]
          \/ invites'[d].uses = invites[d].uses + 1
      BY <1>8, <2>1, UseCounted
    <2>3. invites'[d].uses = invites[d].uses + 1 => invites'[d] # NoInvite
      BY <2>1 DEF NoInvite
    <2>4. \A c \in Code : invites[c] # NoInvite => invites'[c] # NoInvite
      BY <1>8, <2>2, <2>3, UseCounted
    <2>5. QED
      BY <1>1, <1>8, <2>4, RequestSteps DEF IncrementUses
  <1>9. ASSUME NEW r \in Request, Stop(r) PROVE JoinsAreInvited'
    BY <1>1, <1>9, RequestSteps DEF Stop
  <1>10. ASSUME UNCHANGED <<invites, joins, requests>> PROVE JoinsAreInvited'
    BY <1>10 DEF JoinsAreInvited
  <1>11. QED
    BY <1>2, <1>3, <1>4, <1>5, <1>6, <1>7, <1>8, <1>9, <1>10
    DEF Next, OrgsController, StartCreateOrg, StartJoinOrg, Login, Refresh, UpdateOrg, vars

LEMMA CountedNext ==
  ASSUME CountInv, [Next]_vars, NEW c \in Code
  PROVE  Counted(c)'
  <1> USE DEF CountInv, rows, claims, history
  \* A step that neither joins through c nor counts a use of it.
  <1>1. ASSUME faulty \subseteq faulty', joins'[c] = joins[c],
               invites'[c].uses = invites[c].uses, invites'[c].maxUses = invites[c].maxUses,
               \A r \in Request : \/ requests'[r] = requests[r]
                                  \/ r \notin Uncounted(c) /\ requests'[r].at # "count"
        PROVE  Counted(c)'
    <2>1. Uncounted(c)' = Uncounted(c)
      BY <1>1 DEF Uncounted
    <2>2. QED
      BY <1>1, <2>1 DEF Counted
  <1>2. ASSUME NEW r \in Request, NEW u, NEW d, NEW s \in {"insert", "invite"}, Begin(r, u, s, d)
        PROVE  Counted(c)'
    BY <1>1, <1>2, RequestSteps DEF Begin, Uncounted
  \* Nobody has joined through a code that is made out now.
  <1>3. ASSUME NEW u \in User, NEW o \in Org, NEW d \in Code, NEW n \in MaxUsesInputs,
               GenerateInvite(u, o, d, n)
        PROVE  Counted(c)'
    <2> DEFINE row == [NoInvite EXCEPT !.org = o, !.maxUses = n]
    <2>1. row.uses = 0 /\ row.maxUses = n
      BY DEF NoInvite
    <2>2. /\ invites[d] = NoInvite /\ invites' = [invites EXCEPT ![d] = row]
          /\ UNCHANGED <<requests, joins, faulty>>
      BY <1>3 DEF GenerateInvite
    <2> HIDE DEF row
    <2>3. CASE c # d
      BY <1>1, <2>2, <2>3 DEF AccountsTypeOK
    <2>4. CASE c = d
      <3>1. n \in Nat /\ n > 0
        BY AccountsAssumption
      <3>2. joins[c] = 0
        BY <2>2, <2>4 DEF JoinsAreInvited, AccountsTypeOK
      <3>3. Uncounted(c) = {} /\ Uncounted(c)' = Uncounted(c)
        BY <2>2, <2>4 DEF Uncounted, JoinsAreInvited
      <3>4. Cardinality(Uncounted(c)') = 0
        BY <3>3, FS_EmptySet
      <3>5. invites'[c].uses = 0 /\ invites'[c].maxUses = n
        BY <2>1, <2>2, <2>4 DEF AccountsTypeOK
      <3>6. QED
        BY <2>2, <3>1, <3>2, <3>4, <3>5 DEF Counted
    <2>5. QED
      BY <2>3, <2>4
  <1>4. ASSUME NEW d \in Code, ExpireInvite(d) PROVE Counted(c)'
    <2>1. invites'[c].uses = invites[c].uses /\ invites'[c].maxUses = invites[c].maxUses
      BY <1>4 DEF ExpireInvite, AccountsTypeOK, InviteRow
    <2>2. QED
      BY <1>1, <1>4, <2>1 DEF ExpireInvite
  <1>5. ASSUME NEW r \in Request, NEW o \in Org, InsertOrg(r, o) PROVE Counted(c)'
    BY <1>1, <1>5, RequestSteps DEF InsertOrg, Uncounted
  <1>6. ASSUME NEW r \in Request, CheckInvite(r) PROVE Counted(c)'
    BY <1>1, <1>6, RequestSteps DEF CheckInvite, Uncounted
  <1>7. ASSUME NEW r \in Request, AdmitUser(r) PROVE Counted(c)'
    <2> DEFINE q == requests[r]
    <2>1. /\ q.at = "admit" /\ q.code \in Code /\ UNCHANGED <<invites, faulty>>
          /\ \A p \in Request \ {r} : requests'[p] = requests[p]
          /\ IF q.joining THEN requests'[r].at = "count" /\ requests'[r].code = q.code
                          ELSE requests'[r].at = "idle"
          /\ joins' = IF q.joining THEN [joins EXCEPT ![q.code] = @ + 1] ELSE joins
      BY <1>7, RequestSteps, RequestType DEF AdmitUser
    <2>2. CASE ~(q.joining /\ q.code = c)
      <3>1. joins'[c] = joins[c]
        BY <2>1, <2>2 DEF AccountsTypeOK
      <3>2. Uncounted(c)' = Uncounted(c)
        BY <2>1, <2>2 DEF Uncounted
      <3>3. QED
        BY <2>1, <3>1, <3>2 DEF Counted
    <2>3. CASE q.joining /\ q.code = c
      <3>1. joins'[c] = joins[c] + 1
        BY <2>1, <2>3 DEF AccountsTypeOK
      <3>2. r \notin Uncounted(c) /\ Uncounted(c)' = Uncounted(c) \cup {r}
        BY <2>1, <2>3 DEF Uncounted
      <3>3. Cardinality(Uncounted(c)') = Cardinality(Uncounted(c)) + 1
        BY <3>2, UncountedFinite, FS_AddElement
      <3>4. QED
        <4>1. joins[c] \in Nat /\ Cardinality(Uncounted(c)) \in Nat
          BY UncountedFinite DEF AccountsTypeOK
        <4>2. joins'[c] - Cardinality(Uncounted(c)') = joins[c] - Cardinality(Uncounted(c))
          BY <3>1, <3>3, <4>1
        <4>3. QED
          BY <2>1, <4>2 DEF Counted
    <2>4. QED
      BY <2>2, <2>3
  <1>8. ASSUME NEW r \in Request, IncrementUses(r) PROVE Counted(c)'
    <2> DEFINE d == requests[r].code
    <2>1. /\ requests[r].at = "count" /\ requests'[r].at = "idle"
          /\ \A p \in Request \ {r} : requests'[p] = requests[p]
          /\ UNCHANGED <<joins, faulty>>
      BY <1>8, RequestSteps DEF IncrementUses
    <2>2. CASE c # d
      <3>1. invites'[c] = invites[c]
        BY <1>8, <2>2, UseCounted
      <3>2. Uncounted(c)' = Uncounted(c)
        BY <2>1, <2>2 DEF Uncounted
      <3>3. QED
        BY <2>1, <3>1, <3>2 DEF Counted
    <2>3. CASE c = d /\ c \notin faulty
      <3>1. r \in Uncounted(c) /\ Uncounted(c)' = Uncounted(c) \ {r}
        BY <2>1, <2>3 DEF Uncounted
      <3>2. /\ Cardinality(Uncounted(c)') = Cardinality(Uncounted(c)) - 1
            /\ Cardinality(Uncounted(c)) \in Nat
        BY <3>1, UncountedFinite, FS_RemoveElement
      <3>3. /\ invites'[c].maxUses = invites[c].maxUses
            /\ invites'[c].uses = IF invites[c].uses < invites[c].maxUses
                                  THEN invites[c].uses + 1 ELSE invites[c].uses
        BY <1>8, <2>3, UseCounted
      <3>4. /\ invites[c].uses \in Nat /\ invites[c].maxUses \in Nat
            /\ invites[c].uses <= invites[c].maxUses /\ joins[c] \in Nat
        BY InviteCounts DEF AccountsTypeOK
      <3> DEFINE n == joins[c] - Cardinality(Uncounted(c))
      <3>5. /\ n \in Int /\ n >= 0
            /\ invites[c].uses = IF n < invites[c].maxUses THEN n ELSE invites[c].maxUses
        BY <2>3, <3>2, <3>4 DEF Counted
      <3>6. joins'[c] - Cardinality(Uncounted(c)') = n + 1
        BY <2>1, <3>2, <3>4
      <3> HIDE DEF n
      <3>7. invites'[c].uses = IF n + 1 < invites[c].maxUses THEN n + 1 ELSE invites[c].maxUses
        BY <3>3, <3>4, <3>5
      <3>8. QED
        BY <3>3, <3>5, <3>6, <3>7 DEF Counted
    <2>4. CASE c \in faulty
      BY <2>1, <2>4 DEF Counted
    <2>5. QED
      BY <2>2, <2>3, <2>4
  <1>9. ASSUME NEW r \in Request, Stop(r) PROVE Counted(c)'
    <2>1. /\ requests'[r].at = "idle"
          /\ \A p \in Request \ {r} : requests'[p] = requests[p]
          /\ UNCHANGED <<joins, invites>> /\ faulty \subseteq faulty'
          /\ requests[r].at = "count" => requests[r].code \in faulty'
      BY <1>9, RequestSteps DEF Stop
    <2>2. CASE r \in Uncounted(c)
      BY <2>1, <2>2 DEF Uncounted, Counted
    <2>3. CASE r \notin Uncounted(c)
      BY <1>1, <2>1, <2>3
    <2>4. QED
      BY <2>2, <2>3
  <1>10. ASSUME UNCHANGED <<invites, joins, requests, faulty>> PROVE Counted(c)'
    BY <1>1, <1>10
  <1>11. QED
    BY <1>2, <1>3, <1>4, <1>5, <1>6, <1>7, <1>8, <1>9, <1>10
    DEF Next, OrgsController, StartCreateOrg, StartJoinOrg, Login, Refresh, UpdateOrg, vars

\* However requests interleave, once they have finished a code has counted every user
\* who joined through it, as far as its limit lets it: no increment is lost.
THEOREM UsesAreCounted == Spec => []UsesCountAdmissions
  <1>1. Init => CountInv
    BY TypeInit, CountInit DEF CountInv
  <1>2. CountInv /\ [Next]_vars => CountInv'
    BY TypeNext, JoinsAreInvitedNext, CountedNext DEF CountInv
  <1>3. CountInv => UsesCountAdmissions
    <2> SUFFICES ASSUME CountInv, NEW c \in Code \ faulty,
                        \A r \in Request : requests[r].at = "idle" \/ requests[r].code # c
                 PROVE  invites[c].uses = IF joins[c] < invites[c].maxUses
                                          THEN joins[c] ELSE invites[c].maxUses
      BY DEF UsesCountAdmissions
    <2>1. Uncounted(c) = {}
      BY DEF Uncounted
    <2>2. Cardinality(Uncounted(c)) = 0
      BY <2>1, FS_EmptySet
    <2>3. joins[c] - Cardinality(Uncounted(c)) = joins[c]
      BY <2>2 DEF CountInv, AccountsTypeOK
    <2>4. QED
      BY <2>3 DEF CountInv, Counted
  <1>4. QED
    BY <1>1, <1>2, <1>3, PTL DEF Spec

=============================================================================

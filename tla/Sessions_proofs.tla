---------------------------- MODULE Sessions_proofs ----------------------------
(***************************************************************************)
(* Proofs about Sessions: for any number of tabs, nonces and calls in      *)
(* flight, and any number of retries.                                      *)
(***************************************************************************)
EXTENDS Sessions, TLAPS

-----------------------------------------------------------------------------
(* What the steps write into the record of a call *)

CallsTyped == calls \in [Call -> CallRecord]
Others(c) == \A d \in Call \ {c} : calls'[d] = calls[d]

\* A step of the API: the call keeps what it was started with.
Kept(c) ==
    /\ calls'[c].op = calls[c].op /\ calls'[c].tab = calls[c].tab
    /\ calls'[c].nonce = calls[c].nonce /\ calls'[c].bearer = calls[c].bearer
    /\ calls'[c].rt = calls[c].rt /\ calls'[c].retry = calls[c].retry
    /\ calls'[c].attempts = calls[c].attempts /\ calls'[c].gone = calls[c].gone

Served(c, at, sid, out, new) ==
    /\ CallsTyped' /\ Others(c) /\ Kept(c)
    /\ calls'[c].at = at /\ calls'[c].sid = sid /\ calls'[c].out = out /\ calls'[c].new = new

LEMMA GoWrites ==
  ASSUME CallsTyped, NEW c \in Call, NEW s \in Steps, Go(c, s)
  PROVE  Served(c, s, calls[c].sid, calls[c].out, calls[c].new)
  <1> DEFINE r == [calls[c] EXCEPT !.at = s]
  <1>1. calls' = [calls EXCEPT ![c] = r]
    BY DEF Go, CallsTyped
  <1>2. /\ r \in CallRecord /\ r.at = s
        /\ r.op = calls[c].op /\ r.tab = calls[c].tab /\ r.nonce = calls[c].nonce
        /\ r.bearer = calls[c].bearer /\ r.rt = calls[c].rt /\ r.retry = calls[c].retry
        /\ r.attempts = calls[c].attempts /\ r.gone = calls[c].gone
        /\ r.sid = calls[c].sid /\ r.out = calls[c].out /\ r.new = calls[c].new
    BY DEF CallsTyped, CallRecord
  <1> HIDE DEF r
  <1>3. QED
    BY <1>1, <1>2 DEF Served, CallsTyped, Others, Kept

\* The record with a step and a response.
Responded(k, s, out, new) == [k EXCEPT !.at = s, !.out = out, !.new = new]

LEMMA RespondedType ==
  ASSUME NEW k \in CallRecord, NEW s \in Steps, NEW out \in {"ok", "401", "403"}, NEW new \in Number
  PROVE  LET r == Responded(k, s, out, new)
         IN /\ r \in CallRecord /\ r.at = s /\ r.out = out /\ r.new = new
            /\ r.op = k.op /\ r.tab = k.tab /\ r.nonce = k.nonce /\ r.bearer = k.bearer
            /\ r.rt = k.rt /\ r.retry = k.retry /\ r.attempts = k.attempts /\ r.gone = k.gone
            /\ r.sid = k.sid
  <1> DEFINE a == [k EXCEPT !.at = s]
             b == [a EXCEPT !.out = out]
             r == [b EXCEPT !.new = new]
  <1>1. a \in CallRecord /\ a.at = s
    BY DEF CallRecord
  <1>2. b \in CallRecord /\ b.at = s /\ b.out = out
    <2> HIDE DEF a
    <2> QED BY <1>1 DEF CallRecord
  <1>3. r \in CallRecord /\ r.at = s /\ r.out = out /\ r.new = new
    <2> HIDE DEF b
    <2> QED BY <1>2 DEF CallRecord
  <1>4. /\ r.op = k.op /\ r.tab = k.tab /\ r.nonce = k.nonce /\ r.bearer = k.bearer
        /\ r.rt = k.rt /\ r.retry = k.retry /\ r.attempts = k.attempts /\ r.gone = k.gone
        /\ r.sid = k.sid
    BY DEF CallRecord
  <1>5. r = Responded(k, s, out, new)
    BY DEF Responded
  <1> HIDE DEF r
  <1>6. QED
    BY <1>3, <1>4, <1>5

LEMMA RespondedWrites ==
  ASSUME CallsTyped, NEW c \in Call, NEW s \in Steps, NEW out \in {"ok", "401", "403"},
         NEW new \in Number, calls' = [calls EXCEPT ![c] = Responded(calls[c], s, out, new)]
  PROVE  Served(c, s, calls[c].sid, out, new)
  <1> DEFINE r == Responded(calls[c], s, out, new)
  <1>1. calls[c] \in CallRecord
    BY DEF CallsTyped
  <1>2. /\ r \in CallRecord /\ r.at = s /\ r.out = out /\ r.new = new
        /\ r.op = calls[c].op /\ r.tab = calls[c].tab /\ r.nonce = calls[c].nonce
        /\ r.bearer = calls[c].bearer /\ r.rt = calls[c].rt /\ r.retry = calls[c].retry
        /\ r.attempts = calls[c].attempts /\ r.gone = calls[c].gone /\ r.sid = calls[c].sid
    BY <1>1, RespondedType
  <1> HIDE DEF r
  <1>3. CallsTyped' /\ Others(c) /\ calls'[c] = r
    BY <1>2 DEF CallsTyped, Others, r
  <1>4. QED
    BY <1>2, <1>3 DEF Served, Kept

LEMMA ReplyWrites ==
  ASSUME CallsTyped, NEW c \in Call, NEW out \in {"ok", "401", "403"}, NEW new \in Number,
         Reply(c, out, new)
  PROVE  Served(c, "reply", calls[c].sid, out, new)
  <1>1. "reply" \in Steps
    BY DEF Steps
  <1>2. calls' = [calls EXCEPT ![c] = Responded(calls[c], "reply", out, new)]
    BY DEF Reply, Responded
  <1>3. QED
    BY <1>1, <1>2, RespondedWrites

LEMMA AnswerWrites ==
  ASSUME CallsTyped, NEW c \in Call, NEW out \in {"ok", "401", "403"}, NEW new \in Number,
         Answer(c, out, new)
  PROVE  Served(c, "answer", calls[c].sid, out, new)
  <1>1. "answer" \in Steps
    BY DEF Steps, RefreshSteps
  <1>2. calls' = [calls EXCEPT ![c] = Responded(calls[c], "answer", out, new)]
    BY DEF Answer, Responded
  <1>3. QED
    BY <1>1, <1>2, RespondedWrites

\* The session a refresh has found.
LEMMA FoundWrites ==
  ASSUME CallsTyped, NEW c \in Call, NEW s \in 0..MaxSessions, NEW at \in Steps,
         calls' = [calls EXCEPT ![c].sid = s, ![c].at = at]
  PROVE  Served(c, at, s, calls[c].out, calls[c].new)
  <1> DEFINE a == [calls[c] EXCEPT !.sid = s]
             r == [a EXCEPT !.at = at]
  <1>1. calls' = [calls EXCEPT ![c] = r]
    OBVIOUS
  <1>2. a \in CallRecord /\ a.sid = s
    BY DEF CallsTyped, CallRecord
  <1>3. r \in CallRecord /\ r.at = at /\ r.sid = s
    <2> HIDE DEF a
    <2> QED BY <1>2 DEF CallRecord
  <1>4. /\ r.op = calls[c].op /\ r.tab = calls[c].tab /\ r.nonce = calls[c].nonce
        /\ r.bearer = calls[c].bearer /\ r.rt = calls[c].rt /\ r.retry = calls[c].retry
        /\ r.attempts = calls[c].attempts /\ r.gone = calls[c].gone
        /\ r.out = calls[c].out /\ r.new = calls[c].new
    BY DEF CallsTyped, CallRecord
  <1> HIDE DEF r
  <1>5. QED
    BY <1>1, <1>3, <1>4 DEF Served, CallsTyped, Others, Kept

\* The tokens a refresh has signed.
LEMMA SignedWrites ==
  ASSUME CallsTyped, NEW c \in Call, NEW n \in Number,
         calls' = [calls EXCEPT ![c].at = "store", ![c].new = n]
  PROVE  Served(c, "store", calls[c].sid, calls[c].out, n)
  <1> DEFINE a == [calls[c] EXCEPT !.at = "store"]
             r == [a EXCEPT !.new = n]
  <1>1. calls' = [calls EXCEPT ![c] = r]
    OBVIOUS
  <1>2. a \in CallRecord /\ a.at = "store"
    BY DEF CallsTyped, CallRecord, Steps, RefreshSteps
  <1>3. r \in CallRecord /\ r.at = "store" /\ r.new = n
    <2> HIDE DEF a
    <2> QED BY <1>2 DEF CallRecord
  <1>4. /\ r.op = calls[c].op /\ r.tab = calls[c].tab /\ r.nonce = calls[c].nonce
        /\ r.bearer = calls[c].bearer /\ r.rt = calls[c].rt /\ r.retry = calls[c].retry
        /\ r.attempts = calls[c].attempts /\ r.gone = calls[c].gone
        /\ r.out = calls[c].out /\ r.sid = calls[c].sid
    BY DEF CallsTyped, CallRecord
  <1> HIDE DEF r
  <1>5. QED
    BY <1>1, <1>3, <1>4 DEF Served, CallsTyped, Others, Kept

LEMMA IdleType == Idle \in CallRecord
  <1>1. (CHOOSE t \in Tab : TRUE) \in Tab
    BY SessionsAssumption
  <1>2. 0 \in Number /\ 0 \in 0..MaxSessions /\ 0 \in 0..MaxRetries
    BY SessionsAssumption DEF Number
  <1>3. QED
    BY <1>1, <1>2 DEF Idle, CallRecord, Steps, Ops

LEMMA DoneWrites ==
  ASSUME CallsTyped, NEW c \in Call, Done(c)
  PROVE  CallsTyped' /\ Others(c) /\ calls'[c] = Idle
  BY IdleType DEF CallsTyped, Done, Others

\* A call begins with what it asks for, and nothing else.
Begun(c, t, op, s, bearer, n) ==
    /\ CallsTyped' /\ Others(c)
    /\ calls'[c].at = s /\ calls'[c].op = op /\ calls'[c].tab = t
    /\ calls'[c].bearer = bearer /\ calls'[c].nonce = n
    /\ calls'[c].rt = (IF s = "refresh" THEN cookie ELSE 0)
    /\ calls'[c].new = 0 /\ calls'[c].attempts = 0 /\ calls'[c].gone = FALSE

LEMMA BeginWrites ==
  ASSUME CallsTyped, cookie \in Number, sidOf \in [1..MaxIssued -> 0..MaxSessions],
         NEW c \in Call, NEW t \in Tab, NEW op \in Ops, NEW s \in Steps, NEW bearer \in Number,
         NEW n \in Nonce \cup {NoNonce}, op = "logout" => bearer # 0,
         Begin(c, t, op, s, bearer, n)
  PROVE  Begun(c, t, op, s, bearer, n)
  <1> DEFINE rt == IF s = "refresh" THEN cookie ELSE 0
             sid == IF op = "logout" THEN sidOf[bearer] ELSE 0
             k1 == [Idle EXCEPT !.at = s]
             k2 == [k1 EXCEPT !.op = op]
             k3 == [k2 EXCEPT !.tab = t]
             k4 == [k3 EXCEPT !.bearer = bearer]
             k5 == [k4 EXCEPT !.nonce = n]
             k6 == [k5 EXCEPT !.rt = rt]
             r  == [k6 EXCEPT !.sid = sid]
  <1>1. rt \in Number /\ sid \in 0..MaxSessions
    <2>1. 0 \in Number /\ 0 \in 0..MaxSessions
      BY SessionsAssumption DEF Number
    <2>2. op = "logout" => bearer \in 1..MaxIssued
      BY SessionsAssumption DEF Number
    <2>3. QED
      BY <2>1, <2>2
  <1>2. calls' = [calls EXCEPT ![c] = r]
    BY DEF Begin
  <1> HIDE DEF rt, sid
  <1>3. k1 \in CallRecord /\ k1.at = s
    BY IdleType DEF CallRecord
  <1>4. k2 \in CallRecord /\ k2.at = s /\ k2.op = op
    <2> HIDE DEF k1
    <2> QED BY <1>3 DEF CallRecord
  <1>5. k3 \in CallRecord /\ k3.at = s /\ k3.op = op /\ k3.tab = t
    <2> HIDE DEF k2
    <2> QED BY <1>4 DEF CallRecord
  <1>6. k4 \in CallRecord /\ k4.at = s /\ k4.op = op /\ k4.tab = t /\ k4.bearer = bearer
    <2> HIDE DEF k3
    <2> QED BY <1>5 DEF CallRecord
  <1>7. /\ k5 \in CallRecord /\ k5.at = s /\ k5.op = op /\ k5.tab = t /\ k5.bearer = bearer
        /\ k5.nonce = n
    <2> HIDE DEF k4
    <2> QED BY <1>6 DEF CallRecord
  <1>8. /\ k6 \in CallRecord /\ k6.at = s /\ k6.op = op /\ k6.tab = t /\ k6.bearer = bearer
        /\ k6.nonce = n /\ k6.rt = rt
    <2> HIDE DEF k5
    <2> QED BY <1>1, <1>7 DEF CallRecord
  <1>9. /\ r \in CallRecord /\ r.at = s /\ r.op = op /\ r.tab = t /\ r.bearer = bearer
        /\ r.nonce = n /\ r.rt = rt
    <2> HIDE DEF k6
    <2> QED BY <1>1, <1>8 DEF CallRecord
  <1>10. r.new = 0 /\ r.attempts = 0 /\ r.gone = FALSE
    BY DEF Idle
  <1> HIDE DEF r
  <1>11. CallsTyped' /\ Others(c) /\ calls'[c] = r
    BY <1>2, <1>9 DEF CallsTyped, Others
  <1>12. QED
    BY <1>9, <1>10, <1>11 DEF Begun, rt

\* attemptRefresh leaves the request as it was, with the token and the cookie of now.
Attempted(c) ==
    /\ CallsTyped' /\ Others(c)
    /\ calls'[c].at = "refresh" /\ calls'[c].rt = cookie /\ calls'[c].bearer = token[calls[c].tab]
    /\ calls'[c].op = calls[c].op /\ calls'[c].tab = calls[c].tab
    /\ calls'[c].nonce = calls[c].nonce /\ calls'[c].new = calls[c].new
    /\ calls'[c].out = calls[c].out /\ calls'[c].gone = calls[c].gone

LEMMA AttemptWrites ==
  ASSUME CallsTyped, cookie \in Number, token \in [Tab -> Number], NEW c \in Call,
         AttemptRefresh(c)
  PROVE  Attempted(c)
  <1> DEFINE bearer == token[calls[c].tab]
             a == [calls[c] EXCEPT !.at = "refresh"]
             b == [a EXCEPT !.rt = cookie]
             r == [b EXCEPT !.bearer = bearer]
  <1>1. bearer \in Number /\ "refresh" \in Steps
    BY DEF CallsTyped, CallRecord, Steps, RefreshSteps
  <1>2. calls' = [calls EXCEPT ![c] = r]
    BY DEF AttemptRefresh
  <1> HIDE DEF bearer
  <1>3. a \in CallRecord /\ a.at = "refresh"
    BY <1>1 DEF CallsTyped, CallRecord
  <1>4. b \in CallRecord /\ b.at = "refresh" /\ b.rt = cookie
    <2> HIDE DEF a
    <2> QED BY <1>3 DEF CallRecord
  <1>5. r \in CallRecord /\ r.at = "refresh" /\ r.rt = cookie /\ r.bearer = bearer
    <2> HIDE DEF b
    <2> QED BY <1>1, <1>4 DEF CallRecord
  <1>6. /\ r.op = calls[c].op /\ r.tab = calls[c].tab /\ r.nonce = calls[c].nonce
        /\ r.new = calls[c].new /\ r.out = calls[c].out /\ r.gone = calls[c].gone
    BY DEF CallsTyped, CallRecord
  <1> HIDE DEF r
  <1>7. CallsTyped' /\ Others(c) /\ calls'[c] = r
    BY <1>2, <1>5 DEF CallsTyped, Others
  <1>8. QED
    BY <1>5, <1>6, <1>7 DEF Attempted, bearer

\* The original request once more, with the new token.
Repeated(c) ==
    /\ CallsTyped' /\ Others(c)
    /\ calls'[c].at = "request" /\ calls'[c].bearer = calls[c].new
    /\ calls'[c].attempts = 0 /\ calls'[c].new = 0 /\ calls'[c].rt = 0
    /\ calls'[c].op = calls[c].op /\ calls'[c].nonce = calls[c].nonce

LEMMA RefreshOkWrites ==
  ASSUME CallsTyped, NEW c \in Call, RefreshOk(c)
  PROVE  Repeated(c)
  <1> DEFINE new == calls[c].new
             k1 == [calls[c] EXCEPT !.at = "request"]
             k2 == [k1 EXCEPT !.bearer = new]
             k3 == [k2 EXCEPT !.retry = TRUE]
             k4 == [k3 EXCEPT !.attempts = 0]
             k5 == [k4 EXCEPT !.new = 0]
             r  == [k5 EXCEPT !.rt = 0]
  <1>1. /\ new \in Number /\ "request" \in Steps /\ calls[c] \in CallRecord
        /\ 0 \in Number /\ 0 \in 0..MaxRetries
    BY SessionsAssumption DEF CallsTyped, CallRecord, Steps, Number
  <1>2. calls' = [calls EXCEPT ![c] = r]
    BY DEF RefreshOk
  <1>3. r.op = calls[c].op /\ r.nonce = calls[c].nonce
    BY DEF CallsTyped, CallRecord
  <1> HIDE DEF new
  <1>4. k1 \in CallRecord /\ k1.at = "request"
    BY <1>1 DEF CallRecord
  <1>5. k2 \in CallRecord /\ k2.at = "request" /\ k2.bearer = new
    <2> HIDE DEF k1
    <2> QED BY <1>1, <1>4 DEF CallRecord
  <1>6. k3 \in CallRecord /\ k3.at = "request" /\ k3.bearer = new
    <2> HIDE DEF k2
    <2> QED BY <1>5 DEF CallRecord
  <1>7. k4 \in CallRecord /\ k4.at = "request" /\ k4.bearer = new /\ k4.attempts = 0
    <2> HIDE DEF k3
    <2> QED BY <1>1, <1>6 DEF CallRecord
  <1>8. /\ k5 \in CallRecord /\ k5.at = "request" /\ k5.bearer = new /\ k5.attempts = 0
        /\ k5.new = 0
    <2> HIDE DEF k4
    <2> QED BY <1>1, <1>7 DEF CallRecord
  <1>9. /\ r \in CallRecord /\ r.at = "request" /\ r.bearer = new /\ r.attempts = 0
        /\ r.new = 0 /\ r.rt = 0
    <2> HIDE DEF k5
    <2> QED BY <1>1, <1>8 DEF CallRecord
  <1> HIDE DEF r
  <1>10. CallsTyped' /\ Others(c) /\ calls'[c] = r
    BY <1>2, <1>9 DEF CallsTyped, Others
  <1>11. QED
    BY <1>3, <1>9, <1>10 DEF Repeated, new

\* The same request again, after a network error.
Resent(c) ==
    /\ CallsTyped' /\ Others(c)
    /\ calls'[c].at = "request" /\ calls'[c].attempts = calls[c].attempts + 1
    /\ calls'[c].out = "ok" /\ calls'[c].new = 0
    /\ calls'[c].op = calls[c].op /\ calls'[c].nonce = calls[c].nonce
    /\ calls'[c].bearer = calls[c].bearer /\ calls'[c].rt = calls[c].rt

Resend(c) ==
    /\ calls[c].attempts < MaxRetries
    /\ calls' = [calls EXCEPT ![c].at = "request", ![c].attempts = @ + 1,
                              ![c].out = "ok", ![c].new = 0]

LEMMA ResendWrites ==
  ASSUME CallsTyped, NEW c \in Call, Resend(c)
  PROVE  Resent(c)
  <1> DEFINE n == calls[c].attempts + 1
             k1 == [calls[c] EXCEPT !.at = "request"]
             k2 == [k1 EXCEPT !.attempts = n]
             k3 == [k2 EXCEPT !.out = "ok"]
             r  == [k3 EXCEPT !.new = 0]
  <1>0. calls[c].attempts \in 0..MaxRetries
    BY DEF CallsTyped, CallRecord
  <1>1. /\ n \in 0..MaxRetries /\ "request" \in Steps /\ calls[c] \in CallRecord
        /\ 0 \in Number
    BY <1>0, SessionsAssumption DEF Resend, CallsTyped, Steps, Number
  <1>2. calls' = [calls EXCEPT ![c] = r]
    BY DEF Resend, CallsTyped, CallRecord
  <1>3. /\ r.op = calls[c].op /\ r.nonce = calls[c].nonce /\ r.bearer = calls[c].bearer
        /\ r.rt = calls[c].rt
    BY DEF CallsTyped, CallRecord
  <1> HIDE DEF n
  <1>4. k1 \in CallRecord /\ k1.at = "request"
    BY <1>1 DEF CallRecord
  <1>5. k2 \in CallRecord /\ k2.at = "request" /\ k2.attempts = n
    <2> HIDE DEF k1
    <2> QED BY <1>1, <1>4 DEF CallRecord
  <1>6. k3 \in CallRecord /\ k3.at = "request" /\ k3.attempts = n /\ k3.out = "ok"
    <2> HIDE DEF k2
    <2> QED BY <1>5 DEF CallRecord
  <1>7. r \in CallRecord /\ r.at = "request" /\ r.attempts = n /\ r.out = "ok" /\ r.new = 0
    <2> HIDE DEF k3
    <2> QED BY <1>1, <1>6 DEF CallRecord
  <1> HIDE DEF r
  <1>8. CallsTyped' /\ Others(c) /\ calls'[c] = r
    BY <1>2, <1>7 DEF CallsTyped, Others
  <1>9. QED
    BY <1>3, <1>7, <1>8 DEF Resent, n

\* A page load changes no call but by forgetting it, or no longer waiting for it.
LEMMA ReloadWrites ==
  ASSUME CallsTyped, NEW t \in Tab, Reload(t)
  PROVE  /\ CallsTyped'
         /\ \A c \in Call : \/ calls'[c] = calls[c]
                            \/ calls'[c] = Idle /\ calls[c].op = "query" /\ ~Refreshing(c)
                            \/ /\ calls[c].tab = t
                               /\ calls'[c] = [calls[c] EXCEPT !.gone = TRUE]
  <1>1. \A c \in Call : [calls[c] EXCEPT !.gone = TRUE] \in CallRecord
    BY DEF CallsTyped, CallRecord
  <1>2. QED
    BY <1>1, IdleType DEF CallsTyped, Reload

\* The session found by its hash.
LEMMA FoundByHash ==
  ASSUME NEW rt
  PROVE  LET s == GetSessionByRefreshHash(rt)
         IN s \in 0..MaxSessions /\ (s # 0 => s \in Sid /\ sessions[s] = rt)
  BY SessionsAssumption DEF GetSessionByRefreshHash, Sid

\* What a sign-in finds when it starts: sessions left for its attempts, no other sign-in.
LEMMA RoomForLogin ==
  ASSUME NEW op \in LoginOps, RoomFor(op)
  PROVE  /\ Len(boughtWith) + MaxRetries + 1 <= MaxSessions
         /\ \A c \in Active : calls[c].op \notin LoginOps
  BY DEF RoomFor

-----------------------------------------------------------------------------
(* Types.  That sessions never run out of numbers is not a matter of form: a sign-in  *)
(* that is repeated must not create more of them than were counted when it started.   *)

\* Which calls come to which steps.
StepOK(c) ==
    /\ calls[c].at = "idle" => calls[c].op = "query"
    /\ calls[c].at = "session" => calls[c].op \in {"query", "logout"} /\ calls[c].bearer # 0
    /\ calls[c].at \in {"delete", "blacklist"} => calls[c].op = "logout" /\ calls[c].bearer # 0
    /\ calls[c].at = "create" => calls[c].op \in {"wallet", "zk"}
    /\ calls[c].at = "reply" /\ calls[c].op \notin LoginOps => calls[c].new = 0

\* The sessions a sign-in may still create: a wallet's one per nonce, the other sort's one
\* per attempt.
CountOK(c) ==
    /\ calls[c].op = "wallet" /\ (calls[c].at = "create" \/ calls[c].nonce \in challenges)
         => Len(boughtWith) + 1 <= MaxSessions
    /\ calls[c].op = "wallet" /\ calls[c].at = "create" => calls[c].nonce \notin challenges
    /\ calls[c].op = "zk" =>
         \/ /\ calls[c].at \in {"request", "create"}
            /\ Len(boughtWith) + (MaxRetries - calls[c].attempts) + 1 <= MaxSessions
         \/ /\ calls[c].at = "reply" /\ calls[c].out = "ok"
            /\ Len(boughtWith) + (MaxRetries - calls[c].attempts) <= MaxSessions

StepsInv == \A c \in Call : StepOK(c)
CountInv ==
    /\ Len(boughtWith) <= MaxSessions
    /\ \A c, d \in Call : calls[c].op \in LoginOps /\ calls[d].op \in LoginOps => c = d
    /\ \A c \in Call : CountOK(c)

TypeInv == SessionsTypeOK /\ StepsInv /\ CountInv

\* What variables other than calls have for types.
RestTyped ==
    /\ challenges \subseteq Nonce
    /\ sessions \in [Sid -> Number]
    /\ blacklist \subseteq 1..MaxIssued
    /\ issued \in Number
    /\ sidOf \in [1..MaxIssued -> 0..MaxSessions]
    /\ expired \subseteq 1..MaxIssued
    /\ cookie \in Number
    /\ token \in [Tab -> Number]
    /\ zk \in [Tab -> {"none", "valid", "stale"}]
    /\ handedOut \subseteq Nonce
    /\ boughtWith \in Seq(Nonce \cup {NoNonce})
    /\ loggedOut \subseteq 1..MaxIssued
    /\ torn \in BOOLEAN

LEMMA TypeParts == SessionsTypeOK <=> CallsTyped /\ RestTyped
  BY DEF SessionsTypeOK, CallsTyped, RestTyped

LEMMA TypePartsNext == CallsTyped' /\ RestTyped' => SessionsTypeOK'
  BY DEF SessionsTypeOK, CallsTyped, RestTyped

LEMMA Numbers ==
    /\ MaxIssued \in Nat /\ MaxSessions \in Nat /\ MaxRetries \in Nat
    /\ \A n \in Number : n \in Nat /\ (n # 0 => n \in 1..MaxIssued)
    /\ \A n \in 1..MaxIssued : n \in Number
    /\ 0 \in Number
  BY SessionsAssumption DEF Number

LEMMA CallType ==
  ASSUME CallsTyped, NEW c \in Call
  PROVE  /\ calls[c].at \in Steps /\ calls[c].op \in Ops /\ calls[c].tab \in Tab
         /\ calls[c].bearer \in Number /\ calls[c].rt \in Number /\ calls[c].new \in Number
         /\ calls[c].nonce \in Nonce \cup {NoNonce} /\ calls[c].sid \in 0..MaxSessions
         /\ calls[c].attempts \in 0..MaxRetries /\ calls[c].out \in {"ok", "401", "403"}
         /\ calls[c].gone \in BOOLEAN
  BY DEF CallsTyped, CallRecord

LEMMA TypeInit == Init => TypeInv
  <1> SUFFICES ASSUME Init PROVE TypeInv
    OBVIOUS
  <1>1. CallsTyped
    BY IdleType DEF Init, CallsTyped
  <1>2. RestTyped
    <2>1. boughtWith \in Seq(Nonce \cup {NoNonce})
      BY DEF Init
    <2>2. 0 \in 0..MaxSessions
      BY Numbers
    <2>3. QED
      BY <2>1, <2>2, Numbers DEF Init, RestTyped
  <1>3. StepsInv /\ CountInv
    <2>1. \A c \in Call : calls[c].at = "idle" /\ calls[c].op = "query"
      BY DEF Init, Idle
    <2>2. Len(boughtWith) = 0
      BY DEF Init
    <2>3. QED
      BY <2>1, <2>2, Numbers DEF StepsInv, StepOK, CountInv, CountOK, LoginOps
  <1>4. QED
    BY <1>1, <1>2, <1>3, TypeParts DEF TypeInv

\* A step of one call that stores no challenge and creates no session.
LEMMA QuietCall ==
  ASSUME StepsInv, CountInv, NEW c \in Call, Others(c),
         calls'[c].op \in LoginOps => calls[c].op \in LoginOps,
         boughtWith' = boughtWith, challenges' \subseteq challenges,
         StepOK(c)', CountOK(c)'
  PROVE  StepsInv' /\ CountInv'
  <1>1. \A d \in Call \ {c} : calls'[d] = calls[d]
    BY DEF Others
  <1>2. \A d \in Call \ {c} : StepOK(d)' /\ CountOK(d)'
    BY <1>1 DEF StepsInv, CountInv, StepOK, CountOK
  <1>3. \A d, e \in Call : calls'[d].op \in LoginOps /\ calls'[e].op \in LoginOps => d = e
    BY <1>1 DEF CountInv
  <1>4. QED
    BY <1>2, <1>3 DEF StepsInv, CountInv

LEMMA QuietDone ==
  ASSUME TypeInv, NEW c \in Call, Done(c), boughtWith' = boughtWith,
         challenges' \subseteq challenges
  PROVE  CallsTyped' /\ StepsInv' /\ CountInv'
  <1>b. CallsTyped' /\ Others(c) /\ calls'[c] = Idle
    BY DoneWrites, TypeParts DEF TypeInv
  <1>1. CallsTyped' /\ Others(c) /\ calls'[c].at = "idle" /\ calls'[c].op = "query"
    BY <1>b DEF Idle
  <1>2. StepOK(c)' /\ CountOK(c)'
    BY <1>1 DEF StepOK, CountOK
  <1>3. QED
    BY <1>1, <1>2, QuietCall DEF TypeInv, LoginOps

\* The steps of the API but the one that creates a session, and the refreshes of the
\* client: the call keeps its operation and nonce.
LEMMA QuietStep ==
  ASSUME TypeInv, NEW c \in Call, CallsTyped', Others(c),
         calls'[c].op = calls[c].op, calls'[c].nonce = calls[c].nonce,
         boughtWith' = boughtWith, challenges' \subseteq challenges,
         calls[c].op # "zk", calls'[c].at \notin {"idle", "create"},
         calls'[c].at \in {"session", "delete", "blacklist", "reply"} => StepOK(c)'
  PROVE  StepsInv' /\ CountInv'
  <1>1. StepOK(c)'
    BY DEF StepOK
  <1>2. CountOK(c)'
    BY DEF CountOK, TypeInv, CountInv
  <1>3. QED
    BY <1>1, <1>2, QuietCall DEF TypeInv

\* A call begins.
LEMMA BeginInv ==
  ASSUME TypeInv, NEW c \in Call, NEW t \in Tab, NEW op \in Ops, NEW s \in {"request", "refresh"},
         NEW bearer \in Number, NEW n \in Nonce \cup {NoNonce}, op = "logout" => bearer # 0,
         op = "zk" => s = "request",
         Begin(c, t, op, s, bearer, n), boughtWith' = boughtWith,
         challenges' \subseteq challenges \cup {n}, op = "wallet" \/ challenges' = challenges
  PROVE  CallsTyped' /\ StepsInv' /\ CountInv'
  <1>1. Begun(c, t, op, s, bearer, n)
    <2>1. s \in Steps
      BY DEF Steps, RefreshSteps
    <2>2. QED
      BY <2>1, BeginWrites, TypeParts DEF TypeInv, RestTyped
  <1>2. StepOK(c)'
    BY <1>1 DEF Begun, StepOK
  <1>3. CASE op \notin LoginOps
    <2>1. CountOK(c)'
      BY <1>1, <1>3 DEF Begun, CountOK, LoginOps
    <2>2. calls'[c].op \notin LoginOps /\ challenges' = challenges
      BY <1>1, <1>3 DEF Begun, LoginOps
    <2>3. QED
      BY <1>1, <1>2, <2>1, <2>2, QuietCall DEF TypeInv, Begun
  <1>4. CASE op \in LoginOps
    <2>1. /\ Len(boughtWith) + MaxRetries + 1 <= MaxSessions
          /\ \A d \in Active : calls[d].op \notin LoginOps
      BY <1>4, RoomForLogin DEF Begin
    <2>2. \A d \in Call : calls[d].op \notin LoginOps
      BY <2>1 DEF TypeInv, StepsInv, StepOK, Active, LoginOps
    <2>3. \A d \in Call \ {c} : calls'[d] = calls[d]
      BY <1>1 DEF Begun, Others
    <2>4. Len(boughtWith) \in Nat
      BY TypeParts DEF TypeInv, RestTyped
    <2>5. /\ Len(boughtWith) + 1 <= MaxSessions /\ MaxRetries - 0 = MaxRetries
          /\ Len(boughtWith) + (MaxRetries - 0) + 1 <= MaxSessions
      BY <2>1, <2>4, Numbers
    <2>6. CountOK(c)'
      BY <1>1, <2>5 DEF Begun, CountOK
    <2>7. \A d \in Call \ {c} : StepOK(d)' /\ CountOK(d)'
      BY <2>2, <2>3 DEF TypeInv, StepsInv, StepOK, CountOK, LoginOps
    <2>8. QED
      BY <1>1, <1>2, <2>2, <2>3, <2>6, <2>7 DEF TypeInv, StepsInv, CountInv, Begun
  <1>5. QED
    BY <1>3, <1>4

\* A page load.
LEMMA ReloadInv ==
  ASSUME TypeInv, NEW t \in Tab, Reload(t)
  PROVE  CallsTyped' /\ StepsInv' /\ CountInv'
  <1>1. /\ CallsTyped'
        /\ \A c \in Call : \/ calls'[c] = calls[c]
                           \/ calls'[c] = Idle
                           \/ calls'[c] = [calls[c] EXCEPT !.gone = TRUE]
    BY ReloadWrites, TypeParts DEF TypeInv
  <1>2. boughtWith' = boughtWith /\ challenges' = challenges
    BY DEF Reload, redis
  <1>3. \A c \in Call :
           \/ /\ calls'[c].at = calls[c].at /\ calls'[c].op = calls[c].op
              /\ calls'[c].nonce = calls[c].nonce /\ calls'[c].bearer = calls[c].bearer
              /\ calls'[c].attempts = calls[c].attempts /\ calls'[c].out = calls[c].out
              /\ calls'[c].new = calls[c].new
           \/ calls'[c].at = "idle" /\ calls'[c].op = "query"
    <2> SUFFICES ASSUME NEW c \in Call
                 PROVE  \/ /\ calls'[c].at = calls[c].at /\ calls'[c].op = calls[c].op
                           /\ calls'[c].nonce = calls[c].nonce /\ calls'[c].bearer = calls[c].bearer
                           /\ calls'[c].attempts = calls[c].attempts /\ calls'[c].out = calls[c].out
                           /\ calls'[c].new = calls[c].new
                        \/ calls'[c].at = "idle" /\ calls'[c].op = "query"
      OBVIOUS
    <2>1. CASE calls'[c] = calls[c]
      BY <2>1
    <2>2. CASE calls'[c] = Idle
      BY <2>2 DEF Idle
    <2>3. CASE calls'[c] = [calls[c] EXCEPT !.gone = TRUE]
      <3>1. calls[c] \in CallRecord
        BY TypeParts DEF TypeInv, CallsTyped
      <3>2. QED
        BY <2>3, <3>1 DEF CallRecord
    <2>4. QED
      BY <1>1, <2>1, <2>2, <2>3
  <1>4. StepsInv'
    BY <1>3 DEF TypeInv, StepsInv, StepOK
  <1>5. \A c \in Call : CountOK(c)'
    BY <1>2, <1>3 DEF TypeInv, CountInv, CountOK
  <1>6. \A c, d \in Call : calls'[c].op \in LoginOps /\ calls'[d].op \in LoginOps => c = d
    BY <1>3 DEF TypeInv, CountInv, LoginOps
  <1>7. QED
    BY <1>1, <1>2, <1>4, <1>5, <1>6 DEF CountInv, TypeInv

\* A token is a claim on a session.
LEMMA SignType ==
  ASSUME RestTyped, NEW s \in 0..MaxSessions, SignAccessToken(s)
  PROVE  /\ issued + 1 \in 1..MaxIssued /\ issued' = issued + 1
         /\ issued' \in Number
         /\ sidOf' \in [1..MaxIssued -> 0..MaxSessions]
         /\ sidOf'[issued + 1] = s
         /\ \A n \in 1..issued : n \in 1..MaxIssued /\ sidOf'[n] = sidOf[n]
         /\ expired' = expired
  <1>1. issued \in 0..MaxIssued /\ MaxIssued \in Nat
    BY Numbers DEF RestTyped, Number
  <1>2. issued < MaxIssued /\ issued' = issued + 1 /\ sidOf' = [sidOf EXCEPT ![issued + 1] = s]
        /\ expired' = expired
    BY DEF SignAccessToken
  <1>3. issued + 1 \in 1..MaxIssued /\ issued + 1 \in Number
    BY <1>1, <1>2 DEF Number
  <1>4. sidOf' \in [1..MaxIssued -> 0..MaxSessions] /\ sidOf'[issued + 1] = s
    BY <1>2, <1>3 DEF RestTyped
  <1>5. \A n \in 1..issued : n \in 1..MaxIssued /\ n # issued + 1
    BY <1>1
  <1>6. QED
    BY <1>2, <1>3, <1>4, <1>5 DEF RestTyped

\* The steps of the API.
LEMMA HandleType ==
  ASSUME TypeInv, NEW c \in Call, Handle(c)
  PROVE  TypeInv'
  <1>0. CallsTyped /\ RestTyped /\ StepsInv /\ CountInv /\ StepOK(c) /\ CountOK(c)
    BY TypeParts DEF TypeInv, StepsInv, CountInv
  <1> USE DEF redis, tokens, client, history
  <1>b. Steps = {"idle", "request", "session", "delete", "blacklist", "create", "reply",
                 "refresh", "renew", "store", "destroy", "answer"}
    BY DEF Steps, RefreshSteps
  \* The refreshes: no operation of theirs is zk.
  <1>r. calls[c].at \in RefreshSteps \cup {"session", "delete", "blacklist"}
          => calls[c].op # "zk"
    BY <1>0 DEF StepOK, CountOK, RefreshSteps
  <1>1. ASSUME TokenGuard(c) PROVE TypeInv'
    <2>1. calls[c].op # "zk" /\ calls[c].op \in {"query", "logout"}
      BY <1>1 DEF TokenGuard
    <2>2. CASE Go(c, "session") /\ VerifyAccessToken(calls[c].bearer)
      <3>1. Served(c, "session", calls[c].sid, calls[c].out, calls[c].new)
        BY <1>0, <1>b, <2>2, GoWrites
      <3>2. StepOK(c)'
        BY <2>1, <2>2, <3>1 DEF StepOK, Served, Kept, VerifyAccessToken
      <3>3. StepsInv' /\ CountInv'
        BY <1>1, <2>1, <3>1, <3>2, QuietStep DEF TokenGuard, Served, Kept
      <3>4. QED
        BY <1>0, <1>1, <3>1, <3>3, TypePartsNext DEF TypeInv, TokenGuard, RestTyped, Served
    <2>3. CASE Reply(c, "401", 0)
      <3>1. Served(c, "reply", calls[c].sid, "401", 0)
        BY <1>0, <2>3, ReplyWrites, Numbers
      <3>2. StepOK(c)'
        BY <3>1 DEF StepOK, Served
      <3>3. StepsInv' /\ CountInv'
        BY <1>1, <2>1, <3>1, <3>2, QuietStep DEF TokenGuard, Served, Kept
      <3>4. QED
        BY <1>0, <1>1, <3>1, <3>3, TypePartsNext DEF TypeInv, TokenGuard, RestTyped, Served
    <2>4. QED
      BY <1>1, <2>2, <2>3 DEF TokenGuard
  <1>2. ASSUME SessionGuard(c) PROVE TypeInv'
    <2>1. calls[c].op \in {"query", "logout"} /\ calls[c].op # "zk" /\ calls[c].bearer # 0
      BY <1>0, <1>2 DEF SessionGuard, StepOK
    <2>2. \/ Reply(c, "401", 0) \/ Reply(c, "ok", 0) \/ Reply(c, "403", 0)
          \/ Go(c, "delete") /\ calls[c].op # "query"
      BY <1>2 DEF SessionGuard, CsrfGuard
    <2>3. ASSUME NEW out \in {"ok", "401", "403"}, Reply(c, out, 0) PROVE TypeInv'
      <3>1. Served(c, "reply", calls[c].sid, out, 0)
        BY <1>0, <2>3, ReplyWrites, Numbers
      <3>2. StepOK(c)'
        BY <3>1 DEF StepOK, Served
      <3>3. StepsInv' /\ CountInv'
        BY <1>2, <2>1, <3>1, <3>2, QuietStep DEF SessionGuard, Served, Kept
      <3>4. QED
        BY <1>0, <1>2, <3>1, <3>3, TypePartsNext DEF TypeInv, SessionGuard, RestTyped, Served
    <2>4. CASE Go(c, "delete") /\ calls[c].op # "query"
      <3>1. Served(c, "delete", calls[c].sid, calls[c].out, calls[c].new)
        BY <1>0, <1>b, <2>4, GoWrites
      <3>2. StepOK(c)'
        BY <2>1, <2>4, <3>1 DEF StepOK, Served, Kept
      <3>3. StepsInv' /\ CountInv'
        BY <1>2, <2>1, <3>1, <3>2, QuietStep DEF SessionGuard, Served, Kept
      <3>4. QED
        BY <1>0, <1>2, <3>1, <3>3, TypePartsNext DEF TypeInv, SessionGuard, RestTyped, Served
    <2>5. QED
      BY <2>2, <2>3, <2>4
  <1>3. ASSUME DeleteSession(c) PROVE TypeInv'
    <2>1. calls[c].op = "logout" /\ calls[c].bearer # 0
      BY <1>0, <1>3 DEF DeleteSession, StepOK
    <2>2. Served(c, "blacklist", calls[c].sid, calls[c].out, calls[c].new)
      BY <1>0, <1>b, <1>3, GoWrites DEF DeleteSession
    <2>3. StepOK(c)'
      BY <2>1, <2>2 DEF StepOK, Served, Kept
    <2>4. StepsInv' /\ CountInv'
      BY <1>3, <2>1, <2>2, <2>3, QuietStep DEF DeleteSession, Served, Kept
    <2>5. sessions' \in [Sid -> Number]
      BY <1>0, <1>3, Numbers DEF DeleteSession, DelSession, RestTyped
    <2>6. RestTyped'
      BY <1>0, <1>3, <2>5 DEF DeleteSession, RestTyped
    <2>7. QED
      BY <2>2, <2>4, <2>6, TypePartsNext DEF TypeInv, Served
  <1>4. ASSUME BlacklistToken(c) PROVE TypeInv'
    <2>1. calls[c].op = "logout" /\ calls[c].bearer \in 1..MaxIssued
      BY <1>0, <1>4, CallType, Numbers DEF BlacklistToken, StepOK
    <2>2. Served(c, "reply", calls[c].sid, "ok", 0)
      BY <1>0, <1>4, ReplyWrites, Numbers DEF BlacklistToken
    <2>3. StepOK(c)'
      BY <2>2 DEF StepOK, Served
    <2>4. StepsInv' /\ CountInv'
      BY <1>4, <2>1, <2>2, <2>3, QuietStep DEF BlacklistToken, Served, Kept
    <2>5. RestTyped'
      BY <1>0, <1>4, <2>1 DEF BlacklistToken, RestTyped
    <2>6. QED
      BY <2>2, <2>4, <2>5, TypePartsNext DEF TypeInv, Served
  <1>5. ASSUME Verify(c) PROVE TypeInv'
    <2>1. /\ calls[c].op = "wallet" /\ challenges' = challenges \ {calls[c].nonce}
          /\ boughtWith' = boughtWith
      BY <1>5 DEF Verify, ConsumeChallenge
    <2>2. RestTyped'
      BY <1>0, <1>5, <2>1 DEF Verify, RestTyped
    <2>3. CASE Go(c, "create") /\ calls[c].nonce \in challenges
      <3>1. Served(c, "create", calls[c].sid, calls[c].out, calls[c].new)
        BY <1>0, <1>b, <2>3, GoWrites
      <3>2. Len(boughtWith) + 1 <= MaxSessions
        BY <1>0, <2>1, <2>3 DEF CountOK
      <3>3. StepOK(c)' /\ CountOK(c)'
        BY <2>1, <3>1, <3>2 DEF StepOK, CountOK, Served, Kept
      <3>4. StepsInv' /\ CountInv'
        BY <1>0, <2>1, <3>1, <3>3, QuietCall DEF Served, Kept
      <3>5. QED
        BY <2>2, <3>1, <3>4, TypePartsNext DEF TypeInv, Served
    <2>4. CASE Reply(c, "401", 0)
      <3>1. Served(c, "reply", calls[c].sid, "401", 0)
        BY <1>0, <2>4, ReplyWrites, Numbers
      <3>2. StepOK(c)'
        BY <3>1 DEF StepOK, Served
      <3>3. StepsInv' /\ CountInv'
        BY <2>1, <3>1, <3>2, QuietStep DEF Served, Kept
      <3>4. QED
        BY <2>2, <3>1, <3>3, TypePartsNext DEF TypeInv, Served
    <2>5. QED
      BY <1>5, <2>3, <2>4 DEF Verify
  <1>6. ASSUME VerifyZkLogin(c) PROVE TypeInv'
    <2>1. RestTyped' /\ boughtWith' = boughtWith /\ challenges' = challenges
      BY <1>0, <1>6 DEF VerifyZkLogin, RestTyped
    <2>2. CASE calls[c].op = "zk" /\ Go(c, "create")
      <3>1. Served(c, "create", calls[c].sid, calls[c].out, calls[c].new)
        BY <1>0, <1>b, <2>2, GoWrites
      <3>2. StepOK(c)' /\ CountOK(c)'
        BY <1>0, <1>6, <2>1, <2>2, <3>1 DEF VerifyZkLogin, StepOK, CountOK, Served, Kept
      <3>3. StepsInv' /\ CountInv'
        BY <1>0, <2>1, <3>1, <3>2, QuietCall DEF Served, Kept
      <3>4. QED
        BY <2>1, <3>1, <3>3, TypePartsNext DEF TypeInv, Served
    <2>3. CASE calls[c].op # "zk" /\ Reply(c, "401", 0)
      <3>1. Served(c, "reply", calls[c].sid, "401", 0)
        BY <1>0, <2>3, ReplyWrites, Numbers
      <3>2. StepOK(c)'
        BY <3>1 DEF StepOK, Served
      <3>3. StepsInv' /\ CountInv'
        BY <2>1, <2>3, <3>1, <3>2, QuietStep DEF Served, Kept
      <3>4. QED
        BY <2>1, <3>1, <3>3, TypePartsNext DEF TypeInv, Served
    <2>4. QED
      BY <1>6, <2>2, <2>3 DEF VerifyZkLogin
  <1>7. ASSUME CreateSession(c) PROVE TypeInv'
    <2> DEFINE s == Len(boughtWith) + 1
    <2>1. /\ boughtWith' = Append(boughtWith, calls[c].nonce) /\ SignAccessToken(s)
          /\ SetSession(s, issued + 1) /\ Reply(c, "ok", issued + 1)
          /\ calls[c].at = "create" /\ challenges' = challenges
      BY <1>7 DEF CreateSession
    <2>2. Len(boughtWith) \in Nat /\ MaxRetries \in Nat /\ MaxSessions \in Nat
      BY <1>0, Numbers DEF RestTyped
    <2>3. calls[c].op \in {"wallet", "zk"} /\ calls[c].attempts \in 0..MaxRetries
      BY <1>0, <2>1, CallType DEF StepOK
    <2>4. s <= MaxSessions
      <3>1. CASE calls[c].op = "wallet"
        BY <1>0, <2>1, <3>1 DEF CountOK
      <3>2. CASE calls[c].op = "zk"
        <4>1. Len(boughtWith) + (MaxRetries - calls[c].attempts) + 1 <= MaxSessions
          BY <1>0, <2>1, <3>2 DEF CountOK
        <4>2. QED
          BY <2>2, <2>3, <4>1
      <3>3. QED
        BY <2>3, <3>1, <3>2
    <2>5. s \in 0..MaxSessions
      BY <2>2, <2>4
    <2>6. /\ boughtWith' \in Seq(Nonce \cup {NoNonce}) /\ Len(boughtWith') = s
      BY <1>0, <2>1, CallType DEF RestTyped
    <2> HIDE DEF s
    <2>7. /\ issued + 1 \in Number /\ issued' \in Number
          /\ sidOf' \in [1..MaxIssued -> 0..MaxSessions]
      BY <1>0, <2>1, <2>5, SignType
    <2>8. sessions' \in [Sid -> Number]
      BY <1>0, <2>1, <2>7 DEF SetSession, RestTyped
    <2>9. RestTyped'
      BY <1>0, <1>7, <2>6, <2>7, <2>8 DEF CreateSession, SignAccessToken, RestTyped
    <2>10. Served(c, "reply", calls[c].sid, "ok", issued + 1)
      BY <1>0, <2>1, <2>7, ReplyWrites
    <2>11. StepOK(c)'
      BY <2>3, <2>10 DEF StepOK, Served, Kept, LoginOps
    <2>12. CountOK(c)'
      <3>1. CASE calls[c].op = "wallet"
        BY <1>0, <2>1, <2>10, <3>1 DEF CountOK, Served, Kept
      <3>2. CASE calls[c].op = "zk"
        <4>1. Len(boughtWith) + (MaxRetries - calls[c].attempts) + 1 <= MaxSessions
          BY <1>0, <2>1, <3>2 DEF CountOK
        <4>2. s + (MaxRetries - calls[c].attempts) <= MaxSessions
          BY <2>2, <2>3, <4>1 DEF s
        <4>3. QED
          BY <2>6, <2>10, <3>2, <4>2 DEF CountOK, Served, Kept
      <3>3. QED
        BY <2>3, <3>1, <3>2
    <2>13. \A d \in Call \ {c} : calls'[d] = calls[d] /\ calls[d].op \notin LoginOps
      BY <1>0, <2>3, <2>10 DEF Served, Others, CountInv, LoginOps
    <2>14. \A d \in Call \ {c} : StepOK(d)' /\ CountOK(d)'
      BY <1>0, <2>13 DEF StepsInv, StepOK, CountOK, LoginOps
    <2>15. StepsInv' /\ CountInv'
      BY <2>4, <2>6, <2>11, <2>12, <2>13, <2>14 DEF StepsInv, CountInv
    <2>16. QED
      BY <2>9, <2>10, <2>15, TypePartsNext DEF TypeInv, Served
  <1>8. ASSUME RefreshWithoutCookie(c) PROVE TypeInv'
    <2>1. Served(c, "answer", calls[c].sid, "401", 0)
      BY <1>0, <1>8, AnswerWrites, Numbers DEF RefreshWithoutCookie
    <2>2. StepsInv' /\ CountInv'
      BY <1>r, <1>8, <2>1, QuietStep DEF RefreshWithoutCookie, Served, Kept, RefreshSteps
    <2>3. QED
      BY <1>0, <1>8, <2>1, <2>2, TypePartsNext DEF TypeInv, RefreshWithoutCookie, RestTyped, Served
  <1>9. ASSUME RefreshBySid(c) PROVE TypeInv'
    <2> DEFINE s == sidOf[calls[c].bearer]
    <2>1. s \in 0..MaxSessions
      BY <1>0, <1>9, CallType, Numbers DEF RefreshBySid, RestTyped
    <2>2. RestTyped' /\ calls[c].op # "zk" /\ boughtWith' = boughtWith /\ challenges' = challenges
      BY <1>0, <1>r, <1>9 DEF RefreshBySid, RestTyped, RefreshSteps
    <2>3. CASE Answer(c, "401", 0)
      <3>1. Served(c, "answer", calls[c].sid, "401", 0)
        BY <1>0, <2>3, AnswerWrites, Numbers
      <3>2. StepsInv' /\ CountInv'
        BY <2>2, <3>1, QuietStep DEF Served, Kept
      <3>3. QED
        BY <2>2, <3>1, <3>2, TypePartsNext DEF TypeInv, Served
    <2>4. ASSUME NEW at \in {"renew", "destroy"}, calls' = [calls EXCEPT ![c].sid = s, ![c].at = at]
          PROVE  TypeInv'
      <3> HIDE DEF s
      <3>1. Served(c, at, s, calls[c].out, calls[c].new)
        BY <1>0, <1>b, <2>1, <2>4, FoundWrites
      <3>2. StepsInv' /\ CountInv'
        BY <2>2, <3>1, QuietStep DEF Served, Kept
      <3>3. QED
        BY <2>2, <3>1, <3>2, TypePartsNext DEF TypeInv, Served
    <2>5. QED
      BY <1>9, <2>3, <2>4 DEF RefreshBySid
  <1>10. ASSUME RefreshByCookie(c) PROVE TypeInv'
    <2> DEFINE s == GetSessionByRefreshHash(calls[c].rt)
    <2>1. s \in 0..MaxSessions
      BY FoundByHash
    <2>2. RestTyped' /\ calls[c].op # "zk" /\ boughtWith' = boughtWith /\ challenges' = challenges
      BY <1>0, <1>r, <1>10 DEF RefreshByCookie, RestTyped, RefreshSteps
    <2>3. CASE Answer(c, "401", 0)
      <3>1. Served(c, "answer", calls[c].sid, "401", 0)
        BY <1>0, <2>3, AnswerWrites, Numbers
      <3>2. StepsInv' /\ CountInv'
        BY <2>2, <3>1, QuietStep DEF Served, Kept
      <3>3. QED
        BY <2>2, <3>1, <3>2, TypePartsNext DEF TypeInv, Served
    <2>4. CASE calls' = [calls EXCEPT ![c].sid = s, ![c].at = "renew"]
      <3> HIDE DEF s
      <3>1. Served(c, "renew", s, calls[c].out, calls[c].new)
        BY <1>0, <1>b, <2>1, <2>4, FoundWrites
      <3>2. StepsInv' /\ CountInv'
        BY <2>2, <3>1, QuietStep DEF Served, Kept
      <3>3. QED
        BY <2>2, <3>1, <3>2, TypePartsNext DEF TypeInv, Served
    <2>5. QED
      BY <1>10, <2>3, <2>4 DEF RefreshByCookie
  <1>11. ASSUME DestroySession(c) PROVE TypeInv'
    <2>1. Served(c, "answer", calls[c].sid, "401", 0)
      BY <1>0, <1>11, AnswerWrites, Numbers DEF DestroySession
    <2>2. StepsInv' /\ CountInv'
      BY <1>r, <1>11, <2>1, QuietStep DEF DestroySession, Served, Kept, RefreshSteps
    <2>3. sessions' \in [Sid -> Number]
      BY <1>0, <1>11, Numbers DEF DestroySession, DelSession, RestTyped
    <2>4. RestTyped'
      BY <1>0, <1>11, <2>3 DEF DestroySession, RestTyped
    <2>5. QED
      BY <2>1, <2>2, <2>4, TypePartsNext DEF TypeInv, Served
  <1>12. ASSUME Renew(c) PROVE TypeInv'
    <2>1. calls[c].sid \in 0..MaxSessions /\ SignAccessToken(calls[c].sid)
      BY <1>0, <1>12, CallType DEF Renew
    <2>2. /\ issued + 1 \in Number /\ issued' \in Number /\ expired' = expired
          /\ sidOf' \in [1..MaxIssued -> 0..MaxSessions]
      BY <1>0, <2>1, SignType, Numbers
    <2>3. RestTyped' /\ calls[c].op # "zk" /\ boughtWith' = boughtWith /\ challenges' = challenges
      BY <1>0, <1>r, <1>12, <2>2 DEF Renew, RestTyped, RefreshSteps
    <2>4. CASE Answer(c, "ok", issued + 1)
      <3>1. Served(c, "answer", calls[c].sid, "ok", issued + 1)
        BY <1>0, <2>2, <2>4, AnswerWrites
      <3>2. StepsInv' /\ CountInv'
        BY <2>3, <3>1, QuietStep DEF Served, Kept
      <3>3. QED
        BY <2>3, <3>1, <3>2, TypePartsNext DEF TypeInv, Served
    <2>5. CASE calls' = [calls EXCEPT ![c].at = "store", ![c].new = issued + 1]
      <3>1. Served(c, "store", calls[c].sid, calls[c].out, issued + 1)
        BY <1>0, <2>2, <2>5, SignedWrites
      <3>2. StepsInv' /\ CountInv'
        BY <2>3, <3>1, QuietStep DEF Served, Kept
      <3>3. QED
        BY <2>3, <3>1, <3>2, TypePartsNext DEF TypeInv, Served
    <2>6. QED
      BY <1>12, <2>4, <2>5 DEF Renew
  <1>13. ASSUME StoreSession(c) PROVE TypeInv'
    <2>1. calls[c].new \in Number
      BY <1>0, CallType
    <2>2. Served(c, "answer", calls[c].sid, "ok", calls[c].new)
      BY <1>0, <1>13, <2>1, AnswerWrites DEF StoreSession
    <2>3. StepsInv' /\ CountInv'
      BY <1>r, <1>13, <2>2, QuietStep DEF StoreSession, Served, Kept, RefreshSteps
    <2>4. sessions' \in [Sid -> Number]
      BY <1>0, <1>13, <2>1 DEF StoreSession, SetSession, RestTyped
    <2>5. RestTyped'
      BY <1>0, <1>13, <2>4 DEF StoreSession, RestTyped
    <2>6. QED
      BY <2>2, <2>3, <2>5, TypePartsNext DEF TypeInv, Served
  <1>14. QED
    BY <1>1, <1>2, <1>3, <1>4, <1>5, <1>6, <1>7, <1>8, <1>9, <1>10, <1>11, <1>12, <1>13 DEF Handle

\* The answers and errors that reach the client.
LEMMA ReceiveType ==
  ASSUME TypeInv, NEW c \in Call, Receive(c) \/ Lose(c)
  PROVE  TypeInv'
  <1>0. CallsTyped /\ RestTyped /\ StepsInv /\ CountInv /\ StepOK(c) /\ CountOK(c)
    BY TypeParts DEF TypeInv, StepsInv, CountInv
  <1> USE DEF redis, tokens, client, history
  <1>b. calls[c].tab \in Tab /\ calls[c].new \in Number /\ 0 \in Number /\ cookie \in Number
    BY <1>0, CallType, Numbers DEF RestTyped
  \* A call that ends, whatever becomes of the cookie and the tab.
  <1>1. ASSUME Done(c), boughtWith' = boughtWith, challenges' = challenges, RestTyped'
        PROVE  TypeInv'
    BY <1>1, QuietDone, TypePartsNext DEF TypeInv
  <1>2. ASSUME SignedOut(c), UNCHANGED <<redis, tokens, history>>, cookie' \in Number PROVE TypeInv'
    <2>1. Done(c) /\ RestTyped'
      BY <1>0, <1>b, <1>2 DEF SignedOut, Settle, RestTyped
    <2>2. QED
      BY <1>1, <1>2, <2>1
  <1>3. ASSUME QueryOk(c) PROVE TypeInv'
    BY <1>0, <1>1, <1>3 DEF QueryOk, RestTyped
  <1>4. ASSUME LogoutOk(c) PROVE TypeInv'
    BY <1>b, <1>2, <1>4 DEF LogoutOk
  <1>5. ASSUME LoginOk(c) PROVE TypeInv'
    <2>1. RestTyped' /\ Done(c)
      BY <1>0, <1>b, <1>5 DEF LoginOk, SetCookie, RestTyped
    <2>2. QED
      BY <1>1, <1>5, <2>1 DEF LoginOk
  <1>6. ASSUME ReplyRefused(c) PROVE TypeInv'
    BY <1>b, <1>2, <1>6 DEF ReplyRefused
  <1>7. ASSUME Reply401(c) PROVE TypeInv'
    <2>1. CASE SignedOut(c) /\ UNCHANGED torn
      <3>1. UNCHANGED <<redis, tokens, history>> /\ cookie' \in Number
        BY <1>b, <1>7, <2>1 DEF Reply401
      <3>2. QED
        BY <1>2, <2>1, <3>1
    <2>2. CASE AttemptRefresh(c)
      <3>1. Attempted(c)
        BY <1>0, <2>2, AttemptWrites DEF RestTyped
      <3>2. calls[c].op # "zk"
        BY <1>0, <1>7 DEF Reply401, CountOK
      <3>3. boughtWith' = boughtWith /\ challenges' = challenges
        BY <1>7 DEF Reply401
      <3>4. StepsInv' /\ CountInv'
        BY <3>1, <3>2, <3>3, QuietStep DEF Attempted
      <3>5. RestTyped'
        BY <1>0, <1>7, <2>2 DEF Reply401, AttemptRefresh, RestTyped
      <3>6. QED
        BY <3>1, <3>4, <3>5, TypePartsNext DEF Attempted, TypeInv
    <2>3. QED
      BY <1>7, <2>1, <2>2 DEF Reply401
  <1>8. ASSUME RestoreOk(c) PROVE TypeInv'
    <2>1. RestTyped' /\ Done(c)
      BY <1>0, <1>b, <1>8 DEF RestoreOk, SetCookie, RestTyped
    <2>2. QED
      BY <1>1, <1>8, <2>1 DEF RestoreOk
  <1>9. ASSUME RefreshOk(c) PROVE TypeInv'
    <2>1. RestTyped' /\ boughtWith' = boughtWith /\ challenges' = challenges
      BY <1>0, <1>b, <1>9 DEF RefreshOk, SetCookie, RestTyped
    <2>2. Repeated(c)
      BY <1>0, <1>9, RefreshOkWrites
    <2>3. calls[c].op # "zk"
      BY <1>0, <1>9 DEF RefreshOk, CountOK
    <2>4. StepsInv' /\ CountInv'
      BY <2>1, <2>2, <2>3, QuietStep DEF Repeated
    <2>5. QED
      BY <2>1, <2>2, <2>4, TypePartsNext DEF Repeated, TypeInv
  <1>10. ASSUME RefreshFailed(c), torn' \in BOOLEAN,
                UNCHANGED <<redis, tokens, cookie, handedOut, boughtWith, loggedOut>>
         PROVE  TypeInv'
    <2>1. RestTyped' /\ Done(c)
      BY <1>0, <1>b, <1>10 DEF RefreshFailed, SignedOut, Settle, RestTyped
    <2>2. QED
      BY <1>1, <1>10, <2>1
  <1>11. ASSUME RefreshRefused(c) PROVE TypeInv'
    BY <1>0, <1>10, <1>11 DEF RefreshRefused, RestTyped
  <1>12. ASSUME Abandoned(c) PROVE TypeInv'
    <2>1. RestTyped' /\ Done(c)
      BY <1>0, <1>b, <1>12 DEF Abandoned, SetCookie, RestTyped
    <2>2. QED
      BY <1>1, <1>12, <2>1 DEF Abandoned
  <1>13. ASSUME LoseRequest(c) PROVE TypeInv'
    <2>1. CASE Resend(c)
      <3>1. Resent(c)
        BY <1>0, <2>1, ResendWrites
      <3>2. RestTyped'
        <4>1. UNCHANGED <<token, zk>>
          BY <1>13, <2>1 DEF LoseRequest, Resend
        <4>2. QED
          BY <1>0, <1>13, <4>1 DEF LoseRequest, RestTyped
      <3>3. StepOK(c)'
        BY <3>1 DEF Resent, StepOK
      <3>4. boughtWith' = boughtWith /\ challenges' = challenges
        BY <1>13 DEF LoseRequest
      <3>5. CountOK(c)'
        <4>1. calls[c].attempts \in Nat /\ MaxRetries \in Nat /\ Len(boughtWith) \in Nat
              /\ MaxSessions \in Nat
          BY <1>0, CallType, Numbers DEF RestTyped
        <4>2. CASE calls[c].op = "zk"
          <5>1. Len(boughtWith) + (MaxRetries - (calls[c].attempts + 1)) + 1 <= MaxSessions
            BY <1>0, <1>13, <4>1, <4>2 DEF LoseRequest, CountOK
          <5>2. QED
            BY <3>1, <3>4, <4>2, <5>1 DEF Resent, CountOK
        <4>3. CASE calls[c].op # "zk"
          BY <1>0, <3>1, <3>4, <4>3 DEF Resent, CountOK
        <4>4. QED
          BY <4>2, <4>3
      <3>6. StepsInv' /\ CountInv'
        BY <1>0, <3>1, <3>3, <3>4, <3>5, QuietCall DEF Resent
      <3>7. QED
        BY <3>1, <3>2, <3>6, TypePartsNext DEF Resent, TypeInv
    <2>2. CASE SignedOut(c)
      BY <1>b, <1>2, <1>13, <2>2 DEF LoseRequest
    <2>3. CASE Settle(c) /\ UNCHANGED token
      <3>1. RestTyped' /\ Done(c)
        BY <1>0, <1>b, <1>13, <2>3 DEF LoseRequest, Settle, RestTyped
      <3>2. QED
        BY <1>1, <1>13, <3>1 DEF LoseRequest
    <2>4. QED
      BY <1>13, <2>1, <2>2, <2>3 DEF LoseRequest, Resend
  <1>14. ASSUME LoseRefresh(c) PROVE TypeInv'
    BY <1>0, <1>10, <1>14 DEF LoseRefresh, RestTyped
  <1>15. QED
    BY <1>3, <1>4, <1>5, <1>6, <1>7, <1>8, <1>9, <1>11, <1>12, <1>13, <1>14 DEF Receive, Lose

\* A call starts.
LEMMA StartType ==
  ASSUME TypeInv, NEW c \in Call, NEW t \in Tab, Start(c, t)
  PROVE  TypeInv'
  <1>0. CallsTyped /\ RestTyped
    BY TypeParts DEF TypeInv
  <1> USE DEF redis, tokens, client, history
  <1>b. token[t] \in Number /\ 0 \in Number
    BY <1>0, Numbers DEF RestTyped
  <1>1. ASSUME StartQuery(c, t) PROVE TypeInv'
    <2>1. Begin(c, t, "query", "request", token[t], NoNonce) /\ "query" \in Ops
      BY <1>1 DEF StartQuery, Ops
    <2>2. RestTyped' /\ boughtWith' = boughtWith /\ challenges' = challenges
      BY <1>0, <1>1 DEF StartQuery, RestTyped
    <2>3. CallsTyped' /\ StepsInv' /\ CountInv'
      BY <1>b, <2>1, <2>2, BeginInv
    <2>4. QED
      BY <2>2, <2>3, TypePartsNext DEF TypeInv
  <1>2. ASSUME StartLogout(c, t) PROVE TypeInv'
    <2>1. Begin(c, t, "logout", "request", token[t], NoNonce) /\ "logout" \in Ops
          /\ token[t] # 0
      BY <1>2 DEF StartLogout, Ops
    <2>2. RestTyped' /\ boughtWith' = boughtWith /\ challenges' = challenges
      BY <1>0, <1>2 DEF StartLogout, RestTyped
    <2>3. CallsTyped' /\ StepsInv' /\ CountInv'
      BY <1>b, <2>1, <2>2, BeginInv
    <2>4. QED
      BY <2>2, <2>3, TypePartsNext DEF TypeInv
  <1>3. ASSUME NEW n \in Nonce, StartWalletLogin(c, t, n) PROVE TypeInv'
    <2>1. Begin(c, t, "wallet", "request", 0, n) /\ "wallet" \in Ops
      BY <1>3 DEF StartWalletLogin, Ops, LoginOps
    <2>2. RestTyped'
      BY <1>0, <1>3 DEF StartWalletLogin, StoreChallenge, RestTyped
    <2>3. boughtWith' = boughtWith /\ challenges' \subseteq challenges \cup {n}
      BY <1>3 DEF StartWalletLogin, StoreChallenge
    <2>4. CallsTyped' /\ StepsInv' /\ CountInv'
      BY <1>b, <2>1, <2>3, BeginInv
    <2>5. QED
      BY <2>2, <2>4, TypePartsNext DEF TypeInv
  <1>4. ASSUME StartZkLogin(c, t) PROVE TypeInv'
    <2>1. PICK op \in CompleteZkLogin(t) : Begin(c, t, op, "request", 0, NoNonce)
      BY <1>4 DEF StartZkLogin
    <2>2. op \in {"zk", "lateZk"}
      <3>1. \A o \in CompleteZkLogin(t) : o \in {"zk", "lateZk"}
        BY DEF CompleteZkLogin
      <3>2. QED
        BY <2>1, <3>1
    <2>3. RestTyped' /\ boughtWith' = boughtWith /\ challenges' = challenges
      BY <1>0, <1>4 DEF StartZkLogin, RestTyped
    <2>4. op \in Ops /\ op # "logout"
      BY <2>2 DEF Ops, LoginOps
    <2>5. CallsTyped' /\ StepsInv' /\ CountInv'
      BY <1>b, <2>1, <2>3, <2>4, BeginInv
    <2>6. QED
      BY <2>3, <2>5, TypePartsNext DEF TypeInv
  <1>5. ASSUME NEW op \in {"restore", "check"}, StartRefreshing(c, t, op) PROVE TypeInv'
    <2>1. Begin(c, t, op, "refresh", 0, NoNonce) /\ op \in Ops /\ op # "logout" /\ op # "zk"
      BY <1>5 DEF StartRefreshing, Ops
    <2>2. RestTyped' /\ boughtWith' = boughtWith /\ challenges' = challenges
      BY <1>0, <1>5 DEF StartRefreshing, RestTyped
    <2>3. CallsTyped' /\ StepsInv' /\ CountInv'
      BY <1>b, <2>1, <2>2, BeginInv
    <2>4. QED
      BY <2>2, <2>3, TypePartsNext DEF TypeInv
  <1>6. QED
    BY <1>1, <1>2, <1>3, <1>4, <1>5 DEF Start, StartRestore, StartSessionCheck

\* Time, and the steps of no call.
LEMMA QuietCalls ==
  ASSUME TypeInv, calls' = calls, boughtWith' = boughtWith, challenges' \subseteq challenges
  PROVE  CallsTyped' /\ StepsInv' /\ CountInv'
  <1>1. \A c \in Call : StepOK(c)' /\ CountOK(c)'
    BY DEF TypeInv, StepsInv, CountInv, StepOK, CountOK
  <1>2. QED
    BY <1>1, TypeParts DEF TypeInv, StepsInv, CountInv, CallsTyped

LEMMA TypeNext == TypeInv /\ [Next]_vars => TypeInv'
  <1> SUFFICES ASSUME TypeInv, [Next]_vars PROVE TypeInv'
    OBVIOUS
  <1> USE DEF redis, tokens, client, history
  <1>0. RestTyped
    BY TypeParts DEF TypeInv
  <1>1. ASSUME calls' = calls, boughtWith' = boughtWith, challenges' \subseteq challenges,
               RestTyped'
        PROVE  TypeInv'
    BY <1>1, QuietCalls, TypePartsNext DEF TypeInv
  <1>2. ASSUME NEW t \in Tab, PrepareZkLogin(t) PROVE TypeInv'
    <2>1. RestTyped'
      BY <1>0, <1>2 DEF PrepareZkLogin, RestTyped
    <2>2. QED
      BY <1>1, <1>2, <2>1 DEF PrepareZkLogin
  <1>3. ASSUME NEW t \in Tab, Reload(t) PROVE TypeInv'
    <2>1. RestTyped'
      BY <1>0, <1>3, Numbers DEF Reload, RestTyped
    <2>2. QED
      BY <1>3, <2>1, ReloadInv, TypePartsNext DEF TypeInv
  <1>4. ASSUME NEW n \in 1..MaxIssued, ExpireToken(n) PROVE TypeInv'
    <2>1. RestTyped'
      BY <1>0, <1>4 DEF ExpireToken, RestTyped
    <2>2. QED
      BY <1>1, <1>4, <2>1 DEF ExpireToken
  <1>5. ASSUME NEW s \in Sid, ExpireSession(s) PROVE TypeInv'
    <2>1. RestTyped'
      BY <1>0, <1>5, Numbers DEF ExpireSession, DelSession, RestTyped
    <2>2. QED
      BY <1>1, <1>5, <2>1 DEF ExpireSession
  <1>6. ASSUME NEW n \in Nonce, ExpireChallenge(n) PROVE TypeInv'
    <2>1. RestTyped'
      BY <1>0, <1>6 DEF ExpireChallenge, RestTyped
    <2>2. QED
      BY <1>1, <1>6, <2>1 DEF ExpireChallenge
  <1>7. ASSUME NEW t \in Tab, EpochPasses(t) PROVE TypeInv'
    <2>1. RestTyped'
      BY <1>0, <1>7 DEF EpochPasses, RestTyped
    <2>2. QED
      BY <1>1, <1>7, <2>1 DEF EpochPasses
  <1>8. CASE UNCHANGED vars
    <2>1. RestTyped'
      BY <1>0, <1>8 DEF vars, RestTyped
    <2>2. QED
      BY <1>1, <1>8, <2>1 DEF vars
  <1>9. QED
    BY <1>2, <1>3, <1>4, <1>5, <1>6, <1>7, <1>8, HandleType, ReceiveType, StartType DEF Next, Time

\* What Redis, the jar and the tabs hold keeps its form, and no repeated sign-in creates a
\* session beyond those its retries allow.
THEOREM SessionsTypes == Spec => []TypeInv
  BY TypeInit, TypeNext, PTL DEF Spec

\* Redis, the cookie jar, the tabs and the calls in flight keep their types, however
\* requests are retried, lost and overtaken by page loads.
THEOREM SessionsTypeCorrect == Spec => []SessionsTypeOK
  <1>1. TypeInv => SessionsTypeOK
    BY DEF TypeInv
  <1>2. QED
    BY <1>1, SessionsTypes, PTL

-----------------------------------------------------------------------------
(* Logging out *)

LogoutInv == loggedOut \subseteq expired \cup blacklist

LEMMA LogoutNext == LogoutInv /\ [Next]_vars => LogoutInv'
  <1> SUFFICES ASSUME LogoutInv, [Next]_vars PROVE LogoutInv'
    OBVIOUS
  <1> USE DEF LogoutInv, redis, tokens, client, history
  <1>1. ASSUME UNCHANGED <<loggedOut, expired, blacklist>> PROVE LogoutInv'
    BY <1>1
  <1>2. ASSUME NEW c \in Call, Handle(c) PROVE LogoutInv'
    <2>1. CASE BlacklistToken(c)
      BY <2>1 DEF BlacklistToken
    <2>2. CASE ~BlacklistToken(c)
      BY <1>1, <1>2, <2>2
         DEF Handle, TokenGuard, SessionGuard, DeleteSession, Verify, VerifyZkLogin, CreateSession,
             SignAccessToken, RefreshWithoutCookie, RefreshBySid, RefreshByCookie, DestroySession,
             Renew, StoreSession
    <2>3. QED
      BY <2>1, <2>2
  <1>3. ASSUME NEW c \in Call, Receive(c) \/ Lose(c) PROVE LogoutInv'
    BY <1>1, <1>3
       DEF Receive, QueryOk, LogoutOk, LoginOk, ReplyRefused, Reply401, RestoreOk, RefreshOk,
           RefreshRefused, Abandoned, Lose, LoseRequest, LoseRefresh
  <1>4. ASSUME NEW c \in Call, NEW t \in Tab, Start(c, t) PROVE LogoutInv'
    BY <1>1, <1>4
       DEF Start, StartQuery, StartLogout, StartWalletLogin, StartZkLogin, StartRestore,
           StartSessionCheck, StartRefreshing
  <1>5. ASSUME NEW t \in Tab, PrepareZkLogin(t) \/ Reload(t) PROVE LogoutInv'
    BY <1>1, <1>5 DEF PrepareZkLogin, Reload
  <1>6. CASE Time
    <2>1. ASSUME NEW n \in 1..MaxIssued, ExpireToken(n) PROVE LogoutInv'
      BY <2>1 DEF ExpireToken
    <2>2. QED
      BY <1>1, <1>6, <2>1 DEF Time, ExpireSession, ExpireChallenge, EpochPasses
  <1>7. CASE UNCHANGED vars
    BY <1>1, <1>7 DEF vars
  <1>8. QED
    BY <1>2, <1>3, <1>4, <1>5, <1>6, <1>7 DEF Next

\* After a logout the access token it was made with opens nothing: it is on the blacklist
\* until it expires, whatever a refresh under way writes back.
THEOREM LogoutIsFinal == Spec => []LoggedOutIsDead
  <1>1. Init => LogoutInv
    BY DEF Init, LogoutInv
  <1>2. LogoutInv => LoggedOutIsDead
    BY DEF LogoutInv, LoggedOutIsDead
  <1>3. QED
    BY <1>1, <1>2, LogoutNext, PTL DEF Spec

-----------------------------------------------------------------------------
(* Nonces *)

\* A nonce goes to one call; it is spent when the call comes to create its session, and
\* what it has bought stays bought.
NonceOK(c) ==
    /\ calls[c].nonce # NoNonce => calls[c].op = "wallet" /\ calls[c].nonce \in handedOut
    /\ \A d \in Call : calls[c].nonce = calls[d].nonce /\ c # d => calls[c].nonce = NoNonce
    /\ calls[c].at = "create" =>
         /\ calls[c].nonce \notin challenges
         /\ \A i \in DOMAIN boughtWith :
              boughtWith[i] = calls[c].nonce => calls[c].nonce = NoNonce

NoncesInv ==
    /\ NonceBuysOneSession
    /\ challenges \subseteq handedOut
    /\ \A i \in DOMAIN boughtWith :
         boughtWith[i] # NoNonce => boughtWith[i] \in handedOut \ challenges
    /\ \A c \in Call : NonceOK(c)

LEMMA NoncesInit == Init => NoncesInv
  <1> SUFFICES ASSUME Init PROVE NoncesInv
    OBVIOUS
  <1>1. \A c \in Call : calls[c].at = "idle" /\ calls[c].nonce = NoNonce
    BY DEF Init, Idle
  <1>2. DOMAIN boughtWith = {}
    BY DEF Init
  <1>3. QED
    BY <1>1, <1>2 DEF Init, NoncesInv, NonceOK, NonceBuysOneSession

\* A step by which no call gets a nonce, or comes to create a session.
LEMMA NoncesQuiet ==
  ASSUME RestTyped, NoncesInv, boughtWith' = boughtWith, handedOut' = handedOut,
         challenges' \subseteq challenges,
         \A c \in Call :
            /\ \/ calls'[c].nonce = calls[c].nonce /\ calls'[c].op = calls[c].op
               \/ calls'[c].nonce = NoNonce
            /\ calls'[c].at = "create" => calls[c].at = "create" \/ calls'[c].nonce = NoNonce
  PROVE  NoncesInv'
  <1>1. NoNonce \notin challenges
    BY SessionsAssumption DEF RestTyped
  <1>2. QED
    BY <1>1 DEF NoncesInv, NonceOK, NonceBuysOneSession

\* What each step of the API makes of its call.
LEMMA HandleSteps ==
  ASSUME TypeInv, NEW c \in Call
  PROVE  LET k == calls[c]
         IN /\ TokenGuard(c) => \/ Served(c, "session", k.sid, k.out, k.new)
                               \/ Served(c, "reply", k.sid, "401", 0)
            /\ SessionGuard(c) => \/ Served(c, "delete", k.sid, k.out, k.new)
                                 \/ \E out \in {"ok", "401", "403"} :
                                       Served(c, "reply", k.sid, out, 0)
            /\ DeleteSession(c) => Served(c, "blacklist", k.sid, k.out, k.new)
            /\ BlacklistToken(c) => Served(c, "reply", k.sid, "ok", 0)
            /\ Verify(c) => \/ Served(c, "create", k.sid, k.out, k.new) /\ k.nonce \in challenges
                           \/ Served(c, "reply", k.sid, "401", 0)
            /\ VerifyZkLogin(c) => \/ Served(c, "create", k.sid, k.out, k.new)
                                  \/ Served(c, "reply", k.sid, "401", 0)
            /\ CreateSession(c) => Served(c, "reply", k.sid, "ok", issued + 1)
            /\ RefreshWithoutCookie(c) => Served(c, "answer", k.sid, "401", 0)
            /\ RefreshBySid(c) =>
                 \/ Served(c, "answer", k.sid, "401", 0)
                 \/ LET s == sidOf[k.bearer]
                    IN /\ sessions[s] # 0
                       /\ \/ Served(c, "renew", s, k.out, k.new) /\ sessions[s] = k.rt
                          \/ Served(c, "destroy", s, k.out, k.new)
            /\ RefreshByCookie(c) =>
                 \/ Served(c, "answer", k.sid, "401", 0)
                 \/ \E s \in Sid : Served(c, "renew", s, k.out, k.new) /\ sessions[s] = k.rt
            /\ DestroySession(c) => Served(c, "answer", k.sid, "401", 0)
            /\ Renew(c) => \/ Served(c, "answer", k.sid, "ok", issued + 1) /\ sessions[k.sid] = 0
                          \/ Served(c, "store", k.sid, k.out, issued + 1)
            /\ StoreSession(c) => Served(c, "answer", k.sid, "ok", k.new)
  <1>0. CallsTyped /\ RestTyped
    BY TypeParts DEF TypeInv
  <1>1. \A s \in Steps : Go(c, s) => Served(c, s, calls[c].sid, calls[c].out, calls[c].new)
    BY <1>0, GoWrites
  <1>2. \A out \in {"ok", "401", "403"}, new \in Number :
           Reply(c, out, new) => Served(c, "reply", calls[c].sid, out, new)
    BY <1>0, ReplyWrites
  <1>3. \A out \in {"ok", "401", "403"}, new \in Number :
           Answer(c, out, new) => Served(c, "answer", calls[c].sid, out, new)
    BY <1>0, AnswerWrites
  <1>4. {"session", "delete", "blacklist", "create", "renew", "destroy"} \subseteq Steps
    BY DEF Steps, RefreshSteps
  <1>5. 0 \in Number /\ calls[c].new \in Number
    BY <1>0, Numbers, CallType
  <1>6. TokenGuard(c) => \/ Served(c, "session", calls[c].sid, calls[c].out, calls[c].new)
                         \/ Served(c, "reply", calls[c].sid, "401", 0)
    BY <1>1, <1>2, <1>4, <1>5 DEF TokenGuard
  <1>7. SessionGuard(c) =>
           \/ Served(c, "delete", calls[c].sid, calls[c].out, calls[c].new)
           \/ \E out \in {"ok", "401", "403"} : Served(c, "reply", calls[c].sid, out, 0)
    BY <1>1, <1>2, <1>4, <1>5 DEF SessionGuard, CsrfGuard
  <1>8. /\ DeleteSession(c) => Served(c, "blacklist", calls[c].sid, calls[c].out, calls[c].new)
        /\ BlacklistToken(c) => Served(c, "reply", calls[c].sid, "ok", 0)
    BY <1>1, <1>2, <1>4, <1>5 DEF DeleteSession, BlacklistToken
  <1>9. Verify(c) => \/ /\ Served(c, "create", calls[c].sid, calls[c].out, calls[c].new)
                        /\ calls[c].nonce \in challenges
                     \/ Served(c, "reply", calls[c].sid, "401", 0)
    BY <1>1, <1>2, <1>4, <1>5 DEF Verify
  <1>10. VerifyZkLogin(c) => \/ Served(c, "create", calls[c].sid, calls[c].out, calls[c].new)
                             \/ Served(c, "reply", calls[c].sid, "401", 0)
    BY <1>1, <1>2, <1>4, <1>5 DEF VerifyZkLogin
  <1>11. issued < MaxIssued => issued + 1 \in Number
    BY <1>0, Numbers DEF RestTyped, Number
  <1>12. CreateSession(c) => Served(c, "reply", calls[c].sid, "ok", issued + 1)
    BY <1>2, <1>11 DEF CreateSession, SignAccessToken
  <1>13. /\ RefreshWithoutCookie(c) => Served(c, "answer", calls[c].sid, "401", 0)
         /\ DestroySession(c) => Served(c, "answer", calls[c].sid, "401", 0)
         /\ StoreSession(c) => Served(c, "answer", calls[c].sid, "ok", calls[c].new)
    BY <1>3, <1>5 DEF RefreshWithoutCookie, DestroySession, StoreSession
  <1>14. ASSUME RefreshBySid(c)
         PROVE  \/ Served(c, "answer", calls[c].sid, "401", 0)
                \/ LET s == sidOf[calls[c].bearer]
                   IN /\ sessions[s] # 0
                      /\ \/ /\ Served(c, "renew", s, calls[c].out, calls[c].new)
                            /\ sessions[s] = calls[c].rt
                         \/ Served(c, "destroy", s, calls[c].out, calls[c].new)
    <2> DEFINE s == sidOf[calls[c].bearer]
               at == IF sessions[s] = calls[c].rt THEN "renew" ELSE "destroy"
    <2>1. s \in 0..MaxSessions /\ at \in Steps
      BY <1>0, <1>4, <1>14, CallType, Numbers DEF RefreshBySid, RestTyped
    <2>2. CASE sessions[s] = 0 /\ Answer(c, "401", 0)
      BY <1>3, <1>5, <2>2
    <2>3. CASE sessions[s] # 0 /\ calls' = [calls EXCEPT ![c].sid = s, ![c].at = at]
      <3>1. Served(c, at, s, calls[c].out, calls[c].new)
        <4> HIDE DEF s, at
        <4> QED BY <1>0, <2>1, <2>3, FoundWrites
      <3>2. QED
        BY <2>3, <3>1
    <2>4. QED
      BY <1>14, <2>2, <2>3 DEF RefreshBySid
  <1>15. ASSUME RefreshByCookie(c)
         PROVE  \/ Served(c, "answer", calls[c].sid, "401", 0)
                \/ \E s \in Sid : /\ Served(c, "renew", s, calls[c].out, calls[c].new)
                                  /\ sessions[s] = calls[c].rt
    <2> DEFINE s == GetSessionByRefreshHash(calls[c].rt)
    <2>1. s \in 0..MaxSessions /\ (s # 0 => s \in Sid /\ sessions[s] = calls[c].rt)
      BY FoundByHash
    <2>2. CASE s = 0 /\ Answer(c, "401", 0)
      BY <1>3, <1>5, <2>2
    <2>3. CASE s # 0 /\ calls' = [calls EXCEPT ![c].sid = s, ![c].at = "renew"]
      <3> HIDE DEF s
      <3>1. Served(c, "renew", s, calls[c].out, calls[c].new)
        BY <1>0, <1>4, <2>1, <2>3, FoundWrites
      <3>2. QED
        BY <2>1, <2>3, <3>1
    <2>4. QED
      BY <1>15, <2>2, <2>3 DEF RefreshByCookie
  <1>16. ASSUME Renew(c)
         PROVE  \/ Served(c, "answer", calls[c].sid, "ok", issued + 1) /\ sessions[calls[c].sid] = 0
                \/ Served(c, "store", calls[c].sid, calls[c].out, issued + 1)
    <2>1. issued + 1 \in Number
      BY <1>11, <1>16 DEF Renew, SignAccessToken
    <2>2. CASE sessions[calls[c].sid] = 0 /\ Answer(c, "ok", issued + 1)
      BY <1>3, <2>1, <2>2
    <2>3. CASE calls' = [calls EXCEPT ![c].at = "store", ![c].new = issued + 1]
      BY <1>0, <2>1, <2>3, SignedWrites
    <2>4. QED
      BY <1>16, <2>2, <2>3 DEF Renew
  <1>17. QED
    BY <1>6, <1>7, <1>8, <1>9, <1>10, <1>12, <1>13, <1>14, <1>15, <1>16

LEMMA NoncesNext == TypeInv /\ NoncesInv /\ [Next]_vars => NoncesInv'
  <1> SUFFICES ASSUME TypeInv, NoncesInv, [Next]_vars PROVE NoncesInv'
    OBVIOUS
  <1> USE DEF redis, tokens, client, history
  <1>0. CallsTyped /\ RestTyped /\ StepsInv
    BY TypeParts DEF TypeInv
  <1>b. \A t \in Tab : token[t] \in Number
    BY <1>0 DEF RestTyped
  \* A step of one call that keeps or ends it.
  <1>1. ASSUME NEW c \in Call, Others(c),
               \/ calls'[c].nonce = calls[c].nonce /\ calls'[c].op = calls[c].op
               \/ calls'[c].nonce = NoNonce,
               calls'[c].at # "create" \/ calls'[c].nonce = NoNonce,
               boughtWith' = boughtWith, handedOut' = handedOut, challenges' \subseteq challenges
        PROVE  NoncesInv'
    <2>1. \A d \in Call :
            /\ \/ calls'[d].nonce = calls[d].nonce /\ calls'[d].op = calls[d].op
               \/ calls'[d].nonce = NoNonce
            /\ calls'[d].at = "create" => calls[d].at = "create" \/ calls'[d].nonce = NoNonce
      BY <1>1 DEF Others
    <2>2. QED
      BY <1>0, <1>1, <2>1, NoncesQuiet
  <1>2. ASSUME NEW c \in Call, Done(c), UNCHANGED <<boughtWith, handedOut, challenges>>
        PROVE  NoncesInv'
    <2>1. Others(c) /\ calls'[c] = Idle
      BY <1>0, <1>2, DoneWrites
    <2>2. calls'[c].nonce = NoNonce
      BY <2>1 DEF Idle
    <2>3. QED
      BY <1>1, <1>2, <2>1, <2>2
  <1>3. ASSUME NEW c \in Call, Verify(c) PROVE NoncesInv'
    <2>1. /\ challenges' = challenges \ {calls[c].nonce} /\ boughtWith' = boughtWith
          /\ handedOut' = handedOut
      BY <1>3 DEF Verify, ConsumeChallenge
    <2>2. CASE Served(c, "create", calls[c].sid, calls[c].out, calls[c].new)
               /\ calls[c].nonce \in challenges
      <3>1. /\ calls'[c].at = "create" /\ calls'[c].op = calls[c].op
            /\ calls'[c].nonce = calls[c].nonce
            /\ \A d \in Call \ {c} : calls'[d] = calls[d]
        BY <2>2 DEF Served, Kept, Others
      <3>2. NonceOK(c)'
        BY <2>1, <2>2, <3>1 DEF NoncesInv, NonceOK
      <3>3. \A d \in Call \ {c} : NonceOK(d)'
        BY <2>1, <3>1 DEF NoncesInv, NonceOK
      <3>4. QED
        BY <2>1, <3>2, <3>3 DEF NoncesInv, NonceBuysOneSession
    <2>3. CASE Served(c, "reply", calls[c].sid, "401", 0)
      BY <1>1, <2>1, <2>3 DEF Served, Kept
    <2>4. QED
      BY <1>3, <2>2, <2>3, HandleSteps
  <1>4. ASSUME NEW c \in Call, VerifyZkLogin(c) PROVE NoncesInv'
    <2>1. \E at \in Steps : \E out, new : Served(c, at, calls[c].sid, out, new)
      BY <1>4, HandleSteps DEF Steps
    <2>2. calls'[c].nonce = calls[c].nonce /\ calls'[c].op = calls[c].op /\ Others(c)
      BY <2>1 DEF Served, Kept
    <2>3. calls[c].op # "wallet"
      BY <1>4 DEF VerifyZkLogin
    <2>4. calls[c].nonce = NoNonce
      BY <2>3 DEF NoncesInv, NonceOK
    <2>5. QED
      BY <1>1, <1>4, <2>2, <2>4 DEF VerifyZkLogin
  <1>5. ASSUME NEW c \in Call, CreateSession(c) PROVE NoncesInv'
    <2> DEFINE n == calls[c].nonce
    <2>1. /\ calls[c].at = "create" /\ boughtWith' = Append(boughtWith, n)
          /\ challenges' = challenges /\ handedOut' = handedOut
      BY <1>5 DEF CreateSession
    <2>2. /\ calls'[c].at = "reply" /\ calls'[c].op = calls[c].op /\ calls'[c].nonce = n
          /\ \A d \in Call \ {c} : calls'[d] = calls[d]
      BY <1>5, HandleSteps DEF Served, Kept, Others
    <2>3. /\ Len(boughtWith) \in Nat /\ DOMAIN boughtWith = 1..Len(boughtWith)
          /\ DOMAIN boughtWith' = 1..(Len(boughtWith) + 1)
          /\ \A i \in DOMAIN boughtWith : boughtWith'[i] = boughtWith[i]
          /\ boughtWith'[Len(boughtWith) + 1] = n
      BY <1>0, <2>1, CallType DEF RestTyped
    <2>4. \A i \in DOMAIN boughtWith' :
             \/ i \in DOMAIN boughtWith /\ boughtWith'[i] = boughtWith[i]
             \/ i = Len(boughtWith) + 1 /\ boughtWith'[i] = n
      BY <2>3
    <2>5. /\ n # NoNonce => n \in handedOut /\ n \notin challenges
          /\ \A i \in DOMAIN boughtWith : boughtWith[i] = n => n = NoNonce
          /\ \A d \in Call \ {c} : calls[d].nonce = n => n = NoNonce
      BY <2>1 DEF NoncesInv, NonceOK
    <2> HIDE DEF n
    <2>6. NonceBuysOneSession'
      BY <2>4, <2>5 DEF NoncesInv, NonceBuysOneSession
    <2>7. \A i \in DOMAIN boughtWith' :
             boughtWith'[i] # NoNonce => boughtWith'[i] \in handedOut' \ challenges'
      BY <2>1, <2>4, <2>5 DEF NoncesInv
    <2>8. \A d \in Call : NonceOK(d)'
      <3>1. NonceOK(c)'
        BY <2>1, <2>2, <2>5 DEF NoncesInv, NonceOK, n
      <3>2. ASSUME NEW d \in Call \ {c} PROVE NonceOK(d)'
        <4>1. calls'[d] = calls[d] /\ NonceOK(d) /\ \A e \in Call : calls'[e].nonce = calls[e].nonce
          BY <2>2 DEF NoncesInv, n
        <4>2. calls[d].nonce = n => n = NoNonce
          BY <2>5
        <4>3. QED
          BY <2>1, <2>4, <4>1, <4>2 DEF NonceOK
      <3>3. QED
        BY <3>1, <3>2
    <2>9. QED
      BY <2>1, <2>6, <2>7, <2>8 DEF NoncesInv
  <1>6. ASSUME NEW c \in Call, Handle(c), ~Verify(c), ~VerifyZkLogin(c), ~CreateSession(c)
        PROVE  NoncesInv'
    <2>1. \E at \in Steps \ {"create"} : \E sid, out, new : Served(c, at, sid, out, new)
      <3>1. {"session", "reply", "delete", "blacklist", "answer", "renew", "destroy", "store"}
               \subseteq Steps \ {"create"}
        BY DEF Steps, RefreshSteps
      <3>2. QED
        BY <1>6, <3>1, HandleSteps DEF Handle
    <2>2. /\ calls'[c].nonce = calls[c].nonce /\ calls'[c].op = calls[c].op /\ Others(c)
          /\ calls'[c].at # "create"
      BY <2>1 DEF Served, Kept
    <2>3. UNCHANGED <<boughtWith, handedOut, challenges>>
      BY <1>6
         DEF Handle, TokenGuard, SessionGuard, DeleteSession, BlacklistToken, RefreshWithoutCookie,
             RefreshBySid, RefreshByCookie, DestroySession, Renew, StoreSession
    <2>4. QED
      BY <1>1, <2>2, <2>3
  <1>7. ASSUME NEW c \in Call, Receive(c) \/ Lose(c) PROVE NoncesInv'
    <2>1. UNCHANGED <<boughtWith, handedOut, challenges>>
      BY <1>7
         DEF Receive, QueryOk, LogoutOk, LoginOk, ReplyRefused, Reply401, RestoreOk, RefreshOk,
             RefreshRefused, Abandoned, Lose, LoseRequest, LoseRefresh
    <2>2. Done(c) \/ AttemptRefresh(c) \/ RefreshOk(c) \/ Resend(c)
      BY <1>7
         DEF Receive, QueryOk, LogoutOk, LoginOk, ReplyRefused, Reply401, RestoreOk,
             RefreshRefused, Abandoned, Lose, LoseRequest, LoseRefresh, RefreshFailed, SignedOut,
             Settle, Resend
    <2>3. CASE AttemptRefresh(c)
      <3>1. Attempted(c)
        BY <1>0, <2>3, AttemptWrites DEF RestTyped
      <3>2. QED
        BY <1>1, <2>1, <3>1 DEF Attempted
    <2>4. CASE RefreshOk(c)
      <3>1. Repeated(c)
        BY <1>0, <2>4, RefreshOkWrites
      <3>2. QED
        BY <1>1, <2>1, <3>1 DEF Repeated
    <2>5. CASE Resend(c)
      <3>1. Resent(c)
        BY <1>0, <2>5, ResendWrites
      <3>2. QED
        BY <1>1, <2>1, <3>1 DEF Resent
    <2>6. QED
      BY <1>2, <2>1, <2>2, <2>3, <2>4, <2>5
  <1>8. ASSUME NEW c \in Call, NEW t \in Tab, NEW n \in Nonce, StartWalletLogin(c, t, n)
        PROVE  NoncesInv'
    <2>1. /\ Begin(c, t, "wallet", "request", 0, n) /\ n \notin handedOut
          /\ challenges' = challenges \cup {n} /\ handedOut' = handedOut \cup {n}
          /\ boughtWith' = boughtWith
      BY <1>8 DEF StartWalletLogin, StoreChallenge
    <2>2. Begun(c, t, "wallet", "request", 0, n)
      <3>1. "wallet" \in Ops /\ "request" \in Steps /\ 0 \in Number
        BY Numbers DEF Ops, LoginOps, Steps
      <3>2. QED
        BY <1>0, <2>1, <3>1, BeginWrites DEF RestTyped
    <2>3. /\ calls'[c].at = "request" /\ calls'[c].op = "wallet" /\ calls'[c].nonce = n
          /\ \A d \in Call \ {c} : calls'[d] = calls[d]
      BY <2>2 DEF Begun, Others
    <2>4. n # NoNonce
      BY SessionsAssumption
    <2>5. \A d \in Call : calls[d].nonce # n
      BY <2>1, <2>4 DEF NoncesInv, NonceOK
    <2>6. NonceOK(c)'
      BY <2>1, <2>3, <2>5 DEF NonceOK
    <2>7. \A i \in DOMAIN boughtWith : boughtWith[i] # n
      BY <2>1, <2>4 DEF NoncesInv
    <2>8. ASSUME NEW d \in Call \ {c} PROVE NonceOK(d)'
      <3>1. NonceOK(d) /\ calls[d].nonce # n /\ calls'[d] = calls[d]
        BY <2>3, <2>5 DEF NoncesInv
      <3>2. \A e \in Call : calls'[e].nonce = calls[e].nonce \/ calls'[e].nonce = n
        BY <2>3
      <3>3. QED
        BY <2>1, <2>3, <3>1, <3>2 DEF NonceOK
    <2>9. QED
      BY <2>1, <2>6, <2>7, <2>8 DEF NoncesInv, NonceBuysOneSession
  <1>9. ASSUME NEW c \in Call, NEW t \in Tab, NEW op, NEW s \in {"request", "refresh"}, NEW bearer,
               Begin(c, t, op, s, bearer, NoNonce),
               UNCHANGED <<boughtWith, handedOut, challenges>>
        PROVE  NoncesInv'
    <2>1. Others(c)
      BY <1>0, <1>9 DEF Begin, CallsTyped, Others
    <2>2. calls'[c].nonce = NoNonce
      <3> DEFINE k == [Idle EXCEPT !.at = s, !.op = op, !.tab = t, !.bearer = bearer,
                                   !.nonce = NoNonce, !.rt = IF s = "refresh" THEN cookie ELSE 0,
                                   !.sid = IF op = "logout" THEN sidOf[bearer] ELSE 0]
      <3>1. calls' = [calls EXCEPT ![c] = k]
        BY <1>9 DEF Begin
      <3>2. k.nonce = NoNonce
        BY DEF Idle
      <3> HIDE DEF k
      <3>3. QED
        BY <1>0, <3>1, <3>2 DEF CallsTyped
    <2>3. QED
      BY <1>1, <1>9, <2>1, <2>2
  <1>10. ASSUME NEW c \in Call, NEW t \in Tab, Start(c, t) PROVE NoncesInv'
    <2>1. CASE StartQuery(c, t) \/ StartLogout(c, t)
      BY <1>9, <2>1 DEF StartQuery, StartLogout
    <2>2. CASE StartZkLogin(c, t)
      BY <1>9, <2>2 DEF StartZkLogin
    <2>3. CASE StartRestore(c, t) \/ StartSessionCheck(c, t)
      BY <1>9, <2>3 DEF StartRestore, StartSessionCheck, StartRefreshing
    <2>4. QED
      BY <1>8, <1>10, <2>1, <2>2, <2>3 DEF Start
  <1>11. ASSUME NEW t \in Tab, Reload(t) PROVE NoncesInv'
    <2>1. \A c \in Call :
            /\ \/ calls'[c].nonce = calls[c].nonce /\ calls'[c].op = calls[c].op
               \/ calls'[c].nonce = NoNonce
            /\ calls'[c].at = "create" => calls[c].at = "create" \/ calls'[c].nonce = NoNonce
      <3> SUFFICES ASSUME NEW c \in Call
                   PROVE  /\ \/ calls'[c].nonce = calls[c].nonce /\ calls'[c].op = calls[c].op
                             \/ calls'[c].nonce = NoNonce
                          /\ calls'[c].at = "create"
                                => calls[c].at = "create" \/ calls'[c].nonce = NoNonce
        OBVIOUS
      <3>1. CASE calls'[c] = calls[c]
        BY <3>1
      <3>2. CASE calls'[c] = Idle
        BY <3>2 DEF Idle
      <3>3. CASE calls'[c] = [calls[c] EXCEPT !.gone = TRUE]
        <4>1. calls[c] \in CallRecord
          BY <1>0 DEF CallsTyped
        <4>2. QED
          BY <3>3, <4>1 DEF CallRecord
      <3>4. QED
        BY <1>0, <1>11, <3>1, <3>2, <3>3, ReloadWrites
    <2>2. QED
      BY <1>0, <1>11, <2>1, NoncesQuiet DEF Reload
  <1>12. ASSUME calls' = calls, boughtWith' = boughtWith, handedOut' = handedOut,
                challenges' \subseteq challenges
         PROVE  NoncesInv'
    BY <1>0, <1>12, NoncesQuiet
  <1>13. CASE Time \/ \E t \in Tab : PrepareZkLogin(t)
    BY <1>12, <1>13
       DEF Time, ExpireToken, ExpireSession, ExpireChallenge, EpochPasses, PrepareZkLogin
  <1>14. CASE UNCHANGED vars
    BY <1>12, <1>14 DEF vars
  <1>15. QED
    BY <1>3, <1>4, <1>5, <1>6, <1>7, <1>10, <1>11, <1>13, <1>14 DEF Next

\* However often a signed challenge reaches the API, and however many calls are under way,
\* it opens one session: consumeChallenge takes it before anything else is done.
THEOREM NonceIsSpent == Spec => []NonceBuysOneSession
  <1>1. NoncesInv => NonceBuysOneSession
    BY DEF NoncesInv
  <1>2. QED
    BY <1>1, NoncesInit, NoncesNext, SessionsTypes, PTL DEF Spec

-----------------------------------------------------------------------------
(* The cookie jar *)

\* Every token anyone holds was issued.
HeldBy(c) == calls[c].bearer <= issued /\ calls[c].rt <= issued /\ calls[c].new <= issued
HeldInv ==
    /\ cookie <= issued
    /\ \A t \in Tab : token[t] <= issued
    /\ \A c \in Call : HeldBy(c)

\* A token names a session that was created, and a session holds a token that names it.
TokensInv ==
    /\ \A n \in 1..issued : sidOf[n] \in 1..Len(boughtWith)
    /\ \A s \in Sid : sessions[s] # 0 => sessions[s] <= issued /\ sidOf[sessions[s]] = s

\* A refresh works on the session of the cookie it was asked with.
RefreshOK(c) ==
    /\ calls[c].at \in {"renew", "store"} => calls[c].rt # 0 /\ calls[c].sid = sidOf[calls[c].rt]
    /\ calls[c].at = "store" => calls[c].new # 0 /\ sidOf[calls[c].new] = calls[c].sid
    /\ calls[c].at = "answer" /\ calls[c].out = "ok" => calls[c].new # 0
RefreshInv == \A c \in Call : RefreshOK(c)

\* Until a sign-in is answered its session has one token, and nobody has that token.
NewLogin(c) == calls[c].at = "reply" /\ calls[c].out = "ok" /\ calls[c].op \in LoginOps
NewLoginOK(c) ==
    /\ calls[c].new # 0 /\ cookie # calls[c].new
    /\ \A n \in 1..issued : sidOf[n] = sidOf[calls[c].new] => n = calls[c].new
    /\ \A d \in Call : calls[d].rt # calls[c].new
    /\ \A d \in Call \ {c} : calls[d].new # calls[c].new
LoginsInv == \A c \in Call : NewLogin(c) => NewLoginOK(c)

\* The session of a token holds that token, or is gone.
Current(n) == sessions[sidOf[n]] \in {0, n}
Answered(c) == calls[c].at = "answer" /\ calls[c].out = "ok"

\* Unless refreshes have overlapped or an answer was lost: one refresh is under way at
\* most, its page is there to take the answer, and the cookie is current, or a current one
\* is on its way.
JarInv ==
    ~torn =>
        /\ \A c, d \in Call : Refreshing(c) /\ Refreshing(d) => c = d
        /\ \A c \in Call : Refreshing(c) => ~calls[c].gone
        /\ \A c \in Call : Answered(c) => Current(calls[c].new)
        /\ cookie # 0 => Current(cookie) \/ \E c \in Call : Answered(c)

CookieInv == HeldInv /\ TokensInv /\ RefreshInv /\ LoginsInv /\ JarInv

LEMMA CookieInit == Init => CookieInv
  <1> SUFFICES ASSUME Init PROVE CookieInv
    OBVIOUS
  <1>1. \A c \in Call : /\ calls[c].at = "idle" /\ calls[c].bearer = 0 /\ calls[c].rt = 0
                        /\ calls[c].new = 0
    BY DEF Init, Idle
  <1>2. \A c \in Call : ~Refreshing(c) /\ ~NewLogin(c) /\ RefreshOK(c) /\ ~Answered(c)
    BY <1>1 DEF Refreshing, RefreshSteps, NewLogin, RefreshOK, Answered
  <1>3. HeldInv /\ TokensInv
    BY <1>1 DEF Init, HeldInv, HeldBy, TokensInv
  <1>4. QED
    BY <1>2, <1>3 DEF Init, CookieInv, RefreshInv, LoginsInv, JarInv

\* Tokens and sessions that were created.
LEMMA SidType ==
  ASSUME TypeInv, TokensInv
  PROVE  /\ issued \in Nat /\ Len(boughtWith) \in Nat
         /\ \A n \in 1..issued : /\ sidOf[n] \in Sid /\ n \in 1..MaxIssued
                                 /\ sidOf[n] \in 1..Len(boughtWith)
         /\ \A n \in Number : n # 0 /\ n <= issued => n \in 1..issued
         /\ cookie \in Number /\ \A s \in Sid : sessions[s] \in Number
         /\ \A c \in Call : /\ calls[c].bearer \in Number /\ calls[c].rt \in Number
                            /\ calls[c].new \in Number
  <1>1. CallsTyped /\ RestTyped /\ Len(boughtWith) <= MaxSessions
    BY TypeParts DEF TypeInv, CountInv
  <1>2. /\ issued \in 0..MaxIssued /\ Len(boughtWith) \in Nat
        /\ MaxIssued \in Nat /\ MaxSessions \in Nat
    BY <1>1, Numbers DEF RestTyped, Number
  <1>3. \A n \in 1..issued : sidOf[n] \in 1..Len(boughtWith)
    BY DEF TokensInv
  <1>4. \A n \in 1..issued : sidOf[n] \in Sid /\ n \in 1..MaxIssued
    BY <1>1, <1>2, <1>3 DEF Sid
  <1>5. \A n \in Number : n # 0 /\ n <= issued => n \in 1..issued
    BY <1>2, Numbers
  <1>6. /\ cookie \in Number /\ \A s \in Sid : sessions[s] \in Number
        /\ \A c \in Call : /\ calls[c].bearer \in Number /\ calls[c].rt \in Number
                           /\ calls[c].new \in Number
    BY <1>1, CallType DEF RestTyped
  <1>7. QED
    BY <1>2, <1>3, <1>4, <1>5, <1>6

\* A session that loses its token, if it changes, loses it to nobody.
LEMMA CurrentStays ==
  ASSUME TypeInv, TokensInv, sidOf' = sidOf, \A s \in Sid : sessions'[s] \in {0, sessions[s]},
         NEW n \in 1..issued, Current(n)
  PROVE  Current(n)'
  BY SidType DEF Current

\* A sign-in that was answered has the current token of its session.
LEMMA NewLoginCurrent ==
  ASSUME TypeInv, CookieInv, NEW c \in Call, NewLogin(c)
  PROVE  Current(calls[c].new)
  <1> DEFINE m == calls[c].new
             x == sessions[sidOf[m]]
  <1>1. NewLoginOK(c) /\ m <= issued
    BY DEF CookieInv, LoginsInv, HeldInv, HeldBy
  <1>2. m \in 1..issued /\ sidOf[m] \in Sid
    BY <1>1, SidType DEF NewLoginOK, CookieInv
  <1>3. CASE x = 0
    BY <1>3 DEF Current
  <1>4. CASE x # 0
    <2>1. x <= issued /\ sidOf[x] = sidOf[m] /\ x \in Number
      BY <1>2, <1>4, SidType DEF CookieInv, TokensInv
    <2>2. x \in 1..issued
      BY <1>4, <2>1, SidType DEF CookieInv
    <2>3. x = m
      BY <1>1, <2>1, <2>2 DEF NewLoginOK
    <2>4. QED
      BY <2>3 DEF Current
  <1>5. QED
    BY <1>3, <1>4

\* What the steps of a call do that neither issue tokens nor write them into a session.
PlainStep(c) ==
    /\ Others(c)
    /\ issued' = issued /\ sidOf' = sidOf /\ boughtWith' = boughtWith
    /\ \A s \in Sid : sessions'[s] \in {0, sessions[s]}
    /\ HeldBy(c)' /\ cookie' <= issued /\ \A t \in Tab : token'[t] <= issued
    /\ RefreshOK(c)'
    /\ NewLogin(c)' => NewLogin(c) /\ calls'[c].new = calls[c].new
    /\ calls'[c].rt \in {calls[c].rt, cookie, 0}
    /\ calls'[c].new \in {calls[c].new, 0}
    /\ \/ cookie' \in {cookie, 0}
       \/ /\ cookie' = calls[c].new /\ calls'[c].new = 0
          /\ ~torn' => Current(calls[c].new)
    /\ torn => torn'
    /\ ~torn' /\ Refreshing(c)' => ~calls'[c].gone /\ \A d \in Call : Refreshing(d) => d = c
    /\ ~Answered(c)'
    /\ ~torn' /\ Answered(c) => cookie' = calls[c].new

LEMMA PlainStepInv ==
  ASSUME TypeInv, CookieInv, NEW c \in Call, PlainStep(c)
  PROVE  CookieInv'
  <1>1. \A d \in Call \ {c} : calls'[d] = calls[d]
    BY DEF PlainStep, Others
  <1>2. HeldInv'
    BY <1>1 DEF CookieInv, HeldInv, HeldBy, PlainStep
  <1>3. TokensInv'
    BY DEF CookieInv, TokensInv, PlainStep
  <1>4. RefreshInv'
    BY <1>1 DEF CookieInv, RefreshInv, RefreshOK, PlainStep
  <1>5. LoginsInv'
    <2> SUFFICES ASSUME NEW d \in Call, NewLogin(d)' PROVE NewLoginOK(d)'
      BY DEF LoginsInv
    <2>1. NewLogin(d) /\ calls'[d].new = calls[d].new
      BY <1>1 DEF NewLogin, PlainStep
    <2>2. NewLoginOK(d)
      BY <2>1 DEF CookieInv, LoginsInv
    <2> DEFINE m == calls[d].new
    <2>3. cookie' # m
      <3>1. CASE cookie' \in {cookie, 0}
        BY <2>2, <3>1 DEF NewLoginOK
      <3>2. CASE cookie' = calls[c].new /\ calls'[c].new = 0
        <4>1. d # c
          BY <2>1, <2>2, <3>2 DEF NewLoginOK
        <4>2. QED
          BY <2>2, <3>2, <4>1 DEF NewLoginOK
      <3>3. QED
        BY <3>1, <3>2 DEF PlainStep
    <2>4. \A e \in Call : calls'[e].rt # m
      BY <1>1, <2>2 DEF NewLoginOK, PlainStep
    <2>5. \A e \in Call \ {d} : calls'[e].new # m
      BY <1>1, <2>2 DEF NewLoginOK, PlainStep
    <2>6. QED
      BY <2>1, <2>2, <2>3, <2>4, <2>5 DEF NewLoginOK, PlainStep
  <1>6. JarInv'
    <2> DEFINE Stays(n) == sessions'[sidOf'[n]] \in {0, n}
    <2> SUFFICES ASSUME ~torn'
                 PROVE  /\ \A d, e \in Call : Refreshing(d)' /\ Refreshing(e)' => d = e
                        /\ \A d \in Call : Refreshing(d)' => ~calls'[d].gone
                        /\ \A d \in Call : Answered(d)' => Stays(calls'[d].new)
                        /\ cookie' # 0 => Stays(cookie') \/ \E d \in Call : Answered(d)'
      BY DEF JarInv, Current
    <2>1. ~torn /\ \A d, e \in Call : Refreshing(d) /\ Refreshing(e) => d = e
      BY DEF PlainStep, CookieInv, JarInv
    <2>2. \A d \in Call \ {c} : /\ Refreshing(d)' <=> Refreshing(d)
                                /\ Answered(d)' <=> Answered(d)
      BY <1>1 DEF Refreshing, Answered
    <2>3. \A d, e \in Call : Refreshing(d)' /\ Refreshing(e)' => d = e
      BY <2>1, <2>2 DEF PlainStep
    <2>4. \A d \in Call : Refreshing(d)' => ~calls'[d].gone
      BY <1>1, <2>1, <2>2 DEF PlainStep, CookieInv, JarInv
    <2>5. ASSUME NEW n \in Number, n # 0, n <= issued, Current(n) PROVE Stays(n)
      BY <2>5, SidType, CurrentStays DEF PlainStep, CookieInv, Current
    <2> HIDE DEF Stays
    <2>6. ASSUME NEW d \in Call, Answered(d)' PROVE Stays(calls'[d].new)
      <3>1. d # c /\ Answered(d) /\ calls'[d] = calls[d]
        BY <1>1, <2>2, <2>6 DEF PlainStep
      <3>2. Current(calls[d].new) /\ calls[d].new # 0 /\ calls[d].new <= issued
        BY <2>1, <3>1 DEF CookieInv, JarInv, RefreshInv, RefreshOK, HeldInv, HeldBy, Answered
      <3>3. calls[d].new \in Number
        BY SidType DEF CookieInv
      <3>4. QED
        BY <2>5, <3>1, <3>2, <3>3
    <2>7. ASSUME cookie' # 0 PROVE Stays(cookie') \/ \E d \in Call : Answered(d)'
      <3>1. CASE cookie' = calls[c].new /\ Current(calls[c].new)
        <4>1. calls[c].new \in Number /\ calls[c].new <= issued
          BY SidType DEF CookieInv, HeldInv, HeldBy
        <4>2. QED
          BY <2>5, <2>7, <3>1, <4>1
      <3>2. CASE cookie' = cookie /\ ~Answered(c)
        <4>1. CASE Current(cookie)
          <5>1. cookie \in Number /\ cookie <= issued
            BY SidType DEF CookieInv, HeldInv
          <5>2. QED
            BY <2>5, <2>7, <3>2, <4>1, <5>1
        <4>2. CASE \E d \in Call : Answered(d)
          BY <2>2, <3>2, <4>2
        <4>3. QED
          BY <2>1, <2>7, <3>2, <4>1, <4>2 DEF CookieInv, JarInv
      <3>3. Answered(c) => cookie' = calls[c].new /\ Current(calls[c].new)
        BY <2>1 DEF PlainStep, CookieInv, JarInv
      <3>4. QED
        BY <2>7, <3>1, <3>2, <3>3 DEF PlainStep
    <2>8. QED
      BY <2>3, <2>4, <2>6, <2>7
  <1>7. QED
    BY <1>2, <1>3, <1>4, <1>5, <1>6 DEF CookieInv

\* The tokens there are keep their sessions when another is issued.
LEMMA Issued ==
  ASSUME TypeInv, CookieInv, NEW s \in 0..MaxSessions, SignAccessToken(s)
  PROVE  /\ issued' = issued + 1 /\ sidOf'[issued + 1] = s
         /\ \A n \in 1..issued' : n \in 1..issued \/ n = issued + 1
         /\ \A n \in 1..issued : sidOf'[n] = sidOf[n]
         /\ \A n \in Number : n # 0 /\ n <= issued => n # issued + 1 /\ sidOf'[n] = sidOf[n]
         /\ \A n \in Number : n <= issued => n <= issued'
         /\ issued + 1 \in Number
  <1>1. RestTyped
    BY TypeParts DEF TypeInv
  <1>2. /\ issued + 1 \in 1..MaxIssued /\ issued' = issued + 1 /\ sidOf'[issued + 1] = s
        /\ \A n \in 1..issued : n \in 1..MaxIssued /\ sidOf'[n] = sidOf[n]
    BY <1>1, SignType
  <1>3. issued \in Nat /\ \A n \in Number : n \in Nat /\ (n # 0 /\ n <= issued => n \in 1..issued)
    BY SidType, Numbers DEF CookieInv
  <1>4. \A n \in 1..issued' : n \in 1..issued \/ n = issued + 1
    BY <1>2, <1>3
  <1>5. issued + 1 \in Number
    BY <1>2, Numbers
  <1>6. QED
    BY <1>2, <1>3, <1>4, <1>5

LEMMA CookieCreate ==
  ASSUME TypeInv, TypeInv', CookieInv, NEW c \in Call, CreateSession(c)
  PROVE  CookieInv'
  <1> DEFINE s == Len(boughtWith) + 1
             new == issued + 1
  <1>0. CallsTyped /\ RestTyped
    BY TypeParts DEF TypeInv
  <1>1. /\ SignAccessToken(s) /\ sessions' = [sessions EXCEPT ![s] = new]
        /\ cookie' = cookie /\ token' = token /\ torn' = torn
        /\ boughtWith' = Append(boughtWith, calls[c].nonce) /\ calls[c].at = "create"
    BY DEF CreateSession, SetSession, client
  <1>2. /\ calls'[c].at = "reply" /\ calls'[c].new = new /\ calls'[c].bearer = calls[c].bearer
        /\ calls'[c].rt = calls[c].rt /\ \A d \in Call \ {c} : calls'[d] = calls[d]
    BY HandleSteps DEF Served, Kept, Others
  <1>3. /\ Len(boughtWith') = s /\ Len(boughtWith) \in Nat
    BY <1>0, <1>1, CallType DEF RestTyped
  <1>4. s \in Sid /\ s \in 0..MaxSessions
    BY <1>3, Numbers DEF TypeInv, CountInv, Sid
  <1>5. \A n \in 1..issued : sidOf[n] \in 1..Len(boughtWith) /\ sidOf[n] \in Sid /\ sidOf[n] # s
    BY <1>3, SidType DEF CookieInv
  <1> HIDE DEF s
  <1>6. /\ issued' = new /\ sidOf'[new] = s
        /\ \A n \in 1..issued' : n \in 1..issued \/ n = new
        /\ \A n \in 1..issued : sidOf'[n] = sidOf[n]
        /\ \A n \in Number : n # 0 /\ n <= issued => n # new /\ sidOf'[n] = sidOf[n]
        /\ \A n \in Number : n <= issued => n <= issued'
        /\ new \in Number
    BY <1>1, <1>4, Issued
  <1>7. issued \in Nat /\ \A n \in Number : n # 0 /\ n <= issued => n \in 1..issued
    BY SidType DEF CookieInv
  <1>b. new <= issued' /\ new # 0
    BY <1>6, <1>7
  <1> HIDE DEF new
  <1>8. /\ cookie \in Number /\ cookie <= issued
        /\ \A t \in Tab : token[t] \in Number /\ token[t] <= issued
        /\ \A d \in Call : /\ calls[d].bearer \in Number /\ calls[d].bearer <= issued
                           /\ calls[d].rt \in Number /\ calls[d].rt <= issued
                           /\ calls[d].new \in Number /\ calls[d].new <= issued
    BY <1>0, SidType DEF CookieInv, HeldInv, HeldBy, RestTyped
  <1>9. HeldInv'
    BY <1>b, <1>1, <1>2, <1>6, <1>8 DEF HeldInv, HeldBy
  <1>10. \A x \in Sid \ {s} : sessions'[x] = sessions[x]
    BY <1>0, <1>1 DEF RestTyped
  <1>11. sessions'[s] = new
    BY <1>0, <1>1, <1>4 DEF RestTyped
  <1>12. TokensInv'
    <2>1. \A n \in 1..issued' : sidOf'[n] \in 1..Len(boughtWith')
      BY <1>3, <1>5, <1>6 DEF s
    <2>2. ASSUME NEW x \in Sid, sessions'[x] # 0
          PROVE  sessions'[x] <= issued' /\ sidOf'[sessions'[x]] = x
      <3>1. CASE x = s
        BY <1>b, <1>6, <1>11, <3>1
      <3>2. CASE x # s
        <4>1. /\ sessions'[x] = sessions[x] /\ sessions[x] \in Number /\ sessions[x] <= issued
              /\ sidOf[sessions[x]] = x
          BY <1>0, <1>10, <2>2, <3>2 DEF CookieInv, TokensInv, RestTyped
        <4>2. QED
          BY <1>6, <2>2, <4>1
      <3>3. QED
        BY <3>1, <3>2
    <2>3. QED
      BY <2>1, <2>2 DEF TokensInv
  <1>13. RefreshInv'
    <2>1. RefreshOK(c)'
      BY <1>2 DEF RefreshOK
    <2>2. ASSUME NEW d \in Call \ {c} PROVE RefreshOK(d)'
      BY <1>2, <1>6, <1>8 DEF CookieInv, RefreshInv, RefreshOK
    <2>3. QED
      BY <2>1, <2>2 DEF RefreshInv
  <1>14. LoginsInv'
    <2>1. NewLoginOK(c)'
      <3>1. \A n \in 1..issued' : sidOf'[n] = sidOf'[new] => n = new
        BY <1>5, <1>6
      <3>2. cookie' # new /\ (\A d \in Call : calls'[d].rt # new)
            /\ \A d \in Call \ {c} : calls'[d].new # new
        BY <1>b, <1>1, <1>2, <1>6, <1>8
      <3>3. QED
        BY <1>b, <1>2, <3>1, <3>2 DEF NewLoginOK
    <2>2. ASSUME NEW d \in Call \ {c}, NewLogin(d)' PROVE NewLoginOK(d)'
      <3> DEFINE m == calls[d].new
      <3>1. NewLoginOK(d)
        BY <1>2, <2>2 DEF NewLogin, CookieInv, LoginsInv
      <3>2. calls'[d].new = m /\ m # 0 /\ m \in 1..issued /\ m # new
        BY <1>2, <1>6, <1>7, <1>8, <3>1 DEF NewLoginOK
      <3>3. \A n \in 1..issued' : sidOf'[n] = sidOf'[m] => n = m
        <4>1. sidOf'[m] = sidOf[m] /\ sidOf[m] # s
          BY <1>5, <1>6, <3>2
        <4>2. QED
          BY <1>6, <3>1, <4>1 DEF NewLoginOK
      <3>4. cookie' # m /\ (\A e \in Call : calls'[e].rt # m)
            /\ \A e \in Call \ {d} : calls'[e].new # m
        BY <1>1, <1>2, <3>1, <3>2 DEF NewLoginOK
      <3>5. QED
        BY <3>2, <3>3, <3>4 DEF NewLoginOK
    <2>3. QED
      BY <2>1, <2>2 DEF LoginsInv
  <1>15. JarInv'
    <2>1. \A d \in Call : Refreshing(d)' => d # c /\ Refreshing(d) /\ calls'[d] = calls[d]
      BY <1>2 DEF Refreshing, RefreshSteps
    <2>2. \A d \in Call : Answered(d)' <=> d # c /\ Answered(d)
      BY <1>1, <1>2 DEF Answered
    <2>3. ~Answered(c)
      BY <1>1 DEF Answered
    <2>4. \A n \in Number : n # 0 /\ n <= issued /\ Current(n) => sessions'[sidOf'[n]] \in {0, n}
      BY <1>5, <1>6, <1>7, <1>10 DEF Current
    <2>5. \A d \in Call : Answered(d) => calls[d].new # 0
      BY DEF CookieInv, RefreshInv, RefreshOK, Answered
    <2>6. \A d \in Call : ~torn' /\ Answered(d)'
                           => sessions'[sidOf'[calls'[d].new]] \in {0, calls'[d].new}
      BY <1>1, <1>2, <1>8, <2>2, <2>4, <2>5 DEF CookieInv, JarInv
    <2>7. ~torn' /\ cookie' # 0
            => sessions'[sidOf'[cookie']] \in {0, cookie'} \/ \E d \in Call : Answered(d)'
      BY <1>1, <1>8, <2>2, <2>3, <2>4 DEF CookieInv, JarInv
    <2>8. QED
      BY <1>1, <2>1, <2>6, <2>7 DEF CookieInv, JarInv, Current
  <1>16. QED
    BY <1>9, <1>12, <1>13, <1>14, <1>15 DEF CookieInv

LEMMA CookieRenew ==
  ASSUME TypeInv, CookieInv, NEW c \in Call, Renew(c)
  PROVE  CookieInv'
  <1> DEFINE s == calls[c].sid
             rt == calls[c].rt
             new == issued + 1
  <1>0. CallsTyped /\ RestTyped
    BY TypeParts DEF TypeInv
  <1>1. /\ SignAccessToken(s) /\ calls[c].at = "renew" /\ sessions' = sessions
        /\ cookie' = cookie /\ token' = token /\ torn' = torn /\ boughtWith' = boughtWith
    BY DEF Renew, client, redis, history
  <1>2. /\ calls'[c].new = new /\ calls'[c].bearer = calls[c].bearer /\ calls'[c].rt = rt
        /\ calls'[c].sid = s /\ calls'[c].gone = calls[c].gone
        /\ \A d \in Call \ {c} : calls'[d] = calls[d]
        /\ \/ calls'[c].at = "store"
           \/ calls'[c].at = "answer" /\ calls'[c].out = "ok" /\ sessions[s] = 0
    BY HandleSteps DEF Served, Kept, Others
  <1>3. s \in 0..MaxSessions /\ rt \in Number
    BY <1>0, CallType
  <1>4. rt # 0 /\ s = sidOf[rt] /\ rt <= issued
    BY <1>1 DEF CookieInv, RefreshInv, RefreshOK, HeldInv, HeldBy
  <1>5. rt \in 1..issued /\ s \in Sid /\ s \in 1..Len(boughtWith)
    BY <1>3, <1>4, SidType DEF CookieInv
  <1>6. /\ issued' = new /\ sidOf'[new] = s
        /\ \A n \in 1..issued' : n \in 1..issued \/ n = new
        /\ \A n \in 1..issued : sidOf'[n] = sidOf[n]
        /\ \A n \in Number : n # 0 /\ n <= issued => n # new /\ sidOf'[n] = sidOf[n]
        /\ \A n \in Number : n <= issued => n <= issued'
        /\ new \in Number
    BY <1>1, <1>3, Issued
  <1>7. issued \in Nat /\ \A n \in Number : n # 0 /\ n <= issued => n \in 1..issued
    BY SidType DEF CookieInv
  <1>b. new <= issued' /\ new # 0
    BY <1>6, <1>7
  <1> HIDE DEF new, s, rt
  <1>8. /\ cookie \in Number /\ cookie <= issued
        /\ \A t \in Tab : token[t] \in Number /\ token[t] <= issued
        /\ \A d \in Call : /\ calls[d].bearer \in Number /\ calls[d].bearer <= issued
                           /\ calls[d].rt \in Number /\ calls[d].rt <= issued
                           /\ calls[d].new \in Number /\ calls[d].new <= issued
    BY <1>0, SidType DEF CookieInv, HeldInv, HeldBy, RestTyped
  <1>9. HeldInv'
    BY <1>b, <1>1, <1>2, <1>3, <1>4, <1>6, <1>8 DEF HeldInv, HeldBy
  <1>12. TokensInv'
    <2>1. \A n \in 1..issued' : sidOf'[n] \in 1..Len(boughtWith')
      BY <1>1, <1>5, <1>6 DEF CookieInv, TokensInv
    <2>2. ASSUME NEW x \in Sid, sessions'[x] # 0
          PROVE  sessions'[x] <= issued' /\ sidOf'[sessions'[x]] = x
      <3>1. /\ sessions'[x] = sessions[x] /\ sessions[x] \in Number /\ sessions[x] <= issued
            /\ sidOf[sessions[x]] = x
        BY <1>0, <1>1, <2>2 DEF CookieInv, TokensInv, RestTyped
      <3>2. QED
        BY <1>6, <2>2, <3>1
    <2>3. QED
      BY <2>1, <2>2 DEF TokensInv
  <1>13. RefreshInv'
    <2>1. RefreshOK(c)'
      BY <1>b, <1>2, <1>3, <1>4, <1>6 DEF RefreshOK
    <2>2. ASSUME NEW d \in Call \ {c} PROVE RefreshOK(d)'
      BY <1>2, <1>6, <1>8 DEF CookieInv, RefreshInv, RefreshOK
    <2>3. QED
      BY <2>1, <2>2 DEF RefreshInv
  <1>14. LoginsInv'
    <2>1. ~NewLogin(c)'
      BY <1>2 DEF NewLogin
    <2>2. ASSUME NEW d \in Call \ {c}, NewLogin(d)' PROVE NewLoginOK(d)'
      <3> DEFINE m == calls[d].new
      <3>1. NewLoginOK(d)
        BY <1>2, <2>2 DEF NewLogin, CookieInv, LoginsInv
      <3>2. calls'[d].new = m /\ m # 0 /\ m \in 1..issued /\ m # new
        BY <1>2, <1>6, <1>7, <1>8, <3>1 DEF NewLoginOK
      <3>3. \A n \in 1..issued' : sidOf'[n] = sidOf'[m] => n = m
        <4>1. rt # m
          BY <3>1 DEF NewLoginOK, rt
        <4>2. sidOf'[m] = sidOf[m] /\ sidOf[m] # s
          BY <1>4, <1>5, <1>6, <3>1, <3>2, <4>1 DEF NewLoginOK
        <4>3. QED
          BY <1>6, <3>1, <4>2 DEF NewLoginOK
      <3>4. cookie' # m /\ (\A e \in Call : calls'[e].rt # m)
            /\ \A e \in Call \ {d} : calls'[e].new # m
        BY <1>1, <1>2, <3>1, <3>2 DEF NewLoginOK, rt
      <3>5. QED
        BY <3>2, <3>3, <3>4 DEF NewLoginOK
    <2>3. QED
      BY <2>1, <2>2 DEF LoginsInv
  <1>15. JarInv'
    <2>1. /\ Refreshing(c)
          /\ \A d \in Call \ {c} : Refreshing(d)' => Refreshing(d) /\ calls'[d] = calls[d]
      BY <1>1, <1>2 DEF Refreshing, RefreshSteps
    <2>2. \A d \in Call \ {c} : Answered(d)' <=> Answered(d)
      BY <1>2 DEF Answered
    <2>3. ~Answered(c)
      BY <1>1 DEF Answered
    <2>4. \A n \in Number : n # 0 /\ n <= issued /\ Current(n) => sessions'[sidOf'[n]] \in {0, n}
      BY <1>1, <1>6 DEF Current
    <2>5. \A d \in Call : Answered(d) => calls[d].new # 0
      BY DEF CookieInv, RefreshInv, RefreshOK, Answered
    <2>6. ASSUME NEW d \in Call, ~torn', Answered(d)'
          PROVE  sessions'[sidOf'[calls'[d].new]] \in {0, calls'[d].new}
      <3>1. CASE d = c
        BY <1>1, <1>2, <1>6, <2>6, <3>1 DEF Answered
      <3>2. CASE d # c
        BY <1>1, <1>2, <1>8, <2>2, <2>4, <2>5, <2>6, <3>2 DEF CookieInv, JarInv
      <3>3. QED
        BY <3>1, <3>2
    <2>7. ~torn' /\ cookie' # 0
            => sessions'[sidOf'[cookie']] \in {0, cookie'} \/ \E d \in Call : Answered(d)'
      BY <1>1, <1>8, <2>2, <2>3, <2>4 DEF CookieInv, JarInv
    <2>8. ~torn' => /\ \A d, e \in Call : Refreshing(d)' /\ Refreshing(e)' => d = e
                    /\ \A d \in Call : Refreshing(d)' => ~calls'[d].gone
      BY <1>1, <1>2, <2>1 DEF CookieInv, JarInv
    <2>9. QED
      BY <2>6, <2>7, <2>8 DEF JarInv, Current
  <1>16. QED
    BY <1>9, <1>12, <1>13, <1>14, <1>15 DEF CookieInv

LEMMA CookieStore ==
  ASSUME TypeInv, CookieInv, NEW c \in Call, StoreSession(c)
  PROVE  CookieInv'
  <1> DEFINE s == calls[c].sid
             new == calls[c].new
  <1>0. CallsTyped /\ RestTyped
    BY TypeParts DEF TypeInv
  <1>1. /\ calls[c].at = "store" /\ sessions' = [sessions EXCEPT ![s] = new]
        /\ issued' = issued /\ sidOf' = sidOf
        /\ cookie' = cookie /\ token' = token /\ torn' = torn /\ boughtWith' = boughtWith
    BY DEF StoreSession, SetSession, client, tokens, history
  <1>2. /\ calls'[c].new = new /\ calls'[c].bearer = calls[c].bearer
        /\ calls'[c].rt = calls[c].rt /\ calls'[c].gone = calls[c].gone
        /\ \A d \in Call \ {c} : calls'[d] = calls[d]
        /\ calls'[c].at = "answer" /\ calls'[c].out = "ok"
    BY HandleSteps DEF Served, Kept, Others
  <1>3. new \in Number /\ new # 0 /\ new <= issued /\ s = sidOf[new]
    BY <1>0, <1>1, CallType DEF CookieInv, RefreshInv, RefreshOK, HeldInv, HeldBy
  <1>4. s \in Sid
    BY <1>3, SidType DEF CookieInv
  <1> HIDE DEF new, s
  <1>5. sessions'[s] = new /\ \A x \in Sid \ {s} : sessions'[x] = sessions[x]
    BY <1>0, <1>1, <1>4 DEF RestTyped
  <1>6. HeldInv'
    BY <1>1, <1>2, <1>3 DEF CookieInv, HeldInv, HeldBy
  <1>7. TokensInv'
    BY <1>1, <1>3, <1>5 DEF CookieInv, TokensInv
  <1>8. RefreshInv'
    BY <1>1, <1>2, <1>3 DEF CookieInv, RefreshInv, RefreshOK
  <1>9. LoginsInv'
    <2> SUFFICES ASSUME NEW d \in Call, NewLogin(d)' PROVE NewLoginOK(d)'
      BY DEF LoginsInv
    <2>1. d # c /\ NewLoginOK(d) /\ calls'[d] = calls[d]
      BY <1>2 DEF NewLogin, CookieInv, LoginsInv
    <2>2. \A e \in Call : calls'[e].rt = calls[e].rt /\ calls'[e].new = calls[e].new
      BY <1>2 DEF new
    <2>3. QED
      BY <1>1, <2>1, <2>2 DEF NewLoginOK
  <1>10. JarInv'
    <2>1. Refreshing(c) /\ \A d \in Call \ {c} : Refreshing(d)' <=> Refreshing(d)
      BY <1>1, <1>2 DEF Refreshing, RefreshSteps
    <2>2. Answered(c)'
      BY <1>2 DEF Answered
    <2>3. ~torn' => \A d \in Call : Refreshing(d)' => d = c
      BY <1>1, <2>1 DEF CookieInv, JarInv
    <2>4. \A d \in Call : Answered(d)' => Refreshing(d)'
      BY DEF Answered, Refreshing, RefreshSteps
    <2>5. sessions'[sidOf'[calls'[c].new]] \in {0, calls'[c].new}
      BY <1>1, <1>2, <1>3, <1>5
    <2>6. ~torn' => ~calls'[c].gone
      BY <1>1, <1>2, <2>1 DEF CookieInv, JarInv
    <2>7. QED
      BY <2>2, <2>3, <2>4, <2>5, <2>6 DEF JarInv, Current
  <1>11. QED
    BY <1>6, <1>7, <1>8, <1>9, <1>10 DEF CookieInv

\* The steps of the API that issue no token: what they are is what they make of the call.
LEMMA ServedPlain ==
  ASSUME TypeInv, CookieInv, NEW c \in Call, NEW at, NEW sid, NEW out, NEW new,
         Served(c, at, sid, out, new), new \in {calls[c].new, 0},
         issued' = issued, sidOf' = sidOf, boughtWith' = boughtWith,
         \A s \in Sid : sessions'[s] \in {0, sessions[s]},
         cookie' = cookie, token' = token, torn' = torn,
         ~Answered(c), ~(at = "answer" /\ out = "ok"), at # "store",
         at \in RefreshSteps => Refreshing(c),
         at = "renew" => calls[c].rt # 0 /\ sid = sidOf[calls[c].rt],
         at = "reply" /\ out = "ok" => calls[c].op \notin LoginOps
  PROVE  CookieInv'
  <1>1. /\ Others(c) /\ Kept(c)
        /\ calls'[c].at = at /\ calls'[c].sid = sid /\ calls'[c].out = out /\ calls'[c].new = new
    BY DEF Served
  <1>2. HeldBy(c)' /\ cookie' <= issued /\ \A t \in Tab : token'[t] <= issued
    BY <1>1, SidType DEF CookieInv, HeldInv, HeldBy, Kept
  <1>3. RefreshOK(c)'
    BY <1>1 DEF RefreshOK, Kept
  <1>4. ~NewLogin(c)' /\ ~Answered(c)'
    BY <1>1 DEF NewLogin, Answered, Kept
  <1>5. ~torn' /\ Refreshing(c)' => ~calls'[c].gone /\ \A d \in Call : Refreshing(d) => d = c
    BY <1>1 DEF Kept, Refreshing, CookieInv, JarInv
  <1>6. PlainStep(c)
    BY <1>1, <1>2, <1>3, <1>4, <1>5 DEF PlainStep, Kept
  <1>7. QED
    BY <1>6, PlainStepInv

LEMMA CookieHandle ==
  ASSUME TypeInv, TypeInv', CookieInv, NEW c \in Call, Handle(c)
  PROVE  CookieInv'
  <1> USE DEF redis, tokens, client, history
  <1> DEFINE k == calls[c]
             Plain(at, sid, out, new) ==
                 /\ Served(c, at, sid, out, new) /\ new \in {calls[c].new, 0}
                 /\ ~Answered(c) /\ ~(at = "answer" /\ out = "ok") /\ at # "store"
                 /\ at \in RefreshSteps => Refreshing(c)
                 /\ at = "renew" => calls[c].rt # 0 /\ sid = sidOf[calls[c].rt]
                 /\ at = "reply" /\ out = "ok" => calls[c].op \notin LoginOps
  <1>0. CallsTyped /\ RestTyped
    BY TypeParts DEF TypeInv
  <1>1. ASSUME NEW at, NEW sid, NEW out, NEW new, Plain(at, sid, out, new),
               issued' = issued, sidOf' = sidOf, boughtWith' = boughtWith,
               \A s \in Sid : sessions'[s] \in {0, sessions[s]},
               cookie' = cookie, token' = token, torn' = torn
        PROVE  CookieInv'
    BY <1>1, ServedPlain
  <1>a. \A s \in Sid : sessions[s] \in {0, sessions[s]}
    OBVIOUS
  <1>b. \A x \in 0..MaxSessions : DelSession(x) => \A s \in Sid : sessions'[s] \in {0, sessions[s]}
    BY <1>0 DEF DelSession, RestTyped
  <1>c. "reply" \notin RefreshSteps /\ "session" \notin RefreshSteps /\ "delete" \notin RefreshSteps
        /\ "blacklist" \notin RefreshSteps /\ "create" \notin RefreshSteps
        /\ {"answer", "renew", "destroy"} \subseteq RefreshSteps
    BY DEF RefreshSteps
  <1>2. ASSUME TokenGuard(c) PROVE CookieInv'
    <2>1. Plain("session", k.sid, k.out, k.new) \/ Plain("reply", k.sid, "401", 0)
      BY <1>2, <1>c, HandleSteps DEF TokenGuard, Answered
    <2>2. QED
      BY <1>1, <1>a, <1>2, <2>1 DEF TokenGuard
  <1>3. ASSUME SessionGuard(c) PROVE CookieInv'
    <2>1. k.op \notin LoginOps
      BY <1>3 DEF SessionGuard, TypeInv, StepsInv, StepOK, LoginOps
    <2>2. \/ Plain("delete", k.sid, k.out, k.new)
          \/ \E out \in {"ok", "401", "403"} : Plain("reply", k.sid, out, 0)
      BY <1>3, <1>c, <2>1, HandleSteps DEF SessionGuard, Answered
    <2>3. QED
      BY <1>1, <1>a, <1>3, <2>2 DEF SessionGuard
  <1>4. ASSUME DeleteSession(c) PROVE CookieInv'
    <2>1. Plain("blacklist", k.sid, k.out, k.new)
      BY <1>4, <1>c, HandleSteps DEF DeleteSession, Answered
    <2>2. sidOf[k.bearer] \in 0..MaxSessions
      BY <1>0, <1>4, CallType, Numbers DEF DeleteSession, TypeInv, StepsInv, StepOK, RestTyped
    <2>3. \A s \in Sid : sessions'[s] \in {0, sessions[s]}
      BY <1>b, <1>4, <2>2 DEF DeleteSession
    <2>4. QED
      BY <1>1, <1>4, <2>1, <2>3 DEF DeleteSession
  <1>5. ASSUME BlacklistToken(c) PROVE CookieInv'
    <2>1. k.op \notin LoginOps
      BY <1>5 DEF BlacklistToken, TypeInv, StepsInv, StepOK, LoginOps
    <2>2. Plain("reply", k.sid, "ok", 0)
      BY <1>5, <1>c, <2>1, HandleSteps DEF BlacklistToken, Answered
    <2>3. QED
      BY <1>1, <1>a, <1>5, <2>2 DEF BlacklistToken
  <1>6. ASSUME Verify(c) PROVE CookieInv'
    <2>1. Plain("create", k.sid, k.out, k.new) \/ Plain("reply", k.sid, "401", 0)
      BY <1>6, <1>c, HandleSteps DEF Verify, Answered
    <2>2. QED
      BY <1>1, <1>a, <1>6, <2>1 DEF Verify
  <1>7. ASSUME VerifyZkLogin(c) PROVE CookieInv'
    <2>1. Plain("create", k.sid, k.out, k.new) \/ Plain("reply", k.sid, "401", 0)
      BY <1>7, <1>c, HandleSteps DEF VerifyZkLogin, Answered
    <2>2. QED
      BY <1>1, <1>a, <1>7, <2>1 DEF VerifyZkLogin
  <1>8. ASSUME RefreshWithoutCookie(c) PROVE CookieInv'
    <2>1. Plain("answer", k.sid, "401", 0)
      BY <1>8, <1>c, HandleSteps DEF RefreshWithoutCookie, Answered, Refreshing, RefreshSteps
    <2>2. QED
      BY <1>1, <1>a, <1>8, <2>1 DEF RefreshWithoutCookie
  <1>9. ASSUME RefreshBySid(c) PROVE CookieInv'
    <2> DEFINE s == sidOf[k.bearer]
    <2>1. k.at = "refresh" /\ k.rt # 0 /\ k.bearer # 0 /\ Refreshing(c) /\ ~Answered(c)
      BY <1>9 DEF RefreshBySid, Answered, Refreshing, RefreshSteps
    <2>2. s \in Sid
      BY <2>1, SidType DEF CookieInv, HeldInv, HeldBy
    <2>3. sessions[s] # 0 /\ sessions[s] = k.rt => sidOf[k.rt] = s
      BY <2>2 DEF CookieInv, TokensInv
    <2>4. \/ Plain("answer", k.sid, "401", 0)
          \/ Plain("renew", s, k.out, k.new) \/ Plain("destroy", s, k.out, k.new)
      BY <1>9, <1>c, <2>1, <2>3, HandleSteps
    <2>5. QED
      BY <1>1, <1>a, <1>9, <2>4 DEF RefreshBySid
  <1>10. ASSUME RefreshByCookie(c) PROVE CookieInv'
    <2>1. k.at = "refresh" /\ k.rt # 0 /\ Refreshing(c) /\ ~Answered(c)
      BY <1>10 DEF RefreshByCookie, Answered, Refreshing, RefreshSteps
    <2>2. \A s \in Sid : sessions[s] = k.rt => sidOf[k.rt] = s
      BY <2>1 DEF CookieInv, TokensInv
    <2>3. \/ Plain("answer", k.sid, "401", 0)
          \/ \E s \in Sid : Plain("renew", s, k.out, k.new)
      BY <1>10, <1>c, <2>1, <2>2, HandleSteps
    <2>4. QED
      BY <1>1, <1>a, <1>10, <2>3 DEF RefreshByCookie
  <1>11. ASSUME DestroySession(c) PROVE CookieInv'
    <2>1. Plain("answer", k.sid, "401", 0)
      BY <1>11, <1>c, HandleSteps DEF DestroySession, Answered, Refreshing, RefreshSteps
    <2>2. k.sid \in 0..MaxSessions
      BY <1>0, CallType
    <2>3. \A s \in Sid : sessions'[s] \in {0, sessions[s]}
      BY <1>b, <1>11, <2>2 DEF DestroySession
    <2>4. QED
      BY <1>1, <1>11, <2>1, <2>3 DEF DestroySession
  <1>12. QED
    BY <1>2, <1>3, <1>4, <1>5, <1>6, <1>7, <1>8, <1>9, <1>10, <1>11,
       CookieCreate, CookieRenew, CookieStore DEF Handle

\* A call that ends.
LEMMA EndedPlain ==
  ASSUME TypeInv, CookieInv, NEW c \in Call, Done(c),
         issued' = issued, sidOf' = sidOf, boughtWith' = boughtWith, sessions' = sessions,
         \A t \in Tab : token'[t] \in {token[t], calls[c].new, 0},
         \/ cookie' \in {cookie, 0}
         \/ cookie' = calls[c].new /\ (~torn' => Current(calls[c].new)),
         torn => torn',
         ~torn' /\ Answered(c) => cookie' = calls[c].new
  PROVE  CookieInv'
  <1>1. CallsTyped
    BY TypeParts DEF TypeInv
  <1>2. Others(c) /\ calls'[c] = Idle
    BY <1>1, DoneWrites
  <1>3. /\ calls'[c].at = "idle" /\ calls'[c].bearer = 0 /\ calls'[c].rt = 0
        /\ calls'[c].new = 0
    BY <1>2 DEF Idle
  <1>4. HeldBy(c)' /\ cookie' <= issued /\ \A t \in Tab : token'[t] <= issued
    BY <1>3, SidType DEF CookieInv, HeldInv, HeldBy
  <1>5. RefreshOK(c)' /\ ~NewLogin(c)' /\ ~Answered(c)' /\ ~Refreshing(c)'
    BY <1>3 DEF RefreshOK, NewLogin, Answered, Refreshing, RefreshSteps
  <1>6. PlainStep(c)
    BY <1>2, <1>3, <1>4, <1>5 DEF PlainStep
  <1>7. QED
    BY <1>6, PlainStepInv

\* A call that goes on with a request of its own: it begins, or it is sent again.
LEMMA AskedPlain ==
  ASSUME TypeInv, CookieInv, NEW c \in Call, Others(c),
         issued' = issued, sidOf' = sidOf, boughtWith' = boughtWith, sessions' = sessions,
         \A t \in Tab : token'[t] \in {token[t], calls[c].new, 0},
         calls'[c].at \in {"request", "refresh"},
         calls'[c].rt \in {calls[c].rt, cookie, 0}, calls'[c].new \in {calls[c].new, 0},
         calls'[c].bearer <= issued,
         \/ cookie' = cookie
         \/ cookie' = calls[c].new /\ calls'[c].new = 0 /\ (~torn' => Current(calls[c].new)),
         torn => torn',
         calls'[c].at = "refresh" /\ ~torn'
           => ~calls'[c].gone /\ \A d \in Call : ~Refreshing(d),
         ~torn' /\ Answered(c) => cookie' = calls[c].new
  PROVE  CookieInv'
  <1>1. HeldBy(c)' /\ cookie' <= issued /\ \A t \in Tab : token'[t] <= issued
    BY SidType DEF CookieInv, HeldInv, HeldBy
  <1>2. RefreshOK(c)' /\ ~NewLogin(c)' /\ ~Answered(c)'
    BY DEF RefreshOK, NewLogin, Answered
  <1>3. ~torn' /\ Refreshing(c)' => ~calls'[c].gone /\ \A d \in Call : ~Refreshing(d)
    BY DEF Refreshing, RefreshSteps
  <1>4. PlainStep(c)
    BY <1>1, <1>2, <1>3 DEF PlainStep
  <1>5. QED
    BY <1>4, PlainStepInv

\* The answers and errors that reach the client.
LEMMA CookieReceive ==
  ASSUME TypeInv, CookieInv, NEW c \in Call, Receive(c) \/ Lose(c)
  PROVE  CookieInv'
  <1> USE DEF redis, tokens, client, history
  <1> DEFINE SameTokens == /\ issued' = issued /\ sidOf' = sidOf
                           /\ boughtWith' = boughtWith /\ sessions' = sessions
  <1>0. CallsTyped /\ RestTyped
    BY TypeParts DEF TypeInv
  <1>b. calls[c].tab \in Tab
    BY <1>0, CallType
  <1>c. ~torn /\ Answered(c) => Current(calls[c].new)
    BY DEF CookieInv, JarInv
  \* The session of the tab ends; the jar is left alone or emptied.
  <1>1. ASSUME SignedOut(c), SameTokens, cookie' \in {cookie, 0}, torn => torn',
               ~torn' => ~Answered(c)
        PROVE  CookieInv'
    <2>1. Done(c) /\ \A t \in Tab : token'[t] \in {token[t], 0}
      BY <1>0, <1>b, <1>1 DEF SignedOut, Settle, RestTyped
    <2>2. QED
      BY <1>1, <2>1, EndedPlain
  <1>2. ASSUME Done(c), SameTokens, token' = token, cookie' = cookie, torn => torn',
               ~torn' => ~Answered(c)
        PROVE  CookieInv'
    BY <1>2, EndedPlain
  <1>3. ASSUME QueryOk(c) PROVE CookieInv'
    BY <1>2, <1>3 DEF QueryOk, Answered
  <1>4. ASSUME LogoutOk(c) PROVE CookieInv'
    BY <1>1, <1>4 DEF LogoutOk, Answered
  <1>5. ASSUME LoginOk(c) PROVE CookieInv'
    <2>1. Current(calls[c].new) /\ ~Answered(c)
      BY <1>5, NewLoginCurrent DEF LoginOk, NewLogin, Answered
    <2>2. \A t \in Tab : token'[t] \in {token[t], calls[c].new}
      BY <1>0, <1>b, <1>5 DEF LoginOk, RestTyped
    <2>3. QED
      BY <1>5, <2>1, <2>2, EndedPlain DEF LoginOk, SetCookie
  <1>6. ASSUME ReplyRefused(c) PROVE CookieInv'
    BY <1>1, <1>6 DEF ReplyRefused, Answered
  <1>7. ASSUME Reply401(c) PROVE CookieInv'
    <2>1. CASE SignedOut(c) /\ UNCHANGED torn
      BY <1>1, <1>7, <2>1 DEF Reply401, Answered
    <2>2. CASE AttemptRefresh(c)
      <3>1. Attempted(c)
        BY <1>0, <2>2, AttemptWrites DEF RestTyped
      <3>2. token[calls[c].tab] <= issued
        BY <1>b DEF CookieInv, HeldInv
      <3>3. /\ SameTokens /\ cookie' = cookie /\ token' = token
            /\ torn' = (torn \/ \E d \in Call : Refreshing(d))
            /\ ~calls[c].gone /\ ~Answered(c)
        BY <1>7, <2>2 DEF Reply401, AttemptRefresh, Answered
      <3>4. QED
        BY <3>1, <3>2, <3>3, AskedPlain DEF Attempted
    <2>3. QED
      BY <1>7, <2>1, <2>2 DEF Reply401
  <1>8. ASSUME RestoreOk(c) PROVE CookieInv'
    <2>1. Answered(c) /\ Done(c) /\ cookie' = calls[c].new /\ torn' = torn /\ SameTokens
      BY <1>8 DEF RestoreOk, Answered, SetCookie
    <2>2. \A t \in Tab : token'[t] \in {token[t], calls[c].new}
      BY <1>0, <1>b, <1>8 DEF RestoreOk, RestTyped
    <2>3. QED
      BY <1>c, <2>1, <2>2, EndedPlain
  <1>9. ASSUME RefreshOk(c) PROVE CookieInv'
    <2>1. Answered(c) /\ cookie' = calls[c].new /\ torn' = torn /\ SameTokens
      BY <1>9 DEF RefreshOk, Answered, SetCookie
    <2>2. \A t \in Tab : token'[t] \in {token[t], calls[c].new}
      BY <1>0, <1>b, <1>9 DEF RefreshOk, RestTyped
    <2>3. Repeated(c) /\ calls[c].new <= issued
      BY <1>0, <1>9, RefreshOkWrites DEF CookieInv, HeldInv, HeldBy
    <2>4. QED
      BY <1>c, <2>1, <2>2, <2>3, AskedPlain DEF Repeated
  <1>10. ASSUME RefreshFailed(c), SameTokens, cookie' = cookie, torn => torn',
                ~torn' => ~Answered(c)
         PROVE  CookieInv'
    <2>1. CASE Done(c) /\ UNCHANGED <<token, zk>>
      BY <1>2, <1>10, <2>1
    <2>2. CASE SignedOut(c)
      BY <1>1, <1>10, <2>2
    <2>3. QED
      BY <1>10, <2>1, <2>2 DEF RefreshFailed
  <1>11. ASSUME RefreshRefused(c) PROVE CookieInv'
    BY <1>10, <1>11 DEF RefreshRefused, Answered
  <1>12. ASSUME Abandoned(c) PROVE CookieInv'
    <2>1. Done(c) /\ SameTokens /\ token' = token /\ torn' = torn
      BY <1>12 DEF Abandoned
    <2>2. ~torn => ~Answered(c)
      BY <1>12 DEF Abandoned, CookieInv, JarInv, Answered, Refreshing, RefreshSteps
    <2>3. CASE cookie' = cookie
      BY <1>2, <2>1, <2>2, <2>3
    <2>4. CASE calls[c].out = "ok" /\ cookie' = calls[c].new
      <3>1. CASE torn
        BY <2>1, <2>4, <3>1, EndedPlain
      <3>2. CASE ~torn /\ NewLogin(c)
        BY <2>1, <2>2, <2>4, <3>2, NewLoginCurrent, EndedPlain
      <3>3. CASE ~torn /\ ~NewLogin(c)
        <4>1. calls[c].at = "reply" /\ calls[c].op \notin LoginOps
          BY <1>12, <2>2, <2>4, <3>3 DEF Abandoned, Answered, NewLogin
        <4>2. cookie' = 0
          BY <2>4, <4>1 DEF TypeInv, StepsInv, StepOK
        <4>3. QED
          BY <2>1, <2>2, <3>3, <4>2, EndedPlain
      <3>4. QED
        BY <3>1, <3>2, <3>3
    <2>5. QED
      BY <1>12, <2>3, <2>4 DEF Abandoned, SetCookie
  <1>13. ASSUME LoseRequest(c) PROVE CookieInv'
    <2>1. SameTokens /\ cookie' = cookie /\ torn' = torn /\ ~Answered(c)
      BY <1>13 DEF LoseRequest, Answered
    <2>2. CASE Resend(c) /\ UNCHANGED token
      <3>1. Resent(c) /\ calls[c].bearer <= issued
        BY <1>0, <2>2, ResendWrites DEF CookieInv, HeldInv, HeldBy
      <3>2. QED
        BY <2>1, <2>2, <3>1, AskedPlain DEF Resent
    <2>3. CASE SignedOut(c)
      BY <1>1, <2>1, <2>3
    <2>4. CASE Settle(c) /\ UNCHANGED token
      BY <1>2, <2>1, <2>4 DEF Settle
    <2>5. QED
      BY <1>13, <2>2, <2>3, <2>4 DEF LoseRequest, Resend
  <1>14. ASSUME LoseRefresh(c) PROVE CookieInv'
    BY <1>10, <1>14 DEF LoseRefresh, Answered
  <1>15. QED
    BY <1>3, <1>4, <1>5, <1>6, <1>7, <1>8, <1>9, <1>11, <1>12, <1>13, <1>14 DEF Receive, Lose

\* A call starts.
LEMMA CookieStart ==
  ASSUME TypeInv, CookieInv, NEW c \in Call, NEW t \in Tab, Start(c, t)
  PROVE  CookieInv'
  <1> USE DEF redis, tokens, client, history
  <1>0. CallsTyped /\ RestTyped
    BY TypeParts DEF TypeInv
  <1>b. token[t] \in Number /\ token[t] <= issued /\ 0 \in Number /\ 0 <= issued
    BY <1>0, Numbers, SidType DEF RestTyped, CookieInv, HeldInv
  <1>1. ASSUME NEW op \in Ops, NEW s \in {"request", "refresh"}, NEW bearer \in {token[t], 0},
               NEW n \in Nonce \cup {NoNonce}, op = "logout" => bearer # 0,
               Begin(c, t, op, s, bearer, n),
               issued' = issued, sidOf' = sidOf, boughtWith' = boughtWith, sessions' = sessions,
               cookie' = cookie, token' = token, torn => torn',
               s = "refresh" /\ ~torn' => \A d \in Call : ~Refreshing(d)
        PROVE  CookieInv'
    <2>1. s \in Steps /\ bearer \in Number /\ bearer <= issued
      BY <1>b, <1>1 DEF Steps, RefreshSteps
    <2>2. Begun(c, t, op, s, bearer, n)
      BY <1>0, <1>1, <2>1, BeginWrites DEF RestTyped
    <2>3. ~Answered(c)
      BY <1>1 DEF Begin, Answered
    <2>4. QED
      BY <1>1, <2>1, <2>2, <2>3, AskedPlain DEF Begun
  <1>2. ASSUME StartQuery(c, t) PROVE CookieInv'
    BY <1>1, <1>2 DEF StartQuery, Ops
  <1>3. ASSUME StartLogout(c, t) PROVE CookieInv'
    BY <1>1, <1>3 DEF StartLogout, Ops
  <1>4. ASSUME NEW n \in Nonce, StartWalletLogin(c, t, n) PROVE CookieInv'
    BY <1>1, <1>4 DEF StartWalletLogin, StoreChallenge, Ops, LoginOps
  <1>5. ASSUME StartZkLogin(c, t) PROVE CookieInv'
    <2>1. PICK op \in CompleteZkLogin(t) : Begin(c, t, op, "request", 0, NoNonce)
      BY <1>5 DEF StartZkLogin
    <2>2. op \in Ops /\ op # "logout"
      <3>1. \A o \in CompleteZkLogin(t) : o \in {"zk", "lateZk"}
        BY DEF CompleteZkLogin
      <3>2. QED
        BY <2>1, <3>1 DEF Ops, LoginOps
    <2>3. QED
      BY <1>1, <1>5, <2>1, <2>2 DEF StartZkLogin
  <1>6. ASSUME NEW op \in {"restore", "check"}, StartRefreshing(c, t, op) PROVE CookieInv'
    <2>1. op \in Ops /\ op # "logout"
      BY DEF Ops
    <2>2. QED
      BY <1>1, <1>6, <2>1 DEF StartRefreshing
  <1>7. QED
    BY <1>2, <1>3, <1>4, <1>5, <1>6 DEF Start, StartRestore, StartSessionCheck

\* A page load, and the steps of no call, write no token and may only end sessions.
LEMMA CookieAside ==
  ASSUME TypeInv, CookieInv,
         issued' = issued, sidOf' = sidOf, boughtWith' = boughtWith, cookie' = cookie,
         \A s \in Sid : sessions'[s] \in {0, sessions[s]},
         \A t \in Tab : token'[t] \in {token[t], 0},
         torn => torn',
         \A c \in Call :
            \/ calls'[c] = calls[c]
            \/ calls'[c] = Idle /\ ~Refreshing(c)
            \/ calls'[c] = [calls[c] EXCEPT !.gone = TRUE] /\ (~torn' => ~Refreshing(c))
  PROVE  CookieInv'
  <1>0. CallsTyped
    BY TypeParts DEF TypeInv
  <1>1. \A c \in Call :
           \/ calls'[c] = Idle /\ ~Refreshing(c)
           \/ /\ calls'[c].at = calls[c].at /\ calls'[c].bearer = calls[c].bearer
              /\ calls'[c].rt = calls[c].rt /\ calls'[c].new = calls[c].new
              /\ calls'[c].out = calls[c].out /\ calls'[c].op = calls[c].op
              /\ calls'[c].sid = calls[c].sid
              /\ ~torn' /\ Refreshing(c) => calls'[c].gone = calls[c].gone
    <2> SUFFICES ASSUME NEW c \in Call
                 PROVE  \/ calls'[c] = Idle /\ ~Refreshing(c)
                        \/ /\ calls'[c].at = calls[c].at /\ calls'[c].bearer = calls[c].bearer
                           /\ calls'[c].rt = calls[c].rt /\ calls'[c].new = calls[c].new
                           /\ calls'[c].out = calls[c].out /\ calls'[c].op = calls[c].op
                           /\ calls'[c].sid = calls[c].sid
                           /\ ~torn' /\ Refreshing(c) => calls'[c].gone = calls[c].gone
      OBVIOUS
    <2> DEFINE old == calls[c]  new == [old EXCEPT !.gone = TRUE]
    <2>1. old \in CallRecord
      BY <1>0 DEF CallsTyped
    <2> HIDE DEF old
    <2>2. /\ new.at = old.at /\ new.bearer = old.bearer /\ new.rt = old.rt
          /\ new.new = old.new /\ new.out = old.out /\ new.op = old.op /\ new.sid = old.sid
      BY <2>1 DEF CallRecord
    <2> HIDE DEF new
    <2>3. CASE calls'[c] = new /\ (~torn' => ~Refreshing(c))
      BY <2>2, <2>3 DEF old
    <2>4. CASE calls'[c] = calls[c]
      BY <2>4
    <2>5. QED
      BY <2>3, <2>4 DEF new, old
  <1>2. /\ Idle.at = "idle" /\ Idle.bearer = 0 /\ Idle.rt = 0 /\ Idle.new = 0
    BY DEF Idle
  <1>3. \A c \in Call :
           /\ Refreshing(c)' <=> Refreshing(c)
           /\ Answered(c)' <=> Answered(c)
           /\ NewLogin(c)' => NewLogin(c) /\ calls'[c].new = calls[c].new
           /\ ~torn' /\ Refreshing(c) => calls'[c].gone = calls[c].gone
           /\ Answered(c) => calls'[c].new = calls[c].new
           /\ calls'[c].rt \in {calls[c].rt, 0} /\ calls'[c].new \in {calls[c].new, 0}
    BY <1>1, <1>2 DEF Refreshing, RefreshSteps, Answered, NewLogin
  <1>4. HeldInv'
    BY <1>1, <1>2, SidType DEF CookieInv, HeldInv, HeldBy
  <1>5. TokensInv'
    BY DEF CookieInv, TokensInv
  <1>6. RefreshInv'
    BY <1>1, <1>2 DEF CookieInv, RefreshInv, RefreshOK
  <1>7. LoginsInv'
    <2> SUFFICES ASSUME NEW c \in Call, NewLogin(c)' PROVE NewLoginOK(c)'
      BY DEF LoginsInv
    <2>1. NewLoginOK(c) /\ calls'[c].new = calls[c].new
      BY <1>3 DEF CookieInv, LoginsInv
    <2>2. QED
      BY <1>3, <2>1 DEF NewLoginOK
  <1>8. JarInv'
    <2> DEFINE Stays(n) == sessions'[sidOf'[n]] \in {0, n}
    <2> SUFFICES ASSUME ~torn'
                 PROVE  /\ \A d, e \in Call : Refreshing(d)' /\ Refreshing(e)' => d = e
                        /\ \A d \in Call : Refreshing(d)' => ~calls'[d].gone
                        /\ \A d \in Call : Answered(d)' => Stays(calls'[d].new)
                        /\ cookie' # 0 => Stays(cookie') \/ \E d \in Call : Answered(d)'
      BY DEF JarInv, Current
    <2>1. /\ \A d, e \in Call : Refreshing(d) /\ Refreshing(e) => d = e
          /\ \A d \in Call : Refreshing(d) => ~calls[d].gone
          /\ \A d \in Call : Answered(d) => Current(calls[d].new)
          /\ cookie # 0 => Current(cookie) \/ \E d \in Call : Answered(d)
      BY DEF CookieInv, JarInv
    <2>2. ASSUME NEW n \in Number, n # 0, n <= issued, Current(n) PROVE Stays(n)
      BY <2>2, SidType, CurrentStays DEF CookieInv, Current
    <2> HIDE DEF Stays
    <2>3. ASSUME NEW d \in Call, Answered(d)' PROVE Stays(calls'[d].new)
      <3>1. Answered(d) /\ calls'[d].new = calls[d].new
        BY <1>3, <2>3
      <3>2. calls[d].new # 0 /\ calls[d].new <= issued /\ calls[d].new \in Number
        BY <3>1, SidType DEF CookieInv, RefreshInv, RefreshOK, HeldInv, HeldBy, Answered
      <3>3. QED
        BY <2>1, <2>2, <3>1, <3>2
    <2>4. cookie' # 0 => Stays(cookie') \/ \E d \in Call : Answered(d)'
      BY <1>3, <2>1, <2>2, SidType DEF CookieInv, HeldInv
    <2>5. QED
      BY <1>3, <2>1, <2>3, <2>4
  <1>9. QED
    BY <1>4, <1>5, <1>6, <1>7, <1>8 DEF CookieInv

LEMMA CookieNext == TypeInv /\ TypeInv' /\ CookieInv /\ [Next]_vars => CookieInv'
  <1> SUFFICES ASSUME TypeInv, TypeInv', CookieInv, [Next]_vars PROVE CookieInv'
    OBVIOUS
  <1> USE DEF redis, tokens, client, history
  <1>0. CallsTyped /\ RestTyped
    BY TypeParts DEF TypeInv
  <1>1. ASSUME calls' = calls, issued' = issued, sidOf' = sidOf, boughtWith' = boughtWith,
               cookie' = cookie, token' = token, torn' = torn,
               \A s \in Sid : sessions'[s] \in {0, sessions[s]}
        PROVE  CookieInv'
    BY <1>1, CookieAside
  <1>2. ASSUME NEW t \in Tab, PrepareZkLogin(t) PROVE CookieInv'
    BY <1>1, <1>2 DEF PrepareZkLogin
  <1>3. ASSUME NEW t \in Tab, Reload(t) PROVE CookieInv'
    <2>1. \A x \in Tab : token'[x] \in {token[x], 0}
      BY <1>0, <1>3 DEF Reload, RestTyped
    <2>2. \A c \in Call :
             \/ calls'[c] = calls[c]
             \/ calls'[c] = Idle /\ ~Refreshing(c)
             \/ calls'[c] = [calls[c] EXCEPT !.gone = TRUE] /\ (~torn' => ~Refreshing(c))
      BY <1>0, <1>3, ReloadWrites DEF Reload
    <2>3. QED
      BY <1>3, <2>1, <2>2, CookieAside DEF Reload
  <1>4. ASSUME NEW n \in 1..MaxIssued, ExpireToken(n) PROVE CookieInv'
    BY <1>1, <1>4 DEF ExpireToken
  <1>5. ASSUME NEW s \in Sid, ExpireSession(s) PROVE CookieInv'
    <2>1. \A x \in Sid : sessions'[x] \in {0, sessions[x]}
      BY <1>0, <1>5 DEF ExpireSession, DelSession, RestTyped
    <2>2. QED
      BY <1>1, <1>5, <2>1 DEF ExpireSession
  <1>6. ASSUME NEW n \in Nonce, ExpireChallenge(n) PROVE CookieInv'
    BY <1>1, <1>6 DEF ExpireChallenge
  <1>7. ASSUME NEW t \in Tab, EpochPasses(t) PROVE CookieInv'
    BY <1>1, <1>7 DEF EpochPasses
  <1>8. CASE UNCHANGED vars
    BY <1>1, <1>8 DEF vars
  <1>9. QED
    BY <1>2, <1>3, <1>4, <1>5, <1>6, <1>7, <1>8, CookieHandle, CookieReceive, CookieStart
    DEF Next, Time

\* With no refresh under way, none that overlapped another and none whose answer was lost,
\* the jar holds the current refresh token of its session, however the steps of the API, the
\* retries of the client and the reloads of its tabs interleave: the next refresh is not
\* taken for the reuse of a stolen token.
THEOREM JarIsCurrent == Spec => []JarFollowsSession
  <1>1. CookieInv => JarFollowsSession
    <2>1. \A c \in Call : Answered(c) => Refreshing(c)
      BY DEF Answered, Refreshing, RefreshSteps
    <2>2. QED
      BY <2>1 DEF CookieInv, JarInv, JarFollowsSession, Current
  <1>2. QED
    BY <1>1, CookieInit, CookieNext, SessionsTypes, PTL DEF Spec
=============================================================================

------------------------------ MODULE Sessions ------------------------------
(***************************************************************************)
(* Sign-in, sessions and tokens: the auth service of the API with its      *)
(* Redis keys, the guards every request passes, and the web client that    *)
(* refreshes and retries.  The tabs of one browser share a cookie jar;     *)
(* each tab keeps its access token in memory and has any number of calls   *)
(* in flight.                                                              *)
(*                                                                         *)
(* A step of a handler is what it does between two awaits that matter to   *)
(* others.  A Redis pipeline is one step: it is written as one buffer, and *)
(* Redis runs the commands a connection has sent one after the other.  A   *)
(* lost answer is noticed once the handler has finished.                   *)
(*                                                                         *)
(* An access token and the refresh token issued with it have one number,   *)
(* and a session stands for its refreshTokenHash, 0 when the key is gone.  *)
(***************************************************************************)
EXTENDS Integers, FiniteSets, FiniteSetsExt, Sequences

CONSTANTS
    Tab, Nonce,
    MaxCalls,      \* calls in flight at once
    MaxRetries,    \* maxRetries of ApiClient.fetch
    MaxSessions,   \* bounds of the model: sessions created,
    MaxIssued,     \* pairs of tokens issued
    CsrfHeaders,   \* whether the client sends a valid x-csrf-token: may it, must it?
    SignedStamp,   \* the form of the timestamp in the message the client signs
    NoNonce

ASSUME SessionsAssumption ==
    /\ MaxRetries \in Nat
    /\ MaxCalls \in Nat
    /\ MaxSessions \in Nat \ {0}
    /\ MaxIssued \in Nat \ {0}
    /\ CsrfHeaders \subseteq BOOLEAN /\ CsrfHeaders # {}
    /\ SignedStamp \in {"iso", "unix"}
    /\ Tab # {} /\ NoNonce \notin Nonce

VARIABLES
    challenges,   \* auth:challenge:* keys
    sessions,     \* session:* keys: the current refresh token, or 0
    blacklist,    \* token:blacklist:* keys
    issued,       \* number of the last pair of tokens
    sidOf,        \* claim sid of an access token
    expired,      \* access tokens older than 15 minutes
    cookie,       \* the refresh_token cookie of the jar, or 0
    token,        \* tokenRef of a tab, or 0
    zk,           \* zklogin_session of a tab: none, valid, or past its maxEpoch
    calls,
    handedOut,    \* history: nonces ever stored,
    boughtWith,   \*   the nonce a session was created with,
    loggedOut,    \*   access tokens whose logout has finished,
    torn          \*   two refreshes overlapped, or an answer was lost

redis   == <<challenges, sessions, blacklist>>
tokens  == <<issued, sidOf, expired>>
client  == <<cookie, token, zk>>
history == <<handedOut, boughtWith, loggedOut, torn>>
vars    == <<redis, tokens, client, calls, history>>

Call == 1..MaxCalls
Sid == 1..MaxSessions
Number == 0..MaxIssued

LoginOps == {"wallet", "zk", "lateZk"}
Ops == {"query", "logout", "restore", "check"} \cup LoginOps
RefreshSteps == {"refresh", "renew", "store", "destroy", "answer"}
Steps == {"idle", "request", "session", "delete", "blacklist", "create", "reply"} \cup RefreshSteps

\* A call: where it is, the request it makes (Bearer, cookie, nonce), the options
\* of ApiClient.fetch, the response, and whether its page is gone.
CallRecord ==
    [at : Steps, op : Ops, tab : Tab, bearer : Number, rt : Number, nonce : Nonce \cup {NoNonce},
     sid : 0..MaxSessions, retry : BOOLEAN, attempts : 0..MaxRetries,
     out : {"ok", "401", "403"}, new : Number, gone : BOOLEAN]

Idle == [at |-> "idle", op |-> "query", tab |-> CHOOSE t \in Tab : TRUE, bearer |-> 0, rt |-> 0,
         nonce |-> NoNonce, sid |-> 0, retry |-> FALSE, attempts |-> 0, out |-> "ok",
         new |-> 0, gone |-> FALSE]

Active == {c \in Call : calls[c].at # "idle"}
Refreshing(c) == calls[c].at \in RefreshSteps

\* Pairs of tokens a call may still issue; a call starts only with room for them.
Need(op) == IF op \in LoginOps THEN MaxRetries + 1 ELSE 1
RoomFor(op) ==
    /\ issued + Need(op) + MapThenSumSet(LAMBDA c : Need(calls[c].op), Active) <= MaxIssued
    /\ op \in LoginOps => Len(boughtWith) + MaxRetries + 1 <= MaxSessions
    /\ op \in LoginOps => \A c \in Active : calls[c].op \notin LoginOps

\* The call goes on to step s, or ends its request with a response.
Go(c, s)            == calls' = [calls EXCEPT ![c].at = s]
Reply(c, out, new)  == calls' = [calls EXCEPT ![c].at = "reply", ![c].out = out, ![c].new = new]
Answer(c, out, new) == calls' = [calls EXCEPT ![c].at = "answer", ![c].out = out, ![c].new = new]
Done(c)             == calls' = [calls EXCEPT ![c] = Idle]

-----------------------------------------------------------------------------
(* Redis keys and tokens *)

StoreChallenge(n) ==
    /\ challenges' = challenges \cup {n}
    /\ handedOut' = handedOut \cup {n}

\* Mutant: the nonce is read and not deleted.
ConsumeChallenge_Reads(n) == challenges' = challenges

ConsumeChallenge(n) == challenges' = challenges \ {n}

\* SET of a session key: its creation, or the second half of updateSession.
SetSession(s, n) == sessions' = [sessions EXCEPT ![s] = n]

DelSession(s) == sessions' = [sessions EXCEPT ![s] = 0]

\* The session that holds the hash of a refresh token, 0 if none does.
GetSessionByRefreshHash(rt) ==
    IF \E s \in Sid : sessions[s] = rt THEN CHOOSE s \in Sid : sessions[s] = rt ELSE 0

\* The next pair of tokens, for session s.
SignAccessToken(s) ==
    /\ issued < MaxIssued
    /\ issued' = issued + 1
    /\ sidOf' = [sidOf EXCEPT ![issued + 1] = s]
    /\ UNCHANGED expired

VerifyAccessToken(n) == n # 0 /\ n \notin expired

-----------------------------------------------------------------------------
(* The client starts a call: signed in on the pages of (main), where AuthProvider   *)
(* holds the token, signed out on those of (auth).                                  *)

Begin(c, t, op, s, bearer, n) ==
    /\ calls[c].at = "idle" /\ \A d \in 1..(c - 1) : d \in Active
    /\ RoomFor(op)
    /\ calls' = [calls EXCEPT ![c] = [Idle EXCEPT !.at = s, !.op = op, !.tab = t,
                                                  !.bearer = bearer, !.nonce = n,
                                                  !.rt  = IF s = "refresh" THEN cookie ELSE 0,
                                                  !.sid = IF op = "logout" THEN sidOf[bearer] ELSE 0]]

\* A hook fetches data.
StartQuery(c, t) ==
    /\ token[t] # 0
    /\ Begin(c, t, "query", "request", token[t], NoNonce)
    /\ UNCHANGED <<redis, tokens, client, history>>

\* useLogout posts to /auth/logout.
StartLogout(c, t) ==
    /\ token[t] # 0
    /\ Begin(c, t, "logout", "request", token[t], NoNonce)
    /\ UNCHANGED <<redis, tokens, client, history>>

\* performWalletAuth: GET /auth/challenge, a signature over its nonce, POST /auth/verify.
StartWalletLogin(c, t, n) ==
    /\ n \notin handedOut
    /\ token[t] = 0
    /\ Begin(c, t, "wallet", "request", 0, n)
    /\ StoreChallenge(n)
    /\ UNCHANGED <<sessions, blacklist, tokens, client, boughtWith, loggedOut, torn>>

\* handleClick of ZkLoginButton and prepareZkLoginRedirect: an ephemeral key for this
\* epoch and the next two is kept, and the page leaves for the OAuth provider.
PrepareZkLogin(t) ==
    /\ token[t] = 0 /\ \A c \in Active : calls[c].tab # t
    /\ zk' = [zk EXCEPT ![t] = "valid"]
    /\ UNCHANGED <<redis, tokens, cookie, token, calls, history>>

\* completeZkLogin: without the stored key there is nothing to prove with.
CompleteZkLogin(t) == CASE zk[t] = "valid" -> {"zk"} [] zk[t] = "stale" -> {"lateZk"} [] OTHER -> {}

\* The callback page: POST /auth/verify-zklogin.
StartZkLogin(c, t) ==
    /\ token[t] = 0
    /\ \E op \in CompleteZkLogin(t) : Begin(c, t, op, "request", 0, NoNonce)
    /\ UNCHANGED <<redis, tokens, client, history>>

\* POST /auth/refresh without a Bearer token, when a page loads.
StartRefreshing(c, t, op) ==
    /\ token[t] = 0
    /\ Begin(c, t, op, "refresh", 0, NoNonce)
    /\ torn' = (torn \/ \E d \in Call : Refreshing(d))
    /\ UNCHANGED <<redis, tokens, client, handedOut, boughtWith, loggedOut>>

\* The mount of AuthProvider, and useSessionCheck of the sign-in pages.
StartRestore(c, t) == StartRefreshing(c, t, "restore")
StartSessionCheck(c, t) == StartRefreshing(c, t, "check")

\* A page load: the memory of the tab goes, its requests are no longer awaited, and
\* those that change nothing on the server are forgotten.
Reload(t) ==
    /\ token' = [token EXCEPT ![t] = 0]
    /\ calls' = [c \in Call |->
                   IF c \notin Active \/ calls[c].tab # t             THEN calls[c]
                   ELSE IF calls[c].op = "query" /\ ~Refreshing(c)   THEN Idle
                   ELSE [calls[c] EXCEPT !.gone = TRUE]]
    /\ torn' = (torn \/ \E c \in Call : Refreshing(c) /\ calls[c].tab = t)
    /\ token[t] # 0 \/ \E c \in Active : calls[c].tab = t /\ ~calls[c].gone
    /\ UNCHANGED <<redis, tokens, cookie, zk, handedOut, boughtWith, loggedOut>>

-----------------------------------------------------------------------------
(* The guards and handlers of the API *)

\* AuthGuard, first part: the signature and expiry of the token, and the blacklist.
TokenGuard(c) ==
    /\ calls[c].at = "request" /\ calls[c].op \in {"query", "logout"}
    /\ IF VerifyAccessToken(calls[c].bearer) /\ calls[c].bearer \notin blacklist
       THEN Go(c, "session")
       ELSE Reply(c, "401", 0)
    /\ UNCHANGED <<redis, tokens, client, history>>

\* CsrfGuard: a query passes, a mutation needs a valid x-csrf-token.
CsrfGuard(c) ==
    IF calls[c].op = "query" THEN Reply(c, "ok", 0)
    ELSE \E csrf \in CsrfHeaders : IF csrf THEN Go(c, "delete") ELSE Reply(c, "403", 0)

\* AuthGuard, second part: the session; then CsrfGuard, and the handler of a query.
SessionGuard(c) ==
    /\ calls[c].at = "session"
    /\ IF sessions[sidOf[calls[c].bearer]] = 0 THEN Reply(c, "401", 0) ELSE CsrfGuard(c)
    /\ UNCHANGED <<redis, tokens, client, history>>

\* logout: the session is deleted, then the token is blacklisted for the rest of its life.
DeleteSession(c) ==
    /\ calls[c].at = "delete"
    /\ DelSession(sidOf[calls[c].bearer])
    /\ Go(c, "blacklist")
    /\ UNCHANGED <<challenges, blacklist, tokens, client, history>>

\* Mutant: logout relies on the deletion of the session alone.
BlacklistToken_Missing(c) ==
    /\ calls[c].at = "blacklist"
    /\ loggedOut' = loggedOut \cup {calls[c].bearer}
    /\ Reply(c, "ok", 0)
    /\ UNCHANGED <<redis, tokens, client, handedOut, boughtWith, torn>>

BlacklistToken(c) ==
    /\ calls[c].at = "blacklist"
    /\ blacklist' = blacklist \cup ({calls[c].bearer} \ expired)
    /\ loggedOut' = loggedOut \cup {calls[c].bearer}
    /\ Reply(c, "ok", 0)
    /\ UNCHANGED <<challenges, sessions, tokens, client, handedOut, boughtWith, torn>>

\* verifyAndLogin up to the signature: the server checks it against a message with
\* the ISO timestamp it stored.
Verify(c) ==
    /\ calls[c].at = "request" /\ calls[c].op = "wallet"
    /\ ConsumeChallenge(calls[c].nonce)
    /\ IF calls[c].nonce \in challenges /\ SignedStamp = "iso"
       THEN Go(c, "create")
       ELSE Reply(c, "401", 0)
    /\ UNCHANGED <<sessions, blacklist, tokens, client, history>>

\* verifyZkLogin up to the proof: a maxEpoch in the past is refused.
VerifyZkLogin(c) ==
    /\ calls[c].at = "request" /\ calls[c].op \in {"zk", "lateZk"}
    /\ IF calls[c].op = "zk" THEN Go(c, "create") ELSE Reply(c, "401", 0)
    /\ UNCHANGED <<redis, tokens, client, history>>

\* createSession and signAccessToken.
CreateSession(c) ==
    LET s == Len(boughtWith) + 1
    IN /\ calls[c].at = "create"
       /\ boughtWith' = Append(boughtWith, calls[c].nonce)
       /\ SignAccessToken(s)
       /\ SetSession(s, issued + 1)
       /\ Reply(c, "ok", issued + 1)
       /\ UNCHANGED <<challenges, blacklist, client, handedOut, loggedOut, torn>>

\* The controller: no cookie, no refresh.
RefreshWithoutCookie(c) ==
    /\ calls[c].at = "refresh" /\ calls[c].rt = 0
    /\ Answer(c, "401", 0)
    /\ UNCHANGED <<redis, tokens, client, history>>

\* refresh, for the sid of the Bearer token, expired or not: the session's hash must be
\* that of the cookie.
RefreshBySid(c) ==
    LET s == sidOf[calls[c].bearer]
    IN /\ calls[c].at = "refresh" /\ calls[c].rt # 0 /\ calls[c].bearer # 0
       /\ IF sessions[s] = 0 THEN Answer(c, "401", 0)
          ELSE calls' = [calls EXCEPT ![c].sid = s,
                                      ![c].at = IF sessions[s] = calls[c].rt THEN "renew" ELSE "destroy"]
       /\ UNCHANGED <<redis, tokens, client, history>>

\* refreshByCookie: the session is found by its hash.
RefreshByCookie(c) ==
    LET s == GetSessionByRefreshHash(calls[c].rt)
    IN /\ calls[c].at = "refresh" /\ calls[c].rt # 0 /\ calls[c].bearer = 0
       /\ IF s = 0 THEN Answer(c, "401", 0)
          ELSE calls' = [calls EXCEPT ![c].sid = s, ![c].at = "renew"]
       /\ UNCHANGED <<redis, tokens, client, history>>

\* The reaction to a reused refresh token.
DestroySession(c) ==
    /\ calls[c].at = "destroy"
    /\ DelSession(calls[c].sid)
    /\ Answer(c, "401", 0)
    /\ UNCHANGED <<challenges, blacklist, tokens, client, history>>

\* generateRefreshToken and updateSession's GET and TTL; with the key gone nothing is
\* written, and the new tokens are handed out all the same.
Renew(c) ==
    /\ calls[c].at = "renew"
    /\ SignAccessToken(calls[c].sid)
    /\ IF sessions[calls[c].sid] = 0
       THEN Answer(c, "ok", issued + 1)
       ELSE calls' = [calls EXCEPT ![c].at = "store", ![c].new = issued + 1]
    /\ UNCHANGED <<redis, client, history>>

\* updateSession's SET.
StoreSession(c) ==
    /\ calls[c].at = "store"
    /\ SetSession(calls[c].sid, calls[c].new)
    /\ Answer(c, "ok", calls[c].new)
    /\ UNCHANGED <<challenges, blacklist, tokens, client, history>>

-----------------------------------------------------------------------------
(* The client gets its response *)

\* The promise of the call settles; onSettled of useLogout runs whatever the outcome.
Settle(c) ==
    /\ Done(c)
    /\ zk' = IF calls[c].op = "logout" THEN [zk EXCEPT ![calls[c].tab] = "none"] ELSE zk

\* Sign-ins and refreshes answer with the cookie of their refresh token.
SetCookie(c) == cookie' = calls[c].new

\* logout of AuthProvider: onUnauthorised, then the error reaches the caller.
SignedOut(c) ==
    /\ Settle(c)
    /\ token' = [token EXCEPT ![calls[c].tab] = 0]

QueryOk(c) ==
    /\ calls[c].at = "reply" /\ ~calls[c].gone /\ calls[c].out = "ok" /\ calls[c].op = "query"
    /\ Done(c)
    /\ UNCHANGED <<redis, tokens, client, history>>

\* The response of logout clears the cookie.
LogoutOk(c) ==
    /\ calls[c].at = "reply" /\ ~calls[c].gone /\ calls[c].out = "ok" /\ calls[c].op = "logout"
    /\ SignedOut(c)
    /\ cookie' = 0
    /\ UNCHANGED <<redis, tokens, history>>

\* onSuccess of useWalletLogin and useZkLogin.
LoginOk(c) ==
    /\ calls[c].at = "reply" /\ ~calls[c].gone /\ calls[c].out = "ok" /\ calls[c].op \in LoginOps
    /\ Done(c)
    /\ SetCookie(c)
    /\ token' = [token EXCEPT ![calls[c].tab] = calls[c].new]
    /\ zk' = IF calls[c].op = "wallet" THEN zk ELSE [zk EXCEPT ![calls[c].tab] = "none"]
    /\ UNCHANGED <<redis, tokens, history>>

\* Any other error is thrown; for useLogout that is the end as well.
ReplyRefused(c) ==
    /\ calls[c].at = "reply" /\ ~calls[c].gone /\ calls[c].out = "403"
    /\ SignedOut(c)
    /\ UNCHANGED <<redis, tokens, cookie, history>>

\* attemptRefresh, with the token the tab has by now.
AttemptRefresh(c) ==
    /\ calls' = [calls EXCEPT ![c].at = "refresh", ![c].rt = cookie,
                              ![c].bearer = token[calls[c].tab]]
    /\ torn' = (torn \/ \E d \in Call : Refreshing(d))
    /\ UNCHANGED <<token, zk>>

\* Mutant: _isRetry is not passed on.
Reply401_Again(c) ==
    /\ calls[c].at = "reply" /\ ~calls[c].gone /\ calls[c].out = "401"
    /\ AttemptRefresh(c)
    /\ UNCHANGED <<redis, tokens, cookie, handedOut, boughtWith, loggedOut>>

\* 401: one attempt to refresh, unless this is the retry.
Reply401(c) ==
    /\ calls[c].at = "reply" /\ ~calls[c].gone /\ calls[c].out = "401"
    /\ IF calls[c].retry THEN SignedOut(c) /\ UNCHANGED torn ELSE AttemptRefresh(c)
    /\ UNCHANGED <<redis, tokens, cookie, handedOut, boughtWith, loggedOut>>

\* The session restored when AuthProvider mounts, or found by useSessionCheck, which
\* drops the token it gets.
RestoreOk(c) ==
    /\ calls[c].at = "answer" /\ ~calls[c].gone /\ calls[c].out = "ok"
    /\ calls[c].op \in {"restore", "check"}
    /\ SetCookie(c)
    /\ token' = IF calls[c].op = "check" THEN token ELSE [token EXCEPT ![calls[c].tab] = calls[c].new]
    /\ Done(c)
    /\ UNCHANGED <<redis, tokens, zk, history>>

\* Mutant: the controller does not set the cookie of a refresh.
RefreshOk_NoCookie(c) ==
    /\ calls[c].at = "answer" /\ ~calls[c].gone /\ calls[c].out = "ok"
    /\ calls[c].op \notin {"restore", "check"}
    /\ token' = [token EXCEPT ![calls[c].tab] = calls[c].new]
    /\ calls' = [calls EXCEPT ![c].at = "request", ![c].bearer = calls[c].new, ![c].retry = TRUE,
                              ![c].attempts = 0, ![c].new = 0, ![c].rt = 0]
    /\ UNCHANGED <<redis, tokens, cookie, zk, history>>

\* onTokenRefreshed, and the original request once more.
RefreshOk(c) ==
    /\ calls[c].at = "answer" /\ ~calls[c].gone /\ calls[c].out = "ok"
    /\ calls[c].op \notin {"restore", "check"}
    /\ SetCookie(c)
    /\ token' = [token EXCEPT ![calls[c].tab] = calls[c].new]
    /\ calls' = [calls EXCEPT ![c].at = "request", ![c].bearer = calls[c].new, ![c].retry = TRUE,
                              ![c].attempts = 0, ![c].new = 0, ![c].rt = 0]
    /\ UNCHANGED <<redis, tokens, zk, history>>

\* attemptRefresh returns false.
RefreshFailed(c) ==
    IF calls[c].op \in {"restore", "check"}
    THEN Done(c) /\ UNCHANGED <<token, zk>>
    ELSE SignedOut(c)

RefreshRefused(c) ==
    /\ calls[c].at = "answer" /\ ~calls[c].gone /\ calls[c].out # "ok"
    /\ RefreshFailed(c)
    /\ UNCHANGED <<redis, tokens, cookie, history>>

\* The response of a request whose page is gone: its cookie may still reach the jar.
Abandoned(c) ==
    /\ calls[c].at \in {"reply", "answer"} /\ calls[c].gone
    /\ \/ UNCHANGED cookie
       \/ calls[c].out = "ok" /\ SetCookie(c)
    /\ Done(c)
    /\ UNCHANGED <<redis, tokens, token, zk, history>>

\* Mutant: the attempts are compared before they are counted.
LoseRequest_OneMore(c) ==
    /\ ~calls[c].gone /\ calls[c].at \in {"request", "reply"} /\ calls[c].attempts <= MaxRetries
    /\ calls' = [calls EXCEPT ![c].at = "request", ![c].attempts = @ + 1,
                              ![c].out = "ok", ![c].new = 0]
    /\ UNCHANGED <<redis, tokens, client, history>>

\* A network error: the request or its response is lost.  fetch waits and sends the
\* same request again, at most MaxRetries times.
LoseRequest(c) ==
    /\ ~calls[c].gone /\ calls[c].at \in {"request", "reply"}
    /\ IF calls[c].attempts < MaxRetries
       THEN /\ calls' = [calls EXCEPT ![c].at = "request", ![c].attempts = @ + 1,
                                      ![c].out = "ok", ![c].new = 0]
            /\ UNCHANGED <<token, zk>>
       ELSE IF calls[c].op = "logout" THEN SignedOut(c) ELSE Settle(c) /\ UNCHANGED token
    /\ UNCHANGED <<redis, tokens, cookie, history>>

\* attemptRefresh gives up at once.
LoseRefresh(c) ==
    /\ ~calls[c].gone /\ calls[c].at \in {"refresh", "answer"}
    /\ RefreshFailed(c)
    /\ torn' = (torn \/ calls[c].at = "answer")
    /\ UNCHANGED <<redis, tokens, cookie, handedOut, boughtWith, loggedOut>>

-----------------------------------------------------------------------------
(* Time.  Seven days and an epoch are long: they end between two calls. *)

\* Access tokens all live 15 minutes: they expire in the order they were issued.
ExpireToken(n) ==
    /\ n \in 1..issued /\ expired = 1..(n - 1)
    /\ expired' = expired \cup {n}
    /\ blacklist' = blacklist \ {n}
    /\ UNCHANGED <<challenges, sessions, issued, sidOf, client, calls, history>>

ExpireSession(s) ==
    /\ Active = {} /\ sessions[s] # 0
    /\ DelSession(s)
    /\ UNCHANGED <<challenges, blacklist, tokens, client, calls, history>>

ExpireChallenge(n) ==
    /\ n \in challenges
    /\ challenges' = challenges \ {n}
    /\ UNCHANGED <<sessions, blacklist, tokens, client, calls, history>>

EpochPasses(t) ==
    /\ Active = {} /\ zk[t] = "valid"
    /\ zk' = [zk EXCEPT ![t] = "stale"]
    /\ UNCHANGED <<redis, tokens, cookie, token, calls, history>>

-----------------------------------------------------------------------------
Init ==
    /\ challenges = {}
    /\ sessions = [s \in Sid |-> 0]
    /\ blacklist = {}
    /\ issued = 0
    /\ sidOf = [n \in 1..MaxIssued |-> 0]
    /\ expired = {}
    /\ cookie = 0
    /\ token = [t \in Tab |-> 0]
    /\ zk = [t \in Tab |-> "none"]
    /\ calls = [c \in Call |-> Idle]
    /\ handedOut = {}
    /\ boughtWith = <<>>
    /\ loggedOut = {}
    /\ torn = FALSE

Start(c, t) ==
    \/ StartQuery(c, t) \/ StartLogout(c, t)
    \/ \E n \in Nonce : StartWalletLogin(c, t, n)
    \/ StartZkLogin(c, t)
    \/ StartRestore(c, t) \/ StartSessionCheck(c, t)

Handle(c) ==
    \/ TokenGuard(c) \/ SessionGuard(c) \/ DeleteSession(c) \/ BlacklistToken(c)
    \/ Verify(c) \/ VerifyZkLogin(c) \/ CreateSession(c)
    \/ RefreshWithoutCookie(c) \/ RefreshBySid(c) \/ RefreshByCookie(c)
    \/ DestroySession(c) \/ Renew(c) \/ StoreSession(c)

Receive(c) ==
    \/ QueryOk(c) \/ LogoutOk(c) \/ LoginOk(c) \/ ReplyRefused(c) \/ Reply401(c)
    \/ RestoreOk(c) \/ RefreshOk(c) \/ RefreshRefused(c) \/ Abandoned(c)

Lose(c) == LoseRequest(c) \/ LoseRefresh(c)

Time ==
    \/ \E n \in 1..MaxIssued : ExpireToken(n)
    \/ \E s \in Sid : ExpireSession(s)
    \/ \E n \in Nonce : ExpireChallenge(n)
    \/ \E t \in Tab : EpochPasses(t)

Next ==
    \/ \E c \in Call, t \in Tab : Start(c, t)
    \/ \E t \in Tab : PrepareZkLogin(t) \/ Reload(t)
    \/ \E c \in Call : Handle(c) \/ Receive(c) \/ Lose(c)
    \/ Time

\* A handler runs to its end, and a response is processed when it arrives.
Fairness == \A c \in Call : WF_vars(Handle(c) \/ Receive(c))

Spec == Init /\ [][Next]_vars
FairSpec == Spec /\ Fairness

-----------------------------------------------------------------------------
(* Properties *)

\* The variables hold what Redis, the jar and the tabs can hold.
SessionsTypeOK ==
    /\ challenges \subseteq Nonce
    /\ sessions \in [Sid -> Number]
    /\ blacklist \subseteq 1..MaxIssued
    /\ issued \in Number
    /\ sidOf \in [1..MaxIssued -> 0..MaxSessions]
    /\ expired \subseteq 1..MaxIssued
    /\ cookie \in Number
    /\ token \in [Tab -> Number]
    /\ zk \in [Tab -> {"none", "valid", "stale"}]
    /\ calls \in [Call -> CallRecord]
    /\ handedOut \subseteq Nonce
    /\ boughtWith \in Seq(Nonce \cup {NoNonce})
    /\ loggedOut \subseteq 1..MaxIssued
    /\ torn \in BOOLEAN

\* A nonce buys one session: however often a client repeats POST /auth/verify after
\* a lost answer, the challenge it signed is spent by the first that reaches the API.
NonceBuysOneSession ==
    \A i, j \in DOMAIN boughtWith :
        boughtWith[i] = boughtWith[j] /\ i # j => boughtWith[i] = NoNonce

\* An access token whose logout has finished is refused for good, although a refresh
\* that overlaps the logout may write the session back after it was deleted.
LoggedOutIsDead ==
    \A n \in loggedOut : n \in expired \cup blacklist \/ sessions[sidOf[n]] = 0

\* With no refresh under way, none that overlapped another and no refresh answer
\* lost, the jar holds the current refresh token of its session: the next refresh
\* is not mistaken for a reuse.
JarFollowsSession ==
    cookie # 0 /\ ~torn /\ (\A c \in Call : ~Refreshing(c))
        => sessions[sidOf[cookie]] \in {0, cookie}

\* Every call settles: retries after network errors and after a 401 come to an end.
EveryCallSettles == \A c \in Call : calls[c].at # "idle" ~> calls[c].at = "idle"
=============================================================================

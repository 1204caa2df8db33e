---------------------------- MODULE Replay_proofs ----------------------------
(***************************************************************************)
(* That the tables follow the chain: for chains of any length, of either   *)
(* emission, batches of any size, and a failure or crash between any two   *)
(* statements, after which a batch is replayed from its start over what    *)
(* the earlier pass left in the tables.  With one failure at most, the     *)
(* rows are what one earlier pass, up to some event h, and the present one *)
(* have made of them; a column shows the last of its writers in the        *)
(* present pass or, if there was none yet, the last one of the earlier.    *)
(* When the present pass is through, that is the last one of the chain.    *)
(***************************************************************************)
EXTENDS Indexer_proofs

-----------------------------------------------------------------------------
(* Replays *)

\* A column that the events W write, when the first h events were applied and those behind
\* c up to q again: it stands where event i left it, or, for 0, as its row was inserted.
LastWrite(W, h, c, q, i) ==
    \/ /\ i \in W /\ c < i /\ i <= q
       /\ \A j \in W : j <= q => j <= i
    \/ /\ i \in W \union {0} /\ i <= h
       /\ \A j \in W : j <= h => j <= i
       /\ \A j \in W : ~(c < j /\ j <= q)

Applied(h, q, j) == j <= h \/ j <= q

\* The events of chain ch of the given kinds, and those of a user, a document, a review.
Writers(ch, kinds) == {i \in 1 .. Len(ch) : ch[i].kind \in kinds}

UserWriters(ch, kinds, u) == {i \in Writers(ch, kinds) : ch[i].user = u}

DocWriters(ch, kinds, d) == {i \in Writers(ch, kinds) : ch[i].doc = d}

ReviewWriters(ch, d, u) ==
    {i \in Writers(ch, {"DocumentReviewed"}) : ch[i].doc = d /\ ch[i].user = u}

\* The rows as those events leave them.
PoolAt(p, ch, h, c, q) ==
    \E i : /\ LastWrite(Writers(ch, {"PoolStateChanged"}), h, c, q, i)
           /\ (IF p = NoRow THEN "DRAFT" ELSE p) = IF i = 0 THEN "DRAFT" ELSE ch[i].to

DecisionsAt(D, ch, h, q) ==
    \A p : p \in D <=> \E j \in Writers(ch, {"ICDecisionCreated"}) :
                           Applied(h, q, j) /\ p = <<ch[j].index, ch[j].type>>

RoleWriters(ch, u)   == UserWriters(ch, {"MemberAdded", "MemberRoleUpdated"}, u)
ActiveWriters(ch, u) == UserWriters(ch, {"MemberAdded", "MemberRemoved"}, u)

MemberAt(m, ch, u, h, c, q) ==
    IF m = NoRow THEN \A j \in UserWriters(ch, MemberKinds, u) : ~Applied(h, q, j)
    ELSE /\ \E i \in RoleWriters(ch, u) :
               LastWrite(RoleWriters(ch, u), h, c, q, i) /\ m.role = ch[i].role
         /\ \E i \in ActiveWriters(ch, u) :
               /\ LastWrite(ActiveWriters(ch, u), h, c, q, i)
               /\ m.active = (ch[i].kind = "MemberAdded")

VersionWriters(ch, d) == DocWriters(ch, {"DocumentVersionAdded"}, d)

DocumentAt(r, ch, d, h, c, q) ==
    IF r = NoRow THEN \A j \in DocWriters(ch, VersionKinds, d) : ~Applied(h, q, j)
    ELSE /\ \E j \in DocWriters(ch, VersionKinds, d) : Applied(h, q, j)
         /\ \E i : /\ LastWrite(VersionWriters(ch, d), h, c, q, i)
                   /\ r.current = IF i = 0 THEN 1 ELSE ch[i].version
         /\ r.count >= 1
         /\ \A j \in VersionWriters(ch, d) : Applied(h, q, j) => r.count >= ch[j].version

VersionsAt(S, ch, h, q) ==
    /\ \A j \in Writers(ch, {"DocumentVersionAdded"}) :
           Applied(h, q, j) => <<ch[j].doc, ch[j].version>> \in S
    /\ \A p \in S : \E j \in Writers(ch, VersionKinds) :
           /\ Applied(h, q, j)
           /\ p = <<ch[j].doc, IF ch[j].kind = "DocumentCreated" THEN 1 ELSE ch[j].version>>

ReviewAt(r, ch, d, u, h, c, q) ==
    \E i : /\ LastWrite(ReviewWriters(ch, d, u), h, c, q, i)
           /\ r = IF i = 0 THEN NoRow ELSE ch[i].status

\* The last event of this pass whose first statement ran, and the last one whose second did.
Written  == IF step = "poll" THEN cursor ELSE IF step = "write" THEN pos - 1 ELSE pos
Informed == IF step = "poll" THEN cursor
            ELSE IF step \in {"write", "info"} THEN pos - 1 ELSE pos

\* How far an earlier pass can have come: not beyond the end of the batch that repeats it.
Reach(h) ==
    /\ h \in cursor .. Len(chain) /\ h <= cursor + BatchLimit
    /\ step # "poll" => h <= batchEnd
    /\ faults = 0 => h = cursor

RowsFollow(h) ==
    /\ Reach(h)
    /\ PoolAt(db.pool, chain, h, cursor, Written)
    /\ DecisionsAt(db.decisions, chain, h, Written)
    /\ emission = "assumed" =>
           /\ \A u \in User : MemberAt(db.members[u], chain, u, h, cursor, Written)
           /\ VersionsAt(db.versions, chain, h, Written)
           /\ \A d \in Doc, u \in User :
                  ReviewAt(db.reviews[d][u], chain, d, u, h, cursor, Written)

DocumentsFollow(h) ==
    /\ Reach(h)
    /\ emission = "assumed" =>
           \A d \in Doc : DocumentAt(db.documents[d], chain, d, h, cursor, Informed)

\* As long as nothing failed, the saved cursor is ahead of the one in memory only between
\* the two statements that move them.
Counted ==
    /\ faults \in Nat
    /\ faults = 0 /\ step # "advance" => savedCursor = cursor

\* With one failure or crash at most, there is one earlier pass at most.
FollowInv ==
    /\ Counted
    /\ faults <= 1 => (\E h \in Nat : RowsFollow(h)) /\ (\E h \in Nat : DocumentsFollow(h))

\* Without the placeholder rows the first event is refused for ever.
PlaceholderInv ==
    ~SentinelRows => /\ db.pool = NoRow /\ cursor = 0 /\ savedCursor = 0
                     /\ step \in {"poll", "write"} /\ pos <= 1

\* The versions of a document are numbered from 2 on: S are the places of its events.
Dense(ch, S) ==
    /\ \A j \in S : ch[j].kind = "DocumentVersionAdded" => ch[j].version \in 2 .. Cardinality(S)
    /\ \A v \in 2 .. Cardinality(S) :
           \E j \in S : ch[j].kind = "DocumentVersionAdded" /\ ch[j].version = v
    /\ \A i \in S : /\ ch[i].kind = "DocumentVersionAdded"
                    /\ \A j \in S : ch[j].kind = "DocumentVersionAdded" => j <= i
                    => ch[i].version = Cardinality(S)

DocPlaces(ch, n, d) == {i \in 1 .. n : ch[i].kind \in VersionKinds /\ ch[i].doc = d}

DenseInv == \A d \in Doc, n \in 0 .. Len(chain) : Dense(chain, DocPlaces(chain, n, d))

-----------------------------------------------------------------------------
(* The last writer of a column *)

Carries(W, h, c, q, h2, c2, q2) ==
    /\ \A i : LastWrite(W, h, c, q, i) => LastWrite(W, h2, c2, q2, i)
    /\ \A j \in W : Applied(h, q, j) <=> Applied(h2, q2, j)

\* An event that is applied is the last one for what it writes.
LEMMA Overwrites ==
  ASSUME NEW W \in SUBSET Nat, NEW h, NEW c \in Nat, NEW q \in Nat, q \in W, c < q
  PROVE  LastWrite(W, h, c, q, q)
  BY DEF LastWrite

\* For what it does not write nothing changes.
LEMMA PassesOver ==
  ASSUME NEW W \in SUBSET Nat, NEW h \in Nat, NEW c \in Nat, NEW q \in Nat, q + 1 \notin W
  PROVE  Carries(W, h, c, q, h, c, q + 1)
  <1>1. \A j \in W : j <= q + 1 <=> j <= q
    OBVIOUS
  <1>2. \A i \in W : i <= q => i <= q + 1
    OBVIOUS
  <1>3. QED
    BY <1>1, <1>2 DEF Carries, LastWrite, Applied

\* A pass that has come as far as the one before can be taken for the only one.
LEMMA Settles ==
  ASSUME NEW W \in SUBSET Nat, NEW h \in Nat, NEW c \in Nat, NEW q \in Nat, NEW c2 \in Nat,
         c <= h, h <= q, c2 <= q
  PROVE  Carries(W, h, c, q, q, c2, c2)
  <1>1. ASSUME NEW i, LastWrite(W, h, c, q, i) PROVE LastWrite(W, q, c2, c2, i)
    <2>1. \A j \in W : ~(c2 < j /\ j <= c2)
      OBVIOUS
    <2>2. CASE /\ i \in W /\ c < i /\ i <= q
               /\ \A j \in W : j <= q => j <= i
      BY <2>1, <2>2 DEF LastWrite
    <2>3. CASE /\ i \in W \union {0} /\ i <= h
               /\ \A j \in W : j <= h => j <= i
               /\ \A j \in W : ~(c < j /\ j <= q)
      <3>1. \A j \in W : j <= q => j <= h
        BY <2>3
      <3>2. i <= q /\ \A j \in W : j <= q => j <= i
        BY <2>3, <3>1
      <3>3. QED
        BY <2>1, <2>3, <3>2 DEF LastWrite
    <2>4. QED
      BY <1>1, <2>2, <2>3 DEF LastWrite
  <1>2. \A j \in W : Applied(h, q, j) <=> Applied(q, c2, j)
    BY DEF Applied
  <1>3. QED
    BY <1>1, <1>2 DEF Carries

\* What it is then.
LEMMA LatestWrite ==
  ASSUME NEW W \in SUBSET Nat, NEW h \in Nat, NEW c \in Nat, NEW q \in Nat, NEW i,
         c <= h, h <= q, LastWrite(W, h, c, q, i)
  PROVE  i \in W \union {0} /\ i <= q /\ \A j \in W : j <= q => j <= i
  <1>1. LastWrite(W, q, q, q, i)
    BY Settles DEF Carries
  <1>2. QED
    BY <1>1 DEF LastWrite

\* Later events have no part in it.
LEMMA SameWrite ==
  ASSUME NEW W \in SUBSET Nat, NEW V \in SUBSET Nat, NEW n \in Nat, NEW h \in 0 .. n, NEW c,
         NEW q \in 0 .. n, NEW i, \A j \in 0 .. n : j \in W <=> j \in V, LastWrite(W, h, c, q, i)
  PROVE  LastWrite(V, h, c, q, i)
  <1>1. \A j \in V : j <= q \/ j <= h => j \in W
    OBVIOUS
  <1>2. \A j \in W : j <= q \/ j <= h => j \in V
    OBVIOUS
  <1>3. QED
    BY <1>1, <1>2 DEF LastWrite

\* The greatest of a set of places.
LEMMA GreatestIsLast ==
  ASSUME NEW S \in SUBSET Nat, NEW i \in S, \A j \in S : j <= i
  PROVE  Last(S) = i
  <1>1. \A x \in S : (\A y \in S : x >= y) => x = i
    OBVIOUS
  <1>2. \A y \in S : i >= y
    OBVIOUS
  <1>3. QED
    BY <1>1, <1>2 DEF Last, Max

-----------------------------------------------------------------------------
(* The moves of the loop, and what they carry over *)

Loop == Work \/ Fail \/ Crash

StayInBatch ==
    cursor' = cursor /\ batchEnd' = batchEnd /\ savedCursor' = savedCursor /\ faults' = faults

GoesOn ==
    /\ step \in {"write", "version", "info"} /\ step' \in {"version", "info", "audit"}
    /\ step # "write" => step' = "audit"
    /\ pos' = pos /\ StayInBatch

GoesToNext ==
    /\ step \in {"write", "audit"}
    /\ \/ pos = batchEnd /\ step' = "save" /\ pos' = pos
       \/ pos # batchEnd /\ step' = "write" /\ pos' = pos + 1
    /\ StayInBatch

\* Only the first event is ever refused.
TriesAgain ==
    /\ step = "write" /\ pos = 1 /\ cursor = 0 /\ step' = "poll" /\ pos' = 0 /\ batchEnd' = 0
    /\ cursor' = cursor /\ savedCursor' = savedCursor /\ faults' = faults

BreaksOff ==
    /\ faults' = faults + 1 /\ step' = "poll" /\ pos' = 0 /\ batchEnd' = 0
    /\ cursor' \in {cursor, savedCursor} /\ savedCursor' = savedCursor

\* A step of the loop polls, saves or moves the cursor, stays at its event, goes on to the
\* next one, starts again at a refused first event, or breaks off with one fault more.
LEMMA LoopMoves ==
  ASSUME IndexerInv, PlaceholderInv, Loop
  PROVE  Poll \/ SaveCursor \/ AdvanceCursor \/ GoesOn \/ GoesToNext \/ TriesAgain \/ BreaksOff
  <1> USE DEF StayInBatch, controlVars
  <1>1. CASE RefusedInsert
    <2>1. ~SentinelRows /\ step = "write"
      BY <1>1 DEF RefusedInsert, Refused
    <2>2. pos = 1 /\ cursor = 0
      BY <2>1 DEF PlaceholderInv, IndexerInv, LoopInv
    <2>3. QED
      BY <1>1, <2>1, <2>2 DEF RefusedInsert, GiveUpBatch, TriesAgain
  <1>2. CASE Fail \/ Crash
    BY <1>2 DEF Fail, Crash, GiveUpBatch, BreaksOff
  <1>3. CASE Skip \/ HandleAuditEvent \/ InsertAudit
    <2>1. step \in {"write", "audit"} /\ NextEvent
      BY <1>3 DEF Skip, HandleAuditEvent, InsertAudit, Handling
    <2>2. QED
      BY <2>1 DEF NextEvent, GoesToNext
  <1>4. CASE HandleDocumentCreated
    BY <1>4 DEF HandleDocumentCreated, Handling, Continue, GoesOn
  <1>5. CASE HandleDocumentVersionAdded
    BY <1>5 DEF HandleDocumentVersionAdded, Handling, Continue, GoesOn
  <1>6. CASE InsertFirstVersion \/ UpdateVersionInfo
    BY <1>6 DEF InsertFirstVersion, UpdateVersionInfo, Continue, GoesOn
  <1>7. CASE \/ HandlePoolCreated \/ HandlePoolStateChanged \/ HandleDataRoomCreated
             \/ HandleMemberAdded \/ HandleMemberRemoved \/ HandleMemberRoleUpdated
             \/ HandleDocumentReviewed \/ HandleICDecisionCreated
    <2>1. step = "write" /\ Continue("audit")
      BY <1>7 DEF HandlePoolCreated, HandlePoolStateChanged, HandleDataRoomCreated,
                  HandleMemberAdded, HandleMemberRemoved, HandleMemberRoleUpdated,
                  HandleDocumentReviewed, HandleICDecisionCreated, Handling
    <2>2. QED
      BY <2>1 DEF Continue, GoesOn
  <1>8. QED
    BY <1>1, <1>2, <1>3, <1>4, <1>5, <1>6, <1>7 DEF Loop, Work

\* The first statement of an event's handler runs, or its event is skipped.
Writes  == step = "write" /\ step' # "poll"
\* The statement runs that writes a document's version, or there is none.
Informs == step \in {"write", "info"} /\ step' \notin {"poll", "info"}

\* A step carries the columns over, unless it writes them: q is how far they are written
\* before the step, and q2 after it.
LEMMA Moves ==
  ASSUME IndexerInv, PlaceholderInv, Counted, UNCHANGED chainVars, Loop, faults' <= 1,
         NEW h \in Nat, Reach(h), NEW q, NEW q2,
         IF step = "poll" THEN q = cursor ELSE q \in {pos - 1, pos},
         step \in {"save", "advance"} => q = pos, step = "write" => q = pos - 1,
         step' = "poll" => q2 = cursor',
         step' # "poll" => q2 = q \/ (step # "poll" /\ q = pos - 1 /\ q2 = pos)
  PROVE  \E h2 \in Nat :
            /\ Reach(h2)'
            /\ \A W \in SUBSET Nat : (step' # "poll" /\ q2 # q => pos \notin W)
                                        => Carries(W, h, cursor, q, h2, cursor', q2)
            /\ step' # "poll" /\ q2 # q => h2 = h /\ cursor' = cursor
  <1> DEFINE Good(h2) ==
            /\ Reach(h2)'
            /\ \A W \in SUBSET Nat : (step' # "poll" /\ q2 # q => pos \notin W)
                                        => Carries(W, h, cursor, q, h2, cursor', q2)
            /\ step' # "poll" /\ q2 # q => h2 = h /\ cursor' = cursor
  <1>1. /\ chain' = chain /\ Len(chain) \in Nat /\ cursor \in Nat /\ savedCursor \in Nat
        /\ savedCursor <= Len(chain) /\ cursor <= savedCursor
        /\ BatchLimit \in Nat
        /\ pos \in Nat /\ batchEnd \in Nat
        /\ step # "poll" => /\ cursor < pos /\ pos <= batchEnd /\ batchEnd <= Len(chain)
                            /\ batchEnd <= cursor + BatchLimit
        /\ step \in {"save", "advance"} => pos = batchEnd
        /\ step = "advance" => savedCursor = batchEnd
    BY LenProperties, IndexerAssumption DEF chainVars, IndexerInv, ChainInv, LoopInv
  <1>2. /\ cursor <= h /\ h <= Len(chain) /\ h <= cursor + BatchLimit
        /\ step # "poll" => h <= batchEnd
        /\ faults = 0 => h = cursor
    BY <1>1 DEF Reach
  <1>3. /\ q \in Nat /\ cursor <= q /\ q <= Len(chain) /\ q <= cursor + BatchLimit
        /\ step # "poll" => q <= batchEnd
    BY <1>1
  <1>4. \A W \in SUBSET Nat : Carries(W, h, cursor, q, h, cursor, q)
    BY DEF Carries
  <1>5. CASE /\ step' # "poll" /\ cursor' = cursor /\ faults' = faults
             /\ step # "poll" => batchEnd' = batchEnd
             /\ step = "poll" => batchEnd' \in {cursor + BatchLimit, Len(chain)}
    <2>1. Reach(h)'
      BY <1>1, <1>2, <1>5 DEF Reach
    <2>2. CASE q2 = q
      BY <1>4, <1>5, <2>1, <2>2
    <2>3. CASE step # "poll" /\ q + 1 = pos /\ q2 = pos
      <3>1. \A W \in SUBSET Nat : pos \notin W => Carries(W, h, cursor, q, h, cursor, pos)
        BY <1>1, <1>3, <2>3, PassesOver
      <3>2. Good(h)
        BY <1>3, <1>5, <2>1, <2>3, <3>1
      <3>3. QED
        BY <3>2
    <2>4. QED
      BY <1>1, <1>5, <2>2, <2>3
  <1>6. CASE GoesOn \/ GoesToNext \/ SaveCursor
    <2>1. /\ step # "poll" /\ step' # "poll" /\ cursor' = cursor /\ faults' = faults
          /\ batchEnd' = batchEnd
      BY <1>6 DEF GoesOn, GoesToNext, StayInBatch, SaveCursor
    <2>2. QED
      BY <1>5, <2>1
  <1>7. CASE Poll
    <2>1. /\ step = "poll" /\ step' = "write" /\ cursor' = cursor
          /\ faults' = faults /\ batchEnd' \in {cursor + BatchLimit, Len(chain)}
      <3>1. \E x \in {cursor + BatchLimit, Len(chain)} :
               \A y \in {cursor + BatchLimit, Len(chain)} : x <= y
        <4>1. CASE cursor + BatchLimit <= Len(chain)
          BY <1>1, <4>1
        <4>2. CASE ~(cursor + BatchLimit <= Len(chain))
          BY <1>1, <4>2
        <4>3. QED
          BY <4>1, <4>2
      <3>2. QED
        BY <1>7, <3>1 DEF Poll, Min
    <2>2. QED
      BY <1>5, <2>1
  <1>8. ASSUME step' = "poll", q2 \in Nat, q2 <= q, q <= q2 + BatchLimit, h <= q,
               faults' = 0 => q = q2
        PROVE  Good(q)
    <2>1. Reach(q)'
      <3>1. q \in cursor' .. Len(chain') /\ q <= cursor' + BatchLimit
        BY <1>1, <1>3, <1>8
      <3>2. QED
        BY <1>8, <3>1 DEF Reach
    <2>2. \A W \in SUBSET Nat : Carries(W, h, cursor, q, q, q2, q2)
      BY <1>1, <1>2, <1>3, <1>8, Settles
    <2>3. QED
      BY <1>8, <2>1, <2>2
  <1>9. CASE AdvanceCursor
    <2>1. /\ step = "advance" /\ step' = "poll" /\ cursor' = batchEnd /\ faults' = faults
      BY <1>9 DEF AdvanceCursor
    <2>2. q = pos /\ q2 = pos /\ cursor' = pos
      BY <1>1, <2>1
    <2>3. h <= q /\ q <= q2 + BatchLimit
      BY <1>1, <1>2, <2>1, <2>2
    <2>4. Good(q)
      BY <1>1, <1>8, <2>1, <2>2, <2>3
    <2>5. QED
      BY <1>3, <2>4
  <1>10. CASE TriesAgain
    <2>1. Reach(h)'
      BY <1>1, <1>2, <1>10 DEF Reach, TriesAgain
    <2>2. step' = "poll" /\ cursor' = cursor /\ q2 = cursor /\ cursor = 0 /\ pos = 1
      BY <1>10 DEF TriesAgain
    <2>3. q = q2
      BY <1>1, <1>10, <2>2 DEF TriesAgain
    <2>4. QED
      BY <1>4, <2>1, <2>2, <2>3
  <1>11. CASE BreaksOff
    <2>1. /\ step' = "poll" /\ faults' = 1 /\ faults = 0 /\ h = cursor /\ q2 = cursor'
          /\ cursor' \in {cursor, savedCursor}
      BY <1>2, <1>11 DEF BreaksOff, Counted
    <2>2. cursor' = cursor \/ (step = "advance" /\ cursor' = q)
      BY <1>1, <2>1 DEF Counted
    <2>3. q2 \in Nat /\ q2 <= q /\ q <= q2 + BatchLimit /\ h <= q
      <3>1. q2 = cursor \/ q2 = q
        BY <2>1, <2>2
      <3>2. /\ cursor \in Nat /\ BatchLimit \in Nat /\ q \in Nat /\ cursor <= q
            /\ q <= cursor + BatchLimit
        BY <1>1, <1>3
      <3>3. q <= q + BatchLimit /\ q <= q
        BY <3>2
      <3>4. QED
        BY <2>1, <3>1, <3>2, <3>3
    <2>4. Good(q)
      BY <1>8, <2>1, <2>3
    <2>5. QED
      BY <1>3, <2>4
  <1>12. QED
    BY <1>6, <1>7, <1>9, <1>10, <1>11, LoopMoves

\* The columns the first statements write.
LEMMA WrittenMoves ==
  ASSUME IndexerInv, PlaceholderInv, Counted, UNCHANGED chainVars, Loop, faults' <= 1,
         NEW h \in Nat, Reach(h)
  PROVE  \E h2 \in Nat :
            /\ Reach(h2)'
            /\ \A W \in SUBSET Nat : (Writes => pos \notin W)
                                        => Carries(W, h, cursor, Written, h2, cursor', Written')
            /\ Writes => h2 = h /\ cursor' = cursor /\ Written = pos - 1 /\ Written' = pos
  <1> DEFINE q == Written
             q2 == Written'
  <1>1. /\ pos \in Nat
        /\ step \in {"save", "advance"} => pos = batchEnd
    BY DEF IndexerInv, LoopInv
  <1>2. /\ IF step = "poll" THEN q = cursor ELSE q \in {pos - 1, pos}
        /\ step \in {"save", "advance"} => q = pos
        /\ step = "write" => q = pos - 1
        /\ step' = "poll" => q2 = cursor'
    BY DEF Written
  <1>3. step' # "poll" => IF Writes THEN step # "poll" /\ q = pos - 1 /\ q2 = pos ELSE q2 = q
    <2>1. CASE Poll
      BY <1>1, <2>1 DEF Poll, Writes, Written, IndexerInv, LoopInv
    <2>2. CASE SaveCursor
      BY <2>2 DEF SaveCursor, Writes, Written
    <2>3. CASE GoesOn
      BY <2>3 DEF GoesOn, Writes, Written
    <2>4. CASE GoesToNext
      BY <1>1, <2>4 DEF GoesToNext, Writes, Written
    <2>5. QED
      BY <2>1, <2>2, <2>3, <2>4, LoopMoves DEF AdvanceCursor, TriesAgain, BreaksOff
  <1>4. step' # "poll" /\ q2 # q <=> Writes
    BY <1>1, <1>3 DEF Writes
  <1> HIDE DEF q, q2
  <1>5. \E h2 \in Nat :
            /\ Reach(h2)'
            /\ \A W \in SUBSET Nat : (step' # "poll" /\ q2 # q => pos \notin W)
                                        => Carries(W, h, cursor, q, h2, cursor', q2)
            /\ step' # "poll" /\ q2 # q => h2 = h /\ cursor' = cursor
    BY <1>2, <1>3, Moves
  <1>6. QED
    BY <1>3, <1>4, <1>5 DEF q, q2

\* The columns the second statement writes.
LEMMA InformedMoves ==
  ASSUME IndexerInv, PlaceholderInv, Counted, UNCHANGED chainVars, Loop, faults' <= 1,
         NEW h \in Nat, Reach(h)
  PROVE  \E h2 \in Nat :
            /\ Reach(h2)'
            /\ \A W \in SUBSET Nat : (Informs => pos \notin W)
                                        => Carries(W, h, cursor, Informed, h2, cursor', Informed')
            /\ Informs => h2 = h /\ cursor' = cursor /\ Informed = pos - 1 /\ Informed' = pos
  <1> DEFINE q == Informed
             q2 == Informed'
  <1>1. /\ pos \in Nat
        /\ step \in {"save", "advance"} => pos = batchEnd
    BY DEF IndexerInv, LoopInv
  <1>2. /\ IF step = "poll" THEN q = cursor ELSE q \in {pos - 1, pos}
        /\ step \in {"save", "advance"} => q = pos
        /\ step = "write" => q = pos - 1
        /\ step' = "poll" => q2 = cursor'
    BY DEF Informed
  <1>3. step' # "poll" => IF Informs THEN step # "poll" /\ q = pos - 1 /\ q2 = pos ELSE q2 = q
    <2>1. CASE Poll
      BY <1>1, <2>1 DEF Poll, Informs, Informed, IndexerInv, LoopInv
    <2>2. CASE SaveCursor
      BY <2>2 DEF SaveCursor, Informs, Informed
    <2>3. CASE GoesOn
      BY <2>3 DEF GoesOn, Informs, Informed
    <2>4. CASE GoesToNext
      BY <1>1, <2>4 DEF GoesToNext, Informs, Informed
    <2>5. QED
      BY <2>1, <2>2, <2>3, <2>4, LoopMoves DEF AdvanceCursor, TriesAgain, BreaksOff
  <1>4. step' # "poll" /\ q2 # q <=> Informs
    BY <1>1, <1>3 DEF Informs
  <1> HIDE DEF q, q2
  <1>5. \E h2 \in Nat :
            /\ Reach(h2)'
            /\ \A W \in SUBSET Nat : (step' # "poll" /\ q2 # q => pos \notin W)
                                        => Carries(W, h, cursor, q, h2, cursor', q2)
            /\ step' # "poll" /\ q2 # q => h2 = h /\ cursor' = cursor
    BY <1>2, <1>3, Moves
  <1>6. QED
    BY <1>3, <1>4, <1>5 DEF q, q2

-----------------------------------------------------------------------------
(* The numbers of the versions *)

\* A document that gets another event keeps its versions numbered.
LEMMA DenseGrows ==
  ASSUME NEW c, NEW e, NEW T \in SUBSET Nat, NEW i \in Nat, IsFiniteSet(T),
         \A j \in T : j < i /\ e[j] = c[j], Dense(c, T),
         \/ e[i].kind = "DocumentCreated" /\ Cardinality(T) = 0
         \/ /\ e[i].kind = "DocumentVersionAdded" /\ Cardinality(T) > 0
            /\ e[i].version = Cardinality(T) + 1
  PROVE  Dense(e, T \union {i})
  <1> DEFINE n == Cardinality(T)
             S == T \union {i}
  <1>1. i \notin T
    OBVIOUS
  <1>2. n \in Nat /\ Cardinality(S) = n + 1
    BY <1>1, FS_CardinalityType, FS_AddElement
  <1>3. \A j \in T : e[j] = c[j] /\ j < i
    OBVIOUS
  <1>4. /\ \A j \in T : c[j].kind = "DocumentVersionAdded" => c[j].version \in 2 .. n
        /\ \A v \in 2 .. n : \E j \in T : c[j].kind = "DocumentVersionAdded" /\ c[j].version = v
        /\ \A j \in T : /\ c[j].kind = "DocumentVersionAdded"
                        /\ \A k \in T : c[k].kind = "DocumentVersionAdded" => k <= j
                        => c[j].version = n
    BY DEF Dense
  <1> HIDE DEF n
  <1>5. CASE e[i].kind = "DocumentCreated" /\ n = 0
    <2>1. T = {}
      BY <1>5, FS_EmptySet DEF n
    <2>2. S = {i} /\ Cardinality(S) = 1
      BY <1>2, <1>5, <2>1
    <2> HIDE DEF S
    <2>3. QED
      BY <1>5, <2>2 DEF Dense, S
  <1>6. CASE e[i].kind = "DocumentVersionAdded" /\ n > 0 /\ e[i].version = n + 1
    <2> HIDE DEF S
    <2>1. \A j \in S : j = i \/ j \in T
      BY DEF S
    <2>2. T \subseteq S /\ i \in S
      BY DEF S
    <2>3. ASSUME NEW j \in S, e[j].kind = "DocumentVersionAdded"
          PROVE  e[j].version \in 2 .. n + 1
      <3>1. CASE j = i
        BY <1>2, <1>6, <3>1
      <3>2. CASE j \in T
        <4>1. e[j].version \in 2 .. n
          BY <1>3, <1>4, <2>3, <3>2
        <4>2. QED
          BY <1>2, <4>1
      <3>3. QED
        BY <2>1, <3>1, <3>2
    <2>4. ASSUME NEW v \in 2 .. n + 1
          PROVE  \E j \in S : e[j].kind = "DocumentVersionAdded" /\ e[j].version = v
      <3>1. CASE v = n + 1
        BY <1>6, <2>2, <3>1
      <3>2. CASE v # n + 1
        <4>1. v \in 2 .. n
          BY <1>2, <3>2
        <4>2. PICK j \in T : c[j].kind = "DocumentVersionAdded" /\ c[j].version = v
          BY <1>4, <4>1
        <4>3. QED
          BY <1>3, <2>2, <4>2
      <3>3. QED
        BY <3>1, <3>2
    <2>5. ASSUME NEW j \in S, \A k \in S : e[k].kind = "DocumentVersionAdded" => k <= j
          PROVE  e[j].version = n + 1
      <3>1. i <= j
        BY <1>6, <2>2, <2>5
      <3>2. j = i
        <4>1. j \in T => j \in Nat /\ j < i
          BY <1>3
        <4>2. QED
          BY <2>1, <3>1, <4>1
      <3>3. QED
        BY <1>6, <3>2
    <2>6. Cardinality(S) = n + 1
      BY <1>2 DEF S
    <2>7. Dense(e, S)
      BY <2>3, <2>4, <2>5, <2>6 DEF Dense
    <2>8. QED
      BY <2>7 DEF S
  <1>7. QED
    BY <1>5, <1>6 DEF n

\* The numbering of the versions depends only on the events that number them.
LEMMA DenseSame ==
  ASSUME NEW c, NEW e, NEW S, \A j \in S : e[j] = c[j], Dense(c, S)
  PROVE  Dense(e, S)
  BY DEF Dense

\* The places of a document are finitely many.
LEMMA DocPlacesFinite ==
  ASSUME NEW c, NEW n \in Nat, NEW d
  PROVE  /\ IsFiniteSet(DocPlaces(c, n, d)) /\ DocPlaces(c, n, d) \subseteq 1 .. n
         /\ DocPlaces(c, n, d) \in SUBSET Nat /\ Cardinality(DocPlaces(c, n, d)) \in Nat
  <1> DEFINE S == DocPlaces(c, n, d)
  <1>1. S \subseteq 1 .. n
    BY DEF DocPlaces
  <1> HIDE DEF S
  <1>2. IsFiniteSet(S)
    <2>1. IsFiniteSet(1 .. n)
      BY FS_Interval
    <2>2. QED
      BY <1>1, <2>1, FS_Subset
  <1>3. Cardinality(S) \in Nat
    BY <1>2, FS_CardinalityType
  <1>4. QED
    BY <1>1, <1>2, <1>3 DEF S

\* An empty chain numbers no versions.
LEMMA DenseStarts ==
  ASSUME ChainInit
  PROVE  DenseInv
  <1>1. Len(chain) = 0
    BY DEF ChainInit
  <1>2. \A d \in Doc : DocPlaces(chain, 0, d) = {}
    BY DEF DocPlaces
  <1>3. Dense(chain, {})
    BY FS_EmptySet DEF Dense
  <1>4. 0 .. Len(chain) = {0}
    BY <1>1
  <1>5. QED
    BY <1>2, <1>3, <1>4 DEF DenseInv

\* add_version numbers a version one past those of the document so far, so that the
\* numbering stays without gaps as transactions are appended.
LEMMA DenseKept ==
  ASSUME ChainInv, ChainNext, DenseInv
  PROVE  DenseInv'
  <1>1. PICK new \in Seq(Events) : Emit(new) /\ \A k \in 1 .. Len(new) : InOrder(new[k], k)
    BY ChainKept DEF Emits
  <1> DEFINE m == Len(chain)
             c == chain
             e == chain'
  <1>2. /\ m \in Nat /\ Len(new) \in Nat /\ Len(e) = m + Len(new)
        /\ \A i \in 1 .. m : e[i] = c[i]
        /\ \A i \in 1 .. Len(e) : i \in 1 .. m \/
               \E k \in 1 .. Len(new) : i = m + k /\ e[i] = new[k]
        /\ \A k \in 1 .. Len(new) : e[m + k] = new[k]
    BY <1>1, Appended DEF ChainInv
  <1>3. ASSUME NEW d \in Doc, NEW n \in 0 .. Len(e) PROVE Dense(e, DocPlaces(e, n, d))
    <2> DEFINE T == DocPlaces(c, m, d)
    <2>1. /\ IsFiniteSet(T) /\ T \subseteq 1 .. m /\ T \in SUBSET Nat
      BY <1>2, DocPlacesFinite
    <2>2. CASE n <= m
      <3>1. n \in 0 .. m /\ \A i \in 1 .. n : i \in 1 .. m /\ e[i] = c[i]
        BY <1>2, <2>2
      <3>2. DocPlaces(e, n, d) = DocPlaces(c, n, d)
        BY <3>1 DEF DocPlaces
      <3>3. Dense(c, DocPlaces(c, n, d))
        BY <3>1 DEF DenseInv
      <3>4. \A j \in DocPlaces(c, n, d) : e[j] = c[j]
        BY <3>1 DEF DocPlaces
      <3>5. QED
        BY <3>2, <3>3, <3>4, DenseSame
    <2>3. CASE n > m
      <3>1. /\ 1 \in 1 .. Len(new) /\ e[m + 1] = new[1] /\ m + 1 \in 1 .. n
            /\ \A i \in 1 .. m : i \in 1 .. n
        BY <1>2, <2>3
      <3>2. \A i \in 1 .. n : i \in 1 .. m \/ i = m + 1 \/ e[i].kind \notin VersionKinds
        <4> TAKE i \in 1 .. n
        <4>1. i \in 1 .. Len(e)
          BY <1>2
        <4>2. CASE i \notin 1 .. m
          <5>1. PICK k \in 1 .. Len(new) : i = m + k /\ e[i] = new[k]
            BY <1>2, <4>1, <4>2
          <5>2. e[i].kind \in VersionKinds => k = 1
            BY <1>1, <5>1 DEF InOrder
          <5>3. QED
            BY <5>1, <5>2
        <4>3. QED
          BY <4>2
      <3>3. Dense(c, T)
        BY <1>2 DEF DenseInv
      <3>4. \A j \in T : j < m + 1 /\ e[j] = c[j]
        BY <1>2, <2>1
      <3>5. CASE new[1].kind \in VersionKinds /\ new[1].doc = d
        <4>1. DocPlaces(e, n, d) = T \union {m + 1}
          <5>1. T \subseteq DocPlaces(e, n, d)
            BY <1>2, <3>1 DEF DocPlaces
          <5>2. m + 1 \in DocPlaces(e, n, d)
            BY <3>1, <3>5 DEF DocPlaces
          <5>3. \A i \in DocPlaces(e, n, d) : i \in T \/ i = m + 1
            BY <1>2, <3>2 DEF DocPlaces
          <5>4. QED
            BY <5>1, <5>2, <5>3
        <4>2. Versions(d) = Cardinality(T)
          <5>1. T = {i \in Places(Len(chain), {"DocumentCreated", "DocumentVersionAdded"}) :
                        chain[i].doc = d}
            BY DEF DocPlaces, Places, VersionKinds
          <5>2. QED
            BY <5>1 DEF Versions, VersionsAfter
        <4>3. \/ e[m + 1].kind = "DocumentCreated" /\ Cardinality(T) = 0
              \/ /\ e[m + 1].kind = "DocumentVersionAdded" /\ Cardinality(T) > 0
                 /\ e[m + 1].version = Cardinality(T) + 1
          BY <1>1, <3>1, <3>5, <4>2 DEF InOrder, VersionKinds
        <4> HIDE DEF T
        <4>4. m + 1 \in Nat
          BY <1>2
        <4> HIDE DEF c, e, m
        <4>5. Dense(e, T \union {m + 1})
          BY <2>1, <3>3, <3>4, <4>3, <4>4, DenseGrows
        <4>6. QED
          BY <4>1, <4>5
      <3>6. CASE ~(new[1].kind \in VersionKinds /\ new[1].doc = d)
        <4>1. DocPlaces(e, n, d) = T
          <5>1. T \subseteq DocPlaces(e, n, d)
            BY <1>2, <3>1 DEF DocPlaces
          <5>2. \A i \in DocPlaces(e, n, d) : i \in T
            BY <1>2, <3>1, <3>2, <3>6 DEF DocPlaces
          <5>3. QED
            BY <5>1, <5>2
        <4>2. Dense(e, T)
          BY <3>3, <3>4, DenseSame
        <4>3. QED
          BY <4>1, <4>2
      <3>7. QED
        BY <3>5, <3>6
    <2>4. QED
      BY <1>2, <2>2, <2>3
  <1>4. QED
    BY <1>3 DEF DenseInv

-----------------------------------------------------------------------------
(* Without the placeholder rows, and the faults *)

\* Without the placeholder rows the first event of a chain is refused, whichever it is.
LEMMA FirstIsRefused ==
  ASSUME IndexerInv, PlaceholderInv, ~SentinelRows, step = "write"
  PROVE  pos = 1 /\ cursor = 0 /\ Refused(Event) /\ Event.kind \in HandledKinds /\ ~Dropped(Event)
  <1>1. pos = 1 /\ cursor = 0 /\ db.pool = NoRow
    BY DEF PlaceholderInv, IndexerInv, LoopInv
  <1>2. 1 \in 1 .. Len(chain) /\ Event = chain[1] /\ emission \in {"package", "assumed"}
    BY <1>1, Handled DEF IndexerInv, ChainInv
  <1>3. chain # <<>>
    BY <1>2
  <1>4. chain[1].kind \in {"PoolCreated", "DataRoomCreated"}
    BY <1>2, <1>3 DEF IndexerInv, ChainInv, Opened
  <1>5. QED
    BY <1>1, <1>2, <1>4 DEF Refused, HandledKinds, Dropped, MemberKinds

\* The indexer starts without rows, at event 0 and before any fault.
LEMMA PlaceholderStarts ==
  ASSUME Init
  PROVE  PlaceholderInv /\ Counted
  BY DEF Init, IndexerInit, EmptyDb, PlaceholderInv, Counted

\* The first event inserts a row that refers to the placeholder: without that one the
\* insert is refused, and the loop goes back to its start.
LEMMA PlaceholderKept ==
  ASSUME IndexerInv, PlaceholderInv, Loop
  PROVE  PlaceholderInv'
  <1> SUFFICES ASSUME ~SentinelRows
               PROVE  /\ db'.pool = NoRow /\ cursor' = 0 /\ savedCursor' = 0
                      /\ step' \in {"poll", "write"} /\ pos' <= 1
    BY DEF PlaceholderInv
  <1>1. /\ db.pool = NoRow /\ cursor = 0 /\ savedCursor = 0
        /\ step \in {"poll", "write"} /\ pos <= 1
    BY DEF PlaceholderInv
  <1>2. CASE Poll
    BY <1>1, <1>2 DEF Poll
  <1>3. CASE RefusedInsert \/ Fail \/ Crash
    BY <1>1, <1>3 DEF RefusedInsert, Fail, Crash, GiveUpBatch
  <1>4. ~Skip
    BY FirstIsRefused DEF Skip
  <1>5. \A k : ~Handling(k)
    BY FirstIsRefused DEF Handling
  <1>6. QED
    BY <1>1, <1>2, <1>3, <1>4, <1>5
       DEF Loop, Work, HandlePoolCreated, HandlePoolStateChanged, HandleDataRoomCreated,
           HandleMemberAdded, HandleMemberRemoved, HandleMemberRoleUpdated, HandleDocumentCreated,
           InsertFirstVersion, HandleDocumentVersionAdded, UpdateVersionInfo,
           HandleDocumentReviewed, HandleICDecisionCreated, HandleAuditEvent, InsertAudit,
           SaveCursor, AdvanceCursor

\* Every failure is counted.
LEMMA CountedKept ==
  ASSUME IndexerInv, PlaceholderInv, Counted, Loop
  PROVE  Counted' /\ (faults' = faults \/ faults' = faults + 1)
  <1>1. faults \in Nat /\ (faults = 0 /\ step # "advance" => savedCursor = cursor)
    BY DEF Counted
  <1>2. step = "advance" => savedCursor = batchEnd
    BY DEF IndexerInv, LoopInv
  <1>3. CASE Poll \/ SaveCursor \/ AdvanceCursor
    BY <1>1, <1>2, <1>3 DEF Poll, SaveCursor, AdvanceCursor, Counted
  <1>4. CASE GoesOn \/ GoesToNext \/ TriesAgain
    BY <1>1, <1>4 DEF GoesOn, GoesToNext, TriesAgain, StayInBatch, Counted
  <1>5. CASE BreaksOff
    BY <1>1, <1>5 DEF BreaksOff, Counted
  <1>6. QED
    BY <1>3, <1>4, <1>5, LoopMoves

-----------------------------------------------------------------------------
(* Which table a step writes *)

\* An update of one table leaves the others.
LEMMA OneTable ==
  ASSUME db \in Tables, NEW r
  PROVE  /\ db' = [db EXCEPT !.pool = r] =>
               /\ db'.members = db.members /\ db'.documents = db.documents
               /\ db'.versions = db.versions /\ db'.reviews = db.reviews
               /\ db'.decisions = db.decisions
         /\ db' \in {[db EXCEPT !.room = r], [db EXCEPT !.audit = r]} =>
               /\ db'.pool = db.pool
               /\ db'.members = db.members /\ db'.documents = db.documents
               /\ db'.versions = db.versions /\ db'.reviews = db.reviews
               /\ db'.decisions = db.decisions
         /\ db' = [db EXCEPT !.members = r] =>
               /\ db'.pool = db.pool /\ db'.documents = db.documents
               /\ db'.versions = db.versions /\ db'.reviews = db.reviews
               /\ db'.decisions = db.decisions
         /\ db' = [db EXCEPT !.documents = r] =>
               /\ db'.pool = db.pool /\ db'.members = db.members
               /\ db'.versions = db.versions /\ db'.reviews = db.reviews
               /\ db'.decisions = db.decisions
         /\ db' = [db EXCEPT !.versions = r] =>
               /\ db'.pool = db.pool /\ db'.members = db.members
               /\ db'.documents = db.documents /\ db'.reviews = db.reviews
               /\ db'.decisions = db.decisions
         /\ db' = [db EXCEPT !.reviews = r] =>
               /\ db'.pool = db.pool /\ db'.members = db.members
               /\ db'.documents = db.documents /\ db'.versions = db.versions
               /\ db'.decisions = db.decisions
         /\ db' = [db EXCEPT !.decisions = r] =>
               /\ db'.pool = db.pool /\ db'.members = db.members
               /\ db'.documents = db.documents /\ db'.versions = db.versions
               /\ db'.reviews = db.reviews
  BY DEF Tables

Rest(f) ==
    /\ f # "pool" => db'.pool = db.pool
    /\ f # "members" => db'.members = db.members
    /\ f # "documents" => db'.documents = db.documents
    /\ f # "versions" => db'.versions = db.versions
    /\ f # "reviews" => db'.reviews = db.reviews
    /\ f # "decisions" => db'.decisions = db.decisions

\* The tables and the statements that write them.
LEMMA WhoWrites ==
  ASSUME db \in Tables, Loop
  PROVE  \/ Rest("none")
         \/ Rest("pool") /\ (HandlePoolCreated \/ HandlePoolStateChanged)
         \/ Rest("members") /\
               (HandleMemberAdded \/ HandleMemberRemoved \/ HandleMemberRoleUpdated)
         \/ Rest("documents") /\ (HandleDocumentCreated \/ UpdateVersionInfo)
         \/ Rest("versions") /\ (InsertFirstVersion \/ HandleDocumentVersionAdded)
         \/ Rest("reviews") /\ HandleDocumentReviewed
         \/ Rest("decisions") /\ HandleICDecisionCreated
  <1>1. CASE Poll \/ Skip \/ RefusedInsert \/ SaveCursor \/ AdvanceCursor \/ Fail \/ Crash
    <2>1. db' = db
      BY <1>1 DEF Poll, Skip, RefusedInsert, SaveCursor, AdvanceCursor, Fail, Crash, GiveUpBatch
    <2>2. QED
      BY <2>1 DEF Rest
  <1>2. CASE HandlePoolCreated \/ HandlePoolStateChanged
    <2>1. \E r : db' = [db EXCEPT !.pool = r]
      BY <1>2 DEF HandlePoolCreated, HandlePoolStateChanged, InsertPool, UpdatePoolState
    <2>2. QED
      BY <1>2, <2>1, OneTable DEF Rest
  <1>3. CASE HandleDataRoomCreated \/ HandleAuditEvent \/ InsertAudit
    <2>1. \E r : db' \in {[db EXCEPT !.room = r], [db EXCEPT !.audit = r]}
      BY <1>3 DEF HandleDataRoomCreated, HandleAuditEvent, InsertAudit, InsertRoom, InsertAuditRow
    <2>2. QED
      BY <2>1, OneTable DEF Rest
  <1>4. CASE HandleMemberAdded \/ HandleMemberRemoved \/ HandleMemberRoleUpdated
    <2>1. \E r : db' = [db EXCEPT !.members = r]
      BY <1>4 DEF HandleMemberAdded, HandleMemberRemoved, HandleMemberRoleUpdated, UpsertMember,
                  DeactivateMember, UpdateRole
    <2>2. QED
      BY <1>4, <2>1, OneTable DEF Rest
  <1>5. CASE HandleDocumentCreated \/ UpdateVersionInfo
    <2>1. \E r : db' = [db EXCEPT !.documents = r]
      BY <1>5 DEF HandleDocumentCreated, UpdateVersionInfo, InsertDocument, BumpVersion
    <2>2. QED
      BY <1>5, <2>1, OneTable DEF Rest
  <1>6. CASE InsertFirstVersion \/ HandleDocumentVersionAdded
    <2>1. \E r : db' = [db EXCEPT !.versions = r]
      BY <1>6 DEF InsertFirstVersion, HandleDocumentVersionAdded, InsertVersion
    <2>2. QED
      BY <1>6, <2>1, OneTable DEF Rest
  <1>7. CASE HandleDocumentReviewed
    <2>1. \E r : db' = [db EXCEPT !.reviews = r]
      BY <1>7 DEF HandleDocumentReviewed, UpsertReview
    <2>2. QED
      BY <1>7, <2>1, OneTable DEF Rest
  <1>8. CASE HandleICDecisionCreated
    <2>1. \E r : db' = [db EXCEPT !.decisions = r]
      BY <1>8 DEF HandleICDecisionCreated, InsertDecision
    <2>2. QED
      BY <1>8, <2>1, OneTable DEF Rest
  <1>9. QED
    BY <1>1, <1>2, <1>3, <1>4, <1>5, <1>6, <1>7, <1>8 DEF Loop, Work

-----------------------------------------------------------------------------
(* The columns *)

\* What a step of the loop carries over, for the columns that first statements write.
Moved(h, h2) ==
    /\ \A W \in SUBSET Nat : (Writes => pos \notin W)
                                => Carries(W, h, cursor, Written, h2, cursor', Written')
    /\ Writes => h2 = h /\ cursor' = cursor /\ Written = pos - 1 /\ Written' = pos

\* The events of the chain, as far as the step sees them.
LEMMA EventsInSight ==
  ASSUME IndexerInv, UNCHANGED chainVars
  PROVE  /\ chain' = chain /\ emission' = emission
         /\ Len(chain) \in Nat /\ cursor \in Nat
         /\ step # "poll" => /\ pos \in 1 .. Len(chain) /\ pos \in Nat /\ cursor < pos
                             /\ Event = chain[pos] /\ chain[pos] \in Events
         /\ \A k : Writers(chain, k) \in SUBSET Nat
         /\ \A k, u : UserWriters(chain, k, u) \in SUBSET Nat
         /\ \A k, d : DocWriters(chain, k, d) \in SUBSET Nat
         /\ \A d, u : ReviewWriters(chain, d, u) \in SUBSET Nat
  <1>1. chain' = chain /\ emission' = emission /\ Len(chain) \in Nat /\ cursor \in Nat
    BY LenProperties DEF chainVars, IndexerInv, ChainInv, LoopInv
  <1>2. step # "poll" => /\ pos \in 1 .. Len(chain) /\ pos \in Nat /\ cursor < pos
                         /\ Event = chain[pos] /\ chain[pos] \in Events
    BY <1>1, Handled DEF IndexerInv, LoopInv
  <1>3. \A k : Writers(chain, k) \in SUBSET Nat
    BY <1>1 DEF Writers
  <1>4. /\ \A k, u : UserWriters(chain, k, u) \in SUBSET Nat
        /\ \A k, d : DocWriters(chain, k, d) \in SUBSET Nat
        /\ \A d, u : ReviewWriters(chain, d, u) \in SUBSET Nat
    BY <1>3 DEF UserWriters, DocWriters, ReviewWriters
  <1>5. QED
    BY <1>1, <1>2, <1>3, <1>4

\* An event that gets its audit row is not skipped: its handler runs.
LEMMA HandlerRuns ==
  ASSUME IndexerInv, Loop, Writes, Kept(emission, chain[pos])
  PROVE  /\ chain[pos].kind = "PoolStateChanged" => HandlePoolStateChanged
         /\ chain[pos].kind = "MemberAdded" => HandleMemberAdded
         /\ chain[pos].kind = "MemberRemoved" => HandleMemberRemoved
         /\ chain[pos].kind = "MemberRoleUpdated" => HandleMemberRoleUpdated
         /\ chain[pos].kind = "DocumentCreated" => HandleDocumentCreated
         /\ chain[pos].kind = "DocumentVersionAdded" => HandleDocumentVersionAdded
         /\ chain[pos].kind = "DocumentReviewed" => HandleDocumentReviewed
         /\ chain[pos].kind = "ICDecisionCreated" => HandleICDecisionCreated
  <1>1. step = "write" /\ step' # "poll" /\ Event = chain[pos]
    BY Handled DEF Writes
  <1>2. ~Skip
    BY <1>1, DroppedAreNotKept DEF Skip, Kept
  <1>3. ~Poll /\ ~RefusedInsert /\ ~Fail /\ ~Crash /\ ~SaveCursor /\ ~AdvanceCursor
        /\ ~InsertFirstVersion /\ ~UpdateVersionInfo /\ ~InsertAudit
    BY <1>1 DEF Poll, RefusedInsert, Fail, Crash, GiveUpBatch, SaveCursor, AdvanceCursor,
                InsertFirstVersion, UpdateVersionInfo, InsertAudit
  <1>4. /\ HandlePoolCreated => chain[pos].kind = "PoolCreated"
        /\ HandlePoolStateChanged => chain[pos].kind = "PoolStateChanged"
        /\ HandleDataRoomCreated => chain[pos].kind = "DataRoomCreated"
        /\ HandleMemberAdded => chain[pos].kind = "MemberAdded"
        /\ HandleMemberRemoved => chain[pos].kind = "MemberRemoved"
        /\ HandleMemberRoleUpdated => chain[pos].kind = "MemberRoleUpdated"
        /\ HandleDocumentCreated => chain[pos].kind = "DocumentCreated"
        /\ HandleDocumentVersionAdded => chain[pos].kind = "DocumentVersionAdded"
        /\ HandleDocumentReviewed => chain[pos].kind = "DocumentReviewed"
        /\ HandleICDecisionCreated => chain[pos].kind = "ICDecisionCreated"
        /\ HandleAuditEvent => chain[pos].kind = "AuditEvent"
    BY <1>1 DEF HandlePoolCreated, HandlePoolStateChanged, HandleDataRoomCreated,
                HandleMemberAdded, HandleMemberRemoved, HandleMemberRoleUpdated,
                HandleDocumentCreated, HandleDocumentVersionAdded, HandleDocumentReviewed,
                HandleICDecisionCreated, HandleAuditEvent, Handling
  <1>5. \/ HandlePoolCreated \/ HandlePoolStateChanged \/ HandleDataRoomCreated
        \/ HandleMemberAdded \/ HandleMemberRemoved \/ HandleMemberRoleUpdated
        \/ HandleDocumentCreated \/ HandleDocumentVersionAdded
        \/ HandleDocumentReviewed \/ HandleICDecisionCreated \/ HandleAuditEvent
    BY <1>2, <1>3 DEF Loop, Work
  <1>6. QED
    BY <1>4, <1>5

\* The pool's state.
LEMMA PoolColumn ==
  ASSUME IndexerInv, UNCHANGED chainVars, Loop, NEW h \in Nat, NEW h2 \in Nat, Moved(h, h2),
         PoolAt(db.pool, chain, h, cursor, Written)
  PROVE  PoolAt(db.pool, chain, h2, cursor, Written)'
  <1> DEFINE W == Writers(chain, {"PoolStateChanged"})
             Shown(p) == IF p = NoRow THEN "DRAFT" ELSE p
  <1>1. /\ chain' = chain /\ W \in SUBSET Nat /\ db \in Tables /\ cursor \in Nat
        /\ step # "poll" => /\ pos \in 1 .. Len(chain) /\ pos \in Nat /\ cursor < pos
                            /\ Event = chain[pos] /\ chain[pos] \in Events
    BY EventsInSight DEF IndexerInv, TablesInv
  <1>2. PICK i : /\ LastWrite(W, h, cursor, Written, i)
                 /\ Shown(db.pool) = IF i = 0 THEN "DRAFT" ELSE chain[i].to
    BY DEF PoolAt
  <1>3. SUFFICES \E j : /\ LastWrite(W, h2, cursor', Written', j)
                        /\ Shown(db'.pool) = IF j = 0 THEN "DRAFT" ELSE chain[j].to
    BY <1>1 DEF PoolAt
  <1>4. CASE Writes /\ pos \in W
    <2>1. chain[pos].kind = "PoolStateChanged" /\ step # "poll"
      BY <1>4 DEF Writers, Writes
    <2>2. Kept(emission, chain[pos])
      BY <2>1 DEF Kept, HandledKinds
    <2>3. UpdatePoolState(chain[pos].to)
      BY <1>1, <1>4, <2>1, <2>2, HandlerRuns DEF HandlePoolStateChanged
    <2>4. db.pool # NoRow
      <3>1. emission \in {"package", "assumed"}
        BY DEF IndexerInv, ChainInv
      <3>2. QED
        BY <2>1, OpenedRows
    <2>5. db'.pool = chain[pos].to
      BY <1>1, <2>3, <2>4 DEF UpdatePoolState, Tables
    <2>6. chain[pos].to # NoRow
      BY <1>1, <2>1, EventFields, RowsAreRows
    <2>7. LastWrite(W, h2, cursor', Written', pos)
      BY <1>1, <1>4, <2>1, Overwrites DEF Moved
    <2>8. pos # 0
      BY <1>1, <2>1
    <2>9. QED
      BY <2>5, <2>6, <2>7, <2>8
  <1>5. CASE ~(Writes /\ pos \in W)
    <2>1. LastWrite(W, h2, cursor', Written', i)
      BY <1>1, <1>2, <1>5 DEF Moved, Carries
    <2>2. ~HandlePoolStateChanged
      <3>1. HandlePoolStateChanged =>
                Writes /\ chain[pos].kind = "PoolStateChanged" /\ step # "poll"
        BY Handled DEF HandlePoolStateChanged, Handling, Writes, Continue
      <3>2. QED
        BY <1>1, <1>5, <3>1 DEF Writers
    <2>3. Shown(db'.pool) = Shown(db.pool)
      <3>1. CASE HandlePoolCreated
        BY <1>1, <3>1 DEF HandlePoolCreated, InsertPool, Tables
      <3>2. CASE ~HandlePoolCreated
        BY <1>1, <2>2, <3>2, WhoWrites DEF Rest
      <3>3. QED
        BY <3>1, <3>2
    <2>4. QED
      BY <1>2, <2>1, <2>3
  <1>6. QED
    BY <1>4, <1>5

\* The decisions.
LEMMA DecisionsColumn ==
  ASSUME IndexerInv, UNCHANGED chainVars, Loop, NEW h \in Nat, NEW h2 \in Nat, Moved(h, h2),
         DecisionsAt(db.decisions, chain, h, Written)
  PROVE  DecisionsAt(db.decisions, chain, h2, Written)'
  <1> DEFINE W == Writers(chain, {"ICDecisionCreated"})
             D == db.decisions
             Pair(j) == <<chain[j].index, chain[j].type>>
  <1>1. /\ chain' = chain /\ W \in SUBSET Nat /\ db \in Tables
        /\ step # "poll" => /\ pos \in 1 .. Len(chain) /\ pos \in Nat
                            /\ Event = chain[pos] /\ chain[pos] \in Events
    BY EventsInSight DEF IndexerInv, TablesInv
  <1>2. \A p : p \in D <=> \E j \in W : Applied(h, Written, j) /\ p = Pair(j)
    BY DEF DecisionsAt
  <1>3. SUFFICES \A p : p \in db'.decisions <=>
                           \E j \in W : Applied(h2, Written', j) /\ p = Pair(j)
    BY <1>1 DEF DecisionsAt
  <1>4. CASE Writes /\ pos \in W
    <2>1. chain[pos].kind = "ICDecisionCreated" /\ step # "poll"
      BY <1>4 DEF Writers, Writes
    <2>2. Kept(emission, chain[pos])
      BY <2>1 DEF Kept, HandledKinds
    <2>3. InsertDecision(chain[pos].index, chain[pos].type)
      BY <1>1, <1>4, <2>1, <2>2, HandlerRuns DEF HandleICDecisionCreated
    <2>4. chain[pos].type \in ICDecisionTypes
      BY <1>1, <2>1, EventFields
    <2> DEFINE x == Pair(pos)
               taken == \E t \in ICDecisionTypes : <<chain[pos].index, t>> \in D
    <2>5. taken => x \in D
      <3>1. /\ D \subseteq DecisionsAfter(Len(chain))
            /\ \A p, q \in DecisionsAfter(Len(chain)) : p[1] = q[1] => p = q
        BY DEF IndexerInv, ChainInv, TablesInv, Numbered
      <3>2. x \in DecisionsAfter(Len(chain))
        BY <1>1, <2>1, DecisionPlaces
      <3>3. \A t : <<chain[pos].index, t>>[1] = x[1]
        OBVIOUS
      <3>4. QED
        BY <3>1, <3>2, <3>3
    <2>6. db'.decisions = IF taken THEN D ELSE D \union {x}
      BY <1>1, <2>3 DEF InsertDecision, Tables
    <2> HIDE DEF taken
    <2>7. \A p : p \in db'.decisions <=> p \in D \/ p = x
      BY <2>5, <2>6
    <2>8. \A j \in W : Applied(h2, Written', j) <=> Applied(h, Written, j) \/ j = pos
      <3>1. h2 = h /\ Written = pos - 1 /\ Written' = pos
        BY <1>4 DEF Moved
      <3>2. \A j \in W : j <= pos <=> j <= pos - 1 \/ j = pos
        BY <1>1, <2>1
      <3>3. QED
        BY <3>1, <3>2 DEF Applied
    <2>9. QED
      BY <1>2, <1>4, <2>7, <2>8
  <1>5. CASE ~(Writes /\ pos \in W)
    <2>1. \A j \in W : Applied(h2, Written', j) <=> Applied(h, Written, j)
      BY <1>1, <1>5 DEF Moved, Carries
    <2>2. ~HandleICDecisionCreated
      <3>1. HandleICDecisionCreated =>
                Writes /\ chain[pos].kind = "ICDecisionCreated" /\ step # "poll"
        BY Handled DEF HandleICDecisionCreated, Handling, Writes, Continue
      <3>2. QED
        BY <1>1, <1>5, <3>1 DEF Writers
    <2>3. db'.decisions = D
      BY <1>1, <2>2, WhoWrites DEF Rest
    <2>4. QED
      BY <1>2, <2>1, <2>3
  <1>6. QED
    BY <1>4, <1>5

\* A review.
LEMMA ReviewColumn ==
  ASSUME IndexerInv, UNCHANGED chainVars, Loop, NEW h \in Nat, NEW h2 \in Nat, Moved(h, h2),
         emission = "assumed", NEW d \in Doc, NEW u \in User,
         ReviewAt(db.reviews[d][u], chain, d, u, h, cursor, Written)
  PROVE  ReviewAt(db.reviews[d][u], chain, d, u, h2, cursor, Written)'
  <1> DEFINE W == ReviewWriters(chain, d, u)
  <1>1. /\ chain' = chain /\ W \in SUBSET Nat /\ db \in Tables /\ cursor \in Nat
        /\ step # "poll" => /\ pos \in 1 .. Len(chain) /\ pos \in Nat /\ cursor < pos
                            /\ Event = chain[pos] /\ chain[pos] \in Events
    BY EventsInSight DEF IndexerInv, TablesInv
  <1>2. PICK i : /\ LastWrite(W, h, cursor, Written, i)
                 /\ db.reviews[d][u] = IF i = 0 THEN NoRow ELSE chain[i].status
    BY DEF ReviewAt
  <1>3. SUFFICES \E j : /\ LastWrite(W, h2, cursor', Written', j)
                        /\ db'.reviews[d][u] = IF j = 0 THEN NoRow ELSE chain[j].status
    BY <1>1 DEF ReviewAt
  <1>4. CASE Writes /\ pos \in W
    <2>1. /\ chain[pos].kind = "DocumentReviewed" /\ step # "poll"
          /\ chain[pos].doc = d /\ chain[pos].user = u
      BY <1>4 DEF ReviewWriters, Writers, Writes
    <2>2. Kept(emission, chain[pos])
      BY <2>1 DEF Kept, HandledKinds
    <2>3. UpsertReview(d, u, chain[pos].status)
      BY <1>1, <1>4, <2>1, <2>2, HandlerRuns DEF HandleDocumentReviewed
    <2>4. db'.reviews[d][u] = chain[pos].status
      BY <1>1, <2>3 DEF UpsertReview, Tables
    <2>5. LastWrite(W, h2, cursor', Written', pos)
      BY <1>1, <1>4, <2>1, Overwrites DEF Moved
    <2>6. pos # 0
      BY <1>1, <2>1
    <2>7. QED
      BY <2>4, <2>5, <2>6
  <1>5. CASE ~(Writes /\ pos \in W)
    <2>1. LastWrite(W, h2, cursor', Written', i)
      BY <1>1, <1>2, <1>5 DEF Moved, Carries
    <2>2. db'.reviews[d][u] = db.reviews[d][u]
      <3>1. CASE HandleDocumentReviewed
        <4>1. Writes /\ chain[pos].kind = "DocumentReviewed" /\ step # "poll"
          BY <3>1, Handled DEF HandleDocumentReviewed, Handling, Writes, Continue
        <4>2. ~(chain[pos].doc = d /\ chain[pos].user = u)
          BY <1>1, <1>5, <4>1 DEF ReviewWriters, Writers
        <4>3. /\ UpsertReview(chain[pos].doc, chain[pos].user, chain[pos].status)
              /\ chain[pos].doc \in Doc /\ chain[pos].user \in User
          BY <1>1, <3>1, <4>1, EventFields DEF HandleDocumentReviewed
        <4>4. QED
          BY <1>1, <4>2, <4>3 DEF UpsertReview, Tables
      <3>2. CASE ~HandleDocumentReviewed
        BY <1>1, <3>2, WhoWrites DEF Rest
      <3>3. QED
        BY <3>1, <3>2
    <2>3. QED
      BY <1>2, <2>1, <2>2
  <1>6. QED
    BY <1>4, <1>5

\* The versions.
LEMMA VersionsColumn ==
  ASSUME IndexerInv, UNCHANGED chainVars, Loop, NEW h \in Nat, NEW h2 \in Nat, Moved(h, h2),
         emission = "assumed", VersionsAt(db.versions, chain, h, Written)
  PROVE  VersionsAt(db.versions, chain, h2, Written)'
  <1> DEFINE V == Writers(chain, {"DocumentVersionAdded"})
             W == Writers(chain, VersionKinds)
             S == db.versions
             Added(j) == <<chain[j].doc, chain[j].version>>
             Made(j) == <<chain[j].doc,
                          IF chain[j].kind = "DocumentCreated" THEN 1 ELSE chain[j].version>>
  <1>1. /\ chain' = chain /\ V \in SUBSET Nat /\ W \in SUBSET Nat /\ db \in Tables
        /\ step # "poll" => /\ pos \in 1 .. Len(chain) /\ pos \in Nat
                            /\ Event = chain[pos] /\ chain[pos] \in Events
    BY EventsInSight DEF IndexerInv, TablesInv
  <1>2. /\ \A j \in V : Applied(h, Written, j) => Added(j) \in S
        /\ \A p \in S : \E j \in W : Applied(h, Written, j) /\ p = Made(j)
    BY DEF VersionsAt
  <1>3. SUFFICES /\ \A j \in V : Applied(h2, Written', j) => Added(j) \in db'.versions
                 /\ \A p \in db'.versions : \E j \in W : Applied(h2, Written', j) /\ p = Made(j)
    BY <1>1 DEF VersionsAt
  <1>4. /\ Writes => \A j \in W \union V : Applied(h2, Written', j) <=>
                                              Applied(h, Written, j) \/ j = pos
        /\ ~Writes => \A j \in W \union V : Applied(h2, Written', j) <=> Applied(h, Written, j)
    <2>1. CASE Writes
      <3>1. h2 = h /\ Written = pos - 1 /\ Written' = pos /\ step # "poll"
        BY <2>1 DEF Moved, Writes
      <3>2. \A j \in W \union V : j <= pos <=> j <= pos - 1 \/ j = pos
        BY <1>1, <3>1
      <3>3. QED
        BY <2>1, <3>1, <3>2 DEF Applied
    <2>2. CASE ~Writes
      BY <1>1, <2>2 DEF Moved, Carries
    <2>3. QED
      BY <2>1, <2>2
  <1>5. CASE InsertFirstVersion
    <2>1. /\ step = "version" /\ InsertVersion(Event.doc, 1) /\ pos' = pos /\ step' = "audit"
      BY <1>5 DEF InsertFirstVersion, Continue
    <2>2. chain[pos].kind = "DocumentCreated" /\ Event = chain[pos] /\ ~Writes /\ pos \in W
      BY <1>1, <2>1, HandlerMiddle DEF Writes, Writers, VersionKinds
    <2>3. db'.versions = S \union {Made(pos)}
      BY <1>1, <2>1, <2>2 DEF InsertVersion, Tables
    <2>4. Applied(h2, Written', pos)
      BY <1>1, <2>1 DEF Applied, Written
    <2>5. QED
      BY <1>2, <1>4, <2>2, <2>3, <2>4
  <1>6. CASE Writes /\ pos \in V
    <2>1. chain[pos].kind = "DocumentVersionAdded" /\ step # "poll"
      BY <1>6 DEF Writers, Writes
    <2>2. Kept(emission, chain[pos])
      BY <2>1 DEF Kept, HandledKinds
    <2>3. InsertVersion(chain[pos].doc, chain[pos].version)
      BY <1>1, <1>6, <2>1, <2>2, HandlerRuns DEF HandleDocumentVersionAdded
    <2>4. db'.versions = S \union {Added(pos)} /\ Made(pos) = Added(pos)
      BY <1>1, <2>1, <2>3 DEF InsertVersion, Tables
    <2>5. pos \in W
      BY <1>1, <2>1 DEF Writers, VersionKinds
    <2>6. QED
      BY <1>2, <1>4, <1>6, <2>4, <2>5
  <1>7. CASE ~InsertFirstVersion /\ ~(Writes /\ pos \in V)
    <2>1. ~HandleDocumentVersionAdded
      <3>1. HandleDocumentVersionAdded =>
                Writes /\ chain[pos].kind = "DocumentVersionAdded" /\ step # "poll"
        BY Handled DEF HandleDocumentVersionAdded, Handling, Writes, Continue
      <3>2. QED
        BY <1>1, <1>7, <3>1 DEF Writers
    <2>2. db'.versions = S
      BY <1>1, <1>7, <2>1, WhoWrites DEF Rest
    <2>3. QED
      BY <1>2, <1>4, <1>7, <2>2
  <1>8. QED
    BY <1>5, <1>6, <1>7

\* A member's row.
LEMMA MemberColumn ==
  ASSUME IndexerInv, UNCHANGED chainVars, Loop, NEW h \in Nat, NEW h2 \in Nat, Moved(h, h2),
         emission = "assumed", NEW u \in User,
         MemberAt(db.members[u], chain, u, h, cursor, Written)
  PROVE  MemberAt(db.members[u], chain, u, h2, cursor, Written)'
  <1> DEFINE W == UserWriters(chain, MemberKinds, u)
             R == RoleWriters(chain, u)
             A == ActiveWriters(chain, u)
             m == db.members[u]
             n == db'.members[u]
             RoleAt(r, k, c, q) == \E i \in R : LastWrite(R, k, c, q, i) /\ r = chain[i].role
             ActiveAt(a, k, c, q) ==
                 \E i \in A : LastWrite(A, k, c, q, i) /\ a = (chain[i].kind = "MemberAdded")
  <1>1. /\ chain' = chain /\ W \in SUBSET Nat /\ R \in SUBSET Nat /\ A \in SUBSET Nat
        /\ db \in Tables /\ cursor \in Nat
        /\ step # "poll" => /\ pos \in 1 .. Len(chain) /\ pos \in Nat /\ cursor < pos
                            /\ Event = chain[pos] /\ chain[pos] \in Events
    BY EventsInSight DEF IndexerInv, TablesInv, RoleWriters, ActiveWriters
  <1>2. R \subseteq W /\ A \subseteq W
    BY DEF RoleWriters, ActiveWriters, UserWriters, Writers, MemberKinds
  <1>3. /\ m = NoRow => \A j \in W : ~Applied(h, Written, j)
        /\ m # NoRow => RoleAt(m.role, h, cursor, Written) /\ ActiveAt(m.active, h, cursor, Written)
    BY DEF MemberAt
  <1>4. SUFFICES /\ n = NoRow => \A j \in W : ~Applied(h2, Written', j)
                 /\ n # NoRow => /\ RoleAt(n.role, h2, cursor', Written')
                                 /\ ActiveAt(n.active, h2, cursor', Written')
    BY <1>1 DEF MemberAt
  <1>5. (Writes => pos \notin R) =>
            \A r : RoleAt(r, h, cursor, Written) => RoleAt(r, h2, cursor', Written')
    BY <1>1 DEF Moved, Carries
  <1>6. (Writes => pos \notin A) =>
            \A a : ActiveAt(a, h, cursor, Written) => ActiveAt(a, h2, cursor', Written')
    BY <1>1 DEF Moved, Carries
  <1>7. Writes /\ pos \in R => RoleAt(chain[pos].role, h2, cursor', Written')
    <2>1. Writes /\ pos \in R => LastWrite(R, h2, cursor', Written', pos)
      BY <1>1, Overwrites DEF Moved, Writes
    <2>2. QED
      BY <2>1
  <1>8. \A a : Writes /\ pos \in A /\ a = (chain[pos].kind = "MemberAdded")
                  => ActiveAt(a, h2, cursor', Written')
    <2>1. Writes /\ pos \in A => LastWrite(A, h2, cursor', Written', pos)
      BY <1>1, Overwrites DEF Moved, Writes
    <2>2. QED
      BY <2>1
  <1>9. m \in Row(MemberRow)
    BY <1>1 DEF Tables
  <1>10. CASE Writes /\ pos \in W
    <2>1. chain[pos].kind \in MemberKinds /\ step # "poll" /\ chain[pos].user = u
      BY <1>10 DEF UserWriters, Writers, Writes
    <2>2. Kept(emission, chain[pos])
      BY <2>1 DEF Kept, HandledKinds, MemberKinds
    <2>3. chain[pos].kind \in {"MemberRemoved", "MemberRoleUpdated"} => m # NoRow /\ m \in MemberRow
      BY <1>9, <2>1, PresupposedRows DEF Row
    <2>4. CASE chain[pos].kind = "MemberAdded"
      <3>1. UpsertMember(u, chain[pos].role)
        BY <1>1, <1>10, <2>1, <2>2, <2>4, HandlerRuns DEF HandleMemberAdded
      <3>2. n = [role |-> chain[pos].role, active |-> TRUE]
        BY <1>1, <3>1 DEF UpsertMember, Tables
      <3>3. n # NoRow
        <4>1. chain[pos].role \in SUBSET Roles
          BY <1>1, <2>1, <2>4, EventFields
        <4>2. n \in MemberRow
          BY <3>2, <4>1 DEF MemberRow
        <4>3. QED
          BY <4>2, RowsAreRows
      <3>4. pos \in R /\ pos \in A
        BY <1>10, <2>4 DEF RoleWriters, ActiveWriters, UserWriters, Writers
      <3>5. n.role = chain[pos].role /\ n.active = TRUE
        BY <3>2
      <3>6. ActiveAt(n.active, h2, cursor', Written')
        <4>1. n.active = (chain[pos].kind = "MemberAdded")
          BY <2>4, <3>5
        <4>2. QED
          BY <1>8, <1>10, <3>4, <4>1
      <3>7. QED
        BY <1>7, <1>10, <3>3, <3>4, <3>5, <3>6
    <2>5. CASE chain[pos].kind = "MemberRemoved"
      <3>1. DeactivateMember(u)
        BY <1>1, <1>10, <2>1, <2>2, <2>5, HandlerRuns DEF HandleMemberRemoved
      <3>2. n = [m EXCEPT !.active = FALSE]
        BY <1>1, <2>3, <2>5, <3>1 DEF DeactivateMember, Tables
      <3>3. n \in MemberRow /\ n.role = m.role /\ n.active = FALSE
        BY <2>3, <2>5, <3>2 DEF MemberRow
      <3>4. n # NoRow
        BY <3>3, RowsAreRows
      <3>5. pos \notin R /\ pos \in A
        BY <1>10, <2>5 DEF RoleWriters, ActiveWriters, UserWriters, Writers
      <3>6. ActiveAt(n.active, h2, cursor', Written')
        <4>1. n.active = (chain[pos].kind = "MemberAdded")
          BY <2>5, <3>3
        <4>2. QED
          BY <1>8, <1>10, <3>5, <4>1
      <3>7. QED
        BY <1>3, <1>5, <2>3, <2>5, <3>3, <3>4, <3>5, <3>6
    <2>6. CASE chain[pos].kind = "MemberRoleUpdated"
      <3>1. UpdateRole(u, chain[pos].role)
        BY <1>1, <1>10, <2>1, <2>2, <2>6, HandlerRuns DEF HandleMemberRoleUpdated
      <3>2. n = [m EXCEPT !.role = chain[pos].role]
        BY <1>1, <2>3, <2>6, <3>1 DEF UpdateRole, Tables
      <3>3. chain[pos].role \in SUBSET Roles
        BY <1>1, <2>1, <2>6, EventFields
      <3>4. n \in MemberRow /\ n.role = chain[pos].role /\ n.active = m.active
        BY <2>3, <2>6, <3>2, <3>3 DEF MemberRow
      <3>5. n # NoRow
        BY <3>4, RowsAreRows
      <3>6. pos \in R /\ pos \notin A
        BY <1>10, <2>6 DEF RoleWriters, ActiveWriters, UserWriters, Writers
      <3>7. QED
        BY <1>3, <1>6, <1>7, <1>10, <2>3, <2>6, <3>4, <3>5, <3>6
    <2>7. QED
      BY <2>1, <2>4, <2>5, <2>6 DEF MemberKinds
  <1>11. CASE ~(Writes /\ pos \in W)
    <2>1. n = m
      <3>1. CASE HandleMemberAdded \/ HandleMemberRemoved \/ HandleMemberRoleUpdated
        <4>1. Writes /\ chain[pos].kind \in MemberKinds /\ step # "poll"
          BY <3>1, Handled DEF HandleMemberAdded, HandleMemberRemoved, HandleMemberRoleUpdated,
                               Handling, Writes, Continue, MemberKinds
        <4>2. chain[pos].user # u
          BY <1>1, <1>11, <4>1 DEF UserWriters, Writers
        <4>3. \E r : db' = [db EXCEPT !.members[chain[pos].user] = r]
          BY <1>1, <3>1, <4>1 DEF HandleMemberAdded, HandleMemberRemoved, HandleMemberRoleUpdated,
                                  UpsertMember, DeactivateMember, UpdateRole
        <4>4. QED
          BY <1>1, <4>2, <4>3 DEF Tables
      <3>2. CASE ~(HandleMemberAdded \/ HandleMemberRemoved \/ HandleMemberRoleUpdated)
        BY <1>1, <3>2, WhoWrites DEF Rest
      <3>3. QED
        BY <3>1, <3>2
    <2>2. \A j \in W : Applied(h2, Written', j) <=> Applied(h, Written, j)
      BY <1>1, <1>11 DEF Moved, Carries
    <2>3. Writes => pos \notin R /\ pos \notin A
      BY <1>2, <1>11
    <2>4. QED
      BY <1>3, <1>5, <1>6, <2>1, <2>2, <2>3
  <1>12. QED
    BY <1>10, <1>11

\* What a step carries over, for the column that second statements write.
Spread(h, h2) ==
    /\ \A W \in SUBSET Nat : (Informs => pos \notin W)
                                => Carries(W, h, cursor, Informed, h2, cursor', Informed')
    /\ Informs => h2 = h /\ cursor' = cursor /\ Informed = pos - 1 /\ Informed' = pos

\* A version other than the first follows the one before it, in an earlier event.
LEMMA EarlierVersion ==
  ASSUME IndexerInv, DenseInv, NEW d \in Doc, NEW i \in VersionWriters(chain, d)
  PROVE  /\ chain[i].version \in Nat
         /\ chain[i].version = 2 \/
               \E j \in VersionWriters(chain, d) :
                  j <= i - 1 /\ chain[j].version = chain[i].version - 1
  <1> DEFINE S == DocPlaces(chain, i, d)
             v == chain[i].version
  <1>1. /\ Len(chain) \in Nat /\ i \in 1 .. Len(chain) /\ chain[i].doc = d
        /\ chain[i].kind = "DocumentVersionAdded"
    BY LenProperties DEF IndexerInv, ChainInv, VersionWriters, DocWriters, Writers
  <1>2. i \in S /\ i \in 0 .. Len(chain) /\ i \in Nat
    BY <1>1 DEF DocPlaces, VersionKinds
  <1>3. Dense(chain, S) /\ Cardinality(S) \in Nat
    BY <1>2, DocPlacesFinite DEF DenseInv
  <1>4. v \in 2 .. Cardinality(S)
    BY <1>1, <1>2, <1>3 DEF Dense
  <1>5. CASE v # 2
    <2>1. v - 1 \in 2 .. Cardinality(S)
      BY <1>3, <1>4, <1>5
    <2>2. PICK j \in S : chain[j].kind = "DocumentVersionAdded" /\ chain[j].version = v - 1
      BY <1>3, <2>1 DEF Dense
    <2>3. j \in 1 .. i /\ chain[j].doc = d
      BY DEF DocPlaces
    <2>4. j # i
      BY <1>4, <2>2
    <2>5. j \in 1 .. Len(chain) /\ j <= i - 1
      BY <1>1, <2>3, <2>4
    <2>6. j \in VersionWriters(chain, d)
      BY <2>2, <2>3, <2>5 DEF VersionWriters, DocWriters, Writers
    <2>7. QED
      BY <1>4, <2>2, <2>5, <2>6
  <1>6. QED
    BY <1>4, <1>5

\* A document's row.
LEMMA DocumentColumn ==
  ASSUME IndexerInv, DenseInv, UNCHANGED chainVars, Loop, NEW h \in Nat, NEW h2 \in Nat,
         Spread(h, h2), emission = "assumed", NEW d \in Doc,
         DocumentAt(db.documents[d], chain, d, h, cursor, Informed)
  PROVE  DocumentAt(db.documents[d], chain, d, h2, cursor, Informed)'
  <1> DEFINE W == DocWriters(chain, VersionKinds, d)
             V == VersionWriters(chain, d)
             r == db.documents[d]
             n == db'.documents[d]
             Current(x, k, c, q) ==
                 \E i : LastWrite(V, k, c, q, i) /\ x = IF i = 0 THEN 1 ELSE chain[i].version
  <1>1. /\ chain' = chain /\ W \in SUBSET Nat /\ V \in SUBSET Nat /\ V \subseteq W
        /\ db \in Tables /\ cursor \in Nat
        /\ step # "poll" => /\ pos \in 1 .. Len(chain) /\ pos \in Nat /\ cursor < pos
                            /\ Event = chain[pos] /\ chain[pos] \in Events
    BY EventsInSight DEF IndexerInv, TablesInv, VersionWriters, DocWriters, Writers, VersionKinds
  <1>2. /\ r = NoRow => \A j \in W : ~Applied(h, Informed, j)
        /\ r # NoRow => /\ \E j \in W : Applied(h, Informed, j)
                        /\ Current(r.current, h, cursor, Informed)
                        /\ r.count >= 1
                        /\ \A j \in V : Applied(h, Informed, j) => r.count >= chain[j].version
    BY DEF DocumentAt
  <1>3. SUFFICES /\ n = NoRow => \A j \in W : ~Applied(h2, Informed', j)
                 /\ n # NoRow => /\ \E j \in W : Applied(h2, Informed', j)
                                 /\ Current(n.current, h2, cursor', Informed')
                                 /\ n.count >= 1
                                 /\ \A j \in V : Applied(h2, Informed', j) =>
                                        n.count >= chain[j].version
    BY <1>1 DEF DocumentAt
  <1>4. r \in Row(DocumentRow)
    BY <1>1 DEF Tables
  <1>5. Informs => \A j \in W : Applied(h2, Informed', j) <=> Applied(h, Informed, j) \/ j = pos
    <2>1. SUFFICES ASSUME Informs
                   PROVE  \A j \in W : Applied(h2, Informed', j) <=>
                                          Applied(h, Informed, j) \/ j = pos
      OBVIOUS
    <2>2. h2 = h /\ Informed = pos - 1 /\ Informed' = pos /\ step # "poll"
      BY <2>1 DEF Spread, Informs
    <2>3. \A j \in W : j <= pos <=> j <= pos - 1 \/ j = pos
      BY <1>1, <2>2
    <2>4. QED
      BY <2>2, <2>3 DEF Applied
  <1>6. CASE UpdateVersionInfo /\ chain[pos].doc = d
    <2>1. /\ step = "info" /\ step' = "audit" /\ BumpVersion(d, chain[pos].version)
          /\ chain[pos].kind = "DocumentVersionAdded" /\ r # NoRow
      BY <1>1, <1>6, HandlerMiddle DEF UpdateVersionInfo, Continue
    <2>2. Informs /\ pos \in V /\ pos \in W
      BY <1>1, <1>6, <2>1 DEF Informs, VersionWriters, DocWriters, Writers
    <2>3. chain[pos].version \in Nat /\ r \in DocumentRow
      BY <1>1, <1>4, <2>1, EventFields DEF Row
    <2>4. n = [current |-> chain[pos].version, count |-> r.count + 1]
      BY <1>1, <2>1 DEF BumpVersion, Tables
    <2>5. n.current = chain[pos].version /\ n.count = r.count + 1 /\ r.count \in Nat
      BY <2>3, <2>4 DEF DocumentRow
    <2>6. LastWrite(V, h2, cursor', Informed', pos) /\ pos # 0
      BY <1>1, <2>1, <2>2, Overwrites DEF Spread
    <2>7. \A j \in V : chain[j].version \in Nat
      BY EarlierVersion
    <2>8. ASSUME NEW j \in V, Applied(h2, Informed', j) PROVE n.count >= chain[j].version
      <3>1. CASE Applied(h, Informed, j)
        <4>1. r.count >= chain[j].version
          BY <1>2, <2>1, <3>1
        <4>2. QED
          BY <2>5, <2>7, <4>1
      <3>2. CASE j = pos
        <4>1. CASE chain[pos].version = 2
          BY <1>2, <2>1, <2>5, <3>2, <4>1
        <4>2. CASE \E k \in V : k <= pos - 1 /\ chain[k].version = chain[pos].version - 1
          <5>1. PICK k \in V : k <= pos - 1 /\ chain[k].version = chain[pos].version - 1
            BY <4>2
          <5>2. Informed = pos - 1
            BY <2>2 DEF Spread
          <5>3. Applied(h, Informed, k)
            BY <5>1, <5>2 DEF Applied
          <5>4. r.count >= chain[pos].version - 1
            BY <1>2, <2>1, <5>1, <5>3
          <5>5. QED
            BY <2>3, <2>5, <3>2, <5>4
        <4>3. QED
          BY <2>2, <4>1, <4>2, EarlierVersion
      <3>3. QED
        BY <1>1, <1>5, <2>2, <2>8, <3>1, <3>2
    <2>9. Applied(h2, Informed', pos)
      BY <1>5, <2>2
    <2>10. Current(n.current, h2, cursor', Informed')
      BY <2>5, <2>6
    <2>11. n.count >= 1
      BY <1>2, <2>1, <2>5
    <2>12. n # NoRow
      <3>1. n \in DocumentRow
        BY <2>3, <2>4, <2>5 DEF DocumentRow
      <3>2. QED
        BY <3>1, RowsAreRows
    <2>13. QED
      BY <2>2, <2>8, <2>9, <2>10, <2>11, <2>12
  <1>7. CASE HandleDocumentCreated /\ chain[pos].doc = d
    <2>1. /\ step = "write" /\ step' \in {"version", "audit"} /\ InsertDocument(d)
          /\ chain[pos].kind = "DocumentCreated"
      BY <1>1, <1>7, HandlerStarts DEF HandleDocumentCreated, Continue
    <2>2. Informs /\ pos \notin V /\ pos \in W
      BY <1>1, <1>7, <2>1 DEF Informs, VersionWriters, DocWriters, Writers, VersionKinds
    <2>3. n = IF r = NoRow THEN [current |-> 1, count |-> 1] ELSE r
      BY <1>1, <2>1 DEF InsertDocument, Tables
    <2>4. Carries(V, h, cursor, Informed, h2, cursor', Informed')
      BY <1>1, <2>2 DEF Spread
    <2>5. Applied(h2, Informed', pos)
      BY <1>5, <2>2
    <2>6. CASE r = NoRow
      <3>1. n = [current |-> 1, count |-> 1]
        BY <2>3, <2>6
      <3>2. n # NoRow /\ n.current = 1 /\ n.count = 1
        <4>1. n \in DocumentRow
          BY <3>1 DEF DocumentRow
        <4>2. QED
          BY <3>1, <4>1, RowsAreRows
      <3>3. \A j \in V : ~Applied(h, Informed, j)
        BY <1>1, <1>2, <2>6
      <3>4. \A j \in V : ~Applied(h2, Informed', j)
        BY <2>4, <3>3 DEF Carries
      <3>5. LastWrite(V, h2, cursor', Informed', 0)
        BY <3>4 DEF LastWrite, Applied
      <3>6. Current(n.current, h2, cursor', Informed')
        BY <3>2, <3>5
      <3>7. QED
        BY <2>2, <2>5, <3>2, <3>4, <3>6
    <2>7. CASE r # NoRow
      <3>1. n = r
        BY <2>3, <2>7
      <3>2. Current(r.current, h2, cursor', Informed')
        BY <1>2, <2>4, <2>7 DEF Carries
      <3>3. \A j \in V : Applied(h2, Informed', j) => r.count >= chain[j].version
        BY <1>2, <2>4, <2>7 DEF Carries
      <3>4. QED
        BY <1>2, <2>2, <2>5, <2>7, <3>1, <3>2, <3>3
    <2>8. QED
      BY <2>6, <2>7
  <1>8. CASE /\ ~(UpdateVersionInfo /\ chain[pos].doc = d)
             /\ ~(HandleDocumentCreated /\ chain[pos].doc = d)
    <2>1. n = r
      <3>1. CASE HandleDocumentCreated \/ UpdateVersionInfo
        <4>1. step # "poll" /\ chain[pos].kind \in VersionKinds
          BY <3>1, HandlerMiddle
          DEF HandleDocumentCreated, UpdateVersionInfo, Handling, VersionKinds, Event
        <4>2. \E x : db' = [db EXCEPT !.documents[chain[pos].doc] = x]
          BY <1>1, <3>1, <4>1 DEF HandleDocumentCreated, UpdateVersionInfo, InsertDocument,
                                  BumpVersion
        <4>3. QED
          BY <1>1, <1>8, <3>1, <4>2 DEF Tables
      <3>2. CASE ~(HandleDocumentCreated \/ UpdateVersionInfo)
        BY <1>1, <3>2, WhoWrites DEF Rest
      <3>3. QED
        BY <3>1, <3>2
    <2>2. Informs => pos \notin W
      <3>1. SUFFICES ASSUME Informs, pos \in W PROVE FALSE
        OBVIOUS
      <3>2. chain[pos].kind \in VersionKinds /\ chain[pos].doc = d /\ step # "poll"
        BY <3>1 DEF DocWriters, Writers, Informs
      <3>3. CASE step = "info"
        <4>1. UpdateVersionInfo
          BY <3>1, <3>3 DEF Informs, Loop, Work, Poll, Skip, RefusedInsert, HandlePoolCreated,
             HandlePoolStateChanged, HandleDataRoomCreated, HandleMemberAdded,
             HandleMemberRemoved, HandleMemberRoleUpdated, HandleDocumentCreated,
             InsertFirstVersion, HandleDocumentVersionAdded, HandleDocumentReviewed,
             HandleICDecisionCreated, HandleAuditEvent, InsertAudit, SaveCursor, AdvanceCursor,
             Fail, Crash, GiveUpBatch, Handling
        <4>2. QED
          BY <1>8, <3>2, <4>1
      <3>4. CASE step = "write"
        <4>1. Writes /\ step' # "info"
          BY <3>1, <3>4 DEF Informs, Writes
        <4>2. Kept(emission, chain[pos])
          BY <3>2 DEF Kept, HandledKinds, VersionKinds
        <4>3. HandleDocumentCreated \/ HandleDocumentVersionAdded
          BY <3>2, <4>1, <4>2, HandlerRuns DEF VersionKinds
        <4>4. QED
          BY <1>8, <3>2, <4>1, <4>3 DEF HandleDocumentVersionAdded, Continue
      <3>5. QED
        BY <3>1, <3>3, <3>4 DEF Informs
    <2>3. /\ Carries(V, h, cursor, Informed, h2, cursor', Informed')
          /\ Carries(W, h, cursor, Informed, h2, cursor', Informed')
      BY <1>1, <2>2 DEF Spread
    <2>4. \A j \in W : Applied(h2, Informed', j) <=> Applied(h, Informed, j)
      BY <2>3 DEF Carries
    <2>5. \A x : Current(x, h, cursor, Informed) => Current(x, h2, cursor', Informed')
      BY <2>3 DEF Carries
    <2>6. QED
      BY <1>1, <1>2, <2>1, <2>4, <2>5
  <1>9. QED
    BY <1>6, <1>7, <1>8

-----------------------------------------------------------------------------
(* The tables follow the chain *)

\* A longer chain has the same writers as far as the shorter one goes.
LEMMA LongerWriters ==
  ASSUME NEW c, NEW e, NEW n \in Nat, Len(c) = n, Len(e) \in Nat, n <= Len(e),
         \A i \in 1 .. n : e[i] = c[i]
  PROVE  /\ \A k : \A j \in 0 .. n : j \in Writers(c, k) <=> j \in Writers(e, k)
         /\ \A k, u : \A j \in 0 .. n : j \in UserWriters(c, k, u) <=> j \in UserWriters(e, k, u)
         /\ \A k, d : \A j \in 0 .. n : j \in DocWriters(c, k, d) <=> j \in DocWriters(e, k, d)
         /\ \A d, u : \A j \in 0 .. n :
                j \in ReviewWriters(c, d, u) <=> j \in ReviewWriters(e, d, u)
  <1>1. \A j \in 0 .. n : (j \in 1 .. Len(c) <=> j \in 1 .. Len(e))
                          /\ (j \in 1 .. Len(c) => e[j] = c[j])
    OBVIOUS
  <1>2. \A k : \A j \in 0 .. n : j \in Writers(c, k) <=> j \in Writers(e, k)
    BY <1>1 DEF Writers
  <1>3. \A k : \A j \in Writers(c, k) : j \in 1 .. Len(c)
    BY DEF Writers
  <1>4. \A k : \A j \in Writers(e, k) : j \in 1 .. Len(e)
    BY DEF Writers
  <1>5. \A k, u : \A j \in 0 .. n : j \in UserWriters(c, k, u) <=> j \in UserWriters(e, k, u)
    BY <1>1, <1>2, <1>3 DEF UserWriters
  <1>6. \A k, d : \A j \in 0 .. n : j \in DocWriters(c, k, d) <=> j \in DocWriters(e, k, d)
    BY <1>1, <1>2, <1>3 DEF DocWriters
  <1>7. \A d, u : \A j \in 0 .. n : j \in ReviewWriters(c, d, u) <=> j \in ReviewWriters(e, d, u)
    BY <1>1, <1>2, <1>3 DEF ReviewWriters
  <1>8. QED
    BY <1>2, <1>5, <1>6, <1>7

\* So a row stays where the chain put it when the chain grows.
LEMMA RowsLonger ==
  ASSUME NEW c, NEW e, NEW n \in Nat, Len(c) = n, Len(e) \in Nat, n <= Len(e),
         \A i \in 1 .. n : e[i] = c[i], NEW h \in 0 .. n, NEW q \in 0 .. n, NEW k
  PROVE  /\ \A p : PoolAt(p, c, h, k, q) => PoolAt(p, e, h, k, q)
         /\ \A D : DecisionsAt(D, c, h, q) => DecisionsAt(D, e, h, q)
         /\ \A m, u : MemberAt(m, c, u, h, k, q) => MemberAt(m, e, u, h, k, q)
         /\ \A S : VersionsAt(S, c, h, q) => VersionsAt(S, e, h, q)
         /\ \A r, d, u : ReviewAt(r, c, d, u, h, k, q) => ReviewAt(r, e, d, u, h, k, q)
         /\ \A r, d : DocumentAt(r, c, d, h, k, q) => DocumentAt(r, e, d, h, k, q)
  <1>1. /\ \A x : \A j \in 0 .. n : j \in Writers(c, x) <=> j \in Writers(e, x)
        /\ \A x, u : \A j \in 0 .. n : j \in UserWriters(c, x, u) <=> j \in UserWriters(e, x, u)
        /\ \A x, d : \A j \in 0 .. n : j \in DocWriters(c, x, d) <=> j \in DocWriters(e, x, d)
        /\ \A d, u : \A j \in 0 .. n : j \in ReviewWriters(c, d, u) <=> j \in ReviewWriters(e, d, u)
    BY LongerWriters
  <1>2. /\ \A x : Writers(c, x) \in SUBSET Nat /\ Writers(e, x) \in SUBSET Nat
        /\ \A x : \A j \in Writers(c, x) : j # 0
        /\ \A x : \A j \in Writers(e, x) : j # 0
    BY DEF Writers
  <1>3. /\ \A x, u : UserWriters(c, x, u) \in SUBSET Nat /\ UserWriters(e, x, u) \in SUBSET Nat
        /\ \A x, d : DocWriters(c, x, d) \in SUBSET Nat /\ DocWriters(e, x, d) \in SUBSET Nat
        /\ \A d, u : ReviewWriters(c, d, u) \in SUBSET Nat /\ ReviewWriters(e, d, u) \in SUBSET Nat
    BY <1>2 DEF UserWriters, DocWriters, ReviewWriters
  <1>4. \A j \in Nat : Applied(h, q, j) => j \in 0 .. n
    BY DEF Applied
  <1>5. ASSUME NEW W \in SUBSET Nat, NEW V \in SUBSET Nat, \A j \in 0 .. n : j \in W <=> j \in V,
               NEW i, LastWrite(W, h, k, q, i)
        PROVE  LastWrite(V, h, k, q, i) /\ i \in 0 .. n
    <2>1. LastWrite(V, h, k, q, i)
      BY <1>5, SameWrite
    <2>2. i \in W \union {0} /\ (i <= q \/ i <= h)
      BY <1>5 DEF LastWrite
    <2>3. i \in Nat
      <3>1. W \union {0} \subseteq Nat
        OBVIOUS
      <3>2. QED
        BY <2>2, <3>1
    <2>4. i \in 0 .. n
      BY <2>2, <2>3
    <2>5. QED
      BY <2>1, <2>4
  <1>6. \A j \in 1 .. n : e[j] = c[j]
    OBVIOUS
  <1>7. ASSUME NEW p, PoolAt(p, c, h, k, q) PROVE PoolAt(p, e, h, k, q)
    <2> DEFINE W == Writers(c, {"PoolStateChanged"})
               V == Writers(e, {"PoolStateChanged"})
    <2>1. PICK i : /\ LastWrite(W, h, k, q, i)
                   /\ (IF p = NoRow THEN "DRAFT" ELSE p) = IF i = 0 THEN "DRAFT" ELSE c[i].to
      BY <1>7 DEF PoolAt
    <2>2. LastWrite(V, h, k, q, i) /\ i \in 0 .. n
      BY <1>1, <1>2, <1>5, <2>1
    <2>3. i # 0 => e[i] = c[i]
      BY <1>6, <2>2
    <2>4. QED
      BY <2>1, <2>2, <2>3 DEF PoolAt
  <1>8. ASSUME NEW D, DecisionsAt(D, c, h, q) PROVE DecisionsAt(D, e, h, q)
    <2> DEFINE W == Writers(c, {"ICDecisionCreated"})
               V == Writers(e, {"ICDecisionCreated"})
    <2>1. \A j \in W : Applied(h, q, j) => j \in V /\ e[j] = c[j]
      BY <1>1, <1>2, <1>4, <1>6
    <2>2. \A j \in V : Applied(h, q, j) => j \in W /\ e[j] = c[j]
      BY <1>1, <1>2, <1>4, <1>6
    <2>3. QED
      BY <1>8, <2>1, <2>2 DEF DecisionsAt
  <1>9. ASSUME NEW m, NEW u, MemberAt(m, c, u, h, k, q) PROVE MemberAt(m, e, u, h, k, q)
    <2>1. CASE m = NoRow
      <3>1. \A j \in UserWriters(c, MemberKinds, u) : ~Applied(h, q, j)
        BY <1>9, <2>1 DEF MemberAt
      <3>2. \A j \in UserWriters(e, MemberKinds, u) : ~Applied(h, q, j)
        BY <1>1, <1>3, <1>4, <3>1
      <3>3. QED
        BY <2>1, <3>2 DEF MemberAt
    <2>2. CASE m # NoRow
      <3>1. PICK i \in RoleWriters(c, u) :
                    LastWrite(RoleWriters(c, u), h, k, q, i) /\ m.role = c[i].role
        BY <1>9, <2>2 DEF MemberAt
      <3>2. PICK a \in ActiveWriters(c, u) :
                    /\ LastWrite(ActiveWriters(c, u), h, k, q, a)
                    /\ m.active = (c[a].kind = "MemberAdded")
        BY <1>9, <2>2 DEF MemberAt
      <3>3. /\ LastWrite(RoleWriters(e, u), h, k, q, i) /\ i \in 0 .. n
            /\ i \in RoleWriters(e, u) /\ i # 0
        BY <1>1, <1>2, <1>3, <1>5, <3>1 DEF RoleWriters, UserWriters
      <3>4. /\ LastWrite(ActiveWriters(e, u), h, k, q, a) /\ a \in 0 .. n
            /\ a \in ActiveWriters(e, u) /\ a # 0
        BY <1>1, <1>2, <1>3, <1>5, <3>2 DEF ActiveWriters, UserWriters
      <3>5. e[i] = c[i] /\ e[a] = c[a]
        BY <1>6, <3>3, <3>4
      <3>6. QED
        BY <2>2, <3>1, <3>2, <3>3, <3>4, <3>5 DEF MemberAt
    <2>3. QED
      BY <2>1, <2>2
  <1>10. ASSUME NEW S, VersionsAt(S, c, h, q) PROVE VersionsAt(S, e, h, q)
    <2>1. \A x : \A j \in Writers(c, x) : Applied(h, q, j) => j \in Writers(e, x) /\ e[j] = c[j]
      BY <1>1, <1>2, <1>4, <1>6
    <2>2. \A x : \A j \in Writers(e, x) : Applied(h, q, j) => j \in Writers(c, x) /\ e[j] = c[j]
      BY <1>1, <1>2, <1>4, <1>6
    <2>3. QED
      BY <1>10, <2>1, <2>2 DEF VersionsAt
  <1>11. ASSUME NEW r, NEW d, NEW u, ReviewAt(r, c, d, u, h, k, q)
         PROVE  ReviewAt(r, e, d, u, h, k, q)
    <2>1. PICK i : /\ LastWrite(ReviewWriters(c, d, u), h, k, q, i)
                   /\ r = IF i = 0 THEN NoRow ELSE c[i].status
      BY <1>11 DEF ReviewAt
    <2>2. LastWrite(ReviewWriters(e, d, u), h, k, q, i) /\ i \in 0 .. n
      BY <1>1, <1>3, <1>5, <2>1
    <2>3. i # 0 => e[i] = c[i]
      BY <1>6, <2>2
    <2>4. QED
      BY <2>1, <2>2, <2>3 DEF ReviewAt
  <1>12. ASSUME NEW r, NEW d, DocumentAt(r, c, d, h, k, q) PROVE DocumentAt(r, e, d, h, k, q)
    <2>1. \A j \in DocWriters(c, VersionKinds, d) :
             Applied(h, q, j) => j \in DocWriters(e, VersionKinds, d)
      BY <1>1, <1>3, <1>4
    <2>2. \A j \in DocWriters(e, VersionKinds, d) :
             Applied(h, q, j) => j \in DocWriters(c, VersionKinds, d)
      BY <1>1, <1>3, <1>4
    <2>3. CASE r = NoRow
      BY <1>12, <2>2, <2>3 DEF DocumentAt
    <2>4. CASE r # NoRow
      <3>1. PICK i : /\ LastWrite(VersionWriters(c, d), h, k, q, i)
                     /\ r.current = IF i = 0 THEN 1 ELSE c[i].version
        BY <1>12, <2>4 DEF DocumentAt
      <3>2. LastWrite(VersionWriters(e, d), h, k, q, i) /\ i \in 0 .. n
        BY <1>1, <1>3, <1>5, <3>1 DEF VersionWriters
      <3>3. i # 0 => e[i] = c[i]
        BY <1>6, <3>2
      <3>4. \A j \in VersionWriters(e, d) :
               Applied(h, q, j) => j \in VersionWriters(c, d) /\ e[j] = c[j]
        BY <1>1, <1>2, <1>3, <1>4, <1>6 DEF VersionWriters, DocWriters
      <3>5. QED
        BY <1>12, <2>1, <2>4, <3>1, <3>2, <3>3, <3>4 DEF DocumentAt
    <2>5. QED
      BY <2>3, <2>4
  <1>13. QED
    BY <1>7, <1>8, <1>9, <1>10, <1>11, <1>12

\* Before the first event, empty tables are what zero events have made of them.
LEMMA FollowStarts ==
  ASSUME Init
  PROVE  FollowInv
  <1>1. /\ chain = <<>> /\ Len(chain) = 0 /\ db = EmptyDb /\ step = "poll"
        /\ cursor = 0 /\ faults = 0 /\ savedCursor = 0
    BY DEF Init, ChainInit, IndexerInit
  <1>2. Written = 0 /\ Informed = 0
    BY <1>1 DEF Written, Informed
  <1>3. Reach(0)
    BY <1>1, IndexerAssumption DEF Reach
  <1>4. /\ \A k : Writers(chain, k) = {}
        /\ \A k, u : UserWriters(chain, k, u) = {}
        /\ \A k, d : DocWriters(chain, k, d) = {}
        /\ \A d, u : ReviewWriters(chain, d, u) = {}
    BY <1>1 DEF Writers, UserWriters, DocWriters, ReviewWriters
  <1>5. LastWrite({}, 0, 0, 0, 0)
    BY DEF LastWrite
  <1>6. PoolAt(NoRow, chain, 0, 0, 0)
    BY <1>4, <1>5 DEF PoolAt
  <1>7. DecisionsAt({}, chain, 0, 0) /\ VersionsAt({}, chain, 0, 0)
    BY <1>4 DEF DecisionsAt, VersionsAt
  <1>8. \A u : MemberAt(NoRow, chain, u, 0, 0, 0)
    BY <1>4 DEF MemberAt
  <1>9. \A d, u : ReviewAt(NoRow, chain, d, u, 0, 0, 0)
    BY <1>4, <1>5 DEF ReviewAt
  <1>10. \A d : DocumentAt(NoRow, chain, d, 0, 0, 0)
    BY <1>4 DEF DocumentAt
  <1>11. /\ db.pool = NoRow /\ db.decisions = {} /\ db.versions = {}
         /\ \A u \in User : db.members[u] = NoRow
         /\ \A d \in Doc : db.documents[d] = NoRow
         /\ \A d \in Doc, u \in User : db.reviews[d][u] = NoRow
    BY <1>1 DEF EmptyDb
  <1>12. RowsFollow(0)
    BY <1>1, <1>2, <1>3, <1>6, <1>7, <1>8, <1>9, <1>11 DEF RowsFollow
  <1>13. DocumentsFollow(0)
    BY <1>1, <1>2, <1>3, <1>10, <1>11 DEF DocumentsFollow
  <1>14. QED
    BY <1>1, <1>12, <1>13 DEF FollowInv, Counted

\* A transaction.
LEMMA FollowGrows ==
  ASSUME IndexerInv, FollowInv, ChainNext, UNCHANGED indexerVars
  PROVE  FollowInv'
  <1> DEFINE c == chain
             e == chain'
             n == Len(chain)
  <1>1. /\ db' = db /\ savedCursor' = savedCursor /\ cursor' = cursor /\ pos' = pos
        /\ batchEnd' = batchEnd /\ step' = step /\ faults' = faults
    BY DEF indexerVars
  <1>2. /\ n \in Nat /\ Len(e) \in Nat /\ n <= Len(e) /\ emission' = emission
        /\ \A i \in 1 .. n : e[i] = c[i]
    BY ChainGrows DEF IndexerInv
  <1>3. /\ Written' = Written /\ Informed' = Informed
        /\ Written \in 0 .. n /\ Informed \in 0 .. n
    <2>1. /\ step # "poll" => pos \in 1 .. n
          /\ cursor \in 0 .. n
      BY <1>2, Handled DEF IndexerInv, LoopInv
    <2>2. QED
      BY <1>1, <1>2, <2>1 DEF Written, Informed
  <1>4. ASSUME NEW h \in Nat, Reach(h) PROVE Reach(h)' /\ h \in 0 .. n
    <2>1. h \in 0 .. n /\ h \in cursor .. n
      BY <1>2, <1>4 DEF Reach, IndexerInv, LoopInv
    <2>2. h \in cursor .. Len(e)
      BY <1>2, <2>1
    <2>3. QED
      BY <1>1, <1>4, <2>1, <2>2 DEF Reach
  <1>5. ASSUME NEW h \in Nat, RowsFollow(h) PROVE RowsFollow(h)'
    <2>1. Reach(h)' /\ h \in 0 .. n
      BY <1>4, <1>5 DEF RowsFollow
    <2> DEFINE q == Written
    <2>2. q \in 0 .. n
      BY <1>3
    <2>3. /\ PoolAt(db.pool, c, h, cursor, q) /\ DecisionsAt(db.decisions, c, h, q)
          /\ emission = "assumed" =>
                /\ \A u \in User : MemberAt(db.members[u], c, u, h, cursor, q)
                /\ VersionsAt(db.versions, c, h, q)
                /\ \A d \in Doc, u \in User : ReviewAt(db.reviews[d][u], c, d, u, h, cursor, q)
      BY <1>5 DEF RowsFollow
    <2> HIDE DEF q, c, e
    <2>4. /\ Len(c) = n
          /\ \A i \in 1 .. n : e[i] = c[i]
      BY <1>2 DEF c
    <2>5. /\ PoolAt(db.pool, e, h, cursor, q) /\ DecisionsAt(db.decisions, e, h, q)
          /\ emission = "assumed" =>
                /\ \A u \in User : MemberAt(db.members[u], e, u, h, cursor, q)
                /\ VersionsAt(db.versions, e, h, q)
                /\ \A d \in Doc, u \in User : ReviewAt(db.reviews[d][u], e, d, u, h, cursor, q)
      BY <1>2, <2>1, <2>2, <2>3, <2>4, RowsLonger
    <2>6. QED
      BY <1>1, <1>2, <1>3, <2>1, <2>5 DEF RowsFollow, q, e
  <1>6. ASSUME NEW h \in Nat, DocumentsFollow(h) PROVE DocumentsFollow(h)'
    <2>1. Reach(h)' /\ h \in 0 .. n
      BY <1>4, <1>6 DEF DocumentsFollow
    <2> DEFINE q == Informed
    <2>2. q \in 0 .. n
      BY <1>3
    <2>3. emission = "assumed" =>
              \A d \in Doc : DocumentAt(db.documents[d], c, d, h, cursor, q)
      BY <1>6 DEF DocumentsFollow
    <2> HIDE DEF q, c, e
    <2>4. /\ Len(c) = n
          /\ \A i \in 1 .. n : e[i] = c[i]
      BY <1>2 DEF c
    <2>5. emission = "assumed" =>
              \A d \in Doc : DocumentAt(db.documents[d], e, d, h, cursor, q)
      BY <1>2, <2>1, <2>2, <2>3, <2>4, RowsLonger
    <2>6. QED
      BY <1>1, <1>2, <1>3, <2>1, <2>5 DEF DocumentsFollow, q, e
  <1>7. QED
    BY <1>1, <1>5, <1>6 DEF FollowInv, Counted

\* A step of the loop.
LEMMA FollowLoop ==
  ASSUME IndexerInv, DenseInv, PlaceholderInv, FollowInv, UNCHANGED chainVars, Loop
  PROVE  FollowInv'
  <1>1. Counted' /\ (faults' = faults \/ faults' = faults + 1) /\ faults \in Nat /\ Counted
    BY CountedKept DEF FollowInv, Counted
  <1>2. ASSUME faults' <= 1 PROVE faults <= 1
    BY <1>1, <1>2
  <1>3. ASSUME faults' <= 1 PROVE \E h \in Nat : RowsFollow(h)'
    <2>1. PICK h \in Nat : RowsFollow(h)
      BY <1>2, <1>3 DEF FollowInv
    <2>2. Reach(h)
      BY <2>1 DEF RowsFollow
    <2>3. PICK h2 \in Nat : Reach(h2)' /\ Moved(h, h2)
      BY <1>1, <1>3, <2>2, WrittenMoves DEF Moved
    <2>4. PoolAt(db.pool, chain, h2, cursor, Written)'
      BY <2>1, <2>3, PoolColumn DEF RowsFollow
    <2>5. DecisionsAt(db.decisions, chain, h2, Written)'
      BY <2>1, <2>3, DecisionsColumn DEF RowsFollow
    <2>6. emission' = emission
      BY DEF chainVars
    <2>7. ASSUME emission = "assumed"
          PROVE  /\ \A u \in User : MemberAt(db.members[u], chain, u, h2, cursor, Written)'
                 /\ VersionsAt(db.versions, chain, h2, Written)'
                 /\ \A d \in Doc, u \in User :
                        ReviewAt(db.reviews[d][u], chain, d, u, h2, cursor, Written)'
      <3>1. \A u \in User : MemberAt(db.members[u], chain, u, h2, cursor, Written)'
        BY <2>1, <2>3, <2>7, MemberColumn DEF RowsFollow
      <3>2. VersionsAt(db.versions, chain, h2, Written)'
        BY <2>1, <2>3, <2>7, VersionsColumn DEF RowsFollow
      <3>3. \A d \in Doc, u \in User : ReviewAt(db.reviews[d][u], chain, d, u, h2, cursor, Written)'
        BY <2>1, <2>3, <2>7, ReviewColumn DEF RowsFollow
      <3>4. QED
        BY <3>1, <3>2, <3>3
    <2>8. RowsFollow(h2)'
      BY <2>3, <2>4, <2>5, <2>6, <2>7 DEF RowsFollow
    <2>9. QED
      BY <2>8
  <1>4. ASSUME faults' <= 1 PROVE \E h \in Nat : DocumentsFollow(h)'
    <2>1. PICK h \in Nat : DocumentsFollow(h)
      BY <1>2, <1>4 DEF FollowInv
    <2>2. Reach(h)
      BY <2>1 DEF DocumentsFollow
    <2>3. PICK h2 \in Nat : Reach(h2)' /\ Spread(h, h2)
      BY <1>1, <1>4, <2>2, InformedMoves DEF Spread
    <2>4. emission' = emission
      BY DEF chainVars
    <2>5. ASSUME emission = "assumed"
          PROVE  \A d \in Doc : DocumentAt(db.documents[d], chain, d, h2, cursor, Informed)'
      BY <2>1, <2>3, <2>5, DocumentColumn DEF DocumentsFollow
    <2>6. DocumentsFollow(h2)'
      BY <2>3, <2>4, <2>5 DEF DocumentsFollow
    <2>7. QED
      BY <2>6
  <1>5. QED
    BY <1>1, <1>3, <1>4 DEF FollowInv

-----------------------------------------------------------------------------
(* What that says when a batch went through *)

\* The last writer up to b, when an earlier pass did not come further, is the greatest of
\* the places S of the writers up to b.
LEMMA LastPlace ==
  ASSUME NEW W \in SUBSET Nat, 0 \notin W, NEW S \in SUBSET Nat, NEW h \in Nat, NEW c \in Nat,
         NEW b \in Nat, c <= h, h <= b, \A j \in Nat : j \in S <=> j \in W /\ j <= b,
         NEW i, LastWrite(W, h, c, b, i)
  PROVE  /\ i = 0 => S = {}
         /\ i # 0 => /\ i \in S /\ S # {} /\ Last(S) = i
                     /\ \A j \in S : j <= i
  <1>1. i \in W \union {0} /\ i <= b /\ \A j \in W : j <= b => j <= i
    BY LatestWrite
  <1>2. ASSUME i = 0 PROVE S = {}
    <2>1. \A j \in S : j \in W /\ j <= 0
      BY <1>1, <1>2
    <2>2. \A j \in S : j = 0
      BY <2>1
    <2>3. QED
      BY <2>1, <2>2
  <1>3. ASSUME i # 0 PROVE i \in S /\ S # {} /\ Last(S) = i /\ \A j \in S : j <= i
    <2>1. i \in S /\ \A j \in S : j <= i
      BY <1>1, <1>3
    <2>2. QED
      BY <2>1, GreatestIsLast
  <1>4. QED
    BY <1>2, <1>3

\* The pool's state and its decisions.
LEMMA PoolFollows ==
  ASSUME NEW b \in Nat, NEW h \in Nat, NEW c \in Nat, Len(chain) \in Nat, b <= Len(chain),
         c <= h, h <= b
  PROVE  /\ \A p : PoolAt(p, chain, h, c, b) /\ p # NoRow => p = StateAfter(b)
         /\ \A D : DecisionsAt(D, chain, h, b) => D = DecisionsAfter(b)
  <1>1. ASSUME NEW p, PoolAt(p, chain, h, c, b), p # NoRow PROVE p = StateAfter(b)
    <2> DEFINE W == Writers(chain, {"PoolStateChanged"})
               S == Places(b, {"PoolStateChanged"})
    <2>1. /\ W \in SUBSET Nat /\ S \in SUBSET Nat /\ 0 \notin W
          /\ \A j \in Nat : j \in S <=> j \in W /\ j <= b
      BY DEF Writers, Places
    <2>2. PICK i : LastWrite(W, h, c, b, i) /\ p = IF i = 0 THEN "DRAFT" ELSE chain[i].to
      BY <1>1 DEF PoolAt
    <2> HIDE DEF W
    <2>3. (i = 0 => S = {}) /\ (i # 0 => S # {} /\ Last(S) = i)
      <3> HIDE DEF S
      <3>1. /\ i = 0 => S = {}
            /\ i # 0 => /\ i \in S /\ S # {} /\ Last(S) = i
                        /\ \A j \in S : j <= i
        BY <2>1, <2>2, LastPlace
      <3>2. QED
        BY <3>1
    <2>4. StateAfter(b) = IF S = {} THEN "DRAFT" ELSE chain[Last(S)].to
      BY DEF StateAfter
    <2> HIDE DEF S
    <2>5. QED
      BY <2>2, <2>3, <2>4
  <1>2. ASSUME NEW D, DecisionsAt(D, chain, h, b) PROVE D = DecisionsAfter(b)
    <2>1. \A j \in Nat : Applied(h, b, j) <=> j <= b
      BY DEF Applied
    <2>2. \A j : (j \in Writers(chain, {"ICDecisionCreated"}) /\ Applied(h, b, j)) <=>
                    j \in Places(b, {"ICDecisionCreated"})
      BY <2>1 DEF Writers, Places
    <2>3. \A p : p \in DecisionsAfter(b) <=>
                    \E j \in Places(b, {"ICDecisionCreated"}) :
                        p = <<chain[j].index, chain[j].type>>
      BY DEF DecisionsAfter
    <2>4. \A p : p \in D <=> p \in DecisionsAfter(b)
      BY <1>2, <2>2, <2>3 DEF DecisionsAt
    <2>5. QED
      BY <2>4
  <1>3. QED
    BY <1>1, <1>2

\* A member's row.
LEMMA MemberFollows ==
  ASSUME NEW b \in Nat, NEW h \in Nat, NEW c \in Nat, Len(chain) \in Nat, b <= Len(chain),
         c <= h, h <= b, NEW u, NEW m \in Row(MemberRow), MemberAt(m, chain, u, h, c, b)
  PROVE  IF MemberPlaces(b, u) = {} THEN m = NoRow
         ELSE m = [role |-> RoleAfter(b, u), active |-> ActiveAfter(b, u)]
  <1> DEFINE S == MemberPlaces(b, u)
             W == UserWriters(chain, MemberKinds, u)
             R == RoleWriters(chain, u)
             A == ActiveWriters(chain, u)
             SR == {i \in MemberPlaces(b, u) : chain[i].kind # "MemberRemoved"}
             SA == {i \in MemberPlaces(b, u) : chain[i].kind # "MemberRoleUpdated"}
  <1>1. /\ \A j \in Nat : j \in S <=> j \in W /\ j <= b
        /\ S \in SUBSET Nat /\ W \in SUBSET Nat
    BY DEF MemberPlaces, Places, UserWriters, Writers
  <1>2. /\ \A j \in Nat : j \in SR <=> j \in R /\ j <= b
        /\ SR \in SUBSET Nat /\ R \in SUBSET Nat /\ 0 \notin R /\ SR \subseteq S
    BY DEF MemberPlaces, Places, RoleWriters, UserWriters, Writers, MemberKinds
  <1>3. /\ \A j \in Nat : j \in SA <=> j \in A /\ j <= b
        /\ SA \in SUBSET Nat /\ A \in SUBSET Nat /\ 0 \notin A /\ SA \subseteq S
    BY DEF MemberPlaces, Places, ActiveWriters, UserWriters, Writers, MemberKinds
  <1>4. RoleAfter(b, u) = chain[Last(SR)].role
    BY DEF RoleAfter
  <1>5. ActiveAfter(b, u) = (SA # {} /\ chain[Last(SA)].kind = "MemberAdded")
    BY DEF ActiveAfter
  <1> HIDE DEF SR, SA
  <1>6. CASE m = NoRow
    <2>1. \A j \in W : ~Applied(h, b, j)
      BY <1>6 DEF MemberAt
    <2>2. S = {}
      BY <1>1, <2>1 DEF Applied
    <2>3. QED
      BY <1>6, <2>2
  <1>7. CASE m # NoRow
    <2>1. PICK i \in R : LastWrite(R, h, c, b, i) /\ m.role = chain[i].role
      BY <1>7 DEF MemberAt
    <2>2. PICK a \in A : LastWrite(A, h, c, b, a) /\ m.active = (chain[a].kind = "MemberAdded")
      BY <1>7 DEF MemberAt
    <2> HIDE DEF S, W, R, A
    <2>3. i # 0 /\ a # 0
      BY <1>2, <1>3
    <2>4. i \in SR /\ Last(SR) = i
      BY <1>2, <2>1, <2>3, LastPlace
    <2>5. SA # {} /\ Last(SA) = a
      BY <1>3, <2>2, <2>3, LastPlace
    <2>6. S # {}
      BY <1>2, <2>4
    <2>7. m.role = RoleAfter(b, u)
      BY <1>4, <2>1, <2>4
    <2>8. m.active = ActiveAfter(b, u)
      BY <1>5, <2>2, <2>5
    <2>9. m = [role |-> m.role, active |-> m.active]
      BY <1>7 DEF Row, MemberRow
    <2>10. m = [role |-> RoleAfter(b, u), active |-> ActiveAfter(b, u)]
      BY <2>7, <2>8, <2>9
    <2>11. QED
      BY <2>6, <2>10 DEF S
  <1>8. QED
    BY <1>6, <1>7

\* A review.
LEMMA ReviewFollows ==
  ASSUME NEW b \in Nat, NEW h \in Nat, NEW c \in Nat, Len(chain) \in Nat, b <= Len(chain),
         c <= h, h <= b, NEW d, NEW u, NEW r, ReviewAt(r, chain, d, u, h, c, b)
  PROVE  r = IF ReviewPlaces(b, d, u) = {} THEN NoRow ELSE chain[Last(ReviewPlaces(b, d, u))].status
  <1> DEFINE W == ReviewWriters(chain, d, u)
             S == ReviewPlaces(b, d, u)
  <1>1. /\ W \in SUBSET Nat /\ S \in SUBSET Nat /\ 0 \notin W
        /\ \A j \in Nat : j \in S <=> j \in W /\ j <= b
    BY DEF ReviewWriters, Writers, ReviewPlaces, Places
  <1>2. PICK i : LastWrite(W, h, c, b, i) /\ r = IF i = 0 THEN NoRow ELSE chain[i].status
    BY DEF ReviewAt
  <1> HIDE DEF W, S
  <1>3. /\ i = 0 => S = {}
        /\ i # 0 => /\ i \in S /\ S # {} /\ Last(S) = i
                    /\ \A j \in S : j <= i
    BY <1>1, <1>2, LastPlace
  <1>4. r = IF S = {} THEN NoRow ELSE chain[Last(S)].status
    BY <1>2, <1>3
  <1>5. QED
    BY <1>4 DEF S

\* A document's row and its versions.
LEMMA DocumentFollows ==
  ASSUME NEW b \in Nat, NEW h \in Nat, NEW c \in Nat, Len(chain) \in Nat, b <= Len(chain),
         c <= h, h <= b, DenseInv, NEW d \in Doc, NEW r \in Row(DocumentRow), NEW T,
         DocumentAt(r, chain, d, h, c, b), VersionsAt(T, chain, h, b)
  PROVE  LET n == VersionsAfter(b, d) IN
         /\ IF n = 0 THEN r = NoRow ELSE r.current = n /\ r.count >= n
         /\ \A v \in 2 .. n : <<d, v>> \in T
         /\ \A p \in T : p[1] = d => p[2] <= n
  <1> DEFINE n == VersionsAfter(b, d)
             S == DocPlaces(chain, b, d)
             W == DocWriters(chain, VersionKinds, d)
             V == VersionWriters(chain, d)
  <1>1. n = Cardinality(S)
    <2>1. S = {i \in Places(b, {"DocumentCreated", "DocumentVersionAdded"}) : chain[i].doc = d}
      BY DEF DocPlaces, Places, VersionKinds
    <2>2. QED
      BY <2>1 DEF VersionsAfter
  <1>2. IsFiniteSet(S) /\ S \in SUBSET Nat /\ n \in Nat
    BY <1>1, DocPlacesFinite
  <1>3. Dense(chain, S)
    BY DEF DenseInv
  <1>4. /\ \A j \in Nat : j \in S <=> j \in W /\ j <= b
        /\ \A j \in Nat : j \in V /\ j <= b <=> j \in S /\ chain[j].kind = "DocumentVersionAdded"
        /\ W \in SUBSET Nat /\ V \in SUBSET Nat /\ 0 \notin V
    BY DEF DocPlaces, DocWriters, VersionWriters, Writers, VersionKinds
  <1>5. \A j \in Nat : Applied(h, b, j) <=> j <= b
    BY DEF Applied
  <1>6. n = 0 <=> S = {}
    BY <1>1, <1>2, FS_EmptySet
  <1>7. /\ \A j \in S : chain[j].kind = "DocumentVersionAdded" => chain[j].version \in 2 .. n
        /\ \A v \in 2 .. n :
              \E j \in S : chain[j].kind = "DocumentVersionAdded" /\ chain[j].version = v
        /\ \A i \in S : /\ chain[i].kind = "DocumentVersionAdded"
                        /\ \A j \in S : chain[j].kind = "DocumentVersionAdded" => j <= i
                        => chain[i].version = n
    BY <1>1, <1>3 DEF Dense
  <1>8. r = NoRow <=> S = {}
    <2>1. ASSUME r = NoRow PROVE S = {}
      <3>1. \A j \in W : ~Applied(h, b, j)
        BY <2>1 DEF DocumentAt
      <3>2. QED
        BY <1>2, <1>4, <1>5, <3>1
    <2>2. ASSUME r # NoRow PROVE S # {}
      <3>1. \E j \in W : Applied(h, b, j)
        BY <2>2 DEF DocumentAt
      <3>2. QED
        BY <1>4, <1>5, <3>1
    <2>3. QED
      BY <2>1, <2>2
  <1>9. ASSUME n # 0 PROVE r.current = n /\ r.count >= n
    <2>1. PICK i : LastWrite(V, h, c, b, i) /\ r.current = IF i = 0 THEN 1 ELSE chain[i].version
      BY <1>6, <1>8, <1>9 DEF DocumentAt
    <2>2. r.count >= 1 /\ \A j \in V : Applied(h, b, j) => r.count >= chain[j].version
      BY <1>6, <1>8, <1>9 DEF DocumentAt
    <2> DEFINE SV == {j \in S : chain[j].kind = "DocumentVersionAdded"}
    <2>3. SV \in SUBSET Nat /\ \A j \in Nat : j \in SV <=> j \in V /\ j <= b
      BY <1>2, <1>4
    <2> HIDE DEF SV
    <2>4. (i = 0 => SV = {}) /\ (i # 0 => i \in SV /\ \A j \in SV : j <= i)
      <3> HIDE DEF V
      <3>1. QED
        BY <1>4, <2>1, <2>3, LastPlace
    <2>5. r.current = n
      <3>1. CASE i = 0
        <4>1. ~(2 <= n)
          <5>1. SUFFICES ASSUME 2 <= n PROVE FALSE
            OBVIOUS
          <5>2. 2 \in 2 .. n
            BY <1>2, <5>1
          <5>3. QED
            BY <1>7, <2>4, <3>1, <5>2 DEF SV
        <4>2. QED
          BY <1>2, <1>9, <2>1, <3>1, <4>1
      <3>2. CASE i # 0
        <4>1. i \in S /\ chain[i].kind = "DocumentVersionAdded"
          BY <2>4, <3>2 DEF SV
        <4>2. \A j \in S : chain[j].kind = "DocumentVersionAdded" => j <= i
          BY <2>4, <3>2 DEF SV
        <4>3. QED
          BY <1>7, <2>1, <3>2, <4>1, <4>2
      <3>3. QED
        BY <3>1, <3>2
    <2>6. r.count >= n
      <3>1. CASE n = 1
        BY <2>2, <3>1
      <3>2. CASE n # 1
        <4>1. n \in 2 .. n
          BY <1>2, <1>9, <3>2
        <4>2. PICK j \in S : chain[j].kind = "DocumentVersionAdded" /\ chain[j].version = n
          BY <1>7, <4>1
        <4>3. j \in V /\ Applied(h, b, j)
          BY <1>2, <1>4, <1>5, <4>2
        <4>4. QED
          BY <2>2, <4>2, <4>3
      <3>3. QED
        BY <3>1, <3>2
    <2>7. QED
      BY <2>5, <2>6
  <1>10. ASSUME NEW v \in 2 .. n PROVE <<d, v>> \in T
    <2>1. PICK j \in S : chain[j].kind = "DocumentVersionAdded" /\ chain[j].version = v
      BY <1>7
    <2>2. /\ j \in Writers(chain, {"DocumentVersionAdded"}) /\ Applied(h, b, j)
          /\ chain[j].doc = d
      BY <1>2, <1>4, <1>5, <2>1 DEF VersionWriters, DocWriters
    <2>3. QED
      BY <2>1, <2>2 DEF VersionsAt
  <1>11. ASSUME NEW p \in T, p[1] = d PROVE p[2] <= n
    <2>1. PICK j \in Writers(chain, VersionKinds) :
             /\ Applied(h, b, j)
             /\ p = <<chain[j].doc,
                      IF chain[j].kind = "DocumentCreated" THEN 1 ELSE chain[j].version>>
      BY DEF VersionsAt
    <2>2. /\ chain[j].doc = d
          /\ p[2] = IF chain[j].kind = "DocumentCreated" THEN 1 ELSE chain[j].version
      BY <1>11, <2>1
    <2>3. j \in S /\ chain[j].kind \in VersionKinds
      BY <1>4, <1>5, <2>1, <2>2 DEF DocWriters, Writers
    <2>4. CASE chain[j].kind = "DocumentCreated"
      <3>1. n # 0
        BY <1>6, <2>3
      <3>2. QED
        BY <1>2, <2>2, <2>4, <3>1
    <2>5. CASE chain[j].kind = "DocumentVersionAdded"
      <3>1. chain[j].version \in 2 .. n /\ p[2] = chain[j].version
        BY <1>7, <2>2, <2>3, <2>5
      <3>2. QED
        BY <1>2, <3>1
    <2>6. QED
      BY <2>3, <2>4, <2>5 DEF VersionKinds
  <1>12. QED
    BY <1>6, <1>8, <1>9, <1>10, <1>11

\* At the end of a batch the present pass has covered whatever the earlier one wrote (Reach),
\* so that every column shows the last of its writers up to there.
LEMMA BatchFollows ==
  ASSUME IndexerInv, DenseInv, FollowInv
  PROVE  TablesFollowChain
  <1> SUFFICES ASSUME BatchDone, faults <= 1
               PROVE  /\ db.pool # NoRow => db.pool = StateAfter(batchEnd)
                      /\ db.pool # NoRow => db.decisions = DecisionsAfter(batchEnd)
                      /\ emission = "assumed" =>
                            /\ \A u \in User : MemberMatches(u)
                            /\ \A d \in Doc : DocumentMatches(d)
                            /\ \A d \in Doc, u \in User : ReviewMatches(d, u)
    BY DEF TablesFollowChain
  <1> DEFINE b == batchEnd
  <1>1. /\ step \in {"save", "advance"} /\ b \in Nat /\ b <= Len(chain) /\ Len(chain) \in Nat
        /\ cursor \in Nat /\ db \in Tables /\ Written = b /\ Informed = b
    BY LenProperties DEF BatchDone, IndexerInv, LoopInv, TablesInv, ChainInv, Written, Informed
  <1>2. PICK h \in Nat : RowsFollow(h)
    BY DEF FollowInv
  <1>3. PICK g \in Nat : DocumentsFollow(g)
    BY DEF FollowInv
  <1>4. ASSUME NEW x \in Nat, Reach(x) PROVE cursor <= x /\ x <= b
    BY <1>1, <1>4 DEF Reach
  <1>5. cursor <= h /\ h <= b /\ cursor <= g /\ g <= b
    BY <1>2, <1>3, <1>4 DEF RowsFollow, DocumentsFollow
  <1>6. /\ PoolAt(db.pool, chain, h, cursor, b) /\ DecisionsAt(db.decisions, chain, h, b)
        /\ emission = "assumed" =>
              /\ \A u \in User : MemberAt(db.members[u], chain, u, h, cursor, b)
              /\ VersionsAt(db.versions, chain, h, b)
              /\ \A d \in Doc, u \in User : ReviewAt(db.reviews[d][u], chain, d, u, h, cursor, b)
    BY <1>1, <1>2 DEF RowsFollow
  <1>7. emission = "assumed" =>
            \A d \in Doc : DocumentAt(db.documents[d], chain, d, g, cursor, b)
    BY <1>1, <1>3 DEF DocumentsFollow
  <1>8. /\ \A u \in User : db.members[u] \in Row(MemberRow)
        /\ \A d \in Doc : db.documents[d] \in Row(DocumentRow)
    BY <1>1 DEF Tables
  <1> HIDE DEF b
  <1>9. /\ db.pool # NoRow => db.pool = StateAfter(b)
        /\ db.decisions = DecisionsAfter(b)
    BY <1>1, <1>5, <1>6, PoolFollows
  <1>10. ASSUME emission = "assumed", NEW u \in User PROVE MemberMatches(u)
    <2>1. IF MemberPlaces(b, u) = {} THEN db.members[u] = NoRow
          ELSE db.members[u] = [role |-> RoleAfter(b, u), active |-> ActiveAfter(b, u)]
      BY <1>1, <1>5, <1>6, <1>8, <1>10, MemberFollows
    <2>2. QED
      BY <2>1 DEF MemberMatches, b
  <1>11. ASSUME emission = "assumed", NEW d \in Doc PROVE DocumentMatches(d)
    <2>1. VersionsAt(db.versions, chain, g, b)
      <3>1. \A j \in Nat : Applied(h, b, j) <=> Applied(g, b, j)
        BY <1>1, <1>5 DEF Applied
      <3>2. \A k : Writers(chain, k) \subseteq Nat
        BY <1>1 DEF Writers
      <3>3. VersionsAt(db.versions, chain, h, b)
        BY <1>6, <1>11
      <3>4. QED
        BY <3>1, <3>2, <3>3 DEF VersionsAt
    <2>2. LET n == VersionsAfter(b, d) IN
          /\ IF n = 0 THEN db.documents[d] = NoRow
             ELSE db.documents[d].current = n /\ db.documents[d].count >= n
          /\ \A v \in 2 .. n : <<d, v>> \in db.versions
          /\ \A p \in db.versions : p[1] = d => p[2] <= n
      BY <1>1, <1>5, <1>7, <1>8, <1>11, <2>1, DocumentFollows
    <2>3. QED
      BY <2>2 DEF DocumentMatches, b
  <1>12. ASSUME emission = "assumed", NEW d \in Doc, NEW u \in User PROVE ReviewMatches(d, u)
    <2>1. db.reviews[d][u] = IF ReviewPlaces(b, d, u) = {} THEN NoRow
                             ELSE chain[Last(ReviewPlaces(b, d, u))].status
      BY <1>1, <1>5, <1>6, <1>12, ReviewFollows
    <2>2. QED
      BY <2>1 DEF ReviewMatches, b
  <1>13. QED
    BY <1>9, <1>10, <1>11, <1>12 DEF b

\* The tables follow the chain because the loop is in order, the versions are numbered in
\* sequence, and nothing is in the tables but what the two passes wrote.
ReplayInv == IndexerInv /\ DenseInv /\ PlaceholderInv /\ FollowInv

\* Every transaction and every step, failure or crash of the indexer keeps all of it.
LEMMA ReplayNext ==
  ASSUME ReplayInv, [Next]_vars
  PROVE  ReplayInv'
  <1>1. IndexerInv /\ DenseInv /\ PlaceholderInv /\ FollowInv /\ ChainInv
    BY DEF ReplayInv, IndexerInv
  <1>2. IndexerInv'
    BY <1>1, IndexerNext
  <1>3. CASE ChainNext /\ UNCHANGED indexerVars
    <2>1. DenseInv'
      BY <1>1, <1>3, DenseKept
    <2>2. PlaceholderInv'
      BY <1>1, <1>3 DEF PlaceholderInv, indexerVars
    <2>3. FollowInv'
      BY <1>1, <1>3, FollowGrows
    <2>4. QED
      BY <1>2, <2>1, <2>2, <2>3 DEF ReplayInv
  <1>4. CASE Loop /\ UNCHANGED chainVars
    <2>1. DenseInv'
      BY <1>1, <1>4 DEF DenseInv, chainVars
    <2>2. PlaceholderInv'
      BY <1>1, <1>4, PlaceholderKept
    <2>3. FollowInv'
      BY <1>1, <1>4, FollowLoop
    <2>4. QED
      BY <1>2, <2>1, <2>2, <2>3 DEF ReplayInv
  <1>5. CASE UNCHANGED vars
    <2>1. /\ chain' = chain /\ emission' = emission /\ db' = db /\ savedCursor' = savedCursor
          /\ cursor' = cursor /\ pos' = pos /\ batchEnd' = batchEnd /\ step' = step
          /\ faults' = faults
      BY <1>5 DEF vars, chainVars, indexerVars
    <2>2. DenseInv' /\ PlaceholderInv'
      BY <1>1, <2>1 DEF DenseInv, PlaceholderInv
    <2>3. Written' = Written /\ Informed' = Informed
      BY <2>1 DEF Written, Informed
    <2>4. \A h : Reach(h)' <=> Reach(h)
      BY <2>1 DEF Reach
    <2>5. FollowInv'
      BY <1>1, <2>1, <2>3, <2>4 DEF FollowInv, Counted, RowsFollow, DocumentsFollow
    <2>6. QED
      BY <1>2, <2>2, <2>5 DEF ReplayInv
  <1>6. QED
    BY <1>3, <1>4, <1>5 DEF Next, Loop

\* At the end of a batch, of which one pass may have failed anywhere and been replayed, every
\* table shows the state the chain has up to there: the loop of indexer.ts resumes no later than
\* at the first event whose effects are in doubt, and the handlers overwrite what they find, but
\* for version_count, which a replay can only make too high.
THEOREM TablesFollow == Spec => []TablesFollowChain
  <1>1. Init => ReplayInv
    BY IndexerStarts, DenseStarts, PlaceholderStarts, FollowStarts DEF ReplayInv, Init
  <1>2. ReplayInv /\ [Next]_vars => ReplayInv'
    BY ReplayNext
  <1>3. ReplayInv => TablesFollowChain
    BY BatchFollows DEF ReplayInv
  <1>4. QED
    BY <1>1, <1>2, <1>3, PTL DEF Spec
=============================================================================

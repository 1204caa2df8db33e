---------------------------- MODULE Indexer_proofs ----------------------------
(***************************************************************************)
(* Proofs about Indexer: for chains of any length, of either emission, any *)
(* batches, and any number of failures and crashes.                        *)
(***************************************************************************)
EXTENDS Indexer, FiniteSetTheorems, SequenceTheorems, TLAPS

-----------------------------------------------------------------------------
(* The chain *)

Events ==
    [kind : {"PoolCreated", "DataRoomCreated", "PoolCancelled", "AuditEvent"}]
    \union [kind : {"PoolStateChanged"}, to : PoolStates]
    \union [kind : {"MemberAdded", "MemberRoleUpdated"}, room : {"pool", "room"}, user : User,
            role : SUBSET Roles]
    \union [kind : {"MemberRemoved"}, room : {"pool", "room"}, user : User]
    \union [kind : {"DocumentCreated", "DocumentVersionAdded"}, doc : Doc, version : Nat]
    \union [kind : {"DocumentReviewed"}, doc : Doc, user : User, status : ReviewStatuses]
    \union [kind : {"DocumentArchived"}, doc : Doc]
    \union [kind : {"ICDecisionCreated"}, index : Nat, type : ICDecisionTypes]

\* What event e of chain c presupposes among the n events before it, and the room it names:
\* f is the one of the member events.
Follows(c, f, e, n) ==
    /\ e.kind \in {"MemberAdded", "MemberRemoved"} => e.room = f
    /\ e.kind = "MemberRoleUpdated" => e.room = "room"
    /\ e.kind \in {"MemberRemoved", "MemberRoleUpdated"} =>
           \E j \in 1 .. n : c[j].kind = "MemberAdded" /\ c[j].user = e.user
    /\ e.kind \in {"DocumentVersionAdded", "DocumentReviewed"} =>
           \E j \in 1 .. n : c[j].kind = "DocumentCreated" /\ c[j].doc = e.doc

\* A chain that is not empty starts with the events of create_pool.
Opened ==
    chain # <<>> =>
        /\ Len(chain) >= 3
        /\ emission = "package" => /\ chain[1].kind = "DataRoomCreated"
                                   /\ chain[2].kind = "MemberAdded"
                                   /\ chain[3].kind = "PoolCreated"
        /\ emission = "assumed" => /\ chain[1].kind = "PoolCreated"
                                   /\ chain[2].kind = "DataRoomCreated"
                                   /\ chain[3].kind = "MemberAdded"

\* The decisions are numbered in the order of their recording.
Numbered ==
    LET D == DecisionsAfter(Len(chain)) IN
    /\ IsFiniteSet(D)
    /\ \A p \in D : p[1] < Cardinality(D)
    /\ \A p, q \in D : p[1] = q[1] => p = q

ChainInv ==
    /\ emission \in {"package", "assumed"}
    /\ chain \in Seq(Events)
    /\ Opened /\ Numbered
    /\ \A i \in 1 .. Len(chain) : Follows(chain, MemberRoomField, chain[i], i - 1)

VersionKinds == {"DocumentCreated", "DocumentVersionAdded"}

\* A transaction starts with the document it creates, or with the version it adds: e is its
\* event number k.
InOrder(e, k) ==
    /\ e.kind \in VersionKinds => k = 1
    /\ e.kind = "DocumentCreated" => Versions(e.doc) = 0
    /\ e.kind = "DocumentVersionAdded" =>
           Versions(e.doc) > 0 /\ e.version = Versions(e.doc) + 1

\* A transaction whose events are such.
Emits ==
    \E new \in Seq(Events) : /\ Emit(new)
                             /\ \A k \in 1 .. Len(new) : InOrder(new[k], k)

-----------------------------------------------------------------------------
(* The tables and the loop *)

Tables ==
    [pool : Row(PoolRow), room : Row(RoomRow), members : [User -> Row(MemberRow)],
     documents : [Doc -> Row(DocumentRow)], versions : SUBSET VersionRow,
     reviews : [Doc -> [User -> Row(ReviewRow)]], decisions : SUBSET DecisionRow,
     audit : SUBSET Nat]

\* Rows of the trail are of events, the room hangs on the pool when that comes first, and
\* the decisions are the chain's.
TablesInv ==
    /\ db \in Tables
    /\ db.audit \subseteq AuditRow
    /\ emission = "assumed" => db.room # "sentinel"
    /\ db.decisions \subseteq DecisionsAfter(Len(chain))

\* Where the loop is.
LoopInv ==
    /\ step \in Steps /\ pos \in Nat /\ batchEnd \in Nat
    /\ savedCursor \in 0 .. Len(chain) /\ cursor \in 0 .. savedCursor
    /\ IF step = "poll" THEN pos = 0 /\ batchEnd = 0
       ELSE /\ pos \in cursor + 1 .. batchEnd
            /\ batchEnd <= Len(chain) /\ batchEnd <= cursor + BatchLimit
    /\ step \in {"save", "advance"} => pos = batchEnd
    /\ step = "advance" => savedCursor = batchEnd

\* The events that get an audit row: handled, and not among those that are dropped.
Kept(em, e) ==
    /\ e.kind \in HandledKinds
    /\ em = "package" => e.kind \notin {"MemberAdded", "MemberRemoved", "DocumentCreated",
                                        "DocumentVersionAdded", "DocumentReviewed"}

Audited(i) == Kept(emission, chain[i]) => i \in db.audit

\* Projected for tables t.
In(t, e) ==
    /\ e.kind = "PoolCreated" => t.pool # NoRow
    /\ e.kind = "DataRoomCreated" => t.room # NoRow
    /\ e.kind \in {"MemberAdded", "MemberRemoved"} => t.members[e.user] # NoRow
    /\ e.kind = "DocumentCreated" => t.documents[e.doc] # NoRow
    /\ e.kind = "DocumentVersionAdded" => <<e.doc, e.version>> \in t.versions
    /\ e.kind = "DocumentReviewed" => t.reviews[e.doc][e.user] # NoRow
    /\ e.kind = "ICDecisionCreated" => <<e.index, e.type>> \in t.decisions

\* The loop leaves no event behind without its audit row, which comes after the
\* projection.
TrailInv ==
    /\ \A i \in 1 .. savedCursor : Audited(i)
    /\ step # "poll" => \A i \in 1 .. pos - 1 : Audited(i)
    /\ step \in {"save", "advance"} => Audited(pos)
    /\ step = "version" => Event.kind = "DocumentCreated"
    /\ step = "info" => Event.kind = "DocumentVersionAdded" /\ db.documents[Event.doc] # NoRow
    /\ step \in {"version", "info", "audit"} => In(db, Event)
    /\ \A i \in db.audit : In(db, chain[i])

IndexerInv == ChainInv /\ TablesInv /\ LoopInv /\ TrailInv

\* No row disappears.
Grown(t, n) ==
    /\ n.pool = NoRow => t.pool = NoRow
    /\ n.room = NoRow => t.room = NoRow
    /\ \A u \in User : n.members[u] = NoRow => t.members[u] = NoRow
    /\ \A d \in Doc : n.documents[d] = NoRow => t.documents[d] = NoRow
    /\ t.versions \subseteq n.versions
    /\ \A d \in Doc, u \in User : n.reviews[d][u] = NoRow => t.reviews[d][u] = NoRow
    /\ t.decisions \subseteq n.decisions

-----------------------------------------------------------------------------
(* The transactions *)

\* What the fields of an event hold.
LEMMA EventFields ==
  ASSUME NEW e \in Events
  PROVE  /\ e.kind = "PoolStateChanged" => e.to \in PoolStates
         /\ e.kind \in MemberKinds => e.user \in User
         /\ e.kind \in {"MemberAdded", "MemberRoleUpdated"} => e.role \in SUBSET Roles
         /\ e.kind \in {"DocumentCreated", "DocumentVersionAdded"} =>
                e.doc \in Doc /\ e.version \in Nat
         /\ e.kind = "DocumentReviewed" =>
                e.doc \in Doc /\ e.user \in User /\ e.status \in ReviewStatuses
         /\ e.kind = "ICDecisionCreated" => e.index \in Nat /\ e.type \in ICDecisionTypes
  BY DEF Events, MemberKinds

\* The events of events.move are such events.
LEMMA EventsTyped ==
  ASSUME emission \in {"package", "assumed"}
  PROVE  /\ {PoolCreated, DataRoomCreated, PoolCancelled, AuditEvent} \subseteq Events
         /\ \A s \in PoolStates : PoolStateChanged(s) \in Events
         /\ \A u \in User, r \in SUBSET Roles :
               MemberAdded(u, r) \in Events /\ MemberRoleUpdated(u, r) \in Events
         /\ \A u \in User : MemberRemoved(u) \in Events
         /\ \A d \in Doc : DocumentCreated(d) \in Events /\ DocumentArchived(d) \in Events
         /\ \A d \in Doc, v \in Nat : DocumentVersionAdded(d, v) \in Events
         /\ \A d \in Doc, u \in User, s \in ReviewStatuses : DocumentReviewed(d, u, s) \in Events
         /\ \A i \in Nat, t \in ICDecisionTypes : ICDecisionCreated(i, t) \in Events
  <1>1. MemberRoomField \in {"pool", "room"}
    BY DEF MemberRoomField
  <1>2. {PoolCreated, DataRoomCreated, PoolCancelled, AuditEvent} \subseteq Events
    BY DEF PoolCreated, DataRoomCreated, PoolCancelled, AuditEvent, Events
  <1>3. \A s \in PoolStates : PoolStateChanged(s) \in Events
    BY DEF PoolStateChanged, Events
  <1>4. \A u \in User, r \in SUBSET Roles : MemberAdded(u, r) \in Events
    BY <1>1 DEF MemberAdded, Events
  <1>5. \A u \in User, r \in SUBSET Roles : MemberRoleUpdated(u, r) \in Events
    BY DEF MemberRoleUpdated, Events
  <1>6. \A u \in User : MemberRemoved(u) \in Events
    BY <1>1 DEF MemberRemoved, Events
  <1>7. \A d \in Doc : DocumentCreated(d) \in Events /\ DocumentArchived(d) \in Events
    BY DEF DocumentCreated, DocumentArchived, Events
  <1>8. \A d \in Doc, v \in Nat : DocumentVersionAdded(d, v) \in Events
    BY DEF DocumentVersionAdded, Events
  <1>9. \A d \in Doc, u \in User, s \in ReviewStatuses : DocumentReviewed(d, u, s) \in Events
    BY DEF DocumentReviewed, Events
  <1>10. \A i \in Nat, t \in ICDecisionTypes : ICDecisionCreated(i, t) \in Events
    BY DEF ICDecisionCreated, Events
  <1>11. QED
    BY <1>2, <1>3, <1>4, <1>5, <1>6, <1>7, <1>8, <1>9, <1>10

\* A transaction appends: what was there stays at its place.
LEMMA Appended ==
  ASSUME chain \in Seq(Events), NEW new \in Seq(Events), Emit(new)
  PROVE  /\ chain' \in Seq(Events) /\ emission' = emission
         /\ Len(chain) \in Nat /\ Len(new) \in Nat /\ Len(chain') = Len(chain) + Len(new)
         /\ \A i \in 1 .. Len(chain) : chain'[i] = chain[i]
         /\ \A i \in 1 .. Len(chain') : i \in 1 .. Len(chain) \/
                \E k \in 1 .. Len(new) : i = Len(chain) + k /\ chain'[i] = new[k]
         /\ \A k \in 1 .. Len(new) : chain'[Len(chain) + k] = new[k]
  <1>1. chain' = chain \o new /\ emission' = emission
    BY DEF Emit
  <1>2. Len(chain) \in Nat /\ Len(new) \in Nat
    BY LenProperties
  <1>3. chain' \in Seq(Events) /\ Len(chain') = Len(chain) + Len(new)
    BY <1>1, ConcatProperties
  <1>4. \A i \in 1 .. Len(chain) : chain'[i] = chain[i]
    BY <1>1, <1>2, ConcatProperties
  <1>5. \A k \in 1 .. Len(new) : chain'[Len(chain) + k] = new[k]
    BY <1>1, <1>2, ConcatProperties
  <1>6. \A i \in 1 .. Len(chain') : i \in 1 .. Len(chain) \/
            \E k \in 1 .. Len(new) : i = Len(chain) + k
    <2> TAKE i \in 1 .. Len(chain')
    <2>1. CASE i > Len(chain)
      <3>1. i - Len(chain) \in 1 .. Len(new) /\ i = Len(chain) + (i - Len(chain))
        BY <1>2, <1>3, <2>1
      <3>2. QED
        BY <3>1
    <2>2. QED
      BY <1>2, <1>3, <2>1
  <1>7. QED
    BY <1>1, <1>2, <1>3, <1>4, <1>5, <1>6

\* A decision of the chain is that of an event.
LEMMA DecisionPlaces ==
  ASSUME NEW p
  PROVE  p \in DecisionsAfter(Len(chain)) <=>
            \E i \in 1 .. Len(chain) : /\ chain[i].kind = "ICDecisionCreated"
                                       /\ p = <<chain[i].index, chain[i].type>>
  BY DEF DecisionsAfter, Places

\* The same after a step.
LEMMA DecisionPlacesNext ==
  ASSUME NEW p
  PROVE  p \in DecisionsAfter(Len(chain))' <=>
            \E i \in 1 .. Len(chain') : /\ chain'[i].kind = "ICDecisionCreated"
                                        /\ p = <<chain'[i].index, chain'[i].type>>
  BY DEF DecisionsAfter, Places

\* The decisions stay, and other transactions add none.
LEMMA DecisionsStay ==
  ASSUME ChainInv, NEW new \in Seq(Events), Emit(new)
  PROVE  /\ DecisionsAfter(Len(chain)) \subseteq DecisionsAfter(Len(chain))'
         /\ (\A k \in 1 .. Len(new) : new[k].kind # "ICDecisionCreated")
               => DecisionsAfter(Len(chain))' = DecisionsAfter(Len(chain))
  <1>1. chain \in Seq(Events)
    BY DEF ChainInv
  <1>2. /\ \A i \in 1 .. Len(chain) : chain'[i] = chain[i] /\ i \in 1 .. Len(chain')
        /\ \A i \in 1 .. Len(chain') : i \in 1 .. Len(chain) \/
               \E k \in 1 .. Len(new) : i = Len(chain) + k /\ chain'[i] = new[k]
    <2>1. /\ Len(chain) \in Nat /\ Len(new) \in Nat /\ Len(chain') = Len(chain) + Len(new)
          /\ \A i \in 1 .. Len(chain) : chain'[i] = chain[i]
          /\ \A i \in 1 .. Len(chain') : i \in 1 .. Len(chain) \/
                 \E k \in 1 .. Len(new) : i = Len(chain) + k /\ chain'[i] = new[k]
      BY <1>1, Appended
    <2>2. \A i \in 1 .. Len(chain) : i \in 1 .. Len(chain')
      BY <2>1
    <2>3. QED
      BY <2>1, <2>2
  <1>3. ASSUME NEW p \in DecisionsAfter(Len(chain)) PROVE p \in DecisionsAfter(Len(chain))'
    <2>1. PICK i \in 1 .. Len(chain) : /\ chain[i].kind = "ICDecisionCreated"
                                      /\ p = <<chain[i].index, chain[i].type>>
      BY <1>3, DecisionPlaces
    <2>2. i \in 1 .. Len(chain') /\ chain'[i] = chain[i]
      BY <1>2
    <2>3. QED
      BY <2>1, <2>2, DecisionPlacesNext
  <1>4. ASSUME \A k \in 1 .. Len(new) : new[k].kind # "ICDecisionCreated",
               NEW p \in DecisionsAfter(Len(chain))'
        PROVE  p \in DecisionsAfter(Len(chain))
    <2>1. PICK i \in 1 .. Len(chain') : /\ chain'[i].kind = "ICDecisionCreated"
                                       /\ p = <<chain'[i].index, chain'[i].type>>
      BY <1>4, DecisionPlacesNext
    <2>2. i \in 1 .. Len(chain) /\ chain'[i] = chain[i]
      BY <1>2, <1>4, <2>1
    <2>3. QED
      BY <2>1, <2>2, DecisionPlaces
  <1>5. QED
    BY <1>3, <1>4

\* An event that follows another chain follows a longer one.
LEMMA FollowsLonger ==
  ASSUME NEW c, NEW d, NEW f, NEW e, NEW n \in Nat, NEW m \in Nat, n <= m,
         \A j \in 1 .. n : d[j] = c[j],
         Follows(c, f, e, n)
  PROVE  Follows(d, f, e, m)
  <1>1. 1 .. n \subseteq 1 .. m
    OBVIOUS
  <1>2. QED
    BY <1>1 DEF Follows

\* The transactions of a pool that exists.
LEMMA EmitKeeps ==
  ASSUME ChainInv, chain # <<>>, NEW new \in Seq(Events), Emit(new),
         \A k \in 1 .. Len(new) : Follows(chain, MemberRoomField, new[k], Len(chain)),
         Numbered'
  PROVE  ChainInv'
  <1>1. chain \in Seq(Events)
    BY DEF ChainInv
  <1>2. /\ chain' \in Seq(Events) /\ emission' = emission
        /\ Len(chain) \in Nat /\ Len(new) \in Nat /\ Len(chain') = Len(chain) + Len(new)
        /\ \A i \in 1 .. Len(chain) : chain'[i] = chain[i]
        /\ \A i \in 1 .. Len(chain') : i \in 1 .. Len(chain) \/
               \E k \in 1 .. Len(new) : i = Len(chain) + k /\ chain'[i] = new[k]
    BY <1>1, Appended
  <1>3. MemberRoomField' = MemberRoomField
    BY <1>2 DEF MemberRoomField
  <1>4. Opened'
    BY <1>2 DEF ChainInv, Opened
  <1>5. ASSUME NEW i \in 1 .. Len(chain')
        PROVE  Follows(chain', MemberRoomField, chain'[i], i - 1)
    <2>1. CASE i \in 1 .. Len(chain)
      <3>1. Follows(chain, MemberRoomField, chain[i], i - 1) /\ chain'[i] = chain[i]
        BY <1>2, <2>1 DEF ChainInv
      <3>2. i - 1 \in Nat /\ i - 1 <= i - 1 /\ \A j \in 1 .. i - 1 : chain'[j] = chain[j]
        BY <1>2, <2>1
      <3>3. QED
        BY <3>1, <3>2, FollowsLonger
    <2>2. CASE \E k \in 1 .. Len(new) : i = Len(chain) + k /\ chain'[i] = new[k]
      <3>1. PICK k \in 1 .. Len(new) : i = Len(chain) + k /\ chain'[i] = new[k]
        BY <2>2
      <3>2. Follows(chain, MemberRoomField, chain'[i], Len(chain))
        BY <3>1
      <3>3. i - 1 \in Nat /\ Len(chain) <= i - 1
        BY <1>2, <3>1
      <3>4. Len(chain) \in Nat /\ \A j \in 1 .. Len(chain) : chain'[j] = chain[j]
        BY <1>2
      <3>5. QED
        BY <3>2, <3>3, <3>4, FollowsLonger
    <2>3. QED
      BY <1>2, <2>1, <2>2
  <1>6. QED
    BY <1>2, <1>3, <1>4, <1>5 DEF ChainInv

\* Most entry functions emit an event of their own and an audit event.
LEMMA PairKeeps ==
  ASSUME ChainInv, chain # <<>>, NEW e \in Events, e.kind # "ICDecisionCreated",
         Follows(chain, MemberRoomField, e, Len(chain)), InOrder(e, 1), Emit(<<e, AuditEvent>>)
  PROVE  ChainInv' /\ Emits
  <1> DEFINE new == <<e, AuditEvent>>
  <1>1. new \in Seq(Events) /\ Len(new) = 2 /\ new[1] = e /\ new[2] = AuditEvent
    <2>1. AuditEvent \in Events
      BY DEF AuditEvent, Events
    <2>2. QED
      BY <2>1
  <1>2. Emit(new)
    OBVIOUS
  <1> HIDE DEF new
  <1>3. \A k \in 1 .. Len(new) : /\ Follows(chain, MemberRoomField, new[k], Len(chain))
                                 /\ new[k].kind # "ICDecisionCreated" /\ InOrder(new[k], k)
    <2>1. Follows(chain, MemberRoomField, AuditEvent, Len(chain))
      BY DEF Follows, AuditEvent
    <2>2. AuditEvent.kind # "ICDecisionCreated" /\ InOrder(AuditEvent, 2)
      BY DEF AuditEvent, InOrder, VersionKinds
    <2>3. QED
      BY <1>1, <2>1, <2>2
  <1>4. DecisionsAfter(Len(chain))' = DecisionsAfter(Len(chain))
    BY <1>1, <1>2, <1>3, DecisionsStay
  <1>5. Numbered'
    BY <1>4 DEF ChainInv, Numbered
  <1>6. QED
    BY <1>1, <1>2, <1>3, <1>5, EmitKeeps DEF Emits

\* cancel_pool emits three events.
LEMMA CancelKeeps ==
  ASSUME ChainInv, CancelPool
  PROVE  ChainInv' /\ Emits
  <1> DEFINE new == <<PoolCancelled, PoolStateChanged("CANCELLED"), AuditEvent>>
  <1>1. chain # <<>> /\ Emit(new)
    BY DEF CancelPool, Created
  <1>2. new \in Seq(Events) /\ Len(new) = 3
        /\ new[1] = PoolCancelled /\ new[2] = PoolStateChanged("CANCELLED")
        /\ new[3] = AuditEvent
    <2>1. /\ AuditEvent \in Events /\ PoolCancelled \in Events
          /\ PoolStateChanged("CANCELLED") \in Events
      BY DEF AuditEvent, PoolCancelled, PoolStateChanged, PoolStates, Events
    <2>2. QED
      BY <2>1
  <1> HIDE DEF new
  <1>3. \A k \in 1 .. Len(new) : /\ Follows(chain, MemberRoomField, new[k], Len(chain))
                                 /\ new[k].kind # "ICDecisionCreated" /\ InOrder(new[k], k)
    <2>1. \A e \in {PoolCancelled, PoolStateChanged("CANCELLED"), AuditEvent} :
             /\ Follows(chain, MemberRoomField, e, Len(chain))
             /\ e.kind # "ICDecisionCreated" /\ \A k \in Nat : InOrder(e, k)
      BY DEF Follows, AuditEvent, PoolCancelled, PoolStateChanged, InOrder, VersionKinds
    <2>2. QED
      BY <1>2, <2>1
  <1>4. DecisionsAfter(Len(chain))' = DecisionsAfter(Len(chain))
    BY <1>1, <1>2, <1>3, DecisionsStay
  <1>5. Numbered'
    BY <1>4 DEF ChainInv, Numbered
  <1>6. QED
    BY <1>1, <1>2, <1>3, <1>5, EmitKeeps DEF Emits

\* An active member has been added, whatever happened since.
LEMMA ActiveWasAdded ==
  ASSUME ChainInv, NEW u, Active(u)
  PROVE  /\ chain # <<>>
         /\ \E j \in 1 .. Len(chain) : chain[j].kind = "MemberAdded" /\ chain[j].user = u
  <1>1. PICK i \in 1 .. Len(chain) : chain[i].kind \in {"MemberAdded", "MemberRemoved"}
                                     /\ chain[i].user = u
    BY DEF Active, ActiveAfter, MemberPlaces, Places, MemberKinds
  <1>2. Len(chain) \in Nat
    BY LenProperties DEF ChainInv
  <1>3. CASE chain[i].kind = "MemberRemoved"
    <2>1. \E j \in 1 .. i - 1 : chain[j].kind = "MemberAdded" /\ chain[j].user = u
      BY <1>1, <1>3 DEF ChainInv, Follows
    <2>2. QED
      BY <1>2, <2>1
  <1>4. chain # <<>>
    BY <1>1, <1>2
  <1>5. QED
    BY <1>1, <1>3, <1>4

\* A document with versions has been created.
LEMMA VersionsCount ==
  ASSUME ChainInv, NEW d
  PROVE  /\ Versions(d) \in Nat
         /\ Versions(d) > 0 =>
               /\ chain # <<>>
               /\ \E j \in 1 .. Len(chain) : chain[j].kind = "DocumentCreated" /\ chain[j].doc = d
  <1> DEFINE S == {i \in Places(Len(chain), {"DocumentCreated", "DocumentVersionAdded"}) :
                      chain[i].doc = d}
  <1>1. Len(chain) \in Nat
    BY LenProperties DEF ChainInv
  <1>2. S \subseteq 1 .. Len(chain) /\ Versions(d) = Cardinality(S)
    BY DEF Places, Versions, VersionsAfter
  <1> HIDE DEF S
  <1>3. IsFiniteSet(S)
    <2>1. IsFiniteSet(1 .. Len(chain))
      BY <1>1, FS_Interval
    <2>2. QED
      BY <1>2, <2>1, FS_Subset
  <1>4. Versions(d) \in Nat
    BY <1>2, <1>3, FS_CardinalityType
  <1>5. ASSUME Versions(d) > 0
        PROVE  /\ chain # <<>>
               /\ \E j \in 1 .. Len(chain) : chain[j].kind = "DocumentCreated" /\ chain[j].doc = d
    <2>1. S # {}
      BY <1>2, <1>3, <1>5, FS_EmptySet
    <2>2. PICK i \in 1 .. Len(chain) :
              /\ chain[i].kind \in {"DocumentCreated", "DocumentVersionAdded"}
              /\ chain[i].doc = d
      BY <2>1 DEF S, Places
    <2>3. CASE chain[i].kind = "DocumentVersionAdded"
      <3>1. \E j \in 1 .. i - 1 : chain[j].kind = "DocumentCreated" /\ chain[j].doc = d
        BY <2>2, <2>3 DEF ChainInv, Follows
      <3>2. QED
        BY <1>1, <3>1
    <2>4. chain # <<>>
      BY <1>1, <2>2
    <2>5. QED
      BY <2>2, <2>3, <2>4
  <1>6. QED
    BY <1>4, <1>5

\* record_ic_decision numbers the decision with their count so far.
LEMMA DecisionKeeps ==
  ASSUME ChainInv, NEW t \in ICDecisionTypes, RecordIcDecision(t)
  PROVE  ChainInv' /\ Emits
  <1> DEFINE D == DecisionsAfter(Len(chain))
             c == Cardinality(D)
             d == ICDecisionCreated(c, t)
             s == PoolStateChanged(Outcome[t])
             new == <<d, s, AuditEvent>>
  <1>1. chain # <<>> /\ Emit(new)
    BY DEF RecordIcDecision, Created
  <1>2. IsFiniteSet(D) /\ c \in Nat
    BY FS_CardinalityType DEF ChainInv, Numbered
  <1>3. d \in Events /\ d.kind = "ICDecisionCreated" /\ d.index = c /\ d.type = t
    BY <1>2 DEF ICDecisionCreated, Events
  <1>4. s \in Events /\ s.kind = "PoolStateChanged"
    <2>1. Outcome[t] \in PoolStates
      BY DEF Outcome, ICDecisionTypes, PoolStates
    <2>2. QED
      BY <2>1 DEF PoolStateChanged, Events
  <1>5. AuditEvent \in Events /\ AuditEvent.kind = "AuditEvent"
    BY DEF AuditEvent, Events
  <1> HIDE DEF d, s, c, D
  <1>6. new \in Seq(Events) /\ Len(new) = 3 /\ new[1] = d /\ new[2] = s /\ new[3] = AuditEvent
    BY <1>3, <1>4, <1>5
  <1> HIDE DEF new
  <1>7. \A k \in 1 .. Len(new) : /\ Follows(chain, MemberRoomField, new[k], Len(chain))
                                 /\ InOrder(new[k], k)
    <2>1. \A e \in {d, s, AuditEvent} : /\ Follows(chain, MemberRoomField, e, Len(chain))
                                       /\ \A k \in Nat : InOrder(e, k)
      BY <1>3, <1>4, <1>5 DEF Follows, InOrder, VersionKinds
    <2>2. QED
      BY <1>6, <2>1
  <1>8. /\ Len(chain) \in Nat
        /\ Len(chain') = Len(chain) + 3
        /\ \A i \in 1 .. Len(chain') : i \in 1 .. Len(chain) \/
               \E k \in 1 .. Len(new) : i = Len(chain) + k /\ chain'[i] = new[k]
        /\ \A i \in 1 .. Len(chain) : chain'[i] = chain[i]
        /\ chain'[Len(chain) + 1] = d
    <2>1. chain \in Seq(Events) /\ 1 \in 1 .. Len(new)
      BY <1>6 DEF ChainInv
    <2>2. QED
      BY <1>1, <1>6, <2>1, Appended
  <1>9. D \subseteq DecisionsAfter(Len(chain))'
    BY <1>1, <1>6, DecisionsStay DEF D
  <1>10. DecisionsAfter(Len(chain))' = D \union {<<c, t>>}
    <2>1. <<c, t>> \in DecisionsAfter(Len(chain))'
      <3>1. Len(chain) + 1 \in 1 .. Len(chain')
        BY <1>8
      <3>2. QED
        BY <1>3, <1>8, <3>1, DecisionPlacesNext
    <2>2. ASSUME NEW p \in DecisionsAfter(Len(chain))' PROVE p \in D \/ p = <<c, t>>
      <3>1. PICK i \in 1 .. Len(chain') : /\ chain'[i].kind = "ICDecisionCreated"
                                         /\ p = <<chain'[i].index, chain'[i].type>>
        BY <2>2, DecisionPlacesNext
      <3>2. CASE i \in 1 .. Len(chain)
        <4>1. p \in DecisionsAfter(Len(chain))
          BY <1>8, <3>1, <3>2, DecisionPlaces
        <4>2. QED
          BY <4>1 DEF D
      <3>3. CASE \E k \in 1 .. Len(new) : chain'[i] = new[k]
        <4>1. chain'[i] = d
          BY <1>4, <1>5, <1>6, <3>1, <3>3
        <4>2. QED
          BY <1>3, <3>1, <4>1
      <3>4. QED
        BY <1>8, <3>2, <3>3
    <2>3. QED
      BY <1>9, <2>1, <2>2
  <1>11. /\ \A p \in D : p[1] < c
         /\ \A p, q \in D : p[1] = q[1] => p = q
    BY DEF ChainInv, Numbered, D, c
  <1>12. <<c, t>> \notin D
    <2>1. <<c, t>>[1] = c /\ ~(c < c)
      BY <1>2
    <2>2. QED
      BY <1>11, <2>1
  <1>13. /\ IsFiniteSet(D \union {<<c, t>>})
         /\ Cardinality(D \union {<<c, t>>}) = c + 1
    BY <1>2, <1>12, FS_AddElement DEF c
  <1>14. \A p \in D \union {<<c, t>>} : p[1] < c + 1
    <2>1. ASSUME NEW p \in D PROVE p[1] < c + 1
      <3>1. p[1] < c
        BY <1>11
      <3>2. p[1] \in Nat
        <4>1. PICK i \in 1 .. Len(chain) : /\ chain[i].kind = "ICDecisionCreated"
                                          /\ p = <<chain[i].index, chain[i].type>>
          BY DecisionPlaces DEF D
        <4>2. chain[i] \in Events
          BY <1>8, ElementOfSeq DEF ChainInv
        <4>3. chain[i].index \in Nat
          BY <4>1, <4>2, EventFields
        <4>4. QED
          BY <4>1, <4>3
      <3>3. QED
        BY <1>2, <3>1, <3>2
    <2>2. <<c, t>>[1] < c + 1
      BY <1>2
    <2>3. QED
      BY <2>1, <2>2
  <1>15. \A p, q \in D \union {<<c, t>>} : p[1] = q[1] => p = q
    <2>1. ASSUME NEW p \in D PROVE p[1] # <<c, t>>[1]
      BY <1>2, <1>11
    <2>2. QED
      BY <1>11, <2>1
  <1>16. Numbered'
    BY <1>10, <1>13, <1>14, <1>15 DEF Numbered
  <1>17. QED
    BY <1>1, <1>6, <1>7, <1>16, EmitKeeps DEF Emits

\* create_pool opens the chain.
LEMMA CreateKeeps ==
  ASSUME ChainInv, CreatePool
  PROVE  ChainInv' /\ Emits
  <1> DEFINE a == MemberAdded(Owner, {"OWNER"})
             new == IF emission = "package" THEN <<DataRoomCreated, a, PoolCreated>>
                                            ELSE <<PoolCreated, DataRoomCreated, a>>
  <1>1. chain = <<>> /\ Emit(new) /\ chain \in Seq(Events) /\ emission \in {"package", "assumed"}
    BY DEF CreatePool, Created, ChainInv
  <1>2. /\ a \in Events /\ a.kind = "MemberAdded" /\ a.room = MemberRoomField
        /\ PoolCreated \in Events /\ PoolCreated.kind = "PoolCreated"
        /\ DataRoomCreated \in Events /\ DataRoomCreated.kind = "DataRoomCreated"
    <2>1. a \in Events
      <3>1. {"OWNER"} \in SUBSET Roles /\ Owner \in User
        BY ChainAssumption DEF Roles
      <3>2. QED
        BY <1>1, <3>1, EventsTyped
    <2>2. PoolCreated \in Events /\ DataRoomCreated \in Events
      BY <1>1, EventsTyped
    <2>3. QED
      BY <2>1, <2>2 DEF MemberAdded, PoolCreated, DataRoomCreated
  <1> HIDE DEF a
  <1>3. /\ new \in Seq(Events) /\ Len(new) = 3
        /\ \A k \in 1 .. 3 : new[k] \in {PoolCreated, DataRoomCreated, a}
        /\ emission = "package" => /\ new[1] = DataRoomCreated /\ new[2] = a
                                   /\ new[3] = PoolCreated
        /\ emission = "assumed" => /\ new[1] = PoolCreated /\ new[2] = DataRoomCreated
                                   /\ new[3] = a
    <2>1. CASE emission = "package"
      BY <1>2, <2>1
    <2>2. CASE emission = "assumed"
      BY <1>2, <2>2
    <2>3. QED
      BY <1>1, <2>1, <2>2
  <1> HIDE DEF new
  <1>4. chain' = new /\ emission' = emission
    <2>1. chain' = <<>> \o new /\ emission' = emission
      BY <1>1 DEF Emit
    <2>2. <<>> \o new = new
      BY <1>3, ConcatEmptySeq
    <2>3. QED
      BY <2>1, <2>2
  <1>5. MemberRoomField' = MemberRoomField
    BY <1>4 DEF MemberRoomField
  <1>6. Opened'
    <2>1. Len(new) >= 3
      BY <1>3
    <2>2. QED
      BY <1>1, <1>2, <1>3, <1>4, <2>1 DEF Opened
  <1>7. \A i \in 1 .. Len(chain') : chain'[i].kind # "ICDecisionCreated"
    BY <1>2, <1>3, <1>4
  <1>8. Numbered'
    <2>1. DecisionsAfter(Len(chain))' = {}
      BY <1>7, DecisionPlacesNext
    <2>2. QED
      BY <2>1, FS_EmptySet DEF Numbered
  <1>9. ASSUME NEW i \in 1 .. Len(chain')
        PROVE  Follows(chain', MemberRoomField, chain'[i], i - 1)
    <2>1. chain'[i] \in {PoolCreated, DataRoomCreated, a}
      BY <1>3, <1>4
    <2>2. QED
      BY <1>2, <2>1 DEF Follows
  <1>10. \A k \in 1 .. Len(new) : InOrder(new[k], k)
    BY <1>2, <1>3 DEF InOrder, VersionKinds
  <1>11. QED
    BY <1>1, <1>3, <1>4, <1>5, <1>6, <1>8, <1>9, <1>10 DEF ChainInv, Emits

\* The empty chain is in order.
LEMMA ChainStarts ==
  ASSUME ChainInit
  PROVE  ChainInv
  <1>1. chain = <<>> /\ emission \in {"package", "assumed"} /\ Len(chain) = 0
    BY ChainAssumption DEF ChainInit
  <1>2. Opened
    BY <1>1 DEF Opened
  <1>3. DecisionsAfter(Len(chain)) = {}
    BY <1>1 DEF DecisionsAfter, Places
  <1>4. Numbered
    BY <1>3, FS_EmptySet DEF Numbered
  <1>5. chain \in Seq(Events)
    BY <1>1
  <1>6. QED
    BY <1>1, <1>2, <1>4, <1>5 DEF ChainInv

\* Every entry function keeps the chain in order.
LEMMA ChainKept ==
  ASSUME ChainInv, ChainNext
  PROVE  ChainInv' /\ Emits
  <1> USE ChainAssumption
  <1>1. emission \in {"package", "assumed"}
    BY DEF ChainInv
  <1>2. CASE CreatePool
    BY <1>2, CreateKeeps
  <1>3. ASSUME NEW u \in User, NEW r \in RoleInputs, AddMember(u, r) PROVE ChainInv' /\ Emits
    <2> DEFINE e == MemberAdded(u, r)
    <2>1. e \in Events
      BY <1>1, EventsTyped
    <2>2. Follows(chain, MemberRoomField, e, Len(chain)) /\ e.kind = "MemberAdded"
      BY DEF Follows, MemberAdded
    <2>3. chain # <<>> /\ Emit(<<e, AuditEvent>>)
      BY <1>3 DEF AddMember, Created
    <2> HIDE DEF e
    <2>4. QED
      BY <2>1, <2>2, <2>3, PairKeeps DEF InOrder, VersionKinds
  <1>4. ASSUME NEW u \in User, NEW r \in RoleInputs, UpdateMemberRole(u, r) PROVE ChainInv' /\ Emits
    <2> DEFINE e == MemberRoleUpdated(u, r)
    <2>1. e \in Events
      BY <1>1, EventsTyped
    <2>2. /\ chain # <<>> /\ Emit(<<e, AuditEvent>>)
          /\ \E j \in 1 .. Len(chain) : chain[j].kind = "MemberAdded" /\ chain[j].user = u
      BY <1>4, ActiveWasAdded DEF UpdateMemberRole
    <2>3. Follows(chain, MemberRoomField, e, Len(chain)) /\ e.kind = "MemberRoleUpdated"
      BY <2>2 DEF Follows, MemberRoleUpdated
    <2> HIDE DEF e
    <2>4. QED
      BY <2>1, <2>2, <2>3, PairKeeps DEF InOrder, VersionKinds
  <1>5. ASSUME NEW u \in User, RemoveMember(u) PROVE ChainInv' /\ Emits
    <2> DEFINE e == MemberRemoved(u)
    <2>1. e \in Events
      BY <1>1, EventsTyped
    <2>2. /\ chain # <<>> /\ Emit(<<e, AuditEvent>>)
          /\ \E j \in 1 .. Len(chain) : chain[j].kind = "MemberAdded" /\ chain[j].user = u
      BY <1>5, ActiveWasAdded DEF RemoveMember
    <2>3. Follows(chain, MemberRoomField, e, Len(chain)) /\ e.kind = "MemberRemoved"
      BY <2>2 DEF Follows, MemberRemoved
    <2> HIDE DEF e
    <2>4. QED
      BY <2>1, <2>2, <2>3, PairKeeps DEF InOrder, VersionKinds
  <1>6. ASSUME NEW d \in Doc, CreateDocument(d) PROVE ChainInv' /\ Emits
    <2> DEFINE e == DocumentCreated(d)
    <2>1. e \in Events
      BY <1>1, EventsTyped
    <2>2. /\ Follows(chain, MemberRoomField, e, Len(chain)) /\ e.kind = "DocumentCreated"
          /\ Versions(e.doc) = 0
      BY <1>6 DEF CreateDocument, Follows, DocumentCreated
    <2>3. chain # <<>> /\ Emit(<<e, AuditEvent>>)
      BY <1>6 DEF CreateDocument, Created
    <2> HIDE DEF e
    <2>4. QED
      BY <2>1, <2>2, <2>3, PairKeeps DEF InOrder, VersionKinds
  <1>7. ASSUME NEW d \in Doc, AddVersion(d) PROVE ChainInv' /\ Emits
    <2> DEFINE e == DocumentVersionAdded(d, Versions(d) + 1)
    <2>1. /\ chain # <<>> /\ Emit(<<e, AuditEvent>>)
          /\ \E j \in 1 .. Len(chain) : chain[j].kind = "DocumentCreated" /\ chain[j].doc = d
          /\ Versions(d) + 1 \in Nat
      BY <1>7, VersionsCount DEF AddVersion
    <2>2. e \in Events
      BY <1>1, <2>1, EventsTyped
    <2>3. /\ Follows(chain, MemberRoomField, e, Len(chain)) /\ e.kind = "DocumentVersionAdded"
          /\ Versions(e.doc) > 0 /\ e.version = Versions(e.doc) + 1
      BY <1>7, <2>1 DEF AddVersion, Follows, DocumentVersionAdded
    <2> HIDE DEF e
    <2>4. QED
      BY <2>1, <2>2, <2>3, PairKeeps DEF InOrder, VersionKinds
  <1>8. ASSUME NEW d \in Doc, ArchiveDocument(d) PROVE ChainInv' /\ Emits
    <2> DEFINE e == DocumentArchived(d)
    <2>1. e \in Events
      BY <1>1, EventsTyped
    <2>2. Follows(chain, MemberRoomField, e, Len(chain)) /\ e.kind = "DocumentArchived"
      BY DEF Follows, DocumentArchived
    <2>3. chain # <<>> /\ Emit(<<e, AuditEvent>>)
      BY <1>8, VersionsCount DEF ArchiveDocument
    <2> HIDE DEF e
    <2>4. QED
      BY <2>1, <2>2, <2>3, PairKeeps DEF InOrder, VersionKinds
  <1>9. ASSUME NEW d \in Doc, NEW u \in User, NEW s \in ReviewStatuses, SubmitReview(d, u, s)
        PROVE  ChainInv' /\ Emits
    <2> DEFINE e == DocumentReviewed(d, u, s)
    <2>1. /\ chain # <<>> /\ Emit(<<e, AuditEvent>>)
          /\ \E j \in 1 .. Len(chain) : chain[j].kind = "DocumentCreated" /\ chain[j].doc = d
      BY <1>9, VersionsCount DEF SubmitReview
    <2>2. e \in Events
      BY <1>1, EventsTyped
    <2>3. Follows(chain, MemberRoomField, e, Len(chain)) /\ e.kind = "DocumentReviewed"
      BY <2>1 DEF Follows, DocumentReviewed
    <2> HIDE DEF e
    <2>4. QED
      BY <2>1, <2>2, <2>3, PairKeeps DEF InOrder, VersionKinds
  <1>10. ASSUME NEW s \in PoolStates, MovePool(s) PROVE ChainInv' /\ Emits
    <2> DEFINE e == PoolStateChanged(s)
    <2>1. e \in Events
      BY <1>1, EventsTyped
    <2>2. Follows(chain, MemberRoomField, e, Len(chain)) /\ e.kind = "PoolStateChanged"
      BY DEF Follows, PoolStateChanged
    <2>3. chain # <<>> /\ Emit(<<e, AuditEvent>>)
      BY <1>10 DEF MovePool, Created
    <2> HIDE DEF e
    <2>4. QED
      BY <2>1, <2>2, <2>3, PairKeeps DEF InOrder, VersionKinds
  <1>11. CASE CancelPool
    BY <1>11, CancelKeeps
  <1>12. ASSUME NEW t \in ICDecisionTypes, RecordIcDecision(t) PROVE ChainInv' /\ Emits
    BY <1>12, DecisionKeeps
  <1>13. QED
    BY <1>2, <1>3, <1>4, <1>5, <1>6, <1>7, <1>8, <1>9, <1>10, <1>11, <1>12 DEF ChainNext

\* A chain step leaves the events there are, and adds to the decisions.
LEMMA ChainGrows ==
  ASSUME ChainInv, ChainNext
  PROVE  /\ Len(chain) \in Nat /\ Len(chain') \in Nat /\ Len(chain) <= Len(chain')
         /\ emission' = emission
         /\ \A i \in 1 .. Len(chain) : chain'[i] = chain[i]
         /\ DecisionsAfter(Len(chain)) \subseteq DecisionsAfter(Len(chain))'
  <1>1. PICK new \in Seq(Events) : Emit(new)
    BY ChainKept DEF Emits
  <1>2. chain \in Seq(Events)
    BY DEF ChainInv
  <1>3. QED
    BY <1>1, <1>2, Appended, DecisionsStay

-----------------------------------------------------------------------------
(* What holds of the tables while the chain grows and the loop works *)

\* In says of the current tables what the module says.
LEMMA ProjectedIsIn ==
  ASSUME NEW e
  PROVE  Projected(e) <=> In(db, e)
  BY DEF Projected, In

\* Audited says what CheckpointedIsAudited says of an event.
LEMMA KeptAreAudited ==
  ASSUME NEW i
  PROVE  Audited(i) <=>
            (chain[i].kind \in HandledKinds /\ ~NeverAudited(chain[i]) => i \in db.audit)
  BY DEF Audited, Kept, NeverAudited

\* What is projected stays so.
LEMMA InStays ==
  ASSUME NEW t, NEW n, Grown(t, n), NEW e \in Events, In(t, e)
  PROVE  In(n, e)
  BY EventFields DEF Grown, In, MemberKinds

\* New events concern neither the tables nor the loop.
LEMMA ChainStepKeeps ==
  ASSUME IndexerInv, ChainNext, UNCHANGED indexerVars
  PROVE  IndexerInv'
  <1>1. ChainInv /\ TablesInv /\ LoopInv /\ TrailInv
    BY DEF IndexerInv
  <1>2. ChainInv'
    BY <1>1, ChainKept
  <1>3. /\ Len(chain) \in Nat /\ Len(chain') \in Nat /\ Len(chain) <= Len(chain')
        /\ emission' = emission
        /\ \A i \in 1 .. Len(chain) : chain'[i] = chain[i]
        /\ DecisionsAfter(Len(chain)) \subseteq DecisionsAfter(Len(chain))'
    BY <1>1, ChainGrows
  <1>4. /\ db' = db /\ savedCursor' = savedCursor /\ cursor' = cursor /\ pos' = pos
        /\ batchEnd' = batchEnd /\ step' = step
    BY DEF indexerVars
  <1>5. TablesInv'
    <2>1. 1 .. Len(chain) \subseteq 1 .. Len(chain')
      BY <1>3
    <2>2. QED
      BY <1>1, <1>3, <1>4, <2>1 DEF TablesInv, AuditRow
  <1>6. LoopInv'
    BY <1>1, <1>3, <1>4, IndexerAssumption DEF LoopInv
  <1>7. TrailInv'
    <2>1. ASSUME NEW i \in 1 .. Len(chain), Audited(i) PROVE Audited(i)'
      BY <1>3, <1>4, <2>1 DEF Audited
    <2>2. savedCursor \in Nat /\ savedCursor <= Len(chain)
          /\ (step # "poll" => pos \in 1 .. Len(chain))
      BY <1>1, <1>3, IndexerAssumption DEF LoopInv
    <2>3. \A i \in 1 .. savedCursor' : Audited(i)'
      BY <1>1, <1>4, <2>1, <2>2 DEF TrailInv
    <2>4. step' # "poll" => \A i \in 1 .. pos' - 1 : Audited(i)'
      BY <1>1, <1>3, <1>4, <2>1, <2>2 DEF TrailInv
    <2>5. step' \in {"save", "advance"} => Audited(pos)'
      BY <1>1, <1>3, <1>4, <2>2 DEF TrailInv, Audited
    <2>6. step' # "poll" => Event' = Event
      BY <1>3, <1>4, <2>2 DEF Event
    <2>7. \A i \in db'.audit : In(db', chain'[i])
      BY <1>1, <1>3, <1>4 DEF TrailInv, TablesInv, AuditRow
    <2>8. QED
      BY <1>1, <1>4, <2>3, <2>4, <2>5, <2>6, <2>7 DEF TrailInv
  <1>8. QED
    BY <1>2, <1>5, <1>6, <1>7 DEF IndexerInv

-----------------------------------------------------------------------------
(* The ways a step of the loop ends *)

\* The loop's own steps leave the chain.
LEMMA ChainStays ==
  ASSUME ChainInv, UNCHANGED chainVars
  PROVE  /\ chain' = chain /\ emission' = emission
         /\ DecisionsAfter(Len(chain))' = DecisionsAfter(Len(chain))
         /\ ChainInv'
  <1>1. chain' = chain /\ emission' = emission
    BY DEF chainVars
  <1>2. DecisionsAfter(Len(chain))' = DecisionsAfter(Len(chain))
    BY <1>1 DEF DecisionsAfter, Places
  <1>3. MemberRoomField' = MemberRoomField
    BY <1>1 DEF MemberRoomField
  <1>4. Opened' /\ Numbered'
    BY <1>1, <1>2 DEF ChainInv, Opened, Numbered
  <1>5. QED
    BY <1>1, <1>2, <1>3, <1>4 DEF ChainInv

\* The event that is being handled.
LEMMA Handled ==
  ASSUME IndexerInv, step # "poll"
  PROVE  /\ pos \in 1 .. Len(chain) /\ Len(chain) \in Nat /\ pos \in Nat
         /\ Event = chain[pos] /\ chain[pos] \in Events
         /\ \A j \in 1 .. pos - 1 : Audited(j) /\ j \in 1 .. Len(chain) /\ chain[j] \in Events
         /\ \A i \in db.audit : i \in 1 .. Len(chain) /\ chain[i] \in Events
                                /\ In(db, chain[i])
  <1>1. ChainInv /\ TablesInv /\ LoopInv /\ TrailInv
    BY DEF IndexerInv
  <1>2. chain \in Seq(Events) /\ Len(chain) \in Nat
    BY <1>1, LenProperties DEF ChainInv
  <1>3. pos \in 1 .. Len(chain)
    BY <1>1, <1>2, IndexerAssumption DEF LoopInv
  <1>4. \A j \in 1 .. Len(chain) : chain[j] \in Events
    BY <1>2, ElementOfSeq
  <1>5. \A j \in 1 .. pos - 1 : j \in 1 .. Len(chain)
    BY <1>2, <1>3
  <1>6. \A j \in 1 .. pos - 1 : Audited(j)
    BY <1>1 DEF TrailInv
  <1>7. \A i \in db.audit : i \in 1 .. Len(chain) /\ In(db, chain[i])
    BY <1>1 DEF TrailInv, TablesInv, AuditRow
  <1>8. QED
    BY <1>2, <1>3, <1>4, <1>5, <1>6, <1>7 DEF Event

\* The handler is through: the trail goes one event further.
LEMMA Finish ==
  ASSUME IndexerInv, UNCHANGED chainVars, step \in {"write", "audit"}, NextEvent,
         TablesInv', Grown(db, db'), db.audit \subseteq db'.audit,
         \A i \in db'.audit : i \in db.audit \/ i = pos,
         pos \in db'.audit => In(db', chain[pos]),
         Kept(emission, chain[pos]) => pos \in db'.audit
  PROVE  IndexerInv'
  <1>1. ChainInv /\ TablesInv /\ LoopInv /\ TrailInv
    BY DEF IndexerInv
  <1>2. chain' = chain /\ emission' = emission /\ ChainInv'
    BY <1>1, ChainStays
  <1>3. /\ step' = IF pos = batchEnd THEN "save" ELSE "write"
        /\ pos'  = IF pos = batchEnd THEN pos ELSE pos + 1
        /\ savedCursor' = savedCursor /\ cursor' = cursor /\ batchEnd' = batchEnd
    BY DEF NextEvent, controlVars
  <1>4. /\ pos \in 1 .. Len(chain) /\ Len(chain) \in Nat /\ pos \in Nat
        /\ \A j \in 1 .. pos - 1 : Audited(j) /\ chain[j] \in Events
        /\ \A i \in db.audit : chain[i] \in Events /\ In(db, chain[i])
    BY Handled
  <1>5. LoopInv'
    <2>1. CASE pos = batchEnd
      BY <1>1, <1>2, <1>3, <1>4, <2>1, IndexerAssumption DEF LoopInv, Steps
    <2>2. CASE pos # batchEnd
      BY <1>1, <1>2, <1>3, <1>4, <2>2, IndexerAssumption DEF LoopInv, Steps
    <2>3. QED
      BY <2>1, <2>2
  <1>6. \A i : Audited(i) => Audited(i)'
    BY <1>2 DEF Audited
  <1>7. Kept(emission', chain'[pos]) => pos \in db'.audit
    BY <1>2
  <1>8. \A i \in 1 .. savedCursor' : Audited(i)'
    BY <1>1, <1>3, <1>6 DEF TrailInv
  <1>9. \A i \in 1 .. pos' - 1 : Audited(i)'
    <2>1. ASSUME NEW i \in 1 .. pos' - 1 PROVE i \in 1 .. pos - 1 \/ i = pos
      BY <1>3, <1>4
    <2>2. ASSUME NEW i \in 1 .. pos - 1 PROVE Audited(i)'
      BY <1>4, <1>6
    <2>3. ASSUME NEW i, i = pos PROVE Audited(i)'
      BY <1>7, <2>3 DEF Audited
    <2>4. QED
      BY <2>1, <2>2, <2>3
  <1>10. step' \in {"save", "advance"} => Audited(pos)'
    BY <1>3, <1>7 DEF Audited
  <1>11. \A i \in db'.audit : In(db', chain'[i])
    <2>1. ASSUME NEW i \in db.audit PROVE In(db', chain[i])
      BY <1>4, InStays
    <2>2. QED
      BY <1>2, <2>1
  <1>12. step' \in {"save", "write"}
    BY <1>3
  <1>13. TrailInv'
    BY <1>8, <1>9, <1>10, <1>11, <1>12 DEF TrailInv
  <1>14. QED
    BY <1>2, <1>5, <1>13 DEF IndexerInv

\* The handler goes on, with the projection made.
LEMMA GoOn ==
  ASSUME IndexerInv, UNCHANGED chainVars, step \in {"write", "version", "info"},
         NEW s \in {"version", "info", "audit"}, Continue(s),
         TablesInv', Grown(db, db'), db'.audit = db.audit, In(db', chain[pos]),
         s = "version" => chain[pos].kind = "DocumentCreated",
         s = "info" => /\ chain[pos].kind = "DocumentVersionAdded"
                       /\ db'.documents[chain[pos].doc] # NoRow
  PROVE  IndexerInv'
  <1>1. ChainInv /\ TablesInv /\ LoopInv /\ TrailInv
    BY DEF IndexerInv
  <1>2. chain' = chain /\ emission' = emission /\ ChainInv'
    BY <1>1, ChainStays
  <1>3. /\ step' = s /\ pos' = pos
        /\ savedCursor' = savedCursor /\ cursor' = cursor /\ batchEnd' = batchEnd
    BY DEF Continue, controlVars
  <1>4. /\ \A j \in 1 .. pos - 1 : Audited(j)
        /\ \A i \in db.audit : chain[i] \in Events /\ In(db, chain[i])
    BY Handled
  <1>5. LoopInv'
    BY <1>1, <1>2, <1>3 DEF LoopInv, Steps
  <1>6. \A i : Audited(i) => Audited(i)'
    BY <1>2 DEF Audited
  <1>7. \A i \in 1 .. savedCursor' : Audited(i)'
    BY <1>1, <1>3, <1>6 DEF TrailInv
  <1>8. \A i \in 1 .. pos' - 1 : Audited(i)'
    BY <1>3, <1>4, <1>6
  <1>9. \A i \in db'.audit : In(db', chain'[i])
    <2>1. ASSUME NEW i \in db.audit PROVE In(db', chain[i])
      BY <1>4, InStays
    <2>2. QED
      BY <1>2, <2>1
  <1>10. Event' = chain[pos]
    BY <1>2, <1>3 DEF Event
  <1>11. TrailInv'
    BY <1>3, <1>7, <1>8, <1>9, <1>10 DEF TrailInv
  <1>12. QED
    BY <1>2, <1>5, <1>11 DEF IndexerInv

\* The loop goes back to polling, at a cursor that is not beyond the saved one.
LEMMA BackToPolling ==
  ASSUME IndexerInv, UNCHANGED chainVars, db' = db, savedCursor' = savedCursor,
         cursor' \in 0 .. savedCursor, step' = "poll", pos' = 0, batchEnd' = 0
  PROVE  IndexerInv'
  <1>1. ChainInv /\ TablesInv /\ LoopInv /\ TrailInv
    BY DEF IndexerInv
  <1>2. /\ chain' = chain /\ emission' = emission /\ ChainInv'
        /\ DecisionsAfter(Len(chain))' = DecisionsAfter(Len(chain))
    BY <1>1, ChainStays
  <1>3. TablesInv'
    BY <1>1, <1>2 DEF TablesInv, AuditRow
  <1>4. LoopInv'
    BY <1>1, <1>2 DEF LoopInv, Steps
  <1>5. TrailInv'
    BY <1>1, <1>2 DEF TrailInv, Audited
  <1>6. QED
    BY <1>2, <1>3, <1>4, <1>5 DEF IndexerInv

\* Polling takes the events from the cursor on, as far as there are any.
LEMMA PollKeeps ==
  ASSUME IndexerInv, UNCHANGED chainVars, Poll
  PROVE  IndexerInv'
  <1>1. ChainInv /\ TablesInv /\ LoopInv /\ TrailInv
    BY DEF IndexerInv
  <1>2. /\ chain' = chain /\ emission' = emission /\ ChainInv'
        /\ DecisionsAfter(Len(chain))' = DecisionsAfter(Len(chain))
    BY <1>1, ChainStays
  <1>3. /\ step = "poll" /\ Len(chain) > cursor /\ pos' = cursor + 1 /\ step' = "write"
        /\ batchEnd' = Min({cursor + BatchLimit, Len(chain)})
        /\ db' = db /\ savedCursor' = savedCursor /\ cursor' = cursor
    BY DEF Poll
  <1>4. /\ Len(chain) \in Nat /\ savedCursor \in 0 .. Len(chain) /\ cursor \in 0 .. savedCursor
        /\ BatchLimit \in Nat /\ BatchLimit >= 1
    BY <1>1, LenProperties, IndexerAssumption DEF ChainInv, LoopInv
  <1>5. /\ batchEnd' \in {cursor + BatchLimit, Len(chain)}
        /\ batchEnd' <= cursor + BatchLimit /\ batchEnd' <= Len(chain)
    <2> DEFINE S == {cursor + BatchLimit, Len(chain)}
    <2>1. \E x \in S : \A y \in S : x <= y
      <3>1. CASE cursor + BatchLimit <= Len(chain)
        BY <1>4, <3>1
      <3>2. CASE ~(cursor + BatchLimit <= Len(chain))
        BY <1>4, <3>2
      <3>3. QED
        BY <3>1, <3>2
    <2>2. batchEnd' = CHOOSE x \in S : \A y \in S : x <= y
      BY <1>3 DEF Min
    <2>3. batchEnd' \in S /\ \A y \in S : batchEnd' <= y
      BY <2>1, <2>2
    <2>4. QED
      BY <2>3
  <1>6. TablesInv'
    BY <1>1, <1>2, <1>3 DEF TablesInv, AuditRow
  <1>7. LoopInv'
    <2>1. batchEnd' \in Nat /\ pos' \in Nat /\ pos' \in cursor' + 1 .. batchEnd'
      BY <1>3, <1>4, <1>5
    <2>2. QED
      BY <1>2, <1>3, <1>4, <1>5, <2>1 DEF LoopInv, Steps
  <1>8. \A i : Audited(i) => Audited(i)'
    BY <1>2, <1>3 DEF Audited
  <1>9. \A i \in 1 .. pos' - 1 : i \in 1 .. savedCursor
    BY <1>3, <1>4
  <1>10. \A i \in 1 .. savedCursor : Audited(i)'
    BY <1>1, <1>8 DEF TrailInv
  <1>11. TrailInv'
    BY <1>1, <1>2, <1>3, <1>9, <1>10 DEF TrailInv
  <1>12. QED
    BY <1>2, <1>6, <1>7, <1>11 DEF IndexerInv

\* The checkpoint is saved when the last event of the batch is through.
LEMMA SaveKeeps ==
  ASSUME IndexerInv, UNCHANGED chainVars, SaveCursor
  PROVE  IndexerInv'
  <1>1. ChainInv /\ TablesInv /\ LoopInv /\ TrailInv
    BY DEF IndexerInv
  <1>2. /\ chain' = chain /\ emission' = emission /\ ChainInv'
        /\ DecisionsAfter(Len(chain))' = DecisionsAfter(Len(chain))
    BY <1>1, ChainStays
  <1>3. /\ step = "save" /\ step' = "advance" /\ savedCursor' = batchEnd
        /\ db' = db /\ cursor' = cursor /\ pos' = pos /\ batchEnd' = batchEnd
    BY DEF SaveCursor
  <1>4. /\ pos = batchEnd /\ pos \in Nat /\ pos \in 1 .. Len(chain) /\ Len(chain) \in Nat
        /\ cursor \in Nat /\ cursor < pos
    <2>1. pos \in 1 .. Len(chain) /\ Len(chain) \in Nat
      BY <1>3, Handled
    <2>2. QED
      BY <1>1, <1>3, <2>1 DEF LoopInv
  <1>5. TablesInv'
    BY <1>1, <1>2, <1>3 DEF TablesInv, AuditRow
  <1>6. LoopInv'
    BY <1>1, <1>2, <1>3, <1>4 DEF LoopInv, Steps
  <1>7. \A i : Audited(i) => Audited(i)'
    BY <1>2, <1>3 DEF Audited
  <1>8. \A i \in 1 .. pos : Audited(i)'
    <2>1. \A i \in 1 .. pos : i \in 1 .. pos - 1 \/ i = pos
      BY <1>4
    <2>2. \A i \in 1 .. pos - 1 : Audited(i)
      BY <1>1, <1>3 DEF TrailInv
    <2>3. \A i : i = pos => Audited(i)
      BY <1>1, <1>3 DEF TrailInv, Audited
    <2>4. QED
      BY <1>7, <2>1, <2>2, <2>3
  <1>9. Audited(pos)'
    BY <1>1, <1>2, <1>3 DEF TrailInv, Audited
  <1>10. \A i \in 1 .. pos' - 1 : i \in 1 .. pos
    BY <1>3, <1>4
  <1>11. TrailInv'
    BY <1>1, <1>2, <1>3, <1>4, <1>8, <1>9, <1>10 DEF TrailInv
  <1>12. QED
    BY <1>2, <1>5, <1>6, <1>11 DEF IndexerInv

-----------------------------------------------------------------------------
(* The statements *)

\* The tables after a statement that touched neither decisions nor trail.
LEMMA TablesKept ==
  ASSUME ChainInv, TablesInv, UNCHANGED chainVars, db' \in Tables,
         db'.audit = db.audit, db'.decisions = db.decisions,
         emission = "assumed" => db'.room # "sentinel"
  PROVE  TablesInv'
  <1>1. /\ chain' = chain /\ emission' = emission
        /\ DecisionsAfter(Len(chain))' = DecisionsAfter(Len(chain))
    BY ChainStays
  <1>2. QED
    BY <1>1 DEF TablesInv, AuditRow

\* The pool's row.
LEMMA WritePool ==
  ASSUME db \in Tables, NEW r \in Row(PoolRow), db' = [db EXCEPT !.pool = r]
  PROVE  /\ db' \in Tables /\ db'.pool = r
         /\ db'.room = db.room /\ db'.members = db.members /\ db'.documents = db.documents
         /\ db'.versions = db.versions /\ db'.reviews = db.reviews
         /\ db'.decisions = db.decisions /\ db'.audit = db.audit
         /\ (r = NoRow => db.pool = NoRow) => Grown(db, db')
  <1>1. /\ db' \in Tables /\ db'.pool = r
        /\ db'.room = db.room /\ db'.members = db.members /\ db'.documents = db.documents
        /\ db'.versions = db.versions /\ db'.reviews = db.reviews /\ db'.decisions = db.decisions
        /\ db'.audit = db.audit
    BY DEF Tables
  <1>2. QED
    BY <1>1 DEF Grown

\* The data room's row.
LEMMA WriteRoom ==
  ASSUME db \in Tables, NEW r \in Row(RoomRow), db' = [db EXCEPT !.room = r]
  PROVE  /\ db' \in Tables /\ db'.room = r
         /\ db'.pool = db.pool /\ db'.members = db.members /\ db'.documents = db.documents
         /\ db'.versions = db.versions /\ db'.reviews = db.reviews
         /\ db'.decisions = db.decisions /\ db'.audit = db.audit
         /\ (r = NoRow => db.room = NoRow) => Grown(db, db')
  <1>1. /\ db' \in Tables /\ db'.room = r
        /\ db'.pool = db.pool /\ db'.members = db.members /\ db'.documents = db.documents
        /\ db'.versions = db.versions /\ db'.reviews = db.reviews /\ db'.decisions = db.decisions
        /\ db'.audit = db.audit
    BY DEF Tables
  <1>2. QED
    BY <1>1 DEF Grown

\* The rows of the members.
LEMMA WriteMembers ==
  ASSUME db \in Tables, NEW r \in [User -> Row(MemberRow)], db' = [db EXCEPT !.members = r]
  PROVE  /\ db' \in Tables /\ db'.members = r
         /\ db'.pool = db.pool /\ db'.room = db.room /\ db'.documents = db.documents
         /\ db'.versions = db.versions /\ db'.reviews = db.reviews
         /\ db'.decisions = db.decisions /\ db'.audit = db.audit
         /\ (\A u \in User : r[u] = NoRow => db.members[u] = NoRow) => Grown(db, db')
  <1>1. /\ db' \in Tables /\ db'.members = r
        /\ db'.pool = db.pool /\ db'.room = db.room /\ db'.documents = db.documents
        /\ db'.versions = db.versions /\ db'.reviews = db.reviews /\ db'.decisions = db.decisions
        /\ db'.audit = db.audit
    BY DEF Tables
  <1>2. QED
    BY <1>1 DEF Grown

\* The rows of the documents.
LEMMA WriteDocuments ==
  ASSUME db \in Tables, NEW r \in [Doc -> Row(DocumentRow)], db' = [db EXCEPT !.documents = r]
  PROVE  /\ db' \in Tables /\ db'.documents = r
         /\ db'.pool = db.pool /\ db'.room = db.room /\ db'.members = db.members
         /\ db'.versions = db.versions /\ db'.reviews = db.reviews
         /\ db'.decisions = db.decisions /\ db'.audit = db.audit
         /\ (\A d \in Doc : r[d] = NoRow => db.documents[d] = NoRow) => Grown(db, db')
  <1>1. /\ db' \in Tables /\ db'.documents = r
        /\ db'.pool = db.pool /\ db'.room = db.room /\ db'.members = db.members
        /\ db'.versions = db.versions /\ db'.reviews = db.reviews /\ db'.decisions = db.decisions
        /\ db'.audit = db.audit
    BY DEF Tables
  <1>2. QED
    BY <1>1 DEF Grown

\* The rows of the versions.
LEMMA WriteVersions ==
  ASSUME db \in Tables, NEW r \in SUBSET VersionRow, db' = [db EXCEPT !.versions = r]
  PROVE  /\ db' \in Tables /\ db'.versions = r
         /\ db'.pool = db.pool /\ db'.room = db.room /\ db'.members = db.members
         /\ db'.documents = db.documents /\ db'.reviews = db.reviews
         /\ db'.decisions = db.decisions /\ db'.audit = db.audit
         /\ db.versions \subseteq r => Grown(db, db')
  <1>1. /\ db' \in Tables /\ db'.versions = r
        /\ db'.pool = db.pool /\ db'.room = db.room /\ db'.members = db.members
        /\ db'.documents = db.documents /\ db'.reviews = db.reviews
        /\ db'.decisions = db.decisions /\ db'.audit = db.audit
    BY DEF Tables
  <1>2. QED
    BY <1>1 DEF Grown

\* The rows of the reviews.
LEMMA WriteReviews ==
  ASSUME db \in Tables, NEW r \in [Doc -> [User -> Row(ReviewRow)]], db' = [db EXCEPT !.reviews = r]
  PROVE  /\ db' \in Tables /\ db'.reviews = r
         /\ db'.pool = db.pool /\ db'.room = db.room /\ db'.members = db.members
         /\ db'.documents = db.documents /\ db'.versions = db.versions
         /\ db'.decisions = db.decisions /\ db'.audit = db.audit
         /\ (\A d \in Doc, u \in User : r[d][u] = NoRow => db.reviews[d][u] = NoRow)
               => Grown(db, db')
  <1>1. /\ db' \in Tables /\ db'.reviews = r
        /\ db'.pool = db.pool /\ db'.room = db.room /\ db'.members = db.members
        /\ db'.documents = db.documents /\ db'.versions = db.versions
        /\ db'.decisions = db.decisions /\ db'.audit = db.audit
    BY DEF Tables
  <1>2. QED
    BY <1>1 DEF Grown

\* The rows of the decisions.
LEMMA WriteDecisions ==
  ASSUME db \in Tables, NEW r \in SUBSET DecisionRow, db' = [db EXCEPT !.decisions = r]
  PROVE  /\ db' \in Tables /\ db'.decisions = r
         /\ db'.pool = db.pool /\ db'.room = db.room /\ db'.members = db.members
         /\ db'.documents = db.documents /\ db'.versions = db.versions
         /\ db'.reviews = db.reviews /\ db'.audit = db.audit
         /\ db.decisions \subseteq r => Grown(db, db')
  <1>1. /\ db' \in Tables /\ db'.decisions = r
        /\ db'.pool = db.pool /\ db'.room = db.room /\ db'.members = db.members
        /\ db'.documents = db.documents /\ db'.versions = db.versions /\ db'.reviews = db.reviews
        /\ db'.audit = db.audit
    BY DEF Tables
  <1>2. QED
    BY <1>1 DEF Grown

\* The rows of the trail.
LEMMA WriteAudit ==
  ASSUME db \in Tables, NEW r \in SUBSET Nat, db' = [db EXCEPT !.audit = r]
  PROVE  /\ db' \in Tables /\ db'.audit = r
         /\ db'.pool = db.pool /\ db'.room = db.room /\ db'.members = db.members
         /\ db'.documents = db.documents /\ db'.versions = db.versions
         /\ db'.reviews = db.reviews /\ db'.decisions = db.decisions
         /\ Grown(db, db')
  <1>1. /\ db' \in Tables /\ db'.audit = r
        /\ db'.pool = db.pool /\ db'.room = db.room /\ db'.members = db.members
        /\ db'.documents = db.documents /\ db'.versions = db.versions /\ db'.reviews = db.reviews
        /\ db'.decisions = db.decisions
    BY DEF Tables
  <1>2. QED
    BY <1>1 DEF Grown

-----------------------------------------------------------------------------
(* What the handlers find *)

\* No row is taken for a missing one.
LEMMA RowsAreRows ==
  /\ \A s \in PoolStates : s \in Row(PoolRow) /\ s # NoRow
  /\ {"pool", "sentinel"} \subseteq Row(RoomRow) /\ "pool" # NoRow /\ "sentinel" # NoRow
  /\ \A m \in MemberRow : m \in Row(MemberRow) /\ m # NoRow
  /\ \A m \in DocumentRow : m \in Row(DocumentRow) /\ m # NoRow
  /\ \A s \in ReviewStatuses : s \in Row(ReviewRow) /\ s # NoRow
  BY NoRowAssumption DEF Row, PoolRow, RoomRow, ReviewRow

\* An event whose predecessors include one of another kind finds that one's rows, provided
\* that one is not dropped.
LEMMA EarlierIsIn ==
  ASSUME IndexerInv, step # "poll", NEW j \in 1 .. pos - 1, Kept(emission, chain[j])
  PROVE  In(db, chain[j])
  BY Handled DEF Audited

\* After the events of create_pool the pool and its data room are there.
LEMMA OpenedRows ==
  ASSUME IndexerInv, step # "poll"
  PROVE  /\ emission = "assumed" /\ chain[pos].kind # "PoolCreated" => db.pool # NoRow
         /\ chain[pos].kind \notin {"PoolCreated", "DataRoomCreated", "MemberAdded"} =>
               db.pool # NoRow /\ db.room # NoRow
         /\ emission = "assumed" /\ chain[pos].kind \notin {"PoolCreated", "DataRoomCreated"} =>
               db.room # NoRow
  <1>1. /\ pos \in 1 .. Len(chain) /\ Len(chain) \in Nat /\ pos \in Nat
        /\ emission \in {"package", "assumed"} /\ Opened /\ chain \in Seq(Events)
    BY Handled DEF IndexerInv, ChainInv
  <1>2. chain # <<>>
    BY <1>1
  <1>3. ASSUME NEW j \in 1 .. pos - 1
        PROVE  /\ chain[j].kind = "PoolCreated" => db.pool # NoRow
               /\ chain[j].kind = "DataRoomCreated" => db.room # NoRow
    <2>1. chain[j].kind \in {"PoolCreated", "DataRoomCreated"} => Kept(emission, chain[j])
      BY DEF Kept, HandledKinds
    <2>2. QED
      BY <2>1, EarlierIsIn DEF In
  <1>4. CASE emission = "package"
    <2>1. /\ chain[1].kind = "DataRoomCreated" /\ chain[2].kind = "MemberAdded"
          /\ chain[3].kind = "PoolCreated"
      BY <1>1, <1>2, <1>4 DEF Opened
    <2>2. SUFFICES ASSUME chain[pos].kind \notin {"PoolCreated", "DataRoomCreated", "MemberAdded"}
                   PROVE  db.pool # NoRow /\ db.room # NoRow
      BY <1>4
    <2>3. pos # 1 /\ pos # 2 /\ pos # 3
      BY <2>1, <2>2
    <2>4. 1 \in 1 .. pos - 1 /\ 3 \in 1 .. pos - 1
      BY <1>1, <2>3
    <2>5. QED
      BY <1>3, <2>1, <2>4
  <1>5. CASE emission = "assumed"
    <2>1. chain[1].kind = "PoolCreated" /\ chain[2].kind = "DataRoomCreated"
      BY <1>1, <1>2, <1>5 DEF Opened
    <2>2. ASSUME chain[pos].kind # "PoolCreated" PROVE db.pool # NoRow
      <3>1. pos # 1
        BY <2>1, <2>2
      <3>2. 1 \in 1 .. pos - 1
        BY <1>1, <3>1
      <3>3. QED
        BY <1>3, <2>1, <3>2
    <2>3. ASSUME chain[pos].kind \notin {"PoolCreated", "DataRoomCreated"} PROVE db.room # NoRow
      <3>1. pos # 1 /\ pos # 2
        BY <2>1, <2>3
      <3>2. 2 \in 1 .. pos - 1
        BY <1>1, <3>1
      <3>3. QED
        BY <1>3, <2>1, <3>2
    <2>4. QED
      BY <2>2, <2>3
  <1>6. QED
    BY <1>1, <1>4, <1>5

\* Where events are as the handlers assume, what an event presupposes is in the tables.
LEMMA PresupposedRows ==
  ASSUME IndexerInv, step # "poll", emission = "assumed"
  PROVE  /\ chain[pos].kind \in {"MemberRemoved", "MemberRoleUpdated"} =>
               db.members[chain[pos].user] # NoRow
         /\ chain[pos].kind \in {"DocumentVersionAdded", "DocumentReviewed"} =>
               db.documents[chain[pos].doc] # NoRow
  <1>1. Follows(chain, MemberRoomField, chain[pos], pos - 1)
    BY Handled DEF IndexerInv, ChainInv
  <1>2. ASSUME chain[pos].kind \in {"MemberRemoved", "MemberRoleUpdated"}
        PROVE  db.members[chain[pos].user] # NoRow
    <2>1. PICK j \in 1 .. pos - 1 : /\ chain[j].kind = "MemberAdded"
                                    /\ chain[j].user = chain[pos].user
      BY <1>1, <1>2 DEF Follows
    <2>2. Kept(emission, chain[j])
      BY <2>1 DEF Kept, HandledKinds
    <2>3. QED
      BY <2>1, <2>2, EarlierIsIn DEF In
  <1>3. ASSUME chain[pos].kind \in {"DocumentVersionAdded", "DocumentReviewed"}
        PROVE  db.documents[chain[pos].doc] # NoRow
    <2>1. PICK j \in 1 .. pos - 1 : /\ chain[j].kind = "DocumentCreated"
                                    /\ chain[j].doc = chain[pos].doc
      BY <1>1, <1>3 DEF Follows
    <2>2. Kept(emission, chain[j])
      BY <2>1 DEF Kept, HandledKinds
    <2>3. QED
      BY <2>1, <2>2, EarlierIsIn DEF In
  <1>4. QED
    BY <1>2, <1>3

\* An event of a handled kind is dropped only if it is one of those of the package's
\* emission that miss their room.
LEMMA DroppedAreNotKept ==
  ASSUME IndexerInv, step # "poll", Dropped(chain[pos])
  PROVE  ~Kept(emission, chain[pos])
  <1> DEFINE e == chain[pos]
  <1>1. emission \in {"package", "assumed"} /\ Follows(chain, MemberRoomField, e, pos - 1)
    BY Handled DEF IndexerInv, ChainInv
  <1>2. emission = "assumed" => db.room # "sentinel"
    BY DEF IndexerInv, TablesInv
  <1>3. db.room \in Row(RoomRow)
    BY DEF IndexerInv, TablesInv, Tables
  <1>4. CASE e.kind \in MemberKinds /\ ~RoomFound(e)
    <2>1. CASE e.kind = "MemberRoleUpdated"
      <3>1. e.room = "room" /\ db.room # NoRow
        BY <1>1, <2>1, OpenedRows DEF Follows
      <3>2. QED
        BY <1>4, <3>1 DEF RoomFound
    <2>2. CASE e.kind \in {"MemberAdded", "MemberRemoved"} /\ emission = "assumed"
      <3>1. e.room = "room" /\ db.room # NoRow
        BY <1>1, <2>2, OpenedRows DEF Follows, MemberRoomField
      <3>2. QED
        BY <1>4, <3>1 DEF RoomFound
    <2>3. QED
      BY <1>1, <1>4, <2>1, <2>2 DEF Kept, MemberKinds
  <1>5. CASE e.kind = "DocumentCreated" /\ (db.pool = NoRow \/ db.room # "pool")
    <2>1. emission = "assumed" => db.pool # NoRow /\ db.room # NoRow
      BY <1>5, OpenedRows
    <2>2. emission = "assumed" => db.room = "pool"
      BY <1>2, <1>3, <2>1 DEF Row, RoomRow
    <2>3. QED
      BY <1>1, <1>5, <2>1, <2>2 DEF Kept
  <1>6. CASE e.kind \in {"DocumentVersionAdded", "DocumentReviewed"} /\ db.documents[e.doc] = NoRow
    <2>1. emission # "assumed"
      BY <1>6, PresupposedRows
    <2>2. QED
      BY <1>1, <1>6, <2>1 DEF Kept
  <1>7. CASE e.kind = "ICDecisionCreated" /\ db.pool = NoRow
    BY <1>7, OpenedRows
  <1>8. QED
    BY <1>4, <1>5, <1>6, <1>7 DEF Dropped

-----------------------------------------------------------------------------
(* The handlers *)

\* What every handler starts from.
LEMMA HandlerStarts ==
  ASSUME IndexerInv, NEW k, Handling(k)
  PROVE  /\ step = "write" /\ Event = chain[pos] /\ chain[pos].kind = k /\ chain[pos] \in Events
         /\ ~Dropped(chain[pos]) /\ ChainInv /\ TablesInv /\ db \in Tables
         /\ emission \in {"package", "assumed"}
         /\ emission = "assumed" => db.room # "sentinel"
  <1>1. step = "write" /\ Event = chain[pos]
    BY DEF Handling, Event
  <1>2. QED
    BY <1>1, Handled DEF Handling, IndexerInv, ChainInv, TablesInv

\* handlePoolCreated: a row in draft, unless there is one.
LEMMA PoolCreatedKeeps ==
  ASSUME IndexerInv, UNCHANGED chainVars, HandlePoolCreated
  PROVE  IndexerInv'
  <1> DEFINE r == IF db.pool = NoRow THEN "DRAFT" ELSE db.pool
  <1>1. /\ Handling("PoolCreated") /\ Continue("audit")
        /\ db' = [db EXCEPT !.pool = r]
    BY DEF HandlePoolCreated, InsertPool
  <1>2. /\ step = "write" /\ chain[pos].kind = "PoolCreated" /\ ChainInv /\ TablesInv
        /\ db \in Tables /\ (emission = "assumed" => db.room # "sentinel")
    BY <1>1, HandlerStarts
  <1>3. r \in Row(PoolRow) /\ r # NoRow
    BY <1>2, RowsAreRows DEF Tables, PoolStates
  <1> HIDE DEF r
  <1>4. /\ db' \in Tables /\ db'.pool = r /\ db'.room = db.room
        /\ db'.audit = db.audit /\ db'.decisions = db.decisions /\ Grown(db, db')
    BY <1>1, <1>2, <1>3, WritePool
  <1>5. TablesInv'
    BY <1>2, <1>4, TablesKept
  <1>6. In(db', chain[pos])
    BY <1>2, <1>3, <1>4 DEF In
  <1>7. QED
    BY <1>1, <1>2, <1>4, <1>5, <1>6, GoOn

\* handlePoolStateChanged: the row's state, if there is a row.
LEMMA PoolStateChangedKeeps ==
  ASSUME IndexerInv, UNCHANGED chainVars, HandlePoolStateChanged
  PROVE  IndexerInv'
  <1> DEFINE r == IF db.pool = NoRow THEN db.pool ELSE chain[pos].to
  <1>1. Handling("PoolStateChanged") /\ Continue("audit")
    BY DEF HandlePoolStateChanged
  <1>2. /\ step = "write" /\ chain[pos].kind = "PoolStateChanged" /\ ChainInv /\ TablesInv
        /\ db \in Tables /\ (emission = "assumed" => db.room # "sentinel")
        /\ Event = chain[pos] /\ chain[pos] \in Events
    BY <1>1, HandlerStarts
  <1>3. db' = [db EXCEPT !.pool = r]
    BY <1>2 DEF HandlePoolStateChanged, UpdatePoolState
  <1>4. r \in Row(PoolRow) /\ (r = NoRow => db.pool = NoRow)
    BY <1>2, RowsAreRows, EventFields DEF Tables
  <1> HIDE DEF r
  <1>5. /\ db' \in Tables /\ db'.room = db.room
        /\ db'.audit = db.audit /\ db'.decisions = db.decisions /\ Grown(db, db')
    BY <1>2, <1>3, <1>4, WritePool
  <1>6. TablesInv'
    BY <1>2, <1>5, TablesKept
  <1>7. In(db', chain[pos])
    BY <1>2 DEF In
  <1>8. QED
    BY <1>1, <1>2, <1>5, <1>6, <1>7, GoOn

\* handleDataRoomCreated: a row that refers to the pool, or to the placeholder when the
\* pool is not there yet, which the assumed emission rules out.
LEMMA DataRoomCreatedKeeps ==
  ASSUME IndexerInv, UNCHANGED chainVars, HandleDataRoomCreated
  PROVE  IndexerInv'
  <1> DEFINE parent == IF db.pool = NoRow THEN "sentinel" ELSE "pool"
             r == IF db.room = NoRow THEN parent ELSE db.room
  <1>1. /\ Handling("DataRoomCreated") /\ Continue("audit")
        /\ db' = [db EXCEPT !.room = r]
    BY DEF HandleDataRoomCreated, InsertRoom
  <1>2. /\ step = "write" /\ chain[pos].kind = "DataRoomCreated" /\ ChainInv /\ TablesInv
        /\ db \in Tables /\ (emission = "assumed" => db.room # "sentinel")
    BY <1>1, HandlerStarts
  <1>3. emission = "assumed" => db.pool # NoRow
    BY <1>2, OpenedRows
  <1>4. r \in Row(RoomRow) /\ r # NoRow /\ (emission = "assumed" => r # "sentinel")
    BY <1>2, <1>3, RowsAreRows DEF Tables
  <1> HIDE DEF r
  <1>5. /\ db' \in Tables /\ db'.room = r
        /\ db'.audit = db.audit /\ db'.decisions = db.decisions /\ Grown(db, db')
    BY <1>1, <1>2, <1>4, WriteRoom
  <1>6. TablesInv'
    BY <1>2, <1>4, <1>5, TablesKept
  <1>7. In(db', chain[pos])
    BY <1>2, <1>4, <1>5 DEF In
  <1>8. QED
    BY <1>1, <1>2, <1>5, <1>6, <1>7, GoOn

\* The member handlers write the member's row: r is what it becomes.
LEMMA MemberWritten ==
  ASSUME IndexerInv, UNCHANGED chainVars, NEW k \in MemberKinds, Handling(k), Continue("audit"),
         NEW r \in Row(MemberRow), db' = [db EXCEPT !.members[chain[pos].user] = r],
         r = NoRow => db.members[chain[pos].user] = NoRow,
         k # "MemberRoleUpdated" => r # NoRow
  PROVE  IndexerInv'
  <1> DEFINE u == chain[pos].user
             m == [db.members EXCEPT ![u] = r]
  <1>1. /\ step = "write" /\ chain[pos].kind = k /\ ChainInv /\ TablesInv
        /\ db \in Tables /\ (emission = "assumed" => db.room # "sentinel")
        /\ chain[pos] \in Events
    BY HandlerStarts
  <1>2. u \in User
    BY <1>1, EventFields
  <1>3. db' = [db EXCEPT !.members = m]
    OBVIOUS
  <1> HIDE DEF u
  <1>4. db.members \in [User -> Row(MemberRow)]
    BY <1>1 DEF Tables
  <1>5. /\ m \in [User -> Row(MemberRow)] /\ m[u] = r
        /\ \A v \in User : v # u => m[v] = db.members[v]
    BY <1>2, <1>4
  <1>6. \A v \in User : m[v] = NoRow => db.members[v] = NoRow
    BY <1>5 DEF u
  <1> HIDE DEF m
  <1>7. /\ db' \in Tables /\ db'.members = m /\ db'.room = db.room
        /\ db'.audit = db.audit /\ db'.decisions = db.decisions /\ Grown(db, db')
    BY <1>1, <1>3, <1>5, <1>6, WriteMembers
  <1>8. TablesInv'
    BY <1>1, <1>7, TablesKept
  <1>9. In(db', chain[pos])
    BY <1>1, <1>5, <1>7 DEF In, MemberKinds, u
  <1>10. QED
    BY <1>1, <1>7, <1>8, <1>9, GoOn

\* handleMemberAdded: an upsert.
LEMMA MemberAddedKeeps ==
  ASSUME IndexerInv, UNCHANGED chainVars, HandleMemberAdded
  PROVE  IndexerInv'
  <1> DEFINE r == [role |-> chain[pos].role, active |-> TRUE]
  <1>1. Handling("MemberAdded") /\ Continue("audit")
    BY DEF HandleMemberAdded
  <1>2. Event = chain[pos] /\ chain[pos] \in Events /\ chain[pos].kind = "MemberAdded"
    BY <1>1, HandlerStarts
  <1>3. db' = [db EXCEPT !.members[chain[pos].user] = r]
    BY <1>2 DEF HandleMemberAdded, UpsertMember
  <1>4. r \in MemberRow
    BY <1>2, EventFields DEF MemberRow
  <1> HIDE DEF r
  <1>5. r \in Row(MemberRow) /\ r # NoRow /\ "MemberAdded" \in MemberKinds
    BY <1>4, RowsAreRows DEF MemberKinds
  <1>6. QED
    BY <1>1, <1>3, <1>5, MemberWritten

\* handleMemberRemoved: the member is there, since the event that added it is in the trail.
LEMMA MemberRemovedKeeps ==
  ASSUME IndexerInv, UNCHANGED chainVars, HandleMemberRemoved
  PROVE  IndexerInv'
  <1> DEFINE u == chain[pos].user
             r == [db.members[u] EXCEPT !.active = FALSE]
  <1>1. Handling("MemberRemoved") /\ Continue("audit")
    BY DEF HandleMemberRemoved
  <1>2. /\ Event = chain[pos] /\ chain[pos] \in Events /\ chain[pos].kind = "MemberRemoved"
        /\ ~Dropped(chain[pos]) /\ step = "write" /\ db \in Tables /\ ChainInv
        /\ emission \in {"package", "assumed"}
    BY <1>1, HandlerStarts
  <1>3. u \in User /\ "MemberRemoved" \in MemberKinds
    BY <1>2, EventFields DEF MemberKinds
  <1>4. db.members[u] # NoRow
    <2>1. Follows(chain, MemberRoomField, chain[pos], pos - 1)
      BY <1>2, Handled DEF ChainInv
    <2>2. chain[pos].room = "room" /\ chain[pos].room = MemberRoomField
      BY <1>2, <1>3, <2>1 DEF Dropped, RoomFound, Follows
    <2>3. emission = "assumed"
      BY <1>2, <2>2 DEF MemberRoomField
    <2>4. QED
      BY <1>2, <2>3, PresupposedRows
  <1>5. db' = [db EXCEPT !.members[u] = r]
    BY <1>2, <1>4 DEF HandleMemberRemoved, DeactivateMember
  <1>6. r \in MemberRow
    BY <1>2, <1>3, <1>4 DEF Tables, Row, MemberRow
  <1> HIDE DEF r
  <1>7. r \in Row(MemberRow) /\ r # NoRow
    BY <1>6, RowsAreRows
  <1>8. QED
    BY <1>1, <1>3, <1>5, <1>7, MemberWritten

\* handleMemberRoleUpdated: the row's role, if there is a row.
LEMMA RoleUpdatedKeeps ==
  ASSUME IndexerInv, UNCHANGED chainVars, HandleMemberRoleUpdated
  PROVE  IndexerInv'
  <1> DEFINE u == chain[pos].user
             m == db.members[u]
             r == IF m = NoRow THEN m ELSE [m EXCEPT !.role = chain[pos].role]
  <1>1. Handling("MemberRoleUpdated") /\ Continue("audit")
    BY DEF HandleMemberRoleUpdated
  <1>2. /\ Event = chain[pos] /\ chain[pos] \in Events
        /\ chain[pos].kind = "MemberRoleUpdated" /\ db \in Tables
    BY <1>1, HandlerStarts
  <1>3. u \in User /\ chain[pos].role \in SUBSET Roles /\ "MemberRoleUpdated" \in MemberKinds
    BY <1>2, EventFields DEF MemberKinds
  <1>4. db' = [db EXCEPT !.members[u] = r]
    BY <1>2 DEF HandleMemberRoleUpdated, UpdateRole
  <1>5. r \in Row(MemberRow) /\ (r = NoRow => m = NoRow)
    <2>1. CASE m = NoRow
      BY <2>1 DEF Row
    <2>2. CASE m # NoRow
      <3>1. m \in MemberRow
        BY <1>2, <1>3, <2>2 DEF Tables, Row
      <3>2. r \in MemberRow
        BY <1>3, <2>2, <3>1 DEF MemberRow
      <3>3. QED
        BY <3>2, RowsAreRows
    <2>3. QED
      BY <2>1, <2>2
  <1> HIDE DEF r
  <1>6. QED
    BY <1>1, <1>3, <1>4, <1>5, MemberWritten

\* The handlers of documents write the document's row: r is what it becomes.
LEMMA DocumentWritten ==
  ASSUME db \in Tables, NEW d \in Doc, NEW r \in DocumentRow,
         db' = [db EXCEPT !.documents[d] = r]
  PROVE  /\ db' \in Tables /\ db'.documents[d] = r /\ db'.room = db.room
         /\ db'.audit = db.audit /\ db'.decisions = db.decisions /\ Grown(db, db')
  <1> DEFINE m == [db.documents EXCEPT ![d] = r]
  <1>1. db' = [db EXCEPT !.documents = m]
    OBVIOUS
  <1>2. r \in Row(DocumentRow) /\ r # NoRow
    BY RowsAreRows
  <1>3. db.documents \in [Doc -> Row(DocumentRow)]
    BY DEF Tables
  <1>4. /\ m \in [Doc -> Row(DocumentRow)] /\ m[d] = r
        /\ \A v \in Doc : v # d => m[v] = db.documents[v]
    BY <1>2, <1>3
  <1>5. \A v \in Doc : m[v] = NoRow => db.documents[v] = NoRow
    BY <1>2, <1>4
  <1> HIDE DEF m
  <1>6. QED
    BY <1>1, <1>4, <1>5, WriteDocuments

\* The statements that insert a version.
LEMMA VersionWritten ==
  ASSUME db \in Tables, NEW d \in Doc, NEW v \in Nat, InsertVersion(d, v)
  PROVE  /\ db' \in Tables /\ <<d, v>> \in db'.versions /\ db'.documents = db.documents
         /\ db'.room = db.room
         /\ db'.audit = db.audit /\ db'.decisions = db.decisions /\ Grown(db, db')
  <1> DEFINE r == db.versions \union {<<d, v>>}
  <1>1. db' = [db EXCEPT !.versions = r]
    BY DEF InsertVersion
  <1>2. r \in SUBSET VersionRow /\ db.versions \subseteq r /\ <<d, v>> \in r
    BY DEF Tables, VersionRow
  <1> HIDE DEF r
  <1>3. QED
    BY <1>1, <1>2, WriteVersions

\* handleDocumentCreated, first statement.
LEMMA DocumentCreatedKeeps ==
  ASSUME IndexerInv, UNCHANGED chainVars, HandleDocumentCreated
  PROVE  IndexerInv'
  <1> DEFINE d == chain[pos].doc
             r == IF db.documents[d] = NoRow THEN [current |-> 1, count |-> 1]
                                             ELSE db.documents[d]
             s == IF db.documents[d] = NoRow THEN "version" ELSE "audit"
  <1>1. Handling("DocumentCreated")
    BY DEF HandleDocumentCreated
  <1>2. /\ step = "write" /\ chain[pos].kind = "DocumentCreated" /\ ChainInv /\ TablesInv
        /\ db \in Tables /\ (emission = "assumed" => db.room # "sentinel")
        /\ Event = chain[pos] /\ chain[pos] \in Events
    BY <1>1, HandlerStarts
  <1>3. d \in Doc
    BY <1>2, EventFields
  <1>4. db' = [db EXCEPT !.documents[d] = r] /\ Continue(s)
    BY <1>2 DEF HandleDocumentCreated, InsertDocument
  <1>5. r \in DocumentRow
    <2>1. [current |-> 1, count |-> 1] \in DocumentRow
      BY DEF DocumentRow
    <2>2. db.documents[d] \in Row(DocumentRow)
      BY <1>2, <1>3 DEF Tables
    <2>3. QED
      BY <2>1, <2>2 DEF Row
  <1>6. s \in {"version", "info", "audit"} /\ s # "info"
    OBVIOUS
  <1>7. r # NoRow
    BY <1>5, RowsAreRows
  <1> HIDE DEF r, s
  <1>8. /\ db' \in Tables /\ db'.documents[d] = r /\ db'.room = db.room
        /\ db'.audit = db.audit /\ db'.decisions = db.decisions /\ Grown(db, db')
    BY <1>2, <1>3, <1>4, <1>5, DocumentWritten
  <1>9. TablesInv'
    BY <1>2, <1>8, TablesKept
  <1>10. In(db', chain[pos])
    BY <1>2, <1>7, <1>8 DEF In
  <1>11. QED
    BY <1>2, <1>4, <1>6, <1>8, <1>9, <1>10, GoOn

\* The state between the statements of a handler.
LEMMA HandlerMiddle ==
  ASSUME IndexerInv, step \in {"version", "info", "audit"}
  PROVE  /\ Event = chain[pos] /\ chain[pos] \in Events /\ In(db, chain[pos])
         /\ ChainInv /\ TablesInv /\ db \in Tables
         /\ emission = "assumed" => db.room # "sentinel"
         /\ step = "version" => chain[pos].kind = "DocumentCreated"
         /\ step = "info" => /\ chain[pos].kind = "DocumentVersionAdded"
                             /\ db.documents[chain[pos].doc] # NoRow
  BY Handled DEF IndexerInv, TablesInv, TrailInv

\* handleDocumentCreated, second statement.
LEMMA FirstVersionKeeps ==
  ASSUME IndexerInv, UNCHANGED chainVars, InsertFirstVersion
  PROVE  IndexerInv'
  <1> DEFINE d == chain[pos].doc
  <1>1. step = "version" /\ InsertVersion(Event.doc, 1) /\ Continue("audit")
    BY DEF InsertFirstVersion
  <1>2. /\ Event = chain[pos] /\ chain[pos] \in Events /\ In(db, chain[pos])
        /\ ChainInv /\ TablesInv /\ db \in Tables
        /\ (emission = "assumed" => db.room # "sentinel")
        /\ chain[pos].kind = "DocumentCreated"
    BY <1>1, HandlerMiddle
  <1>3. d \in Doc /\ InsertVersion(d, 1)
    BY <1>1, <1>2, EventFields
  <1>4. /\ db' \in Tables /\ db'.room = db.room
        /\ db'.audit = db.audit /\ db'.decisions = db.decisions /\ Grown(db, db')
    BY <1>2, <1>3, VersionWritten
  <1>5. TablesInv'
    BY <1>2, <1>4, TablesKept
  <1>6. In(db', chain[pos])
    BY <1>2, <1>4, InStays
  <1>7. QED
    BY <1>1, <1>4, <1>5, <1>6, GoOn

\* handleDocumentVersionAdded, first statement: the document is there.
LEMMA VersionAddedKeeps ==
  ASSUME IndexerInv, UNCHANGED chainVars, HandleDocumentVersionAdded
  PROVE  IndexerInv'
  <1> DEFINE d == chain[pos].doc
             v == chain[pos].version
  <1>1. Handling("DocumentVersionAdded") /\ Continue("info")
    BY DEF HandleDocumentVersionAdded
  <1>2. /\ step = "write" /\ chain[pos].kind = "DocumentVersionAdded" /\ ChainInv /\ TablesInv
        /\ db \in Tables /\ (emission = "assumed" => db.room # "sentinel")
        /\ Event = chain[pos] /\ chain[pos] \in Events /\ ~Dropped(chain[pos])
    BY <1>1, HandlerStarts
  <1>3. d \in Doc /\ v \in Nat
    BY <1>2, EventFields
  <1>4. InsertVersion(d, v)
    BY <1>2 DEF HandleDocumentVersionAdded
  <1>5. db.documents[d] # NoRow
    BY <1>2 DEF Dropped
  <1>6. /\ db' \in Tables /\ <<d, v>> \in db'.versions /\ db'.documents = db.documents
        /\ db'.room = db.room
        /\ db'.audit = db.audit /\ db'.decisions = db.decisions /\ Grown(db, db')
    BY <1>2, <1>3, <1>4, VersionWritten
  <1>7. TablesInv'
    BY <1>2, <1>6, TablesKept
  <1>8. In(db', chain[pos])
    BY <1>2, <1>6 DEF In
  <1>9. QED
    BY <1>1, <1>2, <1>5, <1>6, <1>7, <1>8, GoOn

\* handleDocumentVersionAdded, second statement.
LEMMA VersionInfoKeeps ==
  ASSUME IndexerInv, UNCHANGED chainVars, UpdateVersionInfo
  PROVE  IndexerInv'
  <1> DEFINE d == chain[pos].doc
             v == chain[pos].version
             r == [current |-> v, count |-> db.documents[d].count + 1]
  <1>1. step = "info" /\ BumpVersion(Event.doc, Event.version) /\ Continue("audit")
    BY DEF UpdateVersionInfo
  <1>2. /\ Event = chain[pos] /\ chain[pos] \in Events /\ In(db, chain[pos])
        /\ ChainInv /\ TablesInv /\ db \in Tables
        /\ (emission = "assumed" => db.room # "sentinel")
        /\ chain[pos].kind = "DocumentVersionAdded" /\ db.documents[d] # NoRow
    BY <1>1, HandlerMiddle
  <1>3. d \in Doc /\ v \in Nat
    BY <1>2, EventFields
  <1>4. db' = [db EXCEPT !.documents[d] = r]
    BY <1>1, <1>2 DEF BumpVersion
  <1>5. r \in DocumentRow
    <2>1. db.documents[d] \in DocumentRow
      BY <1>2, <1>3 DEF Tables, Row
    <2>2. db.documents[d].count \in Nat
      BY <2>1 DEF DocumentRow
    <2>3. QED
      BY <1>3, <2>2 DEF DocumentRow
  <1> HIDE DEF r
  <1>6. /\ db' \in Tables /\ db'.room = db.room
        /\ db'.audit = db.audit /\ db'.decisions = db.decisions /\ Grown(db, db')
    BY <1>2, <1>3, <1>4, <1>5, DocumentWritten
  <1>7. TablesInv'
    BY <1>2, <1>6, TablesKept
  <1>8. In(db', chain[pos])
    BY <1>2, <1>6, InStays
  <1>9. QED
    BY <1>1, <1>6, <1>7, <1>8, GoOn

\* handleDocumentReviewed: an upsert.
LEMMA ReviewedKeeps ==
  ASSUME IndexerInv, UNCHANGED chainVars, HandleDocumentReviewed
  PROVE  IndexerInv'
  <1> DEFINE d == chain[pos].doc
             u == chain[pos].user
             s == chain[pos].status
             m == [db.reviews EXCEPT ![d][u] = s]
  <1>1. Handling("DocumentReviewed") /\ Continue("audit")
    BY DEF HandleDocumentReviewed
  <1>2. /\ step = "write" /\ chain[pos].kind = "DocumentReviewed" /\ ChainInv /\ TablesInv
        /\ db \in Tables /\ (emission = "assumed" => db.room # "sentinel")
        /\ Event = chain[pos] /\ chain[pos] \in Events
    BY <1>1, HandlerStarts
  <1>3. d \in Doc /\ u \in User /\ s \in Row(ReviewRow) /\ s # NoRow
    BY <1>2, EventFields, RowsAreRows
  <1>4. db' = [db EXCEPT !.reviews = m]
    BY <1>2 DEF HandleDocumentReviewed, UpsertReview
  <1>5. db.reviews \in [Doc -> [User -> Row(ReviewRow)]]
    BY <1>2 DEF Tables
  <1>6. m \in [Doc -> [User -> Row(ReviewRow)]] /\ m[d][u] = s
    BY <1>3, <1>5
  <1>7. \A v \in Doc, w \in User : m[v][w] = NoRow => db.reviews[v][w] = NoRow
    BY <1>3, <1>5
  <1> HIDE DEF m
  <1>8. /\ db' \in Tables /\ db'.reviews = m /\ db'.room = db.room
        /\ db'.audit = db.audit /\ db'.decisions = db.decisions /\ Grown(db, db')
    BY <1>2, <1>4, <1>6, <1>7, WriteReviews
  <1>9. TablesInv'
    BY <1>2, <1>8, TablesKept
  <1>10. In(db', chain[pos])
    BY <1>2, <1>3, <1>6, <1>8 DEF In
  <1>11. QED
    BY <1>1, <1>2, <1>8, <1>9, <1>10, GoOn

\* handleICDecisionCreated: a row of that number can only be the decision's own.
LEMMA DecisionCreatedKeeps ==
  ASSUME IndexerInv, UNCHANGED chainVars, HandleICDecisionCreated
  PROVE  IndexerInv'
  <1> DEFINE x == <<chain[pos].index, chain[pos].type>>
             taken == \E t \in ICDecisionTypes : <<chain[pos].index, t>> \in db.decisions
             r == IF taken THEN db.decisions ELSE db.decisions \union {x}
  <1>1. Handling("ICDecisionCreated") /\ Continue("audit")
    BY DEF HandleICDecisionCreated
  <1>2. /\ step = "write" /\ chain[pos].kind = "ICDecisionCreated" /\ ChainInv /\ TablesInv
        /\ db \in Tables /\ (emission = "assumed" => db.room # "sentinel")
        /\ Event = chain[pos] /\ chain[pos] \in Events
    BY <1>1, HandlerStarts
  <1>3. x \in DecisionRow
    BY <1>2, EventFields DEF DecisionRow
  <1>4. db' = [db EXCEPT !.decisions = r]
    BY <1>2 DEF HandleICDecisionCreated, InsertDecision
  <1>5. pos \in 1 .. Len(chain)
    BY <1>2, Handled
  <1>6. x \in DecisionsAfter(Len(chain))
    BY <1>2, <1>5, DecisionPlaces
  <1>7. x \in r
    <2>1. CASE taken
      <3>1. PICK t \in ICDecisionTypes : <<chain[pos].index, t>> \in db.decisions
        BY <2>1
      <3>2. <<chain[pos].index, t>> \in DecisionsAfter(Len(chain))
        BY <1>2, <3>1 DEF TablesInv
      <3>3. <<chain[pos].index, t>> = x
        BY <1>2, <1>6, <3>2 DEF ChainInv, Numbered
      <3>4. QED
        BY <2>1, <3>1, <3>3
    <2>2. CASE ~taken
      BY <2>2
    <2>3. QED
      BY <2>1, <2>2
  <1>8. r \in SUBSET DecisionRow /\ db.decisions \subseteq r
        /\ r \subseteq DecisionsAfter(Len(chain))
    BY <1>2, <1>3, <1>6 DEF Tables, TablesInv
  <1> HIDE DEF r
  <1>9. /\ db' \in Tables /\ db'.decisions = r /\ db'.room = db.room
        /\ db'.audit = db.audit /\ Grown(db, db')
    BY <1>2, <1>4, <1>8, WriteDecisions
  <1>10. TablesInv'
    <2>1. /\ chain' = chain /\ emission' = emission
          /\ DecisionsAfter(Len(chain))' = DecisionsAfter(Len(chain))
      BY <1>2, ChainStays
    <2>2. QED
      BY <1>2, <1>8, <1>9, <2>1 DEF TablesInv, AuditRow
  <1>11. In(db', chain[pos])
    BY <1>2, <1>7, <1>9 DEF In
  <1>12. QED
    BY <1>1, <1>2, <1>9, <1>10, <1>11, GoOn

\* The audit row of the event at hand, after its projection.
LEMMA AuditRowKeeps ==
  ASSUME IndexerInv, UNCHANGED chainVars, step \in {"write", "audit"}, InsertAuditRow, NextEvent,
         In(db, chain[pos])
  PROVE  IndexerInv'
  <1> DEFINE r == db.audit \union {pos}
  <1>1. /\ ChainInv /\ TablesInv /\ db \in Tables /\ db.audit \subseteq 1 .. Len(chain)
        /\ (emission = "assumed" => db.room # "sentinel")
        /\ db.decisions \subseteq DecisionsAfter(Len(chain))
    BY DEF IndexerInv, TablesInv, AuditRow
  <1>2. pos \in 1 .. Len(chain) /\ pos \in Nat /\ chain[pos] \in Events
    BY Handled
  <1>3. db' = [db EXCEPT !.audit = r]
    BY DEF InsertAuditRow
  <1>4. r \in SUBSET Nat /\ r \subseteq 1 .. Len(chain)
    BY <1>1, <1>2 DEF Tables
  <1>5. db.audit \subseteq r /\ pos \in r /\ \A i \in r : i \in db.audit \/ i = pos
    OBVIOUS
  <1> HIDE DEF r
  <1>6. /\ db' \in Tables /\ db'.audit = r /\ db'.room = db.room /\ db'.decisions = db.decisions
        /\ Grown(db, db')
    BY <1>1, <1>3, <1>4, WriteAudit
  <1>7. TablesInv'
    <2>1. /\ chain' = chain /\ emission' = emission
          /\ DecisionsAfter(Len(chain))' = DecisionsAfter(Len(chain))
      BY <1>1, ChainStays
    <2>2. QED
      BY <1>1, <1>4, <1>6, <2>1 DEF TablesInv, AuditRow
  <1>8. In(db', chain[pos])
    BY <1>2, <1>6, InStays
  <1>9. QED
    BY <1>5, <1>6, <1>7, <1>8, Finish

\* handleAuditEvent: the audit row is all there is.
LEMMA AuditEventKeeps ==
  ASSUME IndexerInv, UNCHANGED chainVars, HandleAuditEvent
  PROVE  IndexerInv'
  <1>1. Handling("AuditEvent") /\ InsertAuditRow /\ NextEvent
    BY DEF HandleAuditEvent
  <1>2. step = "write" /\ chain[pos].kind = "AuditEvent"
    BY <1>1, HandlerStarts
  <1>3. In(db, chain[pos])
    BY <1>2 DEF In
  <1>4. QED
    BY <1>1, <1>2, <1>3, AuditRowKeeps

\* The last statement of the other handlers.
LEMMA InsertAuditKeeps ==
  ASSUME IndexerInv, UNCHANGED chainVars, InsertAudit
  PROVE  IndexerInv'
  <1>1. step = "audit" /\ InsertAuditRow /\ NextEvent
    BY DEF InsertAudit
  <1>2. QED
    BY <1>1, HandlerMiddle, AuditRowKeeps

\* A skipped event is of no handled kind, or dropped.
LEMMA SkipKeeps ==
  ASSUME IndexerInv, UNCHANGED chainVars, Skip
  PROVE  IndexerInv'
  <1>1. /\ step = "write" /\ NextEvent /\ db' = db
        /\ Event.kind \notin HandledKinds \/ Dropped(Event)
    BY DEF Skip
  <1>2. ChainInv /\ TablesInv /\ Event = chain[pos] /\ \A i \in db.audit : In(db, chain[i])
    BY <1>1, Handled DEF IndexerInv
  <1>3. ~Kept(emission, chain[pos])
    BY <1>1, <1>2, DroppedAreNotKept DEF Kept
  <1>4. TablesInv'
    <2>1. /\ chain' = chain /\ emission' = emission
          /\ DecisionsAfter(Len(chain))' = DecisionsAfter(Len(chain))
      BY <1>2, ChainStays
    <2>2. QED
      BY <1>1, <1>2, <2>1 DEF TablesInv, AuditRow
  <1>5. Grown(db, db')
    BY <1>1 DEF Grown
  <1>6. QED
    BY <1>1, <1>2, <1>3, <1>4, <1>5, Finish

-----------------------------------------------------------------------------
(* The theorems *)

\* Before the first event.
LEMMA IndexerStarts ==
  ASSUME Init
  PROVE  IndexerInv
  <1>1. ChainInv
    BY ChainStarts DEF Init
  <1>2. /\ db = EmptyDb /\ savedCursor = 0 /\ cursor = 0 /\ step = "poll" /\ pos = 0
        /\ batchEnd = 0 /\ chain = <<>>
    BY DEF Init, IndexerInit, ChainInit
  <1>3. EmptyDb \in Tables
    BY DEF EmptyDb, Tables, Row
  <1>4. /\ EmptyDb.audit = {} /\ EmptyDb.decisions = {} /\ EmptyDb.room = NoRow
        /\ NoRow # "sentinel"
    BY RowsAreRows DEF EmptyDb
  <1>5. TablesInv
    BY <1>2, <1>3, <1>4 DEF TablesInv
  <1>6. LoopInv
    BY <1>2 DEF LoopInv, Steps
  <1>7. TrailInv
    BY <1>2, <1>4 DEF TrailInv
  <1>8. QED
    BY <1>1, <1>5, <1>6, <1>7 DEF IndexerInv

\* Every step of users, loop, failures and crashes.
LEMMA IndexerNext ==
  ASSUME IndexerInv, [Next]_vars
  PROVE  IndexerInv'
  <1>1. CASE ChainNext /\ UNCHANGED indexerVars
    BY <1>1, ChainStepKeeps
  <1>2. CASE Work /\ UNCHANGED chainVars
    <2>1. CASE Poll
      BY <1>2, <2>1, PollKeeps
    <2>2. CASE Skip
      BY <1>2, <2>2, SkipKeeps
    <2>3. CASE RefusedInsert
      <3>1. /\ db' = db /\ savedCursor' = savedCursor /\ cursor' = cursor
            /\ step' = "poll" /\ pos' = 0 /\ batchEnd' = 0
        BY <2>3 DEF RefusedInsert, GiveUpBatch
      <3>2. cursor \in 0 .. savedCursor
        BY DEF IndexerInv, LoopInv
      <3>3. QED
        BY <1>2, <3>1, <3>2, BackToPolling
    <2>4. CASE HandlePoolCreated
      BY <1>2, <2>4, PoolCreatedKeeps
    <2>5. CASE HandlePoolStateChanged
      BY <1>2, <2>5, PoolStateChangedKeeps
    <2>6. CASE HandleDataRoomCreated
      BY <1>2, <2>6, DataRoomCreatedKeeps
    <2>7. CASE HandleMemberAdded
      BY <1>2, <2>7, MemberAddedKeeps
    <2>8. CASE HandleMemberRemoved
      BY <1>2, <2>8, MemberRemovedKeeps
    <2>9. CASE HandleMemberRoleUpdated
      BY <1>2, <2>9, RoleUpdatedKeeps
    <2>10. CASE HandleDocumentCreated
      BY <1>2, <2>10, DocumentCreatedKeeps
    <2>11. CASE InsertFirstVersion
      BY <1>2, <2>11, FirstVersionKeeps
    <2>12. CASE HandleDocumentVersionAdded
      BY <1>2, <2>12, VersionAddedKeeps
    <2>13. CASE UpdateVersionInfo
      BY <1>2, <2>13, VersionInfoKeeps
    <2>14. CASE HandleDocumentReviewed
      BY <1>2, <2>14, ReviewedKeeps
    <2>15. CASE HandleICDecisionCreated
      BY <1>2, <2>15, DecisionCreatedKeeps
    <2>16. CASE HandleAuditEvent
      BY <1>2, <2>16, AuditEventKeeps
    <2>17. CASE InsertAudit
      BY <1>2, <2>17, InsertAuditKeeps
    <2>18. CASE SaveCursor
      BY <1>2, <2>18, SaveKeeps
    <2>19. CASE AdvanceCursor
      <3>1. /\ step = "advance" /\ db' = db /\ savedCursor' = savedCursor /\ cursor' = batchEnd
            /\ step' = "poll" /\ pos' = 0 /\ batchEnd' = 0
        BY <2>19 DEF AdvanceCursor
      <3>2. savedCursor = batchEnd /\ batchEnd \in Nat
        BY <3>1 DEF IndexerInv, LoopInv
      <3>3. QED
        BY <1>2, <3>1, <3>2, BackToPolling
    <2>20. QED
      BY <1>2, <2>1, <2>2, <2>3, <2>4, <2>5, <2>6, <2>7, <2>8, <2>9, <2>10, <2>11, <2>12, <2>13,
         <2>14, <2>15, <2>16, <2>17, <2>18, <2>19 DEF Work
  <1>3. CASE (Fail \/ Crash) /\ UNCHANGED chainVars
    <2>1. /\ db' = db /\ savedCursor' = savedCursor /\ cursor' \in {cursor, savedCursor}
          /\ step' = "poll" /\ pos' = 0 /\ batchEnd' = 0
      BY <1>3 DEF Fail, Crash, GiveUpBatch
    <2>2. savedCursor \in Nat /\ cursor \in 0 .. savedCursor
      BY LenProperties DEF IndexerInv, LoopInv, ChainInv
    <2>3. cursor' \in 0 .. savedCursor
      BY <2>1, <2>2
    <2>4. QED
      BY <1>3, <2>1, <2>3, BackToPolling
  <1>4. CASE UNCHANGED vars
    <2>1. /\ UNCHANGED chainVars /\ db' = db /\ savedCursor' = savedCursor /\ cursor' = cursor
          /\ pos' = pos /\ batchEnd' = batchEnd /\ step' = step
      BY <1>4 DEF vars, indexerVars
    <2>2. ChainInv /\ TablesInv /\ LoopInv /\ TrailInv
      BY DEF IndexerInv
    <2>3. /\ chain' = chain /\ emission' = emission /\ ChainInv'
          /\ DecisionsAfter(Len(chain))' = DecisionsAfter(Len(chain))
      BY <2>1, <2>2, ChainStays
    <2>4. TablesInv' /\ LoopInv'
      BY <2>1, <2>2, <2>3 DEF TablesInv, AuditRow, LoopInv
    <2>5. TrailInv'
      BY <2>1, <2>2, <2>3 DEF TrailInv, Audited, Event
    <2>6. QED
      BY <2>3, <2>4, <2>5 DEF IndexerInv
  <1>5. QED
    BY <1>1, <1>2, <1>3, <1>4 DEF Next

\* The chain is in order, the tables and the loop are where they should be, and the trail
\* is complete behind the loop: what the three theorems below follow from.
THEOREM IndexerInvariant == Spec => []IndexerInv
  <1>1. Init => IndexerInv
    BY IndexerStarts
  <1>2. IndexerInv /\ [Next]_vars => IndexerInv'
    BY IndexerNext
  <1>3. QED
    BY <1>1, <1>2, PTL DEF Spec

\* The tables hold rows of their types, the trail and the saved cursor stay within the
\* chain, and the loop within its batch (main.ts:68, event-processor.ts:30).
THEOREM IndexerTypes == Spec => []IndexerTypeOK
  <1>1. IndexerInv => IndexerTypeOK
    <2> SUFFICES ASSUME IndexerInv PROVE IndexerTypeOK
      OBVIOUS
    <2>1. db \in Tables /\ db.audit \subseteq AuditRow /\ LoopInv
      BY DEF IndexerInv, TablesInv
    <2>2. /\ db.pool \in Row(PoolRow) /\ db.room \in Row(RoomRow)
          /\ db.members \in [User -> Row(MemberRow)]
          /\ db.documents \in [Doc -> Row(DocumentRow)]
          /\ db.reviews \in [Doc -> [User -> Row(ReviewRow)]]
          /\ db.versions \subseteq VersionRow /\ db.decisions \subseteq DecisionRow
      BY <2>1 DEF Tables
    <2>3. QED
      BY <2>1, <2>2 DEF IndexerTypeOK, LoopInv
  <1>2. QED
    BY <1>1, IndexerInvariant, PTL

\* Whatever fails and wherever the process stops, the checkpoint of processBatch never
\* passes an event that has no audit row, except those the handlers drop.
THEOREM NothingIsSkipped == Spec => []CheckpointedIsAudited
  <1>1. IndexerInv => CheckpointedIsAudited
    BY KeptAreAudited DEF IndexerInv, TrailInv, CheckpointedIsAudited
  <1>2. QED
    BY <1>1, IndexerInvariant, PTL

\* The handlers write the audit row last: an event in the trail has its row in its table,
\* also when the handler ran in pieces (handlers.ts).
THEOREM AuditComesLast == Spec => []AuditedIsProjected
  <1>1. IndexerInv => AuditedIsProjected
    BY ProjectedIsIn DEF IndexerInv, TrailInv, AuditedIsProjected
  <1>2. QED
    BY <1>1, IndexerInvariant, PTL
=============================================================================

------------------------------- MODULE Indexer -------------------------------
(***************************************************************************)
(* apps/indexer: one process polls the chain for events, runs the handler  *)
(* of each against PostgreSQL, saves its cursor after the batch and polls  *)
(* again.  There is no transaction: every statement of a handler commits   *)
(* by itself, so the process can stop, or a statement fail, between any    *)
(* two of them, and the batch is then processed once more from its start.  *)
(*                                                                         *)
(* A step is one statement that writes; the reads of a handler happen      *)
(* with its first write, since nobody else writes these tables.  The Redis *)
(* keys the handlers delete are never filled by anyone and are left out.   *)
(***************************************************************************)
EXTENDS EventChain

CONSTANTS
    BatchLimit,    \* the limit of queryEvents
    MaxFaults,     \* bound of the model on failures and crashes
    SentinelRows,  \* whether the placeholder organisation and pool exist
    NoRow          \* the result of a lookup that finds nothing

ASSUME IndexerAssumption ==
    /\ BatchLimit \in Nat \ {0}
    /\ MaxFaults \in Nat
    /\ SentinelRows \in BOOLEAN

VARIABLES
    db,           \* the tables the indexer writes
    savedCursor,  \* indexer_checkpoints.last_cursor: 0 stands for null
    cursor,       \* the local variable of start()
    pos,          \* the event being handled
    batchEnd,     \* the last event of the batch
    step,         \* the statement that is next
    faults        \* failures and crashes so far

controlVars == <<savedCursor, cursor, batchEnd>>
indexerVars == <<db, savedCursor, cursor, pos, batchEnd, step, faults>>
vars        == <<chainVars, indexerVars>>

Steps == {"poll", "write", "version", "info", "audit", "save", "advance"}

-----------------------------------------------------------------------------
(* The tables, for one pool.  pool: the pools row, or rather its            *)
(* current_state; room: the pool the datarooms row refers to; the others    *)
(* map keys to rows.  document_versions and ic_decisions are never updated. *)

PoolRow     == PoolStates
RoomRow     == {"pool", "sentinel"}
MemberRow   == [role : SUBSET Roles, active : BOOLEAN]
DocumentRow == [current : Nat, count : Nat]
VersionRow  == Doc \X Nat
ReviewRow   == ReviewStatuses
DecisionRow == Nat \X ICDecisionTypes
AuditRow    == 1 .. Len(chain)

ASSUME NoRowAssumption ==
    /\ NoRow \notin PoolRow \union RoomRow \union ReviewRow
    /\ NoRow \notin MemberRow /\ NoRow \notin DocumentRow

EmptyDb ==
    [pool      |-> NoRow,
     room      |-> NoRow,
     members   |-> [u \in User |-> NoRow],
     documents |-> [d \in Doc |-> NoRow],
     versions  |-> {},
     reviews   |-> [d \in Doc |-> [u \in User |-> NoRow]],
     decisions |-> {},
     audit     |-> {}]

Event == chain[pos]

\* findBySuiObjectId(f.dataroom_id): only the room's own id finds the room.
RoomFound(e) == db.room # NoRow /\ e.room = "room"

\* The "if (!x) return" of the handlers.
Dropped(e) ==
    \/ e.kind \in MemberKinds /\ ~RoomFound(e)
    \/ e.kind = "DocumentCreated" /\ (db.pool = NoRow \/ db.room # "pool")
    \/ e.kind \in {"DocumentVersionAdded", "DocumentReviewed"} /\ db.documents[e.doc] = NoRow
    \/ e.kind = "ICDecisionCreated" /\ db.pool = NoRow

\* buildEventHandlerMap.
HandledKinds ==
    {"PoolCreated", "PoolStateChanged", "DataRoomCreated", "MemberAdded",
     "MemberRemoved", "MemberRoleUpdated", "DocumentCreated",
     "DocumentVersionAdded", "DocumentReviewed", "ICDecisionCreated", "AuditEvent"}

\* An insert whose foreign key names a row that is not there: PoolCreated always
\* refers to the placeholder organisation, and a room whose pool is unknown to
\* the placeholder pool.
Refused(e) ==
    /\ ~SentinelRows
    /\ \/ e.kind = "PoolCreated"
       \/ e.kind = "DataRoomCreated" /\ db.pool = NoRow

-----------------------------------------------------------------------------
(* The statements of the repositories.  An insert does nothing when its key is *)
(* there, an update nothing when its row is not.                               *)

InsertPool == db' = [db EXCEPT !.pool = IF @ = NoRow THEN "DRAFT" ELSE @]

UpdatePoolState(state) == db' = [db EXCEPT !.pool = IF @ = NoRow THEN @ ELSE state]

InsertRoom(parent) == db' = [db EXCEPT !.room = IF @ = NoRow THEN parent ELSE @]

UpsertMember(u, role) == db' = [db EXCEPT !.members[u] = [role |-> role, active |-> TRUE]]

DeactivateMember(u) ==
    db' = [db EXCEPT !.members[u] = IF @ = NoRow THEN @ ELSE [@ EXCEPT !.active = FALSE]]

UpdateRole(u, role) ==
    db' = [db EXCEPT !.members[u] = IF @ = NoRow THEN @ ELSE [@ EXCEPT !.role = role]]

InsertDocument(d) ==
    db' = [db EXCEPT !.documents[d] = IF @ = NoRow THEN [current |-> 1, count |-> 1] ELSE @]

InsertVersion(d, version) == db' = [db EXCEPT !.versions = @ \union {<<d, version>>}]

\* The count is incremented in place.
BumpVersion(d, version) ==
    db' = [db EXCEPT !.documents[d] = [current |-> version, count |-> @.count + 1]]

UpsertReview(d, u, status) == db' = [db EXCEPT !.reviews[d][u] = status]

InsertDecision(index, type) ==
    db' = [db EXCEPT !.decisions =
              IF \E t \in ICDecisionTypes : <<index, t>> \in @ THEN @
              ELSE @ \union {<<index, type>>}]

InsertAuditRow == db' = [db EXCEPT !.audit = @ \union {pos}]

-----------------------------------------------------------------------------
(* The loop *)

\* Mutant: the batch is taken from the limit, not from what there is.
Poll_AsksBeyondHead ==
    /\ step = "poll"
    /\ Len(chain) > cursor
    /\ batchEnd' = cursor + BatchLimit
    /\ pos' = cursor + 1
    /\ step' = "write"
    /\ UNCHANGED <<db, savedCursor, cursor, faults>>

Poll ==
    /\ step = "poll"
    /\ Len(chain) > cursor
    /\ batchEnd' = Min({cursor + BatchLimit, Len(chain)})
    /\ pos' = cursor + 1
    /\ step' = "write"
    /\ UNCHANGED <<db, savedCursor, cursor, faults>>

\* The handler returned: the next event of the batch, or the checkpoint.
NextEvent ==
    /\ step' = IF pos = batchEnd THEN "save" ELSE "write"
    /\ pos'  = IF pos = batchEnd THEN pos ELSE pos + 1
    /\ UNCHANGED <<controlVars, faults>>

\* The handler goes on to its statement s.
Continue(s) == step' = s /\ UNCHANGED <<controlVars, pos, faults>>

SaveCursor ==
    /\ step = "save"
    /\ savedCursor' = batchEnd
    /\ step' = "advance"
    /\ UNCHANGED <<db, cursor, pos, batchEnd, faults>>

\* Mutant: the assignment of nextCursor is missing.
AdvanceCursor_Forgotten ==
    /\ step = "advance"
    /\ step' = "poll" /\ pos' = 0 /\ batchEnd' = 0
    /\ UNCHANGED <<db, savedCursor, cursor, faults>>

AdvanceCursor ==
    /\ step = "advance"
    /\ cursor' = batchEnd
    /\ step' = "poll" /\ pos' = 0 /\ batchEnd' = 0
    /\ UNCHANGED <<db, savedCursor, faults>>

\* Rethrown by processBatch and caught in start(): the batch is given up, and
\* the next poll uses the cursor in memory.
GiveUpBatch ==
    /\ step' = "poll" /\ pos' = 0 /\ batchEnd' = 0
    /\ UNCHANGED <<db, savedCursor, cursor>>

RefusedInsert ==
    /\ step = "write" /\ Event.kind \in HandledKinds /\ Refused(Event)
    /\ GiveUpBatch
    /\ UNCHANGED faults

\* Mutant: processBatch logs the error and does not throw it again.
Fail_Swallowed ==
    /\ step \in {"write", "version", "info", "audit"}
    /\ faults < MaxFaults /\ faults' = faults + 1
    /\ step' = IF pos = batchEnd THEN "save" ELSE "write"
    /\ pos'  = IF pos = batchEnd THEN pos ELSE pos + 1
    /\ UNCHANGED <<db, controlVars>>

\* A statement fails: the database is away for a moment.
Fail ==
    /\ step # "poll"
    /\ faults < MaxFaults /\ faults' = faults + 1
    /\ GiveUpBatch

\* The process stops, by a crash or by the shutdown that does not wait for the
\* batch, and start() runs again with the saved cursor.
Crash ==
    /\ step # "poll" \/ cursor # savedCursor
    /\ faults < MaxFaults /\ faults' = faults + 1
    /\ cursor' = savedCursor
    /\ step' = "poll" /\ pos' = 0 /\ batchEnd' = 0
    /\ UNCHANGED <<db, savedCursor>>

-----------------------------------------------------------------------------
(* The handlers.  Each is its first statement; the later ones follow below. *)

Handling(kind) ==
    step = "write" /\ Event.kind = kind /\ ~Dropped(Event) /\ ~Refused(Event)

Skip ==
    /\ step = "write"
    /\ Event.kind \notin HandledKinds \/ Dropped(Event)
    /\ NextEvent
    /\ UNCHANGED db

HandlePoolCreated ==
    /\ Handling("PoolCreated")
    /\ InsertPool
    /\ Continue("audit")

HandlePoolStateChanged ==
    /\ Handling("PoolStateChanged")
    /\ UpdatePoolState(Event.to)
    /\ Continue("audit")

HandleDataRoomCreated ==
    /\ Handling("DataRoomCreated")
    /\ InsertRoom(IF db.pool = NoRow THEN "sentinel" ELSE "pool")
    /\ Continue("audit")

\* Mutant: onConflictDoNothing, so that a member who returns stays inactive.
HandleMemberAdded_InsertOnly ==
    /\ Handling("MemberAdded")
    /\ db' = [db EXCEPT !.members[Event.user] =
                  IF @ # NoRow THEN @ ELSE [role |-> Event.role, active |-> TRUE]]
    /\ Continue("audit")

HandleMemberAdded ==
    /\ Handling("MemberAdded")
    /\ UpsertMember(Event.user, Event.role)
    /\ Continue("audit")

HandleMemberRemoved ==
    /\ Handling("MemberRemoved")
    /\ DeactivateMember(Event.user)
    /\ Continue("audit")

HandleMemberRoleUpdated ==
    /\ Handling("MemberRoleUpdated")
    /\ UpdateRole(Event.user, Event.role)
    /\ Continue("audit")

\* Version 1 is stored only when the insert returned a row, that is, when this
\* run of the handler made it.
HandleDocumentCreated ==
    /\ Handling("DocumentCreated")
    /\ InsertDocument(Event.doc)
    /\ Continue(IF db.documents[Event.doc] = NoRow THEN "version" ELSE "audit")

\* Mutant: the information is updated first, and the version row skipped when
\* the document is already there in that version.
HandleDocumentVersionAdded_Shortcut ==
    /\ Handling("DocumentVersionAdded")
    /\ UNCHANGED db
    /\ IF db.documents[Event.doc].current = Event.version
       THEN Continue("audit") ELSE Continue("info")

HandleDocumentVersionAdded ==
    /\ Handling("DocumentVersionAdded")
    /\ InsertVersion(Event.doc, Event.version)
    /\ Continue("info")

HandleDocumentReviewed ==
    /\ Handling("DocumentReviewed")
    /\ UpsertReview(Event.doc, Event.user, Event.status)
    /\ Continue("audit")

HandleICDecisionCreated ==
    /\ Handling("ICDecisionCreated")
    /\ InsertDecision(Event.index, Event.type)
    /\ Continue("audit")

\* The audit row is the handler's only statement.
HandleAuditEvent ==
    /\ Handling("AuditEvent")
    /\ InsertAuditRow
    /\ NextEvent

\* The second statement of handleDocumentCreated.
InsertFirstVersion ==
    /\ step = "version"
    /\ InsertVersion(Event.doc, 1)
    /\ Continue("audit")

\* The second statement of handleDocumentVersionAdded.
UpdateVersionInfo ==
    /\ step = "info"
    /\ BumpVersion(Event.doc, Event.version)
    /\ Continue("audit")

\* The audit row of every other handler, after its projection.
InsertAudit ==
    /\ step = "audit"
    /\ InsertAuditRow
    /\ NextEvent

-----------------------------------------------------------------------------

IndexerInit ==
    /\ db = EmptyDb
    /\ savedCursor = 0 /\ cursor = 0
    /\ step = "poll" /\ pos = 0 /\ batchEnd = 0
    /\ faults = 0

Work ==
    \/ Poll \/ Skip \/ RefusedInsert
    \/ HandlePoolCreated \/ HandlePoolStateChanged \/ HandleDataRoomCreated
    \/ HandleMemberAdded \/ HandleMemberRemoved \/ HandleMemberRoleUpdated
    \/ HandleDocumentCreated \/ InsertFirstVersion
    \/ HandleDocumentVersionAdded \/ UpdateVersionInfo
    \/ HandleDocumentReviewed \/ HandleICDecisionCreated
    \/ HandleAuditEvent \/ InsertAudit
    \/ SaveCursor \/ AdvanceCursor

Init == ChainInit /\ IndexerInit

Next ==
    \/ ChainNext /\ UNCHANGED indexerVars
    \/ (Work \/ Fail \/ Crash) /\ UNCHANGED chainVars

Spec == Init /\ [][Next]_vars

\* The loop never ends by itself and the container is restarted, so the process
\* goes on working; nothing makes users act or things fail.
Fairness == WF_vars(Work /\ UNCHANGED chainVars)

FairSpec == Spec /\ Fairness

-----------------------------------------------------------------------------
(* Properties *)

Row(S) == S \union {NoRow}

IndexerTypeOK ==
    /\ db.pool \in Row(PoolRow)
    /\ db.room \in Row(RoomRow)
    /\ \A u \in User : db.members[u] \in Row(MemberRow)
    /\ \A d \in Doc : /\ db.documents[d] \in Row(DocumentRow)
                      /\ \A u \in User : db.reviews[d][u] \in Row(ReviewRow)
    /\ db.versions \subseteq VersionRow
    /\ db.decisions \subseteq DecisionRow
    /\ db.audit \subseteq AuditRow
    /\ step \in Steps
    /\ savedCursor \in 0 .. Len(chain) /\ cursor \in 0 .. savedCursor
    /\ IF step = "poll" THEN pos = 0 /\ batchEnd = 0
       ELSE /\ pos \in cursor + 1 .. batchEnd
            /\ batchEnd <= Len(chain) /\ batchEnd <= cursor + BatchLimit

\* The handlers that return before their audit row in the package's emission:
\* member events name the pool where the room is expected, and the room hangs
\* on the placeholder, so that documents do not find it.
NeverAudited(e) ==
    emission = "package" /\ e.kind \in {"MemberAdded", "MemberRemoved",
        "DocumentCreated", "DocumentVersionAdded", "DocumentReviewed"}

\* The checkpoint never runs ahead of the audit trail: whatever statements fail
\* and wherever the process stops, an event that a restart would not read again
\* has its row in audit_events.
CheckpointedIsAudited ==
    \A i \in 1 .. savedCursor :
        chain[i].kind \in HandledKinds /\ ~NeverAudited(chain[i]) => i \in db.audit

\* The audit row is written last: an event in the trail has left its row in the
\* table it is about, also when the handler ran in pieces over several crashes.
\* (Version 1 of a document is the exception: its insert is skipped by a replay.)
Projected(e) ==
    CASE e.kind = "PoolCreated"          -> db.pool # NoRow
      [] e.kind = "DataRoomCreated"      -> db.room # NoRow
      [] e.kind \in {"MemberAdded", "MemberRemoved"} -> db.members[e.user] # NoRow
      [] e.kind = "DocumentCreated"      -> db.documents[e.doc] # NoRow
      [] e.kind = "DocumentVersionAdded" -> <<e.doc, e.version>> \in db.versions
      [] e.kind = "DocumentReviewed"     -> db.reviews[e.doc][e.user] # NoRow
      [] e.kind = "ICDecisionCreated"    -> <<e.index, e.type>> \in db.decisions
      [] OTHER                           -> TRUE

AuditedIsProjected == \A i \in db.audit : Projected(chain[i])

\* A batch that went through leaves the tables where the events up to its end
\* put the package, also after a failure or crash has had them replayed from an
\* earlier time: members and roles, documents and versions, reviews, the pool's
\* state and decisions.  The count of versions may only be too high: a
\* replay increments it again; and two faults are too many: a checkpoint whose
\* acknowledgement is lost and a crash in the replay leave the pool behind.
BatchDone == step \in {"save", "advance"}

MemberMatches(u) ==
    IF MemberPlaces(batchEnd, u) = {} THEN db.members[u] = NoRow
    ELSE db.members[u] = [role   |-> RoleAfter(batchEnd, u),
                          active |-> ActiveAfter(batchEnd, u)]

DocumentMatches(d) ==
    LET n == VersionsAfter(batchEnd, d) IN
    /\ IF n = 0 THEN db.documents[d] = NoRow
       ELSE db.documents[d].current = n /\ db.documents[d].count >= n
    /\ \A v \in 2 .. n : <<d, v>> \in db.versions
    /\ \A p \in db.versions : p[1] = d => p[2] <= n

ReviewMatches(d, u) ==
    LET S == ReviewPlaces(batchEnd, d, u) IN
    db.reviews[d][u] = IF S = {} THEN NoRow ELSE chain[Last(S)].status

TablesFollowChain ==
    BatchDone /\ faults <= 1 =>
        /\ db.pool # NoRow => db.pool = StateAfter(batchEnd)
        /\ db.pool # NoRow => db.decisions = DecisionsAfter(batchEnd)
        /\ emission = "assumed" =>
               /\ \A u \in User : MemberMatches(u)
               /\ \A d \in Doc : DocumentMatches(d)
               /\ \A d \in Doc, u \in User : ReviewMatches(d, u)

\* With the placeholder rows in place nothing holds the loop up for ever: after
\* any failures and restarts the saved cursor reaches the head of the chain
\* (users pause in the end, since transactions are bounded).
CatchesUp == (savedCursor < Len(chain)) ~> (savedCursor = Len(chain))

\* handlers.ts:31 "For now, use a sentinel org_id that the API ensures exists": a
\* pool that was created on chain reaches the tables.
PoolGetsIndexed == Created ~> db.pool # NoRow
=============================================================================

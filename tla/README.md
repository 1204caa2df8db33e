# A TLA+ specification of BrineVault

BrineVault is a data room for private-credit deals. A deal (*pool*) lives in a
Sui Move package; its documents are encrypted in the client, stored on Walrus
and referred to from the chain; an indexer copies the chain's events into
Postgres; an API serves those tables, holds sessions, organisations and
subscriptions, and builds transactions for the client to sign.

This directory models the system in TLA+, checks the models with TLC on small
instances, and proves with TLAPS, for all instances, the main properties of the
package, of the desk around it, of the indexer, of sessions, organisations and
billing, and of the storage client with the field its secret sharing computes in.
`PROJECT.json` lists the components, the runs, the lines each definition models,
the hazards and the theorems.

## 1. Inventory

| Component | State it keeps | Operations | What makes it correct |
|---|---|---|---|
| Admin configuration (`contracts/.../admin.move`) | pause flag, member and version limits | pause, unpause, update_config | a pause stops every call; limits stay positive |
| Data room (`dataroom.move`, `dataroom_entry.move`) | members table with roles and status, `member_count`, folders, folder keys | add (insert or reactivate), remove, change role, create folder, store key | the counter counts, the owner keeps control, folder ids and parents are sound, keys belong to known members |
| Documents (`document.move`, `document_entry.move`) | versions and reviews as dynamic fields, counters standing for them, archive and required flags | create, add version, review, mark required, archive | counters agree with the fields nobody can iterate over; versions are append-only; no self-approval; archiving is final |
| Pool (`pool.move`, `pool_entry.move`, `ic_decision.move`) | lifecycle state, decisions by index, cached approval | seven transitions, three of which record a decision | only whitelisted moves; state and decision log agree; the cached approval is never stale |
| Seal policy (`seal_policy.move`) | none (reads the members) | `can_access`, `can_access_folder` | only active members decrypt |
| Indexer (`apps/indexer`) | event cursor; rows of every table | poll a batch, handle each event, save the cursor | the tables follow the chain across crashes, replays and duplicates; a bad event does not stop the rest |
| Auth and sessions (`apps/api/.../auth`) | challenges and sessions in Redis | challenge, login, zkLogin, refresh, logout | a challenge is used once; a rotated or logged-out session does not come back |
| Organisations (`.../orgs`) | organisations, users, invites; the claims copied into tokens | create, invite, join, update | an invite admits at most as many as it allows; only the creator rules |
| Billing and monitor (`.../billing`, `workers/subscription-monitor`) | subscriptions, invoices, an organisation's `isActive` | renew, pay, daily expiry check | a paid period is active; a lapsed one is suspended, after a grace period and in the end |
| Notifications (`.../notifications`, `workers/notification-dispatcher`) | notifications, preferences | dispatch, read, update preferences | no update of preferences is lost |
| Checklist, review summary, audit, queries (`.../checklists`, `.../reviews`, ...) | checklist items, comments | checklist updates, comments, queries | an item is listed once; a pool is shown to its members only |
| Transaction builders (`infra/sui`, `.../pools`, ...) | none | build bytes for the client, dry run, execute what he signed | what is reported done took effect |
| Pool wizard (`apps/web/.../pools/new`) | a form of five steps, the submission under way | edit, go back and forth, submit, leave | one click and one answer make one pool |
| Guards (`common/guards`) | none that is used (a rate window in Redis) | authenticate, check the CSRF header | a dead session or token is refused |
| Walrus SDK (`packages/walrus-sdk`) | none between calls | upload and download, whole or in chunks, extend, retry | what is downloaded is what was uploaded, or an error |
| Encryption SDK (`packages/encryption-sdk`) | keys in memory | encrypt, wrap, rotate, split and recover a key | recovery inverts splitting; after a rotation every member has the new key and nobody else |
| DB package, shared types, other pages | schema, type declarations, queries | - | - |

How they interact: clients sign transactions that call the package; the package
emits events; the indexer polls events by cursor and writes Postgres; the API
reads those tables to decide what it builds (it holds no key and writes no chain
state), keeps sessions in Redis and shares its tables with the daily monitor;
the SDKs run in the client between Walrus and the chain.

Hard behaviour, by component: long sequences of legal calls on chain, where
counters stand for sets the contract cannot enumerate and flags are cached;
a pause landing between any two calls; crash and replay in the indexer, and an
event that can never be handled; read-then-write pairs in Redis and Postgres
that interleave with those of another request; tokens whose claims nothing
refreshes; a monitor that acts on rows it selected earlier; a transaction built
against one state of the chain and executed in another; retries of requests
that may have succeeded; chunks that complete in any order. `hazards` in
`PROJECT.json` lists each at its line with the property that covers it.

## 2. The modules

| Module | Models | Builds on |
|---|---|---|
| `RoomTypes` | `types.move` | - |
| `DataRoom` | `admin.move`, `dataroom.move`, `dataroom_entry.move` | `RoomTypes` |
| `Documents` | `document.move`, `document_entry.move` | `DataRoom` |
| `Pool` | `pool.move`, `pool_entry.move`, `ic_decision.move`: with the two above, the whole package | `Documents` |
| `DealLifecycle` | abstract: what the package promises about a deal | `RoomTypes` |
| `EventChain` | `events.move` as the entry functions use it: which events a transaction emits, in which order | `RoomTypes` |
| `Indexer` | `apps/indexer` and the repositories it writes through | `EventChain` |
| `Sessions` | the auth service and its Redis keys, `AuthGuard`, `CsrfGuard`, and the web client with its tokens, cookie, refresh and retry | - |
| `Accounts` | the orgs service over `users`, `organizations` and `invite_codes`, and the claims of tokens | - |
| `Billing` | the billing and notification services, the subscription monitor and the dispatcher | - |
| `Recovery` | secret sharing over GF(256), as operators | - |
| `Storage` | the Walrus client, key rotation and recovery around one file | `Recovery` |
| `PoolWizard` | `pools/new` of the web application, its mutation, `POST /pools` and `/sign` | `Pool` |
| `DealDesk` | the endpoints that build and submit transactions, the tables they look into, checklist and pool page: wizard, API, indexed rows and package together | `PoolWizard` |
| `MCDataRoom`, `MCPool`, `MCIndexer`, `MCSessions`, `MCAccounts`, `MCBilling`, `MCStorage`, `MCDeals` | the finite instances | |
| `Pool_proofs` | the theorems about `DataRoom`, `Documents` and `Pool` | `Pool` |
| `DealDesk_proofs` | the theorems about `PoolWizard` and `DealDesk` | `DealDesk`, `Pool_proofs` |
| `Storage_proofs` | the theorems about `Recovery` and `Storage` | `Storage` |
| `Indexer_proofs`, `Sessions_proofs`, `Accounts_proofs`, `Billing_proofs` | the theorems about the module of that name | that module |
| `Replay_proofs` | the theorem that the indexer's tables follow the chain | `Indexer_proofs` |

**The package.** Every entry function runs as one transaction on shared
objects, so it is one action: the conjunction of its asserts is the guard (an
abort leaves no trace), its assignments the primed variables. The parameter
`caller` is the transaction's sender; any address may call anything with any
input, and the role checks decide. A role bitmask is the set of its bits, so
`role & mask > 0` is a non-empty intersection. The members table is two
functions, `standing` (no row, active, revoked) and `role` (kept when a member
is revoked). Dynamic fields are functions whose domain says which fields exist:
`parentOf` for folders, `uploadedBy` and `reviews` inside a document,
`icDecisions` in the pool; each `df::add` keeps the condition that the key is
unused. Counters the code keeps beside them (`member_count`,
`custom_folder_count`, `version_count`, `approval_count`, `ic_decision_count`)
are variables of their own, so that their agreement is something to check.
`create_pool` is the initial state: it creates the pool with its room in one
transaction, and pools do not interact.

Left out on purpose: timestamps, hashes and their length checks, names, tags,
blob ids, comments, change logs, and the validation of document types and
encryption schemes. No branch that a property looks at depends on them.
`ISSUED` and `CLOSED` are in the whitelist and, as in the code, no action asks
for them.

**The indexer.** `chain` is the sequence of events; a transaction appends its
events in one step, and an event's place stands for its pair of transaction
digest and sequence number. What the package looks like after *n* events
(`ActiveAfter`, `VersionsAfter`, `StateAfter`, ...) is read off the sequence; the
guards of the transactions use it at the head, the properties at the end of a
batch. `EventChain` keeps of the package what decides about the events; roles,
pauses and limits are `DataRoom`'s subject.

`db` is the set of tables, a record with one field each. `cursor` is the local
variable of `start()`, `savedCursor` the checkpoint row. `step` is the statement
that runs next: `write` (the first one of the handler of event `pos`), `version`
and `info` (the second ones of the two document handlers), `audit`, `save`,
`advance`. Between any two of them a statement may fail (`Fail`: the loop
catches the error and polls again from the cursor in memory) or the process may
stop (`Crash`: it starts again from the checkpoint). A failure behind a statement
is also the case of a statement that committed and whose answer was lost. The
constraints of the schema are in the handlers: `onConflictDoNothing` keeps the
row, an upsert replaces it, a foreign key to a row that is not there refuses the
insert (`Refused`).

Two constants describe what the indexer finds around it. `Emissions`: what the
Move sources emit (`"package"`), and what the handlers are written for
(`"assumed"`: the pool before its room, and member events that carry the id of
their room). `SentinelRows`: whether the rows with the zero UUID exist in
`organizations` and `pools`. The repository creates neither and emits
`"package"`; with that alone nothing is ever indexed (finding 1), and no other
question could be asked. The `indexer` run therefore supposes the two rows and
covers both emissions: in the package's, member and document events are dropped
(`NeverAudited`), and the audit trail, the pool's state and the decisions are
what the properties speak of; the projections of members and documents are
checked in the assumed one. That the JSON-RPC filter returns all events of the
module in order, each page from behind the cursor, is taken from how
`sui-client.ts` uses it.

**Requests of the API.** A handler is split where it waits for something others
can see in between: a Redis command or pipeline, a statement on a table. Between
two of its steps any other request runs. Where a step reads and the next one
writes, the request carries what it has read (`read`, `row`, `invite`), as the
local variable of the handler does. `Stop` is a statement that fails or the end
of the process: what was written stays, the rest does not happen. A request that
is refused leaves no trace and is not an action. The repositories' constraints
are in the steps that meet them: `chk_invite_uses` refuses an increment, the
unique `user_id` a second row of preferences, a foreign key a notice to somebody
who is no user.

**Sessions.** `calls` are the requests of a browser, each with the place it has
reached in guard, handler or client. An access token and its refresh token share
a number; `sessions` maps a session to the number whose hash its Redis key holds,
0 when the key is gone. `Reply401`, `RefreshOk` and `LoseRequest` are the three
loops of `ApiClient.fetch`: one refresh after a 401, the retried request, and a
bounded number of attempts after network errors; a page load (`Reload`) drops
the tab's token and forgets its requests. Two constants describe what the client
sends. `CsrfHeaders`: whether a mutation carries a valid `x-csrf-token`. The web
client's never does, so that its logout is answered 403 (`csrf.guard.ts`);
`{TRUE, FALSE}` covers other clients too. `consumeChallenge` sends its read and its
deletion in one pipeline, "Atomic get+delete" by its comment
(`session.service.ts:35`), and is one step: that Redis runs the two commands with
no other client's in between is supposed, and if it did not, two sign-ins could
pass with one challenge. `SignedStamp`: the server verifies a
message with an ISO timestamp (`auth.service.ts`, `docs/design/auth-flow.md:74`),
the wallet button signs Unix seconds, so that with `"unix"` no wallet login ever
passes. The instance takes `"iso"`, without which half of the module would stand
still; zkLogin works either way.

**Accounts.** `token` and `sessionOrg` are copies of a user's row: `Login` takes
them from `users`, `Refresh` takes the organisation from the session and no role,
and nothing else writes them. `joinOrg` and `createOrg` are the two requests of
several statements. Four history variables say what the tables do not: how often
a user was admitted, how many joins a code had, who passed as an administrator
of what, and which users had two requests at once.

**Billing.** Time is days: `Day` brings every date nearer and starts the monitor,
whose two queries and one step per row interleave with renewals, payments and
settings. `raced` marks a row that was renewed while the monitor had it selected
(it is updated by id, so that a subscription renewed in that moment is put into
its grace period or suspended), `clashed` a user whose two updates overlapped
(the document read before the other's write is written back). Both are what the
code does, and the properties exempt exactly them. `Stop` between the two
statements of `renewSubscription` leaves an active period without an invoice; no
property relates the two tables, since nothing in the code does. The monitor addresses its
notices to `[sub.orgId]`, an organisation where `user_id` refers to users: the
insert is refused, logged and forgotten, and no notice is ever stored.

**Storage.** One file, whole or in three chunks. A blob's name is what it holds,
so that a chunk in the wrong place is seen. A request is `sent` until an answer
comes: the publisher may store the blob and lose the answer, fail, refuse, or
answer 413, on which `upload` switches to chunks; an aggregator may fail, alter
the bytes or not find a blob whose epochs are over. A batch whose first failure
rejects leaves its other requests running, as `Promise.all` does, and the next
upload starts when they are through (a bound of the model). AES-GCM and the hash
are external: what was not encrypted under the key is refused. `RotateKey`
removes a member and wraps a new key for the rest; a reader unwraps with his own
or recovers the key from any two or three of three shares, computed by
`Recovery`'s operators in the field the code uses, for one byte of the key.

**The wizard and the desk.** `PoolWizard` splits `useCreatePool` at its awaits
and keeps the form usable in between, as the page does. `DealDesk` holds of every
call what the endpoint built for it (`tx`) until the wallet signs; `Build` needs
`ENABLED Run(tx)`, which is the dry run `tx.build` asks the node for, and
`Execute` runs the entry function of `Pool`, or aborts. `rows` is what the
endpoints can see of the tables, each piece behind the chain by its own delay.
`AssignOrg` is outside this code: `pools.org_id` is a placeholder that no code of
the repository replaces, and until somebody does every endpoint of the desk
answers 403. `POST /pools` answers without a pool id, so that the wizard's
invitations go to `/pools/undefined` and fail silently (`InviteMember`), and its
checklist is never sent. `CsrfGuard` stands before every route
(`app.module.ts:52`) and the web client sends no `x-csrf-token` (`client.ts:27`),
so that with `CsrfHeaders = {FALSE}` the page's `POST /pools` and `/sign` are
answered 403 and no pool is ever created through it; the instances take
`{TRUE, FALSE}`, the wizard behind a client that sends the header or does not.
The `extraArgs` of a transition (`pools.schemas.ts:30`, an array of anything,
spread into the move call as it is) are idealised as what the package expects
there, a set of documents; that any other value is refused when the transaction
is built or run dry is supposed.

Two named bounds. The desk opens after the wizard's shortest course
(`WizardIsOver`). And `pools/new` is opened once: who leaves it during a
submission, opens it again and submits again has a fresh form with an active
button while the first mutation goes on, and would get a second pool although no
answer was lost. `OnePoolPerLostAnswer` speaks of one visit of the page.

## 3. The runs

All counts of states are of complete explorations.

| Run | Question | Bounds |
|---|---|---|
| `data_room` | do counter, owner, folders and keys survive every sequence of calls? | three addresses, four masks (invalid, owner, administrator, editor), limits 1 and 3 set at any time over an initial 2, two custom folders |
| `pool` | do the cached approval and the decision log agree with the state; are the document's counters, its two pairs of eyes and its archive final; does a pause freeze everything; does the package implement `DealLifecycle`? | two addresses, two masks, one document, three versions, three decisions |
| `required_docs_gate` | expected violation, finding 2 below | as `pool`, two versions |
| `indexer` | does the audit trail miss nothing behind the checkpoint, do the tables follow the chain after replays, does the loop catch up? | two addresses, one document, four transactions (up to ten events) in both emissions, batches of three, two failures or crashes |
| `indexer_placeholders` | expected violation, finding 1 | one transaction, no failures, no placeholder rows |
| `sessions` | does a challenge buy one session, does logout hold against a refresh under way, does the cookie follow the session, does every call come back? | one tab, two calls at once, one retry, one nonce, two sessions, three pairs of tokens |
| `accounts` | who ever rules an organisation, how often is a user admitted, do the uses of a code add up? | two users, two organisations, one code of one or two uses, three requests at once |
| `invite_race` | expected violation, finding 3 | as `accounts`, two requests |
| `billing` | is a paid period active, is nobody suspended without grace, is a lapsed row suspended at last, do settings stay? | one organisation with up to two rows, one user with two settings, two requests at once, periods of one day and two of grace, one failure |
| `storage` | is what a reader decrypts what was stored; do uploads and downloads end? | three chunks in batches of two, two attempts, two aggregators, two uploads, two faults, two epochs, two members, two keys |
| `deals` | can the wizard create two pools, is a success reported for nothing, is a pool shown to a revoked member? | two addresses, one document, two clicks and one lost answer, two calls at once after three transactions of others |
| `review_codes` | expected violation, finding 4 | as `deals` |

Why these bounds are enough: three addresses give an actor, a target and a
bystander, and the owner is one of them; removing and adding back takes one of
them; a limit of 1 is below what the room already holds, 2 is met and 3 is not.
Two custom folders allow a parent among the default and among the custom ones.
Three versions and two reviewers are enough for a reviewer to approve, upload
the next version, be overtaken by another uploader and review again. Three
decisions cover request for changes, rejection with reopening, and approval in
every order. `FolderIdBound`, `VersionBound` and `DecisionBound` are the only
bounds of the package that are not the code's; each is a conjunct of the one
action that hands out the number. Ann and Bob are interchangeable in `data_room`
(no mask or folder depends on them), the organisations in `accounts`, and the
places of calls in `deals`, which is the symmetry used. Documents are
independent of one another: no action reads two of them except the gates of the
pool, which are conjunctions over single documents, so one document is enough;
the proofs do not have that restriction.

In `indexer`, four transactions are enough to create a deal and take it to its
first decision, to add, review and re-add, or to reach a third version; batches of three
end in the middle of transactions as well as between them, so that a replay
starts before, at and behind a projection; two faults give a replay of a replay.
`MaxTxs` and `MaxFaults` are the bounds that are not the code's, conjuncts of
`Emit` and of `Fail` and `Crash`. `TablesFollowChain` speaks of at most one fault:
two are too many (see "further disagreements").

In `sessions`, two calls are a refresh and whatever it may overlap: another
refresh, a logout, a retried sign-in; two sessions are an old and a new one.
`MaxSessions` and `MaxIssued` bound what is created, and a call starts only with
room for everything it may issue. In `accounts`, three requests are two of one
user and one of another, and the third makes a code of two uses full. In
`billing`, two rows are what two first renewals at once create; a grace of two days
tells its first day from its last, and is the one number that differs from the
code's (14). In `storage`, three chunks in batches of two have a last batch that
is short; two attempts are one retry; two faults exhaust the attempts of one
request or hit two. In `deals`, three transactions of others bring a member in
and out or a document in before the calls whose interleaving is the question.

Fairness: nothing on chain happens unless somebody calls, and the code promises
no progress there, so the on-chain runs and `deals` state none; `accounts` asks
no liveness question. The indexer's loop never ends by itself, catches what its
body throws and is restarted by its container; `FairSpec` assumes weak fairness
of its steps and nothing of users or failures. A failure is transient (there are
finitely many), a refused insert is not. In `Sessions` a handler runs to its end
and the client processes what it is answered: weak fairness of each call's
`Handle` and `Receive`, none of the user, of time, or of losses. In `Billing`
the cron job runs every day and to its end unless it fails (weak fairness of
`Monitor` and of each `Handle`), and days go by although requests keep coming
(strong fairness of `Day`, which waits for a moment without a request). In
`Storage` a server answers or the connection breaks (weak fairness of the
answers) and the client's own steps follow. Deadlock is checked wherever
something can always happen; an indexer that has read everything, a desk whose
calls are used up and storage at its last epoch have nothing to do, and those
runs do not check it.

### Hazards no property catches

In these places the code does what one would not want. A property that forbade
it would be false, and one that holds has to except it; the models contain the
behaviour unless said otherwise, and `hazards` names no property for it or notes
what its property excepts.

* the member limit on reactivation, reviews that outlive their version, the lost
  row of version 1, the replayed version that counts twice, and the member events
  that are dropped without an audit row (all under *Further disagreements*);
* two overlapping refreshes (`JarFollowsSession` excepts them), and the challenge's
  pipeline, which the model supposes to be one step (*Sessions*);
* a renewal behind the monitor's back (`raced`), a period without an invoice when
  `renewSubscription` stops half-way, and two overlapping updates of one user's
  settings (`clashed`) (*Billing*): `PaidIsActive` and `SettingsStay` cover what
  happens in the absence of such a race;
* a transaction the chain has moved away from between its dry run and its
  execution (`moved`): `DoneTookEffect` says that there is no other reason for a
  false report.

### Findings

1. **The placeholder rows do not exist** (`handlers.ts:34` and `:91`).
   `handlers.ts:31` relies on a sentinel organisation "that the API ensures
   exists"; nothing creates it, nor the pool of the same id. Since `create_pool`
   emits `DataRoomCreated` first, the first batch with a pool is refused and
   retried for ever, and everything behind it waits (`indexer_placeholders`).
2. **The gate of IC review takes its list from the caller**
   (`pool_entry.move:70`). `docs/design/move-interface.md:550` promises that all
   documents with `required_flag` have an approved review; the function checks
   the ids it is given, and `required_flag` is never read
   (`required_docs_gate`). The API passes the caller's list on unchecked.
3. **An invite admits more users than it may** (`orgs.service.ts:160`). The uses
   are compared, the user is admitted and the use is counted in three statements;
   of two users at once the second one's count is refused by the constraint, when
   he is a member already. The test `orgs.service.spec.ts:362` is named for this
   race and makes its calls one after the other (`invite_race`).
4. **An approval arrives as pending** (`reviews.schemas.ts:7`): the API numbers
   the verdicts approved 0, needs revision 1, rejected 2, the package pending 0,
   approved 1, needs revision 2 (`types.move:28`), and nothing translates. A
   reviewer who asks for a revision approves (`review_codes`).

Further disagreements met while modelling, in the models as the code has them
and not given a run of their own:

* A new version does not reset reviews (`document.move:145`), although
  `specs/system-architecture.md:368` says so. `FourEyes` states what still holds:
  behind each approval there is some version of somebody else's.
* Reactivation ignores the member limit (`dataroom_entry.move:43`), which
  `docs/design/move-interface.md:763` makes a precondition on both paths.
* A replayed version counts twice (`documents.repository.ts:51`); the unique key
  on `(sui_tx_digest, sui_event_seq)` protects only `audit_events`, where
  `specs/implementation-architecture.md:243` asks for the same state.
* A crash can lose version 1 (`handlers.ts:213`): the replay finds the document
  and does not insert its first version
  (`specs/implementation-architecture.md:244` asks for no missed events).
* Two faults can leave a table in the past (`indexer.ts:47`).
  `specs/system-architecture.md:508` describes one database transaction per
  batch, cursor included; the code has none. If `saveCursor` commits but throws,
  the loop replays a batch the checkpoint is past; a crash during that replay
  resumes behind it.
* The wallet button and the server disagree about the signed message, and the web
  client's logout, `POST /pools` and `/sign` are refused for want of a CSRF header
  (see **Sessions** and **The wizard and the desk**); the wallet hook is used by no
  component. The zkLogin proof is bound to no challenge.
* Two parallel 401s of one page refresh twice with one cookie; the later one is
  taken for a reuse and destroys the session. `JarFollowsSession` excludes
  overlapping refreshes for that reason, and refreshes whose answer was lost.
* A refreshed token has no role, so an administrator ceases to be one until he
  signs in again; one who joined elsewhere keeps his old organisation.
* `mark_as_required` works on archived documents although
  `docs/design/move-interface.md:1040` excludes them (`ArchivedStaysFrozen`
  exempts the flag); `ORG_ADMIN` is not in `EDITOR_UP`; the votes recorded with a
  decision are never read; member events of `dataroom.move` carry the pool's id
  in a field named `dataroom_id`; `can_access` speaks of "at least `min_role`" and
  tests for a common bit.
* Going back after an edit from the review skips the wizard's validation
  (`HandleBack`), so that a Seal pool can be submitted without the box the
  detailed design asks for. A renewal is active before, and whether or not, its
  invoice is paid. `submitSignedTx` reports success for an aborted transaction;
  `DoneTookEffect` states what the report rests on.

## 4. What is proved

For every set of addresses, documents and inputs, and without the model's bounds
playing any part (they occur only in guards):

* `RoomSpec` implies `[]RoomInv` (`RoomInvariance`), hence `RoomTypeOK`,
  `MemberCountExact`, `OwnerNeverLockedOut`, `FoldersFormForest` and
  `KeyHoldersAreKnown`. The properties are inductive only together, with
  `customFolderCount >= 100` added: `member_count - 1` is natural because the
  counter counts a finite set that contains the member removed; a new folder id
  is fresh because the ids so far are exactly the two ranges; a key keeps its
  row because no row is deleted.
* `DocumentsSpec` implies `[]DocInv` (`DocInvariance`), hence
  `DocumentsTypeOK` with `VersionsDense` in it, `ApprovalCountExact`, `FourEyes`, and with it
  the action properties `VersionsAppendOnly` and `ArchivedStaysFrozen`. `DocInv` is
  stated of one document (`DocumentOK`) and lifted by `OneDocument`. Besides the
  properties it says that a document has no versions before it exists. `FourEyes`
  is inductive because of `VersionsDense`: the version the self-review check looks
  at exists, and it stays.
* `Spec` implies `[]PoolInv` (`PoolInvariance`), hence `PoolTypeOK`,
  `CachedApprovalIsCurrent` and `StateMatchesLastDecision`. The flag alone is
  not inductive: that it is unset when the committee decides follows from the
  log, which has no approval in any state before one.
* `Spec` implies `Lifecycle!Spec` (`PoolImplementsLifecycle`), under the
  refinement mapping `state <- poolState`, `log <- DecisionLog` (the decisions
  as a sequence); a step of the room, of a document or of the administrator is a
  stutter.
* `Spec` implies `DocumentsSpec`, which implies `RoomSpec`
  (`DealKeepsDocuments`, `RoomWithDocuments`), so that all of the above holds of
  the whole package (`DealInvariance`).
* `Spec` implies `PauseFreezes` (`PauseHolds`).
* `DealsSpec` implies `Spec` (`DeskDrivesPackage`): wizard, endpoints, wallets,
  administrator and indexer together take only steps of the package, so that all
  of the above holds of the whole system. The invariant says that a call waiting
  for its signature holds a transaction with arguments of the right sets
  (`Typed`), whoever asked for it and whatever happened since.
* `DealsSpec` implies `[]OnePoolPerLostAnswer` (`OnePoolPerAnswer`). Inductive
  with the phase of the submission: until it has executed, and whenever the
  button is active, at most as many pools exist as answers were lost; the button
  is active only without a submission.
* `DealsSpec` implies `[]DealsTypeOK` (`DealsTyping`). The wizard's part
  (`WizardInv`) counts: a submission that may still create a pool has a click not
  yet used up, hence no more pools than clicks; no more invites are named than
  the form has. The desk's part (`DeskTypesInv`) says of every call what it
  carries to its next step: the transaction it was built with, or the row it
  found, which may be marked as deleted meanwhile and is never taken out. That
  the rows of members are of their type comes from the package, through
  `DeskDrivesPackage` and `DealInvariance`.
* `DealsSpec` implies `[]PoolReportedExists` (`ReportedPoolExists`), the first
  half of `DoneTookEffect`: what the dry run of `create_pool` found (`ReportInv`:
  the platform is not paused) no call of anybody takes back, only an
  administrator, and then the submission is marked as overtaken.
* `Accounts!Spec` implies `AccountsTypeOK`, `OnlyCreatorRules`, `OneAdmission` and
  `UsesCountAdmissions` (`AccountsTypes`, `CreatorRules`, `AdmittedOnce`,
  `UsesAreCounted`), for any number of users, organisations, codes and requests.
  `OnlyCreatorRules` is about the past, so the invariant follows the
  administrator's bit through everything it is copied to: whoever has it in his
  row, in his token or in a request on its way to his row is the creator of that
  organisation, and a creator's name is never overwritten. `OneAdmission` holds
  because a user whose requests never overlapped has at most one, and once it has
  admitted him his row shuts out the next. For `UsesCountAdmissions` the uses plus
  the joins not yet counted are compared with the joins: the requests at `count`
  are a finite set, each increment takes one out of it, and the constraint cuts
  both off at the same limit.
* `DealsSpec` implies `[]RevokedIsRefused` (`RevokedNotShown`). The tables lag
  behind the chain by delays of their own; what the invariant needs of them
  (`RowsInv`) is that a member's row is there only when its room's is, which then
  stays. Of a request of `getPool` it says (`VisitsInv`) that a caller who was
  revoked in the tables when it started, and whose row has not changed since,
  still finds room and row as they were, and is never shown the pool.
* `Indexer!Spec` implies `[]IndexerInv` (`IndexerInvariant`), hence
  `IndexerTypeOK`, `CheckpointedIsAudited` and `AuditedIsProjected`, for chains of
  any length in either emission, batches of any size, and any number of failures
  and crashes between any two statements. It has four parts. `ChainInv`: the
  chain starts with the three events of `create_pool` in their order, every event
  comes behind those it presupposes (a removal behind an addition, a version or
  a review behind its document), and the decisions carry different numbers.
  `TablesInv`: the rows have their types, and in the assumed emission the room
  never hangs on the placeholder. `LoopInv`: the cursor in memory is not ahead of
  the saved one, and the position lies in the batch. `TrailInv`: everything
  behind the position has its audit row, and whatever has one has its row in its
  table. The properties need all four: that a handler finds no room or no
  document and returns (`Dropped`) is harmless only because the event that makes
  the row is earlier in the chain, hence audited, hence projected
  (`DroppedAreNotKept`); that the insert of a decision does nothing is harmless
  only because a row of its number can only be its own.
* `Indexer!Spec` implies `[]TablesFollowChain` (`TablesFollow`), in the same
  generality. The invariant (`FollowInv`) describes the tables at every
  statement, not only between batches: there is an event `h` up to which an
  earlier pass came, and each column stands where its last writer left it, among
  the events the present pass has applied or, if there is none, among the first
  `h` (`LastWrite`). `h` lies between the cursor and the end of the batch
  (`Reach`), so that the present pass, once through, has overwritten whatever
  the earlier one wrote, and `LastWrite` is the last writer of the chain. With
  at most one failure there is at most one earlier pass; two would need two such
  events, and then the property fails (*Two faults can leave a table in the
  past*, above). The documents have an event of their own, since a handler
  writes `documents` and `document_versions` in two statements and may stop in
  between. Two facts about the chain and the database come in: the versions of a
  document are numbered without gaps (`DenseInv`), which makes the greatest
  number the count, and without the placeholder rows nothing is ever written
  (`PlaceholderInv`), so that a refused first insert starts no second pass.
* `Sessions!Spec` implies `SessionsTypeOK`, `LoggedOutIsDead`,
  `NonceBuysOneSession` and `JarFollowsSession` (`SessionsTypeCorrect`,
  `LogoutIsFinal`, `NonceIsSpent`, `JarIsCurrent`), for any number of tabs,
  calls, nonces and retries. `LoggedOutIsDead` is not true of the session (a
  refresh that overlaps the logout writes it back) and holds because the access
  token is on the blacklist, or has expired, when the logout ends (`LogoutInv`).
  `NonceBuysOneSession` counts the sign-ins that hold a nonce together with the
  key in Redis and the sessions bought. `JarFollowsSession` follows the cookie's
  number through the call that carries it: `CookieInv` says which tokens calls
  may hold, that a signed number is in one place only, that one refresh at a
  time works on a session, and what the answers on their way to the browser will
  make of the jar.
* `Billing!Spec` implies `BillingTypeOK`, `PaidIsActive`, `SettingsStay` and the
  action property `SuspendedAfterGrace` (`BillingTypeCorrect`, `PaidStaysActive`,
  `SettingsAreKept`, `GraceIsGiven`), for any number of organisations, rows, users
  and requests and any length of period and grace. `MonitorInv` relates the rows a
  run has selected to what has happened to them since: a selected row has lapsed
  or was renewed behind the run's back, and days of grace passed and left add up.
  `SettingsInv` says of every request in `updatePreferences` that the document it
  merges with is the one in the row, unless the user's updates overlapped.

* `Storage!Spec` implies `[]StorageInv` (`StorageInvariant`), hence
  `StorageTypeOK` and `ReadIsWritten` (`StorageTyping`, `WhatIsWrittenIsRead`),
  for any number of chunks, sizes of batches, attempts, aggregators, keys,
  members and faults, and any order of answers. `ReadIsWritten` speaks of the end
  of a read, and the invariant of everything before it. `UpOK`: a chunk reported
  done is in its place among the results and stored for the epochs of this
  upload, although a later answer, a failed upload's leftover request or an
  extension may come in between; all chunks before the batch are done. `DocOK`:
  the file the document points to is either the whole blob or all of its chunks,
  stored until its epochs are over. `DownOK`: a read under way reads such a file,
  and what it has brought are that file's parts unless an aggregator altered
  them. `KeysOK`: every quorum of shares gives the key back. A key rotated during
  a read does no harm because the file names the version it was encrypted under.
* `KeysOK` is proved and not assumed, about the operators of `Recovery` as the
  code computes (`SharesGiveSecretBack`): for every byte of a key and every random
  coefficient, two of the three shares or all three give the byte back. `GfMul` is
  a loop over eight bits; it is followed bit by bit (`MulBits`), which shows that a
  product is a sum of doubles of one factor selected by the bits of the other
  (`MulBit`), hence linear in it. The products of the constants
  1, 2 and 3, their inverses (`GfInv` raises to the power 254) and the basis
  polynomials at 0 of every quorum are computed from it, and by linearity the
  coefficient cancels. `OneShareTellsNothing`: whatever a share is, there is a
  coefficient under which it is the share of any other secret (`Quotient`).

Assumed: `AddressAssumption` (finitely many addresses, the owner among them),
`InputAssumption` (inputs have the types the Move signatures give them),
`InitialConfigAssumption` (the initial limits are positive, as `admin.move`
sets them), `AccountsAssumption` (users and codes exist, the placeholders are none
of them, limits are positive), `SessionsAssumption` and `BillingAssumption` (there
is a tab, an organisation and a user, placeholders are none of the values they
stand beside), `ChainAssumption` (the owner is a user, masks are masks, the
emissions are the two described), `IndexerAssumption` (a batch holds an event) and
`NoRowAssumption` (the result of an empty lookup is no row), and
`StorageAssumption` (there is a first folder key, keys and coefficients are bytes,
the client is configured with one chunk, attempt, aggregator and epoch at least).
`DocAssumption`,
`PoolAssumption`, `WizardAssumption` and `DeskAssumption` only type the bounds and
inputs. `DealDesk` uses `ENABLED` for the dry run; its proofs treat it as an unknown
and use only that the other branch leaves the package alone.

Only model-checked: `DoneTookEffect` of `DealDesk`, whose second half speaks of
`ENABLED` (that a dry run which passed still would pass when nothing has changed
is evident and beyond the prover); every liveness property. Secret sharing is
modelled and proved for two of three shares, the defaults of `splitSecret`
(`recovery.ts:60`), not for other numbers of shares and thresholds. `VersionsDense` is checked as
a conjunct of `DocumentsTypeOK`; `VersionsAppendOnly` is proved and in no run.

## 5. Plan, and what is not modelled

Next: `Storage` with the folder keys of `DataRoom` (today key rotation and
`store_encrypted_folder_key` are in separate modules); secret sharing over any
number of shares, which needs that every byte but 0 has an inverse.

Not modelled, and why: the ciphers, signatures, proofs and hashes (library
calls, taken for their verdict); Seal's session keys; comments, read endpoints
and lists (single queries; lists count in a second one, and the audit export
stops at 10000 rows); `RateLimitGuard`, `RoleGuard` and `RequireRole` (attached
to no route); the cost tracker and the renewal worker (they log a line); the
Redis caches the indexer deletes (nothing fills them); the pages beside the
wizard and sign-in (mock data or query results; the onboarding wizard is reached
from no page); build, deployment and documentation.

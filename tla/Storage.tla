------------------------------ MODULE Storage ------------------------------
(***************************************************************************)
(* A folder's file on its way to and from Walrus: encrypted under the      *)
(* folder key, uploaded whole or in chunks, extended, read back by a       *)
(* member who unwraps the key or recovers it from shares, and the rotation *)
(* of the key when a member leaves.                                        *)
(*                                                                         *)
(* WalrusClient, its chunked uploader and downloader and withRetry are     *)
(* translated from the SDK; publisher and aggregators are external: they   *)
(* may store a blob and lose the answer, fail, or answer altered bytes.    *)
(* AES-GCM is taken to refuse whatever was not encrypted with the key.     *)
(***************************************************************************)
EXTENDS Recovery

CONSTANTS
    Member,         \* who may hold a wrapped key
    Chunks,         \* the chunks of a file that is uploaded in chunks
    Concurrency,    \* ChunkConfig.concurrency
    MaxAttempts,    \* uploadRetry.maxAttempts
    MaxRenewals,    \* renewalRetry.maxAttempts
    Aggregators,    \* the primary aggregator and its fallbacks
    Epochs,         \* for how many epochs a file is stored or extended
    Secret,         \* the folder keys generated one after another, a byte each
    Coefficient,    \* the random coefficient of the sharing of each key
    MaxEpoch,       \* bound: the last epoch a blob is stored for
    MaxUploads,     \* bound: the uploads
    MaxFaults       \* bound: answers that are lost, failed or altered

ASSUME StorageAssumption ==
    /\ {Chunks, Concurrency, MaxAttempts, MaxRenewals, Aggregators, Epochs, MaxEpoch} \subseteq Nat \ {0}
    /\ {MaxUploads, MaxFaults} \subseteq Nat
    /\ Secret \in Seq(Byte) \ {<<>>} /\ Coefficient \in [DOMAIN Secret -> Byte]

VARIABLES
    epoch,     \* Walrus's clock
    uploads,   \* the uploads so far
    faults,    \* the answers that went wrong so far
    expiry,    \* blob -> the epoch its storage ends, 0: never stored
    members,   \* the folder's members
    version,   \* the current folder key
    recovered, \* key version -> set of its shares -> the key they give back
    wrapped,   \* key version -> the members it was wrapped for
    doc,       \* the file last uploaded: its key version and its blobs, in order
    up, down   \* the upload and the read under way

vars == <<epoch, uploads, faults, expiry, members, version, recovered, wrapped, doc, up, down>>

Version == 1..Len(Secret)

\* Part 0 is the whole file, part i its i-th chunk; what a blob holds is its name.
Part == 0..Chunks
Blob == [ver : Version, part : Part]
NoBlob == [ver |-> 0, part |-> 0]

\* An uploaded file: the epoch its upload began, and one blob or the manifest's blobs in order.
NoDoc == [ver |-> 0, since |-> 0, blobs |-> <<>>]
Doc == {NoDoc} \cup [ver : Version, since : 1..MaxEpoch, blobs : UNION {[1..n -> Blob \cup {NoBlob}] : n \in {1, Chunks}}]

\* A request with retries, the aggregator it is sent to, and the blob it brought.
Call == [st : {"waiting", "sent", "done", "failed"}, attempt : 1..MaxAttempts, agg : 1..Aggregators]
Waiting == [st |-> "waiting", attempt |-> 1, agg |-> 1]
Sent == [Waiting EXCEPT !.st = "sent"]

Upload == [phase : {"idle", "single", "batch", "failed"}, ver : Version, since : 1..MaxEpoch, from : Part,
           calls : [Part -> Call], results : [1..Chunks -> Blob \cup {NoBlob}]]
Download == [phase : {"idle", "single", "batch", "decrypt", "failed", "refused", "read"},
             file : Doc, from : Part, calls : [Part -> Call],
             data : [Part -> Blob \cup {NoBlob}], altered : BOOLEAN]

LastExpiry == MaxEpoch + MaxRenewals * Epochs    \* bound: how long a blob may be extended

\* Two of the three shares of a key, or all, and what each such set gives back.
Quorums == {S \in SUBSET (1..3) : Cardinality(S) >= 2}
Deal(v) == LET share == SplitSecret(<<Secret[v], Coefficient[v]>>, 3)
           IN [S \in Quorums |-> RecoverSecret([i \in S |-> share[i]])]

-----------------------------------------------------------------------------
\* withRetry

\* Non-retryable: 400, 401, 402, 404 and 413; everything else is tried again.
NON_RETRYABLE == {"refused", "not_found", "too_large"}

\* Mutant: the last attempt does not throw.
Retried_OneMore(call, answer) ==
    IF answer = "ok" THEN [call EXCEPT !.st = "done"]
    ELSE IF answer \in NON_RETRYABLE \/ call.attempt > MaxAttempts THEN [call EXCEPT !.st = "failed"]
    ELSE [call EXCEPT !.attempt = @ + 1]

\* Mutant: the backoff sleep never resolves.
Retried_Sleeps(call, answer) ==
    IF answer = "ok" THEN [call EXCEPT !.st = "done"]
    ELSE IF answer \in NON_RETRYABLE \/ call.attempt = MaxAttempts THEN [call EXCEPT !.st = "failed"]
    ELSE [call EXCEPT !.attempt = @ + 1, !.st = "waiting"]

\* The call after an answer.
Retried(call, answer) ==
    IF answer = "ok" THEN [call EXCEPT !.st = "done"]
    ELSE IF answer \in NON_RETRYABLE \/ call.attempt = MaxAttempts THEN [call EXCEPT !.st = "failed"]
    ELSE [call EXCEPT !.attempt = @ + 1]

\* The batch of chunks after the first `from`, and the calls with that batch sent.
Batch(from) == {i \in 1..Chunks : from < i /\ i <= from + Concurrency}
SendBatch(calls, from) == [p \in Part |-> IF p \in Batch(from) THEN Sent ELSE calls[p]]
BatchDone(job) == \A i \in Batch(job.from) : job.calls[i].st = "done"
InFlight(job) == \E p \in Part : job.calls[p].st = "sent"
Fault(answer) == IF answer = "ok" THEN UNCHANGED faults ELSE faults < MaxFaults /\ faults' = faults + 1

-----------------------------------------------------------------------------
\* Upload

NoUpload == [phase |-> "idle", ver |-> 1, since |-> 1, from |-> 0, calls |-> [p \in Part |-> Waiting],
         results |-> [i \in 1..Chunks |-> NoBlob]]
Chunked(job) == [job EXCEPT !.phase = "batch", !.calls = SendBatch(@, 0)]
Single(job) == [job EXCEPT !.phase = "single", !.calls[0] = Sent]

\* Encryption under the current key, and upload: in chunks at once over the threshold.
StartUpload(large) ==
    /\ up.phase \in {"idle", "failed"} /\ ~InFlight(up)
    /\ uploads < MaxUploads /\ uploads' = uploads + 1
    /\ up' = LET job == [NoUpload EXCEPT !.ver = version, !.since = epoch] IN IF large THEN Chunked(job) ELSE Single(job)
    /\ UNCHANGED <<epoch, faults, expiry, members, version, recovered, wrapped, doc, down>>

\* The publisher stores the blob, from now on and for Epochs.
Stored(blob) == [expiry EXCEPT ![blob] = Max({@, epoch + Epochs})]

\* The caller keeps what the upload returned.
Keep(blobs) == doc' = [ver |-> up.ver, since |-> up.since, blobs |-> blobs]

\* The publisher's answer to the upload of the whole file; a 413 switches to chunks.
SingleAnswer(answer, stored) ==
    /\ up.phase = "single" /\ Fault(answer)
    /\ (answer = "ok") => stored
    /\ (answer \in NON_RETRYABLE) => ~stored
    /\ LET blob == [ver |-> up.ver, part |-> 0]
           call == Retried(up.calls[0], answer)
       IN /\ expiry' = IF stored THEN Stored(blob) ELSE expiry
          /\ CASE call.st = "done" -> Keep(<<blob>>) /\ up' = NoUpload
               [] answer = "too_large" -> UNCHANGED doc /\ up' = Chunked([up EXCEPT !.calls[0] = call])
               [] call.st = "failed" /\ answer # "too_large" -> UNCHANGED doc /\ up' = [up EXCEPT !.calls[0] = call, !.phase = "failed"]
               [] OTHER -> UNCHANGED doc /\ up' = [up EXCEPT !.calls[0] = call]
    /\ UNCHANGED <<epoch, uploads, members, version, recovered, wrapped, down>>

\* results[chunkIndex]
Result(results, i, blob) == [results EXCEPT ![i] = blob]

\* The publisher's answer to a chunk: Promise.all rejects with the first that fails,
\* and the others of the batch go on.
ChunkAnswer(i, answer, stored) ==
    /\ up.phase \in {"batch", "failed"} /\ up.calls[i].st = "sent" /\ Fault(answer)
    /\ (answer = "ok") => stored
    /\ (answer \in NON_RETRYABLE) => ~stored
    /\ LET blob == [ver |-> up.ver, part |-> i]
           call == Retried(up.calls[i], answer)
       IN /\ expiry' = IF stored THEN Stored(blob) ELSE expiry
          /\ up' = [up EXCEPT !.calls[i] = call,
                              !.results = IF call.st = "done" THEN Result(@, i, blob) ELSE @,
                              !.phase = IF call.st = "failed" THEN "failed" ELSE @]
    /\ UNCHANGED <<epoch, uploads, members, version, recovered, wrapped, doc, down>>

\* The next batch, or the manifest when there is none.
NextChunks ==
    /\ up.phase = "batch" /\ BatchDone(up)
    /\ IF up.from + Concurrency < Chunks
       THEN /\ up' = [up EXCEPT !.from = @ + Concurrency, !.calls = SendBatch(@, up.from + Concurrency)]
            /\ UNCHANGED doc
       ELSE Keep(up.results) /\ up' = NoUpload
    /\ UNCHANGED <<epoch, uploads, faults, expiry, members, version, recovered, wrapped, down>>

-----------------------------------------------------------------------------
\* Download

Alive(blob) == expiry[blob] > epoch

NoDownload == [phase |-> "idle", file |-> NoDoc, from |-> 0, calls |-> [p \in Part |-> Waiting],
               data |-> [p \in Part |-> NoBlob], altered |-> FALSE]

\* download of the file, whole or chunk by chunk.
StartRead ==
    /\ down.phase \in {"idle", "failed", "refused", "read"} /\ ~InFlight(down)
    /\ doc # NoDoc
    /\ down' = IF doc.blobs[1].part = 0
               THEN [NoDownload EXCEPT !.phase = "single", !.file = doc, !.calls[0] = Sent]
               ELSE [NoDownload EXCEPT !.phase = "batch", !.file = doc, !.calls = SendBatch(@, 0)]
    /\ UNCHANGED <<epoch, uploads, faults, expiry, members, version, recovered, wrapped, doc, up>>

\* The blob part p of the download is read from.
Source(p) == down.file.blobs[IF p = 0 THEN 1 ELSE p]

\* downloadSingleBlob: the next aggregator when one has failed, unless the blob is not found.
NextAggregator(call, answer) ==
    LET next == Retried(call, answer)
    IN IF next.st = "failed" /\ answer # "not_found" /\ call.agg < Aggregators
       THEN [Sent EXCEPT !.agg = call.agg + 1] ELSE next

\* An aggregator's answer: the blob, altered bytes, not found once its storage has ended, or a failure.
ReadAnswer(p, answer) ==
    /\ down.phase \in {"single", "batch", "failed"} /\ down.calls[p].st = "sent"
    /\ IF Alive(Source(p)) THEN answer # "not_found" ELSE answer = "not_found"
    /\ IF answer = "not_found" THEN UNCHANGED faults ELSE Fault(answer)
    /\ LET call == NextAggregator(down.calls[p], IF answer = "altered" THEN "ok" ELSE answer)
       IN down' = [down EXCEPT !.calls[p] = call,
                               !.data[p] = IF answer = "ok" THEN Source(p) ELSE @,
                               !.altered = @ \/ answer = "altered",
                               !.phase = CASE call.st = "failed" -> "failed"
                                           [] call.st = "done" /\ @ = "single" -> "decrypt"
                                           [] OTHER -> @]
    /\ UNCHANGED <<epoch, uploads, expiry, members, version, recovered, wrapped, doc, up>>

\* The next batch, or the reassembled file when there is none.
NextReads ==
    /\ down.phase = "batch" /\ BatchDone(down)
    /\ down' = IF down.from + Concurrency < Chunks
               THEN [down EXCEPT !.from = @ + Concurrency, !.calls = SendBatch(@, down.from + Concurrency)]
               ELSE [down EXCEPT !.phase = "decrypt"]
    /\ UNCHANGED <<epoch, uploads, faults, expiry, members, version, recovered, wrapped, doc, up>>

\* Key v is wrapped for each of ms with that member's public key, and one who still is a
\* member unwraps it with his own.
WrappedFor(v, ms) == [wrapped EXCEPT ![v] = ms]
Unwrapped(v) == wrapped[v] \cap members # {}

\* AESEngine.decrypt of the parts in order, by a member the key was wrapped for or with
\* shares: what was encrypted under the key, or an error.
Decrypt(S) ==
    /\ down.phase = "decrypt"
    /\ S = {} => Unwrapped(down.file.ver)
    /\ LET v == down.file.ver
           authentic == \E whole \in {{0}, 1..Chunks} :
               \A p \in Part : down.data[p] = IF p \in whole THEN [ver |-> v, part |-> p] ELSE NoBlob
       IN down' = [NoDownload EXCEPT !.altered = down.altered,
                      !.phase = IF authentic /\ (S = {} \/ recovered[v][S] = Secret[v]) THEN "read" ELSE "refused"]
    /\ UNCHANGED <<epoch, uploads, faults, expiry, members, version, recovered, wrapped, doc, up>>

-----------------------------------------------------------------------------
\* Extension, keys and time

\* extend a blob.  A request whose answer is lost is made again, so that the publisher may
\* apply it up to MaxRenewals times before the client has an answer.
\* Bound: only files of one blob are extended; the chunks of a manifest are extended alike.
Extend(blob, applied) ==
    /\ doc.blobs = <<blob>> /\ Alive(blob)
    /\ expiry[blob] + applied * Epochs <= LastExpiry
    /\ expiry' = [expiry EXCEPT ![blob] = @ + applied * Epochs]
    /\ UNCHANGED <<epoch, uploads, faults, members, version, recovered, wrapped, doc, up, down>>

\* A member is removed; rotateKey makes a key and wraps it for the members that remain, one at least.
RotateKey(m) ==
    /\ m \in members /\ members' = members \ {m} /\ members' # {}
    /\ version < Len(Secret) /\ version' = version + 1
    /\ wrapped' = WrappedFor(version', members')
    /\ UNCHANGED <<epoch, uploads, faults, expiry, recovered, doc, up, down>>

EpochPasses ==
    /\ epoch < MaxEpoch /\ epoch' = epoch + 1
    /\ UNCHANGED <<uploads, faults, expiry, members, version, recovered, wrapped, doc, up, down>>

-----------------------------------------------------------------------------
\* The system

Init ==
    /\ epoch = 1 /\ uploads = 0 /\ faults = 0 /\ expiry = [b \in Blob |-> 0]
    /\ members = Member
    /\ version = 1 /\ recovered = [v \in Version |-> Deal(v)]
    /\ wrapped = [v \in Version |-> IF v = 1 THEN members ELSE {}]
    /\ doc = NoDoc /\ up = NoUpload /\ down = NoDownload

PublisherAnswers ==
    \E answer \in {"ok", "error", "refused", "too_large"}, stored \in BOOLEAN :
        \/ SingleAnswer(answer, stored)
        \/ \E i \in 1..Chunks : ChunkAnswer(i, answer, stored)

AggregatorAnswers ==
    \E p \in Part, answer \in {"ok", "altered", "error", "refused", "not_found"} : ReadAnswer(p, answer)

Caller ==
    \/ \E large \in BOOLEAN : StartUpload(large)
    \/ StartRead
    \/ \E blob \in Blob, applied \in 1..MaxRenewals : Extend(blob, applied)
    \/ \E m \in Member : RotateKey(m)

Next ==
    \/ PublisherAnswers \/ AggregatorAnswers \/ NextChunks \/ NextReads
    \/ \E S \in Quorums \cup {{}} : Decrypt(S)
    \/ Caller
    \/ EpochPasses

\* A server answers in the end or the connection breaks, and the clients go on.
Spec == Init /\ [][Next]_vars
FairSpec == /\ Spec
            /\ WF_vars(PublisherAnswers) /\ WF_vars(NextChunks)
            /\ WF_vars(AggregatorAnswers) /\ WF_vars(NextReads) /\ WF_vars(\E S \in Quorums : Decrypt(S))

-----------------------------------------------------------------------------
\* Properties

\* Every variable has its type: no call is tried more often than withRetry's
\* configuration allows.
StorageTypeOK ==
    /\ epoch \in 1..MaxEpoch /\ uploads \in 0..MaxUploads /\ faults \in 0..MaxFaults
    /\ expiry \in [Blob -> 0..LastExpiry]
    /\ members \subseteq Member /\ version \in Version
    /\ recovered \in [Version -> [Quorums -> Byte]]
    /\ wrapped \in [Version -> SUBSET Member]
    /\ doc \in Doc /\ up \in Upload /\ down \in Download

\* What was uploaded can be read.  Whatever chunks completed in which order, were
\* retried, stored twice or lost their answer, and whether the key was unwrapped or
\* recovered from two or three shares: decryption refuses a file only if an aggregator
\* altered it, and a download fails only if every aggregator failed for one of its
\* blobs or the epochs it was uploaded for are over.
ReadIsWritten ==
    /\ (down.phase = "refused") => down.altered
    /\ (down.phase = "failed") =>
          \/ down.file.since + Epochs <= epoch
          \/ \E p \in Part : down.calls[p].st = "failed" /\ down.calls[p].agg = Aggregators

\* An upload and a read end, with a result or an error: no retry and no batch waits for ever.
JobsSettle ==
    /\ (up.phase \in {"single", "batch"}) ~> (up.phase \in {"idle", "failed"})
    /\ (down.phase \in {"single", "batch", "decrypt"}) ~> (down.phase \in {"read", "refused", "failed"})
=============================================================================

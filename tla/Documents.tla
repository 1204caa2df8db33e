------------------------------ MODULE Documents ------------------------------
(***************************************************************************)
(* The documents of a pool: document.move and document_entry.move, called  *)
(* under the membership of DataRoom.                                       *)
(*                                                                         *)
(* A Document object keeps its versions and reviews as dynamic fields,     *)
(* which the contract cannot iterate over, so it also keeps counters that  *)
(* stand for them: current_version, version_count and approval_count.      *)
(***************************************************************************)
EXTENDS DataRoom, Sequences

CONSTANTS
    Doc,             \* the ids object::new may hand out
    VersionBound     \* bound of the model on the versions of one document

ASSUME DocAssumption == IsFiniteSet(Doc) /\ VersionBound \in Nat

VARIABLE docs

NotReviewed == "NONE"     \* no ReviewRecord under the reviewer's key

(* uploadedBy[v] is DocVersion(v).uploaded_by; the blob, its hash and the   *)
(* change log do not tell the properties apart.                             *)
Document ==
    [status         : {"absent", "live", "archived"},
     folder         : Nat,
     required       : BOOLEAN,
     currentVersion : Nat,
     versionCount   : Nat,
     uploadedBy     : Seq(Address),
     reviews        : [Address -> ReviewStatuses \union {NotReviewed}],
     approvalCount  : Nat]

docVars == <<roomVars, docs>>

HasDocument(d) == docs[d].status # "absent"
IsArchived(d)  == docs[d].status = "archived"

\* document::current_version_uploader
CurrentVersionUploader(d) == docs[d].uploadedBy[docs[d].currentVersion]

\* document::has_any_approval
HasAnyApproval(d) == docs[d].approvalCount > 0

-----------------------------------------------------------------------------
(* document_entry.move *)

CreateDocument(caller, d, folder, required) ==
    /\ ~paused
    /\ IsAuthorized(caller, EditorUp)
    /\ FolderExists(folder)
    /\ ~HasDocument(d)                              \* object::new is fresh
    /\ docs' = [docs EXCEPT ![d] =
                  [status         |-> "live",
                   folder         |-> folder,
                   required       |-> required,
                   currentVersion |-> 1,
                   versionCount   |-> 1,
                   uploadedBy     |-> <<caller>>,
                   reviews        |-> [a \in Address |-> NotReviewed],
                   approvalCount  |-> 0]]
    /\ UNCHANGED roomVars

\* Mutant: document::add_version without its archive check.
AddVersion_Archived(caller, d) ==
    LET new == docs[d].versionCount + 1 IN
    /\ ~paused
    /\ IsAuthorized(caller, EditorUp)
    /\ HasDocument(d)
    /\ docs[d].versionCount < maxVersions
    /\ new <= VersionBound
    /\ docs' = [docs EXCEPT ![d].uploadedBy     = Append(@, caller),
                            ![d].currentVersion = new,
                            ![d].versionCount   = new]
    /\ UNCHANGED roomVars

\* Mutant: the new version is stored but current_version stays behind.
AddVersion_StaleCurrent(caller, d) ==
    LET new == docs[d].versionCount + 1 IN
    /\ ~paused
    /\ IsAuthorized(caller, EditorUp)
    /\ docs[d].status = "live"
    /\ docs[d].versionCount < maxVersions
    /\ new <= VersionBound
    /\ docs' = [docs EXCEPT ![d].uploadedBy   = Append(@, caller),
                            ![d].versionCount = new]
    /\ UNCHANGED roomVars

\* Neither the reviews nor approval_count are touched.
AddVersion(caller, d) ==
    LET new == docs[d].versionCount + 1 IN
    /\ ~paused
    /\ IsAuthorized(caller, EditorUp)
    /\ HasDocument(d)
    /\ docs[d].versionCount < maxVersions
    /\ ~IsArchived(d)
    /\ new <= VersionBound
    /\ docs' = [docs EXCEPT ![d].uploadedBy     = Append(@, caller),
                            ![d].currentVersion = new,
                            ![d].versionCount   = new]
    /\ UNCHANGED roomVars

\* Mutant: the count follows the new status alone and not the transition.
CountAfterReview_NoTransition(old, new, count) ==
    IF new = "APPROVED" THEN count + 1 ELSE count

\* The adjustment of approval_count in document::submit_review.
CountAfterReview(old, new, count) ==
    CASE old = "APPROVED" /\ new # "APPROVED" -> count - 1
      [] old # "APPROVED" /\ new = "APPROVED" -> count + 1
      [] OTHER                                -> count

\* Mutant: no self-review check.
SubmitReview_Self(caller, d, status) ==
    /\ ~paused
    /\ IsAuthorized(caller, ReviewerUp)
    /\ docs[d].status = "live"
    /\ docs' = [docs EXCEPT
                  ![d].reviews[caller] = status,
                  ![d].approvalCount   =
                      CountAfterReview(docs[d].reviews[caller], status, @)]
    /\ UNCHANGED roomVars

SubmitReview(caller, d, status) ==
    /\ ~paused
    /\ IsAuthorized(caller, ReviewerUp)
    /\ HasDocument(d)
    /\ caller # CurrentVersionUploader(d)
    /\ ~IsArchived(d)
    /\ docs' = [docs EXCEPT
                  ![d].reviews[caller] = status,
                  ![d].approvalCount   =
                      CountAfterReview(docs[d].reviews[caller], status, @)]
    /\ UNCHANGED roomVars

\* The archive flag is not consulted.
MarkAsRequired(caller, d, required) ==
    /\ ~paused
    /\ IsAuthorized(caller, OwnerUp)
    /\ HasDocument(d)
    /\ docs' = [docs EXCEPT ![d].required = required]
    /\ UNCHANGED roomVars

ArchiveDocument(caller, d) ==
    /\ ~paused
    /\ IsAuthorized(caller, OwnerUp)
    /\ HasDocument(d)
    /\ ~IsArchived(d)
    /\ docs' = [docs EXCEPT ![d].status = "archived"]
    /\ UNCHANGED roomVars

-----------------------------------------------------------------------------

AbsentDocument ==
    [status         |-> "absent",
     folder         |-> 0,
     required       |-> FALSE,
     currentVersion |-> 0,
     versionCount   |-> 0,
     uploadedBy     |-> <<>>,
     reviews        |-> [a \in Address |-> NotReviewed],
     approvalCount  |-> 0]

DocInit == docs = [d \in Doc |-> AbsentDocument]

DocCallNext ==
    \E caller \in Address, d \in Doc :
        \/ \E folder \in FolderInputs, required \in BOOLEAN :
               CreateDocument(caller, d, folder, required)
        \/ AddVersion(caller, d)
        \/ \E status \in ReviewStatuses : SubmitReview(caller, d, status)
        \/ \E required \in BOOLEAN : MarkAsRequired(caller, d, required)
        \/ ArchiveDocument(caller, d)

DocumentsNext ==
    \/ RoomNext /\ UNCHANGED docs
    \/ DocCallNext

DocumentsSpec == RoomInit /\ DocInit /\ [][DocumentsNext]_docVars

-----------------------------------------------------------------------------
(* Properties *)

\* The three views of a document's history agree: the versions 1..version_count
\* all exist, the newest is the current one, and the borrow of
\* DocVersion(current_version) in current_version_uploader never aborts.
VersionsDense ==
    \A d \in Doc :
        /\ docs[d].currentVersion = docs[d].versionCount
        /\ docs[d].versionCount = Len(docs[d].uploadedBy)
        /\ HasDocument(d) => docs[d].currentVersion \in DOMAIN docs[d].uploadedBy

\* Every document has its counters, reviews and versions, and the versions are those
\* the counters speak of.
DocumentsTypeOK == docs \in [Doc -> Document] /\ VersionsDense

Approvers(d) == {a \in Address : docs[d].reviews[a] = "APPROVED"}

\* approval_count stands for a set of dynamic fields nobody can iterate over,
\* and the gates of the pool read nothing else.  Through every sequence of
\* first reviews, changed reviews and repeated reviews it is the number of
\* reviewers whose record says APPROVED: has_any_approval is exact, and its
\* decrement (a u64) never underflows.
ApprovalCountExact ==
    \A d \in Doc : docs[d].approvalCount = Cardinality(Approvers(d))

\* What the self-review check buys in the long run.  A reviewer may approve one
\* version and upload the next, may be revoked, and may come back with another
\* role; still, behind every standing approval there is a version somebody else
\* uploaded: no document counts as approved through the work of one address.
FourEyes ==
    \A d \in Doc : \A a \in Approvers(d) :
        \E v \in DOMAIN docs[d].uploadedBy : docs[d].uploadedBy[v] # a

\* The versions are the evidence a review refers to: their number only grows,
\* and no call replaces or removes one that was uploaded.
VersionsAppendOnly ==
    [][\A d \in Doc : \A v \in DOMAIN docs[d].uploadedBy :
          /\ v \in DOMAIN docs'[d].uploadedBy
          /\ docs'[d].uploadedBy[v] = docs[d].uploadedBy[v]]_docVars

\* document_entry.move:240 "Archived documents cannot have new versions or
\* reviews": archiving is final and freezes everything but the required flag.
ArchivedStaysFrozen ==
    [][\A d \in Doc : IsArchived(d) =>
          docs'[d] = [docs[d] EXCEPT !.required = docs'[d].required]]_docVars
=============================================================================

---------------------------- MODULE StoreOnboarding ----------------------------
(***************************************************************************)
(* How one store comes on the platform: the owner uploads KYC documents    *)
(* and submits the store, an admin verifies documents and approves, rejects*)
(* or asks for changes.  StoreOwnerCatalogService, StoreCatalogService and *)
(* DocumentsService.                                                       *)
(*                                                                         *)
(* submitForReview, approveStore, rejectStore and requestChanges read the  *)
(* store, decide, and then write its status, the approval queue and the    *)
(* audit log, each in a statement of its own and in no transaction.  The   *)
(* owner and several admins act at the same time, and a request may die    *)
(* between two statements.                                                 *)
(***************************************************************************)
EXTENDS Integers, Sequences, FiniteSets

CONSTANTS
  RequiredTypes,   \* REQUIRED_DOCUMENT_TYPES
  Procs,           \* requests that can be in flight at the same time
  MaxDocuments,    \* bound on the documents ever uploaded
  NoType           \* no document type

ASSUME OnboardingAssumption ==
  /\ IsFiniteSet(Procs) /\ MaxDocuments \in Nat
  /\ RequiredTypes # {} /\ NoType \notin RequiredTypes

VARIABLES
  status,      \* Store.status
  located,     \* has the store a location pin?
  rated,       \* has it a commission rate (effectiveCommissionPercent)?
  documents,   \* the documents rows of the owner in the order of their creation
  decision,    \* the newest row of the approval queue
  audit,       \* the status the newest audit row about them says the store has now
  req,         \* req[p]: what request p does next and what it has read
  overlapped   \* history: did the requests in flight meet one another?

vars == <<status, located, rated, documents, decision, audit, req, overlapped>>

-------------------------------------------------------------------------------
\* StoreStatus; nothing in the code sets SUSPENDED.
StoreStatus == {"DRAFT", "PENDING", "LIVE", "REJECTED"}

Document == [docType : RequiredTypes, deleted : BOOLEAN,
             verification : {"PENDING", "VERIFIED", "REJECTED"}]

Decision == {"NONE", "PENDING", "APPROVED", "REJECTED"}

NoDocument == 0

Review == {"submit", "approve", "reject", "requestChanges"}

\* `seen` is the status a review has read; an upload keeps the type and the document
\* of that type it has found.
Idle == [op |-> "upload", step |-> "idle", seen |-> "DRAFT", docType |-> NoType, found |-> NoDocument]

Request ==
  {Idle} \cup
  [op : Review, step : {"kyc", "location", "rate", "write", "queue", "audit"},
   seen : StoreStatus, docType : {NoType}, found : {NoDocument}] \cup
  [op : {"upload"}, step : {"store"}, seen : {"DRAFT"}, docType : RequiredTypes, found : Nat]

\* createStoreByAdmin: a DRAFT, with a pin when the admin gave one.
Init ==
  /\ status = "DRAFT" /\ located \in BOOLEAN /\ rated = FALSE
  /\ documents = << >> /\ decision = "NONE" /\ audit = "DRAFT"
  /\ req = [p \in Procs |-> Idle] /\ overlapped = FALSE

InFlight == {p \in Procs : req[p] # Idle}

\* Whoever comes while nobody is at work, starts afresh.
Note == overlapped' = (InFlight # {})

Start(p, r) == req[p] = Idle /\ req' = [req EXCEPT ![p] = r] /\ Note
Continue(p, step) == req' = [req EXCEPT ![p].step = step] /\ UNCHANGED overlapped
Finish(p) == req' = [req EXCEPT ![p] = Idle] /\ UNCHANGED overlapped

-------------------------------------------------------------------------------
(* Documents *)

Live(t) == {d \in DOMAIN documents : documents[d].docType = t /\ ~documents[d].deleted}

\* getKycStatus looks at the newest document of a type.
Newest(t) == CHOOSE d \in Live(t) : \A e \in Live(t) : e <= d

AllRequiredUploaded == \A t \in RequiredTypes : Live(t) # {}
AllRequiredVerified ==
  \A t \in RequiredTypes : Live(t) # {} /\ documents[Newest(t)].verification = "VERIFIED"

\* uploadDocument finds a document of the same type, any of them.
UploadDocument(p, t) ==
  /\ Len(documents) < MaxDocuments
  /\ \E d \in IF Live(t) = {} THEN {NoDocument} ELSE Live(t) :
       Start(p, [Idle EXCEPT !.step = "store", !.docType = t, !.found = d])
  /\ UNCHANGED <<status, located, rated, documents, decision, audit>>

NewDocument(t) == [docType |-> t, deleted |-> FALSE, verification |-> "PENDING"]

\* Mutant: the old document stays.
StoreBeside(p) ==
  /\ req[p].step = "store" /\ Len(documents) < MaxDocuments
  /\ documents' = Append(documents, NewDocument(req[p].docType))
  /\ Finish(p)
  /\ UNCHANGED <<status, located, rated, decision, audit>>

\* Mutant: replacing a document takes two requests.
DeleteFirst(p) ==
  /\ req[p].step = "store"
  /\ documents' = IF req[p].found = NoDocument
                    THEN Append(documents, NewDocument(req[p].docType))
                    ELSE [documents EXCEPT ![req[p].found].deleted = TRUE]
  /\ Finish(p)
  /\ UNCHANGED <<status, located, rated, decision, audit>>

\* It deletes that one and creates the new one, in one transaction; a document that
\* was replaced in the meantime cannot be updated and rolls it back.
StoreDocument(p) ==
  LET old == req[p].found IN
  /\ req[p].step = "store" /\ Len(documents) < MaxDocuments
  /\ \/ old = NoDocument
        /\ documents' = Append(documents, NewDocument(req[p].docType))
     \/ old # NoDocument /\ ~documents[old].deleted
        /\ documents' = Append([documents EXCEPT ![old].deleted = TRUE],
                               NewDocument(req[p].docType))
     \/ old # NoDocument /\ documents[old].deleted /\ UNCHANGED documents
  /\ Finish(p)
  /\ UNCHANGED <<status, located, rated, decision, audit>>

\* verifyDocument, rejectDocument: whatever was decided before.
DecideDocument(d, verification) ==
  /\ ~documents[d].deleted
  /\ documents' = [documents EXCEPT ![d].verification = verification]
  /\ Note
  /\ UNCHANGED <<status, located, rated, decision, audit, req>>

VerifyDocument(d) == DecideDocument(d, "VERIFIED")
RejectDocument(d) == DecideDocument(d, "REJECTED")

-------------------------------------------------------------------------------
(* Reviews *)

StartReview(p, op, step) ==
  /\ Start(p, [Idle EXCEPT !.op = op, !.step = step, !.seen = status])
  /\ UNCHANGED <<status, located, rated, documents, decision, audit>>

\* Mutant: a rejected store may be submitted.
Resubmit(p) == status # "LIVE" /\ StartReview(p, "submit", "kyc")

SubmitForReview(p) == status \notin {"LIVE", "REJECTED"} /\ StartReview(p, "submit", "kyc")
ApproveStore(p)    == status = "PENDING" /\ StartReview(p, "approve", "kyc")

\* These two ask for no status.
RejectStore(p)    == StartReview(p, "reject", "write")
RequestChanges(p) == StartReview(p, "requestChanges", "queue")

\* A submission needs every required document, an approval has them verified.
CheckKyc(p) ==
  /\ req[p].step = "kyc"
  /\ \/ req[p].op = "submit" /\ AllRequiredUploaded /\ Continue(p, "location")
     \/ req[p].op = "approve" /\ AllRequiredVerified /\ Continue(p, "rate")
     \/ req[p].op = "submit" /\ ~AllRequiredUploaded /\ Finish(p)
     \/ req[p].op = "approve" /\ ~AllRequiredVerified /\ Finish(p)
  /\ UNCHANGED <<status, located, rated, documents, decision, audit>>

\* The pin that came with the submission is stored; without any pin it ends here.
SetLocation(p) ==
  /\ req[p].step = "location"
  /\ \E given \in BOOLEAN : located' = (located \/ given)
  /\ IF located' THEN Continue(p, "write") ELSE Finish(p)
  /\ UNCHANGED <<status, rated, documents, decision, audit>>

\* applyEffectiveRateToStore.
ApplyRate(p) ==
  /\ req[p].step = "rate"
  /\ rated' = TRUE
  /\ Continue(p, "write")
  /\ UNCHANGED <<status, located, documents, decision, audit>>

\* The status a review leads to.
Target(r) == CASE r.op = "submit" -> "PENDING" [] r.op = "approve" -> "LIVE"
               [] r.op = "reject" -> "REJECTED" [] r.op = "requestChanges" -> r.seen

\* store.update({ where: { id } }): whatever the status is by now.
WriteStatus(p) ==
  /\ req[p].step = "write"
  /\ status' = Target(req[p])
  /\ Continue(p, "queue")
  /\ UNCHANGED <<located, rated, documents, decision, audit>>

DecisionOf(op) == CASE op = "submit" -> "PENDING" [] op = "approve" -> "APPROVED"
                    [] op \in {"reject", "requestChanges"} -> "REJECTED"

QueueDecision(p) ==
  /\ req[p].step = "queue"
  /\ decision' = DecisionOf(req[p].op)
  /\ Continue(p, "audit")
  /\ UNCHANGED <<status, located, rated, documents, audit>>

\* Mutant: before and after are swapped.
RecordSwapped(p) ==
  /\ req[p].step = "audit"
  /\ audit' = req[p].seen
  /\ Finish(p)
  /\ UNCHANGED <<status, located, rated, documents, decision>>

RecordAudit(p) ==
  /\ req[p].step = "audit"
  /\ audit' = Target(req[p])
  /\ Finish(p)
  /\ UNCHANGED <<status, located, rated, documents, decision>>

\* updateStoreByAdmin with a pin.
UpdateStoreByAdmin ==
  /\ located' = TRUE
  /\ Note
  /\ UNCHANGED <<status, rated, documents, decision, audit, req>>

\* The request ends between two statements; a transaction is rolled back.
Crash(p) ==
  /\ req[p] # Idle
  /\ Finish(p)
  /\ UNCHANGED <<status, located, rated, documents, decision, audit>>

Handle(p) ==
  \/ \E t \in RequiredTypes : UploadDocument(p, t)
  \/ StoreDocument(p)
  \/ SubmitForReview(p) \/ ApproveStore(p) \/ RejectStore(p) \/ RequestChanges(p)
  \/ CheckKyc(p) \/ SetLocation(p) \/ ApplyRate(p) \/ WriteStatus(p)
  \/ QueueDecision(p) \/ RecordAudit(p) \/ Crash(p)

Next ==
  \/ \E p \in Procs : Handle(p)
  \/ \E d \in DOMAIN documents : VerifyDocument(d) \/ RejectDocument(d)
  \/ UpdateStoreByAdmin

Spec == Init /\ [][Next]_vars

-------------------------------------------------------------------------------
(* Properties *)

\* The store's rows and the requests in flight have their types.
TypeOK ==
  /\ status \in StoreStatus /\ located \in BOOLEAN /\ rated \in BOOLEAN
  /\ documents \in Seq(Document) /\ decision \in Decision
  /\ audit \in StoreStatus
  /\ req \in [Procs -> Request] /\ overlapped \in BOOLEAN

\* A store an admin gets to see, or customers, has every required document and a
\* location, whatever the owner and the admins do at the same time.
SubmittedIsComplete == status \in {"PENDING", "LIVE"} => AllRequiredUploaded /\ located

\* A LIVE store has its commission rate.
LiveIsRated == status = "LIVE" => rated

\* Under every interleaving, what admins and customers get to see is backed by what it takes.
StageIsBacked == SubmittedIsComplete /\ LiveIsRated

\* Reviews that have seen a status and will still make the store PENDING or LIVE.
LateReviews == {p \in Procs : /\ req[p].op \in {"submit", "approve"}
                              /\ req[p].step \in {"kyc", "location", "rate", "write"}}

\* Under every interleaving: REJECTED is final and LIVE ends only in rejection, but for
\* submissions and approvals that began before.  They may write over it, each of them
\* once, and nothing of the kind begins any more; with none in flight the status stays.
\* A store goes LIVE only by an approval that saw it PENDING.
LegalMoves ==
  [][/\ status \in {"LIVE", "REJECTED"} => LateReviews' \subseteq LateReviews
     /\ status' # status =>
          /\ status = "REJECTED" => LateReviews' # LateReviews
          /\ status = "LIVE" => status' = "REJECTED" \/ LateReviews' # LateReviews
          /\ status' = "LIVE" =>
               \E p \in LateReviews \ LateReviews' : req[p].op = "approve" /\ req[p].seen = "PENDING"]_vars

\* An upload that meets no other request leaves the type with no more documents than it
\* found, or with one.  Uploads that overlap may each add one, but never more of them
\* than there are requests at a time: whoever finds a document replaces it or fails.
OneDocumentPerType ==
  [][\A t \in RequiredTypes :
       LET before == Cardinality(Live(t))
           after  == Cardinality(Live(t)')
       IN  /\ after <= Cardinality(Procs)
           /\ after > before /\ after > 1 => overlapped]_vars

\* What the queue and the audit log say of a review that met no other request is what
\* became of the store, even when reviews before it died halfway or overlapped.
RecordsMatchStatus ==
  [][~overlapped =>
       /\ decision' # decision /\ decision' = "APPROVED" => status = "LIVE"
       /\ decision' # decision /\ decision' = "PENDING" => status = "PENDING"
       /\ audit' # audit => audit' = status]_vars
===============================================================================

------------------------- MODULE StoreOnboardingProofs -------------------------
(***************************************************************************)
(* Proofs about StoreOnboarding, for any number of requests and of         *)
(* required document types.                                                *)
(***************************************************************************)
EXTENDS StoreOnboarding, SequenceTheorems, FiniteSetTheorems, TLAPS

-------------------------------------------------------------------------------
(* Documents *)

\* The document an upload has found is of its type, whether it still counts or not.
FoundInv ==
  \A p \in Procs : req[p].step = "store" /\ req[p].found # NoDocument =>
    /\ req[p].found \in DOMAIN documents
    /\ documents[req[p].found].docType = req[p].docType

TypeInv == TypeOK /\ FoundInv

\* Documents are never lost: they keep their type, and a type that has one that counts
\* keeps having one.
Grown ==
  /\ documents' \in Seq(Document) /\ DOMAIN documents \subseteq DOMAIN documents'
  /\ \A d \in DOMAIN documents : documents'[d].docType = documents[d].docType
  /\ \A t \in RequiredTypes : Live(t) # {} => Live(t)' # {}

LEMMA EditGrows ==
  ASSUME TypeOK, NEW d \in DOMAIN documents, NEW row \in Document,
         row.docType = documents[d].docType,
         ~documents[d].deleted => ~row.deleted,
         documents' = [documents EXCEPT ![d] = row]
  PROVE  Grown
<1>1. DOMAIN documents = 1..Len(documents)
  BY LenProperties DEF TypeOK
<1>2. /\ documents' \in Seq(Document) /\ Len(documents') = Len(documents)
      /\ \A e \in 1..Len(documents) : documents'[e] = IF e = d THEN row ELSE documents[e]
  BY <1>1, ExceptSeq DEF TypeOK
<1>3. DOMAIN documents' = DOMAIN documents
  BY <1>1, <1>2, LenProperties
<1>4. \A t \in RequiredTypes : Live(t) \subseteq Live(t)'
  BY <1>1, <1>2, <1>3 DEF Live
<1> QED BY <1>1, <1>2, <1>3, <1>4 DEF Grown

LEMMA AppendGrows ==
  ASSUME TypeOK, NEW docs \in Seq(Document), Len(docs) = Len(documents),
         NEW type \in RequiredTypes,
         \A d \in 1..Len(documents) :
           /\ docs[d].docType = documents[d].docType
           /\ docs[d].docType # type => docs[d] = documents[d],
         documents' = Append(docs, NewDocument(type))
  PROVE  Grown
<1>1. NewDocument(type) \in Document
  BY DEF NewDocument, Document
<1>2. /\ documents' \in Seq(Document) /\ Len(documents') = Len(documents) + 1
      /\ \A d \in 1..Len(documents) : documents'[d] = docs[d]
      /\ documents'[Len(documents) + 1] = NewDocument(type)
  BY <1>1, AppendProperties
<1>3. Len(documents) \in Nat /\ DOMAIN documents = 1..Len(documents)
  BY LenProperties DEF TypeOK
<1>4. DOMAIN documents' = 1..(Len(documents) + 1)
  BY <1>2, LenProperties
<1>5. Len(documents) + 1 \in Live(type)'
  BY <1>2, <1>3, <1>4 DEF Live, NewDocument
<1>6. \A t \in RequiredTypes : t # type => Live(t) \subseteq Live(t)'
  BY <1>2, <1>3, <1>4 DEF Live
<1> QED BY <1>2, <1>3, <1>4, <1>5, <1>6 DEF Grown

LEMMA UnchangedGrows == TypeOK /\ UNCHANGED documents => Grown
  BY DEF TypeOK, Grown, Live

LEMMA StoreGrows ==
  ASSUME TypeInv, NEW p \in Procs, StoreDocument(p)
  PROVE  Grown
<1> DEFINE old == req[p].found
<1>1. TypeOK /\ req[p].docType \in RequiredTypes /\ documents \in Seq(Document)
  BY DEF StoreDocument, TypeInv, TypeOK, Request, Idle
<1>2. CASE old = NoDocument
  BY <1>1, <1>2, AppendGrows DEF StoreDocument
<1>3. CASE old # NoDocument /\ ~documents[old].deleted
  <2> DEFINE row == [documents[old] EXCEPT !.deleted = TRUE]
  <2>1. old \in DOMAIN documents /\ documents[old].docType = req[p].docType
    BY <1>3 DEF TypeInv, FoundInv, StoreDocument
  <2>2. old \in 1..Len(documents) /\ documents[old] \in Document
    BY <1>1, <2>1, LenProperties
  <2>3. row \in Document /\ row.docType = req[p].docType
    BY <2>1, <2>2 DEF Document
  <2> DEFINE docs == [documents EXCEPT ![old] = row]
  <2>4. /\ docs \in Seq(Document) /\ Len(docs) = Len(documents)
        /\ \A d \in 1..Len(documents) : docs[d] = IF d = old THEN row ELSE documents[d]
    BY <1>1, <2>2, <2>3, ExceptSeq
  <2>5. documents' = Append(docs, NewDocument(req[p].docType))
    BY <1>3 DEF StoreDocument
  <2> HIDE DEF docs, row
  <2>6. \A d \in 1..Len(documents) : /\ docs[d].docType = documents[d].docType
                                     /\ docs[d].docType # req[p].docType => docs[d] = documents[d]
    BY <2>1, <2>3, <2>4
  <2> QED BY <1>1, <2>4, <2>5, <2>6, AppendGrows
<1>4. CASE old # NoDocument /\ documents[old].deleted
  BY <1>1, <1>4, UnchangedGrows DEF StoreDocument
<1> QED BY <1>2, <1>3, <1>4

LEMMA DecideGrows ==
  ASSUME TypeInv, NEW d \in DOMAIN documents, VerifyDocument(d) \/ RejectDocument(d)
  PROVE  Grown
<1>1. PICK v \in {"VERIFIED", "REJECTED"} :
        documents' = [documents EXCEPT ![d] = [documents[d] EXCEPT !.verification = v]]
  BY DEF VerifyDocument, RejectDocument, DecideDocument
<1>2. documents[d] \in Document
  BY LenProperties DEF TypeInv, TypeOK
<1>3. /\ [documents[d] EXCEPT !.verification = v] \in Document
      /\ [documents[d] EXCEPT !.verification = v].docType = documents[d].docType
      /\ [documents[d] EXCEPT !.verification = v].deleted = documents[d].deleted
  BY <1>2 DEF Document
<1> QED BY <1>1, <1>3, EditGrows DEF TypeInv

LEMMA DocumentsGrow == TypeInv /\ [Next]_vars => Grown
<1> SUFFICES ASSUME TypeInv, [Next]_vars PROVE Grown
  OBVIOUS
<1>1. ASSUME NEW p \in Procs, Handle(p), ~StoreDocument(p)
      PROVE  UNCHANGED documents
  BY <1>1 DEF Handle, UploadDocument, SubmitForReview, ApproveStore, RejectStore, RequestChanges,
              StartReview, CheckKyc, SetLocation, ApplyRate, WriteStatus, QueueDecision,
              RecordAudit, Crash
<1>2. CASE UpdateStoreByAdmin \/ UNCHANGED vars
  BY <1>2, UnchangedGrows DEF UpdateStoreByAdmin, vars, TypeInv
<1> QED BY <1>1, <1>2, StoreGrows, DecideGrows, UnchangedGrows DEF Next, TypeInv

-------------------------------------------------------------------------------
(* Types *)

LEMMA IdleHasType == Idle \in Request
  BY DEF Request

LEMMA InitTypeInv == Init => TypeInv
<1> SUFFICES ASSUME Init PROVE TypeInv
  OBVIOUS
<1>1. req \in [Procs -> Request]
  BY IdleHasType DEF Init
<1>2. status \in StoreStatus /\ decision \in Decision /\ audit \in StoreStatus
  BY DEF Init, StoreStatus, Decision
<1>3. located \in BOOLEAN /\ rated \in BOOLEAN /\ overlapped \in BOOLEAN
  BY DEF Init
<1>4. documents \in Seq(Document)
  BY EmptySeq DEF Init
<1>5. FoundInv
  BY DEF Init, FoundInv, Idle
<1> QED BY <1>1, <1>2, <1>3, <1>4, <1>5 DEF TypeInv, TypeOK

LEMMA RequestsKeepType ==
  ASSUME TypeOK, NEW p \in Procs, NEW r \in Request,
         req' = [req EXCEPT ![p] = r]
  PROVE  req' \in [Procs -> Request]
  BY DEF TypeOK

LEMMA ContinueKeepsType ==
  ASSUME TypeOK, NEW p \in Procs,
         NEW step \in {"kyc", "location", "rate", "write", "queue", "audit"},
         req[p].step \in {"kyc", "location", "rate", "write", "queue", "audit"},
         Continue(p, step)
  PROVE  req' \in [Procs -> Request]
<1>1. req[p] \in [op : Review, step : {"kyc", "location", "rate", "write", "queue", "audit"},
                  seen : StoreStatus, docType : {NoType}, found : {NoDocument}]
  BY DEF TypeOK, Request, Idle
<1>2. [req[p] EXCEPT !.step = step] \in Request
  BY <1>1 DEF Request
<1>3. req' = [req EXCEPT ![p] = [req[p] EXCEPT !.step = step]]
  BY DEF Continue, TypeOK
<1> QED BY <1>2, <1>3, RequestsKeepType

LEMMA FinishKeepsType ==
  ASSUME TypeOK, NEW p \in Procs, Finish(p)
  PROVE  req' \in [Procs -> Request]
  BY IdleHasType, RequestsKeepType DEF Finish

LEMMA ReviewKeepsType ==
  ASSUME TypeOK, NEW p \in Procs, NEW op \in Review,
         NEW step \in {"kyc", "location", "rate", "write", "queue", "audit"},
         StartReview(p, op, step)
  PROVE  TypeOK'
<1> DEFINE r == [Idle EXCEPT !.op = op, !.step = step, !.seen = status]
<1>1. r \in Request
  BY DEF Request, Idle, TypeOK
<1>2. req' = [req EXCEPT ![p] = r]
  BY DEF StartReview, Start
<1>3. req' \in [Procs -> Request]
  <2> HIDE DEF r
  <2> QED BY <1>1, <1>2, RequestsKeepType
<1> QED BY <1>3 DEF StartReview, Start, Note, TypeOK

LEMMA TargetIsStatus ==
  ASSUME TypeOK, NEW p \in Procs, req[p].op \in Review
  PROVE  Target(req[p]) \in StoreStatus
<1>1. req[p].seen \in StoreStatus
  BY DEF TypeOK, Request, Idle, StoreStatus
<1> QED BY <1>1 DEF Target, Review, StoreStatus

LEMMA NextTypeOK == TypeInv /\ [Next]_vars => TypeOK'
<1> SUFFICES ASSUME TypeInv, [Next]_vars PROVE TypeOK'
  OBVIOUS
<1>0. TypeOK /\ documents' \in Seq(Document) /\ overlapped' \in BOOLEAN
  <2>1. overlapped' = overlapped \/ Note
    BY DEF Next, Handle, UploadDocument, StoreDocument, SubmitForReview, ApproveStore, RejectStore,
           RequestChanges, StartReview, Start, CheckKyc, SetLocation, ApplyRate, WriteStatus,
           QueueDecision, RecordAudit, Crash, Continue, Finish, VerifyDocument, RejectDocument,
           DecideDocument, UpdateStoreByAdmin, vars
  <2>2. ASSUME Note PROVE overlapped' \in BOOLEAN
    <3>1. (InFlight # {}) \in BOOLEAN
      OBVIOUS
    <3> QED BY <2>2, <3>1, Zenon DEF Note
  <2>3. overlapped' \in BOOLEAN
    BY <2>1, <2>2 DEF TypeInv, TypeOK
  <2> QED BY <2>3, DocumentsGrow DEF TypeInv, Grown
<1>1. ASSUME NEW p \in Procs, NEW t \in RequiredTypes, UploadDocument(p, t)
      PROVE  TypeOK'
  <2>1. PICK d \in IF Live(t) = {} THEN {NoDocument} ELSE Live(t) :
          Start(p, [Idle EXCEPT !.step = "store", !.docType = t, !.found = d])
    BY <1>1 DEF UploadDocument
  <2>2. d \in Nat
    BY <1>0, LenProperties DEF Live, NoDocument, TypeOK
  <2>3. [Idle EXCEPT !.step = "store", !.docType = t, !.found = d] \in Request
    BY <2>2 DEF Request, Idle
  <2>4. req' \in [Procs -> Request]
    BY <1>0, <2>1, <2>3, RequestsKeepType DEF Start
  <2> QED BY <1>0, <1>1, <2>4 DEF UploadDocument, TypeOK
<1>2. ASSUME NEW p \in Procs, StoreDocument(p)
      PROVE  TypeOK'
  BY <1>0, <1>2, FinishKeepsType DEF StoreDocument, TypeOK
<1>3. ASSUME NEW p \in Procs, SubmitForReview(p) \/ ApproveStore(p) \/ RejectStore(p) \/ RequestChanges(p)
      PROVE  TypeOK'
  BY <1>0, <1>3, ReviewKeepsType DEF SubmitForReview, ApproveStore, RejectStore, RequestChanges, Review
<1>4. ASSUME NEW p \in Procs, CheckKyc(p)
      PROVE  TypeOK'
  BY <1>0, <1>4, FinishKeepsType, ContinueKeepsType DEF CheckKyc, TypeOK
<1>5. ASSUME NEW p \in Procs, SetLocation(p)
      PROVE  TypeOK'
  <2>1. located' \in BOOLEAN
    BY <1>5 DEF SetLocation
  <2>2. req' \in [Procs -> Request]
    BY <1>0, <1>5, FinishKeepsType, ContinueKeepsType DEF SetLocation
  <2> QED BY <1>0, <1>5, <2>1, <2>2 DEF SetLocation, TypeOK
<1>6. ASSUME NEW p \in Procs, ApplyRate(p)
      PROVE  TypeOK'
  BY <1>0, <1>6, ContinueKeepsType DEF ApplyRate, TypeOK
<1>7. ASSUME NEW p \in Procs, WriteStatus(p)
      PROVE  TypeOK'
  <2>1. req[p].op \in Review
    BY <1>0, <1>7 DEF WriteStatus, TypeOK, Request, Idle
  <2> QED BY <1>0, <1>7, <2>1, TargetIsStatus, ContinueKeepsType DEF WriteStatus, TypeOK
<1>8. ASSUME NEW p \in Procs, QueueDecision(p)
      PROVE  TypeOK'
  <2>1. req[p].op \in Review
    BY <1>0, <1>8 DEF QueueDecision, TypeOK, Request, Idle
  <2>2. DecisionOf(req[p].op) \in Decision
    BY <2>1 DEF DecisionOf, Decision, Review
  <2> QED BY <1>0, <1>8, <2>2, ContinueKeepsType DEF QueueDecision, TypeOK
<1>9. ASSUME NEW p \in Procs, RecordAudit(p)
      PROVE  TypeOK'
  <2>1. req[p].op \in Review /\ req[p].seen \in StoreStatus
    BY <1>0, <1>9 DEF RecordAudit, TypeOK, Request, Idle
  <2> QED BY <1>0, <1>9, <2>1, TargetIsStatus, FinishKeepsType DEF RecordAudit, TypeOK
<1>10. ASSUME NEW p \in Procs, Crash(p)
       PROVE  TypeOK'
  BY <1>0, <1>10, FinishKeepsType DEF Crash, TypeOK
<1>11. ASSUME NEW d \in DOMAIN documents, VerifyDocument(d) \/ RejectDocument(d)
       PROVE  TypeOK'
  BY <1>0, <1>11 DEF VerifyDocument, RejectDocument, DecideDocument, TypeOK
<1>12. CASE UpdateStoreByAdmin
  BY <1>0, <1>12 DEF UpdateStoreByAdmin, TypeOK
<1>13. CASE UNCHANGED vars
  BY <1>0, <1>13 DEF vars, TypeOK
<1> QED
  BY <1>1, <1>2, <1>3, <1>4, <1>5, <1>6, <1>7, <1>8, <1>9, <1>10, <1>11, <1>12, <1>13
  DEF Next, Handle

\* What a step does to the requests.
LEMMA NextFoundInv == TypeInv /\ [Next]_vars => FoundInv'
<1> SUFFICES ASSUME TypeInv, [Next]_vars PROVE FoundInv'
  OBVIOUS
<1>0. TypeOK /\ FoundInv /\ Grown
  BY DocumentsGrow DEF TypeInv
<1>1. ASSUME NEW p \in Procs, NEW t \in RequiredTypes, UploadDocument(p, t)
      PROVE  FoundInv'
  <2>1. PICK d \in IF Live(t) = {} THEN {NoDocument} ELSE Live(t) :
          req' = [req EXCEPT ![p] = [Idle EXCEPT !.step = "store", !.docType = t, !.found = d]]
    BY <1>1 DEF UploadDocument, Start
  <2>2. d # NoDocument => d \in DOMAIN documents /\ documents[d].docType = t
    BY DEF Live
  <2> QED BY <1>0, <1>1, <2>1, <2>2 DEF UploadDocument, FoundInv, TypeOK, Idle
<1>2. ASSUME NEW p \in Procs, NEW r, r.step # "store", req' = [req EXCEPT ![p] = r]
      PROVE  FoundInv'
  BY <1>0, <1>2 DEF FoundInv, Grown, TypeOK
<1>3. ASSUME NEW p \in Procs, Finish(p)
      PROVE  FoundInv'
  BY <1>2, <1>3 DEF Finish, Idle
<1>4. ASSUME NEW p \in Procs, NEW step, step # "store", Continue(p, step)
      PROVE  FoundInv'
  <2>1. [req[p] EXCEPT !.step = step].step # "store"
    BY <1>0, <1>4 DEF TypeOK, Request, Idle
  <2> QED BY <1>2, <1>4, <2>1 DEF Continue
<1>5. ASSUME NEW p \in Procs, NEW op, NEW step, step # "store", StartReview(p, op, step)
      PROVE  FoundInv'
  BY <1>2, <1>5 DEF StartReview, Start, Idle
<1>6. ASSUME NEW p \in Procs, Handle(p)
      PROVE  FoundInv'
  BY <1>1, <1>3, <1>4, <1>5, <1>6
  DEF Handle, StoreDocument, SubmitForReview, ApproveStore, RejectStore, RequestChanges,
      CheckKyc, SetLocation, ApplyRate, WriteStatus, QueueDecision, RecordAudit, Crash
<1>7. ASSUME UNCHANGED req
      PROVE  FoundInv'
  BY <1>0, <1>7 DEF FoundInv, Grown, TypeOK
<1> QED
  BY <1>6, <1>7 DEF Next, VerifyDocument, RejectDocument, DecideDocument, UpdateStoreByAdmin, vars

LEMMA NextTypeInv == TypeInv /\ [Next]_vars => TypeInv'
  BY NextTypeOK, NextFoundInv DEF TypeInv

\* Whatever the owner and the admins do at the same time, the store's rows keep their
\* types: every status and decision written is one the columns have.
THEOREM OnboardingTypeCorrect == Spec => []TypeOK
<1>1. TypeInv => TypeOK
  BY DEF TypeInv
<1> QED BY <1>1, InitTypeInv, NextTypeInv, PTL DEF Spec

-------------------------------------------------------------------------------
(* What a store under review or LIVE has *)

Complete == AllRequiredUploaded /\ located

\* What the requests that may yet write the status have found, and only a submission,
\* an approval or a rejection writes it.
CompleteInv ==
  /\ status \in {"PENDING", "LIVE"} => Complete
  /\ \A p \in Procs :
       /\ req[p].op = "submit" /\ req[p].step = "location" => AllRequiredUploaded
       /\ req[p].op = "submit" /\ req[p].step = "write" => Complete
       /\ req[p].op = "approve" /\ req[p].step \in {"kyc", "rate", "write"} => Complete
       /\ req[p].step = "write" => req[p].op \in {"submit", "approve", "reject"}
       /\ req[p].step \in {"rate", "location"} => req[p].op \in {"submit", "approve"}
       /\ req[p].op = "approve" => req[p].step # "location"
       /\ req[p].op = "submit" => req[p].step # "rate"

\* The rate is applied before the status is written.
RatedInv ==
  /\ status = "LIVE" => rated
  /\ \A p \in Procs : req[p].op = "approve" /\ req[p].step = "write" => rated

OnboardingInv == TypeInv /\ CompleteInv /\ RatedInv

\* Neither documents nor the pin nor the rate are ever taken away.
LEMMA NothingIsTakenAway ==
  ASSUME TypeInv, [Next]_vars
  PROVE  /\ AllRequiredUploaded => AllRequiredUploaded'
         /\ located => located'
         /\ rated => rated'
<1>1. AllRequiredUploaded => AllRequiredUploaded'
  BY DocumentsGrow DEF Grown, AllRequiredUploaded
<1>2. located => located'
  BY DEF Next, Handle, UploadDocument, StoreDocument, SubmitForReview, ApproveStore, RejectStore,
         RequestChanges, StartReview, CheckKyc, SetLocation, ApplyRate, WriteStatus,
         QueueDecision, RecordAudit, Crash, VerifyDocument, RejectDocument, DecideDocument,
         UpdateStoreByAdmin, vars
<1>3. rated => rated'
  BY DEF Next, Handle, UploadDocument, StoreDocument, SubmitForReview, ApproveStore, RejectStore,
         RequestChanges, StartReview, CheckKyc, SetLocation, ApplyRate, WriteStatus,
         QueueDecision, RecordAudit, Crash, VerifyDocument, RejectDocument, DecideDocument,
         UpdateStoreByAdmin, vars
<1> QED BY <1>1, <1>2, <1>3

\* A step that leaves the status alone and takes request p to r.
LEMMA StepKeepsComplete ==
  ASSUME OnboardingInv, [Next]_vars, NEW p \in Procs, NEW r,
         status' = status, req' = [req EXCEPT ![p] = r],
         r.op = "submit" /\ r.step = "location" => AllRequiredUploaded',
         r.op = "submit" /\ r.step = "write" => Complete',
         r.op = "approve" /\ r.step \in {"kyc", "rate", "write"} => Complete',
         r.op = "approve" /\ r.step = "write" => rated',
         r.step = "write" => r.op \in {"submit", "approve", "reject"},
         r.step \in {"rate", "location"} => r.op \in {"submit", "approve"},
         r.op = "approve" => r.step # "location",
         r.op = "submit" => r.step # "rate"
  PROVE  CompleteInv' /\ RatedInv'
<1>1. /\ AllRequiredUploaded => AllRequiredUploaded'
      /\ Complete => Complete'
      /\ rated => rated'
  BY NothingIsTakenAway DEF OnboardingInv, Complete
<1>2. \A q \in Procs : req'[q] = IF q = p THEN r ELSE req[q]
  BY DEF OnboardingInv, TypeInv, TypeOK
<1>3. CompleteInv'
  BY <1>1, <1>2 DEF OnboardingInv, CompleteInv
<1>4. RatedInv'
  BY <1>1, <1>2 DEF OnboardingInv, RatedInv
<1> QED BY <1>3, <1>4

LEMMA FinishKeepsComplete ==
  ASSUME OnboardingInv, [Next]_vars, NEW p \in Procs, status' = status, Finish(p)
  PROVE  CompleteInv' /\ RatedInv'
  BY StepKeepsComplete DEF Finish, Idle

LEMMA OnboardingInvIsInductive == OnboardingInv /\ [Next]_vars => OnboardingInv'
<1> SUFFICES ASSUME OnboardingInv, [Next]_vars PROVE CompleteInv' /\ RatedInv'
  BY NextTypeInv DEF OnboardingInv
<1> DEFINE Goal == CompleteInv' /\ RatedInv'
<1>0. /\ AllRequiredUploaded => AllRequiredUploaded'
      /\ Complete => Complete'
      /\ rated => rated'
  BY NothingIsTakenAway DEF OnboardingInv, Complete
<1>1. ASSUME NEW p \in Procs, NEW t \in RequiredTypes, UploadDocument(p, t)
      PROVE  Goal
  <2>1. PICK d : req' = [req EXCEPT ![p] = [Idle EXCEPT !.step = "store", !.docType = t, !.found = d]]
    BY <1>1 DEF UploadDocument, Start
  <2>2. status' = status
    BY <1>1 DEF UploadDocument
  <2> QED BY <2>1, <2>2, StepKeepsComplete DEF Idle
<1>2. ASSUME NEW p \in Procs, StoreDocument(p) \/ RecordAudit(p) \/ Crash(p)
      PROVE  Goal
  BY <1>2, FinishKeepsComplete DEF StoreDocument, RecordAudit, Crash
<1>3. ASSUME NEW p \in Procs, SubmitForReview(p) \/ ApproveStore(p) \/ RejectStore(p) \/ RequestChanges(p)
      PROVE  Goal
  <2>1. PICK op \in Review, step \in {"kyc", "write", "queue"} :
          /\ req' = [req EXCEPT ![p] = [Idle EXCEPT !.op = op, !.step = step, !.seen = status]]
          /\ op = "approve" => status = "PENDING"
          /\ step = "write" => op = "reject"
    BY <1>3 DEF SubmitForReview, ApproveStore, RejectStore, RequestChanges, StartReview, Start, Review
  <2>2. status' = status
    BY <1>3 DEF SubmitForReview, ApproveStore, RejectStore, RequestChanges, StartReview
  <2>3. op = "approve" => Complete'
    BY <1>0, <2>1 DEF OnboardingInv, CompleteInv
  <2> QED BY <2>1, <2>2, <2>3, StepKeepsComplete DEF Idle, Review
<1>4. ASSUME NEW p \in Procs, NEW step \in {"kyc", "location", "rate", "write", "queue", "audit"},
             status' = status, Continue(p, step),
             req[p].op = "submit" /\ step = "location" => AllRequiredUploaded',
             req[p].op = "submit" /\ step = "write" => Complete',
             req[p].op = "approve" /\ step \in {"kyc", "rate", "write"} => Complete',
             req[p].op = "approve" /\ step = "write" => rated',
             step \in {"rate", "location", "write"} => req[p].op \in {"submit", "approve"},
             req[p].op = "approve" => step # "location",
             req[p].op = "submit" => step # "rate"
      PROVE  Goal
  <2> DEFINE r == [req[p] EXCEPT !.step = step]
  <2>1. r.op = req[p].op /\ r.step = step
    BY DEF OnboardingInv, TypeInv, TypeOK, Request, Idle
  <2>2. req' = [req EXCEPT ![p] = r]
    BY <1>4 DEF Continue
  <2> HIDE DEF r
  <2> QED BY <1>4, <2>1, <2>2, StepKeepsComplete
<1>5. ASSUME NEW p \in Procs, CheckKyc(p)
      PROVE  Goal
  <2>1. status' = status
    BY <1>5 DEF CheckKyc
  <2>2. CASE req[p].op = "submit" /\ AllRequiredUploaded /\ Continue(p, "location")
    BY <1>0, <1>4, <2>1, <2>2
  <2>3. CASE req[p].op = "approve" /\ Continue(p, "rate")
    <3>1. Complete'
      BY <1>0, <1>5, <2>3 DEF CheckKyc, OnboardingInv, CompleteInv
    <3> QED BY <1>4, <2>1, <2>3, <3>1
  <2>4. CASE Finish(p)
    BY <2>1, <2>4, FinishKeepsComplete
  <2> QED BY <1>5, <2>2, <2>3, <2>4 DEF CheckKyc
<1>6. ASSUME NEW p \in Procs, SetLocation(p)
      PROVE  Goal
  <2>1. status' = status
    BY <1>6 DEF SetLocation
  <2>2. CASE located' /\ Continue(p, "write")
    <3>1. req[p].op = "submit" /\ AllRequiredUploaded
      BY <1>6 DEF SetLocation, OnboardingInv, CompleteInv
    <3> QED BY <1>0, <1>4, <2>1, <2>2, <3>1 DEF Complete
  <2>3. CASE Finish(p)
    BY <2>1, <2>3, FinishKeepsComplete
  <2> QED BY <1>6, <2>2, <2>3 DEF SetLocation
<1>7. ASSUME NEW p \in Procs, ApplyRate(p)
      PROVE  Goal
  <2>1. req[p].op = "approve" /\ Complete
    BY <1>7 DEF ApplyRate, OnboardingInv, CompleteInv
  <2>2. status' = status /\ rated' /\ Continue(p, "write")
    BY <1>7 DEF ApplyRate
  <2> QED BY <1>0, <1>4, <2>1, <2>2
<1>8. ASSUME NEW p \in Procs, WriteStatus(p)
      PROVE  Goal
  <2>1. /\ req[p].op \in {"submit", "approve", "reject"}
        /\ req[p].op \in {"submit", "approve"} => Complete
        /\ req[p].op = "approve" => rated
    BY <1>8 DEF WriteStatus, OnboardingInv, CompleteInv, RatedInv
  <2>2. /\ status' = Target(req[p])
        /\ req' = [req EXCEPT ![p].step = "queue"]
    BY <1>8 DEF WriteStatus, Continue
  <2>3. /\ status' \in {"PENDING", "LIVE"} => Complete'
        /\ status' = "LIVE" => rated'
    BY <1>0, <2>1, <2>2 DEF Target
  <2>4. \A q \in Procs : /\ q # p => req'[q] = req[q]
                         /\ req'[q].op = req[q].op
                         /\ q = p => req'[q].step = "queue"
    BY <2>2 DEF OnboardingInv, TypeInv, TypeOK, Request, Idle
  <2>5. CompleteInv'
    BY <1>0, <2>3, <2>4 DEF OnboardingInv, CompleteInv
  <2>6. RatedInv'
    BY <1>0, <2>3, <2>4 DEF OnboardingInv, RatedInv
  <2> QED BY <2>5, <2>6
<1>9. ASSUME NEW p \in Procs, QueueDecision(p)
      PROVE  Goal
  BY <1>4, <1>9 DEF QueueDecision
<1>10. ASSUME UNCHANGED <<status, req>>
       PROVE  Goal
  <2>1. CompleteInv'
    BY <1>0, <1>10 DEF OnboardingInv, CompleteInv
  <2> QED BY <1>0, <1>10, <2>1 DEF OnboardingInv, RatedInv
<1> QED
  BY <1>1, <1>2, <1>3, <1>5, <1>6, <1>7, <1>8, <1>9, <1>10
  DEF Next, Handle, VerifyDocument, RejectDocument, DecideDocument, UpdateStoreByAdmin, vars

LEMMA InitOnboardingInv == Init => OnboardingInv
  BY InitTypeInv DEF Init, OnboardingInv, CompleteInv, RatedInv, Idle

\* However owner and admins race, whatever dies halfway: a store under review or LIVE
\* has every required document and a location pin.
THEOREM SubmittedStoresAreComplete == Spec => []SubmittedIsComplete
<1>1. OnboardingInv => SubmittedIsComplete
  BY DEF OnboardingInv, CompleteInv, Complete, SubmittedIsComplete
<1> QED BY <1>1, InitOnboardingInv, OnboardingInvIsInductive, PTL DEF Spec

\* However approvals race and die, a LIVE store has its commission rate.
THEOREM LiveStoresAreRated == Spec => []LiveIsRated
<1>1. OnboardingInv => LiveIsRated
  BY DEF OnboardingInv, RatedInv, LiveIsRated
<1> QED BY <1>1, InitOnboardingInv, OnboardingInvIsInductive, PTL DEF Spec

\* Both: whatever an admin or a customer gets to see of a store is backed by what it takes.
THEOREM StagesAreBacked == Spec => []StageIsBacked
<1>1. SubmittedIsComplete /\ LiveIsRated => StageIsBacked
  BY DEF StageIsBacked
<1> QED BY <1>1, SubmittedStoresAreComplete, LiveStoresAreRated, PTL

-------------------------------------------------------------------------------
(* How the status moves *)

\* An approval has seen its store PENDING.
SeenInv == \A p \in Procs : req[p].op = "approve" => req[p].seen = "PENDING"

LifeCycleInv == OnboardingInv /\ SeenInv

\* A step of LegalMoves.
Moves ==
  /\ status \in {"LIVE", "REJECTED"} => LateReviews' \subseteq LateReviews
  /\ status' # status =>
       /\ status = "REJECTED" => LateReviews' # LateReviews
       /\ status = "LIVE" => status' = "REJECTED" \/ LateReviews' # LateReviews
       /\ status' = "LIVE" =>
            \E p \in LateReviews \ LateReviews' : req[p].op = "approve" /\ req[p].seen = "PENDING"

\* What a request becomes that goes on, ends or begins while the status stays.
LEMMA StepKeepsLifeCycle ==
  ASSUME LifeCycleInv, NEW p \in Procs, NEW r, req' = [req EXCEPT ![p] = r], status' = status,
         r.op = "approve" => r.seen = "PENDING",
         status \in {"LIVE", "REJECTED"} /\ r.op \in {"submit", "approve"}
           /\ r.step \in {"kyc", "location", "rate", "write"} => p \in LateReviews
  PROVE  SeenInv' /\ Moves
<1>1. \A q \in Procs : req'[q] = IF q = p THEN r ELSE req[q]
  BY DEF LifeCycleInv, OnboardingInv, TypeInv, TypeOK
<1>2. SeenInv'
  BY <1>1 DEF LifeCycleInv, SeenInv
<1>3. status \in {"LIVE", "REJECTED"} => LateReviews' \subseteq LateReviews
  BY <1>1 DEF LateReviews
<1> QED BY <1>2, <1>3 DEF Moves

LEMMA LifeCycle == LifeCycleInv /\ [Next]_vars => LifeCycleInv' /\ Moves
<1> SUFFICES ASSUME LifeCycleInv, [Next]_vars PROVE SeenInv' /\ Moves
  BY OnboardingInvIsInductive DEF LifeCycleInv
<1>0. TypeOK /\ CompleteInv /\ SeenInv
  BY DEF LifeCycleInv, OnboardingInv, TypeInv
<1>1. ASSUME NEW p \in Procs, NEW t \in RequiredTypes, UploadDocument(p, t)
      PROVE  SeenInv' /\ Moves
  <2>1. PICK d : Start(p, [Idle EXCEPT !.step = "store", !.docType = t, !.found = d])
    BY <1>1 DEF UploadDocument
  <2> QED BY <1>1, <2>1, StepKeepsLifeCycle DEF UploadDocument, Start, Idle
<1>2. ASSUME NEW p \in Procs, Finish(p), status' = status
      PROVE  SeenInv' /\ Moves
  BY <1>2, StepKeepsLifeCycle DEF Finish, Idle
<1>3. ASSUME NEW p \in Procs, SubmitForReview(p) \/ ApproveStore(p) \/ RejectStore(p) \/ RequestChanges(p)
      PROVE  SeenInv' /\ Moves
  <2>1. PICK op \in Review, step \in {"kyc", "write", "queue"} :
          /\ StartReview(p, op, step)
          /\ op = "approve" => status = "PENDING"
          /\ op = "submit" => status \notin {"LIVE", "REJECTED"}
    BY <1>3 DEF SubmitForReview, ApproveStore, RejectStore, RequestChanges, Review
  <2>2. /\ req' = [req EXCEPT ![p] = [Idle EXCEPT !.op = op, !.step = step, !.seen = status]]
        /\ status' = status
    BY <2>1 DEF StartReview, Start
  <2> QED BY <2>1, <2>2, StepKeepsLifeCycle DEF Idle, Review
<1>4. ASSUME NEW p \in Procs, NEW step, Continue(p, step), status' = status,
             req[p].op \in {"submit", "approve"} /\ step \in {"kyc", "location", "rate", "write"}
               => p \in LateReviews
      PROVE  SeenInv' /\ Moves
  <2> DEFINE r == [req[p] EXCEPT !.step = step]
  <2>1. r.op = req[p].op /\ r.step = step /\ r.seen = req[p].seen
    BY <1>0 DEF TypeOK, Request, Idle
  <2>2. req' = [req EXCEPT ![p] = r]
    BY <1>4 DEF Continue
  <2> HIDE DEF r
  <2> QED BY <1>0, <1>4, <2>1, <2>2, StepKeepsLifeCycle DEF SeenInv
<1>5. ASSUME NEW p \in Procs, CheckKyc(p) \/ SetLocation(p) \/ ApplyRate(p)
      PROVE  SeenInv' /\ Moves
  <2>1. status' = status
    BY <1>5 DEF CheckKyc, SetLocation, ApplyRate
  <2>2. req[p].op \in {"submit", "approve"} => p \in LateReviews
    BY <1>5 DEF CheckKyc, SetLocation, ApplyRate, LateReviews
  <2>3. Finish(p) \/ \E step : Continue(p, step)
    BY <1>5 DEF CheckKyc, SetLocation, ApplyRate
  <2> QED BY <1>2, <1>4, <2>1, <2>2, <2>3
<1>6. ASSUME NEW p \in Procs, WriteStatus(p)
      PROVE  SeenInv' /\ Moves
  <2>1. /\ req[p].step = "write" /\ req[p].op \in {"submit", "approve", "reject"}
        /\ status' = Target(req[p])
    BY <1>0, <1>6 DEF WriteStatus, CompleteInv
  <2>2. \A q \in Procs : /\ q # p => req'[q] = req[q]
                         /\ req'[q].op = req[q].op
                         /\ req'[q].seen = req[q].seen
                         /\ q = p => req'[q].step = "queue"
    BY <1>0, <1>6 DEF WriteStatus, Continue, TypeOK, Request, Idle
  <2>3. SeenInv'
    BY <1>0, <2>2 DEF SeenInv
  <2>4. LateReviews' \subseteq LateReviews
    BY <2>2 DEF LateReviews
  <2>5. CASE req[p].op = "reject"
    BY <2>1, <2>3, <2>4, <2>5 DEF Target, Moves
  <2>6. CASE req[p].op \in {"submit", "approve"}
    <3>1. p \in LateReviews \ LateReviews'
      BY <2>1, <2>2, <2>6 DEF LateReviews
    <3>2. status' = "LIVE" => req[p].op = "approve" /\ req[p].seen = "PENDING"
      BY <1>0, <2>1, <2>6 DEF Target, SeenInv
    <3> QED BY <2>3, <2>4, <3>1, <3>2 DEF Moves
  <2> QED BY <2>1, <2>5, <2>6
<1>7. ASSUME NEW p \in Procs, QueueDecision(p)
      PROVE  SeenInv' /\ Moves
  BY <1>4, <1>7 DEF QueueDecision
<1>8. ASSUME NEW p \in Procs, StoreDocument(p) \/ RecordAudit(p) \/ Crash(p)
      PROVE  SeenInv' /\ Moves
  BY <1>2, <1>8 DEF StoreDocument, RecordAudit, Crash
<1>9. ASSUME UNCHANGED <<status, req>>
      PROVE  SeenInv' /\ Moves
  BY <1>0, <1>9 DEF SeenInv, Moves, LateReviews
<1> QED
  BY <1>1, <1>3, <1>5, <1>6, <1>7, <1>8, <1>9
  DEF Next, Handle, VerifyDocument, RejectDocument, DecideDocument, UpdateStoreByAdmin, vars

LEMMA InitLifeCycleInv == Init => LifeCycleInv
  BY InitOnboardingInv DEF Init, LifeCycleInv, SeenInv, Idle

\* However reviews overlap and wherever they die: only a submission or an approval that
\* began before can write over REJECTED, or over LIVE with anything but REJECTED, each of
\* them once; no other begins; and a store goes LIVE by an approval that saw it PENDING.
THEOREM StoresFollowTheirLifeCycle == Spec => LegalMoves
<1>1. Moves => /\ status \in {"LIVE", "REJECTED"} => LateReviews' \subseteq LateReviews
               /\ status' # status =>
                    /\ status = "REJECTED" => LateReviews' # LateReviews
                    /\ status = "LIVE" => status' = "REJECTED" \/ LateReviews' # LateReviews
                    /\ status' = "LIVE" =>
                         \E p \in LateReviews \ LateReviews' :
                           req[p].op = "approve" /\ req[p].seen = "PENDING"
  BY DEF Moves
<1> QED BY <1>1, LifeCycle, InitLifeCycleInv, PTL DEF Spec, LegalMoves

-------------------------------------------------------------------------------
(* What a review that meets no other leaves behind *)

\* Until somebody meets another, one at most is at work, and a review that has written the
\* status says what it is.
RecordInv ==
  ~overlapped =>
    /\ \A p, q \in Procs : req[p] # Idle /\ req[q] # Idle => p = q
    /\ \A p \in Procs : req[p].step \in {"queue", "audit"} => status = Target(req[p])

\* A step of RecordsMatchStatus.
Records ==
  ~overlapped =>
    /\ decision' # decision /\ decision' = "APPROVED" => status = "LIVE"
    /\ decision' # decision /\ decision' = "PENDING" => status = "PENDING"
    /\ audit' # audit => audit' = status

\* Who begins, or goes on, unmet by another is the only one at work.
LEMMA StepKeepsRecord ==
  ASSUME LifeCycleInv, RecordInv, NEW p \in Procs, NEW r, req' = [req EXCEPT ![p] = r],
         \/ req[p] = Idle /\ Note
         \/ req[p] # Idle /\ overlapped' = overlapped,
         ~overlapped' /\ r.step \in {"queue", "audit"} => status' = Target(r)
  PROVE  RecordInv'
<1> SUFFICES ASSUME ~overlapped' PROVE RecordInv'
  BY DEF RecordInv
<1>1. \A q \in Procs : q # p => req[q] = Idle
  BY DEF RecordInv, Note, InFlight
<1>2. \A q \in Procs : req'[q] = IF q = p THEN r ELSE Idle
  BY <1>1 DEF LifeCycleInv, OnboardingInv, TypeInv, TypeOK
<1>3. Idle.step = "idle"
  BY DEF Idle
<1>4. ASSUME NEW q \in Procs, req'[q].step \in {"queue", "audit"}
      PROVE  status' = Target(req'[q])
  BY <1>2, <1>3, <1>4
<1> QED BY <1>2, <1>4 DEF RecordInv, Target

LEMMA RecordsAreTrue ==
  ASSUME LifeCycleInv, RecordInv, [Next]_vars
  PROVE  RecordInv' /\ Records
<1>0. TypeOK
  BY DEF LifeCycleInv, OnboardingInv, TypeInv
<1>1. ASSUME NEW p \in Procs, Finish(p), req[p].step # "idle"
      PROVE  RecordInv'
  <2>1. req[p] # Idle
    BY <1>1 DEF Idle
  <2>2. Idle.step \notin {"queue", "audit"}
    BY DEF Idle
  <2> QED BY <1>1, <2>1, <2>2, StepKeepsRecord DEF Finish
<1>2. ASSUME NEW p \in Procs, NEW step, Continue(p, step), req[p].step # "idle",
             ~overlapped /\ step \in {"queue", "audit"} => status' = Target(req[p])
      PROVE  RecordInv'
  <2> DEFINE r == [req[p] EXCEPT !.step = step]
  <2>1. r.op = req[p].op /\ r.seen = req[p].seen /\ r.step = step
    BY <1>0 DEF TypeOK, Request, Idle
  <2>2. req' = [req EXCEPT ![p] = r] /\ req[p] # Idle /\ overlapped' = overlapped
    BY <1>2 DEF Continue, Idle
  <2> HIDE DEF r
  <2>3. Target(r) = Target(req[p])
    BY <2>1 DEF Target
  <2> QED BY <1>2, <2>1, <2>2, <2>3, StepKeepsRecord
<1>3. ASSUME NEW p \in Procs, \E t \in RequiredTypes : UploadDocument(p, t)
      PROVE  RecordInv' /\ Records
  <2>1. PICK t, d : Start(p, [Idle EXCEPT !.step = "store", !.docType = t, !.found = d])
    BY <1>3 DEF UploadDocument
  <2> QED BY <1>3, <2>1, StepKeepsRecord DEF Idle, Start, UploadDocument, Records
<1>4. ASSUME NEW p \in Procs, SubmitForReview(p) \/ ApproveStore(p) \/ RejectStore(p) \/ RequestChanges(p)
      PROVE  RecordInv' /\ Records
  <2>1. PICK op \in Review, step \in {"kyc", "write", "queue"} :
          /\ StartReview(p, op, step)
          /\ step = "queue" => op = "requestChanges"
    BY <1>4 DEF SubmitForReview, ApproveStore, RejectStore, RequestChanges, Review
  <2> DEFINE r == [Idle EXCEPT !.op = op, !.step = step, !.seen = status]
  <2>2. r.op = op /\ r.step = step /\ r.seen = status
    BY DEF Idle
  <2>3. /\ req[p] = Idle /\ Note /\ req' = [req EXCEPT ![p] = r]
        /\ UNCHANGED <<status, decision, audit>>
    BY <2>1 DEF StartReview, Start
  <2> HIDE DEF r
  <2>4. r.step \in {"queue", "audit"} => status' = Target(r)
    BY <2>1, <2>2, <2>3 DEF Target
  <2> QED BY <2>3, <2>4, StepKeepsRecord DEF Records
<1>5. ASSUME NEW p \in Procs, StoreDocument(p)
      PROVE  RecordInv' /\ Records
  BY <1>1, <1>5 DEF StoreDocument, Records
<1>6. ASSUME NEW p \in Procs, Crash(p)
      PROVE  RecordInv' /\ Records
  BY <1>6, StepKeepsRecord DEF Crash, Finish, Idle, Records
<1>7. ASSUME NEW p \in Procs, CheckKyc(p) \/ SetLocation(p) \/ ApplyRate(p)
      PROVE  RecordInv' /\ Records
  <2>1. req[p].step # "idle" /\ UNCHANGED <<decision, audit>>
    BY <1>7 DEF CheckKyc, SetLocation, ApplyRate
  <2>2. Finish(p) \/ \E step \in {"location", "rate", "write"} : Continue(p, step)
    BY <1>7 DEF CheckKyc, SetLocation, ApplyRate
  <2> QED BY <1>1, <1>2, <2>1, <2>2 DEF Records
<1>8. ASSUME NEW p \in Procs, WriteStatus(p)
      PROVE  RecordInv' /\ Records
  BY <1>2, <1>8 DEF WriteStatus, Records
<1>9. ASSUME NEW p \in Procs, QueueDecision(p)
      PROVE  RecordInv' /\ Records
  <2>1. /\ ~overlapped => status = Target(req[p])
        /\ status' = status /\ audit' = audit
    BY <1>9 DEF QueueDecision, RecordInv
  <2>2. req[p].op \in Review
    BY <1>0, <1>9 DEF QueueDecision, TypeOK, Request, Idle
  <2>3. Records
    BY <1>9, <2>1, <2>2 DEF QueueDecision, DecisionOf, Target, Review, Records
  <2>4. RecordInv'
    BY <1>2, <1>9, <2>1 DEF QueueDecision
  <2> QED BY <2>3, <2>4
<1>10. ASSUME NEW p \in Procs, RecordAudit(p)
       PROVE  RecordInv' /\ Records
  <2>1. /\ ~overlapped => status = Target(req[p])
        /\ decision' = decision /\ audit' = Target(req[p])
    BY <1>10 DEF RecordAudit, RecordInv
  <2>2. RecordInv'
    BY <1>1, <1>10 DEF RecordAudit
  <2> QED BY <2>1, <2>2 DEF Records
<1>11. ASSUME Note, UNCHANGED <<status, decision, audit, req>>
       PROVE  RecordInv' /\ Records
  <2>1. ~overlapped' => \A p \in Procs : req'[p] = Idle
    BY <1>11 DEF Note, InFlight
  <2> QED BY <1>11, <2>1 DEF RecordInv, Records, Idle
<1>12. CASE UNCHANGED vars
  BY <1>12 DEF RecordInv, Records, Target, vars
<1> QED
  BY <1>3, <1>4, <1>5, <1>6, <1>7, <1>8, <1>9, <1>10, <1>11, <1>12
  DEF Next, Handle, VerifyDocument, RejectDocument, DecideDocument, UpdateStoreByAdmin

\* Whatever died halfway or overlapped before: a review that meets no other writes APPROVED
\* in the queue only of a LIVE store and PENDING only of one under review, and its audit
\* row ends at the status the store has.
THEOREM RecordsFollowTheStore == Spec => RecordsMatchStatus
<1>1. Init => LifeCycleInv /\ RecordInv
  BY InitLifeCycleInv DEF Init, RecordInv, Idle
<1>2. LifeCycleInv /\ RecordInv /\ [Next]_vars => LifeCycleInv' /\ RecordInv' /\ Records
  BY LifeCycle, RecordsAreTrue
<1>3. Records => (~overlapped =>
                    /\ decision' # decision /\ decision' = "APPROVED" => status = "LIVE"
                    /\ decision' # decision /\ decision' = "PENDING" => status = "PENDING"
                    /\ audit' # audit => audit' = status)
  BY DEF Records
<1> QED BY <1>1, <1>2, <1>3, PTL DEF Spec, RecordsMatchStatus

LEMMA DecideKeepsLive ==
  ASSUME TypeOK, NEW d \in DOMAIN documents, VerifyDocument(d) \/ RejectDocument(d),
         NEW t
  PROVE  Live(t)' = Live(t)
<1>1. PICK v \in {"VERIFIED", "REJECTED"} :
        documents' = [documents EXCEPT ![d] = [documents[d] EXCEPT !.verification = v]]
  BY DEF VerifyDocument, RejectDocument, DecideDocument
<1>2. documents[d] \in Document
  BY LenProperties DEF TypeOK
<1>3. /\ [documents[d] EXCEPT !.verification = v].docType = documents[d].docType
      /\ [documents[d] EXCEPT !.verification = v].deleted = documents[d].deleted
  BY <1>2 DEF Document
<1>4. /\ DOMAIN documents' = DOMAIN documents
      /\ \A e \in DOMAIN documents : /\ documents'[e].docType = documents[e].docType
                                     /\ documents'[e].deleted = documents[e].deleted
  BY <1>1, <1>3
<1> QED BY <1>4 DEF Live

-------------------------------------------------------------------------------
(* Documents that count *)

\* Uploads of a type that have found no document of it.
Blind(t) == {p \in Procs : req[p].step = "store" /\ req[p].docType = t /\ req[p].found = NoDocument}

\* Every document of a type that counts, and every one still to be added beside it, came of
\* a request of its own; until somebody meets another, a type found empty still is.
CountInv ==
  /\ \A t \in RequiredTypes : Cardinality(Live(t)) + Cardinality(Blind(t)) <= Cardinality(Procs)
  /\ ~overlapped => \A p \in Procs : \A t \in RequiredTypes : p \in Blind(t) => Live(t) = {}

DocumentsInv == LifeCycleInv /\ RecordInv /\ CountInv

\* A step of OneDocumentPerType.
Counts ==
  \A t \in RequiredTypes :
    LET before == Cardinality(Live(t))
        after  == Cardinality(Live(t)')
    IN  /\ after <= Cardinality(Procs)
        /\ after > before /\ after > 1 => overlapped

LEMMA SetsAreFinite ==
  ASSUME TypeOK, NEW t
  PROVE  /\ IsFiniteSet(Live(t)) /\ Cardinality(Live(t)) \in Nat
         /\ IsFiniteSet(Blind(t)) /\ Cardinality(Blind(t)) \in Nat
         /\ Cardinality(Blind(t)) <= Cardinality(Procs)
         /\ Cardinality(Procs) \in Nat
<1>1. Len(documents) \in Nat /\ DOMAIN documents = 1..Len(documents)
  BY LenProperties DEF TypeOK
<1>2. IsFiniteSet(1..Len(documents))
  BY <1>1, FS_Interval
<1>3. IsFiniteSet(Live(t))
  BY <1>1, <1>2, FS_Subset DEF Live
<1>4. Blind(t) \subseteq Procs /\ IsFiniteSet(Procs)
  BY OnboardingAssumption DEF Blind
<1> QED BY <1>3, <1>4, FS_Subset, FS_CardinalityType

\* Storing a document adds it beside the others of its type only where none was found.
LEMMA StoreLive ==
  ASSUME TypeInv, NEW p \in Procs, StoreDocument(p), NEW t \in RequiredTypes
  PROVE  LET old == req[p].found
             new == Len(documents) + 1
         IN  /\ new \notin Live(t)
             /\ \/ Live(t)' = Live(t)
                \/ p \in Blind(t) /\ Live(t)' = Live(t) \cup {new}
                \/ old \in Live(t) /\ Live(t)' = (Live(t) \ {old}) \cup {new}
<1> DEFINE old == req[p].found
           type == req[p].docType
           new == Len(documents) + 1
<1>1. /\ TypeOK /\ documents \in Seq(Document) /\ type \in RequiredTypes
      /\ req[p].step = "store"
  BY DEF StoreDocument, TypeInv, TypeOK, Request, Idle
<1>2. Len(documents) \in Nat /\ DOMAIN documents = 1..Len(documents)
  BY <1>1, LenProperties
<1>3. new \notin Live(t)
  BY <1>2 DEF Live
<1>4. NewDocument(type) \in Document
  BY <1>1 DEF NewDocument, Document
<1>5. CASE old = NoDocument
  <2>1. /\ documents' \in Seq(Document) /\ Len(documents') = new
        /\ \A d \in 1..Len(documents) : documents'[d] = documents[d]
        /\ documents'[new] = NewDocument(type)
    BY <1>1, <1>4, <1>5, AppendProperties DEF StoreDocument
  <2>2. DOMAIN documents' = 1..new
    BY <2>1, LenProperties
  <2>3. t = type => Live(t)' = Live(t) \cup {new}
    BY <1>2, <2>1, <2>2 DEF Live, NewDocument
  <2>4. t # type => Live(t)' = Live(t)
    BY <1>2, <2>1, <2>2 DEF Live, NewDocument
  <2>5. p \in Blind(type)
    BY <1>1, <1>5 DEF Blind
  <2> QED BY <1>3, <2>3, <2>4, <2>5
<1>6. CASE old # NoDocument /\ ~documents[old].deleted
  <2> DEFINE row == [documents[old] EXCEPT !.deleted = TRUE]
             docs == [documents EXCEPT ![old] = row]
  <2>1. /\ old \in 1..Len(documents) /\ documents[old] \in Document
        /\ documents[old].docType = type
    BY <1>1, <1>2, <1>6 DEF TypeInv, FoundInv
  <2>2. row \in Document /\ row.docType = type /\ row.deleted
    BY <2>1 DEF Document
  <2>3. documents' = Append(docs, NewDocument(type))
    BY <1>6 DEF StoreDocument
  <2> HIDE DEF row
  <2>4. /\ docs \in Seq(Document) /\ Len(docs) = Len(documents)
        /\ \A d \in 1..Len(documents) : docs[d] = IF d = old THEN row ELSE documents[d]
    BY <1>1, <2>1, <2>2, ExceptSeq
  <2> HIDE DEF docs
  <2>5. /\ documents' \in Seq(Document) /\ Len(documents') = new
        /\ \A d \in 1..Len(documents) : documents'[d] = docs[d]
        /\ documents'[new] = NewDocument(type)
    BY <1>4, <2>3, <2>4, AppendProperties
  <2>6. DOMAIN documents' = 1..new
    BY <2>5, LenProperties
  <2>7. old \in Live(type)
    BY <1>2, <1>6, <2>1 DEF Live
  <2> HIDE DEF type, old
  <2>8. \A d \in 1..Len(documents) : documents'[d] = IF d = old THEN row ELSE documents[d]
    BY <2>4, <2>5
  <2>9. t = type => Live(t)' = (Live(t) \ {old}) \cup {new}
    BY <1>2, <2>1, <2>2, <2>5, <2>6, <2>8 DEF Live, NewDocument
  <2>10. t # type => Live(t)' = Live(t)
    BY <1>2, <2>1, <2>2, <2>5, <2>6, <2>8 DEF Live, NewDocument
  <2> QED BY <1>3, <2>7, <2>9, <2>10 DEF old
<1>7. CASE UNCHANGED documents
  BY <1>3, <1>7 DEF Live
<1> QED BY <1>5, <1>6, <1>7 DEF StoreDocument

\* What counts, or may still be added, stays within the number of requests.
LEMMA StoreCounts ==
  ASSUME DocumentsInv, NEW p \in Procs, StoreDocument(p)
  PROVE  CountInv' /\ Counts
<1>0. TypeInv /\ TypeOK /\ TypeOK' /\ CountInv
  BY NextTypeOK DEF DocumentsInv, LifeCycleInv, OnboardingInv, TypeInv, Next, Handle
<1>1. \A q \in Procs : req'[q] = IF q = p THEN Idle ELSE req[q]
  BY <1>0 DEF StoreDocument, Finish, TypeOK
<1>2. overlapped' = overlapped
  BY DEF StoreDocument, Finish
<1>3. \A t : Blind(t)' = Blind(t) \ {p}
  BY <1>1 DEF Blind, Idle
<1>4. ASSUME NEW t \in RequiredTypes
      PROVE  /\ Cardinality(Live(t)') + Cardinality(Blind(t)') <= Cardinality(Procs)
             /\ Cardinality(Live(t)') <= Cardinality(Procs)
             /\ Cardinality(Live(t)') > Cardinality(Live(t)) /\ Cardinality(Live(t)') > 1
                  => overlapped
             /\ ~overlapped => \A q \in Procs : q \in Blind(t)' => Live(t)' = {}
  <2> DEFINE old == req[p].found
             new == Len(documents) + 1
  <2>1. /\ IsFiniteSet(Live(t)) /\ Cardinality(Live(t)) \in Nat
        /\ IsFiniteSet(Blind(t)) /\ Cardinality(Blind(t)) \in Nat
        /\ Cardinality(Procs) \in Nat
        /\ Cardinality(Live(t)) + Cardinality(Blind(t)) <= Cardinality(Procs)
    BY <1>0, SetsAreFinite DEF CountInv
  <2>2. /\ new \notin Live(t)
        /\ \/ Live(t)' = Live(t)
           \/ p \in Blind(t) /\ Live(t)' = Live(t) \cup {new}
           \/ old \in Live(t) /\ Live(t)' = (Live(t) \ {old}) \cup {new}
    BY <1>0, StoreLive
  <2>3. Cardinality(Blind(t)') = IF p \in Blind(t) THEN Cardinality(Blind(t)) - 1
                                                  ELSE Cardinality(Blind(t))
    BY <1>3, <2>1, FS_RemoveElement
  <2>8. Cardinality(Blind(t)') \in Nat
    BY <1>3, <2>1, FS_Subset, FS_CardinalityType
  <2>4. ~overlapped => Blind(t)' = {}
    <3> SUFFICES ASSUME ~overlapped, NEW q \in Blind(t)' PROVE FALSE
      OBVIOUS
    <3>1. q \in Procs /\ q # p /\ req[q] # Idle /\ req[p] # Idle
      BY <1>3 DEF Blind, Idle, StoreDocument
    <3> QED BY <3>1 DEF DocumentsInv, RecordInv
  <2>5. CASE Live(t)' = Live(t)
    BY <2>1, <2>3, <2>4, <2>5
  <2>6. CASE p \in Blind(t) /\ Live(t)' = Live(t) \cup {new}
    <3>1. Cardinality(Live(t)') = Cardinality(Live(t)) + 1
      BY <2>1, <2>2, <2>6, FS_AddElement
    <3>2. ~overlapped => Cardinality(Live(t)) = 0
      BY <1>0, <2>6, FS_EmptySet DEF CountInv
    <3>3. /\ Cardinality(Live(t)') + Cardinality(Blind(t)') <= Cardinality(Procs)
          /\ Cardinality(Live(t)') <= Cardinality(Procs)
      BY <2>1, <2>3, <2>6, <2>8, <3>1
    <3>4. Cardinality(Live(t)') > 1 => overlapped
      BY <2>1, <3>1, <3>2
    <3> QED BY <2>4, <3>3, <3>4
  <2>7. CASE old \in Live(t) /\ Live(t)' = (Live(t) \ {old}) \cup {new}
    <3>1. /\ IsFiniteSet(Live(t) \ {old})
          /\ Cardinality(Live(t) \ {old}) = Cardinality(Live(t)) - 1
      BY <2>1, <2>7, FS_RemoveElement
    <3>2. Cardinality(Live(t)') = Cardinality(Live(t) \ {old}) + 1
      BY <2>2, <2>7, <3>1, FS_AddElement
    <3> QED BY <2>1, <2>3, <2>4, <3>1, <3>2
  <2> QED BY <2>2, <2>5, <2>6, <2>7
<1>5. CountInv'
  BY <1>2, <1>4 DEF CountInv
<1> QED BY <1>4, <1>5 DEF Counts

\* No other step adds a document that counts.
LEMMA OthersKeepLive ==
  ASSUME TypeOK, [Next]_vars, \A p \in Procs : ~StoreDocument(p), NEW t
  PROVE  Live(t)' = Live(t)
<1>1. ASSUME UNCHANGED documents
      PROVE  Live(t)' = Live(t)
  BY <1>1 DEF Live
<1>2. ASSUME NEW p \in Procs, Handle(p)
      PROVE  UNCHANGED documents
  BY <1>2 DEF Handle, UploadDocument, SubmitForReview, ApproveStore, RejectStore, RequestChanges,
              StartReview, CheckKyc, SetLocation, ApplyRate, WriteStatus, QueueDecision,
              RecordAudit, Crash
<1>3. CASE UpdateStoreByAdmin \/ UNCHANGED vars
  BY <1>1, <1>3 DEF UpdateStoreByAdmin, vars
<1> QED BY <1>1, <1>2, <1>3, DecideKeepsLive DEF Next

\* Requests that go on or end add no blind upload; the counts stay.
LEMMA SameLiveCounts ==
  ASSUME TypeOK, TypeOK', CountInv, \A t : Live(t)' = Live(t),
         NEW t \in RequiredTypes, Blind(t)' \subseteq Blind(t)
  PROVE  Cardinality(Live(t)') + Cardinality(Blind(t)') <= Cardinality(Procs)
<1>1. /\ Cardinality(Live(t)) \in Nat /\ IsFiniteSet(Blind(t)) /\ Cardinality(Blind(t)) \in Nat
      /\ Cardinality(Procs) \in Nat
      /\ Cardinality(Live(t)) + Cardinality(Blind(t)) <= Cardinality(Procs)
  BY SetsAreFinite DEF CountInv
<1>2. Cardinality(Blind(t)') <= Cardinality(Blind(t)) /\ Cardinality(Blind(t)') \in Nat
  BY <1>1, FS_Subset, FS_CardinalityType
<1> QED BY <1>1, <1>2

LEMMA OthersCount ==
  ASSUME DocumentsInv, [Next]_vars, \A p \in Procs : ~StoreDocument(p)
  PROVE  CountInv' /\ Counts
<1>0. TypeOK /\ TypeOK' /\ CountInv
  BY NextTypeOK DEF DocumentsInv, LifeCycleInv, OnboardingInv, TypeInv
<1>1. \A t : Live(t)' = Live(t)
  BY <1>0, OthersKeepLive
<1>2. Counts
  <2>1. \A t \in RequiredTypes : Cardinality(Live(t)) \in Nat /\ Cardinality(Live(t)) <= Cardinality(Procs)
    BY <1>0, SetsAreFinite DEF CountInv
  <2> QED BY <1>1, <2>1 DEF Counts
<1>3. ASSUME \A t \in RequiredTypes : Blind(t)' \subseteq Blind(t), overlapped' = overlapped \/ Note
      PROVE  CountInv'
  <2>1. \A t \in RequiredTypes :
          Cardinality(Live(t)') + Cardinality(Blind(t)') <= Cardinality(Procs)
    BY <1>0, <1>1, <1>3, SameLiveCounts
  <2>2. ASSUME ~overlapped', NEW p \in Procs, NEW t \in RequiredTypes, p \in Blind(t)'
        PROVE  Live(t)' = {}
    <3>1. p \in Blind(t) /\ p \in InFlight
      BY <1>3, <2>2 DEF Blind, InFlight, Idle
    <3>2. ~Note
      BY <2>2, <3>1 DEF Note
    <3> QED BY <1>0, <1>1, <1>3, <2>2, <3>1, <3>2 DEF CountInv
  <2> QED BY <2>1, <2>2 DEF CountInv
<1>4. ASSUME NEW p \in Procs, NEW type \in RequiredTypes, UploadDocument(p, type)
      PROVE  CountInv'
  <2>1. PICK d \in IF Live(type) = {} THEN {NoDocument} ELSE Live(type) :
          Start(p, [Idle EXCEPT !.step = "store", !.docType = type, !.found = d])
    BY <1>4 DEF UploadDocument
  <2>2. d = NoDocument => Live(type) = {}
    <3>1. NoDocument \notin Live(type)
      BY <1>0, LenProperties DEF Live, NoDocument, TypeOK
    <3> QED BY <3>1
  <2>3. \A q \in Procs : /\ q # p => req'[q] = req[q]
                         /\ q = p => req'[q].docType = type /\ req'[q].found = d
    BY <1>0, <2>1 DEF Start, TypeOK, Idle
  <2>4. ASSUME NEW t \in RequiredTypes
        PROVE  Cardinality(Live(t)') + Cardinality(Blind(t)') <= Cardinality(Procs)
    <3>1. CASE t = type /\ d = NoDocument
      <4>1. Cardinality(Live(t)') = 0
        BY <1>1, <2>2, <3>1, FS_EmptySet
      <4>2. Blind(t)' \subseteq Procs
        BY DEF Blind
      <4>3. /\ Cardinality(Blind(t)') \in Nat
            /\ Cardinality(Blind(t)') <= Cardinality(Procs)
        BY <4>2, OnboardingAssumption, FS_Subset, FS_CardinalityType
      <4> QED BY <4>1, <4>3
    <3>2. CASE ~(t = type /\ d = NoDocument)
      <4>1. Blind(t)' \subseteq Blind(t)
        BY <2>3, <3>2 DEF Blind
      <4> QED BY <1>0, <1>1, <4>1, SameLiveCounts
    <3> QED BY <3>1, <3>2
  <2>5. ASSUME ~overlapped', NEW q \in Procs, NEW t \in RequiredTypes, q \in Blind(t)'
        PROVE  Live(t)' = {}
    <3>1. q = p
      <4>1. InFlight = {}
        BY <2>1, <2>5 DEF Start, Note
      <4>2. req[q] = Idle
        BY <4>1 DEF InFlight
      <4> QED BY <2>3, <2>5, <4>2 DEF Blind, Idle
    <3> QED BY <1>1, <2>2, <2>3, <2>5, <3>1 DEF Blind
  <2> QED BY <2>4, <2>5 DEF CountInv
<1>5. ASSUME NEW p \in Procs, NEW r, req' = [req EXCEPT ![p] = r],
             r.step = "store" => r = req[p], overlapped' = overlapped \/ Note
      PROVE  CountInv'
  <2>1. \A q \in Procs : req'[q] = IF q = p THEN r ELSE req[q]
    BY <1>0, <1>5 DEF TypeOK
  <2>2. \A t : Blind(t)' \subseteq Blind(t)
    BY <1>5, <2>1 DEF Blind
  <2> QED BY <1>3, <1>5, <2>2
<1>6. ASSUME NEW p \in Procs, Finish(p)
      PROVE  CountInv'
  BY <1>5, <1>6 DEF Finish, Idle
<1>7. ASSUME NEW p \in Procs, NEW step, step # "store", Continue(p, step)
      PROVE  CountInv'
  <2>1. [req[p] EXCEPT !.step = step].step = step
    BY <1>0 DEF TypeOK, Request, Idle
  <2> QED BY <1>5, <1>7, <2>1 DEF Continue
<1>8. ASSUME NEW p \in Procs, NEW op, NEW step, step # "store", StartReview(p, op, step)
      PROVE  CountInv'
  BY <1>5, <1>8 DEF StartReview, Start, Idle
<1>9. ASSUME NEW p \in Procs, Handle(p)
      PROVE  CountInv'
  BY <1>4, <1>6, <1>7, <1>8, <1>9
  DEF Handle, SubmitForReview, ApproveStore, RejectStore, RequestChanges, CheckKyc, SetLocation,
      ApplyRate, WriteStatus, QueueDecision, RecordAudit, Crash
<1>10. ASSUME UNCHANGED req, overlapped' = overlapped \/ Note
       PROVE  CountInv'
  BY <1>3, <1>10 DEF Blind
<1>11. CountInv'
  BY <1>9, <1>10
  DEF Next, VerifyDocument, RejectDocument, DecideDocument, UpdateStoreByAdmin, vars
<1> QED BY <1>2, <1>11

\* However uploads overlap and wherever they die: never more documents of a type count than
\* there are requests at a time, and an upload adds one beside another only if it met
\* somebody: it deletes what it has found in the transaction that stores the new one.
THEOREM OneDocumentCounts == Spec => OneDocumentPerType
<1>1. Init => DocumentsInv
  <2>1. ASSUME Init, NEW t \in RequiredTypes
        PROVE  Live(t) = {} /\ Blind(t) = {}
    BY <2>1 DEF Init, Live, Blind, Idle
  <2>2. Cardinality(Procs) \in Nat /\ Cardinality({}) = 0
    BY OnboardingAssumption, FS_CardinalityType, FS_EmptySet
  <2>3. Init => CountInv
    BY <2>1, <2>2 DEF CountInv
  <2>4. Init => RecordInv
    BY DEF Init, RecordInv, Idle
  <2> QED BY <2>3, <2>4, InitLifeCycleInv DEF DocumentsInv
<1>2. DocumentsInv /\ [Next]_vars => DocumentsInv' /\ Counts
  <2>1. DocumentsInv /\ [Next]_vars => CountInv' /\ Counts
    BY StoreCounts, OthersCount
  <2> QED BY <2>1, LifeCycle, RecordsAreTrue DEF DocumentsInv
<1>3. Counts => \A t \in RequiredTypes :
                  LET before == Cardinality(Live(t))
                      after  == Cardinality(Live(t)')
                  IN  /\ after <= Cardinality(Procs)
                      /\ after > before /\ after > 1 => overlapped
  BY DEF Counts
<1> QED BY <1>1, <1>2, <1>3, PTL DEF Spec, OneDocumentPerType
===============================================================================

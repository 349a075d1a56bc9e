---------------------------- MODULE IdentityProofs ----------------------------
(***************************************************************************)
(* What holds of the sign-in for every number of requests at a time, every *)
(* limit and every limiter, with requests dying anywhere.                  *)
(***************************************************************************)
EXTENDS Identity, FiniteSetTheorems, SequenceTheorems, TLAPS

-------------------------------------------------------------------------------
(* Types *)

\* A change of the attempts or a flag of one OTP.
LEMMA OtpChange ==
  ASSUME TypeOK, NEW f, DOMAIN f = DOMAIN otps, f = [o \in DOMAIN otps |-> f[o]],
         \A o \in DOMAIN otps : f[o] \in Otp
  PROVE  f \in Seq(Otp) /\ Len(f) = Len(otps)
  <1>1. Len(otps) \in Nat /\ DOMAIN otps = 1..Len(otps)
    BY LenProperties DEF TypeOK
  <1>2. f \in [1..Len(otps) -> Otp]
    BY <1>1
  <1>3. f \in Seq(Otp)
    BY <1>1, <1>2
  <1> QED BY <1>1, <1>2, <1>3

\* The rows' fields.
Limiter == [kind : Limiters, count : Nat, expiring : BOOLEAN]
User == [role : Role, blocked : BOOLEAN]

LEMMA RowTypes ==
  ASSUME NEW b \in BOOLEAN, NEW n \in Nat
  PROVE  /\ \A o \in Otp : /\ [o EXCEPT !.attempts = n] \in Otp
                           /\ [o EXCEPT !.verified = b] \in Otp
                           /\ [o EXCEPT !.expired = b] \in Otp
         /\ \A l \in Limiter : /\ [l EXCEPT !.count = n] \in Limiter
                               /\ [l EXCEPT !.expiring = b] \in Limiter
                               /\ [l EXCEPT !.count = n, !.expiring = b] \in Limiter
         /\ \A k \in Limiters : [kind |-> k, count |-> n, expiring |-> b] \in Limiter
         /\ \A r \in Role : [role |-> r, blocked |-> b] \in User
         /\ \A x \in Session : [x EXCEPT !.revoked = b] \in Session
  BY DEF Otp, Limiter, User, Session

LEMMA IdleType == Idle \in Request /\ Idle.otp = NoOtp /\ Idle.session = NoSession
  BY DEF Idle, Request, Step, Role, NoOtp, NoSession

\* What a request knows exists.
ReqOK ==
  /\ req \in [Procs -> Request]
  /\ \A p \in Procs : req[p].otp \in {NoOtp} \cup DOMAIN otps
  /\ \A p \in Procs : req[p].session \in {NoSession} \cup DOMAIN sessions

LEMMA RequestChange ==
  ASSUME ReqOK, NEW p \in Procs, NEW r \in Request, req' = [req EXCEPT ![p] = r],
         r.otp \in {NoOtp} \cup DOMAIN otps', r.session \in {NoSession} \cup DOMAIN sessions',
         DOMAIN otps \subseteq DOMAIN otps', DOMAIN sessions \subseteq DOMAIN sessions'
  PROVE  ReqOK'
  BY DEF ReqOK

\* A request takes its next step, or ends, and no row goes.
LEMMA GotoKeepsReq ==
  ASSUME ReqOK, NEW p \in Procs, NEW s \in Step, Goto(p, s) \/ Finish(p),
         DOMAIN otps \subseteq DOMAIN otps', DOMAIN sessions \subseteq DOMAIN sessions'
  PROVE  ReqOK'
  <1>1. CASE Goto(p, s)
    <2> DEFINE r == [req[p] EXCEPT !.step = s]
    <2>1. req[p] \in Request
      BY DEF ReqOK
    <2>2. r \in Request /\ r.otp = req[p].otp /\ r.session = req[p].session
      BY <2>1 DEF Request
    <2>3. req' = [req EXCEPT ![p] = r]
      BY <1>1 DEF Goto
    <2>4. r.otp \in {NoOtp} \cup DOMAIN otps' /\ r.session \in {NoSession} \cup DOMAIN sessions'
      BY <2>2 DEF ReqOK
    <2> HIDE DEF r
    <2> QED BY <2>2, <2>3, <2>4, RequestChange
  <1>2. CASE Finish(p)
    BY <1>2, IdleType, RequestChange DEF Finish
  <1> QED BY <1>1, <1>2

\* The empty tables have their types.
THEOREM InitialTypes == Init => TypeOK
  <1> SUFFICES ASSUME Init PROVE TypeOK
    OBVIOUS
  <1>1. otps \in Seq(Otp) /\ sessions \in Seq(Session) /\ DOMAIN otps = {} /\ DOMAIN sessions = {}
    BY EmptySeq DEF Init
  <1>2. user \in [role : Role, blocked : BOOLEAN]
    BY IdentityAssumption DEF Init, Role
  <1>3. limiter \in [kind : Limiters, count : Nat, expiring : BOOLEAN]
    <2>1. limiter \in [kind : Limiters, count : {0}, expiring : {FALSE}]
      BY DEF Init
    <2>2. PICK k \in Limiters : limiter = [kind |-> k, count |-> 0, expiring |-> FALSE]
      BY <2>1
    <2> QED BY <2>2, RowTypes DEF Limiter
  <1>4. cookie \in [Portals -> {NoSession} \cup DOMAIN sessions]
    BY DEF Init
  <1>5. req = [p \in Procs |-> Idle]
    BY DEF Init
  <1> QED BY <1>1, <1>2, <1>3, <1>4, <1>5, IdleType DEF TypeOK

LEMMA RequestingKeepsTypes ==
  ASSUME TypeOK, NEW p \in Procs,
         RecordInMemory(p) \/ ReadCount(p) \/ IncrementCount(p) \/ SetExpiry(p) \/ CreateOtp(p)
  PROVE  TypeOK'
  <1>1. CASE RecordInMemory(p) \/ ReadCount(p) \/ IncrementCount(p) \/ SetExpiry(p)
    <2>1. UNCHANGED <<otps, user, sessions, cookie>>
      BY <1>1 DEF RecordInMemory, ReadCount, IncrementCount, SetExpiry
    <2>2. limiter' \in [kind : Limiters, count : Nat, expiring : BOOLEAN]
      <3>1. CASE RecordInMemory(p)
        <4> DEFINE n == limiter.count + 1
        <4>1. n \in Nat /\ limiter \in Limiter
          BY DEF TypeOK, Limiter
        <4>2. limiter' = [limiter EXCEPT !.count = n, !.expiring = TRUE]
          BY <3>1 DEF RecordInMemory
        <4> HIDE DEF n
        <4>3. limiter' \in Limiter
          BY <4>1, <4>2, RowTypes
        <4> QED BY <4>3 DEF Limiter
      <3>2. CASE ReadCount(p)
        BY <3>2 DEF ReadCount, TypeOK
      <3>3. CASE IncrementCount(p)
        BY <3>3 DEF IncrementCount, TypeOK
      <3>4. CASE SetExpiry(p)
        <4> DEFINE counted == limiter.count > 0
        <4>1. limiter' = [limiter EXCEPT !.expiring = counted]
          BY <3>4 DEF SetExpiry
        <4>2. counted = TRUE \/ counted = FALSE
          OBVIOUS
        <4> HIDE DEF counted
        <4>3. counted \in BOOLEAN
          BY <4>2
        <4> QED BY <4>1, <4>3, RowTypes DEF TypeOK, Limiter
      <3> QED BY <1>1, <3>1, <3>2, <3>3, <3>4
    <2>3. PICK s \in Step : Goto(p, s)
      BY <1>1 DEF RecordInMemory, ReadCount, IncrementCount, SetExpiry, Step
    <2>4. ReqOK'
      BY <2>1, <2>3, GotoKeepsReq DEF TypeOK, ReqOK
    <2> QED BY <2>1, <2>2, <2>4 DEF TypeOK, ReqOK
  <1>2. CASE CreateOtp(p)
    <2>1. otps' = Append(otps, NewOtp) /\ Finish(p) /\ UNCHANGED <<user, sessions, limiter, cookie>>
      BY <1>2 DEF CreateOtp
    <2>2. NewOtp \in Otp
      BY DEF NewOtp, Otp
    <2>3. otps' \in Seq(Otp) /\ DOMAIN otps \subseteq DOMAIN otps'
      BY <2>1, <2>2 DEF TypeOK
    <2>4. "idle" \in Step
      BY DEF Step
    <2>5. ReqOK'
      BY <2>1, <2>3, <2>4, GotoKeepsReq DEF TypeOK, ReqOK
    <2> QED BY <2>1, <2>3, <2>5 DEF TypeOK, ReqOK
  <1> QED BY <1>1, <1>2

LEMMA VerifyingKeepsTypes ==
  ASSUME TypeOK, NEW p \in Procs,
         \/ FindOtp(p) \/ CountAttempt(p) \/ \E right \in BOOLEAN : CompareAndMark(p, right)
         \/ FindUser(p) \/ CreateUser(p)
  PROVE  TypeOK'
  <1>0. /\ ReqOK /\ "idle" \in Step
        /\ \A o \in DOMAIN otps : otps[o] \in Otp
        /\ otps = [o \in DOMAIN otps |-> otps[o]]
    <2>1. otps \in [1..Len(otps) -> Otp]
      BY LenProperties DEF TypeOK
    <2> QED BY <2>1 DEF TypeOK, ReqOK, Step
  <1>1. CASE FindOtp(p)
    <2>1. UNCHANGED <<otps, user, sessions, limiter, cookie>>
      BY <1>1 DEF FindOtp
    <2>2. PICK o \in DOMAIN otps : req' = [req EXCEPT ![p] = [Idle EXCEPT !.step = "count", !.otp = o]]
      BY <1>1 DEF FindOtp, Newest, Pending
    <2> DEFINE r == [Idle EXCEPT !.step = "count", !.otp = o]
    <2>3. o \in Nat
      BY LenProperties DEF TypeOK
    <2>4. r \in Request /\ r.otp = o /\ r.session = NoSession
      BY <2>3, IdleType DEF Request, Step
    <2> HIDE DEF r
    <2>5. ReqOK'
      BY <1>0, <2>1, <2>2, <2>4, RequestChange DEF r
    <2> QED BY <2>1, <2>5 DEF TypeOK, ReqOK
  <1>2. CASE CountAttempt(p)
    <2>1. /\ otps' = [otps EXCEPT ![req[p].otp].attempts = @ + 1]
          /\ Goto(p, "compare") /\ UNCHANGED <<user, sessions, limiter, cookie>>
      BY <1>2 DEF CountAttempt
    <2>2. /\ DOMAIN otps' = DOMAIN otps /\ otps' = [o \in DOMAIN otps |-> otps'[o]]
          /\ \A o \in DOMAIN otps : otps'[o] \in Otp
      <3>1. \A o \in Otp : [o EXCEPT !.attempts = @ + 1] \in Otp
        BY DEF Otp
      <3>2. otps' = [o \in DOMAIN otps |->
              IF o = req[p].otp THEN [otps[o] EXCEPT !.attempts = @ + 1] ELSE otps[o]]
        BY <1>0, <2>1
      <3> QED BY <1>0, <3>1, <3>2
    <2>3. otps' \in Seq(Otp)
      BY <2>2, OtpChange
    <2>4. ReqOK'
      BY <1>0, <2>1, <2>2, GotoKeepsReq DEF Step
    <2> QED BY <2>1, <2>2, <2>3, <2>4 DEF TypeOK, ReqOK
  <1>3. CASE \E right \in BOOLEAN : CompareAndMark(p, right)
    <2>1. /\ otps' = otps \/ otps' = [otps EXCEPT ![req[p].otp].verified = TRUE]
          /\ Goto(p, "findUser") \/ Finish(p)
          /\ UNCHANGED <<user, sessions, limiter, cookie>>
      BY <1>3 DEF CompareAndMark
    <2>2. /\ DOMAIN otps' = DOMAIN otps /\ otps' = [o \in DOMAIN otps |-> otps'[o]]
          /\ \A o \in DOMAIN otps : otps'[o] \in Otp
      <3>1. \A o \in Otp : [o EXCEPT !.verified = TRUE] \in Otp
        BY RowTypes
      <3>2. CASE otps' = [otps EXCEPT ![req[p].otp].verified = TRUE]
        <4>1. otps' = [o \in DOMAIN otps |->
                IF o = req[p].otp THEN [otps[o] EXCEPT !.verified = TRUE] ELSE otps[o]]
          BY <1>0, <3>2
        <4> QED BY <1>0, <3>1, <4>1
      <3>3. CASE otps' = otps
        BY <1>0, <3>3
      <3> QED BY <2>1, <3>2, <3>3
    <2>3. otps' \in Seq(Otp)
      BY <2>2, OtpChange
    <2>4. ReqOK'
      BY <1>0, <2>1, <2>2, GotoKeepsReq DEF Step
    <2> QED BY <2>1, <2>2, <2>3, <2>4 DEF TypeOK, ReqOK
  <1>4. CASE FindUser(p)
    <2>1. UNCHANGED <<otps, user, sessions, limiter, cookie>>
      BY <1>4 DEF FindUser
    <2>2. CASE Goto(p, "createUser") \/ Finish(p)
      <3>1. ReqOK'
        BY <1>0, <2>1, <2>2, GotoKeepsReq DEF Step
      <3> QED BY <2>1, <3>1 DEF TypeOK, ReqOK
    <2>3. CASE req' = [req EXCEPT ![p].step = "openSession", ![p].role = user.role]
      <3> DEFINE r == [req[p] EXCEPT !.step = "openSession", !.role = user.role]
      <3>1. r \in Request /\ r.otp = req[p].otp /\ r.session = req[p].session
        BY DEF TypeOK, Request, Step
      <3>2. req' = [req EXCEPT ![p] = r]
        BY <2>3
      <3> HIDE DEF r
      <3>3. ReqOK'
        BY <1>0, <2>1, <3>1, <3>2, RequestChange DEF ReqOK
      <3> QED BY <2>1, <3>3 DEF TypeOK, ReqOK
    <2> QED BY <1>4, <2>2, <2>3 DEF FindUser
  <1>5. CASE CreateUser(p)
    <2>1. UNCHANGED <<otps, sessions, limiter, cookie>>
      BY <1>5 DEF CreateUser
    <2>4. user' = user \/ user' = [role |-> "CUSTOMER", blocked |-> FALSE]
      BY <1>5 DEF CreateUser
    <2>5. user' \in [role : Role, blocked : BOOLEAN]
      BY <2>4, RowTypes DEF TypeOK, Role, User
    <2>2. CASE Finish(p)
      <3>1. ReqOK'
        BY <1>0, <2>1, <2>2, GotoKeepsReq
      <3> QED BY <2>1, <2>5, <3>1 DEF TypeOK, ReqOK
    <2>3. CASE req' = [req EXCEPT ![p].step = "openSession", ![p].role = "CUSTOMER"]
      <3> DEFINE r == [req[p] EXCEPT !.step = "openSession", !.role = "CUSTOMER"]
      <3>1. r \in Request /\ r.otp = req[p].otp /\ r.session = req[p].session
        BY DEF TypeOK, Request, Step, Role
      <3>2. req' = [req EXCEPT ![p] = r]
        BY <2>3
      <3> HIDE DEF r
      <3>3. ReqOK'
        BY <1>0, <2>1, <3>1, <3>2, RequestChange DEF ReqOK
      <3> QED BY <2>1, <2>5, <3>3 DEF TypeOK, ReqOK
    <2> QED BY <1>5, <2>2, <2>3 DEF CreateUser
  <1> QED BY <1>1, <1>2, <1>3, <1>4, <1>5

LEMMA SessionKeepsTypes ==
  ASSUME TypeOK, NEW p \in Procs, OpenSession(p) \/ \E w \in Portals : Answer(p, w)
  PROVE  TypeOK'
  <1>0. ReqOK /\ "idle" \in Step /\ Len(sessions) \in Nat
    BY LenProperties DEF TypeOK, ReqOK, Step
  <1>1. CASE OpenSession(p)
    <2> DEFINE row == [otp |-> req[p].otp, role |-> req[p].role, revoked |-> FALSE]
               r == [req[p] EXCEPT !.step = "answer", !.session = Len(sessions) + 1]
    <2>1. UNCHANGED <<otps, user, limiter, cookie>>
      BY <1>1 DEF OpenSession
    <2>2. sessions' = Append(sessions, row)
      BY <1>1 DEF OpenSession
    <2>3. req[p] \in Request
      BY DEF TypeOK
    <2>4. row \in Session
      BY <2>3 DEF Session, Request
    <2>5. req' = [req EXCEPT ![p] = r]
      BY <1>1 DEF OpenSession
    <2>6. r \in Request /\ r.otp = req[p].otp /\ r.session = Len(sessions) + 1
      <3> DEFINE n == Len(sessions) + 1
      <3>1. n \in Nat /\ "answer" \in Step
        BY <1>0 DEF Step
      <3> HIDE DEF n
      <3>2. [req[p] EXCEPT !.step = "answer", !.session = n] \in Request
        BY <2>3, <3>1 DEF Request
      <3> QED BY <2>3, <3>2 DEF n, Request
    <2> HIDE DEF row, r
    <2>7. /\ sessions' \in Seq(Session) /\ DOMAIN sessions \subseteq DOMAIN sessions'
          /\ Len(sessions) + 1 \in DOMAIN sessions'
      BY <2>2, <2>4 DEF TypeOK
    <2>8. ReqOK'
      BY <1>0, <2>1, <2>5, <2>6, <2>7, RequestChange DEF ReqOK
    <2> QED BY <2>1, <2>7, <2>8 DEF TypeOK, ReqOK
  <1>2. ASSUME NEW w \in Portals, Answer(p, w)
        PROVE  TypeOK'
    <2>1. /\ Finish(p) /\ UNCHANGED <<otps, user, sessions, limiter>>
          /\ cookie' = cookie \/ cookie' = [cookie EXCEPT ![w] = req[p].session]
      BY <1>2 DEF Answer
    <2>2. ReqOK'
      BY <1>0, <2>1, GotoKeepsReq
    <2>3. cookie' \in [Portals -> {NoSession} \cup DOMAIN sessions]
      BY <2>1 DEF TypeOK
    <2> QED BY <2>1, <2>2, <2>3 DEF TypeOK, ReqOK
  <1> QED BY <1>1, <1>2

LEMMA EnvironmentKeepsTypes ==
  ASSUME TypeOK,
         \/ \E p \in Procs : Crash(p)
         \/ WindowExpires \/ MakeStoreOwner \/ Logout \/ Restart
         \/ \E w \in Portals : DropCookie(w)
         \/ \E o \in DOMAIN otps : OtpExpires(o)
  PROVE  TypeOK'
  <1>0. ReqOK /\ "idle" \in Step
    BY DEF TypeOK, ReqOK, Step
  <1>1. ASSUME NEW p \in Procs, Crash(p)
        PROVE  TypeOK'
    <2>1. Finish(p) /\ UNCHANGED <<otps, user, sessions, limiter, cookie>>
      BY <1>1 DEF Crash
    <2>2. ReqOK'
      BY <1>0, <2>1, GotoKeepsReq
    <2> QED BY <2>1, <2>2 DEF TypeOK, ReqOK
  <1>2. CASE WindowExpires \/ Restart
    <2>1. limiter' = [limiter EXCEPT !.count = 0, !.expiring = FALSE]
      BY <1>2 DEF WindowExpires, Restart
    <2>2. limiter' \in Limiter
      BY <2>1, RowTypes DEF TypeOK, Limiter
    <2>3. UNCHANGED <<otps, user, sessions, cookie>>
      BY <1>2 DEF WindowExpires, Restart
    <2>4. req' = req \/ req' = [p \in Procs |-> Idle]
      BY <1>2 DEF WindowExpires, Restart
    <2>5. ReqOK'
      BY <1>0, <2>3, <2>4, IdleType DEF ReqOK
    <2> QED BY <2>2, <2>3, <2>5 DEF TypeOK, ReqOK, Limiter
  <1>3. CASE MakeStoreOwner
    <2>1. user' = [user EXCEPT !.role = "STORE_OWNER"] /\ "STORE_OWNER" \in Role
      BY <1>3 DEF MakeStoreOwner, Role
    <2>2. user' \in [role : Role, blocked : BOOLEAN]
      BY <2>1 DEF TypeOK
    <2>3. UNCHANGED <<otps, sessions, limiter, cookie, req>>
      BY <1>3 DEF MakeStoreOwner
    <2> QED BY <2>2, <2>3 DEF TypeOK
  <1>4. CASE Logout
    <2>1. /\ UNCHANGED <<otps, user, limiter, cookie, req>>
          /\ sessions' = [sessions EXCEPT ![cookie["store"]].revoked = TRUE]
          /\ cookie["store"] \in DOMAIN sessions
      BY <1>4 DEF Logout, TypeOK
    <2>2. cookie["store"] \in 1..Len(sessions)
      BY <2>1, LenProperties DEF TypeOK
    <2>3. sessions[cookie["store"]] \in Session
      BY <2>2, ElementOfSeq DEF TypeOK
    <2> DEFINE row == [sessions[cookie["store"]] EXCEPT !.revoked = TRUE]
    <2>4. row \in Session
      BY <2>3, RowTypes
    <2>5. sessions' = [sessions EXCEPT ![cookie["store"]] = row]
      BY <2>1
    <2> HIDE DEF row
    <2>6. sessions' \in Seq(Session) /\ Len(sessions') = Len(sessions)
      BY <2>2, <2>4, <2>5, ExceptSeq DEF TypeOK
    <2>7. DOMAIN sessions' = DOMAIN sessions
      BY <2>1
    <2> QED BY <2>1, <2>6, <2>7 DEF TypeOK
  <1>5. ASSUME NEW w \in Portals, DropCookie(w)
        PROVE  TypeOK'
    BY <1>5 DEF DropCookie, TypeOK
  <1>6. ASSUME NEW o \in DOMAIN otps, OtpExpires(o)
        PROVE  TypeOK'
    <2>1. /\ UNCHANGED <<user, sessions, limiter, cookie, req>>
          /\ otps' = [otps EXCEPT ![o].expired = TRUE]
      BY <1>6 DEF OtpExpires
    <2>2. o \in 1..Len(otps)
      BY LenProperties DEF TypeOK
    <2>3. [otps[o] EXCEPT !.expired = TRUE] \in Otp
      BY <2>2, RowTypes, ElementOfSeq DEF TypeOK
    <2>4. otps' \in Seq(Otp) /\ DOMAIN otps' = DOMAIN otps
      BY <2>1, <2>2, <2>3, ExceptSeq DEF TypeOK
    <2> QED BY <2>1, <2>4 DEF TypeOK
  <1> QED BY <1>1, <1>2, <1>3, <1>4, <1>5, <1>6

\* Every statement of a request, every reload, limiter window and crash keeps
\* the types.
THEOREM StepKeepsTypes == TypeOK /\ [Next]_vars => TypeOK'
  <1>1. ASSUME TypeOK, UNCHANGED vars
        PROVE  TypeOK'
    BY <1>1 DEF vars, TypeOK
  <1>2. ASSUME TypeOK, NEW p \in Procs,
               RecordInMemory(p) \/ ReadCount(p) \/ FindOtp(p) \/ RequestStep(p)
        PROVE  TypeOK'
    BY <1>2, RequestingKeepsTypes, VerifyingKeepsTypes, SessionKeepsTypes DEF RequestStep
  <1> QED BY <1>1, <1>2, EnvironmentKeepsTypes DEF Next

\* Requests in flight know rows that exist, however they overlap and wherever they end.
THEOREM IdentityTypeCorrect == Spec => []TypeOK
  BY InitialTypes, StepKeepsTypes, PTL DEF Spec

-------------------------------------------------------------------------------
(* The role *)

LEMMA StepRaisesRole ==
  ASSUME TypeOK, Next
  PROVE  \/ user'.role = user.role
         \/ user.role = "NONE"
         \/ user.role = "CUSTOMER" /\ user'.role = "STORE_OWNER"
  <1>1. ASSUME NEW p \in Procs, CreateUser(p)
        PROVE  user.role = "NONE" \/ user' = user
    BY <1>1 DEF CreateUser
  <1>2. CASE MakeStoreOwner
    <2>1. user'.role = "STORE_OWNER" /\ user.role \in {"NONE", "CUSTOMER"}
      BY <1>2 DEF MakeStoreOwner, TypeOK
    <2> QED BY <2>1
  <1>3. ASSUME NEW p \in Procs, ~CreateUser(p),
               RecordInMemory(p) \/ ReadCount(p) \/ FindOtp(p) \/ RequestStep(p) \/ Crash(p)
        PROVE  user' = user
    BY <1>3 DEF RecordInMemory, ReadCount, IncrementCount, SetExpiry, CreateOtp, FindOtp,
                CountAttempt, FindUser, CompareAndMark, OpenSession, Answer, Crash, RequestStep
  <1>4. CASE \/ WindowExpires \/ Logout \/ Restart
             \/ \E w \in Portals : DropCookie(w)
             \/ \E o \in DOMAIN otps : OtpExpires(o)
    <2>1. user' = user
      BY <1>4 DEF WindowExpires, Logout, Restart, DropCookie, OtpExpires
    <2> QED BY <2>1
  <1>5. ASSUME NEW p \in Procs,
               RecordInMemory(p) \/ ReadCount(p) \/ FindOtp(p) \/ RequestStep(p) \/ Crash(p)
        PROVE  user.role = "NONE" \/ user'.role = user.role
    <2>1. CASE CreateUser(p)
      BY <1>1, <2>1
    <2>2. CASE ~CreateUser(p)
      <3>1. user' = user
        BY <1>3, <1>5, <2>2
      <3> QED BY <3>1
    <2> QED BY <2>1, <2>2
  <1> QED BY <1>2, <1>4, <1>5 DEF Next

\* verifyOtp and createStoreByAdmin on one phone number, in any order of their statements:
\* nobody becomes less than he was.
THEOREM RolesOnlyRise == Spec => RoleOnlyRises
  <1>1. TypeOK /\ [Next]_vars =>
          [\/ user'.role = user.role
           \/ user.role = "NONE"
           \/ user.role = "CUSTOMER" /\ user'.role = "STORE_OWNER"]_vars
    BY StepRaisesRole
  <1> QED BY <1>1, IdentityTypeCorrect, PTL DEF Spec, RoleOnlyRises

-------------------------------------------------------------------------------
(* The limits *)

\* The requests that have been allowed an attempt, or an OTP, and have not counted it yet.
Counting(o) == {p \in Procs : req[p].otp = o /\ req[p].step = "count"}
Incrementing == {p \in Procs : req[p].step = "increment"}

AttemptsInv ==
  \A o \in DOMAIN otps :
    otps[o].attempts + Cardinality(Counting(o)) <= MaxVerifyAttempts + Cardinality(Procs) - 1

WindowInv ==
  /\ limiter.count + Cardinality(Incrementing) <= MaxOtpRequests + Cardinality(Procs) - 1
  /\ limiter.kind = "memory" => Incrementing = {} /\ limiter.count <= MaxOtpRequests

\* Requests are finitely many at a time.
LEMMA RequestsAreFinite ==
  ASSUME NEW S \in SUBSET Procs
  PROVE  /\ IsFiniteSet(S) /\ Cardinality(S) \in Nat /\ Cardinality(S) <= Cardinality(Procs)
         /\ \A T \in SUBSET S : Cardinality(T) <= Cardinality(S)
         /\ \A p \in S : Cardinality(S \ {p}) = Cardinality(S) - 1
         /\ Cardinality(Procs) \in Nat
  <1>1. IsFiniteSet(S) /\ Cardinality(S) <= Cardinality(Procs) /\ Cardinality(Procs) \in Nat
    BY FiniteProcs, FS_Subset, FS_CardinalityType
  <1> QED BY <1>1, FS_Subset, FS_CardinalityType, FS_RemoveElement

LEMMA OtpRows ==
  ASSUME TypeOK
  PROVE  /\ \A o \in DOMAIN otps : otps[o] \in Otp
         /\ otps = [o \in DOMAIN otps |-> otps[o]]
         /\ Len(otps) \in Nat /\ DOMAIN otps = 1..Len(otps)
  <1>1. otps \in [1..Len(otps) -> Otp] /\ Len(otps) \in Nat
    BY LenProperties DEF TypeOK
  <1> QED BY <1>1

\* Attempts that are not counted, and requests that do not begin one, change nothing.
LEMMA AttemptsStay ==
  ASSUME TypeOK, AttemptsInv, DOMAIN otps' = DOMAIN otps,
         \A o \in DOMAIN otps : otps'[o].attempts = otps[o].attempts,
         \A p \in Procs : req'[p].step = "count" => req'[p] = req[p]
  PROVE  AttemptsInv'
  <1>1. SUFFICES ASSUME NEW o \in DOMAIN otps
                 PROVE  otps'[o].attempts + Cardinality(Counting(o)')
                          <= MaxVerifyAttempts + Cardinality(Procs) - 1
    BY DEF AttemptsInv
  <1>2. Counting(o)' \in SUBSET Counting(o)
    BY DEF Counting
  <1>3. Counting(o) \in SUBSET Procs /\ Counting(o)' \in SUBSET Procs
    BY DEF Counting
  <1>4. /\ Cardinality(Counting(o)) \in Nat /\ Cardinality(Counting(o)') \in Nat
        /\ Cardinality(Counting(o)') <= Cardinality(Counting(o)) /\ Cardinality(Procs) \in Nat
    BY <1>2, <1>3, RequestsAreFinite
  <1>5. otps[o].attempts \in Nat
    BY OtpRows DEF Otp
  <1> QED BY <1>1, <1>4, <1>5, IdentityAssumption DEF AttemptsInv

\* An attempt is allowed while fewer than the limit are counted; those allowed and not
\* counted yet are other requests.
LEMMA FindOtpKeepsAttempts ==
  ASSUME TypeOK, AttemptsInv, NEW p \in Procs, FindOtp(p)
  PROVE  AttemptsInv'
  <1>1. PICK i \in DOMAIN otps :
          /\ otps[i].attempts < MaxVerifyAttempts
          /\ req' = [req EXCEPT ![p] = [Idle EXCEPT !.step = "count", !.otp = i]]
    BY DEF FindOtp, Newest, Pending
  <1>2. req[p] = Idle /\ UNCHANGED otps
    BY DEF FindOtp
  <1>3. \A o \in DOMAIN otps : otps[o].attempts \in Nat
    BY OtpRows DEF Otp
  <1>4. ASSUME NEW o \in DOMAIN otps
        PROVE  otps[o].attempts + Cardinality(Counting(o)')
                 <= MaxVerifyAttempts + Cardinality(Procs) - 1
    <2>1. CASE o = i
      <3>1. Counting(o)' \in SUBSET Procs
        BY DEF Counting
      <3>2. /\ Cardinality(Counting(o)') \in Nat /\ Cardinality(Procs) \in Nat
            /\ Cardinality(Counting(o)') <= Cardinality(Procs)
        BY <3>1, RequestsAreFinite
      <3> QED BY <1>1, <1>3, <2>1, <3>2, IdentityAssumption
    <2>2. CASE o # i
      <3>1. Counting(o)' = Counting(o)
        BY <1>1, <1>2, <2>2 DEF Counting, TypeOK, Idle
      <3> QED BY <3>1 DEF AttemptsInv
    <2> QED BY <2>1, <2>2
  <1> QED BY <1>2, <1>4 DEF AttemptsInv

LEMMA CountAttemptKeepsAttempts ==
  ASSUME TypeOK, AttemptsInv, NEW p \in Procs, CountAttempt(p)
  PROVE  AttemptsInv'
  <1>1. /\ req[p].step = "count" /\ otps' = [otps EXCEPT ![req[p].otp].attempts = @ + 1]
        /\ req' = [req EXCEPT ![p].step = "compare"]
    BY DEF CountAttempt, Goto
  <1>2. DOMAIN otps' = DOMAIN otps
    BY <1>1, OtpRows
  <1>3. ASSUME NEW o \in DOMAIN otps
        PROVE  otps'[o].attempts + Cardinality(Counting(o)')
                 <= MaxVerifyAttempts + Cardinality(Procs) - 1
    <2>1. CASE o = req[p].otp
      <3>1. Counting(o)' = Counting(o) \ {p} /\ p \in Counting(o) /\ Counting(o) \in SUBSET Procs
        BY <1>1, <2>1 DEF Counting, TypeOK, Request
      <3>2. /\ Cardinality(Counting(o)') = Cardinality(Counting(o)) - 1
            /\ Cardinality(Counting(o)) \in Nat /\ Cardinality(Procs) \in Nat
        BY <3>1, RequestsAreFinite
      <3>3. otps'[o].attempts = otps[o].attempts + 1 /\ otps[o].attempts \in Nat
        BY <1>1, <2>1, OtpRows DEF Otp
      <3> QED BY <3>2, <3>3, IdentityAssumption DEF AttemptsInv
    <2>2. CASE o # req[p].otp
      <3>1. Counting(o)' = Counting(o)
        BY <1>1, <2>2 DEF Counting, TypeOK, Request
      <3>2. otps'[o] = otps[o]
        BY <1>1, <2>2, OtpRows
      <3> QED BY <3>1, <3>2 DEF AttemptsInv
    <2> QED BY <2>1, <2>2
  <1> QED BY <1>2, <1>3 DEF AttemptsInv

LEMMA CreateOtpKeepsAttempts ==
  ASSUME TypeOK, AttemptsInv, NEW p \in Procs, CreateOtp(p)
  PROVE  AttemptsInv'
  <1>1. PICK n \in Nat : n = Len(otps) + 1
    BY OtpRows
  <1>2. otps' = Append(otps, NewOtp) /\ req' = [req EXCEPT ![p] = Idle]
    BY DEF CreateOtp, Finish
  <1>3. /\ DOMAIN otps' = DOMAIN otps \cup {n}
        /\ otps'[n] = NewOtp
        /\ \A o \in DOMAIN otps : otps'[o] = otps[o]
    BY <1>1, <1>2 DEF TypeOK, NewOtp, Otp
  <1>4. ASSUME NEW o \in DOMAIN otps
        PROVE  otps'[o].attempts + Cardinality(Counting(o)')
                 <= MaxVerifyAttempts + Cardinality(Procs) - 1
    <2>1. Counting(o)' \in SUBSET Counting(o) /\ Counting(o) \in SUBSET Procs
      BY <1>2 DEF Counting, TypeOK, Idle
    <2>2. /\ Cardinality(Counting(o)') <= Cardinality(Counting(o))
          /\ Cardinality(Counting(o)') \in Nat /\ Cardinality(Counting(o)) \in Nat
          /\ Cardinality(Procs) \in Nat
      BY <2>1, RequestsAreFinite
    <2>3. otps'[o].attempts = otps[o].attempts /\ otps[o].attempts \in Nat
      BY <1>3, OtpRows DEF Otp
    <2> QED BY <2>2, <2>3, IdentityAssumption DEF AttemptsInv
  <1>5. NewOtp.attempts + Cardinality(Counting(n)')
          <= MaxVerifyAttempts + Cardinality(Procs) - 1
    <2>1. Counting(n)' = {}
      BY <1>1, <1>2, OtpRows DEF Counting, TypeOK, Idle, NoOtp
    <2>2. Cardinality(Counting(n)') = 0 /\ Cardinality(Procs) \in Nat
      BY <2>1, FS_EmptySet, FS_CardinalityType, FiniteProcs
    <2>3. Cardinality(Procs) # 0
      BY FS_EmptySet, FiniteProcs
    <2> QED BY <2>2, <2>3, IdentityAssumption DEF NewOtp
  <1> QED BY <1>3, <1>4, <1>5 DEF AttemptsInv

LEMMA StepKeepsAttempts ==
  ASSUME TypeOK, AttemptsInv, Next
  PROVE  AttemptsInv'
  <1>1. ASSUME NEW p \in Procs,
               \/ RecordInMemory(p) \/ ReadCount(p) \/ IncrementCount(p) \/ SetExpiry(p)
               \/ FindUser(p) \/ CreateUser(p) \/ OpenSession(p) \/ Crash(p)
               \/ \E w \in Portals : Answer(p, w)
        PROVE  AttemptsInv'
    <2>1. otps' = otps
      BY <1>1 DEF RecordInMemory, ReadCount, IncrementCount, SetExpiry, FindUser, CreateUser,
                  OpenSession, Crash, Answer
    <2>2. \A q \in Procs \ {p} : req'[q] = req[q]
      BY <1>1 DEF RecordInMemory, ReadCount, IncrementCount, SetExpiry, FindUser, CreateUser,
                  OpenSession, Crash, Answer, Goto, Finish, TypeOK
    <2>3. req'[p].step # "count"
      <3>1. req \in [Procs -> Request]
        BY DEF TypeOK
      <3>2. CASE \/ RecordInMemory(p) \/ ReadCount(p) \/ IncrementCount(p) \/ SetExpiry(p)
                 \/ Crash(p) \/ \E w \in Portals : Answer(p, w)
        BY <3>1, <3>2 DEF RecordInMemory, ReadCount, IncrementCount, SetExpiry, Crash, Answer,
                          Goto, Finish, Idle, Request
      <3>3. CASE FindUser(p) \/ CreateUser(p) \/ OpenSession(p)
        BY <3>1, <3>3 DEF FindUser, CreateUser, OpenSession, Goto, Finish, Idle, Request
      <3> QED BY <1>1, <3>2, <3>3
    <2> QED BY <2>1, <2>2, <2>3, AttemptsStay
  <1>2. ASSUME NEW p \in Procs, \E right \in BOOLEAN : CompareAndMark(p, right)
        PROVE  AttemptsInv'
    <2>1. otps' = otps \/ otps' = [otps EXCEPT ![req[p].otp].verified = TRUE]
      BY <1>2 DEF CompareAndMark
    <2>2. DOMAIN otps' = DOMAIN otps /\ \A o \in DOMAIN otps : otps'[o].attempts = otps[o].attempts
      BY <2>1, OtpRows DEF Otp
    <2>3. \A q \in Procs : req'[q].step = "count" => req'[q] = req[q]
      BY <1>2 DEF CompareAndMark, Goto, Finish, Idle, TypeOK, Request
    <2> QED BY <2>2, <2>3, AttemptsStay
  <1>3. CASE WindowExpires \/ MakeStoreOwner \/ Logout \/ \E w \in Portals : DropCookie(w)
    <2>1. UNCHANGED <<otps, req>>
      BY <1>3 DEF WindowExpires, MakeStoreOwner, Logout, DropCookie
    <2> QED BY <2>1, AttemptsStay
  <1>4. CASE Restart
    <2>1. otps' = otps /\ req' = [p \in Procs |-> Idle]
      BY <1>4 DEF Restart
    <2> QED BY <2>1, AttemptsStay DEF Idle
  <1>5. ASSUME NEW o \in DOMAIN otps, OtpExpires(o)
        PROVE  AttemptsInv'
    <2>1. otps' = [otps EXCEPT ![o].expired = TRUE] /\ req' = req
      BY <1>5 DEF OtpExpires
    <2>2. DOMAIN otps' = DOMAIN otps /\ \A i \in DOMAIN otps : otps'[i].attempts = otps[i].attempts
      BY <2>1, OtpRows DEF Otp
    <2> QED BY <2>1, <2>2, AttemptsStay
  <1>6. ASSUME NEW p \in Procs,
               RecordInMemory(p) \/ ReadCount(p) \/ FindOtp(p) \/ RequestStep(p) \/ Crash(p)
        PROVE  AttemptsInv'
    BY <1>1, <1>2, <1>6, FindOtpKeepsAttempts, CountAttemptKeepsAttempts, CreateOtpKeepsAttempts
       DEF RequestStep
  <1> QED BY <1>3, <1>4, <1>5, <1>6 DEF Next

\* The window's count.
LEMMA WindowUndisturbed ==
  ASSUME TypeOK, TypeOK', WindowInv, limiter'.kind = limiter.kind,
         limiter'.count <= limiter.count,
         \A p \in Procs : req'[p].step = "increment" => req[p].step = "increment"
  PROVE  WindowInv'
  <1>1. Incrementing' \in SUBSET Incrementing /\ Incrementing \in SUBSET Procs
    BY DEF Incrementing
  <1>2. /\ Cardinality(Incrementing) \in Nat /\ Cardinality(Incrementing') \in Nat
        /\ Cardinality(Incrementing') <= Cardinality(Incrementing) /\ Cardinality(Procs) \in Nat
    BY <1>1, RequestsAreFinite
  <1>3. limiter.count \in Nat /\ limiter'.count \in Nat
    BY DEF TypeOK
  <1> QED BY <1>1, <1>2, <1>3, IdentityAssumption DEF WindowInv

LEMMA RequestKeepsWindow ==
  ASSUME TypeOK, WindowInv, NEW p \in Procs,
         RecordInMemory(p) \/ ReadCount(p) \/ IncrementCount(p)
  PROVE  WindowInv'
  <1>0. /\ limiter.count \in Nat /\ Cardinality(Procs) \in Nat /\ Cardinality(Procs) # 0
        /\ Incrementing \in SUBSET Procs /\ Cardinality(Incrementing) \in Nat
    <2>1. Incrementing \in SUBSET Procs
      BY DEF Incrementing
    <2> QED BY <2>1, RequestsAreFinite, FiniteProcs, FS_EmptySet DEF TypeOK
  <1>1. CASE RecordInMemory(p)
    <2>1. /\ limiter.kind = "memory" /\ limiter.count < MaxOtpRequests
          /\ limiter'.count = limiter.count + 1 /\ limiter'.kind = limiter.kind
      BY <1>1 DEF RecordInMemory, TypeOK
    <2>2. Incrementing' = {}
      BY <1>1, <2>1 DEF RecordInMemory, Goto, Incrementing, WindowInv, TypeOK, Request
    <2>3. Cardinality(Incrementing') = 0
      BY <2>2, FS_EmptySet
    <2> QED BY <1>0, <2>1, <2>2, <2>3, IdentityAssumption DEF WindowInv
  <1>2. CASE ReadCount(p)
    <2>1. limiter.kind = "redis" /\ limiter.count < MaxOtpRequests /\ limiter' = limiter
      BY <1>2 DEF ReadCount
    <2>2. Incrementing' \in SUBSET Procs
      BY DEF Incrementing
    <2>3. Cardinality(Incrementing') \in Nat /\ Cardinality(Incrementing') <= Cardinality(Procs)
      BY <2>2, RequestsAreFinite
    <2> QED BY <1>0, <2>1, <2>3, IdentityAssumption DEF WindowInv
  <1>3. CASE IncrementCount(p)
    <2>1. req[p].step = "increment" /\ limiter'.count = limiter.count + 1
      BY <1>3 DEF IncrementCount, TypeOK
    <2>2. Incrementing' = Incrementing \ {p} /\ p \in Incrementing
      BY <1>3 DEF IncrementCount, Goto, Incrementing, TypeOK, Request
    <2>3. Cardinality(Incrementing') = Cardinality(Incrementing) - 1
      BY <1>0, <2>2, RequestsAreFinite
    <2>4. limiter.kind # "memory" /\ limiter'.kind = limiter.kind
      BY <1>3, <2>2 DEF IncrementCount, WindowInv, TypeOK
    <2> QED BY <1>0, <2>1, <2>3, <2>4, IdentityAssumption DEF WindowInv
  <1> QED BY <1>1, <1>2, <1>3

LEMMA StepKeepsWindow ==
  ASSUME TypeOK, TypeOK', WindowInv, Next
  PROVE  WindowInv'
  <1>1. ASSUME NEW p \in Procs, RequestStep(p) \/ FindOtp(p) \/ Crash(p), ~IncrementCount(p)
        PROVE  WindowInv'
    <2>1. limiter'.kind = limiter.kind /\ limiter'.count = limiter.count
      <3>1. CASE SetExpiry(p)
        BY <3>1 DEF SetExpiry, TypeOK
      <3>2. CASE ~SetExpiry(p)
        <4>1. limiter' = limiter
          BY <1>1, <3>2 DEF RequestStep, FindOtp, Crash, CreateOtp, CountAttempt, FindUser, CreateUser,
                            OpenSession, CompareAndMark, Answer
        <4> QED BY <4>1
      <3> QED BY <3>1, <3>2
    <2>2. \A q \in Procs \ {p} : req'[q] = req[q]
      BY <1>1 DEF RequestStep, SetExpiry, FindOtp, Crash, CreateOtp, CountAttempt, FindUser, CreateUser,
                  OpenSession, CompareAndMark, Answer, Goto, Finish, TypeOK
    <2>3. req'[p].step # "increment"
      <3>1. req \in [Procs -> Request]
        BY DEF TypeOK
      <3>2. CASE \/ SetExpiry(p) \/ CreateOtp(p) \/ CountAttempt(p) \/ Crash(p)
                 \/ \E w \in Portals : Answer(p, w)
                 \/ \E right \in BOOLEAN : CompareAndMark(p, right)
        BY <3>1, <3>2 DEF SetExpiry, CreateOtp, CountAttempt, Crash, CompareAndMark, Answer,
                          Goto, Finish, Idle, Request
      <3>3. CASE FindUser(p) \/ CreateUser(p) \/ OpenSession(p)
        BY <3>1, <3>3 DEF FindUser, CreateUser, OpenSession, Goto, Finish, Idle, Request
      <3>4. CASE FindOtp(p)
        <4>1. PICK o \in Newest : req' = [req EXCEPT ![p] = [Idle EXCEPT !.step = "count", !.otp = o]]
          BY <3>4 DEF FindOtp
        <4> QED BY <3>1, <4>1 DEF Idle
      <3> QED BY <1>1, <3>2, <3>3, <3>4 DEF RequestStep
    <2>4. limiter.count \in Nat
      BY DEF TypeOK
    <2> QED BY <2>1, <2>2, <2>3, <2>4, WindowUndisturbed
  <1>2. CASE WindowExpires \/ Restart
    <2>1. limiter'.kind = limiter.kind /\ limiter'.count = 0 /\ limiter.count \in Nat
      BY <1>2 DEF WindowExpires, Restart, TypeOK
    <2>2. req' = req \/ req' = [q \in Procs |-> Idle]
      BY <1>2 DEF WindowExpires, Restart
    <2> QED BY <2>1, <2>2, WindowUndisturbed DEF Idle
  <1>3. CASE \/ MakeStoreOwner \/ Logout \/ \E w \in Portals : DropCookie(w)
             \/ \E o \in DOMAIN otps : OtpExpires(o)
    <2>1. UNCHANGED <<limiter, req>>
      BY <1>3 DEF MakeStoreOwner, Logout, DropCookie, OtpExpires
    <2>2. limiter.count \in Nat
      BY DEF TypeOK
    <2> QED BY <2>1, <2>2, WindowUndisturbed
  <1> QED BY <1>1, <1>2, <1>3, RequestKeepsWindow DEF Next, RequestStep

LEMMA InitialLimits == Init => AttemptsInv /\ WindowInv
  <1> SUFFICES ASSUME Init PROVE AttemptsInv /\ WindowInv
    OBVIOUS
  <1>1. DOMAIN otps = {} /\ limiter.count = 0
    BY DEF Init
  <1>2. Incrementing = {}
    BY DEF Init, Incrementing, Idle
  <1>3. Cardinality(Incrementing) = 0 /\ Cardinality(Procs) \in Nat
    BY <1>2, FS_EmptySet, FiniteProcs, FS_CardinalityType
  <1> QED BY <1>1, <1>2, <1>3, IdentityAssumption DEF AttemptsInv, WindowInv

\* The counted attempts and requests are what the invariants leave.
LEMMA InvImpliesLimits ==
  ASSUME TypeOK, AttemptsInv, WindowInv
  PROVE  LimitsHold
  <1>1. AttemptsBounded
    <2>1. SUFFICES ASSUME NEW o \in DOMAIN otps
                   PROVE  otps[o].attempts <= MaxVerifyAttempts + Cardinality(Procs) - 1
      BY DEF AttemptsBounded
    <2>2. Counting(o) \in SUBSET Procs /\ otps[o].attempts \in Nat
      BY OtpRows DEF Counting, Otp
    <2>3. Cardinality(Counting(o)) \in Nat /\ Cardinality(Procs) \in Nat
      BY <2>2, RequestsAreFinite
    <2> QED BY <2>2, <2>3, IdentityAssumption DEF AttemptsInv
  <1>2. WindowBounded
    <2>1. Incrementing \in SUBSET Procs /\ limiter.count \in Nat
      BY DEF Incrementing, TypeOK
    <2>2. Cardinality(Incrementing) \in Nat /\ Cardinality(Procs) \in Nat
      BY <2>1, RequestsAreFinite
    <2> QED BY <2>1, <2>2, IdentityAssumption DEF WindowInv, WindowBounded
  <1> QED BY <1>1, <1>2 DEF LimitsHold

\* MAX_VERIFY_ATTEMPTS and MAX_OTP_REQUESTS are exceeded by the requests that overlap and by no
\* more, for every number of requests at a time; the in-memory limiter is exact.
THEOREM LimitsAreKept == Spec => []LimitsHold
  <1> DEFINE Inv == TypeOK /\ AttemptsInv /\ WindowInv
  <1>1. Init => Inv
    BY InitialTypes, InitialLimits
  <1>2. Inv /\ [Next]_vars => Inv'
    <2>1. ASSUME Inv, Next
          PROVE  Inv'
      <3>1. TypeOK'
        BY <2>1, StepKeepsTypes
      <3> QED BY <2>1, <3>1, StepKeepsAttempts, StepKeepsWindow
    <2>2. ASSUME Inv, UNCHANGED vars
          PROVE  Inv'
      <3>1. TypeOK'
        BY <2>2, StepKeepsTypes
      <3> QED BY <2>2, <3>1 DEF vars, AttemptsInv, WindowInv, Counting, Incrementing
    <2> QED BY <2>1, <2>2
  <1>3. Inv => LimitsHold
    BY InvImpliesLimits
  <1> QED BY <1>1, <1>2, <1>3, PTL DEF Spec

-------------------------------------------------------------------------------
(* The sign-ins of one OTP *)

Matched == {"findUser", "createUser", "openSession"}

\* A session's OTP exists and is marked as used, and so is the OTP of a request that has
\* been compared: nobody who comes later finds it.
MarkedInv ==
  /\ \A s \in DOMAIN sessions :
       /\ sessions[s].otp \in {NoOtp} \cup DOMAIN otps
       /\ sessions[s].otp # NoOtp => otps[sessions[s].otp].verified
  /\ \A p \in Procs :
       req[p].step \in Matched /\ req[p].otp # NoOtp => otps[req[p].otp].verified

LoginInv == MarkedInv /\ LoginsPerOtp

LEMMA SessionsAreFinite ==
  ASSUME TypeOK, NEW o
  PROVE  IsFiniteSet(SessionsOf(o)) /\ Cardinality(SessionsOf(o)) \in Nat
  <1>1. SessionsOf(o) \in SUBSET (1..Len(sessions)) /\ Len(sessions) \in Nat
    BY LenProperties DEF SessionsOf, TypeOK
  <1>2. IsFiniteSet(1..Len(sessions))
    BY <1>1, FS_Interval
  <1> QED BY <1>1, <1>2, FS_Subset, FS_CardinalityType

\* A request that does not begin to sign in, and opens no session, changes nothing.
LEMMA LoginsStay ==
  ASSUME TypeOK, TypeOK', LoginInv,
         DOMAIN otps' = DOMAIN otps,
         \A o \in DOMAIN otps : otps[o].verified => otps'[o].verified,
         DOMAIN sessions' = DOMAIN sessions,
         \A s \in DOMAIN sessions : sessions'[s].otp = sessions[s].otp,
         \A p \in Procs :
           req'[p].step \in Matched \cup {"count", "compare"} =>
             /\ req[p].step \in Matched \cup {"count", "compare"}
             /\ req'[p].otp = req[p].otp
             /\ req'[p].step \in Matched /\ req[p].step \notin Matched /\ req[p].otp \in DOMAIN otps
                  => otps'[req[p].otp].verified
  PROVE  LoginInv'
  <1>1. MarkedInv'
    <2>1. \A s \in DOMAIN sessions' :
            /\ sessions'[s].otp \in {NoOtp} \cup DOMAIN otps'
            /\ sessions'[s].otp # NoOtp => otps'[sessions'[s].otp].verified
      BY DEF LoginInv, MarkedInv
    <2>2. \A p \in Procs :
            req'[p].step \in Matched /\ req'[p].otp # NoOtp => otps'[req'[p].otp].verified
      BY DEF LoginInv, MarkedInv, TypeOK
    <2> QED BY <2>1, <2>2 DEF MarkedInv
  <1>2. ASSUME NEW o \in DOMAIN otps
        PROVE  Cardinality(SessionsOf(o)') + Cardinality(InFlight(o)') <= Cardinality(Procs)
    <2>1. SessionsOf(o)' = SessionsOf(o)
      BY DEF SessionsOf
    <2>2. InFlight(o)' \in SUBSET InFlight(o) /\ InFlight(o) \in SUBSET Procs
      BY DEF InFlight, Matched
    <2>3. /\ Cardinality(InFlight(o)') <= Cardinality(InFlight(o))
          /\ Cardinality(InFlight(o)) \in Nat /\ Cardinality(InFlight(o)') \in Nat
          /\ Cardinality(Procs) \in Nat
      BY <2>2, RequestsAreFinite
    <2>4. Cardinality(SessionsOf(o)) \in Nat
      BY SessionsAreFinite
    <2> QED BY <2>1, <2>3, <2>4 DEF LoginInv, LoginsPerOtp
  <1> QED BY <1>1, <1>2 DEF LoginInv, LoginsPerOtp

\* A sign-in begins with an OTP that is not marked, and that has opened no session.
LEMMA FindOtpKeepsLogins ==
  ASSUME TypeOK, TypeOK', LoginInv, NEW p \in Procs, FindOtp(p)
  PROVE  LoginInv'
  <1>1. PICK i \in DOMAIN otps :
          ~otps[i].verified /\ req' = [req EXCEPT ![p] = [Idle EXCEPT !.step = "count", !.otp = i]]
    BY DEF FindOtp, Newest, Pending
  <1>2. UNCHANGED <<otps, sessions>>
    BY DEF FindOtp
  <1>3. MarkedInv'
    BY <1>1, <1>2 DEF LoginInv, MarkedInv, Matched, TypeOK, Idle
  <1>4. ASSUME NEW o \in DOMAIN otps
        PROVE  Cardinality(SessionsOf(o)') + Cardinality(InFlight(o)') <= Cardinality(Procs)
    <2>1. SessionsOf(o)' = SessionsOf(o)
      BY <1>2 DEF SessionsOf
    <2>2. CASE o = i
      <3>1. SessionsOf(o) = {}
        BY <1>1, <2>2, OtpRows DEF SessionsOf, LoginInv, MarkedInv, NoOtp
      <3>2. InFlight(o)' \in SUBSET Procs
        BY DEF InFlight
      <3>3. /\ Cardinality(SessionsOf(o)) = 0 /\ Cardinality(InFlight(o)') \in Nat
            /\ Cardinality(InFlight(o)') <= Cardinality(Procs)
        BY <3>1, <3>2, RequestsAreFinite, FS_EmptySet
      <3> QED BY <2>1, <3>3
    <2>3. CASE o # i
      <3>1. InFlight(o)' \in SUBSET InFlight(o) /\ InFlight(o) \in SUBSET Procs
        BY <1>1, <2>3 DEF InFlight, TypeOK, Idle
      <3>2. /\ Cardinality(InFlight(o)') <= Cardinality(InFlight(o))
            /\ Cardinality(InFlight(o)) \in Nat /\ Cardinality(InFlight(o)') \in Nat
            /\ Cardinality(Procs) \in Nat
        BY <3>1, RequestsAreFinite
      <3>3. Cardinality(SessionsOf(o)) \in Nat
        BY SessionsAreFinite
      <3> QED BY <2>1, <3>2, <3>3 DEF LoginInv, LoginsPerOtp
    <2> QED BY <2>2, <2>3
  <1> QED BY <1>2, <1>3, <1>4 DEF LoginInv, LoginsPerOtp

LEMMA CreateOtpKeepsLogins ==
  ASSUME TypeOK, TypeOK', LoginInv, NEW p \in Procs, CreateOtp(p)
  PROVE  LoginInv'
  <1>1. PICK n \in Nat : n = Len(otps) + 1
    BY OtpRows
  <1>2. /\ otps' = Append(otps, NewOtp) /\ req' = [req EXCEPT ![p] = Idle]
        /\ UNCHANGED sessions
    BY DEF CreateOtp, Finish
  <1>3. /\ DOMAIN otps' = DOMAIN otps \cup {n} /\ n \notin DOMAIN otps /\ n # NoOtp
        /\ \A o \in DOMAIN otps : otps'[o] = otps[o]
    BY <1>1, <1>2, OtpRows DEF TypeOK, NewOtp, Otp, NoOtp
  <1>4. MarkedInv'
    BY <1>2, <1>3 DEF LoginInv, MarkedInv, Matched, TypeOK, Idle
  <1>5. ASSUME NEW o \in DOMAIN otps
        PROVE  Cardinality(SessionsOf(o)') + Cardinality(InFlight(o)') <= Cardinality(Procs)
    <2>1. SessionsOf(o)' = SessionsOf(o)
      BY <1>2 DEF SessionsOf
    <2>2. InFlight(o)' \in SUBSET InFlight(o) /\ InFlight(o) \in SUBSET Procs
      BY <1>2 DEF InFlight, TypeOK, Idle
    <2>3. /\ Cardinality(InFlight(o)') <= Cardinality(InFlight(o))
          /\ Cardinality(InFlight(o)) \in Nat /\ Cardinality(InFlight(o)') \in Nat
          /\ Cardinality(Procs) \in Nat
      BY <2>2, RequestsAreFinite
    <2>4. Cardinality(SessionsOf(o)) \in Nat
      BY SessionsAreFinite
    <2> QED BY <2>1, <2>3, <2>4 DEF LoginInv, LoginsPerOtp
  <1>6. Cardinality(SessionsOf(n)') + Cardinality(InFlight(n)') <= Cardinality(Procs)
    <2>1. SessionsOf(n)' = {} /\ InFlight(n)' = {}
      BY <1>2, <1>3 DEF SessionsOf, InFlight, LoginInv, MarkedInv, TypeOK, Idle
    <2> QED BY <2>1, FS_EmptySet, FS_CardinalityType, FiniteProcs
  <1> QED BY <1>3, <1>4, <1>5, <1>6 DEF LoginInv, LoginsPerOtp

\* The request that opens a session is not in flight any more.
LEMMA OpenSessionKeepsLogins ==
  ASSUME TypeOK, TypeOK', LoginInv, NEW p \in Procs, OpenSession(p)
  PROVE  LoginInv'
  <1>1. PICK n \in Nat : n = Len(sessions) + 1
    BY LenProperties DEF TypeOK
  <1> DEFINE row == [otp |-> req[p].otp, role |-> req[p].role, revoked |-> FALSE]
  <1>2. /\ sessions' = Append(sessions, row) /\ req[p].step = "openSession" /\ UNCHANGED otps
        /\ req' = [req EXCEPT ![p].step = "answer", ![p].session = n]
    BY <1>1 DEF OpenSession
  <1>3. row \in Session /\ row.otp = req[p].otp
    BY DEF TypeOK, Request, Session
  <1> HIDE DEF row
  <1>4. /\ DOMAIN sessions' = DOMAIN sessions \cup {n} /\ n \notin DOMAIN sessions
        /\ \A s \in DOMAIN sessions : sessions'[s] = sessions[s]
        /\ sessions'[n] = row
    BY <1>1, <1>2, <1>3 DEF TypeOK
  <1>5. /\ \A q \in Procs \ {p} : req'[q] = req[q]
        /\ req'[p].step = "answer" /\ req'[p].otp = req[p].otp
    BY <1>2 DEF TypeOK, Request
  <1>6. MarkedInv'
    <2>1. /\ req[p].otp \in {NoOtp} \cup DOMAIN otps
          /\ req[p].otp # NoOtp => otps[req[p].otp].verified
      BY <1>2 DEF LoginInv, MarkedInv, TypeOK, Matched
    <2>2. \A s \in DOMAIN sessions' :
            /\ sessions'[s].otp \in {NoOtp} \cup DOMAIN otps
            /\ sessions'[s].otp # NoOtp => otps[sessions'[s].otp].verified
      <3>1. \A s \in DOMAIN sessions :
              /\ sessions[s].otp \in {NoOtp} \cup DOMAIN otps
              /\ sessions[s].otp # NoOtp => otps[sessions[s].otp].verified
        BY DEF LoginInv, MarkedInv
      <3>2. /\ sessions'[n].otp \in {NoOtp} \cup DOMAIN otps
            /\ sessions'[n].otp # NoOtp => otps[sessions'[n].otp].verified
        BY <1>3, <1>4, <2>1
      <3>3. \A s \in DOMAIN sessions :
              /\ sessions'[s].otp \in {NoOtp} \cup DOMAIN otps
              /\ sessions'[s].otp # NoOtp => otps[sessions'[s].otp].verified
        BY <1>4, <3>1
      <3> QED BY <1>4, <3>2, <3>3
    <2>3. \A q \in Procs :
            req'[q].step \in Matched /\ req'[q].otp # NoOtp => otps[req'[q].otp].verified
      BY <1>5 DEF LoginInv, MarkedInv, Matched
    <2> QED BY <1>2, <2>2, <2>3 DEF MarkedInv
  <1>7. ASSUME NEW o \in DOMAIN otps
        PROVE  Cardinality(SessionsOf(o)') + Cardinality(InFlight(o)') <= Cardinality(Procs)
    <2>1. IsFiniteSet(SessionsOf(o)) /\ Cardinality(SessionsOf(o)) \in Nat
      BY SessionsAreFinite
    <2>2. InFlight(o) \in SUBSET Procs /\ Cardinality(InFlight(o)) \in Nat /\ Cardinality(Procs) \in Nat
      <3>1. InFlight(o) \in SUBSET Procs
        BY DEF InFlight
      <3> QED BY <3>1, RequestsAreFinite
    <2>3. CASE o = req[p].otp
      <3>1. SessionsOf(o)' = SessionsOf(o) \cup {n} /\ n \notin SessionsOf(o)
        BY <1>3, <1>4, <2>3 DEF SessionsOf
      <3>2. InFlight(o)' = InFlight(o) \ {p} /\ p \in InFlight(o)
        BY <1>2, <1>5, <2>3 DEF InFlight
      <3>3. Cardinality(SessionsOf(o)') = Cardinality(SessionsOf(o)) + 1
        BY <2>1, <3>1, FS_AddElement
      <3>4. Cardinality(InFlight(o)') = Cardinality(InFlight(o)) - 1
        BY <2>2, <3>2, RequestsAreFinite
      <3> QED BY <2>1, <2>2, <3>3, <3>4 DEF LoginInv, LoginsPerOtp
    <2>4. CASE o # req[p].otp
      <3>1. SessionsOf(o)' = SessionsOf(o)
        BY <1>3, <1>4, <2>4 DEF SessionsOf
      <3>2. InFlight(o)' = InFlight(o)
        BY <1>5, <2>4 DEF InFlight
      <3> QED BY <3>1, <3>2 DEF LoginInv, LoginsPerOtp
    <2> QED BY <2>3, <2>4
  <1> QED BY <1>2, <1>6, <1>7 DEF LoginInv, LoginsPerOtp

LEMMA StepKeepsLogins ==
  ASSUME TypeOK, TypeOK', LoginInv, Next
  PROVE  LoginInv'
  <1>0. req \in [Procs -> Request]
    BY DEF TypeOK
  <1>1. ASSUME NEW p \in Procs,
               \/ RecordInMemory(p) \/ ReadCount(p) \/ IncrementCount(p) \/ SetExpiry(p)
               \/ FindUser(p) \/ CreateUser(p) \/ Crash(p) \/ \E w \in Portals : Answer(p, w)
        PROVE  LoginInv'
    <2>1. UNCHANGED <<otps, sessions>>
      BY <1>1 DEF RecordInMemory, ReadCount, IncrementCount, SetExpiry, FindUser, CreateUser,
                  Crash, Answer
    <2>2. \A q \in Procs \ {p} : req'[q] = req[q]
      BY <1>0, <1>1 DEF RecordInMemory, ReadCount, IncrementCount, SetExpiry, FindUser, CreateUser,
                        Crash, Answer, Goto, Finish
    <2>3. \/ req'[p].step \notin Matched \cup {"count", "compare"}
          \/ req[p].step \in Matched /\ req'[p].step \in Matched /\ req'[p].otp = req[p].otp
      <3>1. CASE FindUser(p) \/ CreateUser(p)
        BY <1>0, <3>1 DEF FindUser, CreateUser, Goto, Finish, Idle, Request, Matched
      <3>2. CASE \/ RecordInMemory(p) \/ ReadCount(p) \/ IncrementCount(p) \/ SetExpiry(p)
                 \/ Crash(p) \/ \E w \in Portals : Answer(p, w)
        BY <1>0, <3>2 DEF RecordInMemory, ReadCount, IncrementCount, SetExpiry, Crash, Answer,
                          Goto, Finish, Idle, Request, Matched
      <3> QED BY <1>1, <3>1, <3>2
    <2> QED BY <2>1, <2>2, <2>3, LoginsStay DEF Matched
  <1>2. ASSUME NEW p \in Procs, CountAttempt(p)
        PROVE  LoginInv'
    <2>1. /\ DOMAIN otps' = DOMAIN otps /\ UNCHANGED sessions
          /\ \A o \in DOMAIN otps : otps'[o].verified = otps[o].verified
      BY <1>2, OtpRows DEF CountAttempt, Otp
    <2>2. \A q \in Procs \ {p} : req'[q] = req[q]
      BY <1>0, <1>2 DEF CountAttempt, Goto
    <2>3. req[p].step = "count" /\ req'[p].step = "compare" /\ req'[p].otp = req[p].otp
      BY <1>0, <1>2 DEF CountAttempt, Goto, Request
    <2> QED BY <2>1, <2>2, <2>3, LoginsStay DEF Matched
  <1>3. ASSUME NEW p \in Procs, \E right \in BOOLEAN : CompareAndMark(p, right)
        PROVE  LoginInv'
    <2>1. req[p].step = "compare" /\ UNCHANGED sessions
      BY <1>3 DEF CompareAndMark
    <2>2. \A q \in Procs \ {p} : req'[q] = req[q]
      BY <1>0, <1>3 DEF CompareAndMark, Goto, Finish
    <2>3. CASE otps' = [otps EXCEPT ![req[p].otp].verified = TRUE] /\ Goto(p, "findUser")
      <3>1. /\ DOMAIN otps' = DOMAIN otps
            /\ \A o \in DOMAIN otps : otps[o].verified => otps'[o].verified
            /\ req[p].otp \in DOMAIN otps => otps'[req[p].otp].verified
        BY <2>3, OtpRows DEF Otp
      <3>2. req'[p].step = "findUser" /\ req'[p].otp = req[p].otp
        BY <1>0, <2>3 DEF Goto, Request
      <3> QED BY <2>1, <2>2, <3>1, <3>2, LoginsStay DEF Matched
    <2>4. CASE otps' = otps /\ Finish(p)
      <3>1. req'[p].step = "idle"
        BY <1>0, <2>4 DEF Finish, Idle
      <3> QED BY <2>1, <2>2, <2>4, <3>1, LoginsStay DEF Matched
    <2> QED BY <1>3, <2>3, <2>4 DEF CompareAndMark
  <1>4. CASE WindowExpires \/ MakeStoreOwner \/ \E w \in Portals : DropCookie(w)
    <2>1. UNCHANGED <<otps, sessions, req>>
      BY <1>4 DEF WindowExpires, MakeStoreOwner, DropCookie
    <2> QED BY <2>1, LoginsStay DEF Matched
  <1>5. CASE Restart
    <2>1. UNCHANGED <<otps, sessions>> /\ req' = [q \in Procs |-> Idle]
      BY <1>5 DEF Restart
    <2> QED BY <2>1, LoginsStay DEF Matched, Idle
  <1>6. CASE Logout
    <2>1. UNCHANGED <<otps, req>> /\ sessions' = [sessions EXCEPT ![cookie["store"]].revoked = TRUE]
      BY <1>6 DEF Logout
    <2>2. \A s \in DOMAIN sessions : sessions[s] \in Session
      BY LenProperties, ElementOfSeq DEF TypeOK
    <2>3. DOMAIN sessions' = DOMAIN sessions /\ \A s \in DOMAIN sessions : sessions'[s].otp = sessions[s].otp
      BY <2>1, <2>2 DEF Session
    <2> QED BY <2>1, <2>3, LoginsStay DEF Matched
  <1>7. ASSUME NEW o \in DOMAIN otps, OtpExpires(o)
        PROVE  LoginInv'
    <2>1. UNCHANGED <<sessions, req>> /\ otps' = [otps EXCEPT ![o].expired = TRUE]
      BY <1>7 DEF OtpExpires
    <2>2. DOMAIN otps' = DOMAIN otps /\ \A i \in DOMAIN otps : otps'[i].verified = otps[i].verified
      BY <2>1, OtpRows DEF Otp
    <2> QED BY <2>1, <2>2, LoginsStay DEF Matched
  <1>8. ASSUME NEW p \in Procs,
               RecordInMemory(p) \/ ReadCount(p) \/ FindOtp(p) \/ RequestStep(p) \/ Crash(p)
        PROVE  LoginInv'
    BY <1>1, <1>2, <1>3, <1>8, FindOtpKeepsLogins, CreateOtpKeepsLogins, OpenSessionKeepsLogins
       DEF RequestStep
  <1> QED BY <1>4, <1>5, <1>6, <1>7, <1>8 DEF Next

\* One OTP opens at most as many sessions as there are requests at a time, however verifyOtp's
\* statements interleave: from the moment one of them has marked it, nobody else finds it.
THEOREM OneOtpFewLogins == Spec => []LoginsPerOtp
  <1> DEFINE Inv == TypeOK /\ LoginInv
  <1>1. Init => Inv
    <2> SUFFICES ASSUME Init PROVE LoginInv
      BY InitialTypes
    <2>1. DOMAIN otps = {} /\ DOMAIN sessions = {} /\ req = [p \in Procs |-> Idle]
      BY DEF Init
    <2> QED BY <2>1 DEF LoginInv, MarkedInv, LoginsPerOtp, Matched, Idle
  <1>2. Inv /\ [Next]_vars => Inv'
    <2>1. ASSUME Inv, Next
          PROVE  Inv'
      <3>1. TypeOK'
        BY <2>1, StepKeepsTypes
      <3> QED BY <2>1, <3>1, StepKeepsLogins
    <2>2. ASSUME Inv, UNCHANGED vars
          PROVE  Inv'
      <3>1. TypeOK'
        BY <2>2, StepKeepsTypes
      <3>2. UNCHANGED <<otps, sessions, req>>
        BY <2>2 DEF vars
      <3> QED BY <2>2, <3>1, <3>2, LoginsStay DEF Matched
    <2> QED BY <2>1, <2>2
  <1>3. Inv => LoginsPerOtp
    BY DEF LoginInv
  <1> QED BY <1>1, <1>2, <1>3, PTL DEF Spec
===============================================================================

------------------------------- MODULE Identity -------------------------------
(***************************************************************************)
(* Signing in with a one-time password, for one phone number: the OTP      *)
(* requests and their rate limiter, the verification of a code, the user   *)
(* row it creates, the session it opens, and the cookies in which the      *)
(* three web applications keep the session's token.  IdentityService,      *)
(* OtpService, the two rate limiters and the web apps' auth routes.        *)
(*                                                                         *)
(* requestOtp and verifyOtp run no transaction: every statement is a step  *)
(* of its own, steps of several requests interleave, and a request may die *)
(* between two of them.  The in-memory limiter is the exception: it counts *)
(* without awaiting anything, and forgets everything on a restart.         *)
(***************************************************************************)
EXTENDS Integers, Sequences, FiniteSets

CONSTANTS
  Procs,               \* requests that can be in flight at the same time
  Portals,             \* the web applications in use
  MaxVerifyAttempts,   \* MAX_VERIFY_ATTEMPTS
  MaxOtpRequests,      \* MAX_OTP_REQUESTS
  Limiters,            \* the limiters the API may be configured with
  Users,               \* the user rows the phone number may have at the start
  MaxOtps,             \* bound on the OTPs ever created
  MaxSessions          \* bound on the sessions ever opened

ASSUME IdentityAssumption ==
  /\ MaxVerifyAttempts \in Nat \ {0} /\ MaxOtpRequests \in Nat \ {0}
  /\ MaxOtps \in Nat /\ MaxSessions \in Nat
  /\ Portals \subseteq {"store", "owner", "admin"}
  /\ Limiters \subseteq {"redis", "memory"}
  /\ Users \subseteq [role : {"NONE", "CUSTOMER", "STORE_OWNER", "ADMIN"}, blocked : BOOLEAN]

ASSUME FiniteProcs == IsFiniteSet(Procs)

VARIABLES
  otps,       \* the otp_requests rows in the order of their creation
  user,       \* the users row of the phone number; role "NONE" when there is none
  sessions,   \* the sessions rows
  limiter,    \* which limiter there is, its count, and whether the count will expire
  cookie,     \* cookie[w]: the session whose token web application w's cookie holds
  req         \* req[p]: what request p does next and what it knows

vars == <<otps, user, sessions, limiter, cookie, req>>

-------------------------------------------------------------------------------
NoOtp == 0
NoSession == 0

Role == {"NONE", "CUSTOMER", "STORE_OWNER", "ADMIN"}

\* expired: five minutes are over.
Otp == [attempts : Nat, verified : BOOLEAN, expired : BOOLEAN]
NewOtp == [attempts |-> 0, verified |-> FALSE, expired |-> FALSE]

\* otp: the OTP that opened it; role: the role in its access token.  That token may
\* have expired, after fifteen minutes, at any step that looks at it.
Session == [otp : Nat, role : Role, revoked : BOOLEAN]

Step == {"idle", "increment", "expire", "createOtp",
         "count", "compare", "findUser", "createUser", "openSession", "answer"}

Idle == [step |-> "idle", otp |-> NoOtp, role |-> "NONE", session |-> NoSession]

Request == [step : Step, otp : Nat, role : Role, session : Nat]

Init ==
  /\ otps = << >> /\ sessions = << >>
  /\ user \in Users
  /\ limiter \in [kind : Limiters, count : {0}, expiring : {FALSE}]
  /\ cookie = [w \in Portals |-> NoSession]
  /\ req = [p \in Procs |-> Idle]

Goto(p, step) == req' = [req EXCEPT ![p].step = step]
Finish(p)     == req' = [req EXCEPT ![p] = Idle]

-------------------------------------------------------------------------------
(* Requesting an OTP *)

\* checkAndRecord of the in-memory limiter: nothing is awaited.
RecordInMemory(p) ==
  /\ limiter.kind = "memory" /\ req[p] = Idle /\ Len(otps) < MaxOtps
  /\ limiter.count < MaxOtpRequests
  /\ limiter' = [limiter EXCEPT !.count = @ + 1, !.expiring = TRUE]
  /\ Goto(p, "createOtp")
  /\ UNCHANGED <<otps, user, sessions, cookie>>

\* checkAndRecord of the Redis limiter: GET, INCR, and EXPIRE when INCR gave 1.
ReadCount(p) ==
  /\ limiter.kind = "redis" /\ req[p] = Idle /\ Len(otps) < MaxOtps
  /\ limiter.count < MaxOtpRequests
  /\ Goto(p, "increment")
  /\ UNCHANGED <<otps, user, sessions, limiter, cookie>>

IncrementCount(p) ==
  /\ req[p].step = "increment"
  /\ limiter' = [limiter EXCEPT !.count = @ + 1]
  /\ Goto(p, IF limiter.count = 0 THEN "expire" ELSE "createOtp")
  /\ UNCHANGED <<otps, user, sessions, cookie>>

SetExpiry(p) ==
  /\ req[p].step = "expire"
  /\ limiter' = [limiter EXCEPT !.expiring = limiter.count > 0]
  /\ Goto(p, "createOtp")
  /\ UNCHANGED <<otps, user, sessions, cookie>>

\* Mutant: the window never ends once the limit is reached.
WindowStays ==
  /\ limiter.expiring /\ limiter.count < MaxOtpRequests
  /\ limiter' = [limiter EXCEPT !.count = 0, !.expiring = FALSE]
  /\ UNCHANGED <<otps, user, sessions, cookie, req>>

\* Ten minutes after its first request the window is over.
WindowExpires ==
  /\ limiter.expiring
  /\ limiter' = [limiter EXCEPT !.count = 0, !.expiring = FALSE]
  /\ UNCHANGED <<otps, user, sessions, cookie, req>>

\* requestOtp stores the OTP and sends it.
CreateOtp(p) ==
  /\ req[p].step = "createOtp"
  /\ otps' = Append(otps, NewOtp)
  /\ Finish(p)
  /\ UNCHANGED <<user, sessions, limiter, cookie>>

-------------------------------------------------------------------------------
(* Verifying a code *)

Pending == {o \in DOMAIN otps : ~otps[o].verified /\ ~otps[o].expired}
Newest  == {o \in Pending : \A i \in Pending : i <= o}

\* Mutant: the attempts are not limited.
FindAnyOtp(p) ==
  /\ req[p] = Idle
  /\ \E o \in Newest : req' = [req EXCEPT ![p] = [Idle EXCEPT !.step = "count", !.otp = o]]
  /\ UNCHANGED <<otps, user, sessions, limiter, cookie>>

\* Mutant: an OTP is looked up whether it was used or not.
FindUsedOtp(p) ==
  /\ req[p] = Idle
  /\ \E o \in DOMAIN otps :
       /\ ~otps[o].expired /\ otps[o].attempts < MaxVerifyAttempts
       /\ req' = [req EXCEPT ![p] = [Idle EXCEPT !.step = "count", !.otp = o]]
  /\ UNCHANGED <<otps, user, sessions, limiter, cookie>>

\* verifyOtp reads the newest OTP that is neither used nor expired.
FindOtp(p) ==
  /\ req[p] = Idle
  /\ \E o \in Newest :
       /\ otps[o].attempts < MaxVerifyAttempts
       /\ req' = [req EXCEPT ![p] = [Idle EXCEPT !.step = "count", !.otp = o]]
  /\ UNCHANGED <<otps, user, sessions, limiter, cookie>>

CountAttempt(p) ==
  /\ req[p].step = "count"
  /\ otps' = [otps EXCEPT ![req[p].otp].attempts = @ + 1]
  /\ Goto(p, "compare")
  /\ UNCHANGED <<user, sessions, limiter, cookie>>

\* The comparison reads nothing shared: it and the update that marks the OTP used
\* are one step.  `right`: the code typed in is this OTP's.
CompareAndMark(p, right) ==
  /\ req[p].step = "compare"
  /\ \/ right
        /\ otps' = [otps EXCEPT ![req[p].otp].verified = TRUE]
        /\ Goto(p, "findUser")
     \/ ~right /\ Finish(p) /\ UNCHANGED otps
  /\ UNCHANGED <<user, sessions, limiter, cookie>>

FindUser(p) ==
  /\ req[p].step = "findUser"
  /\ \/ user.role = "NONE" /\ Goto(p, "createUser")
     \/ user.role # "NONE" /\ user.blocked /\ Finish(p)
     \/ /\ user.role # "NONE" /\ ~user.blocked
        /\ req' = [req EXCEPT ![p].step = "openSession", ![p].role = user.role]
  /\ UNCHANGED <<otps, user, sessions, limiter, cookie>>

\* Mutant: the phone number is not unique.
CreateAnyUser(p) ==
  /\ req[p].step = "createUser"
  /\ user' = [role |-> "CUSTOMER", blocked |-> FALSE]
  /\ req' = [req EXCEPT ![p].step = "openSession", ![p].role = "CUSTOMER"]
  /\ UNCHANGED <<otps, sessions, limiter, cookie>>

\* users.phone_number is unique: the insert fails when another request was faster,
\* and the sign-in with it.
CreateUser(p) ==
  /\ req[p].step = "createUser"
  /\ \/ /\ user.role = "NONE"
        /\ user' = [role |-> "CUSTOMER", blocked |-> FALSE]
        /\ req' = [req EXCEPT ![p].step = "openSession", ![p].role = "CUSTOMER"]
     \/ user.role # "NONE" /\ Finish(p) /\ UNCHANGED user
  /\ UNCHANGED <<otps, sessions, limiter, cookie>>

\* issueTokens
OpenSession(p) ==
  /\ req[p].step = "openSession" /\ Len(sessions) < MaxSessions
  /\ sessions' = Append(sessions, [otp |-> req[p].otp, role |-> req[p].role, revoked |-> FALSE])
  /\ req' = [req EXCEPT ![p].step = "answer", ![p].session = Len(sessions) + 1]
  /\ UNCHANGED <<otps, user, limiter, cookie>>

\* createStoreByAdmin makes the phone number's user a store owner.
MakeStoreOwner ==
  /\ user.role \in {"NONE", "CUSTOMER"}
  /\ user' = [user EXCEPT !.role = "STORE_OWNER"]
  /\ UNCHANGED <<otps, sessions, limiter, cookie, req>>

-------------------------------------------------------------------------------
(* The web applications *)

\* The roles an application lets in.
AllowedRoles(w) == CASE w = "store" -> Role
                     [] w = "owner" -> {"STORE_OWNER"}
                     [] w = "admin" -> {"ADMIN"}

\* The verify route of the application the code was typed into sets its cookie when the
\* API's answer has a role it lets in.
Answer(p, w) ==
  /\ req[p].step = "answer"
  /\ \/ /\ req[p].role \in AllowedRoles(w)
        /\ cookie' = [cookie EXCEPT ![w] = req[p].session]
     \/ req[p].role \notin AllowedRoles(w) /\ UNCHANGED cookie
  /\ Finish(p)
  /\ UNCHANGED <<otps, user, sessions, limiter>>

\* The shop's logout route calls the API's logout, which revokes the session of the
\* cookie when that is active and the token has not expired.  No other request reads
\* that column before it is done, so the call is one step.
Logout ==
  /\ "store" \in Portals /\ cookie["store"] # NoSession
  /\ ~sessions[cookie["store"]].revoked
  /\ sessions' = [sessions EXCEPT ![cookie["store"]].revoked = TRUE]
  /\ UNCHANGED <<otps, user, limiter, cookie, req>>

\* The cookie goes after the shop's call whatever became of it, at once when an owner
\* or an admin signs out, and when an application sees that the token has expired.
DropCookie(w) ==
  /\ cookie[w] # NoSession
  /\ cookie' = [cookie EXCEPT ![w] = NoSession]
  /\ UNCHANGED <<otps, user, sessions, limiter, req>>

-------------------------------------------------------------------------------
(* Time and failures *)

\* OTPs expire in the order of their creation.
OtpExpires(o) ==
  /\ ~otps[o].expired /\ \A i \in 1..(o - 1) : otps[i].expired
  /\ otps' = [otps EXCEPT ![o].expired = TRUE]
  /\ UNCHANGED <<user, sessions, limiter, cookie, req>>

\* A request ends between two statements, or its answer is lost.
Crash(p) ==
  /\ req[p] # Idle
  /\ Finish(p)
  /\ UNCHANGED <<otps, user, sessions, limiter, cookie>>

\* The process restarts: the in-memory limiter forgets its count.
Restart ==
  /\ limiter.kind = "memory" /\ limiter.count > 0
  /\ limiter' = [limiter EXCEPT !.count = 0, !.expiring = FALSE]
  /\ req' = [p \in Procs |-> Idle]
  /\ UNCHANGED <<otps, user, sessions, cookie>>

RequestStep(p) ==
  \/ IncrementCount(p) \/ SetExpiry(p) \/ CreateOtp(p)
  \/ CountAttempt(p) \/ FindUser(p) \/ CreateUser(p) \/ OpenSession(p)
  \/ \E right \in BOOLEAN : CompareAndMark(p, right)
  \/ \E w \in Portals : Answer(p, w)

Next ==
  \/ \E p \in Procs :
       \/ RecordInMemory(p) \/ ReadCount(p) \/ FindOtp(p)
       \/ RequestStep(p) \/ Crash(p)
  \/ WindowExpires \/ MakeStoreOwner \/ Logout \/ Restart
  \/ \E w \in Portals : DropCookie(w)
  \/ \E o \in DOMAIN otps : OtpExpires(o)

Spec == Init /\ [][Next]_vars

\* A request that does not die goes on, and Redis, or the check of the window's end,
\* expires what has an expiry.  Nothing makes anybody send a request.
Fairness == WF_vars(WindowExpires) /\ \A p \in Procs : WF_vars(RequestStep(p))

FairSpec == Spec /\ Fairness

-------------------------------------------------------------------------------
(* Properties *)

TypeOK ==
  /\ otps \in Seq(Otp) /\ sessions \in Seq(Session)
  /\ user \in [role : Role, blocked : BOOLEAN]
  /\ limiter \in [kind : Limiters, count : Nat, expiring : BOOLEAN]
  /\ cookie \in [Portals -> {NoSession} \cup DOMAIN sessions]
  /\ req \in [Procs -> Request]
  /\ \A p \in Procs : req[p].otp \in {NoOtp} \cup DOMAIN otps
  /\ \A p \in Procs : req[p].session \in {NoSession} \cup DOMAIN sessions

\* The attempts on one OTP exceed MAX_VERIFY_ATTEMPTS at most by the requests that
\* overlap the last one allowed: verifyOtp reads attemptCount before it increments it.
AttemptsBounded ==
  \A o \in DOMAIN otps : otps[o].attempts <= MaxVerifyAttempts + Cardinality(Procs) - 1

\* The requests counted in one window exceed MAX_OTP_REQUESTS at most by those that
\* overlap, the Redis limiter reading the count before it increments it; the in-memory
\* limiter is exact.
WindowBounded ==
  /\ limiter.count <= MaxOtpRequests + Cardinality(Procs) - 1
  /\ limiter.kind = "memory" => limiter.count <= MaxOtpRequests

\* Both limits are exceeded by what overlaps, and by no more.
LimitsHold == AttemptsBounded /\ WindowBounded

SessionsOf(o) == {s \in DOMAIN sessions : sessions[s].otp = o}

\* The requests that have found OTP o and have not opened their session yet.
InFlight(o) ==
  {p \in Procs : req[p].otp = o
     /\ req[p].step \in {"count", "compare", "findUser", "createUser", "openSession"}}

\* One OTP opens as many sessions as there are requests that overlap, and no more: it is
\* marked as used only after it was read and compared, but from then on nobody finds it.
LoginsPerOtp ==
  \A o \in DOMAIN otps :
    Cardinality(SessionsOf(o)) + Cardinality(InFlight(o)) <= Cardinality(Procs)

\* Nobody becomes less than he was: a first sign-in that overlaps the admin's
\* createStoreByAdmin does not turn the new owner into a customer.
RoleOnlyRises ==
  [][\/ user'.role = user.role
     \/ user.role = "NONE"
     \/ user.role = "CUSTOMER" /\ user'.role = "STORE_OWNER"]_vars

\* "Too many OTP requests. Try again after 10 minutes.": the limit of the in-memory limiter
\* lifts, its count and expiry being set together.  Redis's may stay for good, if a request
\* dies between INCR and EXPIRE.
MemoryLimitLifts ==
  limiter.kind = "memory" /\ limiter.count >= MaxOtpRequests ~> limiter.count < MaxOtpRequests
===============================================================================

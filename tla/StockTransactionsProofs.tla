------------------------ MODULE StockTransactionsProofs ------------------------
(***************************************************************************)
(* The transactions on the stock are atomic and isolated, for every number *)
(* of transactions and rows, every order in which a transaction locks its  *)
(* rows and every size of the connection pool.                             *)
(***************************************************************************)
EXTENDS StockTransactions, TLAPS

-------------------------------------------------------------------------------
(* The invariant *)

Requests == [kind : Book!Kind, rows : SUBSET Rows]

\* What TypeOK leaves open: the domains of the functions.
ShapeOK ==
  /\ step \in [Txs -> Step]
  /\ request \in [Txs -> {NoRequest} \cup Requests]
  /\ plan \in [Txs -> Seq(Rows)]
  /\ locked \in [Txs -> Nat]
  /\ work = [t \in Txs |-> work[t]]

\* How far each transaction is with its plan.
ProgressOK ==
  \A t \in Txs :
    /\ locked[t] <= Len(plan[t])
    /\ step[t] \in {"none", "connect", "second"} => locked[t] = 0
    /\ step[t] = "lock" => locked[t] < Len(plan[t])
    /\ step[t] = "second" => Len(plan[t]) = 0
    /\ step[t] \in {"check", "write", "commit"} => locked[t] = Len(plan[t])

\* An open transaction's rows are those of its plan.
RequestOK ==
  \A t \in Txs : step[t] # "none" =>
    /\ request[t] \in Requests
    /\ request[t].rows = {plan[t][i] : i \in 1..Len(plan[t])}

\* A transaction about to commit has written what its operation makes of the rows as they
\* still are, each of which allows it.
WorkOK ==
  \A t \in Txs :
    /\ step[t] \in {"none", "connect", "second"} => DOMAIN work[t] = {}
    /\ step[t] = "commit" =>
         /\ DOMAIN work[t] = request[t].rows
         /\ AllAllow(t)
         /\ \A r \in request[t].rows : work[t][r] = Book!Changed(request[t].kind, stock[r])

TxInv == ShapeOK /\ ProgressOK /\ RequestOK /\ RowsHeldOnce /\ WorkOK

-------------------------------------------------------------------------------
(* Lemmas *)

\* The rows that nobody has written.
LEMMA NothingIsWritten == DOMAIN Nothing = {}
  BY DEF Nothing

\* The kinds a transaction may be opened for are those of the abstract specification.
LEMMA KindsAreKinds == \A t \in Txs : Kinds[t] \subseteq Book!Kind
  BY TransactionsAssumption DEF Book!Kind

\* A plan is a sequence of rows, and its range the set of its entries.
LEMMA PlanIsSequence ==
  ASSUME NEW kind, NEW p \in Plans(kind)
  PROVE  p \in Seq(Rows) /\ Range(p) = {p[i] : i \in 1..Len(p)}
  <1>1. PICK n \in Nat : p \in [1..n -> Rows]
    BY DEF Plans
  <1>2. p \in Seq(Rows) /\ Len(p) = n /\ DOMAIN p = 1..n
    BY <1>1
  <1> QED BY <1>2 DEF Range

\* What a transaction with all of its locks concerns, it holds.
LEMMA RowsAreHeld ==
  ASSUME ProgressOK, RequestOK, NEW t \in Txs, step[t] \in {"check", "write", "commit"}
  PROVE  request[t].rows = Holds(t)
  BY DEF ProgressOK, RequestOK, Holds

\* Before any transaction begins, nobody holds a lock and nothing is written.
THEOREM InitiallyTxInv == Init => TxInv
  BY NothingIsWritten
  DEF Init, TxInv, ShapeOK, ProgressOK, RequestOK, RowsHeldOnce, WorkOK, Holds, Step

-------------------------------------------------------------------------------
(* Steps *)

LEMMA OpenKeepsInv ==
  ASSUME TxInv, NEW t \in Txs, Open(t)
  PROVE  TxInv'
  <1>0. PICK kind \in Kinds[t] : \E p \in Plans(kind) :
          /\ plan' = [plan EXCEPT ![t] = p]
          /\ request' = [request EXCEPT ![t] = [kind |-> kind, rows |-> Range(p)]]
    BY DEF Open
  <1>1. PICK p \in Plans(kind) :
          /\ plan' = [plan EXCEPT ![t] = p]
          /\ request' = [request EXCEPT ![t] = [kind |-> kind, rows |-> Range(p)]]
    BY <1>0
  <1>2. /\ p \in Seq(Rows) /\ Range(p) = {p[i] : i \in 1..Len(p)} /\ kind \in Book!Kind
        /\ Range(p) \subseteq Rows
    BY PlanIsSequence, KindsAreKinds
  <1>3. /\ step[t] = "none" /\ step' = [step EXCEPT ![t] = "connect"]
        /\ UNCHANGED <<stock, locked, work>> /\ locked[t] = 0
    BY DEF Open, Goto, TxInv, ProgressOK
  <1> DEFINE new == [kind |-> kind, rows |-> Range(p)]
  <1>4. new \in Requests /\ new.rows = Range(p)
    BY <1>2 DEF Requests
  <1>5. request' = [request EXCEPT ![t] = new]
    BY <1>1
  <1> HIDE DEF new
  <1>6. ShapeOK'
    BY <1>1, <1>2, <1>3, <1>4, <1>5 DEF TxInv, ShapeOK, Step
  <1>7. ProgressOK'
    BY <1>1, <1>2, <1>3 DEF TxInv, ShapeOK, ProgressOK
  <1>8. RequestOK'
    <2>1. request'[t] = new /\ plan'[t] = p
      BY <1>1, <1>5 DEF TxInv, ShapeOK
    <2>2. request'[t] \in Requests /\ request'[t].rows = {plan'[t][i] : i \in 1..Len(plan'[t])}
      BY <1>2, <1>4, <2>1
    <2>3. \A u \in Txs \ {t} :
            request'[u] = request[u] /\ plan'[u] = plan[u] /\ step'[u] = step[u]
      BY <1>1, <1>3, <1>5 DEF TxInv, ShapeOK
    <2> QED BY <2>2, <2>3 DEF TxInv, RequestOK
  <1>9. RowsHeldOnce'
    <2>1. Holds(t)' = {}
      BY <1>3 DEF Holds
    <2>2. \A u \in Txs \ {t} : Holds(u)' = Holds(u)
      BY <1>1, <1>3 DEF Holds, TxInv, ShapeOK
    <2> QED BY <2>1, <2>2 DEF TxInv, RowsHeldOnce
  <1>10. WorkOK'
    BY <1>1, <1>3, <1>5 DEF TxInv, ShapeOK, WorkOK, AllAllow
  <1> QED BY <1>6, <1>7, <1>8, <1>9, <1>10 DEF TxInv

\* A step that leaves plans and requests alone and locks nothing keeps everything but,
\* perhaps, what concerns the work.
LEMMA AdvanceKeepsRest ==
  ASSUME TxInv, NEW t \in Txs, NEW s \in Step \ {"none"}, step[t] # "none",
         Goto(t, s), UNCHANGED <<request, plan>>,
         work' = [x \in Txs |-> work'[x]],
         \/ locked' = [locked EXCEPT ![t] = 0] /\ s \in Ended
         \/ /\ UNCHANGED locked
            /\ s = "lock" => locked[t] < Len(plan[t])
            /\ s \in {"connect", "second"} => locked[t] = 0
            /\ s = "second" => Len(plan[t]) = 0
            /\ s \in {"check", "write", "commit"} => locked[t] = Len(plan[t])
  PROVE  ShapeOK' /\ ProgressOK' /\ RequestOK' /\ RowsHeldOnce'
  <1>1. step' = [step EXCEPT ![t] = s]
    BY DEF Goto
  <1>2. ShapeOK'
    <2>1. locked' = locked \/ locked' = [locked EXCEPT ![t] = 0]
      OBVIOUS
    <2>2. locked' \in [Txs -> Nat]
      <3>1. locked \in [Txs -> Nat]
        BY DEF TxInv, ShapeOK
      <3> HIDE DEF TxInv
      <3> QED BY <2>1, <3>1
    <2>3. step' \in [Txs -> Step]
      BY <1>1 DEF TxInv, ShapeOK
    <2> QED BY <2>2, <2>3 DEF TxInv, ShapeOK
  <1>3. ProgressOK'
    BY <1>1 DEF TxInv, ShapeOK, ProgressOK, Ended, Step
  <1>4. RequestOK'
    BY <1>1 DEF TxInv, ShapeOK, RequestOK
  <1>5. \A u \in Txs : Holds(u)' \subseteq Holds(u)
    <2>1. CASE UNCHANGED locked
      BY <2>1 DEF Holds
    <2>2. CASE locked' = [locked EXCEPT ![t] = 0]
      BY <2>2 DEF Holds, TxInv, ShapeOK
    <2> QED BY <2>1, <2>2
  <1>6. RowsHeldOnce'
    BY <1>5 DEF TxInv, RowsHeldOnce
  <1> QED BY <1>2, <1>3, <1>4, <1>6

\* A transaction that fails, whatever for.
LEMMA FailureKeepsInv ==
  ASSUME TxInv, NEW t \in Txs, step[t] # "none",
         End(t, "failed"), UNCHANGED <<stock, request, plan>>
  PROVE  TxInv'
  <1>1. /\ step' = [step EXCEPT ![t] = "failed"]
        /\ locked' = [locked EXCEPT ![t] = 0]
        /\ work' = [work EXCEPT ![t] = Nothing]
    BY DEF End, Goto
  <1>2. work' = [x \in Txs |-> work'[x]] /\ "failed" \in Step \ {"none"} /\ "failed" \in Ended
    BY <1>1 DEF TxInv, ShapeOK, Step, Ended
  <1>3. ShapeOK' /\ ProgressOK' /\ RequestOK' /\ RowsHeldOnce'
    BY <1>1, <1>2, AdvanceKeepsRest DEF Goto
  <1>4. WorkOK'
    BY <1>1 DEF TxInv, ShapeOK, WorkOK, AllAllow
  <1> QED BY <1>3, <1>4 DEF TxInv

LEMMA ConnectKeepsInv ==
  ASSUME TxInv, NEW t \in Txs, Connect(t)
  PROVE  TxInv'
  <1> DEFINE s == IF plan[t] = << >> THEN "second" ELSE "lock"
  <1>1. step[t] = "connect" /\ Goto(t, s) /\ UNCHANGED <<stock, request, plan, locked, work>>
    BY DEF Connect
  <1>2. plan[t] \in Seq(Rows) /\ locked[t] = 0
    BY <1>1 DEF TxInv, ShapeOK, ProgressOK
  <1>3. /\ s \in Step \ {"none"} /\ s \in {"lock", "second"}
        /\ s = "lock" => locked[t] < Len(plan[t])
        /\ s = "second" => Len(plan[t]) = 0
    BY <1>2 DEF Step
  <1>4. work' = [x \in Txs |-> work'[x]]
    BY <1>1 DEF TxInv, ShapeOK
  <1> HIDE DEF s
  <1>5. ShapeOK' /\ ProgressOK' /\ RequestOK' /\ RowsHeldOnce'
    BY <1>1, <1>2, <1>3, <1>4, AdvanceKeepsRest
  <1>6. WorkOK'
    BY <1>1, <1>3 DEF TxInv, ShapeOK, WorkOK, AllAllow, Goto
  <1> QED BY <1>5, <1>6 DEF TxInv

\* A lock is taken only of a row that nobody holds.
LEMMA LockKeepsInv ==
  ASSUME TxInv, NEW t \in Txs, Lock(t)
  PROVE  TxInv'
  <1> DEFINE s == IF locked[t] + 1 = Len(plan[t]) THEN "check" ELSE "lock"
  <1>1. /\ step[t] = "lock" /\ \A u \in Txs : ~WaitsFor(t, u)
        /\ locked' = [locked EXCEPT ![t] = @ + 1]
        /\ step' = [step EXCEPT ![t] = s]
        /\ UNCHANGED <<stock, request, plan, work>>
    BY DEF Lock, Goto
  <1>2. locked[t] \in Nat /\ Len(plan[t]) \in Nat /\ locked[t] < Len(plan[t])
    BY <1>1 DEF TxInv, ShapeOK, ProgressOK
  <1>3. /\ s \in Step /\ s \in {"check", "lock"}
        /\ s = "lock" => locked[t] + 1 < Len(plan[t])
        /\ s = "check" => locked[t] + 1 = Len(plan[t])
    BY <1>2 DEF Step
  <1> HIDE DEF s
  <1>4. ShapeOK'
    BY <1>1, <1>2, <1>3 DEF TxInv, ShapeOK
  <1>5. ProgressOK'
    BY <1>1, <1>2, <1>3 DEF TxInv, ShapeOK, ProgressOK
  <1>6. RequestOK'
    BY <1>1, <1>3 DEF TxInv, ShapeOK, RequestOK
  <1>7. RowsHeldOnce'
    <2>1. Holds(t)' \subseteq Holds(t) \cup {NextRow(t)}
      BY <1>1, <1>2 DEF Holds, NextRow, TxInv, ShapeOK
    <2>2. \A u \in Txs \ {t} : Holds(u)' = Holds(u) /\ NextRow(t) \notin Holds(u)
      BY <1>1 DEF Holds, WaitsFor, TxInv, ShapeOK
    <2> QED BY <2>1, <2>2 DEF TxInv, RowsHeldOnce
  <1>8. WorkOK'
    BY <1>1, <1>3 DEF TxInv, ShapeOK, WorkOK, AllAllow
  <1> QED BY <1>4, <1>5, <1>6, <1>7, <1>8 DEF TxInv

LEMMA CheckKeepsInv ==
  ASSUME TxInv, NEW t \in Txs, Check(t)
  PROVE  TxInv'
  <1>1. CASE AllAllow(t) /\ Goto(t, "write") /\ UNCHANGED <<locked, work>>
    <2>1. step[t] = "check" /\ UNCHANGED <<stock, request, plan>>
      BY DEF Check
    <2>2. locked[t] = Len(plan[t]) /\ "write" \in Step \ {"none"} /\ "write" \notin Ended
      BY <2>1 DEF TxInv, ProgressOK, Step, Ended
    <2>3. work' = [x \in Txs |-> work'[x]]
      BY <1>1 DEF TxInv, ShapeOK
    <2>4. ShapeOK' /\ ProgressOK' /\ RequestOK' /\ RowsHeldOnce'
      BY <1>1, <2>1, <2>2, <2>3, AdvanceKeepsRest
    <2>5. WorkOK'
      BY <1>1, <2>1 DEF TxInv, ShapeOK, WorkOK, AllAllow, Goto
    <2> QED BY <2>4, <2>5 DEF TxInv
  <1>2. CASE End(t, "failed")
    BY <1>2, FailureKeepsInv DEF Check
  <1> QED BY <1>1, <1>2 DEF Check

LEMMA WriteKeepsInv ==
  ASSUME TxInv, NEW t \in Txs, Write(t)
  PROVE  TxInv'
  <1>1. CASE AllAllow(t) /\ Goto(t, "commit")
    <2> DEFINE rows == [r \in request[t].rows |-> Book!Changed(request[t].kind, stock[r])]
    <2>1. /\ step[t] = "write" /\ UNCHANGED <<stock, request, plan, locked>>
          /\ work' = [work EXCEPT ![t] = rows]
      BY <1>1 DEF Write, Goto, End, TxInv, ShapeOK, Step
    <2>2. locked[t] = Len(plan[t]) /\ "commit" \in Step \ {"none"} /\ "commit" \notin Ended
      BY <2>1 DEF TxInv, ProgressOK, Step, Ended
    <2>3. work' = [x \in Txs |-> work'[x]] /\ work'[t] = rows
      BY <2>1 DEF TxInv, ShapeOK
    <2>4. ShapeOK' /\ ProgressOK' /\ RequestOK' /\ RowsHeldOnce'
      BY <1>1, <2>1, <2>2, <2>3, AdvanceKeepsRest
    <2>5. WorkOK'
      <3>1. /\ DOMAIN work'[t] = request[t].rows
            /\ \A r \in request[t].rows :
                 work'[t][r] = Book!Changed(request[t].kind, stock[r])
        BY <2>3
      <3>2. \A u \in Txs \ {t} : work'[u] = work[u] /\ step'[u] = step[u]
        BY <1>1, <2>1 DEF Goto, TxInv, ShapeOK
      <3>3. step'[t] = "commit"
        BY <1>1 DEF Goto, TxInv, ShapeOK
      <3> HIDE DEF rows
      <3> QED BY <1>1, <2>1, <3>1, <3>2, <3>3 DEF TxInv, WorkOK, AllAllow
    <2> QED BY <2>4, <2>5 DEF TxInv
  <1>2. CASE End(t, "failed")
    BY <1>2, FailureKeepsInv DEF Write
  <1> QED BY <1>1, <1>2 DEF Write

LEMMA ClearKeepsInv ==
  ASSUME TxInv, NEW t \in Txs, ClearOnSecondConnection(t)
  PROVE  TxInv'
  <1>1. /\ step[t] = "second" /\ Goto(t, "commit")
        /\ UNCHANGED <<stock, request, plan, locked, work>>
    BY DEF ClearOnSecondConnection
  <1>2. /\ locked[t] = 0 /\ Len(plan[t]) = 0
        /\ "commit" \in Step \ {"none"} /\ "commit" \notin Ended
    BY <1>1 DEF TxInv, ProgressOK, Step, Ended
  <1>3. work' = [x \in Txs |-> work'[x]]
    BY <1>1 DEF TxInv, ShapeOK
  <1>4. ShapeOK' /\ ProgressOK' /\ RequestOK' /\ RowsHeldOnce'
    BY <1>1, <1>2, <1>3, AdvanceKeepsRest
  <1>5. WorkOK'
    <2>1. request[t].rows = {} /\ DOMAIN work[t] = {}
      BY <1>1, <1>2 DEF TxInv, RequestOK, WorkOK
    <2> QED BY <1>1, <2>1 DEF TxInv, ShapeOK, WorkOK, AllAllow, Goto
  <1> QED BY <1>4, <1>5 DEF TxInv

\* A commit changes no row that another transaction is about to write: it holds its own.
LEMMA CommitKeepsInv ==
  ASSUME TxInv, NEW t \in Txs, Commit(t)
  PROVE  TxInv'
  <1>1. /\ step[t] = "commit" /\ UNCHANGED <<request, plan>>
        /\ stock' = [r \in Rows |-> IF r \in DOMAIN work[t] THEN work[t][r] ELSE stock[r]]
        /\ step' = [step EXCEPT ![t] = "committed"]
        /\ locked' = [locked EXCEPT ![t] = 0]
        /\ work' = [work EXCEPT ![t] = Nothing]
    BY DEF Commit, End, Goto
  <1>2. work' = [x \in Txs |-> work'[x]] /\ "committed" \in Step \ {"none"} /\ "committed" \in Ended
    BY <1>1 DEF TxInv, ShapeOK, Step, Ended
  <1>3. ShapeOK' /\ ProgressOK' /\ RequestOK' /\ RowsHeldOnce'
    BY <1>1, <1>2, AdvanceKeepsRest DEF Goto
  <1>4. \A u \in Txs \ {t} : step[u] = "commit" =>
          \A r \in request[u].rows : stock'[r] = stock[r]
    <2>1. SUFFICES ASSUME NEW u \in Txs \ {t}, step[u] = "commit", NEW r \in request[u].rows
                   PROVE  stock'[r] = stock[r]
      OBVIOUS
    <2>2. r \in Holds(u) /\ DOMAIN work[t] = Holds(t)
      BY <1>1, <2>1, RowsAreHeld DEF TxInv, WorkOK
    <2>3. r \notin DOMAIN work[t]
      BY <2>2 DEF TxInv, RowsHeldOnce
    <2>4. r \in Rows
      BY <2>1 DEF TxInv, RequestOK, Requests
    <2> QED BY <1>1, <2>3, <2>4
  <1>5. WorkOK'
    <2>1. step'[t] = "committed"
      BY <1>1 DEF TxInv, ShapeOK
    <2>2. \A u \in Txs \ {t} : step'[u] = step[u] /\ work'[u] = work[u]
      BY <1>1 DEF TxInv, ShapeOK
    <2>3. SUFFICES ASSUME NEW u \in Txs
                   PROVE  /\ step'[u] \in {"none", "connect", "second"} => DOMAIN work'[u] = {}
                          /\ step'[u] = "commit" =>
                               /\ DOMAIN work'[u] = request'[u].rows
                               /\ \A r \in request'[u].rows : Book!Allows(request'[u].kind, stock'[r])
                               /\ \A r \in request'[u].rows :
                                    work'[u][r] = Book!Changed(request'[u].kind, stock'[r])
      BY DEF WorkOK, AllAllow
    <2>4. CASE u = t
      BY <2>1, <2>4
    <2>5. CASE u # t /\ step[u] # "commit"
      BY <1>1, <2>2, <2>5 DEF TxInv, WorkOK
    <2>6. CASE u # t /\ step[u] = "commit"
      <3>1. \A r \in request[u].rows : stock'[r] = stock[r]
        BY <1>4, <2>6
      <3>2. /\ DOMAIN work[u] = request[u].rows
            /\ \A r \in request[u].rows : Book!Allows(request[u].kind, stock[r])
            /\ \A r \in request[u].rows : work[u][r] = Book!Changed(request[u].kind, stock[r])
        BY <2>6 DEF TxInv, WorkOK, AllAllow
      <3> QED BY <1>1, <2>2, <2>6, <3>1, <3>2
    <2> QED BY <2>4, <2>5, <2>6
  <1> QED BY <1>3, <1>5 DEF TxInv

\* TxInv is inductive: every statement, rollback, victim and timeout of a
\* transaction keeps it.
THEOREM StepKeepsTxInv == TxInv /\ [Next]_vars => TxInv'
  <1>1. ASSUME TxInv, UNCHANGED vars
        PROVE  TxInv'
    <2>1. UNCHANGED <<stock, request, step, plan, locked, work>>
      BY <1>1 DEF vars
    <2>2. ShapeOK' /\ ProgressOK' /\ RequestOK'
      BY <1>1, <2>1 DEF TxInv, ShapeOK, ProgressOK, RequestOK
    <2>3. RowsHeldOnce'
      BY <1>1, <2>1 DEF TxInv, RowsHeldOnce, Holds
    <2>4. WorkOK'
      BY <1>1, <2>1 DEF TxInv, WorkOK, AllAllow
    <2> QED BY <2>2, <2>3, <2>4 DEF TxInv
  <1>2. ASSUME TxInv, NEW t \in Txs,
               Open(t) \/ Advance(t) \/ DeadlockVictim(t) \/ PoolTimeout(t) \/ Abort(t)
        PROVE  TxInv'
    <2>1. CASE Open(t)
      BY <1>2, <2>1, OpenKeepsInv
    <2>2. CASE Connect(t)
      BY <1>2, <2>2, ConnectKeepsInv
    <2>3. CASE Lock(t)
      BY <1>2, <2>3, LockKeepsInv
    <2>4. CASE Check(t)
      BY <1>2, <2>4, CheckKeepsInv
    <2>5. CASE Write(t)
      BY <1>2, <2>5, WriteKeepsInv
    <2>6. CASE ClearOnSecondConnection(t)
      BY <1>2, <2>6, ClearKeepsInv
    <2>7. CASE Commit(t)
      BY <1>2, <2>7, CommitKeepsInv
    <2>8. CASE DeadlockVictim(t) \/ PoolTimeout(t) \/ Abort(t)
      BY <1>2, <2>8, FailureKeepsInv DEF DeadlockVictim, PoolTimeout, Abort
    <2> QED BY <1>2, <2>1, <2>2, <2>3, <2>4, <2>5, <2>6, <2>7, <2>8 DEF Advance
  <1> QED BY <1>1, <1>2 DEF Next

\* SELECT ... FOR UPDATE in checkout, rejectOrder, cancelOrder, completeOrder and adjustStock:
\* no two transactions hold one inventory row, whatever fails or times out.
THEOREM RowsAreHeldOnce == Spec => []RowsHeldOnce
  <1>1. Spec => []TxInv
    BY InitiallyTxInv, StepKeepsTxInv, PTL DEF Spec
  <1>2. TxInv => RowsHeldOnce
    BY DEF TxInv
  <1> QED BY <1>1, <1>2, PTL

-------------------------------------------------------------------------------
(* Refinement *)

\* Each step of a transaction is a step of the abstract specification, or none.
outcome == [t \in Txs |-> Outcome(step[t])]

LEMMA OutcomeOfStep ==
  ASSUME ShapeOK, NEW t \in Txs, NEW s \in Step, Goto(t, s)
  PROVE  outcome' = [outcome EXCEPT ![t] = Outcome(s)]
  BY DEF ShapeOK, Goto, outcome

LEMMA OpenOutcomes ==
  /\ Outcome("none") = "none"
  /\ \A s \in {"connect", "lock", "check", "write", "second", "commit"} : Outcome(s) = "open"
  /\ Outcome("committed") = "committed" /\ Outcome("failed") = "failed"
  BY DEF Outcome

LEMMA InitImplements == Init => Book!Init
  BY OpenOutcomes DEF Init, Book!Init

\* A failure, or a step between opening and ending.
LEMMA FailImplements ==
  ASSUME TxInv, NEW t \in Txs, Outcome(step[t]) = "open",
         End(t, "failed"), UNCHANGED <<stock, request, plan>>
  PROVE  Book!Fail(t)
  <1>1. outcome' = [outcome EXCEPT ![t] = "failed"]
    BY OutcomeOfStep, OpenOutcomes DEF TxInv, End, Step
  <1> QED BY <1>1 DEF Book!Fail, outcome

LEMMA InnerStepImplements ==
  ASSUME TxInv, NEW t \in Txs, NEW s \in Step, Goto(t, s),
         Outcome(step[t]) = "open", Outcome(s) = "open", UNCHANGED <<stock, request>>
  PROVE  UNCHANGED Book!vars
  <1>1. outcome' = [outcome EXCEPT ![t] = "open"]
    BY OutcomeOfStep DEF TxInv
  <1>2. outcome[t] = "open"
    BY DEF outcome
  <1>3. outcome' = outcome
    BY <1>1, <1>2 DEF outcome
  <1> QED BY <1>3 DEF Book!vars, outcome

LEMMA OpenImplements ==
  ASSUME TxInv, NEW t \in Txs, Open(t)
  PROVE  Book!Open(t)
  <1>1. outcome' = [outcome EXCEPT ![t] = "open"]
    BY OutcomeOfStep, OpenOutcomes DEF TxInv, Open, Step
  <1>2. outcome[t] = "none" /\ UNCHANGED stock
    BY OpenOutcomes DEF Open, outcome
  <1>3. PICK kind \in Kinds[t] : \E p \in Plans(kind) :
          request' = [request EXCEPT ![t] = [kind |-> kind, rows |-> Range(p)]]
    BY DEF Open
  <1>4. PICK p \in Plans(kind) :
          request' = [request EXCEPT ![t] = [kind |-> kind, rows |-> Range(p)]]
    BY <1>3
  <1>5. kind \in Book!Kind /\ Range(p) \in SUBSET Rows
    BY KindsAreKinds, PlanIsSequence
  <1> QED BY <1>1, <1>2, <1>4, <1>5 DEF Book!Open, outcome

LEMMA CommitImplements ==
  ASSUME TxInv, NEW t \in Txs, Commit(t)
  PROVE  Book!Commit(t)
  <1>1. /\ step[t] = "commit" /\ UNCHANGED request
        /\ stock' = [r \in Rows |-> IF r \in DOMAIN work[t] THEN work[t][r] ELSE stock[r]]
        /\ Goto(t, "committed")
    BY DEF Commit, End
  <1>2. outcome' = [outcome EXCEPT ![t] = "committed"]
    BY <1>1, OutcomeOfStep, OpenOutcomes DEF TxInv, Step
  <1>3. outcome[t] = "open"
    BY <1>1, OpenOutcomes DEF outcome
  <1>4. /\ DOMAIN work[t] = request[t].rows
        /\ AllAllow(t)
        /\ \A r \in request[t].rows : work[t][r] = Book!Changed(request[t].kind, stock[r])
    BY <1>1 DEF TxInv, WorkOK
  <1>5. stock' = [r \in Rows |-> IF r \in request[t].rows
                                   THEN Book!Changed(request[t].kind, stock[r]) ELSE stock[r]]
    BY <1>1, <1>4
  <1> QED BY <1>1, <1>2, <1>3, <1>4, <1>5 DEF Book!Commit, AllAllow, outcome

LEMMA StepImplements == TxInv /\ [Next]_vars => [Book!Next]_(Book!vars)
  <1>1. ASSUME UNCHANGED vars
        PROVE  UNCHANGED Book!vars
    BY <1>1 DEF vars, Book!vars
  <1>2. ASSUME TxInv, NEW t \in Txs,
               Open(t) \/ Advance(t) \/ DeadlockVictim(t) \/ PoolTimeout(t) \/ Abort(t)
        PROVE  Book!Open(t) \/ Book!Commit(t) \/ Book!Fail(t) \/ UNCHANGED Book!vars
    <2>1. CASE Open(t)
      BY <1>2, <2>1, OpenImplements
    <2>2. CASE Connect(t)
      <3>1. PICK s \in {"second", "lock"} : Goto(t, s)
        BY <2>2 DEF Connect
      <3> QED BY <1>2, <2>2, <3>1, InnerStepImplements, OpenOutcomes DEF Connect, Step
    <2>3. CASE Lock(t)
      <3>1. PICK s \in {"check", "lock"} : Goto(t, s)
        BY <2>3 DEF Lock
      <3> QED BY <1>2, <2>3, <3>1, InnerStepImplements, OpenOutcomes DEF Lock, Step
    <2>4. CASE Check(t)
      <3>1. CASE Goto(t, "write")
        BY <1>2, <2>4, <3>1, InnerStepImplements, OpenOutcomes DEF Check, Step
      <3>2. CASE End(t, "failed")
        BY <1>2, <2>4, <3>2, FailImplements, OpenOutcomes DEF Check
      <3> QED BY <2>4, <3>1, <3>2 DEF Check
    <2>5. CASE Write(t)
      <3>1. CASE Goto(t, "commit")
        BY <1>2, <2>5, <3>1, InnerStepImplements, OpenOutcomes DEF Write, Step
      <3>2. CASE End(t, "failed")
        BY <1>2, <2>5, <3>2, FailImplements, OpenOutcomes DEF Write
      <3> QED BY <2>5, <3>1, <3>2 DEF Write
    <2>6. CASE ClearOnSecondConnection(t)
      BY <1>2, <2>6, InnerStepImplements, OpenOutcomes DEF ClearOnSecondConnection, Step
    <2>7. CASE Commit(t)
      BY <1>2, <2>7, CommitImplements
    <2>8. CASE DeadlockVictim(t) \/ PoolTimeout(t) \/ Abort(t)
      <3>1. step[t] \in {"connect", "lock", "check", "write", "second", "commit"}
        BY <1>2, <2>8 DEF DeadlockVictim, PoolTimeout, Abort, TxInv, ShapeOK, Step, Ended
      <3> QED BY <1>2, <2>8, <3>1, FailImplements, OpenOutcomes
              DEF DeadlockVictim, PoolTimeout, Abort
    <2> QED BY <1>2, <2>1, <2>2, <2>3, <2>4, <2>5, <2>6, <2>7, <2>8 DEF Advance
  <1>3. ASSUME TxInv, Next
        PROVE  Book!Next \/ UNCHANGED Book!vars
    BY <1>2, <1>3 DEF Next, Book!Next
  <1> QED BY <1>1, <1>3

\* The transactions of OrderService and InventoryService are atomic and isolated, in whatever
\* order they lock their rows and however they end: what the other modules take for one step
\* is one.
THEOREM TransactionsAreAtomic == Spec => ImplementsStockBook
  <1>1. Spec => []TxInv
    BY InitiallyTxInv, StepKeepsTxInv, PTL DEF Spec
  <1>2. Init => Book!Init
    BY InitImplements
  <1>3. TxInv /\ [Next]_vars => [Book!Next]_(Book!vars)
    BY StepImplements
  <1> QED BY <1>1, <1>2, <1>3, PTL DEF Spec, ImplementsStockBook, Book!Spec
===============================================================================

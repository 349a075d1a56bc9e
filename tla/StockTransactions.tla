--------------------------- MODULE StockTransactions ---------------------------
(***************************************************************************)
(* The database transactions in which OrderService, InventoryService and   *)
(* CartService change the stock, one step further down than OrderService:  *)
(* a transaction waits for a connection of the pool, locks its inventory   *)
(* rows one after the other (SELECT ... FOR UPDATE without ORDER BY: in    *)
(* whatever order the plan reads them), checks, writes and commits.        *)
(* PostgreSQL ends a cycle of waits by aborting a transaction on it;       *)
(* Prisma ends a transaction that takes too long.                          *)
(*                                                                         *)
(* mergeCart locks no stock, but its deleteMany is rewritten into a call   *)
(* of the base client, which takes a second connection while the           *)
(* transaction keeps its own.                                              *)
(*                                                                         *)
(* PostgreSQL, the pool and Prisma's timeouts are modelled from how the    *)
(* code uses them.  The timeout job's transaction, which reads before it   *)
(* holds anything, is in OrderService.                                     *)
(***************************************************************************)
EXTENDS Integers, Sequences, FiniteSets, Functions

CONSTANTS
  Txs, Rows, InitialStock, NoRequest,
  Kinds,      \* Kinds[t]: the kinds of operations that transaction t may be opened for
  PoolSize    \* connections in the pool

VARIABLES
  stock,     \* the committed inventory rows
  request,   \* request[t]: what transaction t is to do, and to which rows
  step,      \* step[t]: what transaction t does next
  plan,      \* plan[t]: its rows in the order in which it locks them
  locked,    \* locked[t]: how many of them it has locked
  work       \* work[t]: the rows it has written, seen by itself only

vars == <<stock, request, step, plan, locked, work>>

Outcome(s) == CASE s \in {"none", "committed", "failed"} -> s
                [] OTHER -> "open"

Book == INSTANCE StockBook WITH outcome <- [t \in Txs |-> Outcome(step[t])]

ASSUME TransactionsAssumption ==
  /\ Kinds \in [Txs -> SUBSET {"checkout", "release", "complete", "pos", "adjust", "merge"}]
  /\ PoolSize \in Nat \ {0} /\ InitialStock \in Nat

-------------------------------------------------------------------------------
Step == {"none", "connect", "lock", "check", "write", "second", "commit", "committed", "failed"}

Ended == {"committed", "failed"}

Nothing == << >>

Init ==
  /\ stock = [r \in Rows |-> Book!InitInventory(InitialStock, FALSE)]
  /\ request = [t \in Txs |-> NoRequest]
  /\ step = [t \in Txs |-> "none"]
  /\ plan = [t \in Txs |-> << >>]
  /\ locked = [t \in Txs |-> 0]
  /\ work = [t \in Txs |-> Nothing]

\* The transactions that have a connection, and whether there is one left.
Connected == {t \in Txs : step[t] \in {"lock", "check", "write", "second", "commit"}}
ConnectionFree == Cardinality(Connected) < PoolSize

Holds(t) == {plan[t][i] : i \in 1..locked[t]}
NextRow(t) == plan[t][locked[t] + 1]
WaitsFor(t, u) == step[t] = "lock" /\ u # t /\ NextRow(t) \in Holds(u)

\* Every member waits for a member: the smallest such sets are the cycles.
Stuck(S) == S # {} /\ \A t \in S : \E u \in S : WaitsFor(t, u)
OnCycle(t) ==
  \E S \in SUBSET Txs : t \in S /\ Stuck(S) /\ \A R \in SUBSET S : Stuck(R) => R = S

\* One row for an adjustment, none for a merge, the rows of the items otherwise.
Plans(kind) ==
  {p \in UNION {[1..n -> Rows] : n \in 0..Cardinality(Rows)} :
     /\ IsInjective(p)
     /\ kind = "merge" <=> Len(p) = 0
     /\ kind = "adjust" => Len(p) = 1}

Goto(t, s) == step' = [step EXCEPT ![t] = s]

\* A transaction that ends, however it ends, gives its locks back.
End(t, s) ==
  /\ Goto(t, s)
  /\ locked' = [locked EXCEPT ![t] = 0]
  /\ work' = [work EXCEPT ![t] = Nothing]

-------------------------------------------------------------------------------
Open(t) ==
  /\ step[t] = "none"
  /\ \E kind \in Kinds[t] : \E p \in Plans(kind) :
       /\ plan' = [plan EXCEPT ![t] = p]
       /\ request' = [request EXCEPT ![t] = [kind |-> kind, rows |-> Range(p)]]
  /\ Goto(t, "connect")
  /\ UNCHANGED <<stock, locked, work>>

Connect(t) ==
  /\ step[t] = "connect" /\ ConnectionFree
  /\ Goto(t, IF plan[t] = << >> THEN "second" ELSE "lock")
  /\ UNCHANGED <<stock, request, plan, locked, work>>

\* Mutant: the lock is taken though another transaction holds it.
LockHeld(t) ==
  /\ step[t] = "lock"
  /\ locked' = [locked EXCEPT ![t] = @ + 1]
  /\ Goto(t, IF locked[t] + 1 = Len(plan[t]) THEN "check" ELSE "lock")
  /\ UNCHANGED <<stock, request, plan, work>>

Lock(t) ==
  /\ step[t] = "lock" /\ \A u \in Txs : ~WaitsFor(t, u)
  /\ locked' = [locked EXCEPT ![t] = @ + 1]
  /\ Goto(t, IF locked[t] + 1 = Len(plan[t]) THEN "check" ELSE "lock")
  /\ UNCHANGED <<stock, request, plan, work>>

AllAllow(t) == \A r \in request[t].rows : Book!Allows(request[t].kind, stock[r])

\* The handler looks at every row before it changes one.
Check(t) ==
  /\ step[t] = "check"
  /\ \/ AllAllow(t) /\ Goto(t, "write") /\ UNCHANGED <<locked, work>>
     \/ ~AllAllow(t) /\ End(t, "failed")
  /\ UNCHANGED <<stock, request, plan>>

\* InventoryService's operations: they lock each row again, which the transaction holds
\* already, read it again, check it again, and write it.
Write(t) ==
  /\ step[t] = "write"
  /\ \/ AllAllow(t) /\ Goto(t, "commit") /\ UNCHANGED locked
        /\ work' = [work EXCEPT ![t] =
             [r \in request[t].rows |-> Book!Changed(request[t].kind, stock[r])]]
     \/ ~AllAllow(t) /\ End(t, "failed")
  /\ UNCHANGED <<stock, request, plan>>

\* mergeCart's deleteMany, on a connection of its own.
ClearOnSecondConnection(t) ==
  /\ step[t] = "second" /\ ConnectionFree
  /\ Goto(t, "commit")
  /\ UNCHANGED <<stock, request, plan, locked, work>>

Commit(t) ==
  /\ step[t] = "commit"
  /\ stock' = [r \in Rows |-> IF r \in DOMAIN work[t] THEN work[t][r] ELSE stock[r]]
  /\ End(t, "committed")
  /\ UNCHANGED <<request, plan>>

\* Mutant: nobody looks for cycles.
NoVictim(t) == FALSE /\ UNCHANGED vars

\* PostgreSQL aborts a transaction that it finds on a cycle of waits.
DeadlockVictim(t) ==
  /\ step[t] = "lock" /\ OnCycle(t)
  /\ End(t, "failed")
  /\ UNCHANGED <<stock, request, plan>>

\* Prisma gives up waiting for a connection.
PoolTimeout(t) ==
  /\ step[t] \in {"connect", "second"}
  /\ End(t, "failed")
  /\ UNCHANGED <<stock, request, plan>>

\* The transaction times out, or the request, its connection or the process dies.
Abort(t) ==
  /\ step[t] \notin {"none"} \cup Ended
  /\ End(t, "failed")
  /\ UNCHANGED <<stock, request, plan>>

Advance(t) ==
  \/ Connect(t) \/ Lock(t) \/ Check(t) \/ Write(t)
  \/ ClearOnSecondConnection(t) \/ Commit(t)

Next ==
  \E t \in Txs : Open(t) \/ Advance(t) \/ DeadlockVictim(t) \/ PoolTimeout(t) \/ Abort(t)

Spec == Init /\ [][Next]_vars

\* A transaction that can go on does, PostgreSQL looks for cycles when a wait lasts a
\* second, and Prisma's timeouts run.  Nothing makes a transaction fail otherwise.
Fairness ==
  \A t \in Txs : WF_vars(Advance(t)) /\ WF_vars(DeadlockVictim(t)) /\ WF_vars(PoolTimeout(t))

FairSpec == Spec /\ Fairness

-------------------------------------------------------------------------------
(* Properties *)

TypeOK ==
  /\ stock \in [Rows -> Book!InventoryRow]
  /\ step \in [Txs -> Step]
  /\ \A t \in Txs :
       /\ locked[t] \in 0..Len(plan[t])
       /\ step[t] # "none" => request[t].kind \in Kinds[t] /\ plan[t] \in Plans(request[t].kind)
       /\ step[t] # "none" => request[t].rows = Range(plan[t])
       /\ step[t] \in {"check", "write", "commit"} => locked[t] = Len(plan[t])
       /\ step[t] = "lock" => locked[t] < Len(plan[t])

\* A row is locked by one transaction at a time.
RowsHeldOnce == \A t, u \in Txs : t # u => Holds(t) \cap Holds(u) = {}

\* The transactions are atomic and isolated: what OrderService takes for one step is one.
ImplementsStockBook == Book!Spec

\* No transaction waits for ever, neither for a row nor for a connection.
EveryTxEnds == \A t \in Txs : step[t] = "connect" ~> step[t] \in Ended
===============================================================================

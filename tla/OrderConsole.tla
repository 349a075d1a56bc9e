----------------------------- MODULE OrderConsole -----------------------------
(***************************************************************************)
(* The orders page of the store's web app: a list per tab, kept by the     *)
(* query client and refreshed by polling, the buttons in the rows, and the *)
(* drawer with one order as it was when the drawer was opened.  What is on *)
(* the screen is always older than the database, so the buttons act on     *)
(* what the owner saw.                                                     *)
(*                                                                         *)
(* The push of new orders is left out: the browser never gets one (README, *)
(* section 6).  So is the badge, a query of its own with its own polling.  *)
(* All orders fit on one page of the list.                                 *)
(***************************************************************************)
EXTENDS OrderMoves, Naturals, FiniteSets

CONSTANTS
  Orders,             \* the orders that may come in
  Tabs,               \* tabs of the page that are used, "All" among them
  Drawers,            \* bound: orders the drawer is opened for
  MaxCalls            \* bound: calls of buttons under way at the same time

VARIABLES
  order, takeaway,    \* status of each order in the database; those that will be collected
  tab,                \* the chosen tab
  screen,             \* the tab whose list is shown: the last one is, until the new one is there
  loaded, list,       \* the tabs whose list the query client has, and the lists
  fetching,           \* the fetch under way for each tab
  calls,              \* what buttons have sent
  drawer              \* the order of the drawer, as the list had it

kept == <<loaded, list>>
db   == <<order, takeaway>>
vars == <<db, tab, screen, kept, fetching, calls, drawer>>

-------------------------------------------------------------------------------
Idle       == [phase |-> "idle"]
Sent       == [phase |-> "sent"]
Read(x)    == [phase |-> "read", data |-> x]
NoOrder    == "none"
Closed     == [order |-> NoOrder, status |-> "NONE"]

Filter(t) ==
  CASE t = "All"       -> OrderStatus
    [] t = "Pending"   -> {"PLACED"}
    [] t = "Preparing" -> {"PREPARING"}
    [] t = "Ready"     -> {"READY_FOR_PICKUP"}
    [] t = "Completed" -> {"COMPLETED"}

\* What the API answers now; "NONE": not in the list.
ListOrders(t) == [o \in Orders |-> IF order[o] \in Filter(t) THEN order[o] ELSE "NONE"]

\* The status the row of o shows.
Shown(o) == list[screen][o]

\* Mutant: whatever is ready can be handed over.
OfferedToAll(o, s) ==
  CASE s = "PLACED"           -> {"accept", "reject"}
    [] s = "ACCEPTED"         -> {"prepare"}
    [] s = "PREPARING"        -> {"markReady"}
    [] s = "READY_FOR_PICKUP" -> {"dispatch", "complete"}
    [] s = "OUT_FOR_DELIVERY" -> {"complete"}
    [] OTHER                  -> {}

\* The buttons for an order whose status is s.
Offered(o, s) ==
  CASE s = "PLACED"           -> {"accept", "reject"}
    [] s = "ACCEPTED"         -> {"prepare"}
    [] s = "PREPARING"        -> {"markReady"}
    [] s = "READY_FOR_PICKUP" -> IF o \in takeaway THEN {"complete"} ELSE {"dispatch"}
    [] s = "OUT_FOR_DELIVERY" -> {"complete"}
    [] OTHER                  -> {}

OfferedInDrawer(o, s) == Offered(o, s) \cup (IF s \in OpenStatuses THEN {"cancel"} ELSE {})

-------------------------------------------------------------------------------
(* The rest of the world *)

PlaceOrder(o) ==
  /\ order[o] = "NONE" /\ order' = [order EXCEPT ![o] = "PLACED"]
  /\ UNCHANGED <<takeaway, tab, screen, kept, fetching, calls, drawer>>

\* Another console, whatever its screen shows, the customer's cancellation, the timeout job.
Elsewhere(o, op) ==
  /\ order[o] \in AllowedFrom(op) /\ \E s \in OrderStatus : op \in OfferedInDrawer(o, s)
  /\ order' = [order EXCEPT ![o] = Target(op)]
  /\ UNCHANGED <<takeaway, tab, screen, kept, fetching, calls, drawer>>

-------------------------------------------------------------------------------
(* The query client *)

\* invalidateQueries: a fetch under way is cancelled and starts again, unless there is no data yet.
Invalidate ==
  fetching' = [fetching EXCEPT ![tab] =
                 IF tab \notin loaded /\ fetching[tab] # Idle THEN @ ELSE Sent]

\* A row that leaves the screen takes its spinner with it; if it comes back, its buttons work.
Unmount(rows) ==
  {IF c.by = "row" /\ rows[c.order] = "NONE" THEN [c EXCEPT !.live = FALSE] ELSE c : c \in calls}

SwitchTab(t) ==
  /\ t # tab /\ tab' = t
  /\ screen' = IF t \in loaded THEN t ELSE screen
  /\ calls' = IF t \in loaded THEN Unmount(list[t]) ELSE calls
  \* A list of the last minute that nothing invalidated is not fetched again.
  /\ \E fresh \in {FALSE, (t \in loaded)} :
       fetching' = IF fresh \/ fetching[t] # Idle THEN fetching ELSE [fetching EXCEPT ![t] = Sent]
  /\ UNCHANGED <<db, kept, drawer>>

\* Mutant: a list is fetched only when there is none.
PollOnce(t) ==
  /\ t = tab /\ fetching[t] = Idle /\ t \notin loaded
  /\ fetching' = [fetching EXCEPT ![t] = Sent]
  /\ UNCHANGED <<db, tab, screen, kept, calls, drawer>>

\* Every 30 seconds; also when the window comes to the front.
Poll(t) ==
  /\ t = tab /\ fetching[t] = Idle
  /\ fetching' = [fetching EXCEPT ![t] = Sent]
  /\ UNCHANGED <<db, tab, screen, kept, calls, drawer>>

\* The button beside the tabs.
Refresh ==
  /\ Invalidate
  /\ UNCHANGED <<db, tab, screen, kept, calls, drawer>>

ReadOrders(t) ==
  /\ fetching[t] = Sent /\ fetching' = [fetching EXCEPT ![t] = Read(ListOrders(t))]
  /\ UNCHANGED <<db, tab, screen, kept, calls, drawer>>

ListAnswer(t) ==
  /\ fetching[t].phase = "read"
  /\ fetching' = [fetching EXCEPT ![t] = Idle]
  /\ loaded' = loaded \cup {t} /\ list' = [list EXCEPT ![t] = fetching[t].data]
  /\ screen' = IF t = tab THEN t ELSE screen
  /\ calls' = IF t = screen' THEN Unmount(fetching[t].data) ELSE calls
  /\ UNCHANGED <<db, tab, drawer>>

\* The proxy gives up after four seconds, or the API fails; the client has tried twice.
ListFails(t) ==
  /\ fetching[t] # Idle /\ fetching' = [fetching EXCEPT ![t] = Idle]
  /\ UNCHANGED <<db, tab, screen, kept, calls, drawer>>

-------------------------------------------------------------------------------
(* Buttons.  Two calls that agree in everything are one: the API refuses the second. *)

Busy(by, o) == \E c \in calls : c.by = by /\ c.live /\ c.order = o

Send(by, o, op, s) ==
  /\ ~Busy(by, o) /\ Cardinality(calls) < MaxCalls
  /\ calls' = calls \cup {[by |-> by, live |-> TRUE, order |-> o, op |-> op, seen |-> s,
                           phase |-> "sent"]}

Becomes(c, d) == calls' = (calls \ {c}) \cup d

\* A button of the row of o.
Press(o, op) ==
  /\ op \in Offered(o, Shown(o)) /\ Send("row", o, op, Shown(o))
  /\ UNCHANGED <<db, tab, screen, kept, fetching, drawer>>

OpenDrawer(o) ==
  /\ o \in Drawers /\ drawer = Closed /\ Shown(o) # "NONE"
  /\ drawer' = [order |-> o, status |-> Shown(o)]
  /\ UNCHANGED <<db, tab, screen, kept, fetching, calls>>

DrawerGone(cs) == {IF c.by = "drawer" THEN [c EXCEPT !.live = FALSE] ELSE c : c \in cs}

CloseDrawer ==
  /\ drawer # Closed /\ drawer' = Closed /\ calls' = DrawerGone(calls)
  /\ UNCHANGED <<db, tab, screen, kept, fetching>>

PressInDrawer(op) ==
  /\ drawer # Closed /\ op \in OfferedInDrawer(drawer.order, drawer.status)
  /\ Send("drawer", drawer.order, op, drawer.status)
  /\ UNCHANGED <<db, tab, screen, kept, fetching, drawer>>

\* The API does what the order's status allows.
Perform(c) ==
  LET allowed == order[c.order] \in AllowedFrom(c.op) IN
  /\ c.phase = "sent"
  /\ order' = IF allowed THEN [order EXCEPT ![c.order] = Target(c.op)] ELSE order
  /\ Becomes(c, IF c.by = "nobody" THEN {} ELSE {[c EXCEPT !.phase = IF allowed THEN "done" ELSE "refused"]})
  /\ UNCHANGED <<takeaway, tab, screen, kept, fetching, drawer>>

\* "Order updated": the list is fetched again.  After a call from the drawer, the drawer closes
\* as well, whichever order it shows by now.
Updated(c) ==
  /\ c.phase = "done"
  /\ IF c.by = "drawer" THEN drawer' = Closed /\ calls' = DrawerGone(calls \ {c})
     ELSE Becomes(c, {}) /\ UNCHANGED drawer
  /\ Invalidate
  /\ UNCHANGED <<db, tab, screen, kept>>

\* "Action failed": refused, or the answer is lost.
Failed(c) ==
  /\ c.phase \in {"done", "refused"} /\ Becomes(c, {})
  /\ UNCHANGED <<db, tab, screen, kept, fetching, drawer>>

\* The proxy gives up after fifteen seconds, and the API may do it all the same.
GiveUp(c) ==
  /\ c.phase = "sent" /\ c.by # "nobody"
  /\ Becomes(c, {[c EXCEPT !.by = "nobody", !.live = FALSE]})
  /\ UNCHANGED <<db, tab, screen, kept, fetching, drawer>>

-------------------------------------------------------------------------------
Init ==
  /\ order = [o \in Orders |-> "NONE"] /\ takeaway \in SUBSET Orders
  /\ tab = "All" /\ screen = "All"
  /\ loaded = {} /\ list = [t \in Tabs |-> [o \in Orders |-> "NONE"]]
  /\ fetching = [t \in Tabs |-> IF t = tab THEN Sent ELSE Idle]
  /\ calls = {} /\ drawer = Closed

Answers ==
  \/ \E t \in Tabs : ReadOrders(t) \/ ListAnswer(t) \/ ListFails(t)
  \/ \E c \in calls : Perform(c) \/ Updated(c) \/ Failed(c) \/ GiveUp(c)

Next ==
  \/ \E o \in Orders : PlaceOrder(o) \/ OpenDrawer(o)
  \/ \E o \in Orders, op \in Operations : Elsewhere(o, op) \/ Press(o, op)
  \/ \E op \in Operations : PressInDrawer(op)
  \/ \E t \in Tabs : SwitchTab(t) \/ Poll(t)
  \/ Refresh \/ CloseDrawer \/ Answers

Spec == Init /\ [][Next]_vars

\* The timers go on while the page is open, and now and then the API is heard in time.
Fairness == WF_vars(Poll(tab)) /\ SF_vars(ReadOrders(tab)) /\ SF_vars(ListAnswer(tab))
FairSpec == Spec /\ Fairness

-------------------------------------------------------------------------------
UpToDate == /\ screen = tab /\ list[tab] = ListOrders(tab)

\* Orders come to rest, and whoever stays on a tab then sees them as they are: no answer that
\* was overtaken stays on the screen.
ScreenCatchesUp == \A t \in Tabs : <>[](tab = t) => <>[]UpToDate

\* A button moves an order on from the status the owner saw when it was pressed, or not at
\* all, however old the screen and however late the call.  (Rejecting and cancelling are
\* not like that: a stale "Reject" hits an accepted order.)
StepsFollowScreen ==
  [][\A c \in calls : (Perform(c) /\ order' # order /\ c.op \notin {"reject", "cancel"})
                         => order[c.order] = c.seen]_vars
===============================================================================

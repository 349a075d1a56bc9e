---------------------------- MODULE MCOrderScreens ----------------------------
(***************************************************************************)
(* One screen at a time, for TLC: the console with its rows and two tabs,  *)
(* the console with its drawer and two calls at a time, or the customer's  *)
(* pages.  Screens share nothing but the API, whose part each module has;  *)
(* checking them in turn keeps the instance small.                         *)
(***************************************************************************)
EXTENDS Naturals

VARIABLES
  desk,   \* the screen that is open
  order, takeaway, tab, screen, loaded, list, fetching, calls, drawer,
  status, young, page, data, failed, asking, seen, cancelling

console  == <<order, takeaway, tab, screen, loaded, list, fetching, calls, drawer>>
customer == <<status, young, page, data, failed, asking, seen, cancelling>>

Rows   == INSTANCE OrderConsole WITH Orders <- {"o"}, Tabs <- {"All", "Preparing"},
                                     Drawers <- {}, MaxCalls <- 1
Drawer == INSTANCE OrderConsole WITH Orders <- {"o"}, Tabs <- {"All"},
                                     Drawers <- {"o"}, MaxCalls <- 2
Pages  == INSTANCE OrderPages WITH fetching <- asking

Init ==
  /\ desk \in {"rows", "drawer", "pages"}
  /\ IF desk = "rows" THEN Rows!Init ELSE Drawer!Init
  /\ Pages!Init
  /\ desk # "rows" => takeaway = {}
  /\ desk # "pages" => page = "track"

Next ==
  \/ desk = "rows" /\ Rows!Next /\ UNCHANGED <<desk, customer>>
  \/ desk = "drawer" /\ Drawer!Next /\ UNCHANGED <<desk, customer>>
  \/ desk = "pages" /\ Pages!Next /\ UNCHANGED <<desk, console>>

Spec ==
  /\ Init /\ [][Next]_<<desk, console, customer>>
  /\ IF desk = "pages" THEN Pages!Fairness ELSE Rows!Fairness

-------------------------------------------------------------------------------
\* Whoever keeps a screen open sees in the end what has become of the orders: the owner who
\* stays on a tab of the console, and the customer who leaves a page open (OrderConsole and
\* OrderPages say what each needs).
ScreensCatchUp ==
  /\ desk = "rows" => Rows!ScreenCatchesUp
  /\ desk = "pages" => Pages!EndIsShown

\* OrderConsole: a button moves an order on from the status the owner saw, or not at all.
StepsFollowScreen == Rows!StepsFollowScreen
===============================================================================

------------------------------ MODULE OrderPages ------------------------------
(***************************************************************************)
(* The two pages on which a customer follows an order, each a query with   *)
(* its own key and its own idea of when to ask again, and the cancel       *)
(* button, which has other limits than the API.                            *)
(***************************************************************************)
EXTENDS OrderMoves

VARIABLES
  status, young,        \* the order in the database; inside the API's cancellation window
  page,                 \* "detail" or "track", open since the order was placed
  data, failed,         \* what the query client has ("NONE": nothing), the last fetch failed
  fetching, seen,       \* the fetch under way, and what the API read for it
  cancelling            \* the cancel call under way

query == <<data, failed, fetching, seen>>
vars  == <<status, young, page, query, cancelling>>

-------------------------------------------------------------------------------
\* A handler of the API is one step here; OrderService has their races.
StoreMoves(op) ==
  /\ status \in AllowedFrom(op) /\ status' = Target(op)
  /\ UNCHANGED <<young, page, query, cancelling>>

WindowEnds ==
  /\ young /\ young' = FALSE
  /\ UNCHANGED <<status, page, query, cancelling>>

-------------------------------------------------------------------------------
Begin == fetching' = "sent" /\ seen' = "NONE" /\ UNCHANGED <<data, failed>>

\* Every 15 seconds: the detail page while it has an order that is not over, so never after
\* its first fetch failed; the tracking page always.
Poll ==
  /\ fetching = "idle"
  /\ page = "detail" => data \notin TerminalStatuses \cup {"NONE"}
  /\ Begin /\ UNCHANGED <<status, young, page, cancelling>>

GetOrder ==
  /\ fetching = "sent" /\ fetching' = "read" /\ seen' = status
  /\ UNCHANGED <<status, young, page, data, failed, cancelling>>

Answer ==
  /\ fetching = "read" /\ fetching' = "idle" /\ seen' = "NONE"
  /\ data' = seen /\ failed' = FALSE
  /\ UNCHANGED <<status, young, page, cancelling>>

\* Twice in a row.  The order stays in the client, though the page says it could not load it.
Fails ==
  /\ fetching # "idle" /\ fetching' = "idle" /\ seen' = "NONE" /\ failed' = TRUE
  /\ UNCHANGED <<status, young, page, data, cancelling>>

-------------------------------------------------------------------------------
\* The page's own window is longer than the API's, and looked at only when the page renders.
Cancel ==
  /\ ~failed /\ cancelling = "no" /\ cancelling' = "sent"
  /\ data \in IF page = "detail" THEN {"PLACED", "ACCEPTED"} ELSE OpenStatuses
  /\ UNCHANGED <<status, young, page, query>>

CustomerCancelOrder ==
  /\ cancelling = "sent"
  /\ IF young /\ status \in {"PLACED", "ACCEPTED"}
     THEN status' = "CANCELLED" /\ cancelling' = "done"
     ELSE cancelling' = "refused" /\ UNCHANGED status
  /\ UNCHANGED <<young, page, query>>

\* The tracking page asks again, instead of a fetch under way.  The detail page only calls
\* router.refresh(), which leaves the query client alone.
Cancelled ==
  /\ cancelling = "done" /\ cancelling' = "no"
  /\ IF page = "track" THEN Begin ELSE UNCHANGED query
  /\ UNCHANGED <<status, young, page>>

\* Refused, or call or answer lost.
CancelFailed ==
  /\ cancelling # "no" /\ cancelling' = "no"
  /\ UNCHANGED <<status, young, page, query>>

-------------------------------------------------------------------------------
Init ==
  /\ status = "PLACED" /\ young = TRUE /\ page \in {"detail", "track"}
  /\ data = "NONE" /\ failed = FALSE /\ fetching = "sent" /\ seen = "NONE" /\ cancelling = "no"

Next ==
  \/ \E op \in Operations : StoreMoves(op)
  \/ WindowEnds \/ Poll \/ GetOrder \/ Answer \/ Fails
  \/ Cancel \/ CustomerCancelOrder \/ Cancelled \/ CancelFailed

Spec == Init /\ [][Next]_vars

\* The timer goes on while the page is open, and now and then the API is heard.
Fairness == WF_vars(Poll) /\ SF_vars(GetOrder) /\ SF_vars(Answer)
FairSpec == Spec /\ Fairness

-------------------------------------------------------------------------------
\* A customer who leaves the page open sees in the end how the order ended, although one page
\* stops asking when it thinks the order is over and neither stays after a cancellation.
\* (The detail page has to have loaded once.)
EndIsShown ==
  ((data # "NONE" \/ page = "track") /\ status \in TerminalStatuses) ~> (data = status /\ ~failed)
===============================================================================

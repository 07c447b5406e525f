---------------------------- MODULE MCCafeOutbox ----------------------------
(***************************************************************************)
(* Either two requests and two cafes, which are both registered before the *)
(* first request, with deregistrations and a thread that may be removed;   *)
(* or one cafe and three requests, so that a page is full, its group may   *)
(* fail half way and a later page is held back. Which of the two is chosen *)
(* at the start.                                                           *)
(***************************************************************************)
EXTENDS CafeOutbox

CONSTANTS c, d

\* every friend has an inbox at cafe d
AtD == [f \in Friend |-> {d}]

VARIABLE single

MCInit == Init /\ single \in BOOLEAN

OneCafe == session'[c] = "none" /\ leaving' = {} /\ removed' = {} /\ ~stuck'

TwoCafes ==
  /\ added' <= 2 /\ \A t \in Thread : head'[t] <= 1
  /\ added' > 0 => session[c] # "none" \/ faults' > 0

MCNext ==
  /\ Next
  /\ IF single THEN OneCafe ELSE TwoCafes
  /\ UNCHANGED single

MCSpec == MCInit /\ [][MCNext]_<<single, vars>>

\* what the fair steps do is never restricted
MCFairSpec == MCSpec /\ Fairness
=============================================================================

--------------------------- MODULE MCCafeMailbox ---------------------------
(***************************************************************************)
(* Either checks that overlap deliveries and each other, with nothing      *)
(* handled yet; or the handling of what one check at a time has saved, by  *)
(* two goroutines, with failures and a restart. Which of the two is chosen *)
(* at the start.                                                           *)
(***************************************************************************)
EXTENDS CafeMailbox

CONSTANTS a, b, k, g, h

VARIABLE overlap

MCInit == Init /\ overlap \in BOOLEAN

\* messages are alike until one of them is handled: c comes last
Overlapping ==
  /\ ~flush'.on /\ crashes' = 0 /\ ~stuck'
  /\ b \in delivered' => a \in delivered'
  /\ delivered' \subseteq {a, b} \/ {a, b} \subseteq delivered

\* one thing goes wrong besides downloads; with two messages, one failure at
\* most; one notification arrives
OneByOne ==
  /\ delivered' \subseteq {a, b} /\ clock' <= 2 /\ pings' + 1 >= clock'
  /\ LET failures == handleFailures' + requestFailures'
         restarts == crashes' + (IF stuck' THEN 1 ELSE 0)
     IN IF b \in delivered' THEN a \in delivered /\ failures + downloads'[a] <= 1 /\ restarts = 0
                            ELSE failures + restarts <= 1
  /\ downloads'[b] = 0
  /\ \A j \in Checker \ {k} : checker'[j] = NoCheck
  /\ handler[h] = NoHandle /\ handler'[h] # NoHandle => handler[g] # NoHandle

MCNext ==
  /\ Next
  /\ IF overlap THEN Overlapping ELSE OneByOne
  /\ UNCHANGED overlap

MCSpec == MCInit /\ [][MCNext]_<<overlap, vars>>

\* what the fair steps do is restricted only in the first scenario
MCFairSpec == MCSpec /\ Fairness
=============================================================================

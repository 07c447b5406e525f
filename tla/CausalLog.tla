----------------------------- MODULE CausalLog -----------------------------
(***************************************************************************)
(* What a thread promises to each of its replicas, without heads, merges,  *)
(* goroutines or messages: a log of blocks closed under "parent of" up to  *)
(* a debt.  Showing a block puts its parents into debt; a debt is paid by  *)
(* showing the parent, or openly written off.                              *)
(***************************************************************************)
EXTENDS Naturals, FiniteSets

CONSTANTS Peer, Block

VARIABLES
  parents,  \* [Block -> SUBSET Block], fixed when the block is written
  written,  \* blocks that exist somewhere
  log,      \* blocks each replica shows
  debt,     \* parents each replica still has to show
  dropped   \* blocks each replica wrote off or deleted

logvars == <<parents, written, log, debt, dropped>>

Init ==
  /\ parents \in [Block -> SUBSET Block]
  /\ written \subseteq Block
  /\ log \in [Peer -> SUBSET written]
  /\ \A p \in Peer, b \in Block : b \in log[p] => parents[b] \subseteq log[p]
  /\ debt = [p \in Peer |-> {}]
  /\ dropped = [p \in Peer |-> {}]

\* a replica writes a block on top of blocks that exist
Write(b, ps) ==
  /\ b \notin written
  /\ ps \subseteq written
  /\ written' = written \cup {b}
  /\ parents' = [parents EXCEPT ![b] = ps]
  /\ UNCHANGED <<log, debt, dropped>>

\* the parents of a shown block are owed, except those the replica writes off
Show(p, b) ==
  /\ b \in written
  /\ log' = [log EXCEPT ![p] = @ \cup {b}]
  /\ \E owed \in SUBSET parents[b] :
       /\ debt' = [debt EXCEPT ![p] = (@ \cup owed) \ log'[p]]
       /\ dropped' = [dropped EXCEPT ![p] = @ \cup (parents[b] \ owed)]
  /\ UNCHANGED <<parents, written>>

\* an invite makes a replica owe the block it names
Owe(p, b) ==
  /\ b \in written
  /\ debt' = [debt EXCEPT ![p] = @ \cup ({b} \ log[p])]
  /\ UNCHANGED <<parents, written, log, dropped>>

\* fetches fail, or the node restarts; another goroutine may still owe the same
WriteOff(p, bs) ==
  /\ bs \subseteq written
  /\ dropped' = [dropped EXCEPT ![p] = @ \cup bs]
  /\ \E d \in SUBSET bs : debt' = [debt EXCEPT ![p] = @ \ d]
  /\ UNCHANGED <<parents, written, log>>

\* leaving deletes the log; goroutines that are still running owe what they owe
Forget(p) ==
  /\ log' = [log EXCEPT ![p] = {}]
  /\ dropped' = [dropped EXCEPT ![p] = @ \cup log[p]]
  /\ \E d \in SUBSET log[p] : debt' = [debt EXCEPT ![p] = @ \cup d]
  /\ UNCHANGED <<parents, written>>

Next ==
  \/ \E b \in Block, ps \in SUBSET Block : Write(b, ps)
  \/ \E p \in Peer, b \in Block : Show(p, b) \/ Owe(p, b)
  \/ \E p \in Peer, bs \in SUBSET Block : WriteOff(p, bs)
  \/ \E p \in Peer : Forget(p)

LogSpec == Init /\ [][Next]_logvars

\* Every parent of a shown block is shown, owed or written off.
Closed ==
  \A p \in Peer : \A b \in log[p] :
    parents[b] \subseteq log[p] \cup debt[p] \cup dropped[p]
=============================================================================

------------------------------- MODULE MCNode -------------------------------
(***************************************************************************)
(* Four parts of a node that share no state, checked side by side: the     *)
(* senders of the service, the broadcaster, starting and stopping, and the *)
(* threads registry.  Which part moves is chosen at the start and the      *)
(* others are parked in their initial states, so that the states of the    *)
(* parts add up instead of multiplying.                                    *)
(***************************************************************************)
EXTENDS MessageSender, Broadcaster, NodeLifecycle, ThreadsRegistry

CONSTANTS i1, i2, t0, t1, t2

\* two invites to one thread
Invited == [invite \in {i1, i2} |-> t1]

LoadedFirst == {<<t0>>}

VARIABLE part

vars == <<part, senderVars, broadcastVars, lifecycleVars, registryVars>>

Init ==
  /\ part \in {"sender", "broadcast", "lifecycle", "registry"}
  /\ SenderInit /\ BroadcastInit /\ LifecycleInit /\ RegistryInit

Next ==
  /\ UNCHANGED part
  /\ \/ /\ part = "sender" /\ SenderNext
        /\ UNCHANGED <<broadcastVars, lifecycleVars, registryVars>>
     \/ /\ part = "broadcast" /\ BroadcastNext
        /\ UNCHANGED <<senderVars, lifecycleVars, registryVars>>
     \/ /\ part = "lifecycle" /\ LifecycleNext
        /\ UNCHANGED <<senderVars, broadcastVars, registryVars>>
     \/ /\ part = "registry" /\ RegistryNext
        /\ UNCHANGED <<senderVars, broadcastVars, lifecycleVars>>

\* a step of part p while the others are parked
OfSender(step) ==
  /\ part = "sender" /\ step
  /\ UNCHANGED <<part, broadcastVars, lifecycleVars, registryVars>>

OfBroadcast(step) ==
  /\ part = "broadcast" /\ step
  /\ UNCHANGED <<part, senderVars, lifecycleVars, registryVars>>

OfLifecycle(step) ==
  /\ part = "lifecycle" /\ ~panicked /\ step
  /\ UNCHANGED <<part, senderVars, broadcastVars, registryVars>>

\* the goroutines run; of a select with a tick and a closed channel ready the
\* channel is taken in the end, as the choice between them is random
Fairness ==
  /\ WF_vars(OfSender(\E c \in Call : CallStep(c)))
  /\ WF_vars(OfBroadcast(\/ \E c \in Subscriber : SubscriberStep(c)
                         \/ \E s \in Sender : SenderStep(s)))
  /\ WF_vars(OfLifecycle(CallerStep \/ \E n \in Session : Goroutine(n)))
  /\ \A n \in Session : WF_vars(OfLifecycle(Runner(n))) /\ SF_vars(OfLifecycle(Quit(n)))

Spec == Init /\ [][Next]_vars /\ Fairness
=============================================================================

---------------------------- MODULE Broadcaster ----------------------------
(***************************************************************************)
(* The thread updates of a node and those who listen to them               *)
(* (broadcast/main.go, the subscriber loop of core/api_sub.go).            *)
(*                                                                         *)
(* One mutex guards the map of listeners; Send keeps it while it puts its  *)
(* update into the buffered channel of every listener, and waits there     *)
(* when a channel is full.  A subscriber takes updates until its client    *)
(* has left, which it sees only between two updates, and then closes its   *)
(* listener, which needs the mutex.                                        *)
(***************************************************************************)
EXTENDS Naturals, Sequences

CONSTANTS
  Subscriber,  \* handlers of API clients, each listens once
  Sender,      \* goroutines, each sends one update: itself
  Nobody,      \* no holder
  Capacity,    \* the capacity given to NewBroadcaster
  MaxId        \* bound: ids of listeners, one for each subscriber will do

ASSUME BroadcastConstants ==
  /\ Capacity \in Nat \ {0} /\ MaxId \in Nat
  /\ Nobody \notin Sender

VARIABLES
  m,          \* Broadcaster.m: the sender that keeps it between two steps
  listeners,  \* Broadcaster.listeners: whose listener has an id
  nextID,     \* Broadcaster.nextID
  closed,     \* Broadcaster.closed
  ch,         \* the channel of each subscriber
  ended,      \* subscribers whose channel is closed
  id,         \* Listener.id
  spc,        \* where a subscriber is
  gone,       \* subscribers whose client has left
  bpc,        \* where a sender is
  todo,       \* the listeners the holder of m has not sent to yet
  log,        \* history: the updates in the order they were sent
  since,      \* history: how many there were when a subscriber began to listen
  got         \* history: what a subscriber has received

registry == <<listeners, nextID, id, since>>
sending == <<m, bpc, todo, log>>
broadcastVars == <<registry, sending, closed, ch, ended, spc, gone, got>>

BroadcastTypeOK ==
  /\ DOMAIN listeners \subseteq 0..MaxId
  /\ listeners \in [DOMAIN listeners -> Subscriber]
  /\ nextID \in 0..MaxId /\ id \in [Subscriber -> 0..MaxId]
  /\ m \in Sender \cup {Nobody} /\ todo \subseteq DOMAIN listeners
  /\ closed \in BOOLEAN /\ ended \subseteq Subscriber /\ gone \subseteq Subscriber
  /\ ch \in [Subscriber -> Seq(Sender)]
  /\ spc \in [Subscriber -> {"listen", "check", "receive", "close", "done"}]
  /\ bpc \in [Sender -> {"lock", "send", "done"}]
  /\ log \in Seq(Sender)
  /\ since \in [Subscriber -> Nat] /\ got \in [Subscriber -> Seq(Sender)]

BroadcastInit ==
  /\ listeners = [i \in {} |-> Nobody] /\ nextID = 0
  /\ id = [c \in Subscriber |-> 0] /\ since = [c \in Subscriber |-> 0]
  /\ m = Nobody /\ bpc = [s \in Sender |-> "lock"] /\ todo = {} /\ log = <<>>
  /\ closed = FALSE /\ ch = [c \in Subscriber |-> <<>>] /\ ended = {}
  /\ spc = [c \in Subscriber |-> "listen"] /\ gone = {}
  /\ got = [c \in Subscriber |-> <<>>]
-----------------------------------------------------------------------------
\* Mutant: the next id is not looked up in the map.
TakenOrNot(n) == n = nextID

\* the first id from nextID on that is not in the map
NextFree(n) ==
  /\ n >= nextID /\ n \notin DOMAIN listeners
  /\ \A k \in nextID..(n - 1) : k \in DOMAIN listeners

\* a listener of a broadcaster that is closed gets a closed channel
Listen(c) ==
  /\ spc[c] = "listen" /\ m = Nobody
  /\ \E n \in 0..MaxId :
       /\ NextFree(n)
       /\ nextID' = n
       /\ id' = [id EXCEPT ![c] = n]
       /\ listeners' = [i \in DOMAIN listeners \cup {n} |-> IF i = n THEN c ELSE listeners[i]]
  /\ since' = [since EXCEPT ![c] = Len(log)]
  /\ ended' = IF closed THEN ended \cup {c} ELSE ended
  /\ spc' = [spc EXCEPT ![c] = "check"]
  /\ UNCHANGED <<sending, closed, ch, gone, got>>

\* Stream looks whether the client is there before it waits for an update
CheckClient(c) ==
  /\ spc[c] = "check"
  /\ spc' = [spc EXCEPT ![c] = IF c \in gone THEN "close" ELSE "receive"]
  /\ UNCHANGED <<registry, sending, closed, ch, ended, gone, got>>

Receive(c) ==
  /\ spc[c] = "receive" /\ ch[c] # <<>>
  /\ got' = [got EXCEPT ![c] = Append(@, Head(ch[c]))]
  /\ ch' = [ch EXCEPT ![c] = Tail(@)]
  /\ spc' = [spc EXCEPT ![c] = "check"]
  /\ UNCHANGED <<registry, sending, closed, ended, gone>>

\* the channel is closed and empty
ReceiveEnds(c) ==
  /\ spc[c] = "receive" /\ ch[c] = <<>> /\ c \in ended
  /\ spc' = [spc EXCEPT ![c] = "close"]
  /\ UNCHANGED <<registry, sending, closed, ch, ended, gone, got>>

\* Mutant: the handler ends without closing its listener.
JustReturn(c) ==
  /\ spc[c] = "close"
  /\ spc' = [spc EXCEPT ![c] = "done"]
  /\ UNCHANGED <<registry, sending, closed, ch, ended, gone, got>>

CloseListener(c) ==
  /\ spc[c] = "close" /\ m = Nobody
  /\ listeners' = [i \in DOMAIN listeners \ {id[c]} |-> listeners[i]]
  /\ spc' = [spc EXCEPT ![c] = "done"]
  /\ UNCHANGED <<nextID, id, since, sending, closed, ch, ended, gone, got>>

ClientLeaves(c) ==
  /\ c \notin gone
  /\ gone' = gone \cup {c}
  /\ UNCHANGED <<registry, sending, closed, ch, ended, spc, got>>
-----------------------------------------------------------------------------
Send(s) ==
  /\ bpc[s] = "lock" /\ m = Nobody
  /\ IF closed
     THEN bpc' = [bpc EXCEPT ![s] = "done"] /\ UNCHANGED <<m, todo, log>>
     ELSE /\ m' = s /\ todo' = DOMAIN listeners
          /\ log' = Append(log, s)
          /\ bpc' = [bpc EXCEPT ![s] = "send"]
  /\ UNCHANGED <<registry, closed, ch, ended, spc, gone, got>>

\* the map is ranged over in any order; a full channel is waited for
SendTo(s, i) ==
  LET c == listeners[i] IN
  /\ m = s /\ i \in todo /\ Len(ch[c]) < Capacity
  /\ ch' = [ch EXCEPT ![c] = Append(@, s)]
  /\ todo' = todo \ {i}
  /\ UNCHANGED <<registry, m, bpc, log, closed, ended, spc, gone, got>>

SendReturns(s) ==
  /\ m = s /\ todo = {}
  /\ m' = Nobody
  /\ bpc' = [bpc EXCEPT ![s] = "done"]
  /\ UNCHANGED <<registry, todo, log, closed, ch, ended, spc, gone, got>>

\* Broadcaster.Close, once
CloseAll ==
  /\ m = Nobody /\ ~closed
  /\ closed' = TRUE
  /\ ended' = ended \cup {listeners[i] : i \in DOMAIN listeners}
  /\ UNCHANGED <<registry, sending, ch, spc, gone, got>>

SubscriberStep(c) ==
  Listen(c) \/ CheckClient(c) \/ Receive(c) \/ ReceiveEnds(c) \/ CloseListener(c)

SenderStep(s) == Send(s) \/ (\E i \in DOMAIN listeners : SendTo(s, i)) \/ SendReturns(s)

BroadcastNext ==
  \/ \E c \in Subscriber : SubscriberStep(c) \/ ClientLeaves(c)
  \/ \E s \in Sender : SenderStep(s)
  \/ CloseAll

BroadcastSpec == BroadcastInit /\ [][BroadcastNext]_broadcastVars
-----------------------------------------------------------------------------
\* what has been put into the channel of c so far
Heard(c) == got[c] \o ch[c]

\* A subscriber gets the updates sent while its listener is registered, each
\* once, in the order they were sent, whatever its id was used for before.
ReceivedInOrder ==
  \A c \in Subscriber : spc[c] # "listen" =>
    /\ since[c] + Len(Heard(c)) <= Len(log)
    /\ \A k \in 1..Len(Heard(c)) : Heard(c)[k] = log[since[c] + k]
    /\ spc[c] # "done" /\ m = Nobody => since[c] + Len(Heard(c)) = Len(log)

\* a Send waits, with the mutex, for a subscriber that waits for the mutex
Wedged ==
  \E i \in todo : spc[listeners[i]] = "close" /\ Len(ch[listeners[i]]) = Capacity

\* From the first Send or the Close on, every Send returns, and every subscriber
\* that is done with its stream gets rid of its listener, unless a Send and a
\* subscriber wait for each other.
SendsEnd ==
  []<>\/ Wedged
      \/ /\ log # <<>> \/ closed => \A s \in Sender : bpc[s] = "done"
         /\ \A c \in Subscriber : spc[c] # "close"
=============================================================================

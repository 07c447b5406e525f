--------------------------- MODULE MessageSender ---------------------------
(***************************************************************************)
(* How the goroutines of a node share one stream to another peer           *)
(* (service/sender.go, and handleNewMessage of service/main.go at the      *)
(* other end).                                                             *)
(*                                                                         *)
(* The service keeps a messageSender per peer in strmap.  Whoever finds    *)
(* none makes one, opens its stream and removes it again if that fails.  A *)
(* sender is used under its lock lk: write the envelope, read the answer   *)
(* of a request, and on any error reset the stream and try once more on a  *)
(* new one.  A sender is named by the call that made it, a stream by the   *)
(* call that opened it and the try it was opened for.                      *)
(***************************************************************************)
EXTENDS Naturals, Sequences, SequencesExt

CONSTANTS
  Call,        \* goroutines with one envelope each for the same peer
  Request,     \* those that call SendRequest; the others call SendMessage
  None,        \* no sender, no stream, no holder, no answer
  ReuseTries,  \* streamReuseTries
  MaxBreaks    \* bound: connections that break, handlers that fail

ASSUME SenderConstants ==
  /\ Request \subseteq Call
  /\ ReuseTries \in Nat /\ MaxBreaks \in Nat
  /\ None \notin Call /\ None \notin Call \X (0..2)

Stream == Call \X (0..2)

VARIABLES
  strmap,     \* the sender in Service.strmap
  stream,     \* messageSender.s
  invalid,    \* messageSender.invalid
  lk,         \* the holder of messageSender.lk
  singleMes,  \* messageSender.singleMes
  wire,       \* each stream: what was written and is not read yet
  pc,         \* where a call is
  ms,         \* the sender it uses
  try,        \* 2 when its retry flag is set
  result,     \* what it returned
  answer,     \* the call whose envelope its answer answers
  taken,      \* history: how often its envelope reached the handler
  cut,        \* history: calls with an envelope on a stream that was reset
  breaks

senderStates == <<strmap, stream, invalid, lk, singleMes>>
callState == <<pc, ms, try, result, answer>>
senderVars == <<senderStates, wire, callState, taken, cut, breaks>>

\* closed: FullClose has been called, the peer reads on to the end
Wire == [state: {"new", "open", "closed", "reset"}, out: Seq(Call), back: Seq(Call)]

NoWire == [state |-> "new", out |-> <<>>, back |-> <<>>]

Label == {"lookup", "prepare", "forget", "lock", "prep", "write", "read", "finish", "done"}

SenderTypeOK ==
  /\ strmap \in Call \cup {None}
  /\ stream \in [Call -> Stream \cup {None}]
  /\ invalid \in [Call -> BOOLEAN]
  /\ lk \in [Call -> Call \cup {None}]
  /\ singleMes \in [Call -> Nat]
  /\ wire \in [Stream -> Wire]
  /\ pc \in [Call -> Label]
  /\ ms \in [Call -> Call \cup {None}]
  /\ try \in [Call -> 1..2]
  /\ result \in [Call -> {"none", "ok", "error"}]
  /\ answer \in [Call -> Call \cup {None}]
  /\ taken \in [Call -> Nat]
  /\ cut \subseteq Call
  /\ breaks \in 0..MaxBreaks

SenderInit ==
  /\ strmap = None
  /\ stream = [c \in Call |-> None] /\ invalid = [c \in Call |-> FALSE]
  /\ lk = [c \in Call |-> None] /\ singleMes = [c \in Call |-> 0]
  /\ wire = [x \in Stream |-> NoWire]
  /\ pc = [c \in Call |-> "lookup"] /\ ms = [c \in Call |-> None]
  /\ try = [c \in Call |-> 1]
  /\ result = [c \in Call |-> "none"] /\ answer = [c \in Call |-> None]
  /\ taken = [c \in Call |-> 0] /\ cut = {} /\ breaks = 0
-----------------------------------------------------------------------------
At(c, label) == pc[c] = label
Move(c, label) == pc' = [pc EXCEPT ![c] = label]

\* messageSenderForPeer: the sender in the map, or a new one put there
Found(c) ==
  /\ At(c, "lookup") /\ strmap # None
  /\ ms' = [ms EXCEPT ![c] = strmap]
  /\ Move(c, "lock")
  /\ UNCHANGED <<senderStates, wire, try, result, answer, taken, cut, breaks>>

MakeSender(c) ==
  /\ At(c, "lookup") /\ strmap = None
  /\ strmap' = c
  /\ ms' = [ms EXCEPT ![c] = c]
  /\ Move(c, "prepare")
  /\ UNCHANGED <<stream, invalid, lk, singleMes, wire, try, result, answer, taken, cut, breaks>>

\* sender s gets the new stream x
Opened(s, x) ==
  /\ stream' = [stream EXCEPT ![s] = x]
  /\ wire' = [wire EXCEPT ![x].state = "open"]

\* prepOrInvalidate takes the lock for this step; somebody who found the sender
\* in the map may have opened its stream before
Prepare(c) ==
  /\ At(c, "prepare") /\ lk[c] = None
  /\ \/ stream[c] # None /\ UNCHANGED <<stream, wire>>
     \/ stream[c] = None /\ Opened(c, <<c, 0>>)
  /\ Move(c, "lock")
  /\ UNCHANGED <<strmap, invalid, lk, singleMes, ms, try, result, answer, taken, cut, breaks>>

\* Mutant: a sender that could not be prepared is not marked.
LeaveValid(c) == UNCHANGED invalid

\* invalidate: there is no stream to reset, as prep had to open one
Invalidate(c) == invalid' = [invalid EXCEPT ![c] = TRUE]

PrepareFails(c) ==
  /\ At(c, "prepare") /\ lk[c] = None /\ stream[c] = None
  /\ Invalidate(c)
  /\ Move(c, "forget")
  /\ UNCHANGED <<strmap, stream, lk, singleMes, wire, ms, try, result, answer, taken, cut, breaks>>

\* the end of messageSenderForPeer after an error: use the sender that replaced
\* this one in the map, or remove this one
Forget(c) ==
  /\ At(c, "forget")
  /\ IF strmap \in Call \ {c}
     THEN /\ ms' = [ms EXCEPT ![c] = strmap]
          /\ Move(c, "lock")
          /\ UNCHANGED <<strmap, result>>
     ELSE /\ strmap' = None
          /\ result' = [result EXCEPT ![c] = "error"]
          /\ Move(c, "done")
          /\ UNCHANGED ms
  /\ UNCHANGED <<stream, invalid, lk, singleMes, wire, try, answer, taken, cut, breaks>>

\* SendMessage and SendRequest from here on
Lock(c) ==
  /\ At(c, "lock") /\ lk[ms[c]] = None
  /\ lk' = [lk EXCEPT ![ms[c]] = c]
  /\ Move(c, "prep")
  /\ UNCHANGED <<strmap, stream, invalid, singleMes, wire, ms, try, result, answer, taken, cut, breaks>>

\* c returns r, and the deferred Unlock runs
Return(c, r) ==
  /\ result' = [result EXCEPT ![c] = r]
  /\ lk' = [lk EXCEPT ![ms[c]] = None]
  /\ Move(c, "done")

Prep(c) ==
  /\ At(c, "prep") /\ ~invalid[ms[c]]
  /\ \/ stream[ms[c]] # None /\ UNCHANGED <<stream, wire>>
     \/ stream[ms[c]] = None /\ Opened(ms[c], <<c, try[c]>>)
  /\ Move(c, "write")
  /\ UNCHANGED <<strmap, invalid, lk, singleMes, ms, try, result, answer, taken, cut, breaks>>

\* Mutant: the lock is not released when prep fails.
StayLocked(c) ==
  /\ At(c, "prep")
  /\ invalid[ms[c]] \/ stream[ms[c]] = None
  /\ result' = [result EXCEPT ![c] = "error"]
  /\ Move(c, "done")
  /\ UNCHANGED <<senderStates, wire, ms, try, answer, taken, cut, breaks>>

\* the sender was invalidated, or no stream can be opened
PrepFails(c) ==
  /\ At(c, "prep")
  /\ invalid[ms[c]] \/ stream[ms[c]] = None
  /\ Return(c, "error")
  /\ UNCHANGED <<strmap, stream, invalid, singleMes, wire, ms, try, answer, taken, cut, breaks>>

\* the calls whose envelope is on stream x
On(x) == ToSet(wire[x].out)

\* writeMsg succeeds; on a stream the other end has reset the envelope is gone
Write(c) ==
  LET x == stream[ms[c]] IN
  /\ At(c, "write")
  /\ wire' = [wire EXCEPT ![x].out = IF wire[x].state = "open" THEN Append(@, c) ELSE @]
  /\ cut' = IF wire[x].state = "open" THEN cut ELSE cut \cup {c}
  /\ Move(c, IF c \in Request THEN "read" ELSE "finish")
  /\ UNCHANGED <<senderStates, ms, try, result, answer, taken, breaks>>

\* Mutant: the retry flag is never looked at.
AlwaysRetry(c) ==
  /\ try' = [try EXCEPT ![c] = 2] /\ Move(c, "prep")
  /\ UNCHANGED <<lk, result>>

\* the first error starts the loop again, the second is returned
RetryOrBail(c) ==
  \/ try[c] = 1 /\ try' = [try EXCEPT ![c] = 2] /\ Move(c, "prep") /\ UNCHANGED <<lk, result>>
  \/ try[c] = 2 /\ Return(c, "error") /\ UNCHANGED try

\* stream x is reset: what is on it reaches nobody
Reset(x) ==
  /\ wire' = [wire EXCEPT ![x] = [state |-> "reset", out |-> <<>>, back |-> <<>>]]
  /\ cut' = cut \cup On(x)

DropStream(c) == stream' = [stream EXCEPT ![ms[c]] = None]

WriteFails(c) ==
  /\ At(c, "write") /\ wire[stream[ms[c]]].state = "reset"
  /\ DropStream(c) /\ RetryOrBail(c)
  /\ UNCHANGED <<strmap, invalid, singleMes, wire, ms, answer, taken, cut, breaks>>

\* ctxReadMsg
Read(c) ==
  LET x == stream[ms[c]] IN
  /\ At(c, "read") /\ wire[x].back # <<>>
  /\ answer' = [answer EXCEPT ![c] = Head(wire[x].back)]
  /\ wire' = [wire EXCEPT ![x].back = Tail(@)]
  /\ Move(c, "finish")
  /\ UNCHANGED <<senderStates, ms, try, result, taken, cut, breaks>>

\* Mutant: after a timeout the stream is used again.
KeepStream(c) ==
  /\ At(c, "read")
  /\ RetryOrBail(c)
  /\ UNCHANGED <<strmap, stream, invalid, singleMes, wire, ms, answer, taken, cut, breaks>>

\* the stream is broken, or no answer came in time
ReadFails(c) ==
  /\ At(c, "read")
  /\ Reset(stream[ms[c]]) /\ DropStream(c) /\ RetryOrBail(c)
  /\ UNCHANGED <<strmap, invalid, singleMes, ms, answer, taken, breaks>>

\* Mutant: the stream is reset instead of closed.
HardClose(x) ==
  wire' = [wire EXCEPT ![x] = [state |-> "reset", out |-> <<>>, back |-> <<>>]]

\* FullClose: nothing is lost, the other end reads up to the end of the stream
CloseWhenRead(x) == wire' = [wire EXCEPT ![x].state = IF @ = "open" THEN "closed" ELSE @]

\* after enough successful retries a stream is used for one envelope only
Finish(c) ==
  LET s == ms[c] IN
  /\ At(c, "finish")
  /\ IF singleMes[s] > ReuseTries
     THEN CloseWhenRead(stream[s]) /\ DropStream(c) /\ UNCHANGED singleMes
     ELSE /\ singleMes' = [singleMes EXCEPT ![s] = IF try[c] = 2 THEN @ + 1 ELSE @]
          /\ UNCHANGED <<stream, wire>>
  /\ Return(c, "ok")
  /\ UNCHANGED <<strmap, invalid, ms, try, answer, taken, cut, breaks>>
-----------------------------------------------------------------------------
\* handleNewMessage at the other end: one goroutine per stream, in order; a
\* handler answers requests only
Handle(x) ==
  LET c == Head(wire[x].out) IN
  /\ wire[x].state \in {"open", "closed"} /\ wire[x].out # <<>>
  /\ taken' = [taken EXCEPT ![c] = @ + 1]
  /\ wire' = [wire EXCEPT ![x].out = Tail(@),
                          ![x].back = IF c \in Request THEN Append(@, c) ELSE @]
  /\ UNCHANGED <<senderStates, callState, cut, breaks>>

\* the handler returns an error: the stream is reset, with what came after it
HandlerFails(x) ==
  LET c == Head(wire[x].out) IN
  /\ wire[x].state \in {"open", "closed"} /\ wire[x].out # <<>> /\ breaks < MaxBreaks
  /\ taken' = [taken EXCEPT ![c] = @ + 1]
  /\ Reset(x)
  /\ breaks' = breaks + 1
  /\ UNCHANGED <<senderStates, callState>>

\* the connection breaks
Break(x) ==
  /\ wire[x].state \in {"open", "closed"} /\ breaks < MaxBreaks
  /\ Reset(x)
  /\ breaks' = breaks + 1
  /\ UNCHANGED <<senderStates, callState, taken>>

CallStep(c) ==
  \/ Found(c) \/ MakeSender(c) \/ Prepare(c) \/ PrepareFails(c) \/ Forget(c)
  \/ Lock(c) \/ Prep(c) \/ PrepFails(c) \/ Write(c) \/ WriteFails(c)
  \/ Read(c) \/ ReadFails(c) \/ Finish(c)

SenderNext ==
  \/ \E c \in Call : CallStep(c)
  \/ \E x \in Stream : Handle(x) \/ HandlerFails(x) \/ Break(x)

SenderSpec == SenderInit /\ [][SenderNext]_senderVars
-----------------------------------------------------------------------------
\* The answer a request gets is the answer to its own envelope, although all
\* requests to a peer share a stream and an answer may come after its timeout.
OwnAnswers ==
  \A c \in Call : /\ answer[c] \in {c, None}
                  /\ c \in Request /\ result[c] = "ok" => answer[c] = c

\* An envelope reaches the other end at most twice, however often streams break.
AtMostTwice == \A c \in Call : taken[c] <= 2

\* Every open stream is that of the sender in the map: none is forgotten, and
\* there is at most one to a peer; and a sender in the map that will never send
\* again is on its way out of it.
NoForgottenStream ==
  /\ \A x \in Stream : wire[x].state = "open" => strmap # None /\ stream[strmap] = x
  /\ strmap # None /\ invalid[strmap] => pc[strmap] = "forget"

\* An envelope whose sending was reported as a success has reached the other
\* end, is under way to it, or was on a stream that was reset.
SentUnlessReset ==
  \A c \in Call :
    result[c] = "ok" =>
      \/ taken[c] > 0 \/ c \in cut
      \/ \E x \in Stream : wire[x].state \in {"open", "closed"} /\ c \in On(x)

\* Every call that has begun returns: nobody keeps the lock of a sender.
CallsEnd == []<>(\A c \in Call : pc[c] \in {"lookup", "done"})
=============================================================================

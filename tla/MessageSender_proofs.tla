------------------------ MODULE MessageSender_proofs ------------------------
(***************************************************************************)
(* The safety properties of the message senders hold for any number of     *)
(* calls, envelopes, retries and broken streams.                           *)
(***************************************************************************)
EXTENDS MessageSender, TLAPS

Streaming == {"write", "read", "finish"}
Working == {"prep"} \cup Streaming
Written == {"read", "finish", "done"}

\* what a call knows and holds at each label
CallsOK ==
  \A c \in Call :
    /\ pc[c] \in {"prepare", "forget"} => ms[c] = c /\ strmap = c
    /\ pc[c] \in {"lock"} \cup Working => ms[c] \in Call
    /\ pc[c] \in Working => lk[ms[c]] = c
    /\ pc[c] \in Streaming => stream[ms[c]] # None
    /\ pc[c] \in {"lookup", "prepare"} => ~invalid[c]
    /\ pc[c] = "forget" => invalid[c]
    /\ pc[c] = "read" => c \in Request

\* a sender that can still open a stream is the one in the map
MapOK ==
  /\ \A c \in Call : ms[c] # None => invalid[ms[c]] \/ strmap = ms[c]
  /\ \A s \in Call : invalid[s] => stream[s] = None

\* the streams call c may still open
Unopened(c, k) ==
  IF k = 0 THEN pc[c] \in {"lookup", "prepare"}
  ELSE k > try[c] \/ (k = try[c] /\ pc[c] \notin Streaming \cup {"done"})

FreshOK == \A c \in Call, k \in 0..2 : Unopened(c, k) => wire[<<c, k>>] = NoWire

\* no answer is due or has come on a stream
Quiet(w) == w.back = <<>> /\ \A n \in 1..Len(w.out) : w.out[n] \notin Request

\* the answer to c is due, or has come
Pending(c, w) ==
  \/ /\ w.back = <<>> /\ w.out # <<>> /\ w.out[Len(w.out)] = c
     /\ \A n \in 1..(Len(w.out) - 1) : w.out[n] \notin Request
  \/ w.back = <<c>> /\ \A n \in 1..Len(w.out) : w.out[n] \notin Request

Reading(c, s) == c \in Call /\ pc[c] = "read" /\ ms[c] = s

StreamsOK ==
  \A s \in Call : stream[s] # None =>
    /\ wire[stream[s]].state # "new"
    /\ \A r \in Call : stream[r] = stream[s] => r = s
    /\ Quiet(wire[stream[s]]) \/ \E c \in Call : Reading(c, s) /\ Pending(c, wire[stream[s]])

\* how often an envelope has been written
Tries(c) == IF pc[c] \in Written THEN try[c] ELSE try[c] - 1

Copy(x, n, c) == n \in 1..Len(wire[x].out) /\ wire[x].out[n] = c

\* an envelope is on one stream at most, and has been handled less often than written
CopiesOK ==
  /\ \A c \in Call : taken[c] <= Tries(c)
  /\ \A x \in Stream, n \in Nat, c \in Call : Copy(x, n, c) =>
       /\ taken[c] < Tries(c) /\ pc[c] \in Written
       /\ pc[c] = "read" => x = stream[ms[c]]
       /\ \A y \in Stream, k \in Nat : Copy(y, k, c) => y = x /\ k = n

AnswersOK ==
  \A c \in Call :
    /\ answer[c] \in {c, None}
    /\ c \in Request /\ (pc[c] = "finish" \/ result[c] = "ok") => answer[c] = c

UnderWay(c) ==
  \/ taken[c] > 0 \/ c \in cut
  \/ \E x \in Stream, n \in Nat : wire[x].state \in {"open", "closed"} /\ Copy(x, n, c)

SentOK == \A c \in Call : pc[c] \in {"read", "finish"} \/ result[c] = "ok" => UnderWay(c)

IInv == /\ SenderTypeOK /\ CallsOK /\ MapOK /\ NoForgottenStream /\ FreshOK
        /\ StreamsOK /\ CopiesOK /\ AnswersOK /\ SentOK
-----------------------------------------------------------------------------
LEMMA Appended ==
  ASSUME NEW s \in Seq(Call), NEW c \in Call
  PROVE  /\ Append(s, c) \in Seq(Call) /\ Len(Append(s, c)) = Len(s) + 1 /\ Len(s) \in Nat
         /\ \A n \in 1..Len(s) : Append(s, c)[n] = s[n]
         /\ Append(s, c)[Len(s) + 1] = c
  OBVIOUS

LEMMA Shortened ==
  ASSUME NEW s \in Seq(Call), s # <<>>
  PROVE  /\ Tail(s) \in Seq(Call) /\ Len(Tail(s)) = Len(s) - 1 /\ Len(s) \in Nat \ {0}
         /\ \A n \in 1..Len(Tail(s)) : Tail(s)[n] = s[n + 1]
         /\ Head(s) = s[1] /\ Head(s) \in Call
  OBVIOUS

LEMMA InitInv == SenderInit => IInv
<1> SUFFICES ASSUME SenderInit PROVE IInv
  OBVIOUS
<1>0. NoWire \in Wire /\ NoWire.out = <<>> /\ NoWire.back = <<>> /\ Len(<<>>) = 0 /\ NoWire.state = "new"
  BY DEF NoWire, Wire
<1>1. SenderTypeOK
  BY <1>0, SenderConstants DEF SenderInit, SenderTypeOK, Label
<1>2. CallsOK /\ MapOK /\ NoForgottenStream
  BY <1>0, SenderConstants DEF SenderInit, CallsOK, MapOK, NoForgottenStream, Working, Streaming
<1>3. FreshOK /\ StreamsOK
  BY <1>0, SenderConstants DEF SenderInit, FreshOK, StreamsOK, Stream
<1>4. CopiesOK
  BY <1>0, SenderConstants DEF SenderInit, CopiesOK, Copy, Tries, Written
<1>5. AnswersOK /\ SentOK
  BY DEF SenderInit, AnswersOK, SentOK
<1> QED BY <1>1, <1>2, <1>3, <1>4, <1>5 DEF IInv

\* A step keeps StreamsOK when it leaves the streams in use alone, or drops them.
LEMMA StreamsKept ==
  ASSUME StreamsOK,
         \A s \in Call : stream'[s] # None =>
           /\ stream'[s] = stream[s]
           /\ wire'[stream[s]] = wire[stream[s]]
           /\ \A r \in Call : Reading(r, s) => Reading(r, s)'
  PROVE  StreamsOK'
<1>1. ASSUME NEW s \in Call, stream'[s] # None
      PROVE  /\ wire'[stream'[s]].state # "new"
             /\ \A r \in Call : stream'[r] = stream'[s] => r = s
             /\ Quiet(wire'[stream'[s]])
                \/ \E c \in Call : Reading(c, s)' /\ Pending(c, wire'[stream'[s]])
  <2>1. stream'[s] = stream[s] /\ wire'[stream'[s]] = wire[stream[s]]
    BY <1>1
  <2>2. \A r \in Call : stream'[r] = stream'[s] => stream[r] = stream[s]
    BY <1>1, <2>1
  <2> QED BY <1>1, <2>1, <2>2 DEF StreamsOK
<1> QED BY <1>1 DEF StreamsOK, Quiet, Pending

\* The new stream of sender s is nobody else's.
LEMMA StreamsOpened ==
  ASSUME SenderTypeOK, StreamsOK, NEW s \in Call, NEW x \in Stream,
         wire[x] = NoWire, stream[s] = None, Opened(s, x),
         \A r, t \in Call : Reading(r, t) => Reading(r, t)'
  PROVE  StreamsOK'
<1>1. /\ stream' = [stream EXCEPT ![s] = x]
      /\ wire'[x].state = "open" /\ wire'[x].out = <<>> /\ wire'[x].back = <<>>
      /\ \A y \in Stream : y # x => wire'[y] = wire[y]
  BY DEF Opened, NoWire, SenderTypeOK
<1>2. Quiet(wire'[x])
  BY <1>1 DEF Quiet
<1>3. \A r \in Call : stream[r] # None => stream[r] \in Stream /\ stream[r] # x
  BY DEF StreamsOK, NoWire, SenderTypeOK
<1>4. \A r \in Call : r # s => stream'[r] = stream[r]
  BY <1>1 DEF SenderTypeOK
<1>5. ASSUME NEW r \in Call, stream'[r] # None
      PROVE  /\ wire'[stream'[r]].state # "new"
             /\ \A t \in Call : stream'[t] = stream'[r] => t = r
             /\ Quiet(wire'[stream'[r]])
                \/ \E c \in Call : Reading(c, r)' /\ Pending(c, wire'[stream'[r]])
  <2>1. CASE r = s
    BY <2>1, <1>1, <1>2, <1>3, <1>4, SenderConstants DEF SenderTypeOK, Stream
  <2>2. CASE r # s
    <3>1. stream'[r] = stream[r] /\ stream[r] # x /\ wire'[stream[r]] = wire[stream[r]]
      BY <2>2, <1>1, <1>3, <1>4, <1>5
    <3>2. \A t \in Call : stream'[t] = stream'[r] => t = r
      BY <3>1, <1>1, <1>4, <1>5 DEF StreamsOK, SenderTypeOK
    <3> QED BY <3>1, <3>2, <1>5 DEF StreamsOK
  <2> QED BY <2>1, <2>2
<1> QED BY <1>5 DEF StreamsOK, Quiet, Pending

\* A step of the other end of stream x.
LEMMA StreamsHandled ==
  ASSUME SenderTypeOK, StreamsOK, UNCHANGED <<stream, pc, ms>>, NEW x \in Stream, NEW w,
         wire' = [wire EXCEPT ![x] = w], w.state # "new",
         Quiet(wire[x]) => Quiet(w),
         \A c \in Call : Pending(c, wire[x]) => Quiet(w) \/ Pending(c, w)
  PROVE  StreamsOK'
<1>1. wire'[x] = w /\ \A y \in Stream : y # x => wire'[y] = wire[y]
  BY DEF SenderTypeOK
<1>2. \A c, s \in Call : Reading(c, s)' <=> Reading(c, s)
  BY DEF Reading
<1>3. ASSUME NEW s \in Call, stream[s] # None
      PROVE  /\ wire'[stream[s]].state # "new"
             /\ Quiet(wire'[stream[s]]) \/ \E c \in Call : Reading(c, s) /\ Pending(c, wire'[stream[s]])
  <2>0. stream[s] \in Stream
    BY <1>3 DEF SenderTypeOK
  <2>1. CASE stream[s] = x
    BY <2>1, <1>1, <1>3 DEF StreamsOK
  <2>2. CASE stream[s] # x
    BY <2>0, <2>2, <1>1, <1>3 DEF StreamsOK
  <2> QED BY <2>1, <2>2
<1>4. \A s, r \in Call : stream[s] # None /\ stream[r] = stream[s] => r = s
  BY DEF StreamsOK
<1>5. stream' = stream
  OBVIOUS
<1>6. ASSUME NEW s \in Call, stream'[s] # None
      PROVE  /\ wire'[stream'[s]].state # "new"
             /\ \A r \in Call : stream'[r] = stream'[s] => r = s
             /\ Quiet(wire'[stream'[s]])
                \/ \E c \in Call : Reading(c, s)' /\ Pending(c, wire'[stream'[s]])
  <2>1. stream[s] # None
    BY <1>5, <1>6
  <2> QED BY <1>2, <1>3, <1>4, <1>5, <2>1
<1> QED BY <1>6 DEF StreamsOK, Quiet, Pending

LEMMA TriesType ==
  ASSUME SenderTypeOK, SenderTypeOK'
  PROVE  \A c \in Call : Tries(c) \in Int /\ Tries(c)' \in Int /\ taken[c] \in Nat
BY DEF SenderTypeOK, Tries

\* A step that handles no envelope and adds none to a stream.
LEMMA CopiesKept ==
  ASSUME SenderTypeOK, SenderTypeOK', CopiesOK, UNCHANGED taken,
         \A c \in Call : Tries(c) <= Tries(c)',
         \A x \in Stream, n \in Nat, c \in Call : Copy(x, n, c)' =>
           /\ Copy(x, n, c)
           /\ pc'[c] \in Written
           /\ pc'[c] = "read" => stream'[ms'[c]] = x
  PROVE  CopiesOK'
<1>1. \A c \in Call : Tries(c) \in Int /\ Tries(c)' \in Int /\ taken[c] \in Nat
  BY TriesType
<1>2. \A c \in Call : taken'[c] <= Tries(c)'
  BY <1>1 DEF CopiesOK, Tries
<1>3. ASSUME NEW x \in Stream, NEW n \in Nat, NEW c \in Call, Copy(x, n, c)'
      PROVE  /\ taken'[c] < Tries(c)' /\ pc'[c] \in Written
             /\ pc'[c] = "read" => x = stream'[ms'[c]]
             /\ \A y \in Stream, k \in Nat : Copy(y, k, c)' => y = x /\ k = n
  <2>1. Copy(x, n, c) /\ pc'[c] \in Written /\ (pc'[c] = "read" => x = stream'[ms'[c]])
    BY <1>3
  <2>2. taken'[c] < Tries(c)'
    BY <2>1, <1>1 DEF CopiesOK, Tries
  <2>3. ASSUME NEW y \in Stream, NEW k \in Nat, Copy(y, k, c)' PROVE y = x /\ k = n
    <3>1. Copy(y, k, c)
      BY <2>3
    <3> QED BY <3>1, <2>1 DEF CopiesOK
  <2> QED BY <2>1, <2>2, <2>3
<1> QED BY <1>2, <1>3 DEF CopiesOK, Tries, Copy

\* The first envelope of stream x is handled.
LEMMA CopiesTaken ==
  ASSUME SenderTypeOK, CopiesOK, UNCHANGED <<pc, ms, stream, try>>,
         NEW x \in Stream, NEW c \in Call, Copy(x, 1, c),
         taken' = [taken EXCEPT ![c] = @ + 1],
         \A y \in Stream, n \in Nat, d \in Call : Copy(y, n, d)' =>
           (y = x /\ Copy(x, n + 1, d)) \/ (y # x /\ Copy(y, n, d))
  PROVE  CopiesOK'
<1>1. \A d \in Call : Tries(d) \in Int /\ Tries(d)' = Tries(d) /\ taken[d] \in Nat
  <2>1. \A d \in Call : try[d] \in 1..2 /\ taken[d] \in Nat
    BY DEF SenderTypeOK
  <2>2. \A d \in Call : Tries(d)' = Tries(d)
    BY DEF Tries
  <2> QED BY <2>1, <2>2 DEF Tries
<1>2. \A d \in Call : taken'[d] = IF d = c THEN taken[d] + 1 ELSE taken[d]
  BY DEF SenderTypeOK
<1>3. \A d \in Call : taken'[d] <= Tries(d)
  BY <1>1, <1>2 DEF CopiesOK
<1>4. ASSUME NEW y \in Stream, NEW n \in Nat, NEW d \in Call, Copy(y, n, d)'
      PROVE  /\ taken'[d] < Tries(d) /\ pc[d] \in Written
             /\ pc[d] = "read" => y = stream[ms[d]]
             /\ \A z \in Stream, k \in Nat : Copy(z, k, d)' => z = y /\ k = n
  <2>0. n >= 1
    BY <1>4 DEF Copy
  <2>1. PICK m \in Nat : m >= 1 /\ Copy(y, m, d) /\ (y = x => m = n + 1) /\ (y # x => m = n)
    BY <1>4, <2>0
  <2>2. d # c
    BY <2>0, <2>1 DEF CopiesOK
  <2>3. taken'[d] < Tries(d) /\ pc[d] \in Written /\ (pc[d] = "read" => y = stream[ms[d]])
    BY <2>1, <2>2, <1>2 DEF CopiesOK
  <2>4. ASSUME NEW z \in Stream, NEW k \in Nat, Copy(z, k, d)' PROVE z = y /\ k = n
    <3>1. PICK l \in Nat : Copy(z, l, d) /\ (z = x => l = k + 1) /\ (z # x => l = k)
      BY <2>4
    <3>2. z = y /\ l = m
      BY <3>1, <2>1 DEF CopiesOK
    <3> QED BY <3>1, <3>2, <2>1
  <2> QED BY <2>3, <2>4
<1> QED BY <1>1, <1>3, <1>4 DEF CopiesOK, Tries, Copy

\* What is under way stays so, is handled, or is cut off.
LEMMA SentKept ==
  ASSUME SentOK,
         \A c \in Call : UnderWay(c) => UnderWay(c)',
         \A c \in Call : pc'[c] \in {"read", "finish"} \/ result'[c] = "ok" =>
                          pc[c] \in {"read", "finish"} \/ result[c] = "ok"
  PROVE  SentOK'
BY DEF SentOK, UnderWay, Copy

LEMMA StaysUnderWay ==
  ASSUME NEW c \in Call, UnderWay(c), taken'[c] = taken[c], cut \subseteq cut',
         \A x \in Stream, n \in Nat :
           Copy(x, n, c) /\ wire[x].state \in {"open", "closed"} =>
             \/ Copy(x, n, c)' /\ wire'[x].state \in {"open", "closed"}
             \/ c \in cut'
  PROVE  UnderWay(c)'
BY DEF UnderWay, Copy

\* A step that leaves what was written alone keeps CopiesOK and SentOK.
LEMMA WrittenKept ==
  ASSUME IInv, SenderTypeOK', UNCHANGED <<taken, cut>>,
         \A x \in Stream : /\ wire'[x].out = wire[x].out
                           /\ wire[x].state \in {"open", "closed"} => wire'[x].state \in {"open", "closed"},
         \A c \in Call : /\ Tries(c) <= Tries(c)'
                         /\ pc[c] \in Written => pc'[c] \in Written
                         /\ pc'[c] = "read" => pc[c] = "read" /\ stream'[ms'[c]] = stream[ms[c]]
                         /\ pc'[c] \in {"read", "finish"} \/ result'[c] = "ok" =>
                              pc[c] \in {"read", "finish"} \/ result[c] = "ok"
  PROVE  CopiesOK' /\ SentOK'
<1>1. \A x \in Stream, n \in Nat, c \in Call : Copy(x, n, c)' <=> Copy(x, n, c)
  BY DEF Copy
<1>2. \A x \in Stream, n \in Nat, c \in Call : Copy(x, n, c)' =>
        /\ Copy(x, n, c) /\ pc'[c] \in Written
        /\ pc'[c] = "read" => stream'[ms'[c]] = x
  BY <1>1 DEF IInv, CopiesOK
<1>3. \A c \in Call : Tries(c) <= Tries(c)'
  OBVIOUS
<1>4. CopiesOK'
  BY <1>2, <1>3, CopiesKept DEF IInv
<1>5. \A c \in Call : UnderWay(c) => UnderWay(c)'
  BY DEF UnderWay, Copy
<1> QED BY <1>4, <1>5, SentKept DEF IInv

LEMMA FoundInv ==
  ASSUME IInv, NEW c \in Call, Found(c) PROVE IInv'
<1> USE DEF Found, At, Move, senderStates
<1>1. SenderTypeOK'
  BY SenderConstants DEF IInv, SenderTypeOK, Label, Wire, Stream
<1>2. CallsOK'
  BY SenderConstants DEF IInv, SenderTypeOK, CallsOK, Working, Streaming
<1>3. MapOK'
  BY SenderConstants DEF IInv, SenderTypeOK, CallsOK, MapOK, Working, Streaming
<1>4. NoForgottenStream'
  BY SenderConstants DEF IInv, SenderTypeOK, CallsOK, MapOK, NoForgottenStream, Stream
<1>5. FreshOK'
  BY SenderConstants DEF IInv, SenderTypeOK, FreshOK, Unopened, Streaming, Stream
<1>6. StreamsOK'
  BY StreamsKept DEF IInv, SenderTypeOK, Reading
<1>7. CopiesOK' /\ SentOK'
  <2>1. \A d \in Call : /\ Tries(d) <= Tries(d)'
                        /\ pc[d] \in Written => pc'[d] \in Written
                        /\ pc'[d] = "read" => pc[d] = "read" /\ stream'[ms'[d]] = stream[ms[d]]
                        /\ pc'[d] \in {"read", "finish"} \/ result'[d] = "ok" =>
                             pc[d] \in {"read", "finish"} \/ result[d] = "ok"
    BY DEF IInv, SenderTypeOK, Tries, Written
  <2>2. UNCHANGED <<wire, taken, cut>>
    OBVIOUS
  <2> HIDE DEF Found
  <2> QED BY <1>1, <2>1, <2>2, WrittenKept
<1>8. AnswersOK'
  BY SenderConstants DEF IInv, SenderTypeOK, AnswersOK
<1> QED BY <1>1, <1>2, <1>3, <1>4, <1>5, <1>6, <1>7, <1>8 DEF IInv

LEMMA MakeSenderInv ==
  ASSUME IInv, NEW c \in Call, MakeSender(c) PROVE IInv'
<1> USE DEF MakeSender, At, Move, senderStates
<1>1. SenderTypeOK'
  BY SenderConstants DEF IInv, SenderTypeOK, Label, Wire, Stream
<1>2. CallsOK'
  BY SenderConstants DEF IInv, SenderTypeOK, CallsOK, Working, Streaming
<1>3. MapOK'
  BY SenderConstants DEF IInv, SenderTypeOK, CallsOK, MapOK, Working, Streaming
<1>4. NoForgottenStream'
  BY SenderConstants DEF IInv, SenderTypeOK, CallsOK, MapOK, NoForgottenStream, Stream
<1>5. FreshOK'
  BY SenderConstants DEF IInv, SenderTypeOK, FreshOK, Unopened, Streaming, Stream
<1>6. StreamsOK'
  BY StreamsKept DEF IInv, SenderTypeOK, Reading
<1>7. CopiesOK' /\ SentOK'
  <2>1. \A d \in Call : /\ Tries(d) <= Tries(d)'
                        /\ pc[d] \in Written => pc'[d] \in Written
                        /\ pc'[d] = "read" => pc[d] = "read" /\ stream'[ms'[d]] = stream[ms[d]]
                        /\ pc'[d] \in {"read", "finish"} \/ result'[d] = "ok" =>
                             pc[d] \in {"read", "finish"} \/ result[d] = "ok"
    BY DEF IInv, SenderTypeOK, Tries, Written
  <2>2. UNCHANGED <<wire, taken, cut>>
    OBVIOUS
  <2> HIDE DEF MakeSender
  <2> QED BY <1>1, <2>1, <2>2, WrittenKept
<1>8. AnswersOK'
  BY SenderConstants DEF IInv, SenderTypeOK, AnswersOK
<1> QED BY <1>1, <1>2, <1>3, <1>4, <1>5, <1>6, <1>7, <1>8 DEF IInv

LEMMA PrepareFailsInv ==
  ASSUME IInv, NEW c \in Call, PrepareFails(c) PROVE IInv'
<1> USE DEF PrepareFails, At, Move, senderStates, Invalidate
<1>1. SenderTypeOK'
  BY SenderConstants DEF IInv, SenderTypeOK, Label, Wire, Stream
<1>2. CallsOK'
  BY SenderConstants DEF IInv, SenderTypeOK, CallsOK, Working, Streaming
<1>3. MapOK'
  BY SenderConstants DEF IInv, SenderTypeOK, CallsOK, MapOK, Working, Streaming
<1>4. NoForgottenStream'
  BY SenderConstants DEF IInv, SenderTypeOK, CallsOK, MapOK, NoForgottenStream, Stream
<1>5. FreshOK'
  BY SenderConstants DEF IInv, SenderTypeOK, FreshOK, Unopened, Streaming, Stream
<1>6. StreamsOK'
  BY StreamsKept DEF IInv, SenderTypeOK, Reading
<1>7. CopiesOK' /\ SentOK'
  <2>1. \A d \in Call : /\ Tries(d) <= Tries(d)'
                        /\ pc[d] \in Written => pc'[d] \in Written
                        /\ pc'[d] = "read" => pc[d] = "read" /\ stream'[ms'[d]] = stream[ms[d]]
                        /\ pc'[d] \in {"read", "finish"} \/ result'[d] = "ok" =>
                             pc[d] \in {"read", "finish"} \/ result[d] = "ok"
    BY DEF IInv, SenderTypeOK, Tries, Written
  <2>2. UNCHANGED <<wire, taken, cut>>
    OBVIOUS
  <2> HIDE DEF PrepareFails
  <2> QED BY <1>1, <2>1, <2>2, WrittenKept
<1>8. AnswersOK'
  BY SenderConstants DEF IInv, SenderTypeOK, AnswersOK
<1> QED BY <1>1, <1>2, <1>3, <1>4, <1>5, <1>6, <1>7, <1>8 DEF IInv

LEMMA LockInv ==
  ASSUME IInv, NEW c \in Call, Lock(c) PROVE IInv'
<1> USE DEF Lock, At, Move, senderStates
<1>1. SenderTypeOK'
  BY SenderConstants DEF IInv, SenderTypeOK, Label, Wire, Stream
<1>2. CallsOK'
  BY SenderConstants DEF IInv, SenderTypeOK, CallsOK, Working, Streaming
<1>3. MapOK'
  BY SenderConstants DEF IInv, SenderTypeOK, CallsOK, MapOK, Working, Streaming
<1>4. NoForgottenStream'
  BY SenderConstants DEF IInv, SenderTypeOK, CallsOK, MapOK, NoForgottenStream, Stream
<1>5. FreshOK'
  BY SenderConstants DEF IInv, SenderTypeOK, FreshOK, Unopened, Streaming, Stream
<1>6. StreamsOK'
  BY StreamsKept DEF IInv, SenderTypeOK, Reading
<1>7. CopiesOK' /\ SentOK'
  <2>1. \A d \in Call : /\ Tries(d) <= Tries(d)'
                        /\ pc[d] \in Written => pc'[d] \in Written
                        /\ pc'[d] = "read" => pc[d] = "read" /\ stream'[ms'[d]] = stream[ms[d]]
                        /\ pc'[d] \in {"read", "finish"} \/ result'[d] = "ok" =>
                             pc[d] \in {"read", "finish"} \/ result[d] = "ok"
    BY DEF IInv, SenderTypeOK, Tries, Written
  <2>2. UNCHANGED <<wire, taken, cut>>
    OBVIOUS
  <2> HIDE DEF Lock
  <2> QED BY <1>1, <2>1, <2>2, WrittenKept
<1>8. AnswersOK'
  BY SenderConstants DEF IInv, SenderTypeOK, AnswersOK
<1> QED BY <1>1, <1>2, <1>3, <1>4, <1>5, <1>6, <1>7, <1>8 DEF IInv

LEMMA PrepFailsInv ==
  ASSUME IInv, NEW c \in Call, PrepFails(c) PROVE IInv'
<1> USE DEF PrepFails, At, Move, senderStates, Return
<1>1. SenderTypeOK'
  BY SenderConstants DEF IInv, SenderTypeOK, Label, Wire, Stream
<1>2. CallsOK'
  BY SenderConstants DEF IInv, SenderTypeOK, CallsOK, Working, Streaming
<1>3. MapOK'
  BY SenderConstants DEF IInv, SenderTypeOK, CallsOK, MapOK, Working, Streaming
<1>4. NoForgottenStream'
  BY SenderConstants DEF IInv, SenderTypeOK, CallsOK, MapOK, NoForgottenStream, Stream
<1>5. FreshOK'
  BY SenderConstants DEF IInv, SenderTypeOK, FreshOK, Unopened, Streaming, Stream
<1>6. StreamsOK'
  BY StreamsKept DEF IInv, SenderTypeOK, Reading
<1>7. CopiesOK' /\ SentOK'
  <2>1. \A d \in Call : /\ Tries(d) <= Tries(d)'
                        /\ pc[d] \in Written => pc'[d] \in Written
                        /\ pc'[d] = "read" => pc[d] = "read" /\ stream'[ms'[d]] = stream[ms[d]]
                        /\ pc'[d] \in {"read", "finish"} \/ result'[d] = "ok" =>
                             pc[d] \in {"read", "finish"} \/ result[d] = "ok"
    BY DEF IInv, SenderTypeOK, Tries, Written
  <2>2. UNCHANGED <<wire, taken, cut>>
    OBVIOUS
  <2> HIDE DEF PrepFails
  <2> QED BY <1>1, <2>1, <2>2, WrittenKept
<1>8. AnswersOK'
  BY SenderConstants DEF IInv, SenderTypeOK, AnswersOK
<1> QED BY <1>1, <1>2, <1>3, <1>4, <1>5, <1>6, <1>7, <1>8 DEF IInv

LEMMA ForgetInv ==
  ASSUME IInv, NEW c \in Call, Forget(c) PROVE IInv'
<1>0. /\ pc[c] = "forget" /\ strmap = c /\ invalid[c] /\ stream[c] = None
      /\ strmap' = None /\ pc' = [pc EXCEPT ![c] = "done"] /\ result' = [result EXCEPT ![c] = "error"]
      /\ UNCHANGED <<stream, invalid, lk, singleMes, wire, ms, try, answer, taken, cut, breaks>>
  BY DEF IInv, CallsOK, MapOK, Forget, At, Move
<1>1. SenderTypeOK'
  BY <1>0, SenderConstants DEF IInv, SenderTypeOK, Label, Wire, Stream
<1>2. CallsOK'
  BY <1>0, SenderConstants DEF IInv, SenderTypeOK, CallsOK, Working, Streaming
<1>3. MapOK'
  BY <1>0, SenderConstants DEF IInv, SenderTypeOK, CallsOK, MapOK, Working, Streaming
<1>4. NoForgottenStream'
  BY <1>0, SenderConstants DEF IInv, SenderTypeOK, CallsOK, MapOK, NoForgottenStream, Stream
<1>5. FreshOK'
  BY <1>0, SenderConstants DEF IInv, SenderTypeOK, FreshOK, Unopened, Streaming, Stream
<1>6. StreamsOK'
  BY <1>0, StreamsKept DEF IInv, SenderTypeOK, Reading
<1>7. CopiesOK' /\ SentOK'
  <2>1. \A d \in Call : /\ Tries(d) <= Tries(d)'
                        /\ pc[d] \in Written => pc'[d] \in Written
                        /\ pc'[d] = "read" => pc[d] = "read" /\ stream'[ms'[d]] = stream[ms[d]]
                        /\ pc'[d] \in {"read", "finish"} \/ result'[d] = "ok" =>
                             pc[d] \in {"read", "finish"} \/ result[d] = "ok"
    BY <1>0 DEF IInv, SenderTypeOK, Tries, Written
  <2> QED BY <1>0, <1>1, <2>1, WrittenKept
<1>8. AnswersOK'
  BY <1>0, SenderConstants DEF IInv, SenderTypeOK, AnswersOK
<1> QED BY <1>1, <1>2, <1>3, <1>4, <1>5, <1>6, <1>7, <1>8 DEF IInv

\* The sender s in the map gets the stream that call c opens.
LEMMA OpenedInv ==
  ASSUME IInv, NEW s \in Call, NEW c \in Call, NEW k \in 0..2,
         Unopened(c, k), stream[s] = None, strmap = s, ~invalid[s], Opened(s, <<c, k>>),
         UNCHANGED <<strmap, invalid, ms, try>>, NEW l, pc' = [pc EXCEPT ![c] = l],
         pc[c] # "read", ~Unopened(c, k)', \A j \in 0..2 : Unopened(c, j)' => Unopened(c, j)
  PROVE  /\ stream' \in [Call -> Stream \cup {None}] /\ wire' \in [Stream -> Wire]
         /\ NoForgottenStream' /\ FreshOK' /\ StreamsOK'
         /\ \A x \in Stream : /\ wire'[x].out = wire[x].out
                              /\ wire[x].state \in {"open", "closed"} => wire'[x].state \in {"open", "closed"}
<1> DEFINE x == <<c, k>>
<1>0. x \in Stream /\ wire[x] = NoWire
  BY DEF Stream, IInv, FreshOK
<1>1. /\ stream' = [stream EXCEPT ![s] = x]
      /\ wire'[x] = [NoWire EXCEPT !.state = "open"]
      /\ \A y \in Stream : y # x => wire'[y] = wire[y]
  BY <1>0 DEF Opened, IInv, SenderTypeOK, NoWire, Wire
<1>2. stream' \in [Call -> Stream \cup {None}] /\ wire' \in [Stream -> Wire]
  <2>1. stream' \in [Call -> Stream \cup {None}]
    BY <1>0, <1>1 DEF IInv, SenderTypeOK
  <2>2. wire'[x] \in Wire
    <3>1. wire'[x] = [state |-> "open", out |-> <<>>, back |-> <<>>] /\ <<>> \in Seq(Call)
      BY <1>1 DEF NoWire
    <3> QED BY <3>1 DEF Wire
  <2>3. \A y \in Stream : wire'[y] \in Wire
    BY <1>1, <2>2 DEF IInv, SenderTypeOK
  <2>4. wire' = [y \in Stream |-> wire'[y]]
    BY DEF Opened, IInv, SenderTypeOK
  <2> QED BY <2>1, <2>3, <2>4
<1>3. NoForgottenStream'
  <2>1. \A y \in Stream : wire'[y].state = "open" => y = x
    BY <1>1, SenderConstants DEF IInv, NoForgottenStream, Stream
  <2>2. strmap' = s /\ stream'[s] = x /\ s # None
    BY <1>1, SenderConstants DEF IInv, SenderTypeOK
  <2> QED BY <2>1, <2>2 DEF NoForgottenStream
<1>4. FreshOK'
  <2> SUFFICES ASSUME NEW d \in Call, NEW j \in 0..2, Unopened(d, j)' PROVE wire'[<<d, j>>] = NoWire
    BY DEF FreshOK
  <2>1. Unopened(d, j) /\ <<d, j>> # x
    BY DEF Unopened, IInv, SenderTypeOK
  <2>2. <<d, j>> \in Stream
    BY DEF Stream
  <2> QED BY <2>1, <2>2, <1>1 DEF IInv, FreshOK
<1>5. StreamsOK'
  <2>1. \A r, t \in Call : Reading(r, t) => Reading(r, t)'
    BY DEF Reading, IInv, SenderTypeOK
  <2> QED BY <1>0, <2>1, StreamsOpened DEF IInv
<1>6. \A y \in Stream : /\ wire'[y].out = wire[y].out
                        /\ wire[y].state \in {"open", "closed"} => wire'[y].state \in {"open", "closed"}
  BY <1>0, <1>1 DEF NoWire
<1> QED BY <1>2, <1>3, <1>4, <1>5, <1>6

LEMMA PrepareInv ==
  ASSUME IInv, NEW c \in Call, Prepare(c) PROVE IInv'
<1> USE DEF Prepare, At, Move
<1>0. /\ pc[c] = "prepare" /\ pc' = [pc EXCEPT ![c] = "lock"] /\ strmap = c /\ ~invalid[c]
      /\ stream' \in [Call -> Stream \cup {None}] /\ wire' \in [Stream -> Wire]
      /\ NoForgottenStream' /\ FreshOK' /\ StreamsOK'
      /\ \A x \in Stream : /\ wire'[x].out = wire[x].out
                           /\ wire[x].state \in {"open", "closed"} => wire'[x].state \in {"open", "closed"}
  <2>0. pc[c] = "prepare" /\ pc' = [pc EXCEPT ![c] = "lock"] /\ strmap = c /\ ~invalid[c]
    BY DEF IInv, CallsOK
  <2>1. CASE stream[c] # None /\ UNCHANGED <<stream, wire>>
    <3>1. StreamsOK'
      BY <2>0, <2>1, StreamsKept DEF IInv, SenderTypeOK, Reading
    <3>2. FreshOK'
      <4>1. \A d \in Call, j \in 0..2 : Unopened(d, j)' => Unopened(d, j)
        BY <2>0 DEF IInv, SenderTypeOK, Unopened, Streaming
      <4> QED BY <2>1, <4>1 DEF IInv, FreshOK
    <3>3. NoForgottenStream'
      BY <2>0, <2>1 DEF IInv, NoForgottenStream
    <3> QED BY <2>0, <2>1, <3>1, <3>2, <3>3 DEF IInv, SenderTypeOK
  <2>2. CASE stream[c] = None /\ Opened(c, <<c, 0>>)
    <3>1. Unopened(c, 0) /\ ~Unopened(c, 0)' /\ \A j \in 0..2 : Unopened(c, j)' => Unopened(c, j)
      BY <2>0 DEF IInv, SenderTypeOK, Unopened, Streaming
    <3>2. UNCHANGED <<strmap, invalid, ms, try>> /\ 0 \in 0..2
      OBVIOUS
    <3> HIDE DEF Prepare, Move, At
    <3> QED BY <2>0, <2>2, <3>1, <3>2, OpenedInv
  <2> QED BY <2>1, <2>2
<1>1. SenderTypeOK'
  <2>1. pc' \in [Call -> Label]
    BY <1>0 DEF IInv, SenderTypeOK, Label
  <2>2. UNCHANGED <<strmap, invalid, lk, singleMes, ms, try, result, answer, taken, cut, breaks>>
    OBVIOUS
  <2> HIDE DEF Prepare
  <2> QED BY <1>0, <2>1, <2>2 DEF IInv, SenderTypeOK
<1>b. \A s \in Call : s # c => stream'[s] = stream[s]
  BY DEF Opened, IInv, SenderTypeOK
<1>c. stream'[c] # None
  <2>1. <<c, 0>> # None
    BY SenderConstants
  <2> QED BY <2>1 DEF Opened, IInv, SenderTypeOK
<1>2. CallsOK'
  BY <1>0, <1>b, <1>c, SenderConstants DEF IInv, SenderTypeOK, CallsOK, Working, Streaming
<1>3. MapOK'
  BY <1>0, <1>b DEF IInv, MapOK
<1>4. CopiesOK' /\ SentOK'
  <2>1. \A d \in Call : /\ Tries(d) <= Tries(d)'
                        /\ pc[d] \in Written => pc'[d] \in Written
                        /\ pc'[d] = "read" => pc[d] = "read"
                        /\ pc'[d] \in {"read", "finish"} => pc[d] \in {"read", "finish"}
    BY <1>0 DEF IInv, SenderTypeOK, Tries, Written
  <2>2. \A d \in Call : pc[d] = "read" => stream'[ms[d]] = stream[ms[d]]
    BY SenderConstants DEF Opened, IInv, SenderTypeOK, CallsOK, Working, Streaming
  <2>3. UNCHANGED <<ms, result, taken, cut>>
    OBVIOUS
  <2> HIDE DEF Prepare
  <2> QED BY <1>0, <1>1, <2>1, <2>2, <2>3, WrittenKept
<1>5. AnswersOK'
  BY <1>0 DEF IInv, SenderTypeOK, AnswersOK
<1> QED BY <1>0, <1>1, <1>2, <1>3, <1>4, <1>5 DEF IInv

LEMMA PrepInv ==
  ASSUME IInv, NEW c \in Call, Prep(c) PROVE IInv'
<1> USE DEF Prep, At, Move
<1>0. /\ pc[c] = "prep" /\ pc' = [pc EXCEPT ![c] = "write"] /\ ms[c] \in Call
      /\ strmap = ms[c] /\ ~invalid[ms[c]] /\ lk[ms[c]] = c
  BY SenderConstants DEF IInv, SenderTypeOK, CallsOK, MapOK, Working
<1>a. /\ stream' \in [Call -> Stream \cup {None}] /\ wire' \in [Stream -> Wire]
      /\ NoForgottenStream' /\ FreshOK' /\ StreamsOK'
      /\ \A x \in Stream : /\ wire'[x].out = wire[x].out
                           /\ wire[x].state \in {"open", "closed"} => wire'[x].state \in {"open", "closed"}
  <2>1. CASE stream[ms[c]] # None /\ UNCHANGED <<stream, wire>>
    <3>1. StreamsOK'
      BY <1>0, <2>1, StreamsKept DEF IInv, SenderTypeOK, Reading
    <3>2. FreshOK'
      <4>1. \A d \in Call, j \in 0..2 : Unopened(d, j)' => Unopened(d, j)
        BY <1>0 DEF IInv, SenderTypeOK, Unopened, Streaming
      <4> QED BY <2>1, <4>1 DEF IInv, FreshOK
    <3>3. NoForgottenStream'
      BY <1>0, <2>1 DEF IInv, NoForgottenStream
    <3> QED BY <1>0, <2>1, <3>1, <3>2, <3>3 DEF IInv, SenderTypeOK
  <2>2. CASE stream[ms[c]] = None /\ Opened(ms[c], <<c, try[c]>>)
    <3>1. /\ try[c] \in 0..2 /\ Unopened(c, try[c]) /\ ~Unopened(c, try[c])'
          /\ \A j \in 0..2 : Unopened(c, j)' => Unopened(c, j)
      BY <1>0 DEF IInv, SenderTypeOK, Unopened, Streaming
    <3> QED BY <1>0, <2>2, <3>1, OpenedInv
  <2> QED BY <2>1, <2>2
<1>1. SenderTypeOK'
  <2>1. pc' \in [Call -> Label]
    BY <1>0 DEF IInv, SenderTypeOK, Label
  <2>2. UNCHANGED <<strmap, invalid, lk, singleMes, ms, try, result, answer, taken, cut, breaks>>
    OBVIOUS
  <2> HIDE DEF Prep
  <2> QED BY <1>0, <1>a, <2>1, <2>2 DEF IInv, SenderTypeOK
<1>b. \A s \in Call : s # ms[c] => stream'[s] = stream[s]
  BY DEF Opened, IInv, SenderTypeOK
<1>c. stream'[ms[c]] # None
  BY <1>0, SenderConstants DEF Opened, IInv, SenderTypeOK, Stream
<1>2. CallsOK'
  BY <1>0, <1>b, <1>c, SenderConstants DEF IInv, SenderTypeOK, CallsOK, Working, Streaming
<1>3. MapOK'
  BY <1>0, <1>b DEF IInv, MapOK
<1>4. CopiesOK' /\ SentOK'
  <2>1. \A d \in Call : /\ Tries(d) <= Tries(d)'
                        /\ pc[d] \in Written => pc'[d] \in Written
                        /\ pc'[d] = "read" => pc[d] = "read"
                        /\ pc'[d] \in {"read", "finish"} => pc[d] \in {"read", "finish"}
    BY <1>0 DEF IInv, SenderTypeOK, Tries, Written
  <2>2. \A d \in Call : pc[d] = "read" => stream'[ms[d]] = stream[ms[d]]
    BY <1>0, <1>b DEF IInv, CallsOK, Working, Streaming
  <2>3. UNCHANGED <<ms, result, taken, cut>>
    OBVIOUS
  <2> HIDE DEF Prep
  <2> QED BY <1>a, <1>1, <2>1, <2>2, <2>3, WrittenKept
<1>5. AnswersOK'
  BY <1>0 DEF IInv, SenderTypeOK, AnswersOK
<1> QED BY <1>a, <1>1, <1>2, <1>3, <1>4, <1>5 DEF IInv


\* One stream that is not fresh changes.
LEMMA OneStream ==
  ASSUME SenderTypeOK, FreshOK, NEW x \in Stream, NEW w \in Wire,
         wire[x].state # "new", wire' = [wire EXCEPT ![x] = w],
         \A c \in Call, k \in 0..2 : Unopened(c, k)' => Unopened(c, k)
  PROVE  /\ wire' \in [Stream -> Wire] /\ FreshOK'
         /\ wire'[x] = w /\ \A y \in Stream : y # x => wire'[y] = wire[y]
<1>1. /\ wire' \in [Stream -> Wire] /\ wire'[x] = w
      /\ \A y \in Stream : y # x => wire'[y] = wire[y]
  BY DEF SenderTypeOK
<1>2. ASSUME NEW c \in Call, NEW k \in 0..2, Unopened(c, k)'
      PROVE  wire'[<<c, k>>] = NoWire
  <2>1. wire[<<c, k>>] = NoWire /\ <<c, k>> \in Stream
    BY <1>2 DEF FreshOK, Stream
  <2>2. <<c, k>> # x
    BY <2>1 DEF NoWire
  <2> QED BY <1>1, <2>1, <2>2
<1> QED BY <1>1, <1>2 DEF FreshOK

\* Stream x is reset: its envelopes are cut off, the others stay where they are.
LEMMA ResetKeeps ==
  ASSUME SenderTypeOK, FreshOK, NEW x \in Stream, wire[x].state # "new", Reset(x),
         \A c \in Call, k \in 0..2 : Unopened(c, k)' => Unopened(c, k)
  PROVE  /\ wire' \in [Stream -> Wire] /\ cut' \subseteq Call /\ cut \subseteq cut' /\ FreshOK'
         /\ wire'[x] = [state |-> "reset", out |-> <<>>, back |-> <<>>]
         /\ \A y \in Stream : y # x => wire'[y] = wire[y]
         /\ \A y \in Stream, n \in Nat, c \in Call : Copy(y, n, c)' => Copy(y, n, c) /\ y # x
         /\ \A y \in Stream, n \in Nat, c \in Call :
              Copy(y, n, c) => (y # x /\ Copy(y, n, c)') \/ c \in cut'
<1> DEFINE w == [state |-> "reset", out |-> <<>>, back |-> <<>>]
<1>0. w \in Wire /\ w.out = <<>> /\ Len(<<>>) = 0
  <2>1. <<>> \in Seq(Call) /\ Len(<<>>) = 0
    OBVIOUS
  <2> QED BY <2>1 DEF Wire
<1>1. wire' = [wire EXCEPT ![x] = w] /\ cut' = cut \cup On(x)
  BY DEF Reset
<1> HIDE DEF w
<1>2. /\ wire' \in [Stream -> Wire] /\ FreshOK'
      /\ wire'[x] = w /\ \A y \in Stream : y # x => wire'[y] = wire[y]
  BY <1>0, <1>1, OneStream
<1>3. wire[x].out \in Seq(Call)
  BY DEF SenderTypeOK, Wire
<1>4. On(x) = {wire[x].out[n] : n \in 1..Len(wire[x].out)}
  BY <1>3 DEF On, ToSet
<1>5. On(x) \subseteq Call
  BY <1>3, <1>4
<1>6. \A y \in Stream, n \in Nat, c \in Call : Copy(y, n, c)' => Copy(y, n, c) /\ y # x
  <2> SUFFICES ASSUME NEW y \in Stream, NEW n \in Nat, NEW c \in Call, Copy(y, n, c)'
               PROVE  Copy(y, n, c) /\ y # x
    OBVIOUS
  <2>1. y # x
    BY <1>0, <1>2 DEF Copy
  <2> QED BY <2>1, <1>2 DEF Copy
<1>7. \A y \in Stream, n \in Nat, c \in Call : Copy(y, n, c) => (y # x /\ Copy(y, n, c)') \/ c \in cut'
  BY <1>1, <1>2, <1>4 DEF Copy
<1>8. cut' \subseteq Call /\ cut \subseteq cut'
  BY <1>1, <1>5 DEF SenderTypeOK
<1> QED BY <1>2, <1>6, <1>7, <1>8 DEF w

\* The stream of sender s is written or read; its reader may change.
LEMMA StreamsUsed ==
  ASSUME SenderTypeOK, StreamsOK, stream' = stream, NEW s \in Call, NEW x, stream[s] = x, x # None,
         wire'[x].state # "new", \A y \in Stream : y # x => wire'[y] = wire[y],
         \A r, t \in Call : t # s /\ Reading(r, t) => Reading(r, t)',
         Quiet(wire'[x]) \/ \E c \in Call : Reading(c, s)' /\ Pending(c, wire'[x])
  PROVE  StreamsOK'
<1>1. ASSUME NEW t \in Call, stream'[t] # None
      PROVE  /\ wire'[stream'[t]].state # "new"
             /\ \A r \in Call : stream'[r] = stream'[t] => r = t
             /\ Quiet(wire'[stream'[t]])
                \/ \E c \in Call : Reading(c, t)' /\ Pending(c, wire'[stream'[t]])
  <2>1. \A r \in Call : stream'[r] = stream'[t] => r = t
    BY <1>1 DEF StreamsOK
  <2>2. CASE t = s
    BY <2>1, <2>2
  <2>3. CASE t # s
    <3>1. stream[t] # x /\ stream[t] \in Stream /\ stream'[t] = stream[t]
      BY <2>3, <1>1 DEF StreamsOK, SenderTypeOK
    <3>2. wire'[stream'[t]] = wire[stream[t]]
      BY <3>1
    <3>3. wire[stream[t]].state # "new"
          /\ (Quiet(wire[stream[t]]) \/ \E c \in Call : Reading(c, t) /\ Pending(c, wire[stream[t]]))
      BY <1>1, <3>1 DEF StreamsOK
    <3> QED BY <2>1, <2>3, <3>2, <3>3
  <2> QED BY <2>2, <2>3
<1> QED BY <1>1 DEF StreamsOK, Quiet, Pending

LEMMA WriteFailsInv ==
  ASSUME IInv, NEW c \in Call, WriteFails(c) PROVE IInv'
<1> DEFINE s == ms[c]
<1>0. /\ pc[c] = "write" /\ s \in Call /\ lk[s] = c
      /\ stream[s] \in Stream /\ wire[stream[s]].state = "reset"
  BY DEF WriteFails, At, IInv, CallsOK, SenderTypeOK, Working, Streaming
<1>1. /\ stream' = [stream EXCEPT ![s] = None]
      /\ UNCHANGED <<strmap, invalid, singleMes, wire, ms, answer, taken, cut, breaks>>
      /\ \/ /\ try[c] = 1 /\ try' = [try EXCEPT ![c] = 2] /\ pc' = [pc EXCEPT ![c] = "prep"]
            /\ UNCHANGED <<lk, result>>
         \/ /\ try[c] = 2 /\ try' = try /\ pc' = [pc EXCEPT ![c] = "done"]
            /\ result' = [result EXCEPT ![c] = "error"] /\ lk' = [lk EXCEPT ![s] = None]
  BY DEF WriteFails, DropStream, RetryOrBail, Return, Move
<1> HIDE DEF s
<1>2. SenderTypeOK'
  BY <1>0, <1>1, SenderConstants DEF IInv, SenderTypeOK, Label
<1>3. CallsOK'
  BY <1>0, <1>1, SenderConstants DEF s, IInv, SenderTypeOK, CallsOK, Working, Streaming
<1>4. MapOK'
  BY <1>0, <1>1 DEF IInv, SenderTypeOK, MapOK
<1>5. NoForgottenStream'
  BY <1>0, <1>1, SenderConstants DEF IInv, SenderTypeOK, NoForgottenStream
<1>6. FreshOK'
  <2>1. \A d \in Call, k \in 0..2 : Unopened(d, k)' => Unopened(d, k)
    BY <1>0, <1>1 DEF IInv, SenderTypeOK, Unopened, Streaming
  <2> QED BY <1>1, <2>1 DEF IInv, FreshOK
<1>7. StreamsOK'
  <2>1. \A r, t \in Call : Reading(r, t) => Reading(r, t)'
    BY <1>0, <1>1 DEF IInv, SenderTypeOK, Reading
  <2>2. \A t \in Call : stream'[t] # None => stream'[t] = stream[t]
    BY <1>0, <1>1 DEF IInv, SenderTypeOK
  <2> QED BY <1>1, <2>1, <2>2, StreamsKept DEF IInv
<1>8. CopiesOK' /\ SentOK'
  <2>1. \A d \in Call : /\ Tries(d) <= Tries(d)'
                        /\ pc[d] \in Written => pc'[d] \in Written
                        /\ pc'[d] = "read" => pc[d] = "read" /\ d # c
                        /\ pc'[d] \in {"read", "finish"} \/ result'[d] = "ok" =>
                             pc[d] \in {"read", "finish"} \/ result[d] = "ok"
    BY <1>0, <1>1 DEF IInv, SenderTypeOK, Tries, Written
  <2>2. \A d \in Call : pc[d] = "read" /\ d # c => stream'[ms'[d]] = stream[ms[d]]
    BY <1>0, <1>1 DEF IInv, SenderTypeOK, CallsOK, Working, Streaming
  <2> QED BY <1>1, <1>2, <2>1, <2>2, WrittenKept
<1>9. AnswersOK'
  BY <1>0, <1>1 DEF IInv, SenderTypeOK, AnswersOK
<1> QED BY <1>2, <1>3, <1>4, <1>5, <1>6, <1>7, <1>8, <1>9 DEF IInv

LEMMA ReadFailsInv ==
  ASSUME IInv, NEW c \in Call, ReadFails(c) PROVE IInv'
<1> DEFINE s == ms[c]
           x == stream[s]
<1>0. /\ pc[c] = "read" /\ s \in Call /\ lk[s] = c
      /\ x \in Stream /\ wire[x].state # "new"
  BY DEF ReadFails, At, IInv, CallsOK, SenderTypeOK, StreamsOK, Working, Streaming
<1>1. /\ stream' = [stream EXCEPT ![s] = None] /\ Reset(x)
      /\ UNCHANGED <<strmap, invalid, singleMes, ms, answer, taken, breaks>>
      /\ \/ /\ try[c] = 1 /\ try' = [try EXCEPT ![c] = 2] /\ pc' = [pc EXCEPT ![c] = "prep"]
            /\ UNCHANGED <<lk, result>>
         \/ /\ try[c] = 2 /\ try' = try /\ pc' = [pc EXCEPT ![c] = "done"]
            /\ result' = [result EXCEPT ![c] = "error"] /\ lk' = [lk EXCEPT ![s] = None]
  BY DEF ReadFails, DropStream, RetryOrBail, Return, Move
<1>a. stream[s] = x /\ s = ms[c]
  OBVIOUS
<1> HIDE DEF s, x
<1>b. \A d \in Call, k \in 0..2 : Unopened(d, k)' => Unopened(d, k)
  BY <1>0, <1>1 DEF IInv, SenderTypeOK, Unopened, Streaming
<1>c. /\ wire' \in [Stream -> Wire] /\ cut' \subseteq Call /\ cut \subseteq cut' /\ FreshOK'
      /\ wire'[x] = [state |-> "reset", out |-> <<>>, back |-> <<>>]
      /\ \A y \in Stream : y # x => wire'[y] = wire[y]
      /\ \A y \in Stream, n \in Nat, d \in Call : Copy(y, n, d)' => Copy(y, n, d) /\ y # x
      /\ \A y \in Stream, n \in Nat, d \in Call :
           Copy(y, n, d) => (y # x /\ Copy(y, n, d)') \/ d \in cut'
  BY <1>0, <1>1, <1>b, ResetKeeps DEF IInv
<1>2. SenderTypeOK'
  <2>1. /\ pc' \in [Call -> Label] /\ try' \in [Call -> 1..2]
        /\ lk' \in [Call -> Call \cup {None}] /\ result' \in [Call -> {"none", "ok", "error"}]
    BY <1>0, <1>1 DEF IInv, SenderTypeOK, Label
  <2>2. stream' \in [Call -> Stream \cup {None}]
    BY <1>0, <1>1 DEF IInv, SenderTypeOK
  <2> QED BY <1>1, <1>c, <2>1, <2>2 DEF IInv, SenderTypeOK
<1>3. CallsOK'
  BY <1>0, <1>1, <1>a, SenderConstants DEF IInv, SenderTypeOK, CallsOK, Working, Streaming
<1>4. MapOK'
  BY <1>0, <1>1 DEF IInv, SenderTypeOK, MapOK
<1>5. NoForgottenStream'
  <2>1. \A y \in Stream : wire'[y].state = "open" => y # x /\ wire[y].state = "open"
    BY <1>c
  <2> QED BY <1>0, <1>1, <1>a, <2>1, SenderConstants DEF IInv, SenderTypeOK, NoForgottenStream
<1>7. StreamsOK'
  <2>1. ASSUME NEW t \in Call, stream'[t] # None
        PROVE  /\ stream'[t] = stream[t] /\ t # s /\ stream[t] \in Stream
               /\ \A r \in Call : Reading(r, t) => Reading(r, t)'
    BY <2>1, <1>0, <1>1, <1>a DEF IInv, SenderTypeOK, Reading
  <2>2. ASSUME NEW t \in Call, stream'[t] # None PROVE wire'[stream[t]] = wire[stream[t]]
    <3>1. stream[t] # x
      BY <2>1, <2>2, <1>0, <1>a DEF IInv, StreamsOK
    <3> QED BY <2>1, <2>2, <3>1, <1>c
  <2> QED BY <2>1, <2>2, StreamsKept DEF IInv
<1>8. CopiesOK'
  <2>1. \A d \in Call : /\ Tries(d) <= Tries(d)'
                        /\ pc[d] \in Written /\ d # c => pc'[d] \in Written
                        /\ pc'[d] = "read" => pc[d] = "read" /\ d # c
    BY <1>0, <1>1 DEF IInv, SenderTypeOK, Tries, Written
  <2>2. \A d \in Call : pc[d] = "read" /\ d # c => stream'[ms'[d]] = stream[ms[d]]
    BY <1>0, <1>1 DEF IInv, SenderTypeOK, CallsOK, Working, Streaming
  <2>3. ASSUME NEW y \in Stream, NEW n \in Nat, NEW d \in Call, Copy(y, n, d)'
        PROVE  /\ Copy(y, n, d)
               /\ pc'[d] \in Written
               /\ pc'[d] = "read" => stream'[ms'[d]] = y
    <3>1. Copy(y, n, d) /\ y # x
      BY <2>3, <1>c
    <3>2. d # c
      BY <3>1, <1>0, <1>a DEF IInv, CopiesOK
    <3> QED BY <3>1, <3>2, <2>1, <2>2 DEF IInv, CopiesOK
  <2> QED BY <1>1, <1>2, <2>1, <2>3, CopiesKept DEF IInv
<1>9. AnswersOK'
  BY <1>0, <1>1 DEF IInv, SenderTypeOK, AnswersOK
<1>10. SentOK'
  <2>1. ASSUME NEW d \in Call, UnderWay(d) PROVE UnderWay(d)'
    <3>1. \A y \in Stream, n \in Nat :
            Copy(y, n, d) /\ wire[y].state \in {"open", "closed"} =>
              \/ Copy(y, n, d)' /\ wire'[y].state \in {"open", "closed"}
              \/ d \in cut'
      BY <1>c
    <3> QED BY <2>1, <3>1, <1>1, <1>c, StaysUnderWay
  <2>2. \A d \in Call : pc'[d] \in {"read", "finish"} \/ result'[d] = "ok" =>
                          pc[d] \in {"read", "finish"} \/ result[d] = "ok"
    BY <1>0, <1>1 DEF IInv, SenderTypeOK
  <2> QED BY <2>1, <2>2, SentKept DEF IInv
<1> QED BY <1>2, <1>3, <1>4, <1>5, <1>c, <1>7, <1>8, <1>9, <1>10 DEF IInv


LEMMA FinishInv ==
  ASSUME IInv, NEW c \in Call, Finish(c) PROVE IInv'
<1> DEFINE s == ms[c]
           x == stream[s]
           w == [wire[x] EXCEPT !.state = IF @ = "open" THEN "closed" ELSE @]
<1>0. /\ pc[c] = "finish" /\ s \in Call /\ lk[s] = c
      /\ x \in Stream /\ x # None /\ wire[x].state # "new" /\ wire[x] \in Wire
  BY DEF Finish, At, IInv, CallsOK, SenderTypeOK, StreamsOK, Working, Streaming
<1>1. /\ \/ /\ wire' = [wire EXCEPT ![x] = w] /\ stream' = [stream EXCEPT ![s] = None]
            /\ UNCHANGED singleMes
         \/ /\ singleMes' = [singleMes EXCEPT ![s] = IF try[c] = 2 THEN @ + 1 ELSE @]
            /\ UNCHANGED <<stream, wire>>
      /\ pc' = [pc EXCEPT ![c] = "done"] /\ result' = [result EXCEPT ![c] = "ok"]
      /\ lk' = [lk EXCEPT ![s] = None]
      /\ UNCHANGED <<strmap, invalid, ms, try, answer, taken, cut, breaks>>
  BY DEF Finish, CloseWhenRead, DropStream, Return, Move
<1>a. stream[s] = x /\ s = ms[c]
  OBVIOUS
<1>b. w \in Wire /\ w.state \in {"closed", "reset"} /\ w.out = wire[x].out /\ (wire[x].state # "reset" => w.state = "closed")
  BY <1>0 DEF Wire
<1> HIDE DEF s, x, w
<1>c. \A d \in Call, k \in 0..2 : Unopened(d, k)' => Unopened(d, k)
  BY <1>0, <1>1 DEF IInv, SenderTypeOK, Unopened, Streaming
<1>d. /\ wire' \in [Stream -> Wire] /\ FreshOK'
      /\ \A y \in Stream : y # x => wire'[y] = wire[y]
      /\ (wire' = wire /\ stream' = stream) \/ (wire'[x] = w /\ stream' = [stream EXCEPT ![s] = None])
  <2>1. CASE wire' = [wire EXCEPT ![x] = w] /\ stream' = [stream EXCEPT ![s] = None]
    BY <2>1, <1>0, <1>b, <1>c, OneStream DEF IInv
  <2>2. CASE UNCHANGED <<stream, wire>>
    BY <2>2, <1>c DEF IInv, FreshOK, SenderTypeOK
  <2> QED BY <1>1, <2>1, <2>2
<1>2. SenderTypeOK'
  <2>1. /\ pc' \in [Call -> Label] /\ singleMes' \in [Call -> Nat]
        /\ lk' \in [Call -> Call \cup {None}] /\ result' \in [Call -> {"none", "ok", "error"}]
    BY <1>0, <1>1 DEF IInv, SenderTypeOK, Label
  <2>2. stream' \in [Call -> Stream \cup {None}]
    BY <1>0, <1>1 DEF IInv, SenderTypeOK
  <2> QED BY <1>1, <1>d, <2>1, <2>2 DEF IInv, SenderTypeOK
<1>e. \A t \in Call : stream'[t] = IF t = s /\ stream' # stream THEN None ELSE stream[t]
  BY <1>0, <1>1 DEF IInv, SenderTypeOK
<1>3. CallsOK'
  BY <1>0, <1>1, <1>a, <1>e, SenderConstants DEF IInv, SenderTypeOK, CallsOK, Working, Streaming
<1>4. MapOK'
  BY <1>0, <1>1, <1>e DEF IInv, SenderTypeOK, MapOK
<1>5. NoForgottenStream'
  <2>1. \A y \in Stream : wire'[y].state = "open" => wire[y].state = "open" /\ (y # x \/ stream' = stream)
    BY <1>b, <1>d
  <2> QED BY <1>0, <1>1, <1>a, <1>e, <2>1, SenderConstants DEF IInv, SenderTypeOK, NoForgottenStream
<1>7. StreamsOK'
  <2>1. ASSUME NEW t \in Call, stream'[t] # None
        PROVE  /\ stream'[t] = stream[t] /\ stream[t] \in Stream
               /\ \A r \in Call : Reading(r, t) => Reading(r, t)'
    BY <2>1, <1>0, <1>1, <1>e DEF IInv, SenderTypeOK, Reading
  <2>2. ASSUME NEW t \in Call, stream'[t] # None PROVE wire'[stream[t]] = wire[stream[t]]
    <3>1. CASE wire' = wire
      BY <3>1
    <3>2. CASE stream' = [stream EXCEPT ![s] = None]
      <4>1. t # s /\ stream[t] = stream'[t]
        BY <2>2, <3>2, <1>0 DEF IInv, SenderTypeOK
      <4> QED BY <2>1, <2>2, <4>1, <1>0, <1>a, <1>d DEF IInv, StreamsOK
    <3> QED BY <3>1, <3>2, <1>d
  <2> QED BY <2>1, <2>2, StreamsKept DEF IInv
<1>8. CopiesOK' /\ SentOK'
  <2>1. \A d \in Call : /\ Tries(d) <= Tries(d)'
                        /\ pc[d] \in Written => pc'[d] \in Written
                        /\ pc'[d] = "read" => pc[d] = "read" /\ d # c
                        /\ pc'[d] \in {"read", "finish"} \/ result'[d] = "ok" =>
                             pc[d] \in {"read", "finish"} \/ result[d] = "ok"
    BY <1>0, <1>1 DEF IInv, SenderTypeOK, Tries, Written
  <2>2. \A d \in Call : pc[d] = "read" /\ d # c => stream'[ms'[d]] = stream[ms[d]]
    BY <1>0, <1>1, <1>e DEF IInv, SenderTypeOK, CallsOK, Working, Streaming
  <2>3. \A y \in Stream : /\ wire'[y].out = wire[y].out
                          /\ wire[y].state \in {"open", "closed"} => wire'[y].state \in {"open", "closed"}
    BY <1>b, <1>d
  <2> QED BY <1>1, <1>2, <2>1, <2>2, <2>3, WrittenKept
<1>9. AnswersOK'
  BY <1>0, <1>1 DEF IInv, SenderTypeOK, AnswersOK
<1> QED BY <1>2, <1>3, <1>4, <1>5, <1>d, <1>7, <1>8, <1>9 DEF IInv

LEMMA ReadInv ==
  ASSUME IInv, NEW c \in Call, Read(c) PROVE IInv'
<1> DEFINE s == ms[c]
           x == stream[s]
           w == [wire[x] EXCEPT !.back = Tail(@)]
<1>0. /\ pc[c] = "read" /\ c \in Request /\ s \in Call /\ lk[s] = c
      /\ x \in Stream /\ x # None /\ wire[x].state # "new" /\ wire[x] \in Wire
      /\ wire[x].back # <<>>
  BY DEF Read, At, IInv, CallsOK, SenderTypeOK, StreamsOK, Working, Streaming
<1>1. /\ wire' = [wire EXCEPT ![x] = w]
      /\ answer' = [answer EXCEPT ![c] = Head(wire[x].back)]
      /\ pc' = [pc EXCEPT ![c] = "finish"]
      /\ UNCHANGED <<strmap, stream, invalid, lk, singleMes, ms, try, result, taken, cut, breaks>>
  BY DEF Read, Move, senderStates
<1>a. stream[s] = x /\ s = ms[c]
  OBVIOUS
<1>b. wire[x].back = <<c>> /\ \A n \in 1..Len(wire[x].out) : wire[x].out[n] \notin Request
  <2>1. ~Quiet(wire[x])
    BY <1>0 DEF Quiet
  <2>2. PICK d \in Call : Reading(d, s) /\ Pending(d, wire[x])
    BY <1>0, <2>1 DEF IInv, StreamsOK
  <2>3. d = c
    BY <1>0, <2>2 DEF Reading, IInv, CallsOK, Working, Streaming
  <2> QED BY <1>0, <2>2, <2>3 DEF Pending
<1>c. /\ w \in Wire /\ w.state = wire[x].state /\ w.out = wire[x].out /\ w.back = <<>>
      /\ Head(wire[x].back) = c
  <2>1. Head(<<c>>) = c /\ Tail(<<c>>) = <<>> /\ <<>> \in Seq(Call)
    OBVIOUS
  <2> QED BY <1>0, <1>b, <2>1 DEF Wire
<1> HIDE DEF s, x, w
<1>d. \A d \in Call, k \in 0..2 : Unopened(d, k)' => Unopened(d, k)
  BY <1>0, <1>1 DEF IInv, SenderTypeOK, Unopened, Streaming
<1>e. /\ wire' \in [Stream -> Wire] /\ FreshOK'
      /\ wire'[x] = w /\ \A y \in Stream : y # x => wire'[y] = wire[y]
  BY <1>0, <1>1, <1>c, <1>d, OneStream DEF IInv
<1>f. answer' = [answer EXCEPT ![c] = c]
  BY <1>1, <1>c
<1>2. SenderTypeOK'
  BY <1>1, <1>e, <1>f DEF IInv, SenderTypeOK, Label
<1>3. CallsOK'
  BY <1>0, <1>1 DEF IInv, SenderTypeOK, CallsOK, Working, Streaming
<1>4. MapOK'
  BY <1>1 DEF IInv, MapOK
<1>5. NoForgottenStream'
  <2>1. \A y \in Stream : wire'[y].state = wire[y].state
    BY <1>c, <1>e
  <2> QED BY <1>0, <1>1, <2>1 DEF IInv, SenderTypeOK, NoForgottenStream
<1>7. StreamsOK'
  <2>1. Quiet(wire'[x]) /\ wire'[x].state # "new"
    BY <1>0, <1>b, <1>c, <1>e DEF Quiet
  <2>2. \A r, t \in Call : t # s /\ Reading(r, t) => Reading(r, t)'
    BY <1>0, <1>1, <1>a DEF IInv, SenderTypeOK, Reading
  <2> QED BY <1>0, <1>1, <1>a, <1>e, <2>1, <2>2, StreamsUsed DEF IInv
<1>8. CopiesOK' /\ SentOK'
  <2>1. \A d \in Call : /\ Tries(d) <= Tries(d)'
                        /\ pc[d] \in Written => pc'[d] \in Written
                        /\ pc'[d] = "read" => pc[d] = "read"
                        /\ pc'[d] \in {"read", "finish"} \/ result'[d] = "ok" =>
                             pc[d] \in {"read", "finish"} \/ result[d] = "ok"
    <3>1. \A d \in Call : pc'[d] = IF d = c THEN "finish" ELSE pc[d]
      BY <1>1 DEF IInv, SenderTypeOK
    <3>2. \A d \in Call : Tries(d) <= Tries(d)'
      <4>1. Tries(c)' = Tries(c)
        BY <3>1, <1>0, <1>1 DEF Tries, Written
      <4>2. \A d \in Call : d # c => Tries(d)' = Tries(d)
        BY <3>1, <1>1 DEF Tries, Written
      <4>3. \A d \in Call : Tries(d) \in Int
        BY DEF IInv, SenderTypeOK, Tries
      <4> QED BY <4>1, <4>2, <4>3
    <3> QED BY <3>1, <3>2, <1>0, <1>1 DEF Written
  <2>2. \A y \in Stream : wire'[y].out = wire[y].out /\ wire'[y].state = wire[y].state
    BY <1>c, <1>e
  <2> QED BY <1>1, <1>2, <2>1, <2>2, WrittenKept
<1>9. AnswersOK'
  BY <1>0, <1>1, <1>f DEF IInv, SenderTypeOK, AnswersOK
<1> QED BY <1>2, <1>3, <1>4, <1>5, <1>e, <1>7, <1>8, <1>9 DEF IInv

LEMMA WriteInv ==
  ASSUME IInv, NEW c \in Call, Write(c), NEW s, s = ms[c], NEW x, x = stream[s]
  PROVE  IInv'
<1> DEFINE open == wire[x].state = "open"
           w == [wire[x] EXCEPT !.out = IF open THEN Append(@, c) ELSE @]
<1>0. /\ pc[c] = "write" /\ s \in Call /\ lk[s] = c
      /\ x \in Stream /\ x # None /\ wire[x].state # "new" /\ wire[x] \in Wire
  BY DEF Write, At, IInv, CallsOK, SenderTypeOK, StreamsOK, Working, Streaming
<1>1. /\ wire' = [wire EXCEPT ![x] = w]
      /\ cut' = IF open THEN cut ELSE cut \cup {c}
      /\ pc' = [pc EXCEPT ![c] = IF c \in Request THEN "read" ELSE "finish"]
      /\ UNCHANGED <<strmap, stream, invalid, lk, singleMes, ms, try, result, answer, taken, breaks>>
  BY DEF Write, Move, senderStates
<1>l. PICK l \in Nat : l = Len(wire[x].out)
  BY <1>0 DEF Wire
<1>b. Quiet(wire[x])
  <2>1. \A d \in Call : ~Reading(d, s)
    BY <1>0 DEF Reading, IInv, CallsOK, Working, Streaming
  <2> QED BY <1>0, <2>1 DEF IInv, StreamsOK
<1>c. /\ w \in Wire /\ w.state = wire[x].state /\ w.back = wire[x].back
      /\ ~open => w.out = wire[x].out
      /\ open => /\ Len(w.out) = l + 1 /\ w.out[l + 1] = c
                 /\ \A n \in 1..l : w.out[n] = wire[x].out[n]
  <2>1. wire[x].out \in Seq(Call) /\ wire[x].back \in Seq(Call)
    BY <1>0 DEF Wire
  <2>2. CASE open
    <3>1. w = [wire[x] EXCEPT !.out = Append(wire[x].out, c)]
      BY <2>2
    <3>2. /\ Append(wire[x].out, c) \in Seq(Call) /\ Len(Append(wire[x].out, c)) = l + 1
          /\ \A n \in 1..l : Append(wire[x].out, c)[n] = wire[x].out[n]
          /\ Append(wire[x].out, c)[l + 1] = c
      BY <2>1, <1>l, Appended
    <3> HIDE DEF w
    <3>3. w \in Wire /\ w.state = wire[x].state /\ w.back = wire[x].back
          /\ w.out = Append(wire[x].out, c)
      BY <3>1, <3>2, <1>0 DEF Wire
    <3> QED BY <2>2, <3>2, <3>3
  <2>3. CASE ~open
    BY <2>3, <1>0 DEF Wire
  <2> QED BY <2>2, <2>3
<1>d. \A d \in Call, k \in 0..2 : Unopened(d, k)' => Unopened(d, k)
  BY <1>0, <1>1 DEF IInv, SenderTypeOK, Unopened, Streaming
<1> HIDE DEF w
<1>e. /\ wire' \in [Stream -> Wire] /\ FreshOK'
      /\ wire'[x] = w /\ \A y \in Stream : y # x => wire'[y] = wire[y]
  BY <1>0, <1>1, <1>c, <1>d, OneStream DEF IInv
<1>2. SenderTypeOK'
  <2>1. pc' \in [Call -> Label]
    BY <1>1 DEF IInv, SenderTypeOK, Label
  <2>2. cut' \subseteq Call
    BY <1>1 DEF IInv, SenderTypeOK
  <2> QED BY <1>1, <1>e, <2>1, <2>2 DEF IInv, SenderTypeOK
<1>3. CallsOK'
  BY <1>0, <1>1 DEF IInv, SenderTypeOK, CallsOK, Working, Streaming
<1>4. MapOK'
  BY <1>1 DEF IInv, MapOK
<1>5. NoForgottenStream'
  <2>1. \A y \in Stream : wire'[y].state = wire[y].state
    BY <1>c, <1>e
  <2> QED BY <1>0, <1>1, <2>1 DEF IInv, SenderTypeOK, NoForgottenStream
<1>7. StreamsOK'
  <2>1. \A r, t \in Call : t # s /\ Reading(r, t) => Reading(r, t)'
    BY <1>0, <1>1 DEF IInv, SenderTypeOK, Reading
  <2>2. Quiet(w) \/ (Reading(c, s)' /\ Pending(c, w))
    <3>1. CASE ~open
      BY <3>1, <1>b, <1>c DEF Quiet
    <3>2. CASE open /\ c \in Request
      <4>1. Reading(c, s)'
        BY <3>2, <1>0, <1>1 DEF IInv, SenderTypeOK, Reading
      <4>2. w.back = <<>> /\ \A n \in 1..(Len(w.out) - 1) : w.out[n] \notin Request
        <5>1. Len(w.out) - 1 = l
          BY <3>2, <1>c
        <5>2. \A n \in 1..l : w.out[n] = wire[x].out[n]
          BY <3>2, <1>c
        <5> QED BY <5>1, <5>2, <1>b, <1>c, <1>l DEF Quiet
      <4>3. w.out # <<>> /\ w.out[Len(w.out)] = c
        BY <3>2, <1>c
      <4> QED BY <4>1, <4>2, <4>3 DEF Pending
    <3>3. CASE open /\ c \notin Request
      <4>1. \A n \in 1..(l + 1) : n \in 1..l \/ n = l + 1
        OBVIOUS
      <4> QED BY <3>3, <4>1, <1>b, <1>c, <1>l DEF Quiet
    <3> QED BY <3>1, <3>2, <3>3
  <2>3. w.state # "new"
    BY <1>0, <1>c
  <2>4. Quiet(wire'[x]) \/ \E d \in Call : Reading(d, s)' /\ Pending(d, wire'[x])
    BY <2>2, <1>e
  <2> QED BY <1>0, <1>1, <1>e, <2>1, <2>3, <2>4, StreamsUsed DEF IInv
<1>m. \A n \in Nat :
        /\ n \in 1..Len(w.out) => \/ n \in 1..l /\ w.out[n] = wire[x].out[n]
                                  \/ n = l + 1 /\ open /\ w.out[n] = c
        /\ n \in 1..l => n \in 1..Len(w.out) /\ w.out[n] = wire[x].out[n]
  <2>1. CASE open
    <3>1. \A n \in Nat : n \in 1..(l + 1) <=> n \in 1..l \/ n = l + 1
      OBVIOUS
    <3>2. Len(w.out) = l + 1 /\ w.out[l + 1] = c /\ \A n \in 1..l : w.out[n] = wire[x].out[n]
      BY <2>1, <1>c
    <3> QED BY <2>1, <3>1, <3>2
  <2>2. CASE ~open
    <3>1. w.out = wire[x].out
      BY <2>2, <1>c
    <3> QED BY <3>1, <1>l
  <2> QED BY <2>1, <2>2
<1>f. \A n \in Nat : Copy(x, n, c)' => n = l + 1 /\ open
  <2> SUFFICES ASSUME NEW n \in Nat, Copy(x, n, c)' PROVE n = l + 1 /\ open
    OBVIOUS
  <2>1. ~Copy(x, n, c)
    BY <1>0 DEF IInv, CopiesOK, Written
  <2>2. n \in 1..Len(w.out) /\ w.out[n] = c
    BY <1>e DEF Copy
  <2> QED BY <1>l, <1>m, <2>1, <2>2 DEF Copy
<1>g. \A y \in Stream, n \in Nat, d \in Call :
        Copy(y, n, d)' => \/ Copy(y, n, d) /\ d # c
                          \/ d = c /\ y = x /\ n = l + 1 /\ open
  <2> SUFFICES ASSUME NEW y \in Stream, NEW n \in Nat, NEW d \in Call, Copy(y, n, d)'
               PROVE  \/ Copy(y, n, d) /\ d # c
                      \/ d = c /\ y = x /\ n = l + 1 /\ open
    OBVIOUS
  <2>1. CASE y # x
    BY <2>1, <1>0, <1>e DEF Copy, IInv, CopiesOK, Written
  <2>2. CASE y = x /\ d = c
    BY <2>2, <1>f
  <2>3. CASE y = x /\ d # c
    <3>1. n \in 1..Len(w.out) /\ w.out[n] = d
      BY <2>3, <1>e DEF Copy
    <3> QED BY <2>3, <3>1, <1>l, <1>m DEF Copy
  <2> QED BY <2>1, <2>2, <2>3
<1>8. CopiesOK'
  <2>1. \A d \in Call : Tries(d) \in Int /\ Tries(d)' \in Int /\ taken[d] \in Nat
    BY <1>2, TriesType DEF IInv
  <2>2. \A d \in Call : Tries(d)' = IF d = c THEN Tries(c) + 1 ELSE Tries(d)
    BY <1>0, <1>1 DEF IInv, SenderTypeOK, Tries, Written
  <2>3. \A d \in Call : taken'[d] <= Tries(d)' /\ (d = c => taken'[d] < Tries(d)')
    BY <2>1, <2>2, <1>1 DEF IInv, CopiesOK
  <2>4. \A d \in Call : d # c => pc'[d] = pc[d]
    BY <1>1 DEF IInv, SenderTypeOK
  <2>5. pc'[c] \in Written /\ (pc'[c] = "read" => stream'[ms'[c]] = x)
    BY <1>0, <1>1 DEF IInv, SenderTypeOK, Written
  <2>6. ASSUME NEW y \in Stream, NEW n \in Nat, NEW d \in Call, Copy(y, n, d)'
        PROVE  /\ taken'[d] < Tries(d)' /\ pc'[d] \in Written
               /\ pc'[d] = "read" => y = stream'[ms'[d]]
               /\ \A z \in Stream, k \in Nat : Copy(z, k, d)' => z = y /\ k = n
    <3>1. CASE d = c
      BY <3>1, <2>3, <2>5, <2>6, <1>g
    <3>2. CASE d # c
      <4>1. Copy(y, n, d) /\ \A z \in Stream, k \in Nat : Copy(z, k, d)' => Copy(z, k, d)
        BY <3>2, <2>6, <1>g
      <4>2. taken'[d] = taken[d] /\ Tries(d)' = Tries(d) /\ stream'[ms'[d]] = stream[ms[d]]
        BY <3>2, <2>2, <1>1
      <4> HIDE DEF Tries, Copy
      <4> QED BY <3>2, <4>1, <4>2, <2>4 DEF IInv, CopiesOK
    <3> QED BY <3>1, <3>2
  <2> QED BY <2>3, <2>6 DEF CopiesOK, Tries, Copy
<1>9. AnswersOK'
  BY <1>0, <1>1 DEF IInv, SenderTypeOK, AnswersOK
<1>10. SentOK'
  <2>1. ASSUME NEW d \in Call, UnderWay(d) PROVE UnderWay(d)'
    <3>1. \A y \in Stream, n \in Nat : Copy(y, n, d) => Copy(y, n, d)'
      <4> SUFFICES ASSUME NEW y \in Stream, NEW n \in Nat, Copy(y, n, d) PROVE Copy(y, n, d)'
        OBVIOUS
      <4>1. CASE y # x
        BY <4>1, <1>e DEF Copy
      <4>2. CASE y = x
        <5>1. n \in 1..l /\ wire[x].out[n] = d
          BY <4>2, <1>l DEF Copy
        <5>2. n \in 1..Len(w.out) /\ w.out[n] = d
          BY <5>1, <1>m
        <5> QED BY <4>2, <5>2, <1>e DEF Copy
      <4> QED BY <4>1, <4>2
    <3>2. \A y \in Stream : wire'[y].state = wire[y].state
      BY <1>c, <1>e
    <3>3. taken'[d] = taken[d] /\ cut \subseteq cut'
      BY <1>1
    <3> QED BY <2>1, <3>1, <3>2, <3>3, StaysUnderWay
  <2>2. UnderWay(c)'
    <3>1. CASE open
      <4>1. Copy(x, l + 1, c)' /\ l + 1 \in Nat /\ wire'[x].state = "open"
        BY <3>1, <1>c, <1>e DEF Copy
      <4> QED BY <4>1, <1>0 DEF UnderWay, Copy
    <3>2. CASE ~open
      BY <3>2, <1>1 DEF UnderWay
    <3> QED BY <3>1, <3>2
  <2>3. \A d \in Call : d # c => (pc'[d] \in {"read", "finish"} \/ result'[d] = "ok" =>
                                    pc[d] \in {"read", "finish"} \/ result[d] = "ok")
    BY <1>1 DEF IInv, SenderTypeOK
  <2> QED BY <2>1, <2>2, <2>3 DEF IInv, SentOK, UnderWay, Copy
<1> QED BY <1>2, <1>3, <1>4, <1>5, <1>e, <1>7, <1>8, <1>9, <1>10 DEF IInv


\* Handling the first envelope of a stream keeps what its reader may expect.
LEMMA HandledQuietly ==
  ASSUME NEW v \in Wire, v.out # <<>>, NEW w \in Wire, w.out = Tail(v.out),
         w.back = IF Head(v.out) \in Request THEN Append(v.back, Head(v.out)) ELSE v.back
  PROVE  /\ Quiet(v) => Quiet(w)
         /\ \A c \in Call : Pending(c, v) => Quiet(w) \/ Pending(c, w)
<1>1. /\ Len(w.out) = Len(v.out) - 1 /\ Len(v.out) \in Nat \ {0} /\ Head(v.out) = v.out[1]
      /\ \A n \in 1..Len(w.out) : w.out[n] = v.out[n + 1]
  BY Shortened DEF Wire
<1>2. Quiet(v) => Quiet(w)
  BY <1>1 DEF Quiet
<1>3. ASSUME NEW c \in Call, Pending(c, v) PROVE Quiet(w) \/ Pending(c, w)
  <2>1. CASE v.back = <<c>> /\ \A n \in 1..Len(v.out) : v.out[n] \notin Request
    BY <2>1, <1>1 DEF Pending
  <2>2. CASE /\ v.back = <<>> /\ v.out # <<>> /\ v.out[Len(v.out)] = c
             /\ \A n \in 1..(Len(v.out) - 1) : v.out[n] \notin Request
    <3>1. CASE Len(v.out) = 1
      <4>1. Head(v.out) = c /\ Len(w.out) = 0
        BY <3>1, <2>2, <1>1
      <4>2. Append(<<>>, c) = <<c>>
        OBVIOUS
      <4> QED BY <4>1, <4>2, <2>2 DEF Quiet, Pending
    <3>2. CASE Len(v.out) # 1
      <4>0. 1 \in 1..(Len(v.out) - 1) /\ Len(w.out) \in 1..Len(w.out) /\ Len(w.out) + 1 = Len(v.out)
        <5>0. Len(v.out) \in Nat \ {0}
          BY <1>1
        <5>1. PICK l \in Nat : l = Len(v.out)
          BY <5>0
        <5>2. l # 0 /\ l # 1 /\ Len(w.out) = l - 1
          BY <3>2, <5>0, <5>1, <1>1
        <5>3. 1 \in 1..(l - 1) /\ l - 1 \in 1..(l - 1) /\ (l - 1) + 1 = l
          BY <5>2
        <5> QED BY <5>1, <5>2, <5>3
      <4>1. w.back = <<>>
        BY <4>0, <2>2, <1>1
      <4>2. w.out # <<>> /\ w.out[Len(w.out)] = c
        <5>1. w.out[Len(w.out)] = v.out[Len(v.out)]
          BY <4>0, <1>1
        <5>2. w.out # <<>>
          <6>1. Len(<<>>) = 0 /\ 0 \notin 1..0
            OBVIOUS
          <6> QED BY <6>1, <4>0
        <5> QED BY <5>1, <5>2, <2>2
      <4>3. \A n \in 1..(Len(w.out) - 1) : w.out[n] \notin Request
        BY <3>2, <2>2, <1>1
      <4> QED BY <4>1, <4>2, <4>3 DEF Pending
    <3> QED BY <3>1, <3>2
  <2> QED BY <1>3, <2>1, <2>2 DEF Pending
<1> QED BY <1>2, <1>3

LEMMA HandleInv ==
  ASSUME IInv, NEW x \in Stream, Handle(x) PROVE IInv'
<1> DEFINE h == Head(wire[x].out)
           w == [state |-> wire[x].state, out |-> Tail(wire[x].out),
                 back |-> IF h \in Request THEN Append(wire[x].back, h) ELSE wire[x].back]
<1>0. /\ wire[x] \in Wire /\ wire[x].state \in {"open", "closed"} /\ wire[x].out # <<>>
      /\ wire[x].out \in Seq(Call) /\ wire[x].back \in Seq(Call)
  BY DEF Handle, IInv, SenderTypeOK, Wire
<1>1. PICK c \in Call : c = h
  BY <1>0, Shortened
<1>2. w \in Wire
  <2>1. Append(wire[x].back, c) \in Seq(Call) /\ Tail(wire[x].out) \in Seq(Call)
    BY <1>0, Appended, Shortened
  <2> QED BY <2>1, <1>0, <1>1 DEF Wire
<1>3. /\ wire' = [wire EXCEPT ![x] = w] /\ taken' = [taken EXCEPT ![c] = @ + 1]
      /\ UNCHANGED <<strmap, stream, invalid, lk, singleMes, pc, ms, try, result, answer, cut, breaks>>
  <2>1. wire[x] = [state |-> wire[x].state, out |-> wire[x].out, back |-> wire[x].back]
    BY <1>0 DEF Wire
  <2>2. taken' = [taken EXCEPT ![c] = @ + 1]
        /\ UNCHANGED <<strmap, stream, invalid, lk, singleMes, pc, ms, try, result, answer, cut, breaks>>
    BY <1>1 DEF Handle, senderStates, callState
  <2>3. wire'[x] = w
    BY <2>1 DEF Handle, IInv, SenderTypeOK
  <2>4. wire' = [y \in Stream |-> wire'[y]] /\ \A y \in Stream : y # x => wire'[y] = wire[y]
    BY DEF Handle, IInv, SenderTypeOK
  <2> HIDE DEF w
  <2>5. wire' = [wire EXCEPT ![x] = w]
    BY <2>3, <2>4 DEF IInv, SenderTypeOK
  <2> QED BY <2>2, <2>5
<1>4. /\ (Quiet(wire[x]) => Quiet(w))
      /\ \A d \in Call : Pending(d, wire[x]) => Quiet(w) \/ Pending(d, w)
  BY <1>0, <1>2, HandledQuietly
<1>5. /\ w.state = wire[x].state /\ Len(w.out) = Len(wire[x].out) - 1 /\ Len(wire[x].out) \in Nat \ {0}
      /\ \A n \in 1..Len(w.out) : w.out[n] = wire[x].out[n + 1]
      /\ wire[x].out[1] = c
  BY <1>0, <1>1, Shortened
<1> HIDE DEF w, h
<1>6. /\ wire' \in [Stream -> Wire] /\ FreshOK'
      /\ wire'[x] = w /\ \A y \in Stream : y # x => wire'[y] = wire[y]
  <2>1. \A d \in Call, k \in 0..2 : Unopened(d, k)' => Unopened(d, k)
    BY <1>3 DEF Unopened
  <2> QED BY <2>1, <1>0, <1>2, <1>3, OneStream DEF IInv
<1>7. SenderTypeOK'
  BY <1>3, <1>6 DEF IInv, SenderTypeOK
<1>8. CallsOK' /\ MapOK' /\ AnswersOK'
  BY <1>3 DEF IInv, CallsOK, MapOK, AnswersOK
<1>9. NoForgottenStream'
  <2>1. \A y \in Stream : wire'[y].state = wire[y].state
    BY <1>5, <1>6
  <2> QED BY <1>3, <2>1 DEF IInv, NoForgottenStream
<1>10. StreamsOK'
  BY <1>0, <1>3, <1>4, <1>5, StreamsHandled DEF IInv
<1>11. \A y \in Stream, n \in Nat, d \in Call : Copy(y, n, d)' =>
         (y = x /\ Copy(x, n + 1, d)) \/ (y # x /\ Copy(y, n, d))
  <2> SUFFICES ASSUME NEW y \in Stream, NEW n \in Nat, NEW d \in Call, Copy(y, n, d)'
               PROVE  (y = x /\ Copy(x, n + 1, d)) \/ (y # x /\ Copy(y, n, d))
    OBVIOUS
  <2>1. CASE y = x
    <3>1. n \in 1..Len(w.out) /\ w.out[n] = d
      BY <2>1, <1>6 DEF Copy
    <3> QED BY <2>1, <3>1, <1>5 DEF Copy
  <2>2. CASE y # x
    BY <2>2, <1>6 DEF Copy
  <2> QED BY <2>1, <2>2
<1>12. CopiesOK'
  <2>1. Copy(x, 1, c)
    BY <1>5 DEF Copy
  <2>2. UNCHANGED <<pc, ms, stream, try>>
    BY <1>3
  <2> QED BY <1>3, <1>11, <2>1, <2>2, CopiesTaken DEF IInv
<1>13. SentOK'
  <2>1. ASSUME NEW d \in Call, UnderWay(d) PROVE UnderWay(d)'
    <3>1. CASE d = c
      BY <3>1, <1>3 DEF UnderWay, IInv, SenderTypeOK
    <3>2. CASE d # c
      <4>1. taken'[d] = taken[d] /\ cut' = cut
        BY <3>2, <1>3 DEF IInv, SenderTypeOK
      <4>2. ASSUME NEW y \in Stream, NEW n \in Nat, Copy(y, n, d)
            PROVE  \E k \in Nat : Copy(y, k, d)'
        <5>1. CASE y # x
          BY <5>1, <4>2, <1>6 DEF Copy
        <5>2. CASE y = x
          <6>1. n \in 1..Len(wire[x].out) /\ wire[x].out[n] = d /\ n # 1
            BY <5>2, <4>2, <3>2, <1>5 DEF Copy
          <6>2. n - 1 \in 1..Len(w.out) /\ w.out[n - 1] = d
            BY <6>1, <1>5
          <6>3. PICK k \in Nat : k = n - 1
            BY <6>1
          <6>4. Copy(y, k, d)'
            BY <5>2, <6>2, <6>3, <1>6 DEF Copy
          <6> QED BY <6>4
        <5> QED BY <5>1, <5>2
      <4>3. \A y \in Stream : wire'[y].state = wire[y].state
        BY <1>5, <1>6
      <4>4. CASE taken[d] > 0 \/ d \in cut
        BY <4>1, <4>4 DEF UnderWay
      <4>5. CASE \E y \in Stream, n \in Nat : wire[y].state \in {"open", "closed"} /\ Copy(y, n, d)
        <5>1. PICK y \in Stream, n \in Nat : wire[y].state \in {"open", "closed"} /\ Copy(y, n, d)
          BY <4>5
        <5>2. PICK k \in Nat : Copy(y, k, d)'
          BY <5>1, <4>2
        <5> QED BY <5>1, <5>2, <4>3 DEF UnderWay, Copy
      <4> QED BY <2>1, <4>4, <4>5 DEF UnderWay
    <3> QED BY <3>1, <3>2
  <2> QED BY <2>1, <1>3, SentKept DEF IInv
<1> QED BY <1>6, <1>7, <1>8, <1>9, <1>10, <1>12, <1>13 DEF IInv

\* A reset by the other end, with or without an envelope that it handled before.
LEMMA BrokenInv ==
  ASSUME IInv, NEW x \in Stream, wire[x].state \in {"open", "closed"}, Reset(x),
         breaks' \in 0..MaxBreaks, UNCHANGED <<senderStates, callState>>,
         \/ UNCHANGED taken
         \/ wire[x].out # <<>> /\ taken' = [taken EXCEPT ![Head(wire[x].out)] = @ + 1]
  PROVE  IInv'
<1>0. UNCHANGED <<strmap, stream, invalid, lk, singleMes, pc, ms, try, result, answer>>
  BY DEF senderStates, callState
<1>1. \A d \in Call, k \in 0..2 : Unopened(d, k)' => Unopened(d, k)
  BY <1>0 DEF Unopened
<1>2. /\ wire' \in [Stream -> Wire] /\ cut' \subseteq Call /\ cut \subseteq cut' /\ FreshOK'
      /\ wire'[x] = [state |-> "reset", out |-> <<>>, back |-> <<>>]
      /\ \A y \in Stream : y # x => wire'[y] = wire[y]
      /\ \A y \in Stream, n \in Nat, c \in Call : Copy(y, n, c)' => Copy(y, n, c) /\ y # x
      /\ \A y \in Stream, n \in Nat, c \in Call :
           Copy(y, n, c) => (y # x /\ Copy(y, n, c)') \/ c \in cut'
  BY <1>1, ResetKeeps DEF IInv
<1>3. \/ UNCHANGED taken
      \/ \E c \in Call : Copy(x, 1, c) /\ taken' = [taken EXCEPT ![c] = @ + 1]
  <2>1. wire[x].out \in Seq(Call)
    BY DEF IInv, SenderTypeOK, Wire
  <2>2. CASE wire[x].out # <<>> /\ taken' = [taken EXCEPT ![Head(wire[x].out)] = @ + 1]
    <3>1. PICK c \in Call : c = Head(wire[x].out) /\ Copy(x, 1, c)
      BY <2>1, <2>2, Shortened DEF Copy
    <3> QED BY <2>2, <3>1
  <2> QED BY <2>2
<1>4. taken' \in [Call -> Nat] /\ \A c \in Call : taken'[c] >= taken[c]
  <2>1. taken \in [Call -> Nat]
    BY DEF IInv, SenderTypeOK
  <2> QED BY <1>3, <2>1
<1>5. SenderTypeOK'
  BY <1>0, <1>2, <1>4 DEF IInv, SenderTypeOK
<1>6. CallsOK' /\ MapOK' /\ AnswersOK'
  BY <1>0 DEF IInv, CallsOK, MapOK, AnswersOK
<1>7. NoForgottenStream'
  <2>1. \A y \in Stream : wire'[y].state = "open" => wire[y].state = "open"
    BY <1>2
  <2> QED BY <1>0, <2>1 DEF IInv, NoForgottenStream
<1>8. StreamsOK'
  <2> DEFINE w == [state |-> "reset", out |-> <<>>, back |-> <<>>]
  <2>1. wire' = [wire EXCEPT ![x] = w]
    BY DEF Reset
  <2>2. Quiet(w) /\ w.state # "new"
    <3>1. Len(<<>>) = 0
      OBVIOUS
    <3> QED BY <3>1 DEF Quiet
  <2> HIDE DEF w
  <2> QED BY <1>0, <2>1, <2>2, StreamsHandled DEF IInv
<1>9. CopiesOK'
  <2>1. CASE UNCHANGED taken
    <3>1. \A c \in Call : Tries(c) <= Tries(c)'
      <4>1. \A c \in Call : Tries(c) \in Int /\ Tries(c)' \in Int
        BY <1>5, TriesType DEF IInv
      <4>2. \A c \in Call : Tries(c)' = Tries(c)
        BY <1>0 DEF Tries
      <4> QED BY <4>1, <4>2
    <3>2. \A y \in Stream, n \in Nat, c \in Call : Copy(y, n, c)' =>
            /\ Copy(y, n, c) /\ pc'[c] \in Written
            /\ pc'[c] = "read" => stream'[ms'[c]] = y
      <4>1. ASSUME NEW y \in Stream, NEW n \in Nat, NEW c \in Call, Copy(y, n, c)'
            PROVE  Copy(y, n, c) /\ pc[c] \in Written /\ (pc[c] = "read" => y = stream[ms[c]])
        <5>1. Copy(y, n, c)
          BY <4>1, <1>2
        <5> QED BY <5>1 DEF IInv, CopiesOK
      <4> QED BY <1>0, <4>1
    <3> QED BY <1>5, <2>1, <3>1, <3>2, CopiesKept DEF IInv
  <2>2. CASE \E c \in Call : Copy(x, 1, c) /\ taken' = [taken EXCEPT ![c] = @ + 1]
    <3>1. PICK c \in Call : Copy(x, 1, c) /\ taken' = [taken EXCEPT ![c] = @ + 1]
      BY <2>2
    <3>2. \A y \in Stream, n \in Nat, d \in Call : Copy(y, n, d)' =>
            (y = x /\ Copy(x, n + 1, d)) \/ (y # x /\ Copy(y, n, d))
      BY <1>2
    <3> QED BY <1>0, <3>1, <3>2, CopiesTaken DEF IInv
  <2> QED BY <1>3, <2>1, <2>2
<1>10. SentOK'
  <2>1. ASSUME NEW c \in Call, UnderWay(c) PROVE UnderWay(c)'
    <3>1. CASE taken[c] > 0 \/ c \in cut
      BY <3>1, <1>2, <1>4 DEF UnderWay, IInv, SenderTypeOK
    <3>2. CASE \E y \in Stream, n \in Nat : wire[y].state \in {"open", "closed"} /\ Copy(y, n, c)
      BY <3>2, <1>2 DEF UnderWay, Copy
    <3> QED BY <2>1, <3>1, <3>2 DEF UnderWay
  <2> QED BY <2>1, <1>0, SentKept DEF IInv
<1> QED BY <1>2, <1>5, <1>6, <1>7, <1>8, <1>9, <1>10 DEF IInv

LEMMA StutterInv ==
  ASSUME IInv, UNCHANGED senderVars PROVE IInv'
<1>0. UNCHANGED <<strmap, stream, invalid, lk, singleMes, wire, pc, ms, try, result, answer, taken, cut, breaks>>
  BY DEF senderVars, senderStates, callState
<1>1. SenderTypeOK' /\ CallsOK' /\ MapOK' /\ NoForgottenStream' /\ AnswersOK'
  BY <1>0 DEF IInv, SenderTypeOK, CallsOK, MapOK, NoForgottenStream, AnswersOK
<1>2. FreshOK' /\ SentOK'
  BY <1>0 DEF IInv, FreshOK, Unopened, SentOK, UnderWay, Copy
<1>3. StreamsOK'
  BY <1>0, StreamsKept DEF IInv, Reading
<1>4. CopiesOK'
  BY <1>0 DEF IInv, CopiesOK, Tries, Copy
<1> QED BY <1>1, <1>2, <1>3, <1>4 DEF IInv

LEMMA NextInv == IInv /\ [SenderNext]_senderVars => IInv'
<1> SUFFICES ASSUME IInv, [SenderNext]_senderVars PROVE IInv'
  OBVIOUS
<1>1. ASSUME NEW c \in Call, CallStep(c) PROVE IInv'
  <2>1. CASE Found(c) \/ MakeSender(c) \/ Prepare(c) \/ PrepareFails(c) \/ Forget(c)
    BY <2>1, FoundInv, MakeSenderInv, PrepareInv, PrepareFailsInv, ForgetInv
  <2>2. CASE Lock(c) \/ Prep(c) \/ PrepFails(c) \/ Write(c) \/ WriteFails(c)
    BY <2>2, LockInv, PrepInv, PrepFailsInv, WriteInv, WriteFailsInv
  <2>3. CASE Read(c) \/ ReadFails(c) \/ Finish(c)
    BY <2>3, ReadInv, ReadFailsInv, FinishInv
  <2> QED BY <1>1, <2>1, <2>2, <2>3 DEF CallStep
<1>2. ASSUME NEW x \in Stream, HandlerFails(x) \/ Break(x) PROVE IInv'
  <2>1. breaks' \in 0..MaxBreaks
    BY <1>2, SenderConstants DEF HandlerFails, Break, IInv, SenderTypeOK
  <2> QED BY <1>2, <2>1, BrokenInv DEF HandlerFails, Break
<1>3. CASE UNCHANGED senderVars
  BY <1>3, StutterInv
<1> QED BY <1>1, <1>2, <1>3, HandleInv DEF SenderNext

LEMMA Invariant == SenderSpec => []IInv
BY InitInv, NextInv, PTL DEF SenderSpec
-----------------------------------------------------------------------------
\* The types of the senders' and the calls' state are kept by every step of
\* service/sender.go and of the handler at the other end.
THEOREM SenderTypeCorrect == SenderSpec => []SenderTypeOK
<1>1. IInv => SenderTypeOK
  BY DEF IInv
<1> QED BY <1>1, Invariant, PTL

\* A request is never answered with the answer to another goroutine's request,
\* however late that answer comes.
THEOREM EveryAnswerIsOwn == SenderSpec => []OwnAnswers
<1>1. IInv => OwnAnswers
  BY DEF IInv, AnswersOK, OwnAnswers
<1> QED BY <1>1, Invariant, PTL

\* SendRequest and SendMessage never deliver an envelope a third time.
THEOREM NeverThreeTimes == SenderSpec => []AtMostTwice
<1>1. IInv => AtMostTwice
  <2> SUFFICES ASSUME IInv, NEW c \in Call PROVE taken[c] <= 2
    BY DEF AtMostTwice
  <2>1. taken[c] \in Nat /\ try[c] \in 1..2
    BY DEF IInv, SenderTypeOK
  <2>2. taken[c] <= Tries(c)
    BY DEF IInv, CopiesOK
  <2> QED BY <2>1, <2>2 DEF Tries
<1> QED BY <1>1, Invariant, PTL

\* Of the streams of all senders, only that of the sender in strmap is open.
THEOREM NoStreamForgotten == SenderSpec => []NoForgottenStream
<1>1. IInv => NoForgottenStream
  BY DEF IInv
<1> QED BY <1>1, Invariant, PTL

\* What SendMessage or SendRequest reported as sent is not lost, unless its
\* stream was reset.
THEOREM NothingSentIsLost == SenderSpec => []SentUnlessReset
<1>1. IInv => SentUnlessReset
  <2> SUFFICES ASSUME IInv, NEW c \in Call, result[c] = "ok"
               PROVE  \/ taken[c] > 0 \/ c \in cut
                      \/ \E x \in Stream : wire[x].state \in {"open", "closed"} /\ c \in On(x)
    BY DEF SentUnlessReset
  <2>1. CASE \E x \in Stream, n \in Nat : wire[x].state \in {"open", "closed"} /\ Copy(x, n, c)
    <3>1. PICK x \in Stream, n \in Nat : wire[x].state \in {"open", "closed"} /\ Copy(x, n, c)
      BY <2>1
    <3>2. wire[x].out \in Seq(Call)
      BY DEF IInv, SenderTypeOK, Wire
    <3>3. c \in On(x)
      BY <3>1, <3>2 DEF Copy, On, ToSet
    <3> QED BY <3>1, <3>3
  <2> QED BY <2>1 DEF IInv, SentOK, UnderWay
<1> QED BY <1>1, Invariant, PTL
=============================================================================

------------------------ MODULE ThreadsOutbox_proofs ------------------------
(***************************************************************************)
(* A row leaves the table of outbound thread messages only when its        *)
(* message was handled, and no message overtakes an older one to the same  *)
(* receiver: for any number of messages, receivers, cafes and flushers,    *)
(* any page size, any errors and any number of restarts.                   *)
(***************************************************************************)
EXTENDS ThreadsOutbox, FiniteSetTheorems, TLAPS

\* Whatever row is older than one of ms is in ms too, or needs no handling.
Prefix(ms) == \A k \in table, m \in ms : k < m => k \in ms \/ Handled(k)

\* What the goroutine of receiver q is in the middle of: the message it is at is
\* the oldest it still has, and older ones to q that it does not have are handled.
Order(q, w) ==
  /\ w.todo \subseteq 1..added
  /\ \A m \in w.todo : To[m] = q
  /\ w.pc \in {"none", "done"} => w.todo = {}
  /\ w.pc = "send" => w.todo # {}
  /\ w.pc \notin {"none", "done", "send"} => w.cur \in w.todo /\ \A n \in w.todo : w.cur <= n
  /\ \A m \in w.todo, k \in 1..added : k < m /\ To[k] = q => k \in w.todo \/ Handled(k)

\* How far InboxRequest and the append have come.
Progress(w) ==
  /\ w.pc \in {"prep", "store", "inbox"} => Inboxes[To[w.cur]] # {}
  /\ w.pc = "store" => Asked(w.cur, "store", Session \ w.cafes)
  /\ w.pc = "inbox" => /\ Asked(w.cur, "store", Session)
                       /\ Asked(w.cur, "inbox", Inboxes[To[w.cur]] \ w.cafes)
  /\ w.pc \in {"read", "write"} => Handled(w.cur)
  /\ w.pc = "write" => \A m \in w.seen : Handled(m)

WorkInv == \A q \in Peer : Order(q, work[q]) /\ Progress(work[q])

\* The batch in hand is a prefix of the table up to handled rows, and each of its
\* messages is with its goroutine or handled.
BatchInv ==
  /\ page \subseteq 1..added /\ next \subseteq 1..added
  /\ phase = "handle" => \A m \in page : m \in work[To[m]].todo \/ Handled(m)
  /\ phase = "delete" => Prefix(next) /\ \A m \in page : Handled(m)
  /\ phase # "idle" => Prefix(page)

KnownMessages == /\ sent \cup dropped \subseteq 1..added
                 /\ \A x \in requests : x.msg \in 1..added

ToDeleteHandled == \A m \in toDelete : Handled(m)

\* The inductive invariant.
IInv == /\ TypeOK /\ KnownMessages /\ WorkInv /\ BatchInv /\ ToDeleteHandled
        /\ NothingLost /\ StoredFirst /\ NoOvertaking
-----------------------------------------------------------------------------
LEMMA Types ==
  /\ NoWork \in Work /\ Msg \subseteq 0..MaxMessages
  /\ TypeOK => 1..added \subseteq Msg /\ added \in Nat
BY OutboxConstants DEF NoWork, Work, Msg, TypeOK

\* What was handled stays handled.
LEMMA HandledStays ==
  ASSUME sent \subseteq sent', dropped \subseteq dropped', requests \subseteq requests'
  PROVE  /\ \A m : Handled(m) => Handled(m)'
         /\ \A m, type, cafes : Asked(m, type, cafes) => Asked(m, type, cafes)'
BY DEF Handled, Asked

\* A page is a prefix of the rows it is cut from.
LEMMA ListPrefix ==
  ASSUME TypeOK, NEW ms \in SUBSET Msg, NEW m \in List(ms), NEW k \in After(ms), k < m
  PROVE  k \in List(ms)
<1> DEFINE Upto(x) == {n \in After(ms) : n <= x}
<1>1. table \subseteq Nat /\ IsFiniteSet(1..added)
  BY OutboxConstants, FS_Interval DEF TypeOK
<1>2. IsFiniteSet(Upto(m))
  <2>1. Upto(m) \subseteq 1..added
    BY DEF After, TypeOK
  <2> QED BY <2>1, <1>1, FS_Subset
<1>3. Upto(k) \subseteq Upto(m)
  <2>1. m \in After(ms) /\ After(ms) \subseteq Nat
    BY <1>1 DEF After, List
  <2>2. k \in Nat /\ m \in Nat
    BY <2>1
  <2> QED BY <2>1, <2>2
<1>4. Cardinality(Upto(k)) <= Cardinality(Upto(m)) /\ IsFiniteSet(Upto(k))
  BY <1>2, <1>3, FS_Subset
<1>5. Cardinality(Upto(k)) \in Nat /\ Cardinality(Upto(m)) \in Nat
  BY <1>2, <1>4, FS_CardinalityType
<1>6. Cardinality(Upto(m)) <= GroupSize
  BY DEF List
<1>7. Cardinality(Upto(k)) <= GroupSize
  BY <1>4, <1>5, <1>6, OutboxConstants
<1> QED BY <1>7 DEF List

\* A new batch of rows that is a prefix of the table is given to its goroutines.
LEMMA NewBatch ==
  ASSUME IInv, NEW ms \in SUBSET (1..added), Prefix(ms), Batch(ms),
         UNCHANGED <<added, table, outcome>>
  PROVE  WorkInv' /\ BatchInv' /\ ToDeleteHandled' /\ work' \in [Peer -> Work]
<1> USE DEF outcome
<1>0. (\A m : Handled(m)' <=> Handled(m)) /\ Prefix(ms)' /\ ms \subseteq Msg
  BY OutboxConstants DEF Handled, Asked, Prefix, IInv, TypeOK, Msg
<1>1. work' = [q \in Peer |-> IF \E m \in ms : To[m] = q
                  THEN [NoWork EXCEPT !.pc = "send", !.todo = {m \in ms : To[m] = q}]
                  ELSE NoWork]
  BY DEF Batch, Groups
<1>2. ASSUME NEW q \in Peer
      PROVE  /\ work'[q].todo = {m \in ms : To[m] = q}
             /\ work'[q].pc = IF \E m \in ms : To[m] = q THEN "send" ELSE "none"
             /\ work'[q] \in Work
  <2>1. CASE \E m \in ms : To[m] = q
    <3>1. work'[q] = [NoWork EXCEPT !.pc = "send", !.todo = {m \in ms : To[m] = q}]
      BY <2>1, <1>1
    <3>2. {m \in ms : To[m] = q} \in SUBSET Msg
      BY <1>0
    <3> QED BY <3>1, <3>2, <2>1, Types DEF NoWork, Work
  <2>2. CASE ~\E m \in ms : To[m] = q
    <3>1. work'[q] = NoWork /\ {m \in ms : To[m] = q} = {}
      BY <2>2, <1>1
    <3> QED BY <3>1, <2>2, Types DEF NoWork
  <2> QED BY <2>1, <2>2
<1>3. WorkInv'
  <2> SUFFICES ASSUME NEW q \in Peer PROVE Order(q, work[q])' /\ Progress(work[q])'
    BY DEF WorkInv
  <2>1. Progress(work[q])'
    BY <1>2 DEF Progress
  <2>2. ASSUME NEW m \in work'[q].todo, NEW k \in 1..added, k < m, To[k] = q
        PROVE  k \in work'[q].todo \/ Handled(k)'
    <3>1. m \in ms /\ To[m] = q
      BY <1>2
    <3>2. CASE k \in table
      <4>1. k \in ms \/ Handled(k)
        BY <3>1, <3>2, <2>2 DEF Prefix
      <4>2. k \in ms => k \in work'[q].todo
        BY <2>2, <1>2
      <4>3. Handled(k) => Handled(k)'
        BY <1>0
      <4> QED BY <4>1, <4>2, <4>3
    <3>3. CASE k \notin table
      BY <3>3, <1>0 DEF IInv, NothingLost
    <3> QED BY <3>2, <3>3
  <2>3. /\ work'[q].todo \subseteq 1..added /\ added' = added
        /\ \A m \in work'[q].todo : To[m] = q
        /\ work'[q].pc \in {"send", "none"}
        /\ work'[q].pc = "none" => work'[q].todo = {}
        /\ work'[q].pc = "send" => work'[q].todo # {}
    <3>2. work'[q].todo = {m \in ms : To[m] = q}
      BY <1>2
    <3>1. work'[q].todo = {} <=> ~\E m \in ms : To[m] = q
      BY <3>2
    <3>3. work'[q].pc = IF \E m \in ms : To[m] = q THEN "send" ELSE "none"
      BY <1>2
    <3> QED BY <3>1, <3>2, <3>3
  <2>4. Order(q, work[q])'
    BY <2>2, <2>3 DEF Order
  <2> QED BY <2>1, <2>4
<1>4. BatchInv'
  <2>1. ASSUME NEW m \in ms PROVE m \in work'[To[m]].todo
    <3>1. To[m] \in Peer
      BY <1>0, OutboxConstants
    <3> QED BY <3>1, <1>2
  <2> QED BY <2>1, <1>0 DEF Batch, BatchInv
<1>5. ToDeleteHandled' /\ work' \in [Peer -> Work]
  BY <1>1, <1>2 DEF Batch, ToDeleteHandled
<1> QED BY <1>3, <1>4, <1>5

\* What has to be checked of a step of the goroutine of receiver q that leaves
\* the table and the batch alone.
LEMMA Step ==
  ASSUME IInv, NEW q \in Peer, TypeOK', KnownMessages',
         UNCHANGED <<added, table, phase, page, next>>,
         sent \subseteq sent', dropped \subseteq dropped', requests \subseteq requests',
         \A r \in Peer \ {q} : work'[r] = work[r],
         Order(q, work[q])', Progress(work[q])',
         \A m \in work[q].todo : m \in work'[q].todo \/ Handled(m)',
         ToDeleteHandled', StoredFirst', NoOvertaking'
  PROVE  IInv'
<1>1. \A m : Handled(m) => Handled(m)'
  BY HandledStays
<1>2. WorkInv'
  <2> SUFFICES ASSUME NEW r \in Peer, r # q PROVE Order(r, work[r])' /\ Progress(work[r])'
    BY DEF WorkInv
  <2>1. work'[r] = work[r] /\ Order(r, work[r]) /\ Progress(work[r])
    BY DEF IInv, WorkInv
  <2>2. Order(r, work[r])'
    BY <2>1, <1>1 DEF Order
  <2>3. Progress(work[r])'
    BY <2>1, <1>1, HandledStays DEF Progress
  <2> QED BY <2>2, <2>3
<1>3. BatchInv'
  <2>1. Prefix(page) => Prefix(page)'
    BY <1>1 DEF Prefix
  <2>2. Prefix(next) => Prefix(next)'
    BY <1>1 DEF Prefix
  <2>3. ASSUME phase = "handle", NEW m \in page PROVE m \in work'[To[m]].todo \/ Handled(m)'
    <3>1. m \in work[To[m]].todo \/ Handled(m)
      BY <2>3 DEF IInv, BatchInv
    <3>2. To[m] \in Peer
      BY OutboxConstants DEF IInv, TypeOK
    <3> QED BY <3>1, <3>2, <1>1
  <2> QED BY <2>1, <2>2, <2>3, <1>1 DEF IInv, BatchInv
<1>4. NothingLost'
  BY <1>1 DEF IInv, NothingLost
<1> QED BY <1>2, <1>3, <1>4 DEF IInv

\* A step of a goroutine that hands nothing over.
LEMMA QuietStep ==
  ASSUME IInv, NEW q \in Peer, UNCHANGED <<added, table, mux, phase, page, next, outcome, crashes>>,
         errors' \in 0..MaxErrors, berr' \in BOOLEAN, toDelete' \subseteq Msg, work' \in [Peer -> Work],
         \A r \in Peer \ {q} : work'[r] = work[r],
         Order(q, work[q])', Progress(work[q])',
         \A m \in work[q].todo : m \in work'[q].todo \/ Handled(m),
         ToDeleteHandled'
  PROVE  IInv'
<1> USE DEF outcome
<1>1. \A m : Handled(m)' <=> Handled(m)
  BY DEF Handled, Asked
<1>2. TypeOK' /\ KnownMessages' /\ StoredFirst'
  BY DEF IInv, TypeOK, KnownMessages, StoredFirst, Asked
<1>3. NoOvertaking'
  BY <1>1 DEF IInv, NoOvertaking, Touched
<1> QED BY <1>1, <1>2, <1>3, Step

\* Handing the goroutine's oldest message over overtakes nothing.
LEMMA HandOver ==
  ASSUME IInv, NEW q \in Peer, NEW m \in work[q].todo, \A n \in work[q].todo : m <= n,
         added' = added, sent \subseteq sent', dropped \subseteq dropped', requests \subseteq requests',
         \A n \in 1..added : Touched(n)' => n = m \/ Touched(n)
  PROVE  NoOvertaking'
<1>1. \A k : Handled(k) => Handled(k)'
  BY HandledStays
<1>2. Order(q, work[q])
  BY DEF IInv, WorkInv
<1> SUFFICES ASSUME NEW k \in 1..added, NEW n \in 1..added, k < n, To[k] = To[n], Touched(n)'
             PROVE  Handled(k)'
  BY DEF NoOvertaking
<1>3. CASE Touched(n)
  BY <1>3, <1>1 DEF IInv, NoOvertaking
<1>4. CASE n = m
  BY <1>4, <1>2, <1>1 DEF Order, IInv, TypeOK
<1> QED BY <1>3, <1>4
-----------------------------------------------------------------------------
LEMMA Initial == Init => IInv
<1> SUFFICES ASSUME Init PROVE IInv
  OBVIOUS
<1>1. TypeOK
  <2>1. work \in [Peer -> Work]
    BY Types DEF Init
  <2>2. added \in 0..MaxMessages /\ errors \in 0..MaxErrors /\ crashes \in 0..MaxCrashes
    BY OutboxConstants DEF Init
  <2> QED BY <2>1, <2>2 DEF Init, TypeOK
<1>2. WorkInv
  BY DEF Init, WorkInv, Order, Progress, NoWork
<1>3. BatchInv
  BY DEF Init, BatchInv
<1> QED BY <1>1, <1>2, <1>3 DEF Init, IInv, KnownMessages, ToDeleteHandled, NothingLost, StoredFirst, NoOvertaking

LEMMA AddStep == IInv /\ Add => IInv'
<1> SUFFICES ASSUME IInv, Add PROVE IInv'
  OBVIOUS
<1> USE DEF batchvars, outcome
<1>1. \A m : Handled(m)' <=> Handled(m)
  BY DEF Add, Handled, Asked
<1>2. added' = added + 1 /\ added \in Nat /\ added' \in 0..MaxMessages /\ table' = table \cup {added + 1}
  BY OutboxConstants DEF Add, IInv, TypeOK
<1>3. TypeOK'
  BY <1>2 DEF Add, IInv, TypeOK
<1>4. KnownMessages' /\ StoredFirst' /\ ToDeleteHandled'
  BY <1>1, <1>2 DEF Add, IInv, KnownMessages, StoredFirst, Asked, ToDeleteHandled
<1>5. NothingLost'
  BY <1>1, <1>2 DEF IInv, NothingLost
<1>6. NoOvertaking'
  <2> SUFFICES ASSUME NEW k \in 1..added', NEW n \in 1..added', k < n, To[k] = To[n], Touched(n)'
               PROVE  Handled(k)'
    BY DEF NoOvertaking
  <2>1. Touched(n)
    BY DEF Add, Touched
  <2>2. n \in 1..added
    BY <2>1 DEF IInv, KnownMessages, Touched
  <2> QED BY <2>1, <2>2, <1>1, <1>2 DEF IInv, NoOvertaking
<1>7. WorkInv'
  <2> SUFFICES ASSUME NEW q \in Peer PROVE Order(q, work[q])' /\ Progress(work[q])'
    BY DEF WorkInv
  <2>0. work' = work /\ Order(q, work[q]) /\ Progress(work[q])
    BY DEF IInv, WorkInv, Add
  <2>1. Order(q, work[q])'
    BY <2>0, <1>1, <1>2 DEF Order
  <2>2. Progress(work[q])'
    BY <2>0, <1>1 DEF Progress, Asked, Add
  <2> QED BY <2>1, <2>2
<1>8. BatchInv'
  <2>1. \A ms \in SUBSET (1..added) : Prefix(ms) => Prefix(ms)'
    BY <1>1, <1>2 DEF Prefix
  <2> QED BY <2>1, <1>1, <1>2 DEF Add, IInv, BatchInv
<1> QED BY <1>3, <1>4, <1>5, <1>6, <1>7, <1>8 DEF IInv

LEMMA FlushStep == \A f \in Flusher : IInv /\ Flush(f) => IInv'
<1> SUFFICES ASSUME NEW f \in Flusher, IInv, Flush(f) PROVE IInv'
  OBVIOUS
<1> USE DEF outcome
<1> DEFINE ms == List({})
<1>1. ms \subseteq table /\ ms \in SUBSET (1..added)
  BY DEF List, After, IInv, TypeOK
<1>2. Prefix(ms)
  <2>1. After({}) = table
    BY DEF After
  <2> QED BY <2>1, ListPrefix DEF Prefix, IInv
<1>3. Batch(ms) /\ UNCHANGED <<added, table, sent, requests, dropped, errors, crashes>>
  BY DEF Flush
<1>4. WorkInv' /\ BatchInv' /\ ToDeleteHandled' /\ work' \in [Peer -> Work]
  BY <1>1, <1>2, <1>3, NewBatch
<1> HIDE DEF ms
<1>5. TypeOK'
  <2>1. ms \subseteq Msg /\ mux' \in Flusher \cup {None}
    BY <1>1, Types DEF Flush, IInv
  <2> QED BY <2>1, <1>3, <1>4 DEF Batch, IInv, TypeOK
<1>6. KnownMessages' /\ StoredFirst' /\ NothingLost' /\ NoOvertaking'
  BY <1>3 DEF IInv, KnownMessages, StoredFirst, NothingLost, NoOvertaking, Handled, Touched, Asked
<1> QED BY <1>4, <1>5, <1>6 DEF IInv

LEMMA SendStep == \A q \in Peer, m \in Msg : IInv /\ (Send(q, m) \/ SendFails(q, m)) => IInv'
<1> SUFFICES ASSUME NEW q \in Peer, NEW m \in Msg, IInv, Send(q, m) \/ SendFails(q, m) PROVE IInv'
  OBVIOUS
<1>0. /\ IsNext(q, m) /\ UNCHANGED <<added, table, mux, phase, page, next, toDelete, berr, requests, errors, crashes>>
      /\ sent \subseteq sent' /\ dropped \subseteq dropped'
      /\ sent' \cup dropped' \subseteq sent \cup dropped \cup {m}
      /\ \E pc \in {"read", "prep"} : At(q, m, pc)
  BY DEF Send, SendFails
<1>1. PICK pc \in {"read", "prep"} : At(q, m, pc)
  BY <1>0
<1>2. /\ work' \in [Peer -> Work]
      /\ \A r \in Peer \ {q} : work'[r] = work[r]
      /\ work'[q].todo = work[q].todo /\ work'[q].cur = m /\ work'[q].pc = pc
  <2>1. m \in 0..MaxMessages /\ work' = [work EXCEPT ![q].cur = m, ![q].pc = pc]
    BY <1>1, Types DEF At
  <2> QED BY <2>1 DEF IInv, TypeOK, Work
<1>3. Order(q, work[q]) /\ m \in work[q].todo /\ (\A n \in work[q].todo : m <= n) /\ m \in 1..added
  BY <1>0 DEF IInv, WorkInv, IsNext, Order
<1>4. \A k : Handled(k) => Handled(k)'
  BY <1>0, HandledStays
<1>5. /\ pc = "read" => Handled(m)'
      /\ pc = "prep" => Inboxes[To[m]] # {}
  <2>1. CASE Send(q, m)
    <3>1. work'[q].pc = "read"
      BY <2>1 DEF Send, At, IInv, TypeOK, Work
    <3> QED BY <3>1, <1>2, <2>1 DEF Send, Handled
  <2>2. CASE SendFails(q, m) /\ Inboxes[To[m]] = {}
    <3>1. work'[q].pc = "read"
      BY <2>2 DEF SendFails, At, IInv, TypeOK, Work
    <3> QED BY <3>1, <1>2, <2>2 DEF SendFails, Handled
  <2>3. CASE SendFails(q, m) /\ Inboxes[To[m]] # {}
    <3>1. work'[q].pc = "prep"
      BY <2>3 DEF SendFails, At, IInv, TypeOK, Work
    <3> QED BY <3>1, <1>2, <2>3
  <2> QED BY <2>1, <2>2, <2>3
<1>6. Order(q, work[q])'
  BY <1>0, <1>1, <1>2, <1>3, <1>4 DEF Order
<1>7. Progress(work[q])'
  BY <1>1, <1>2, <1>5 DEF Progress
<1>8. TypeOK'
  BY <1>0, <1>2 DEF IInv, TypeOK
<1>9. KnownMessages' /\ ToDeleteHandled' /\ StoredFirst'
  BY <1>0, <1>3, <1>4 DEF IInv, KnownMessages, ToDeleteHandled, StoredFirst, Asked
<1>10. NoOvertaking'
  BY <1>0, <1>3, HandOver DEF Touched
<1> QED BY <1>0, <1>2, <1>6, <1>7, <1>8, <1>9, <1>10, Step

LEMMA QueueStep == \A q \in Peer, c \in Cafe : IInv /\ Queue(q, c) => IInv'
<1> SUFFICES ASSUME NEW q \in Peer, NEW c \in Cafe, IInv, Queue(q, c) PROVE IInv'
  OBVIOUS
<1> DEFINE w == work[q]
           x == [type |-> w.pc, msg |-> w.cur, cafe |-> c]
<1>0. /\ w.pc \in {"store", "inbox"} /\ c \in w.cafes /\ requests' = requests \cup {x}
      /\ UNCHANGED <<added, table, mux, phase, page, next, toDelete, berr, sent, dropped, errors, crashes>>
      /\ w \in Work
  BY DEF Queue, IInv, TypeOK
<1>1. /\ work' \in [Peer -> Work]
      /\ \A r \in Peer \ {q} : work'[r] = work[r]
      /\ work'[q].todo = w.todo /\ work'[q].cur = w.cur /\ work'[q].pc = w.pc
      /\ work'[q].cafes = w.cafes \ {c}
  BY DEF Queue, IInv, TypeOK, Work
<1>2. Order(q, w) /\ Progress(w)
  BY DEF IInv, WorkInv
<1>3. w.cur \in w.todo /\ (\A n \in w.todo : w.cur <= n) /\ w.cur \in 1..added
  BY <1>0, <1>2 DEF Order
<1>4. x \in Request /\ x.msg = w.cur
  BY <1>0, <1>3, OutboxConstants DEF Request, IInv, TypeOK, Msg
<1>5. \A k : Handled(k) => Handled(k)'
  BY <1>0, HandledStays
<1>6. Progress(work[q])'
  BY <1>0, <1>1, <1>2 DEF Progress, Asked
<1>7. StoredFirst'
  <2>1. ASSUME NEW y \in requests, y.type = "inbox" PROVE Asked(y.msg, "store", Session)'
    BY <1>0, <2>1 DEF IInv, StoredFirst, Asked
  <2>2. w.pc = "inbox" => \A d \in Session : [type |-> "store", msg |-> w.cur, cafe |-> d] \in requests'
    BY <1>0, <1>2 DEF Progress, Asked
  <2>3. x.type = w.pc /\ x.msg = w.cur
    OBVIOUS
  <2> HIDE DEF x, w
  <2> SUFFICES ASSUME NEW y \in requests', y.type = "inbox"
               PROVE  \A d \in Session : [type |-> "store", msg |-> y.msg, cafe |-> d] \in requests'
    BY DEF StoredFirst, Asked
  <2>4. CASE y \in requests
    BY <2>1, <2>4 DEF Asked
  <2>5. CASE y = x
    BY <2>2, <2>3, <2>5
  <2> QED BY <2>4, <2>5, <1>0
<1> HIDE DEF x, w
<1>8. Order(q, work[q])'
  BY <1>0, <1>1, <1>2, <1>5 DEF Order
<1>9. TypeOK'
  BY <1>0, <1>1, <1>4 DEF IInv, TypeOK
<1>10. KnownMessages' /\ ToDeleteHandled'
  BY <1>0, <1>3, <1>4, <1>5 DEF IInv, KnownMessages, ToDeleteHandled
<1>11. \A n \in 1..added : Touched(n)' => n = w.cur \/ Touched(n)
  BY <1>0, <1>4 DEF Touched
<1>12. NoOvertaking'
  <2>1. w.cur \in work[q].todo /\ \A n \in work[q].todo : w.cur <= n
    BY <1>3 DEF w
  <2> QED BY <2>1, <1>0, <1>11, HandOver
<1>13. \A m \in work[q].todo : m \in work'[q].todo
  BY <1>1 DEF w
<1> QED BY <1>0, <1>1, <1>6, <1>7, <1>8, <1>9, <1>10, <1>12, <1>13, Step

LEMMA RequestStep == \A q \in Peer : IInv /\ (Prep(q) \/ Stored(q) \/ Requested(q) \/ InboxRequestFails(q)) => IInv'
<1> SUFFICES ASSUME NEW q \in Peer, IInv, Prep(q) \/ Stored(q) \/ Requested(q) \/ InboxRequestFails(q) PROVE IInv'
  OBVIOUS
<1> USE DEF outcome
<1>0. /\ UNCHANGED <<added, table, mux, phase, page, next, toDelete, outcome, crashes>>
      /\ errors' \in 0..MaxErrors /\ berr' \in BOOLEAN
      /\ work[q].pc \in {"prep", "store", "inbox"}
      /\ work[q] \in Work
  <2>1. CASE Prep(q) \/ Stored(q) \/ Requested(q)
    BY <2>1 DEF Prep, Stored, Requested, IInv, TypeOK
  <2>2. CASE InboxRequestFails(q)
    BY <2>2, OutboxConstants DEF InboxRequestFails, IInv, TypeOK
  <2> QED BY <2>1, <2>2
<1>1. Order(q, work[q]) /\ Progress(work[q])
  BY DEF IInv, WorkInv
<1>2. work[q].cur \in work[q].todo /\ work[q].cur \in Msg
  BY <1>0, <1>1 DEF Order, IInv, TypeOK, Work
<1>3. Inboxes[To[work[q].cur]] \subseteq Cafe /\ Session \subseteq Cafe
  BY <1>2, OutboxConstants
<1>4. /\ work' \in [Peer -> Work]
      /\ \A r \in Peer \ {q} : work'[r] = work[r]
      /\ work'[q].todo = work[q].todo /\ work'[q].cur = work[q].cur
      /\ work'[q].pc \in {"store", "inbox", "read", "returned"}
  BY <1>0, <1>3 DEF Prep, Stored, Requested, InboxRequestFails, IInv, TypeOK, Work
<1>5. \A m : Handled(m)' <=> Handled(m)
  BY <1>0 DEF Handled, Asked
<1>6. Order(q, work[q])'
  BY <1>0, <1>1, <1>4, <1>5 DEF Order
<1>7. Progress(work[q])'
  <2>1. CASE Prep(q)
    <3>1. work'[q].pc = "store" /\ work'[q].cafes = Session
      BY <2>1 DEF Prep, IInv, TypeOK, Work
    <3> QED BY <3>1, <1>0, <1>1, <1>4, <2>1 DEF Progress, Asked, Prep
  <2>2. CASE Stored(q)
    <3>1. work'[q].pc = "inbox" /\ work'[q].cafes = Inboxes[To[work[q].cur]] /\ work[q].pc = "store" /\ work[q].cafes = {}
      BY <2>2 DEF Stored, IInv, TypeOK, Work
    <3> QED BY <3>1, <1>0, <1>1, <1>4 DEF Progress, Asked
  <2>3. CASE Requested(q)
    <3>1. work'[q].pc = "read" /\ work[q].pc = "inbox" /\ work[q].cafes = {}
      BY <2>3 DEF Requested, IInv, TypeOK, Work
    <3>2. Handled(work[q].cur)
      BY <3>1, <1>1 DEF Progress, Handled
    <3> QED BY <3>1, <3>2, <1>4, <1>5 DEF Progress
  <2>4. CASE InboxRequestFails(q)
    <3>1. work'[q].pc = "returned"
      BY <2>4 DEF InboxRequestFails, IInv, TypeOK, Work
    <3> QED BY <3>1 DEF Progress
  <2> QED BY <2>1, <2>2, <2>3, <2>4
<1>8. ToDeleteHandled' /\ toDelete' \subseteq Msg
  BY <1>0, <1>5 DEF IInv, ToDeleteHandled, TypeOK
<1> QED BY <1>0, <1>4, <1>6, <1>7, <1>8, QuietStep

LEMMA AppendStep == \A q \in Peer : IInv /\ (AppendRead(q) \/ AppendWrite(q)) => IInv'
<1> SUFFICES ASSUME NEW q \in Peer, IInv, AppendRead(q) \/ AppendWrite(q) PROVE IInv'
  OBVIOUS
<1> USE DEF outcome
<1>0. /\ UNCHANGED <<added, table, mux, phase, page, next, outcome, crashes, errors, berr>>
      /\ work[q].pc \in {"read", "write"}
      /\ work[q] \in Work
  BY DEF AppendRead, AppendWrite, IInv, TypeOK
<1>1. Order(q, work[q]) /\ Progress(work[q])
  BY DEF IInv, WorkInv
<1>2. /\ work[q].cur \in work[q].todo /\ work[q].cur \in Msg /\ Handled(work[q].cur)
      /\ \A n \in work[q].todo : work[q].cur <= n
  BY <1>0, <1>1 DEF Order, Progress, IInv, TypeOK, Work
<1>3. \A m : Handled(m)' <=> Handled(m)
  BY <1>0 DEF Handled, Asked
<1>4. CASE AppendRead(q)
  <2>1. /\ work' \in [Peer -> Work] /\ toDelete' = toDelete
        /\ \A r \in Peer \ {q} : work'[r] = work[r]
        /\ work'[q].todo = work[q].todo /\ work'[q].cur = work[q].cur
        /\ work'[q].pc = "write" /\ work'[q].seen = toDelete
    BY <1>4 DEF AppendRead, IInv, TypeOK, Work
  <2>2. Order(q, work[q])'
    BY <2>1, <1>0, <1>1, <1>3 DEF Order
  <2>3. Progress(work[q])'
    BY <2>1, <1>2, <1>3 DEF Progress, IInv, ToDeleteHandled
  <2>4. ToDeleteHandled' /\ toDelete' \subseteq Msg
    BY <2>1, <1>3 DEF IInv, ToDeleteHandled, TypeOK
  <2>5. errors' \in 0..MaxErrors /\ berr' \in BOOLEAN
    BY <1>0 DEF IInv, TypeOK
  <2> QED BY <1>0, <2>1, <2>2, <2>3, <2>4, <2>5, QuietStep
<1>5. CASE AppendWrite(q)
  <2> DEFINE rest == work[q].todo \ {work[q].cur}
             new == [NoWork EXCEPT !.pc = IF rest = {} THEN "done" ELSE "send", !.todo = rest]
  <2>0. work[q].pc = "write" /\ toDelete' = work[q].seen \cup {work[q].cur} /\ work' = [work EXCEPT ![q] = new]
    BY <1>5 DEF AppendWrite
  <2>1. /\ new \in Work /\ new.todo = rest /\ new.pc = IF rest = {} THEN "done" ELSE "send"
    BY <1>0, Types DEF NoWork, Work
  <2>2. /\ work' \in [Peer -> Work] /\ work'[q] = new
        /\ \A r \in Peer \ {q} : work'[r] = work[r]
    BY <2>0, <2>1 DEF IInv, TypeOK
  <2> HIDE DEF new
  <2>3. Order(q, work[q])'
    BY <2>1, <2>2, <1>0, <1>1, <1>2, <1>3 DEF Order
  <2>4. Progress(work[q])'
    BY <2>1, <2>2 DEF Progress
  <2>5. ToDeleteHandled' /\ toDelete' \subseteq Msg
    BY <2>0, <1>0, <1>1, <1>2, <1>3 DEF ToDeleteHandled, Progress, Work
  <2>6. \A m \in work[q].todo : m \in work'[q].todo \/ Handled(m)
    BY <2>1, <2>2, <1>2
  <2>7. errors' \in 0..MaxErrors /\ berr' \in BOOLEAN
    BY <1>0 DEF IInv, TypeOK
  <2> HIDE DEF rest
  <2> QED BY <1>0, <2>2, <2>3, <2>4, <2>5, <2>6, <2>7, QuietStep
<1> QED BY <1>4, <1>5

LEMMA NextPageStep == IInv /\ NextPage => IInv'
<1> SUFFICES ASSUME IInv, NextPage PROVE IInv'
  OBVIOUS
<1> USE DEF outcome
<1>0. /\ UNCHANGED <<added, table, mux, page, work, toDelete, berr, outcome, errors, crashes>>
      /\ phase = "handle" /\ phase' = "delete" /\ next' = List(page)
      /\ \A q \in Peer : work[q].pc \in {"none", "done"}
  BY DEF NextPage
<1>1. \A m : Handled(m)' <=> Handled(m)
  BY <1>0 DEF Handled, Asked
<1>2. \A m \in page : Handled(m)
  <2> SUFFICES ASSUME NEW m \in page PROVE Handled(m)
    OBVIOUS
  <2>1. To[m] \in Peer
    BY OutboxConstants DEF IInv, TypeOK
  <2>2. work[To[m]].todo = {}
    BY <2>1, <1>0 DEF IInv, WorkInv, Order
  <2> QED BY <2>2, <1>0 DEF IInv, BatchInv
<1>3. next' \subseteq table /\ next' \subseteq 1..added
  BY <1>0 DEF List, After, IInv, TypeOK
<1>4. Prefix(next)'
  <2> SUFFICES ASSUME NEW k \in table, NEW m \in next', k < m PROVE k \in next' \/ Handled(k)
    BY <1>0, <1>1 DEF Prefix
  <2>1. CASE k \in After(page)
    BY <2>1, <1>0, ListPrefix DEF IInv, TypeOK
  <2>2. CASE k \notin After(page)
    <3>1. PICK n \in page : ~(n < k)
      BY <2>2 DEF After
    <3>2. k = n \/ k < n
      BY <3>1, OutboxConstants DEF IInv, TypeOK, BatchInv
    <3> QED BY <3>2, <1>0, <1>2 DEF IInv, BatchInv, Prefix
  <2> QED BY <2>1, <2>2
<1>5. BatchInv'
  <2>1. Prefix(page)'
    BY <1>0, <1>1 DEF IInv, BatchInv, Prefix
  <2> QED BY <2>1, <1>0, <1>1, <1>2, <1>3, <1>4 DEF IInv, BatchInv
<1>6. WorkInv'
  BY <1>0 DEF IInv, WorkInv, Order, Progress, Handled, Asked
<1>7. TypeOK'
  BY <1>0, <1>3, OutboxConstants DEF IInv, TypeOK, Msg
<1>8. KnownMessages' /\ StoredFirst' /\ NothingLost' /\ NoOvertaking' /\ ToDeleteHandled'
  BY <1>0 DEF IInv, KnownMessages, StoredFirst, NothingLost, NoOvertaking, Handled, Touched, Asked, ToDeleteHandled
<1> QED BY <1>5, <1>6, <1>7, <1>8 DEF IInv

LEMMA DeleteStep == \A m \in Msg : IInv /\ Delete(m) => IInv'
<1> SUFFICES ASSUME NEW m \in Msg, IInv, Delete(m) PROVE IInv'
  OBVIOUS
<1> USE DEF outcome, batchvars
<1>0. /\ UNCHANGED <<added, mux, batchvars, outcome, errors, crashes>>
      /\ table' = table \ {m} /\ m \in toDelete
  BY DEF Delete
<1>1. (\A k : Handled(k)' <=> Handled(k)) /\ Handled(m)
  BY <1>0 DEF Handled, Asked, IInv, ToDeleteHandled
<1>2. NothingLost'
  BY <1>0, <1>1 DEF IInv, NothingLost
<1>3. BatchInv'
  BY <1>0, <1>1 DEF IInv, BatchInv, Prefix
<1>4. WorkInv'
  BY <1>0 DEF IInv, WorkInv, Order, Progress, Handled, Asked
<1>5. TypeOK'
  BY <1>0 DEF IInv, TypeOK
<1>6. KnownMessages' /\ StoredFirst' /\ NoOvertaking' /\ ToDeleteHandled'
  BY <1>0 DEF IInv, KnownMessages, StoredFirst, NoOvertaking, Handled, Touched, Asked, ToDeleteHandled
<1> QED BY <1>2, <1>3, <1>4, <1>5, <1>6 DEF IInv

\* Recurse and Crash start a batch that may be empty.
LEMMA RestartStep == IInv /\ (Recurse \/ Crash) => IInv'
<1> SUFFICES ASSUME IInv, Recurse \/ Crash PROVE IInv'
  OBVIOUS
<1> USE DEF outcome
<1>1. PICK ms \in {next, {}} : Batch(ms) /\ (ms = next => ms = {} \/ phase = "delete")
  <2>1. CASE Recurse
    BY <2>1 DEF Recurse
  <2>2. CASE Crash
    BY <2>2 DEF Crash
  <2> QED BY <2>1, <2>2
<1>2. /\ UNCHANGED <<added, table, sent, requests, dropped>>
      /\ errors' \in 0..MaxErrors /\ crashes' \in 0..MaxCrashes
      /\ mux' \in Flusher \cup {None}
  BY OutboxConstants DEF Recurse, Crash, IInv, TypeOK
<1>3. ms \in SUBSET (1..added) /\ Prefix(ms)
  BY <1>1 DEF IInv, BatchInv, Prefix
<1>4. WorkInv' /\ BatchInv' /\ ToDeleteHandled' /\ work' \in [Peer -> Work]
  BY <1>1, <1>2, <1>3, NewBatch
<1>5. TypeOK'
  BY <1>1, <1>2, <1>3, <1>4, OutboxConstants DEF Batch, IInv, TypeOK
<1>6. KnownMessages' /\ StoredFirst' /\ NothingLost' /\ NoOvertaking'
  BY <1>2 DEF IInv, KnownMessages, StoredFirst, NothingLost, NoOvertaking, Handled, Touched, Asked
<1> QED BY <1>4, <1>5, <1>6 DEF IInv

\* The invariant is preserved by every step.
THEOREM Inductive == IInv /\ [Next]_vars => IInv'
<1> SUFFICES ASSUME IInv, [Next]_vars PROVE IInv'
  OBVIOUS
<1>1. CASE Add
  BY <1>1, AddStep
<1>2. CASE \E f \in Flusher : Flush(f)
  BY <1>2, FlushStep
<1>3. CASE \E q \in Peer : Handle(q) \/ InboxRequestFails(q)
  BY <1>3, SendStep, QueueStep, RequestStep, AppendStep DEF Handle
<1>4. CASE Finish
  BY <1>4, NextPageStep, RestartStep, DeleteStep DEF Finish
<1>5. CASE Crash
  BY <1>5, RestartStep
<1>6. CASE UNCHANGED vars
  <2>1. UNCHANGED <<added, table, mux, phase, page, next, work, toDelete, berr, sent, requests, dropped, errors, crashes>>
    BY <1>6 DEF vars, batchvars, outcome
  <2> QED BY <2>1 DEF IInv, TypeOK, KnownMessages, WorkInv, Order, Progress, BatchInv, Prefix,
          ToDeleteHandled, NothingLost, StoredFirst, NoOvertaking, Handled, Touched, Asked
<1> QED BY <1>1, <1>2, <1>3, <1>4, <1>5, <1>6 DEF Next

LEMMA Invariant == Spec => []IInv
BY Initial, Inductive, PTL DEF Spec

\* The table, its pages and the requests of the threads outbox keep their types.
THEOREM TypeCorrect == Spec => []TypeOK
<1>1. IInv => TypeOK
  BY DEF IInv
<1> QED BY <1>1, Invariant, PTL

\* A message leaves the table only when it was handled, whatever fails (NothingLost).
THEOREM RowsOutliveFailures == Spec => []NothingLost
<1>1. IInv => NothingLost
  BY DEF IInv
<1> QED BY <1>1, Invariant, PTL

\* Messages to one receiver are handed over in order (NoOvertaking).
THEOREM OrderKept == Spec => []NoOvertaking
<1>1. IInv => NoOvertaking
  BY DEF IInv
<1> QED BY <1>1, Invariant, PTL

\* A delivery is requested only after the ciphertext was queued for the sender's
\* own cafes (StoredFirst).
THEOREM ContentBeforeName == Spec => []StoredFirst
<1>1. IInv => StoredFirst
  BY DEF IInv
<1> QED BY <1>1, Invariant, PTL
=============================================================================

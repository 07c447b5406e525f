-------------------------- MODULE CafeOutbox_proofs --------------------------
(***************************************************************************)
(* A request leaves the table of cafe requests only when its cafe has what *)
(* it is about, refused it, or nothing is left to do: for any number of    *)
(* requests, cafes and threads, any page size, any failures and restarts.  *)
(***************************************************************************)
EXTENDS CafeOutbox, TLAPS

Settled(i) == Served(i) \/ Moot(i) \/ i \in refused

\* A thread is backed up on request of a HEAD it has had.
RequestsOK ==
  \A i \in 1..added :
    /\ request[i].cafe \in Cafe
    /\ request[i].kind = "thread" => /\ request[i].target \in Thread
                                     /\ request[i].version <= head[request[i].target]
    /\ request[i].kind # "thread" => request[i].target \in Content

AddingOK ==
  \A a \in Adder :
    /\ adding[a].kind = "thread" => /\ adding[a].target \in Thread
                                    /\ adding[a].version <= head[adding[a].target]
                                    /\ adding[a].inboxes = {}
    /\ adding[a].kind # "thread" /\ adding[a].pc # "idle" => adding[a].target \in Content

BackupsOK == \A c \in Cafe, t \in Thread : backup[c][t] <= head[t]

\* The goroutine of c has requests to c only, is done with settled ones only, and
\* the HEAD it is about to upload is not older than the backup or the request.
Uploads(c, w) ==
  w.pc = "upload" =>
    \A i \in w.group : (\A j \in w.group : i <= j) =>
      /\ request[i].kind = "thread"
      /\ request[i].version <= w.snap
      /\ backup[c][request[i].target] <= w.snap
      /\ w.snap <= head[request[i].target]

WorkOK(c, w) ==
  /\ w.todo \subseteq 1..added /\ w.group \subseteq 1..added /\ w.done \subseteq 1..added
  /\ \A i \in w.todo \cup w.group : request[i].cafe = c
  /\ \A i \in w.done : Settled(i)
  /\ Uploads(c, w)

WorkInv == \A c \in Cafe : WorkOK(c, work[c])

ToDeleteSettled == \A i \in toDelete : Settled(i)

\* The inductive invariant.
IInv == /\ TypeOK /\ RequestsOK /\ AddingOK /\ BackupsOK /\ WorkInv /\ ToDeleteSettled
        /\ NothingForgotten
-----------------------------------------------------------------------------
LEMMA Types ==
  /\ NoWork \in Work /\ Idle \in Adding
  /\ TypeOK => 1..added \subseteq Id /\ added \in Nat
  /\ \A t \in Thread : TypeOK => head[t] \in Nat
  /\ NoWork.todo = {} /\ NoWork.group = {} /\ NoWork.done = {} /\ NoWork.pc = "pick"
BY OutboxConstants DEF NoWork, Work, Id, TypeOK, Idle, Adding, Head

\* What was settled stays settled.
LEMMA SettledStays ==
  ASSUME IInv, added \in Nat,
         \A i \in 1..added : request'[i] = request[i],
         \A c \in Cafe : pinned[c] \subseteq pinned'[c] /\ mailbox[c] \subseteq mailbox'[c],
         \A c \in Cafe, t \in Thread : backup'[c][t] \in Nat /\ backup[c][t] <= backup'[c][t],
         removed \subseteq removed', dropped \subseteq dropped', refused \subseteq refused'
  PROVE  \A i \in 1..added : Settled(i) => Settled(i)'
<1> SUFFICES ASSUME NEW i \in 1..added, Settled(i) PROVE Settled(i)'
  OBVIOUS
<1>0. request'[i] = request[i] /\ request[i].cafe \in Cafe
  BY DEF IInv, RequestsOK
<1>1. CASE Moot(i) \/ i \in refused
  BY <1>1, <1>0 DEF Settled, Moot
<1>2. CASE Served(i)
  <2>0. request[i].kind \in {"store", "thread", "inbox"} /\ request[i].version \in Nat
    <3>1. request[i] \in Request
      BY Types DEF IInv, TypeOK
    <3> QED BY <3>1, OutboxConstants DEF Request, Head
  <2>1. CASE request[i].kind = "store"
    BY <1>0, <1>2, <2>1 DEF Served, Settled
  <2>2. CASE request[i].kind = "inbox"
    BY <1>0, <1>2, <2>2 DEF Served, Settled
  <2>3. CASE request[i].kind = "thread"
    <3> DEFINE c == request[i].cafe  t == request[i].target
    <3>1. t \in Thread /\ c \in Cafe
      BY <1>0, <2>3 DEF IInv, RequestsOK
    <3>2. backup[c][t] \in Nat /\ request[i].version <= backup[c][t]
      BY <1>2, <2>3, <3>1, OutboxConstants DEF Served, IInv, TypeOK, Head
    <3>3. backup'[c][t] \in Nat /\ backup[c][t] <= backup'[c][t]
      BY <3>1
    <3>4. request[i].version <= backup'[c][t]
      BY <2>0, <3>2, <3>3
    <3>5. Served(i)'
      BY <1>0, <2>3, <3>4 DEF Served
    <3> QED BY <3>5 DEF Settled
  <2> QED BY <2>0, <2>1, <2>2, <2>3
<1> QED BY <1>1, <1>2 DEF Settled
-----------------------------------------------------------------------------
(* The goroutine of a cafe *)

\* What has to be checked of a step of the goroutine of c.
LEMMA HandleStep ==
  ASSUME IInv, NEW c \in Cafe,
         UNCHANGED <<queue, adding, peer, phase, page, next, toDelete, dropped, stuck>>,
         work' \in [Cafe -> Work], \A d \in Cafe \ {c} : work'[d] = work[d],
         berr' \in BOOLEAN, faults' \in 0..MaxFaults,
         pinned' \in [Cafe -> SUBSET Content], mailbox' \in [Cafe -> SUBSET Content],
         backup' \in [Cafe -> [Thread -> Head]], refused' \subseteq 1..added,
         \A d \in Cafe : pinned[d] \subseteq pinned'[d] /\ mailbox[d] \subseteq mailbox'[d],
         refused \subseteq refused',
         \A t \in Thread : backup[c][t] <= backup'[c][t] /\ backup'[c][t] <= head[t],
         \A d \in Cafe \ {c} : backup'[d] = backup[d],
         WorkOK(c, work[c])'
  PROVE  IInv'
<1> USE DEF queue, peer
<1>1. \A d \in Cafe, t \in Thread : backup'[d][t] \in Nat /\ backup[d][t] <= backup'[d][t]
  <2> SUFFICES ASSUME NEW d \in Cafe, NEW t \in Thread
               PROVE  backup'[d][t] \in Nat /\ backup[d][t] <= backup'[d][t]
    OBVIOUS
  <2>1. backup'[d][t] \in Nat
    BY OutboxConstants DEF Head
  <2>2. CASE d = c
    BY <2>1, <2>2
  <2>3. CASE d # c
    BY <2>1, <2>3
  <2> QED BY <2>2, <2>3
<1>2. \A i \in 1..added : Settled(i) => Settled(i)'
  BY <1>1, Types, SettledStays DEF IInv
<1>3. TypeOK'
  BY DEF IInv, TypeOK
<1>4. RequestsOK' /\ AddingOK'
  BY DEF IInv, RequestsOK, AddingOK
<1>5. BackupsOK'
  BY DEF IInv, BackupsOK
<1>6. WorkInv'
  <2> SUFFICES ASSUME NEW d \in Cafe, d # c PROVE WorkOK(d, work[d])'
    BY DEF WorkInv
  <2>1. work'[d] = work[d] /\ backup'[d] = backup[d] /\ WorkOK(d, work[d])
    BY DEF IInv, WorkInv
  <2>2. Uploads(d, work[d])'
    BY <2>1 DEF WorkOK, Uploads
  <2> QED BY <2>1, <2>2, <1>2 DEF WorkOK
<1>7. ToDeleteSettled' /\ NothingForgotten'
  <2>1. toDelete \subseteq 1..added
    BY DEF IInv, TypeOK
  <2>2. \A i \in 1..added : i \in table' \/ Settled(i)'
    BY <1>2 DEF IInv, NothingForgotten, Settled
  <2> QED BY <2>1, <2>2, <1>2 DEF IInv, ToDeleteSettled, NothingForgotten, Settled
<1> QED BY <1>3, <1>4, <1>5, <1>6, <1>7 DEF IInv

LEMMA AfterType ==
  ASSUME TypeOK, NEW c \in Cafe
  PROVE  \A ids, ok : ok \subseteq Id =>
           /\ After(c, ids, ok) \in Work
           /\ After(c, ids, ok).todo \subseteq work[c].todo
           /\ After(c, ids, ok).group \subseteq work[c].group
           /\ After(c, ids, ok).done = work[c].done \cup ok
           /\ After(c, ids, ok).pc # "upload"
<1>1. work[c] \in Work /\ 0 \in Head
  BY OutboxConstants DEF TypeOK, Head
<1> QED BY <1>1 DEF After, Work

\* A step that leaves the cafes as they are.
LEMMA QuietStep ==
  ASSUME IInv, NEW c \in Cafe,
         UNCHANGED <<queue, adding, peer, phase, page, next, toDelete, dropped, stuck, cafes>>,
         work' \in [Cafe -> Work], \A d \in Cafe \ {c} : work'[d] = work[d],
         berr' \in BOOLEAN, faults' \in 0..MaxFaults,
         refused' \subseteq 1..added, refused \subseteq refused',
         WorkOK(c, work[c])'
  PROVE  IInv'
<1> USE DEF cafes
<1>1. /\ pinned' \in [Cafe -> SUBSET Content] /\ mailbox' \in [Cafe -> SUBSET Content]
      /\ backup' \in [Cafe -> [Thread -> Head]]
  BY DEF IInv, TypeOK
<1>2. \A t \in Thread : backup[c][t] <= backup'[c][t] /\ backup'[c][t] <= head[t]
  <2> SUFFICES ASSUME NEW t \in Thread PROVE backup[c][t] <= backup[c][t] /\ backup[c][t] <= head[t]
    OBVIOUS
  <2>1. backup[c][t] \in Nat
    BY OutboxConstants DEF IInv, TypeOK, Head
  <2> QED BY <2>1 DEF IInv, BackupsOK
<1> QED BY <1>1, <1>2, HandleStep

\* What the goroutine has left is what it had, and what it is done with now is settled.
LEMMA WorkShrinks ==
  ASSUME IInv, NEW c \in Cafe, UNCHANGED <<added, request>>,
         work'[c].todo \subseteq work[c].todo, work'[c].group \subseteq work[c].group,
         work'[c].done \subseteq 1..added,
         \A i \in work'[c].done : Settled(i)',
         work'[c].pc # "upload"
  PROVE  WorkOK(c, work[c])'
<1>1. WorkOK(c, work[c])
  BY DEF IInv, WorkInv
<1> QED BY <1>1 DEF WorkOK, Uploads

LEMMA QuietSettled ==
  ASSUME IInv, UNCHANGED <<added, request, cafes>>,
         removed \subseteq removed', dropped \subseteq dropped', refused \subseteq refused'
  PROVE  \A i \in 1..added : Settled(i) => Settled(i)'
<1>1. \A c \in Cafe, t \in Thread : backup'[c][t] \in Nat /\ backup[c][t] <= backup'[c][t]
  BY OutboxConstants DEF IInv, TypeOK, Head, cafes
<1> QED BY <1>1, SettledStays, Types DEF cafes, IInv

\* A quiet step that turns its own work into less work.
LEMMA QuietShrink ==
  ASSUME IInv, NEW c \in Cafe, NEW w, w \in Work, work' = [work EXCEPT ![c] = w],
         UNCHANGED <<queue, adding, peer, phase, page, next, toDelete, dropped, stuck, cafes>>,
         berr' \in BOOLEAN, faults' \in 0..MaxFaults,
         refused' \subseteq 1..added, refused \subseteq refused',
         w.todo \subseteq work[c].todo, w.group \subseteq work[c].group,
         w.done \subseteq 1..added, w.pc # "upload",
         \A i \in w.done : i \in work[c].done \/ Settled(i)'
  PROVE  IInv'
<1> USE DEF queue, peer
<1>1. work'[c] = w /\ work' \in [Cafe -> Work] /\ \A d \in Cafe \ {c} : work'[d] = work[d]
  BY DEF IInv, TypeOK
<1>2. \A i \in 1..added : Settled(i) => Settled(i)'
  BY QuietSettled
<1>3. \A i \in work[c].done : Settled(i)
  BY DEF IInv, WorkInv, WorkOK
<1>4. WorkOK(c, work[c])'
  BY <1>1, <1>2, <1>3, WorkShrinks DEF IInv, WorkInv, WorkOK
<1> QED BY <1>1, <1>4, QuietStep

LEMMA Done ==
  ASSUME IInv, NEW c \in Cafe
  PROVE  /\ work[c] \in Work /\ berr \in BOOLEAN /\ faults \in 0..MaxFaults /\ refused \subseteq 1..added
         /\ work[c].todo \subseteq 1..added /\ work[c].group \subseteq 1..added
         /\ work[c].done \subseteq 1..added
         /\ \A kind : OfKind(c, kind) \subseteq work[c].todo
         /\ \A xs : Wanting(c, xs) \subseteq work[c].todo
         /\ \A i \in work[c].todo \cup work[c].group : request[i].cafe = c
BY DEF IInv, TypeOK, WorkInv, WorkOK, OfKind, Wanting

LEMMA AskInv == ASSUME IInv, NEW c \in Cafe, Ask(c) PROVE IInv'
<1> DEFINE need == {request[i].target : i \in OfKind(c, "store")} \ pinned[c]
           stored == OfKind(c, "store") \ Wanting(c, need)
           w == [work[c] EXCEPT !.pc = IF need = {} THEN "pick" ELSE "send",
                                !.todo = @ \ stored, !.need = need, !.stale = FALSE,
                                !.done = @ \cup stored]
<1>0. OfKind(c, "store") \subseteq work[c].todo /\ work[c].todo \subseteq 1..added /\ 1..added \subseteq Id
  BY Done, Types DEF IInv
<1>1. need \subseteq Content
  <2> SUFFICES ASSUME NEW i \in OfKind(c, "store") PROVE request[i].target \in Content
    OBVIOUS
  <2> QED BY <1>0 DEF OfKind, IInv, RequestsOK
<1>2. work' = [work EXCEPT ![c] = w] /\ UNCHANGED <<berr, faults, refused, cafes>>
      /\ UNCHANGED <<queue, adding, peer, phase, page, next, toDelete, dropped, stuck>>
  BY DEF Ask, Goes
<1>a. work[c] \in Work /\ stored \subseteq Id
  BY <1>0, Done
<1>3. w \in Work
  <2> HIDE DEF need, stored
  <2> QED BY <1>1, <1>a DEF Work
<1>4. w.todo \subseteq work[c].todo /\ w.group \subseteq work[c].group /\ w.pc # "upload"
      /\ w.done = work[c].done \cup stored
  <2> HIDE DEF need, stored
  <2> QED BY <1>a DEF Work
<1>5. \A i \in stored : Settled(i)'
  <2> SUFFICES ASSUME NEW i \in stored PROVE Settled(i)'
    OBVIOUS
  <2>1. i \in 1..added /\ i \in work[c].todo /\ request[i].kind = "store" /\ request[i].cafe = c
    BY <1>0, Done DEF OfKind
  <2>2. request[i].target \in pinned[c]
    BY <2>1 DEF Wanting, OfKind
  <2>3. Settled(i)
    BY <2>1, <2>2 DEF Served, Settled
  <2>4. \A j \in 1..added : Settled(j) => Settled(j)'
    BY <1>2, QuietSettled DEF queue, peer
  <2> QED BY <2>1, <2>3, <2>4
<1>6. w.done \subseteq 1..added
  BY <1>0, <1>4, Done
<1>7. berr' \in BOOLEAN /\ faults' \in 0..MaxFaults /\ refused' \subseteq 1..added /\ refused \subseteq refused'
  BY <1>2, Done
<1> HIDE DEF w, stored, need
<1> QED BY <1>2, <1>3, <1>4, <1>5, <1>6, <1>7, QuietShrink

LEMMA AskRefusedInv == ASSUME IInv, NEW c \in Cafe, AskRefused(c) PROVE IInv'
<1> DEFINE w == After(c, OfKind(c, "store"), {})
<1>1. work' = [work EXCEPT ![c] = w] /\ berr' = TRUE /\ UNCHANGED <<faults, refused, cafes>>
      /\ UNCHANGED <<queue, adding, peer, phase, page, next, toDelete, dropped, stuck>>
  BY DEF AskRefused, Goes, Fails
<1>2. w \in Work /\ w.todo \subseteq work[c].todo /\ w.group \subseteq work[c].group
      /\ w.done = work[c].done /\ w.pc # "upload"
  <2>1. TypeOK
    BY DEF IInv
  <2>2. \A ids, ok : ok \subseteq Id =>
          /\ After(c, ids, ok) \in Work
          /\ After(c, ids, ok).todo \subseteq work[c].todo
          /\ After(c, ids, ok).group \subseteq work[c].group
          /\ After(c, ids, ok).done = work[c].done \cup ok
          /\ After(c, ids, ok).pc # "upload"
    BY <2>1, AfterType
  <2> QED BY <2>2
<1> HIDE DEF w
<1> QED BY <1>1, <1>2, QuietShrink, Done

LEMMA SendInv == ASSUME IInv, NEW c \in Cafe, NEW x \in Content, Send(c, x) PROVE IInv'
<1> DEFINE w == Sent(c, x)
<1>1. /\ work' = [work EXCEPT ![c] = w] /\ pinned' = [pinned EXCEPT ![c] = @ \cup {x}]
      /\ UNCHANGED <<berr, faults, refused, backup, mailbox>>
      /\ UNCHANGED <<queue, adding, peer, phase, page, next, toDelete, dropped, stuck>>
  BY DEF Send, Goes
<1>2. Wanting(c, {x}) \subseteq work[c].todo /\ work[c].todo \subseteq 1..added /\ 1..added \subseteq Id
  BY Done, Types DEF IInv
<1>3. w \in Work /\ w.todo \subseteq work[c].todo /\ w.group = work[c].group
      /\ w.done = work[c].done \cup Wanting(c, {x}) /\ w.pc # "upload"
  <2>1. work[c] \in Work /\ Wanting(c, {x}) \subseteq Id
    BY <1>2, Done
  <2> QED BY <2>1 DEF Sent, Work
<1> HIDE DEF w
<1>4. work'[c] = w /\ work' \in [Cafe -> Work] /\ \A d \in Cafe \ {c} : work'[d] = work[d]
  BY <1>1, <1>3 DEF IInv, TypeOK
<1>5. /\ pinned' \in [Cafe -> SUBSET Content] /\ x \in pinned'[c]
      /\ \A d \in Cafe : pinned[d] \subseteq pinned'[d]
  BY <1>1 DEF IInv, TypeOK
<1>6. \A d \in Cafe, t \in Thread : backup'[d][t] \in Nat /\ backup[d][t] <= backup'[d][t]
  BY <1>1, OutboxConstants DEF IInv, TypeOK, Head
<1>7. \A i \in 1..added : Settled(i) => Settled(i)'
  BY <1>1, <1>5, <1>6, SettledStays, Types DEF IInv, queue, peer
<1>8. \A i \in Wanting(c, {x}) : Settled(i)'
  <2> SUFFICES ASSUME NEW i \in Wanting(c, {x}) PROVE Settled(i)'
    OBVIOUS
  <2>1. i \in work[c].todo /\ request[i].kind = "store" /\ request[i].target = x
    BY DEF Wanting
  <2>2. request[i].cafe = c /\ request' = request
    BY <1>1, <2>1, Done DEF queue
  <2>3. Served(i)'
    BY <1>5, <2>1, <2>2 DEF Served
  <2> QED BY <2>3 DEF Settled
<1>9. \A i \in work[c].done : Settled(i)'
  BY <1>7, Done DEF IInv, WorkInv, WorkOK
<1>10. WorkOK(c, work[c])'
  BY <1>1, <1>2, <1>3, <1>4, <1>8, <1>9, Done, WorkShrinks DEF queue
<1>11. \A t \in Thread : backup[c][t] <= backup'[c][t] /\ backup'[c][t] <= head[t]
  BY <1>1, <1>6 DEF IInv, BackupsOK
<1>12. /\ mailbox' \in [Cafe -> SUBSET Content] /\ backup' \in [Cafe -> [Thread -> Head]]
       /\ refused' \subseteq 1..added /\ berr' \in BOOLEAN /\ faults' \in 0..MaxFaults
  BY <1>1, Done DEF IInv, TypeOK
<1> QED BY <1>1, <1>4, <1>5, <1>10, <1>11, <1>12, HandleStep

LEMMA SendRefusedInv == ASSUME IInv, NEW c \in Cafe, NEW x \in Content, SendRefused(c, x) PROVE IInv'
<1> DEFINE w == Sent(c, x)
<1>1. /\ work' = [work EXCEPT ![c] = w] /\ refused' = refused \cup Wanting(c, {x})
      /\ UNCHANGED <<berr, faults, cafes>>
      /\ UNCHANGED <<queue, adding, peer, phase, page, next, toDelete, dropped, stuck>>
  BY DEF SendRefused, Goes
<1>2. Wanting(c, {x}) \subseteq work[c].todo /\ work[c].todo \subseteq 1..added /\ 1..added \subseteq Id
  BY Done, Types DEF IInv
<1>3. w \in Work /\ w.todo \subseteq work[c].todo /\ w.group = work[c].group
      /\ w.done = work[c].done \cup Wanting(c, {x}) /\ w.pc # "upload"
  <2>1. work[c] \in Work /\ Wanting(c, {x}) \subseteq Id
    BY <1>2, Done
  <2> QED BY <2>1 DEF Sent, Work
<1>4. \A i \in Wanting(c, {x}) : Settled(i)'
  BY <1>1 DEF Settled
<1>5. refused' \subseteq 1..added /\ refused \subseteq refused' /\ w.done \subseteq 1..added
  BY <1>1, <1>2, <1>3, Done
<1> HIDE DEF w
<1> QED BY <1>1, <1>3, <1>4, <1>5, QuietShrink, Done

LEMMA StoreFailsInv == ASSUME IInv, NEW c \in Cafe, StoreFails(c) PROVE IInv'
<1> DEFINE v == After(c, OfKind(c, "store"), {})
           w == [v EXCEPT !.need = {}]
<1>1. /\ work' = [work EXCEPT ![c] = w] /\ berr' = TRUE /\ UNCHANGED <<refused, backup, mailbox>>
      /\ UNCHANGED <<queue, adding, peer, phase, page, next, toDelete, dropped, stuck>>
      /\ faults < MaxFaults /\ faults' = faults + 1
      /\ pinned' \in {pinned} \cup {[pinned EXCEPT ![c] = @ \cup {x}] :
                                    x \in IF work[c].stale THEN {} ELSE work[c].need}
  BY DEF StoreFails, Goes, Fails, Fault
<1>2. w \in Work /\ w.todo \subseteq work[c].todo /\ w.group \subseteq work[c].group
      /\ w.done = work[c].done /\ w.pc # "upload"
  <2>1. TypeOK /\ {} \subseteq Id
    BY DEF IInv
  <2>2. v \in Work /\ v.todo \subseteq work[c].todo /\ v.group \subseteq work[c].group
        /\ v.done = work[c].done \cup {} /\ v.pc # "upload"
    BY <2>1, AfterType
  <2> HIDE DEF v
  <2> QED BY <2>2 DEF Work
<1> HIDE DEF w
<1>3. work[c] \in Work
  BY Done
<1>4. work[c].need \subseteq Content
  BY <1>3 DEF Work
<1>5. pinned' \in [Cafe -> SUBSET Content] /\ \A d \in Cafe : pinned[d] \subseteq pinned'[d]
  <2>1. pinned \in [Cafe -> SUBSET Content]
    BY DEF IInv, TypeOK
  <2> QED BY <1>1, <1>4, <2>1
<1>6. work'[c] = w /\ work' \in [Cafe -> Work] /\ \A d \in Cafe \ {c} : work'[d] = work[d]
  BY <1>1, <1>2 DEF IInv, TypeOK
<1>7. \A d \in Cafe, t \in Thread : backup'[d][t] \in Nat /\ backup[d][t] <= backup'[d][t]
  BY <1>1, OutboxConstants DEF IInv, TypeOK, Head
<1>8. \A i \in 1..added : Settled(i) => Settled(i)'
  BY <1>1, <1>5, <1>7, SettledStays, Types DEF IInv, queue, peer
<1>9. \A i \in work[c].done : Settled(i)'
  BY <1>8, Done DEF IInv, WorkInv, WorkOK
<1>10. WorkOK(c, work[c])'
  BY <1>1, <1>2, <1>6, <1>9, Done, WorkShrinks DEF queue
<1>11. \A t \in Thread : backup[c][t] <= backup'[c][t] /\ backup'[c][t] <= head[t]
  BY <1>1, <1>7 DEF IInv, BackupsOK
<1>12. /\ mailbox' \in [Cafe -> SUBSET Content] /\ backup' \in [Cafe -> [Thread -> Head]]
       /\ refused' \subseteq 1..added /\ berr' \in BOOLEAN
  BY <1>1, Done DEF IInv, TypeOK
<1>13. faults' \in 0..MaxFaults
  BY <1>1, OutboxConstants DEF IInv, TypeOK
<1> QED BY <1>1, <1>5, <1>6, <1>10, <1>11, <1>12, <1>13, HandleStep

\* The requests of one kind are a part of the goroutine's own; none is uploading yet.
LEMMA PickInv == ASSUME IInv, NEW c \in Cafe, NEW kind, Pick(c, kind) PROVE IInv'
<1> DEFINE w == [work[c] EXCEPT !.pc = "each", !.group = OfKind(c, kind)]
<1>1. work' = [work EXCEPT ![c] = w] /\ UNCHANGED <<berr, faults, refused, cafes>>
      /\ UNCHANGED <<queue, adding, peer, phase, page, next, toDelete, dropped, stuck>>
  BY DEF Pick, Goes
<1>2. OfKind(c, kind) \subseteq work[c].todo /\ work[c].todo \subseteq 1..added /\ 1..added \subseteq Id
      /\ work[c] \in Work
  BY Done, Types DEF IInv
<1>3. w \in Work /\ w.todo = work[c].todo /\ w.group = OfKind(c, kind)
      /\ w.done = work[c].done /\ w.pc = "each"
  BY <1>2 DEF Work
<1> HIDE DEF w
<1>4. work'[c] = w /\ work' \in [Cafe -> Work] /\ \A d \in Cafe \ {c} : work'[d] = work[d]
  BY <1>1, <1>3 DEF IInv, TypeOK
<1>5. \A i \in work[c].done : Settled(i)'
  BY <1>1, QuietSettled, Done DEF IInv, WorkInv, WorkOK, queue, peer
<1>6. WorkOK(c, work[c])'
  BY <1>1, <1>2, <1>3, <1>4, <1>5, Done DEF WorkOK, Uploads, queue
<1> QED BY <1>1, <1>4, <1>6, QuietStep, Done

\* What has to be checked of a step that tries the next request of a group.
LEMMA EachStep ==
  ASSUME IInv, NEW c \in Cafe, NEW i \in work[c].group, NEW ok, ok \subseteq {i},
         work' = [work EXCEPT ![c] = After(c, {i}, ok)],
         UNCHANGED <<queue, adding, peer, phase, page, next, toDelete, dropped, stuck>>,
         berr' \in BOOLEAN, faults' \in 0..MaxFaults,
         pinned' = pinned, mailbox' \in [Cafe -> SUBSET Content],
         backup' \in [Cafe -> [Thread -> Head]], refused' \subseteq refused \cup {i},
         \A d \in Cafe : mailbox[d] \subseteq mailbox'[d], refused \subseteq refused',
         \A t \in Thread : backup[c][t] <= backup'[c][t] /\ backup'[c][t] <= head[t],
         \A d \in Cafe \ {c} : backup'[d] = backup[d],
         ok # {} => Settled(i)'
  PROVE  IInv'
<1> USE DEF queue, peer
<1> DEFINE w == After(c, {i}, ok)
<1>1. i \in 1..added /\ 1..added \subseteq Id /\ ok \subseteq 1..added /\ TypeOK
  BY Done, Types DEF IInv
<1>2. w \in Work /\ w.todo \subseteq work[c].todo /\ w.group \subseteq work[c].group
      /\ w.done = work[c].done \cup ok /\ w.pc # "upload"
  <2>1. ok \subseteq Id
    BY <1>1
  <2>2. \A ids, o : o \subseteq Id =>
          /\ After(c, ids, o) \in Work
          /\ After(c, ids, o).todo \subseteq work[c].todo
          /\ After(c, ids, o).group \subseteq work[c].group
          /\ After(c, ids, o).done = work[c].done \cup o
          /\ After(c, ids, o).pc # "upload"
    BY <1>1, AfterType
  <2> QED BY <2>1, <2>2
<1>3. work'[c] = w /\ work' \in [Cafe -> Work] /\ \A d \in Cafe \ {c} : work'[d] = work[d]
  <2>1. work' = [work EXCEPT ![c] = w] /\ work \in [Cafe -> Work]
    BY DEF IInv, TypeOK
  <2> HIDE DEF w
  <2> QED BY <1>2, <2>1
<1> HIDE DEF w
<1>4. \A d \in Cafe, t \in Thread : backup'[d][t] \in Nat /\ backup[d][t] <= backup'[d][t]
  <2> SUFFICES ASSUME NEW d \in Cafe, NEW t \in Thread
               PROVE  backup'[d][t] \in Nat /\ backup[d][t] <= backup'[d][t]
    OBVIOUS
  <2>1. backup'[d][t] \in Nat
    BY OutboxConstants DEF Head
  <2>2. CASE d = c
    BY <2>1, <2>2
  <2>3. CASE d # c
    BY <2>1, <2>3
  <2> QED BY <2>2, <2>3
<1>5. \A j \in 1..added : Settled(j) => Settled(j)'
  BY <1>4, SettledStays, Types DEF IInv
<1>6. \A j \in work[c].done : Settled(j)'
  BY <1>5, Done DEF IInv, WorkInv, WorkOK
<1>7. WorkOK(c, work[c])'
  BY <1>1, <1>2, <1>3, <1>6, Done, WorkShrinks
<1>8. pinned' \in [Cafe -> SUBSET Content] /\ refused' \subseteq 1..added
      /\ \A d \in Cafe : pinned[d] \subseteq pinned'[d]
  BY <1>1, Done DEF TypeOK
<1> QED BY <1>3, <1>7, <1>8, HandleStep

\* A step of this kind that leaves the cafes as they are.
LEMMA EachQuiet ==
  ASSUME IInv, NEW c \in Cafe, NEW i \in work[c].group, NEW ok, ok \subseteq {i},
         work' = [work EXCEPT ![c] = After(c, {i}, ok)],
         UNCHANGED <<queue, adding, peer, phase, page, next, toDelete, dropped, stuck, cafes>>,
         berr' \in BOOLEAN, faults' \in 0..MaxFaults,
         refused' \subseteq refused \cup {i}, refused \subseteq refused',
         ok # {} => Settled(i)'
  PROVE  IInv'
<1>1. \A t \in Thread : backup[c][t] <= backup'[c][t] /\ backup'[c][t] <= head[t]
  BY OutboxConstants DEF IInv, TypeOK, Head, BackupsOK, cafes
<1>2. mailbox' \in [Cafe -> SUBSET Content] /\ backup' \in [Cafe -> [Thread -> Head]]
  BY DEF IInv, TypeOK, cafes
<1> QED BY <1>1, <1>2, EachStep DEF cafes

LEMMA ThreadGoneInv == ASSUME IInv, NEW c \in Cafe, NEW i \in Id, ThreadGone(c, i) PROVE IInv'
<1>1. /\ i \in work[c].group /\ work' = [work EXCEPT ![c] = After(c, {i}, {i})]
      /\ UNCHANGED <<berr, cafes, refused, faults>>
      /\ UNCHANGED <<queue, adding, peer, phase, page, next, toDelete, dropped, stuck>>
  BY DEF ThreadGone, IsNext, Goes
<1>2. Settled(i)'
  BY <1>1 DEF ThreadGone, IsNext, Settled, Moot, queue, peer
<1>3. berr' \in BOOLEAN /\ faults' \in 0..MaxFaults
      /\ refused' \subseteq refused \cup {i} /\ refused \subseteq refused'
  BY <1>1, Done
<1> QED BY <1>1, <1>2, <1>3, EachQuiet

LEMMA UploadRefusedInv == ASSUME IInv, NEW c \in Cafe, NEW i \in Id, UploadRefused(c, i) PROVE IInv'
<1>1. /\ i \in work[c].group /\ work' = [work EXCEPT ![c] = After(c, {i}, {i})]
      /\ UNCHANGED <<berr, cafes, faults>> /\ refused' = refused \cup {i}
      /\ UNCHANGED <<queue, adding, peer, phase, page, next, toDelete, dropped, stuck>>
  BY DEF UploadRefused, IsNext, Goes
<1>2. Settled(i)'
  BY <1>1 DEF Settled
<1>3. berr' \in BOOLEAN /\ faults' \in 0..MaxFaults
      /\ refused' \subseteq refused \cup {i} /\ refused \subseteq refused'
  BY <1>1, Done
<1> QED BY <1>1, <1>2, <1>3, EachQuiet

\* The next request, when it is one for a backup whose thread has been read.
LEMMA UploadFacts ==
  ASSUME IInv, NEW c \in Cafe, NEW i \in Id, IsNext(c, i, "upload", "thread")
  PROVE  /\ i \in work[c].group /\ request[i].kind = "thread" /\ request[i].cafe = c
         /\ request[i].target \in Thread /\ work[c].snap \in Head
         /\ request[i].version <= work[c].snap
         /\ backup[c][request[i].target] <= work[c].snap /\ work[c].snap <= head[request[i].target]
<1>1. i \in work[c].group /\ work[c].pc = "upload" /\ \A j \in work[c].group : i <= j
  BY DEF IsNext
<1>2. WorkOK(c, work[c]) /\ work[c] \in Work
  BY DEF IInv, WorkInv, TypeOK
<1> QED BY <1>1, <1>2 DEF WorkOK, Uploads, Work, IInv, RequestsOK

\* Storing the HEAD that was read leaves the record of the thread newer.
LEMMA BackedUpFacts ==
  ASSUME IInv, NEW c \in Cafe, NEW i \in Id, IsNext(c, i, "upload", "thread"),
         backup' = BackedUp(c, i), request' = request
  PROVE  /\ backup' \in [Cafe -> [Thread -> Head]]
         /\ \A t \in Thread : backup[c][t] <= backup'[c][t] /\ backup'[c][t] <= head[t]
         /\ \A d \in Cafe \ {c} : backup'[d] = backup[d]
         /\ Settled(i)'
<1>1. PICK u \in Thread : u = request[i].target
  BY UploadFacts
<1>2. PICK n \in Head : n = work[c].snap
  BY UploadFacts
<1>3. backup' = [backup EXCEPT ![c][u] = n] /\ backup \in [Cafe -> [Thread -> Head]]
  BY <1>1, <1>2 DEF BackedUp, IInv, TypeOK
<1>4. backup[c][u] <= n /\ n <= head[u] /\ request[i].version <= n
  BY <1>1, <1>2, UploadFacts
<1>5. \A t \in Thread : backup[c][t] \in Nat /\ backup[c][t] <= head[t]
  BY <1>3, OutboxConstants DEF IInv, BackupsOK, Head
<1>6. backup'[c] = [backup[c] EXCEPT ![u] = n] /\ backup[c] \in [Thread -> Head]
  BY <1>3
<1>7. \A t \in Thread : backup[c][t] <= backup'[c][t] /\ backup'[c][t] <= head[t]
  BY <1>4, <1>5, <1>6
<1>8. backup'[c][u] = n
  BY <1>6
<1>9. Served(i)'
  BY <1>1, <1>4, <1>8, UploadFacts DEF Served
<1> QED BY <1>3, <1>7, <1>9 DEF Settled

LEMMA UploadInv == ASSUME IInv, NEW c \in Cafe, NEW i \in Id, Upload(c, i) PROVE IInv'
<1>1. /\ i \in work[c].group /\ work' = [work EXCEPT ![c] = After(c, {i}, {i})]
      /\ backup' = BackedUp(c, i)
      /\ UNCHANGED <<berr, pinned, mailbox, refused, faults>>
      /\ UNCHANGED <<queue, adding, peer, phase, page, next, toDelete, dropped, stuck>>
  BY DEF Upload, IsNext, Goes
<1>2. /\ backup' \in [Cafe -> [Thread -> Head]]
      /\ \A t \in Thread : backup[c][t] <= backup'[c][t] /\ backup'[c][t] <= head[t]
      /\ \A d \in Cafe \ {c} : backup'[d] = backup[d]
      /\ Settled(i)'
  BY <1>1, BackedUpFacts DEF Upload, queue
<1>3. /\ berr' \in BOOLEAN /\ faults' \in 0..MaxFaults
      /\ mailbox' \in [Cafe -> SUBSET Content] /\ \A d \in Cafe : mailbox[d] \subseteq mailbox'[d]
      /\ refused' \subseteq refused \cup {i} /\ refused \subseteq refused'
  BY <1>1, Done DEF IInv, TypeOK
<1> QED BY <1>1, <1>2, <1>3, EachStep

LEMMA UploadFailsInv == ASSUME IInv, NEW c \in Cafe, NEW i \in Id, UploadFails(c, i) PROVE IInv'
<1>1. /\ i \in work[c].group /\ work' = [work EXCEPT ![c] = After(c, {i}, {})]
      /\ IsNext(c, i, "upload", "thread") /\ (backup' = backup \/ backup' = BackedUp(c, i))
      /\ UNCHANGED <<pinned, mailbox, refused>> /\ berr' = TRUE
      /\ UNCHANGED <<queue, adding, peer, phase, page, next, toDelete, dropped, stuck>>
  BY DEF UploadFails, IsNext, Goes, Fails
<1>2. /\ backup' \in [Cafe -> [Thread -> Head]]
      /\ \A t \in Thread : backup[c][t] <= backup'[c][t] /\ backup'[c][t] <= head[t]
      /\ \A d \in Cafe \ {c} : backup'[d] = backup[d]
  <2>1. CASE backup' = BackedUp(c, i)
    BY <1>1, <2>1, BackedUpFacts DEF queue
  <2>2. CASE backup' = backup
    BY <2>2, OutboxConstants DEF IInv, TypeOK, BackupsOK, Head
  <2> QED BY <1>1, <2>1, <2>2
<1>3. faults' \in 0..MaxFaults
  BY OutboxConstants DEF UploadFails, Fault, IInv, TypeOK
<1>4. /\ mailbox' \in [Cafe -> SUBSET Content] /\ \A d \in Cafe : mailbox[d] \subseteq mailbox'[d]
      /\ refused' \subseteq refused \cup {i} /\ refused \subseteq refused'
  BY <1>1, Done DEF IInv, TypeOK
<1>5. PICK ok : ok = {}
  OBVIOUS
<1>6. /\ ok \subseteq {i} /\ (ok # {} => Settled(i)')
      /\ work' = [work EXCEPT ![c] = After(c, {i}, ok)] /\ berr' \in BOOLEAN
  BY <1>1, <1>5
<1> QED BY <1>1, <1>2, <1>3, <1>4, <1>6, EachStep

\* A message that reached the cafe, or not, never leaves its mailbox again.
LEMMA MailboxFacts ==
  ASSUME IInv, NEW c \in Cafe, NEW i \in Id, IsNext(c, i, "each", "inbox"),
         mailbox' \in {mailbox, [mailbox EXCEPT ![c] = @ \cup {request[i].target}]}
  PROVE  /\ mailbox' \in [Cafe -> SUBSET Content]
         /\ \A d \in Cafe : mailbox[d] \subseteq mailbox'[d]
<1>1. mailbox \in [Cafe -> SUBSET Content]
  BY DEF IInv, TypeOK
<1>2. request[i].target \in Content
  BY Done DEF IsNext, IInv, RequestsOK
<1> QED BY <1>1, <1>2

LEMMA DeliverInv == ASSUME IInv, NEW c \in Cafe, NEW i \in Id, Deliver(c, i) PROVE IInv'
<1>1. /\ i \in work[c].group /\ work' = [work EXCEPT ![c] = After(c, {i}, {i})]
      /\ IsNext(c, i, "each", "inbox")
      /\ mailbox' = [mailbox EXCEPT ![c] = @ \cup {request[i].target}]
      /\ UNCHANGED <<berr, pinned, backup, refused, faults>>
      /\ UNCHANGED <<queue, adding, peer, phase, page, next, toDelete, dropped, stuck>>
  BY DEF Deliver, IsNext, Goes
<1>2. mailbox' \in [Cafe -> SUBSET Content] /\ \A d \in Cafe : mailbox[d] \subseteq mailbox'[d]
  BY <1>1, MailboxFacts
<1>3. Settled(i)'
  <2>1. mailbox \in [Cafe -> SUBSET Content]
    BY DEF IInv, TypeOK
  <2>2. request[i].kind = "inbox" /\ request[i].cafe = c /\ request' = request
    BY <1>1, Done DEF IsNext, queue
  <2>3. request[i].target \in mailbox'[c]
    BY <1>1, <2>1
  <2> QED BY <2>2, <2>3 DEF Settled, Served
<1>4. \A t \in Thread : backup[c][t] <= backup'[c][t] /\ backup'[c][t] <= head[t]
  BY <1>1, OutboxConstants DEF IInv, TypeOK, BackupsOK, Head
<1>5. /\ berr' \in BOOLEAN /\ faults' \in 0..MaxFaults /\ backup' \in [Cafe -> [Thread -> Head]]
      /\ refused' \subseteq refused \cup {i} /\ refused \subseteq refused'
      /\ \A d \in Cafe \ {c} : backup'[d] = backup[d]
  BY <1>1, Done DEF IInv, TypeOK
<1> QED BY <1>1, <1>2, <1>3, <1>4, <1>5, EachStep

LEMMA DeliverIgnoredInv == ASSUME IInv, NEW c \in Cafe, NEW i \in Id, DeliverIgnored(c, i) PROVE IInv'
<1>1. /\ i \in work[c].group /\ work' = [work EXCEPT ![c] = After(c, {i}, {i})]
      /\ UNCHANGED <<berr, cafes>> /\ refused' = refused \cup {i}
      /\ UNCHANGED <<queue, adding, peer, phase, page, next, toDelete, dropped, stuck>>
  BY DEF DeliverIgnored, IsNext, Goes
<1>2. Settled(i)'
  BY <1>1 DEF Settled
<1>3. faults' \in 0..MaxFaults
  BY OutboxConstants DEF DeliverIgnored, Fault, IInv, TypeOK
<1>4. berr' \in BOOLEAN /\ refused' \subseteq refused \cup {i} /\ refused \subseteq refused'
  BY <1>1, Done
<1> QED BY <1>1, <1>2, <1>3, <1>4, EachQuiet

LEMMA DeliverFailsInv == ASSUME IInv, NEW c \in Cafe, NEW i \in Id, DeliverFails(c, i) PROVE IInv'
<1>1. /\ i \in work[c].group /\ work' = [work EXCEPT ![c] = After(c, {i}, {})]
      /\ IsNext(c, i, "each", "inbox")
      /\ mailbox' \in {mailbox, [mailbox EXCEPT ![c] = @ \cup {request[i].target}]}
      /\ UNCHANGED <<pinned, backup, refused>> /\ berr' = TRUE
      /\ UNCHANGED <<queue, adding, peer, phase, page, next, toDelete, dropped, stuck>>
  BY DEF DeliverFails, IsNext, Goes, Fails
<1>2. mailbox' \in [Cafe -> SUBSET Content] /\ \A d \in Cafe : mailbox[d] \subseteq mailbox'[d]
  BY <1>1, MailboxFacts
<1>3. faults' \in 0..MaxFaults
  BY OutboxConstants DEF DeliverFails, Fault, IInv, TypeOK
<1>4. \A t \in Thread : backup[c][t] <= backup'[c][t] /\ backup'[c][t] <= head[t]
  BY <1>1, OutboxConstants DEF IInv, TypeOK, BackupsOK, Head
<1>5. /\ backup' \in [Cafe -> [Thread -> Head]]
      /\ refused' \subseteq refused \cup {i} /\ refused \subseteq refused'
      /\ \A d \in Cafe \ {c} : backup'[d] = backup[d]
  BY <1>1, Done DEF IInv, TypeOK
<1>6. PICK ok : ok = {}
  OBVIOUS
<1>7. /\ ok \subseteq {i} /\ (ok # {} => Settled(i)')
      /\ work' = [work EXCEPT ![c] = After(c, {i}, ok)] /\ berr' \in BOOLEAN
  BY <1>1, <1>6
<1> QED BY <1>1, <1>2, <1>3, <1>4, <1>5, <1>7, EachStep

\* The HEAD that is read is not older than the request or the backup.
LEMMA ReadThreadInv == ASSUME IInv, NEW c \in Cafe, NEW i \in Id, ReadThread(c, i) PROVE IInv'
<1>1. PICK u \in Thread : u = request[i].target
  BY Done DEF ReadThread, IsNext, IInv, RequestsOK
<1> DEFINE w == [work[c] EXCEPT !.pc = "upload", !.snap = head[u]]
<1>2. /\ i \in work[c].group /\ \A j \in work[c].group : i <= j
      /\ request[i].kind = "thread"
      /\ work' = [work EXCEPT ![c] = w] /\ UNCHANGED <<berr, faults, refused, cafes>>
      /\ UNCHANGED <<queue, adding, peer, phase, page, next, toDelete, dropped, stuck>>
  BY <1>1 DEF ReadThread, IsNext, Goes
<1>3. w \in Work /\ w.todo = work[c].todo /\ w.group = work[c].group
      /\ w.done = work[c].done /\ w.pc = "upload" /\ w.snap = head[u]
  <2>1. work[c] \in Work /\ head[u] \in Head
    BY Done DEF IInv, TypeOK
  <2> QED BY <2>1 DEF Work
<1> HIDE DEF w
<1>4. work'[c] = w /\ work' \in [Cafe -> Work] /\ \A d \in Cafe \ {c} : work'[d] = work[d]
  BY <1>2, <1>3 DEF IInv, TypeOK
<1>5. \A j \in work[c].done : Settled(j)'
  BY <1>2, QuietSettled, Done DEF IInv, WorkInv, WorkOK, queue, peer
<1>6. Uploads(c, work[c])'
  <2> SUFFICES ASSUME NEW j \in work[c].group, \A k \in work[c].group : j <= k
               PROVE  /\ request[j].kind = "thread" /\ request[j].version <= head[u]
                      /\ backup[c][request[j].target] <= head[u] /\ head[u] <= head[request[j].target]
    BY <1>2, <1>3, <1>4 DEF Uploads, queue, peer, cafes
  <2>1. i \in Nat /\ j \in Nat /\ i <= j /\ j <= i
    BY <1>2, Done DEF Id
  <2>2. i = j
    BY <2>1
  <2>3. head[u] \in Nat /\ request[i].version <= head[u] /\ backup[c][u] <= head[u]
    BY <1>1, <1>2, Done, Types DEF IInv, RequestsOK, BackupsOK
  <2> QED BY <1>1, <1>2, <2>2, <2>3
<1>7. WorkOK(c, work[c])'
  BY <1>2, <1>3, <1>4, <1>5, <1>6, Done DEF WorkOK, queue
<1> QED BY <1>2, <1>4, <1>7, QuietStep, Done
-----------------------------------------------------------------------------
(* Callers, sessions and threads *)

SameWork(v, w) == /\ v.todo = w.todo /\ v.group = w.group /\ v.done = w.done
                  /\ v.pc = w.pc /\ v.snap = w.snap

\* What has to be checked of a step that adds or deletes rows, moves a HEAD or
\* changes a session.
LEMMA PeerStep ==
  ASSUME IInv, TypeOK', RequestsOK', AddingOK',
         \A c \in Cafe : SameWork(work'[c], work[c]),
         UNCHANGED <<cafes, toDelete, refused>>, added <= added',
         \A i \in 1..added : request'[i] = request[i],
         \A t \in Thread : head[t] <= head'[t],
         removed \subseteq removed', dropped \subseteq dropped',
         \A i \in 1..added' : i \in table' \/ (i \in 1..added /\ (i \notin table \/ Settled(i)'))
  PROVE  IInv'
<1> USE DEF cafes
<1>0. added \in Nat /\ added' \in Nat /\ 1..added \subseteq 1..added'
  BY Types DEF IInv, TypeOK
<1>1. \A c \in Cafe, t \in Thread : backup'[c][t] \in Nat /\ backup[c][t] <= backup'[c][t]
  BY OutboxConstants DEF IInv, TypeOK, Head
<1>2. \A i \in 1..added : Settled(i) => Settled(i)'
  BY <1>0, <1>1, SettledStays
<1>3. \A t \in Thread : head[t] \in Nat /\ head'[t] \in Nat /\ head[t] <= head'[t]
  BY OutboxConstants DEF IInv, TypeOK, Head
<1>4. BackupsOK'
  BY <1>1, <1>3 DEF IInv, BackupsOK
<1>5. ASSUME NEW c \in Cafe PROVE WorkOK(c, work[c])'
  <2>1. WorkOK(c, work[c]) /\ SameWork(work'[c], work[c]) /\ work[c] \in Work
    BY DEF IInv, WorkInv, TypeOK
  <2>2. \A i \in work[c].todo \cup work[c].group : i \in 1..added /\ request'[i].cafe = c
    BY <2>1 DEF WorkOK
  <2>3. \A i \in work[c].done : Settled(i)'
    BY <1>2, <2>1 DEF WorkOK
  <2>4. ASSUME work[c].pc = "upload", NEW i \in work[c].group, \A j \in work[c].group : i <= j
        PROVE  /\ request'[i].kind = "thread" /\ request'[i].version <= work[c].snap
               /\ backup'[c][request'[i].target] <= work[c].snap
               /\ work[c].snap <= head'[request'[i].target]
    <3>1. /\ request[i].kind = "thread" /\ request[i].version <= work[c].snap
          /\ backup[c][request[i].target] <= work[c].snap
          /\ work[c].snap <= head[request[i].target]
      BY <2>1, <2>4 DEF WorkOK, Uploads
    <3>2. request'[i] = request[i] /\ request[i].target \in Thread
      BY <2>2, <3>1 DEF IInv, RequestsOK
    <3>3. work[c].snap \in Nat
      BY <2>1, OutboxConstants DEF Work, Head
    <3> QED BY <1>3, <3>1, <3>2, <3>3
  <2>5. Uploads(c, work[c])'
    BY <2>1, <2>4 DEF SameWork, Uploads
  <2> QED BY <1>0, <2>1, <2>2, <2>3, <2>5 DEF WorkOK, SameWork
<1>6. ToDeleteSettled'
  BY <1>2 DEF IInv, ToDeleteSettled, TypeOK
<1>7. NothingForgotten'
  <2> SUFFICES ASSUME NEW i \in 1..added', i \notin table' PROVE Settled(i)'
    BY DEF NothingForgotten, Settled
  <2>1. i \in 1..added /\ (i \notin table \/ Settled(i)')
    OBVIOUS
  <2>2. i \notin table => Settled(i)
    BY <2>1 DEF IInv, NothingForgotten, Settled
  <2> QED BY <1>2, <2>1, <2>2
<1> QED BY <1>4, <1>5, <1>6, <1>7 DEF IInv, WorkInv

\* A step that leaves the requests alone.
LEMMA SameRequests ==
  ASSUME IInv, UNCHANGED <<added, request>>, \A t \in Thread : head[t] <= head'[t], head' \in [Thread -> Head]
  PROVE  RequestsOK' /\ (adding' = adding => AddingOK')
<1>1. \A t \in Thread : head[t] \in Nat /\ head'[t] \in Nat /\ head[t] <= head'[t]
  BY OutboxConstants DEF IInv, TypeOK, Head
<1>2. RequestsOK'
  <2> SUFFICES ASSUME NEW i \in 1..added, request[i].kind = "thread"
               PROVE  request[i].version <= head'[request[i].target]
    BY DEF IInv, RequestsOK
  <2>1. request[i].target \in Thread /\ request[i].version <= head[request[i].target]
        /\ request[i].version \in Nat
    BY Types, OutboxConstants DEF IInv, RequestsOK, TypeOK, Request, Head
  <2> QED BY <1>1, <2>1
<1>3. ASSUME adding' = adding PROVE AddingOK'
  <2> SUFFICES ASSUME NEW a \in Adder, adding[a].kind = "thread"
               PROVE  adding[a].version <= head'[adding[a].target]
    BY <1>3 DEF IInv, AddingOK
  <2>1. adding[a].target \in Thread /\ adding[a].version <= head[adding[a].target]
        /\ adding[a].version \in Nat
    BY OutboxConstants DEF IInv, AddingOK, TypeOK, Adding, Head
  <2> QED BY <1>1, <2>1
<1> QED BY <1>2, <1>3

\* A step of a caller, whose next record is right for the HEADs there are now.
LEMMA CallerStep ==
  ASSUME IInv, NEW a \in Adder, NEW x \in Adding, adding' = [adding EXCEPT ![a] = x],
         UNCHANGED <<queue, session, leaving, removed, flush, cafes, refused, dropped, stuck, faults>>,
         head' \in [Thread -> Head], \A t \in Thread : head[t] <= head'[t],
         x.kind = "thread" => x.target \in Thread /\ x.version <= head'[x.target] /\ x.inboxes = {},
         x.kind # "thread" /\ x.pc # "idle" => x.target \in Content
  PROVE  IInv'
<1> USE DEF queue, flush, cafes
<1>1. adding' \in [Adder -> Adding] /\ adding'[a] = x /\ \A b \in Adder \ {a} : adding'[b] = adding[b]
  BY DEF IInv, TypeOK
<1>2. TypeOK'
  BY <1>1 DEF IInv, TypeOK
<1>3. RequestsOK'
  BY SameRequests
<1>4. AddingOK'
  <2> SUFFICES ASSUME NEW b \in Adder, b # a
               PROVE /\ adding[b].kind = "thread" => /\ adding[b].target \in Thread
                                                     /\ adding[b].version <= head'[adding[b].target]
                                                     /\ adding[b].inboxes = {}
                     /\ adding[b].kind # "thread" /\ adding[b].pc # "idle" => adding[b].target \in Content
    BY <1>1 DEF AddingOK
  <2>1. adding[b] \in Adding
    BY DEF IInv, TypeOK
  <2>2. adding[b].version \in Nat /\ \A t \in Thread : head[t] \in Nat /\ head'[t] \in Nat
    BY <2>1, OutboxConstants DEF Adding, Head, IInv, TypeOK
  <2> QED BY <2>2 DEF IInv, AddingOK
<1>5. added \in Nat /\ \A c \in Cafe : SameWork(work'[c], work[c])
  BY Types DEF IInv, SameWork
<1> QED BY <1>2, <1>3, <1>4, <1>5, PeerStep

LEMMA HeadsStay == IInv /\ head' = head => head' \in [Thread -> Head] /\ \A t \in Thread : head[t] <= head'[t]
BY OutboxConstants DEF IInv, TypeOK, Head

LEMMA StoreInv == ASSUME IInv, NEW a \in Adder, NEW x \in Content, Store(a, x) PROVE IInv'
<1> DEFINE y == [Idle EXCEPT !.pc = "list", !.target = x]
<1>1. /\ adding' = [adding EXCEPT ![a] = y] /\ head' = head
      /\ UNCHANGED <<queue, session, leaving, removed, flush, cafes, refused, dropped, stuck, faults>>
  BY DEF Store, Begin, peer
<1>2. y \in Adding /\ y.kind = "store" /\ y.target = x
  <2>1. 0 \in Head
    BY OutboxConstants DEF Head
  <2> QED BY <2>1, OutboxConstants DEF Idle, Adding
<1> HIDE DEF y
<1> QED BY <1>1, <1>2, HeadsStay, CallerStep

LEMMA InboxRequestInv ==
  ASSUME IInv, NEW a \in Adder, NEW x \in Content, NEW f \in Friend, InboxRequest(a, x, f) PROVE IInv'
<1> DEFINE y == [Idle EXCEPT !.pc = "list", !.target = x, !.inboxes = Inboxes[f]]
<1>1. /\ adding' = [adding EXCEPT ![a] = y] /\ head' = head
      /\ UNCHANGED <<queue, session, leaving, removed, flush, cafes, refused, dropped, stuck, faults>>
  BY DEF InboxRequest, Begin, peer
<1>2. y \in Adding /\ y.kind = "store" /\ y.target = x
  <2>1. 0 \in Head
    BY OutboxConstants DEF Head
  <2> QED BY <2>1, OutboxConstants DEF Idle, Adding
<1> HIDE DEF y
<1> QED BY <1>1, <1>2, HeadsStay, CallerStep

LEMMA UpdateHeadInv == ASSUME IInv, NEW a \in Adder, NEW t \in Thread, UpdateHead(a, t) PROVE IInv'
<1> DEFINE y == [Idle EXCEPT !.pc = "list", !.kind = "thread", !.target = t, !.version = head[t] + 1]
<1>1. /\ adding' = [adding EXCEPT ![a] = y] /\ head' = [head EXCEPT ![t] = @ + 1] /\ head[t] < MaxHeads
      /\ UNCHANGED <<queue, session, leaving, removed, flush, cafes, refused, dropped, stuck, faults>>
  BY DEF UpdateHead, Begin
<1>2. head \in [Thread -> Head] /\ head[t] + 1 \in Head /\ \A u \in Thread : head[u] \in Nat
  BY <1>1, OutboxConstants DEF IInv, TypeOK, Head
<1>3. head' \in [Thread -> Head] /\ head'[t] = head[t] + 1 /\ \A u \in Thread : head[u] <= head'[u]
  BY <1>1, <1>2
<1>4. y \in Adding /\ y.kind = "thread" /\ y.target = t /\ y.version = head[t] + 1 /\ y.inboxes = {}
  BY <1>2 DEF Idle, Adding
<1>5. y.version <= head'[t]
  BY <1>2, <1>3, <1>4
<1> HIDE DEF y
<1> QED BY <1>1, <1>3, <1>4, <1>5, CallerStep

LEMMA LeftFacts ==
  ASSUME NEW x \in Adding
  PROVE  /\ Left(x) \in Adding
         /\ Left(x).kind = "thread" => x.kind = "thread" /\ Left(x).target = x.target
                                       /\ Left(x).version = x.version /\ Left(x).inboxes = x.inboxes
         /\ Left(x).kind # "thread" /\ Left(x).pc # "idle" => x.kind # "thread" /\ x.pc # "idle"
                                                               /\ Left(x).target = x.target
BY Types DEF Left, Idle, Adding

LEMMA ListSessionsInv == ASSUME IInv, NEW a \in Adder, ListSessions(a) PROVE IInv'
<1> DEFINE y == [adding[a] EXCEPT !.pc = "add", !.own = {c \in Cafe : session[c] # "none"}]
<1>1. /\ adding' = [adding EXCEPT ![a] = Left(y)] /\ head' = head /\ adding[a].pc = "list"
      /\ UNCHANGED <<queue, session, leaving, removed, flush, cafes, refused, dropped, stuck, faults>>
  BY DEF ListSessions, peer
<1>2. adding[a] \in Adding
  BY DEF IInv, TypeOK
<1>3. y \in Adding /\ y.kind = adding[a].kind /\ y.target = adding[a].target
      /\ y.version = adding[a].version /\ y.inboxes = adding[a].inboxes
  BY <1>2 DEF Adding
<1> HIDE DEF y
<1>4. /\ Left(y) \in Adding
      /\ Left(y).kind = "thread" => /\ Left(y).target \in Thread /\ Left(y).inboxes = {}
                                     /\ Left(y).version <= head'[Left(y).target]
      /\ Left(y).kind # "thread" /\ Left(y).pc # "idle" => Left(y).target \in Content
  BY <1>1, <1>3, LeftFacts DEF IInv, AddingOK
<1> QED BY <1>1, <1>4, HeadsStay, CallerStep

\* A new row asks for what its caller asked for.
LEMMA AddRowInv == ASSUME IInv, NEW a \in Adder, NEW c \in Cafe, AddRow(a, c) PROVE IInv'
<1> DEFINE x == adding[a]
           own == c \in x.own
           y == IF own THEN [x EXCEPT !.own = @ \ {c}] ELSE [x EXCEPT !.inboxes = @ \ {c}]
           r == [kind |-> IF own THEN x.kind ELSE "inbox", target |-> x.target, cafe |-> c,
                 version |-> x.version]
<1>1. /\ x.pc = "add" /\ added < MaxRequests
      /\ added' = added + 1 /\ table' = table \cup {added + 1}
      /\ request' = [request EXCEPT ![added + 1] = r]
      /\ adding' = [adding EXCEPT ![a] = Left(y)]
      /\ UNCHANGED <<peer, flush, cafes, refused, dropped, stuck, faults>>
      /\ own \/ (x.own = {} /\ c \in x.inboxes)
  BY DEF AddRow
<1>2. x \in Adding /\ added \in Nat /\ added + 1 \in Id /\ added + 1 \notin 1..added
      /\ request \in [Id -> Request] /\ adding \in [Adder -> Adding] /\ 1..added \subseteq Id
  BY <1>1, Types, OutboxConstants DEF IInv, TypeOK, Id
<1>3. /\ r \in Request /\ y \in Adding /\ r.cafe = c /\ r.target = x.target /\ r.version = x.version
      /\ y.kind = x.kind /\ y.pc = x.pc /\ y.target = x.target /\ y.version = x.version
      /\ (x.inboxes = {} => y.inboxes = {})
      /\ r.kind = "thread" => x.kind = "thread"
  BY <1>2 DEF Request, Adding
<1> HIDE DEF r, y
<1>4. request' \in [Id -> Request] /\ request'[added + 1] = r
      /\ \A i \in 1..added : request'[i] = request[i]
  BY <1>1, <1>2, <1>3
<1>5. adding' \in [Adder -> Adding] /\ adding'[a] = Left(y) /\ \A b \in Adder \ {a} : adding'[b] = adding[b]
  BY <1>1, <1>2, <1>3, LeftFacts
<1>6. 1..added' = 1..added \cup {added + 1} /\ added' \in 0..MaxRequests /\ added <= added'
  BY <1>1, <1>2, OutboxConstants
<1>7. TypeOK'
  BY <1>1, <1>4, <1>5, <1>6 DEF IInv, TypeOK, peer, flush, cafes
<1>8. AddingOK'
  BY <1>1, <1>3, <1>5, LeftFacts DEF IInv, AddingOK, peer
<1>9. RequestsOK'
  <2>1. \A i \in 1..added : /\ request'[i].cafe \in Cafe
                            /\ request'[i].kind = "thread" => /\ request'[i].target \in Thread
                                                              /\ request'[i].version <= head[request'[i].target]
                            /\ request'[i].kind # "thread" => request'[i].target \in Content
    BY <1>4 DEF IInv, RequestsOK
  <2>2. /\ r.cafe \in Cafe
        /\ r.kind = "thread" => r.target \in Thread /\ r.version <= head[r.target]
    BY <1>3 DEF IInv, AddingOK
  <2>3. r.kind # "thread" => r.target \in Content
    <3>1. CASE own
      BY <1>1, <1>2, <3>1 DEF r, IInv, AddingOK, Adding
    <3>2. CASE ~own
      BY <1>1, <1>2, <3>2 DEF r, IInv, AddingOK, Adding
    <3> QED BY <3>1, <3>2
  <2> QED BY <1>1, <1>4, <1>6, <2>1, <2>2, <2>3 DEF RequestsOK, peer
<1>10. \A i \in 1..added' : i \in table' \/ (i \in 1..added /\ (i \notin table \/ Settled(i)'))
  BY <1>1, <1>6
<1> QED BY <1>1, <1>4, <1>6, <1>7, <1>8, <1>9, <1>10, HeadsStay, PeerStep DEF SameWork, peer, flush

LEMMA RegisterInv == ASSUME IInv, NEW c \in Cafe, Register(c) \/ DeleteSession(c) PROVE IInv'
<1>1. UNCHANGED <<queue, adding, head, removed, flush, cafes, refused, dropped, stuck, faults>>
  BY DEF Register, DeleteSession
<1>2. session' \in [Cafe -> {"none", "valid", "expired"}] /\ leaving' \subseteq Cafe
  BY DEF Register, DeleteSession, IInv, TypeOK
<1>3. TypeOK' /\ added' \in Nat /\ \A d \in Cafe : SameWork(work'[d], work[d])
  BY <1>1, <1>2, Types DEF IInv, TypeOK, SameWork, queue, flush, cafes
<1> QED BY <1>1, <1>3, HeadsStay, SameRequests, PeerStep DEF queue, flush, cafes

LEMMA DeregisterInv == ASSUME IInv, NEW c \in Cafe, Deregister(c) PROVE IInv'
<1> DEFINE gone == {i \in table : request[i].cafe = c}
<1>1. /\ UNCHANGED <<added, request, adding, session, head, removed, flush, cafes, refused, stuck>>
      /\ leaving' = leaving \cup {c} /\ table' = table \ gone /\ dropped' = dropped \cup gone
      /\ faults < MaxFaults /\ faults' = faults + 1 /\ gone \subseteq table
  BY DEF Deregister, Fault
<1> HIDE DEF gone
<1>2. faults' \in 0..MaxFaults
  BY <1>1, OutboxConstants DEF IInv, TypeOK
<1>3. TypeOK' /\ added' \in Nat /\ \A d \in Cafe : SameWork(work'[d], work[d])
  BY <1>1, <1>2, Types DEF IInv, TypeOK, SameWork, flush, cafes
<1>4. \A i \in 1..added' : i \in table' \/ (i \in 1..added /\ (i \notin table \/ Settled(i)'))
  <2> SUFFICES ASSUME NEW i \in 1..added, i \in gone PROVE Settled(i)'
    BY <1>1
  <2> QED BY <1>1 DEF Settled, Moot
<1> QED BY <1>1, <1>3, <1>4, HeadsStay, SameRequests, PeerStep DEF flush, cafes

LEMMA ExpireInv == ASSUME IInv, NEW c \in Cafe, Expire(c) PROVE IInv'
<1> DEFINE w == [work[c] EXCEPT !.stale = work[c].pc = "send"]
<1>1. /\ UNCHANGED <<queue, adding, leaving, head, removed, phase, page, next, toDelete, berr,
                     cafes, refused, dropped, stuck>>
      /\ session' = [session EXCEPT ![c] = "expired"]
      /\ work' = [work EXCEPT ![c].stale = work[c].pc = "send"]
      /\ faults < MaxFaults /\ faults' = faults + 1
  BY DEF Expire, Fault
<1>2. work[c] \in Work /\ work \in [Cafe -> Work]
  BY DEF IInv, TypeOK
<1>3. w \in Work /\ SameWork(w, work[c])
  BY <1>2, Zenon DEF Work, SameWork
<1>4. work' = [work EXCEPT ![c] = w]
  BY <1>1, <1>2
<1> HIDE DEF w
<1>5. work' \in [Cafe -> Work] /\ \A d \in Cafe : SameWork(work'[d], work[d])
  BY <1>2, <1>3, <1>4 DEF SameWork
<1>6. faults' \in 0..MaxFaults
  BY <1>1, OutboxConstants DEF IInv, TypeOK
<1>7. session' \in [Cafe -> {"none", "valid", "expired"}]
  BY <1>1 DEF IInv, TypeOK
<1>8. TypeOK' /\ added' \in Nat
  BY <1>1, <1>5, <1>6, <1>7, Types DEF IInv, TypeOK, queue, cafes
<1> QED BY <1>1, <1>5, <1>8, HeadsStay, SameRequests, PeerStep DEF queue, cafes

LEMMA RemoveThreadInv == ASSUME IInv, NEW t \in Thread, RemoveThread(t) PROVE IInv'
<1>1. /\ UNCHANGED <<queue, adding, session, leaving, head, flush, cafes, refused, dropped, stuck, faults>>
      /\ removed' = removed \cup {t}
  BY DEF RemoveThread
<1>2. TypeOK' /\ added' \in Nat /\ \A d \in Cafe : SameWork(work'[d], work[d])
  BY <1>1, Types DEF IInv, TypeOK, SameWork, queue, flush, cafes
<1> QED BY <1>1, <1>2, HeadsStay, SameRequests, PeerStep DEF queue, flush, cafes
-----------------------------------------------------------------------------
(* The flush *)

\* A row goes when its request is settled.
LEMMA DeleteInv == ASSUME IInv, NEW i \in Id, Delete(i) PROVE IInv'
<1>1. /\ UNCHANGED <<added, request, adding, peer, flush, cafes, refused, dropped, stuck, faults>>
      /\ table' = table \ {i} /\ i \in toDelete
  BY DEF Delete
<1>2. TypeOK' /\ added' \in Nat /\ \A d \in Cafe : SameWork(work'[d], work[d])
  BY <1>1, Types DEF IInv, TypeOK, SameWork, peer, flush, cafes
<1>3. Settled(i)'
  BY <1>1, QuietSettled DEF IInv, TypeOK, ToDeleteSettled, peer
<1>4. \A j \in 1..added' : j \in table' \/ (j \in 1..added /\ (j \notin table \/ Settled(j)'))
  BY <1>1, <1>3
<1> QED BY <1>1, <1>2, <1>4, HeadsStay, SameRequests, PeerStep DEF peer, flush, cafes

LEMMA ListedRows == ASSUME TypeOK, NEW ms PROVE List(ms) \subseteq 1..added
BY DEF TypeOK, List, Oldest

\* What has to be checked of a step that only moves the flush.
LEMMA FlushStep ==
  ASSUME IInv, UNCHANGED <<added, request, table, head, removed, cafes, refused, dropped>>,
         TypeOK', AddingOK', WorkInv', ToDeleteSettled'
  PROVE  IInv'
<1>1. \A i \in 1..added : Settled(i) => Settled(i)'
  BY QuietSettled
<1>2. RequestsOK'
  BY SameRequests, HeadsStay
<1>3. BackupsOK'
  BY DEF IInv, BackupsOK, cafes
<1>4. NothingForgotten'
  BY <1>1 DEF IInv, NothingForgotten, Settled
<1> QED BY <1>2, <1>3, <1>4 DEF IInv

LEMMA BatchFacts ==
  ASSUME IInv, NEW ms, ms \subseteq 1..added, Batch(ms), UNCHANGED <<added, request>>
  PROVE  /\ page' \subseteq 1..added /\ next' \subseteq 1..added /\ toDelete' = {}
         /\ berr' = FALSE /\ phase' \in {"idle", "handle", "delete"}
         /\ work' \in [Cafe -> Work] /\ WorkInv'
<1>1. /\ page' = ms /\ next' = {} /\ toDelete' = {} /\ berr' = FALSE
      /\ phase' \in {"idle", "handle", "delete"}
      /\ work' = [c \in Cafe |-> [NoWork EXCEPT !.todo = {i \in ms : request[i].cafe = c}]]
  BY DEF Batch, Groups
<1>2. ASSUME NEW c \in Cafe
      PROVE  work'[c] \in Work /\ WorkOK(c, work[c])'
  <2>1. work'[c] = [NoWork EXCEPT !.todo = {i \in ms : request[i].cafe = c}]
    BY <1>1
  <2>2. {i \in ms : request[i].cafe = c} \in SUBSET Id
    BY Types DEF IInv
  <2>3. /\ work'[c] \in Work /\ work'[c].todo = {i \in ms : request[i].cafe = c}
        /\ work'[c].group = {} /\ work'[c].done = {} /\ work'[c].pc = "pick"
    BY <2>1, <2>2, Types DEF Work, NoWork
  <2>4. WorkOK(c, work[c])'
    BY <2>3 DEF WorkOK, Uploads
  <2> QED BY <2>3, <2>4
<1>3. work' \in [Cafe -> Work]
  BY <1>1, <1>2
<1> QED BY <1>1, <1>2, <1>3 DEF WorkInv

LEMMA NewBatchInv == ASSUME IInv, Flush \/ Recurse PROVE IInv'
<1>1. PICK ms : Batch(ms) /\ ms \subseteq 1..added
  <2>1. next \subseteq 1..added /\ List({}) \subseteq 1..added
    BY ListedRows DEF IInv, TypeOK
  <2>2. CASE Flush
    BY <2>1, <2>2 DEF Flush
  <2>3. CASE Recurse
    BY <2>1, <2>3 DEF Recurse
  <2> QED BY <2>2, <2>3
<1>2. UNCHANGED <<queue, adding, peer, cafes, refused, dropped, stuck, faults>>
  BY DEF Flush, Recurse
<1>3. /\ page' \subseteq 1..added /\ next' \subseteq 1..added /\ toDelete' = {}
      /\ berr' = FALSE /\ phase' \in {"idle", "handle", "delete"}
      /\ work' \in [Cafe -> Work] /\ WorkInv'
  BY <1>1, <1>2, BatchFacts DEF queue
<1>4. TypeOK'
  BY <1>2, <1>3 DEF IInv, TypeOK, queue, peer, cafes
<1>5. AddingOK'
  BY <1>2, HeadsStay, SameRequests DEF queue, peer
<1>6. ToDeleteSettled'
  BY <1>3 DEF ToDeleteSettled
<1> QED BY <1>2, <1>3, <1>4, <1>5, <1>6, FlushStep DEF queue, peer

LEMMA HangInv == ASSUME IInv, Hang PROVE IInv'
<1>1. stuck' = TRUE /\ UNCHANGED <<queue, adding, peer, flush, cafes, refused, dropped, faults>>
  BY DEF Hang
<1>2. TypeOK' /\ added' \in Nat /\ \A d \in Cafe : SameWork(work'[d], work[d])
  BY <1>1, Types DEF IInv, TypeOK, SameWork, queue, peer, flush, cafes
<1> QED BY <1>1, <1>2, HeadsStay, SameRequests, PeerStep DEF queue, peer, flush, cafes

LEMMA CrashInv == ASSUME IInv, Crash PROVE IInv'
<1>1. /\ Batch({}) /\ UNCHANGED <<queue, session, head, removed, cafes, refused, dropped>>
      /\ adding' = [a \in Adder |-> Idle] /\ leaving' = {} /\ stuck' = FALSE
      /\ faults < MaxFaults /\ faults' = faults + 1 /\ {} \subseteq 1..added
  BY DEF Crash, Fault
<1>2. /\ page' \subseteq 1..added /\ next' \subseteq 1..added /\ toDelete' = {}
      /\ berr' = FALSE /\ phase' \in {"idle", "handle", "delete"}
      /\ work' \in [Cafe -> Work] /\ WorkInv'
  BY <1>1, BatchFacts DEF queue
<1>3. faults' \in 0..MaxFaults
  BY <1>1, OutboxConstants DEF IInv, TypeOK
<1>4. TypeOK'
  BY <1>1, <1>2, <1>3, Types DEF IInv, TypeOK, queue, cafes
<1>5. AddingOK'
  BY <1>1 DEF AddingOK, Idle
<1>6. ToDeleteSettled'
  BY <1>2 DEF ToDeleteSettled
<1> QED BY <1>1, <1>2, <1>4, <1>5, <1>6, FlushStep DEF queue

\* Whatever appends were lost, an id in the slice was handled.
LEMMA NextPageInv == ASSUME IInv, NextPage PROVE IInv'
<1>1. /\ UNCHANGED <<queue, adding, peer, page, work, berr, cafes, refused, dropped, stuck, faults>>
      /\ phase' = "delete" /\ next' = List(page)
  BY DEF NextPage
<1>2. \A i \in toDelete' : \E c \in Cafe : i \in work[c].done
  BY DEF NextPage, Appended
<1>3. \A c \in Cafe : work[c].done \subseteq 1..added /\ \A i \in work[c].done : Settled(i)
  BY DEF IInv, WorkInv, WorkOK
<1>4. \A i \in 1..added : Settled(i) => Settled(i)'
  BY <1>1, QuietSettled DEF queue, peer
<1>5. toDelete' \subseteq 1..added /\ ToDeleteSettled'
  BY <1>2, <1>3, <1>4 DEF ToDeleteSettled
<1>6. next' \subseteq 1..added
  BY <1>1, ListedRows DEF IInv
<1>7. TypeOK'
  BY <1>1, <1>5, <1>6 DEF IInv, TypeOK, queue, peer, cafes
<1>8. AddingOK'
  BY <1>1, HeadsStay, SameRequests DEF queue, peer
<1>9. WorkInv'
  <2> SUFFICES ASSUME NEW c \in Cafe PROVE WorkOK(c, work[c])'
    BY DEF WorkInv
  <2>1. WorkOK(c, work[c])
    BY DEF IInv, WorkInv
  <2>2. Uploads(c, work[c])'
    BY <1>1, <2>1 DEF WorkOK, Uploads, queue, peer, cafes
  <2> QED BY <1>1, <1>4, <2>1, <2>2 DEF WorkOK, queue
<1> QED BY <1>1, <1>5, <1>7, <1>8, <1>9, FlushStep DEF queue, peer
-----------------------------------------------------------------------------
LEMMA InitInv == Init => IInv
<1> SUFFICES ASSUME Init PROVE IInv
  OBVIOUS
<1>1. NoRequest \in Request /\ 0 \in Head
  BY OutboxConstants DEF NoRequest, Request, Head
<1>2. TypeOK
  <2>1. added = 0 /\ table = {} /\ 0 \in 0..MaxRequests /\ 0 \in 0..MaxFaults
    BY OutboxConstants DEF Init
  <2>2. session \in [Cafe -> {"none", "valid", "expired"}] /\ leaving \subseteq Cafe
    BY DEF Init
  <2>3. /\ request \in [Id -> Request] /\ adding \in [Adder -> Adding] /\ work \in [Cafe -> Work]
        /\ head \in [Thread -> Head]
    BY <1>1, Types DEF Init
  <2>4. /\ backup \in [Cafe -> [Thread -> Head]] /\ pinned \in [Cafe -> SUBSET Content]
        /\ mailbox \in [Cafe -> SUBSET Content]
    BY <1>1 DEF Init
  <2> QED BY <2>1, <2>2, <2>3, <2>4 DEF Init, TypeOK
<1>3. added = 0 /\ 1..added = {} /\ toDelete = {}
  BY DEF Init
<1>4. RequestsOK /\ NothingForgotten /\ ToDeleteSettled
  BY <1>3 DEF RequestsOK, NothingForgotten, ToDeleteSettled
<1>5. AddingOK
  BY DEF Init, AddingOK, Idle
<1>6. BackupsOK
  BY DEF Init, BackupsOK
<1>7. WorkInv
  BY <1>3, Types DEF Init, WorkInv, WorkOK, Uploads
<1> QED BY <1>2, <1>4, <1>5, <1>6, <1>7 DEF IInv

LEMMA HandlingInv == ASSUME IInv, NEW c \in Cafe, Handle(c) \/ StoreFails(c) PROVE IInv'
<1>1. CASE Ask(c) \/ AskRefused(c) \/ StoreFails(c)
  BY <1>1, AskInv, AskRefusedInv, StoreFailsInv
<1>2. CASE \E x \in Content : Send(c, x) \/ SendRefused(c, x)
  BY <1>2, SendInv, SendRefusedInv
<1>3. CASE \E kind \in {"thread", "inbox"} : Pick(c, kind)
  BY <1>3, PickInv
<1>4. ASSUME NEW i \in Id, ThreadGone(c, i) \/ ReadThread(c, i) PROVE IInv'
  BY <1>4, ThreadGoneInv, ReadThreadInv
<1>5. ASSUME NEW i \in Id, Upload(c, i) \/ UploadRefused(c, i) \/ UploadFails(c, i) PROVE IInv'
  BY <1>5, UploadInv, UploadRefusedInv, UploadFailsInv
<1>6. ASSUME NEW i \in Id, Deliver(c, i) \/ DeliverIgnored(c, i) \/ DeliverFails(c, i) PROVE IInv'
  BY <1>6, DeliverInv, DeliverIgnoredInv, DeliverFailsInv
<1> QED BY <1>1, <1>2, <1>3, <1>4, <1>5, <1>6 DEF Handle

LEMMA CallingInv == ASSUME IInv, NEW a \in Adder, Enqueue(a) \/ Adds(a) PROVE IInv'
<1>1. CASE \E x \in Content : Store(a, x) \/ \E f \in Friend : InboxRequest(a, x, f)
  BY <1>1, StoreInv, InboxRequestInv
<1>2. CASE \E t \in Thread : UpdateHead(a, t)
  BY <1>2, UpdateHeadInv
<1>3. CASE ListSessions(a) \/ \E c \in Cafe : AddRow(a, c)
  BY <1>3, ListSessionsInv, AddRowInv
<1> QED BY <1>1, <1>2, <1>3 DEF Enqueue, Adds

LEMMA StutterInv == IInv /\ UNCHANGED vars => IInv'
<1> SUFFICES ASSUME IInv, UNCHANGED vars PROVE IInv'
  OBVIOUS
<1> USE DEF vars, queue, peer, flush, cafes
<1>1. TypeOK' /\ added' \in Nat /\ \A d \in Cafe : SameWork(work'[d], work[d])
  BY Types DEF IInv, TypeOK, SameWork
<1> QED BY <1>1, HeadsStay, SameRequests, PeerStep

LEMMA NextInv == IInv /\ [Next]_vars => IInv'
<1> SUFFICES ASSUME IInv, [Next]_vars PROVE IInv'
  OBVIOUS
<1>1. CASE \E a \in Adder : Enqueue(a) \/ Adds(a)
  BY <1>1, CallingInv
<1>2. CASE Flush \/ Flushing
  BY <1>2, NewBatchInv, NextPageInv, DeleteInv DEF Flushing
<1>3. CASE \E c \in Cafe : Handle(c) \/ StoreFails(c)
  BY <1>3, HandlingInv
<1>4. CASE \E c \in Cafe : Register(c) \/ Deregister(c) \/ DeleteSession(c) \/ Expire(c)
  BY <1>4, RegisterInv, DeregisterInv, ExpireInv
<1>5. CASE \E t \in Thread : RemoveThread(t)
  BY <1>5, RemoveThreadInv
<1>6. CASE Hang \/ Crash
  BY <1>6, HangInv, CrashInv
<1>7. CASE UNCHANGED vars
  BY <1>7, StutterInv
<1> QED BY <1>1, <1>2, <1>3, <1>4, <1>5, <1>6, <1>7 DEF Next

LEMMA Invariant == Spec => []IInv
BY InitInv, NextInv, PTL DEF Spec

\* The table, the goroutines and what the cafes hold keep their types.
THEOREM TypeCorrect == Spec => []TypeOK
<1>1. IInv => TypeOK
  BY DEF IInv
<1> QED BY <1>1, Invariant, PTL

\* A request leaves the table of cafe_requests only when its cafe has what it is
\* about, or refused it, or nothing is left to do: whatever failed, expired or was
\* cut off, handle and batch of the cafe outbox forget no other request.
THEOREM RequestsOutliveFailures == Spec => []NothingForgotten
<1>1. IInv => NothingForgotten
  BY DEF IInv
<1> QED BY <1>1, Invariant, PTL
=============================================================================

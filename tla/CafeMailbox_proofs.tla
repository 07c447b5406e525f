------------------------- MODULE CafeMailbox_proofs -------------------------
(***************************************************************************)
(* No saved message disappears before it was handled or its downloads      *)
(* failed too often, and what the cafe deletes is the page the client has  *)
(* saved unless another check or a delivery took a place in that page: for *)
(* any number of messages, checks and goroutines, any page sizes, any      *)
(* failures and any number of restarts.                                    *)
(***************************************************************************)
EXTENDS CafeMailbox, FiniteSetTheorems, WellFoundedInduction, TLAPS

\* Every delivery is of a new message or one of the bounded repetitions.
ClockOK == clock <= Cardinality(delivered) + MaxRedeliveries

DatesOK == \A m \in Msg : mailbox[m] <= clock

\* A check has saved what it no longer has to; its page is the one the cafe would
\* delete now, unless another check or a delivery took a place in it.
CheckOK(c) ==
  /\ c.todo \subseteq Rows(c.page)
  /\ c.pc = "delete" => c.todo = {}
  /\ c.pc \in {"add", "delete"} => Rows(c.page) \ c.todo \subseteq fetched
  /\ c.pc \in {"add", "delete"} /\ ~c.raced => Rows(c.page) = DeletedPage(mailbox)

\* A row is deleted once it was handled; a goroutine has seen no more attempts than
\* downloads failed.
HandleOK(h) ==
  /\ h.pc # "idle" => h.msg \in Msg
  /\ h.pc = "delete" => h.msg \in handled
  /\ h.pc = "handle" => h.attempts <= downloads[h.msg]

ChecksOK == \A k \in Checker : CheckOK(checker[k])
HandlersOK == \A h \in Handler : HandleOK(handler[h])
AttemptsOK == \A m \in Msg : attempts[m] <= downloads[m]

\* The inductive invariant.
IInv == /\ TypeOK /\ ClockOK /\ DatesOK /\ ChecksOK /\ HandlersOK /\ AttemptsOK
        /\ FetchedKept /\ GivenUpTried
-----------------------------------------------------------------------------
LEMMA Types ==
  /\ NoCheck \in Check /\ NoFlush \in Flush /\ NoHandle \in Handle /\ 0 \in Date
  /\ NoCheck.todo = {} /\ NoCheck.pc = "idle" /\ NoHandle.pc = "idle"
  /\ Cardinality(Msg) \in Nat
<1>1. Cardinality(Msg) \in Nat
  BY MailboxConstants, FS_CardinalityType
<1>2. 0 \in Date
  BY <1>1, MailboxConstants DEF Date
<1>3. NoCheck \in Check
  BY <1>2 DEF NoCheck, Check
<1>4. NoFlush \in Flush /\ NoHandle \in Handle
  BY DEF NoFlush, Flush, NoHandle, Handle
<1> QED BY <1>1, <1>2, <1>3, <1>4 DEF NoCheck, NoHandle

LEMMA NoCheckOK == CheckOK(NoCheck)
BY DEF CheckOK, NoCheck, Rows

LEMMA NoHandleOK == HandleOK(NoHandle)
BY DEF HandleOK, NoHandle

LEMMA DateType == \A d \in Date : d \in Nat
BY Types, MailboxConstants DEF Date

\* A set of rows has a latest one.
LEMMA Latest ==
  ASSUME TypeOK, NEW S \in SUBSET Msg, S # {}
  PROVE  \E m \in S : \A x \in S : inbox[x] <= inbox[m]
<1> DEFINE top == Cardinality(Msg) + MaxRedeliveries
           T == {top - inbox[m] : m \in S}
           less == {ss \in Nat \X Nat : ss[1] < ss[2]}
<1>1. \A m \in S : inbox[m] \in Nat /\ top - inbox[m] \in Nat
  BY Types, MailboxConstants DEF TypeOK, Date
<1>2. PICK d \in T : \A e \in T : <<e, d>> \notin less
  <2>1. T \subseteq Nat /\ T # {}
    BY <1>1
  <2>2. IsWellFoundedOn(less, Nat)
    BY NatLessThanWellFounded, Zenon DEF OpToRel
  <2> HIDE DEF T, less
  <2> QED BY <2>1, <2>2, WFMin
<1>3. PICK m \in S : d = top - inbox[m]
  BY <1>2
<1>4. ASSUME NEW x \in S PROVE inbox[x] <= inbox[m]
  <2>1. ~(top - inbox[x] < top - inbox[m])
    BY <1>1, <1>2, <1>3
  <2> QED BY <2>1, <1>1, Types, MailboxConstants
<1> QED BY <1>4

\* What has to be checked of a step of the checks that leaves the inbox's
\* goroutines and the counts of downloads alone.
LEMMA CheckStep ==
  ASSUME IInv, TypeOK', ClockOK', DatesOK', ChecksOK', AttemptsOK',
         UNCHANGED <<handler, handled, gaveUp, downloads>>,
         \A m \in fetched' : m \in fetched \/ inbox'[m] # 0,
         \A m \in Msg : inbox[m] # 0 => inbox'[m] # 0
  PROVE  IInv'
<1>1. HandlersOK'
  BY DEF IInv, HandlersOK, HandleOK
<1>2. GivenUpTried'
  BY DEF IInv, GivenUpTried
<1>3. FetchedKept'
  BY DEF IInv, FetchedKept, TypeOK
<1> QED BY <1>1, <1>2, <1>3 DEF IInv

\* The same of a step of the goroutines that handle messages.
LEMMA HandlerStep ==
  ASSUME IInv, TypeOK', UNCHANGED <<mailbox, clock, delivered, fetched, checker>>,
         HandlersOK', AttemptsOK', FetchedKept', GivenUpTried'
  PROVE  IInv'
<1>1. ChecksOK'
  BY DEF IInv, ChecksOK, CheckOK, DeletedPage, Oldest, Rows
<1>2. ClockOK' /\ DatesOK'
  BY DEF IInv, ClockOK, DatesOK
<1> QED BY <1>1, <1>2 DEF IInv

\* A check stays right when another step leaves it and the mailbox alone, or
\* marks it as raced.
LEMMA OtherOK ==
  ASSUME IInv, NEW j \in Checker, checker'[j] = checker[j], mailbox' = mailbox,
         fetched \subseteq fetched'
  PROVE  checker'[j] \in Check /\ CheckOK(checker[j])'
<1>1. checker[j] \in Check /\ CheckOK(checker[j])
  BY DEF IInv, TypeOK, ChecksOK
<1> QED BY <1>1 DEF CheckOK, DeletedPage, Oldest, Rows

LEMMA RacedOK ==
  ASSUME IInv, NEW js, NEW j \in Checker, checker'[j] = Raced(js)[j],
         \/ j \in js \/ checker[j].raced \/ checker[j].pc \notin {"add", "delete"}
         \/ DeletedPage(mailbox') = DeletedPage(mailbox),
         fetched' = fetched
  PROVE  checker'[j] \in Check /\ CheckOK(checker[j])'
<1>1. checker[j] \in Check /\ CheckOK(checker[j])
  BY DEF IInv, TypeOK, ChecksOK
<1>2. CASE j \in js /\ checker[j].pc \in {"add", "delete"}
  <2>1. checker'[j] = [checker[j] EXCEPT !.raced = TRUE]
    BY <1>2 DEF Raced
  <2>2. /\ checker'[j] \in Check /\ checker'[j].raced
        /\ checker'[j].pc = checker[j].pc /\ checker'[j].page = checker[j].page
        /\ checker'[j].todo = checker[j].todo
    BY <1>1, <2>1 DEF Check
  <2> QED BY <1>1, <2>2 DEF CheckOK, Rows
<1>3. CASE ~(j \in js /\ checker[j].pc \in {"add", "delete"})
  <2>1. checker'[j] = checker[j]
    BY <1>3 DEF Raced
  <2> QED BY <1>1, <1>3, <2>1 DEF CheckOK, Rows
<1> QED BY <1>2, <1>3

\* A message that is the latest does not come between the rows of a full page,
\* nor does its old row leave it.
LEMMA FullPage ==
  ASSUME NEW box \in [Msg -> Nat], NEW m \in Msg, NEW d \in Nat, \A x \in Msg : box[x] < d,
         m \notin DeletedPage(box), PageSize <= Cardinality(DeletedPage(box))
  PROVE  DeletedPage([box EXCEPT ![m] = d]) = DeletedPage(box)
<1> DEFINE box2 == [box EXCEPT ![m] = d]
           page == DeletedPage(box)
           upto(x) == {y \in Rows(box) : box[y] <= box[x]}
           upto2(x) == {y \in Rows(box2) : box2[y] <= box2[x]}
<1>1. /\ box2[m] = d /\ \A x \in Msg \ {m} : box2[x] = box[x]
      /\ box[m] < d /\ d # 0 /\ \A x \in Msg : box[x] \in Nat /\ box[x] < d
  OBVIOUS
<1>2. Rows(box2) = Rows(box) \cup {m} /\ Rows(box) \subseteq Msg
  BY <1>1 DEF Rows
<1>3. /\ \A x : x \in page <=> x \in Rows(box) /\ Cardinality(upto(x)) <= PageSize
      /\ \A x : x \in DeletedPage(box2) <=> x \in Rows(box2) /\ Cardinality(upto2(x)) <= PageSize
  BY DEF DeletedPage, Oldest
<1> HIDE DEF box2
<1>4. /\ \A S \in SUBSET Msg : IsFiniteSet(S) /\ Cardinality(S) \in Nat
      /\ \A T \in SUBSET Msg : \A S \in SUBSET T : Cardinality(S) <= Cardinality(T)
  BY MailboxConstants, FS_Subset, FS_CardinalityType
<1>5. /\ page \subseteq Msg /\ m \notin page /\ PageSize <= Cardinality(page)
      /\ \A x : upto(x) \subseteq Msg /\ upto2(x) \subseteq Msg
  BY <1>2, <1>3
<1> HIDE DEF page
<1>6. ASSUME NEW x \in page PROVE x \in DeletedPage(box2)
  <2>1. upto2(x) \subseteq upto(x)
    <3> SUFFICES ASSUME NEW y \in upto2(x) PROVE y \in upto(x)
      OBVIOUS
    <3>1. x \in Rows(box) /\ x \in Msg /\ x # m
      BY <1>3, <1>5, <1>6
    <3>2. y # m
      BY <1>1, <3>1
    <3> QED BY <1>1, <1>2, <3>1, <3>2
  <2>2. Cardinality(upto2(x)) <= Cardinality(upto(x))
    BY <1>4, <1>5, <2>1
  <2>3. /\ Cardinality(upto(x)) <= PageSize /\ x \in Rows(box2)
        /\ Cardinality(upto(x)) \in Nat /\ Cardinality(upto2(x)) \in Nat
    BY <1>2, <1>3, <1>4, <1>5, <1>6
  <2>4. \A a, b \in Nat : a <= b /\ b <= PageSize => a <= PageSize
    BY MailboxConstants
  <2>5. Cardinality(upto2(x)) <= PageSize
    BY <2>2, <2>3, <2>4
  <2> QED BY <1>3, <2>3, <2>5
<1>7. ASSUME NEW x \in Rows(box2), x \notin page PROVE x \notin DeletedPage(box2)
  <2>1. ASSUME NEW y \in page PROVE box2[y] <= box2[x] /\ y \in Rows(box2)
    <3>1. y \in Rows(box) /\ y \in Msg /\ y # m /\ Cardinality(upto(y)) <= PageSize
      BY <1>3, <1>5, <2>1
    <3>2. CASE x = m
      BY <1>1, <1>2, <3>1, <3>2
    <3>3. CASE x # m
      <4>1. x \in Rows(box) /\ x \in Msg /\ ~(Cardinality(upto(x)) <= PageSize)
        BY <1>2, <1>3, <1>7, <3>3
      <4>2. ~(Cardinality(upto(x)) <= Cardinality(upto(y)))
        BY <1>4, <1>5, <3>1, <4>1, MailboxConstants
      <4>3. ~(upto(x) \subseteq upto(y))
        BY <1>4, <1>5, <4>2
      <4>4. PICK z \in Rows(box) : box[z] <= box[x] /\ ~(box[z] <= box[y])
        BY <4>3
      <4> QED BY <1>1, <1>2, <3>1, <3>3, <4>1, <4>4
    <3> QED BY <3>2, <3>3
  <2>2. box2[x] <= box2[x] /\ x \in Msg
    BY <1>1, <1>2
  <2>3. page \cup {x} \subseteq upto2(x)
    BY <2>1, <2>2
  <2>4. Cardinality(page \cup {x}) <= Cardinality(upto2(x))
    BY <1>4, <1>5, <2>3
  <2>5. Cardinality(page \cup {x}) = Cardinality(page) + 1
    BY <1>4, <1>5, <1>7, FS_AddElement
  <2>6. Cardinality(page) \in Nat /\ Cardinality(upto2(x)) \in Nat
    BY <1>4, <1>5
  <2> QED BY <1>3, <1>5, <2>4, <2>5, <2>6, MailboxConstants
<1>8. DeletedPage(box2) = page
  BY <1>3, <1>6, <1>7
<1> QED BY <1>8 DEF box2, page

\* A step of check k that leaves the inbox alone.
LEMMA OneCheck ==
  ASSUME IInv, NEW k \in Checker, checker' \in [Checker -> Check], checking' \in BOOLEAN,
         waiting' \in BOOLEAN, requestFailures' \in 0..MaxRequestFailures, pings' \in 0..clock,
         CheckOK(checker[k])',
         \A j \in Checker \ {k} : checker'[j] = checker[j], mailbox' = mailbox,
         UNCHANGED <<clock, inbox, attempts, flush, handler, history, stuck, handleFailures, crashes>>
  PROVE  IInv'
<1> USE DEF history
<1>1. TypeOK'
  BY DEF IInv, TypeOK
<1>2. ClockOK' /\ DatesOK' /\ AttemptsOK'
  BY DEF IInv, ClockOK, DatesOK, AttemptsOK
<1>3. ChecksOK'
  BY OtherOK DEF ChecksOK
<1> QED BY <1>1, <1>2, <1>3, CheckStep
-----------------------------------------------------------------------------
LEMMA DeliverInv == ASSUME IInv, NEW m \in Msg, Deliver(m) PROVE IInv'
<1>1. /\ clock \in Nat /\ MaxRedeliveries \in Nat /\ Cardinality(delivered) \in Nat
      /\ Cardinality(delivered') = Cardinality(delivered) + (IF m \in delivered THEN 0 ELSE 1)
      /\ Cardinality(delivered') <= Cardinality(Msg)
  <2>1. delivered \subseteq Msg /\ delivered' = delivered \cup {m} /\ clock \in Date
    BY DEF IInv, TypeOK, Deliver
  <2>2. IsFiniteSet(delivered) /\ Cardinality(delivered') <= Cardinality(Msg)
    BY <2>1, MailboxConstants, FS_Subset
  <2>3. Cardinality(delivered) \in Nat
    BY <2>2, FS_CardinalityType
  <2>4. Cardinality(delivered') = Cardinality(delivered) + (IF m \in delivered THEN 0 ELSE 1)
    <3>1. CASE m \in delivered
      <4>1. delivered' = delivered
        BY <2>1, <3>1
      <4> QED BY <4>1, <2>3, <3>1
    <3>2. CASE m \notin delivered
      <4>1. Cardinality(delivered \cup {m}) = Cardinality(delivered) + 1
        BY <2>2, <3>2, FS_AddElement
      <4> QED BY <2>1, <3>2, <4>1
    <3> QED BY <3>1, <3>2
  <2> QED BY <2>1, <2>2, <2>3, <2>4, MailboxConstants, DateType
<1>2. clock' = clock + 1 /\ clock' <= Cardinality(delivered') + MaxRedeliveries
  BY <1>1 DEF Deliver, IInv, ClockOK
<1>3. clock' \in Date /\ pings' \in 0..clock'
  BY <1>1, <1>2, Types DEF Deliver, IInv, TypeOK, Date
<1>4. mailbox' = [mailbox EXCEPT ![m] = clock'] /\ mailbox \in [Msg -> Nat]
      /\ clock \in Nat /\ clock' \in Nat /\ \A x \in Msg : mailbox[x] < clock'
  <2>1. mailbox \in [Msg -> Nat]
    BY DateType DEF IInv, TypeOK
  <2>2. \A x \in Msg : mailbox[x] \in Nat /\ mailbox[x] <= clock
    BY <2>1 DEF IInv, DatesOK
  <2> QED BY <1>1, <2>1, <2>2 DEF Deliver
<1>5. ASSUME NEW j \in Checker PROVE checker'[j] \in Check /\ CheckOK(checker[j])'
  <2> DEFINE js == {i \in Checker : Fits(i, m)}
  <2>1. checker'[j] = Raced(js)[j] /\ fetched' = fetched
    BY DEF Deliver
  <2>2. \/ j \in js \/ checker[j].raced \/ checker[j].pc \notin {"add", "delete"}
        \/ DeletedPage(mailbox') = DeletedPage(mailbox)
    <3> SUFFICES ASSUME ~Fits(j, m), ~checker[j].raced, checker[j].pc \in {"add", "delete"}
                 PROVE  DeletedPage(mailbox') = DeletedPage(mailbox)
      OBVIOUS
    <3>1. checker[j] \in Check /\ Rows(checker[j].page) = DeletedPage(mailbox)
      BY DEF IInv, TypeOK, ChecksOK, CheckOK
    <3>2. m \notin DeletedPage(mailbox) /\ ~(Cardinality(DeletedPage(mailbox)) < PageSize)
      BY <3>1 DEF Fits
    <3>3. Cardinality(DeletedPage(mailbox)) \in Nat
      BY MailboxConstants, FS_Subset, FS_CardinalityType DEF DeletedPage, Oldest, Rows
    <3>4. PageSize <= Cardinality(DeletedPage(mailbox))
      BY <3>2, <3>3, MailboxConstants
    <3> QED BY <1>4, <3>2, <3>4, FullPage
  <2> HIDE DEF js
  <2> QED BY <2>1, <2>2, RacedOK
<1>6. checker' \in [Checker -> Check]
  BY <1>5 DEF Deliver, Raced
<1>7. mailbox' \in [Msg -> Date]
  BY <1>3 DEF Deliver, IInv, TypeOK
<1>8. TypeOK'
  BY <1>2, <1>3, <1>6, <1>7 DEF IInv, TypeOK, Deliver, bounds
<1>9. DatesOK'
  BY <1>4 DEF DatesOK
<1>10. ClockOK' /\ AttemptsOK' /\ ChecksOK'
  BY <1>2, <1>5 DEF IInv, ClockOK, AttemptsOK, ChecksOK, Deliver
<1> QED BY <1>8, <1>9, <1>10, CheckStep DEF Deliver

LEMMA TickInv == ASSUME IInv, NEW k \in Checker, Tick(k) \/ Notify(k) PROVE IInv'
<1>1. PICK c \in Check : /\ c.pc = "fetch" /\ c.todo = {}
                        /\ checker' = [checker EXCEPT ![k] = c]
  <2>1. CASE Tick(k)
    BY <2>1, Types DEF Tick, NoCheck, Check
  <2>2. CASE Notify(k)
    BY <2>2, Types DEF Notify, NoCheck, Check
  <2> QED BY <2>1, <2>2
<1>4. /\ checker' \in [Checker -> Check] /\ checker'[k] = c
      /\ \A j \in Checker \ {k} : checker'[j] = checker[j]
  BY <1>1 DEF IInv, TypeOK
<1>5. CheckOK(checker[k])'
  BY <1>1, <1>4 DEF CheckOK
<1>2. checking' \in BOOLEAN /\ waiting' \in BOOLEAN
  BY DEF IInv, TypeOK, Tick, Notify
<1>3. pings' \in 0..clock /\ requestFailures' \in 0..MaxRequestFailures
  BY DateType DEF IInv, TypeOK, Tick, Notify, bounds
<1> QED BY <1>2, <1>3, <1>4, <1>5, OneCheck DEF Tick, Notify, bounds

LEMMA FetchInv == ASSUME IInv, NEW k \in Checker, Fetch(k) PROVE IInv'
<1> DEFINE page == Oldest(mailbox, Rows(mailbox), PageSize)
           dates == [m \in Msg |-> IF m \in page THEN mailbox[m] ELSE 0]
<1>1. page \subseteq Rows(mailbox) /\ page \subseteq Msg
  BY DEF Oldest, Rows
<1>2. dates \in [Msg -> Date] /\ Rows(dates) = page
  BY <1>1, Types DEF IInv, TypeOK, Rows
<1>3. page = DeletedPage(mailbox)
  BY DEF DeletedPage
<1>4. checker' = [checker EXCEPT ![k] =
        [@ EXCEPT !.pc = "add", !.todo = page, !.raced = FALSE, !.page = dates]]
  BY DEF Fetch
<1> HIDE DEF page, dates
<1>5. /\ checker' \in [Checker -> Check]
      /\ checker'[k].pc = "add" /\ checker'[k].todo = page /\ checker'[k].page = dates
      /\ \A j \in Checker \ {k} : checker'[j] = checker[j]
  BY <1>1, <1>2, <1>4 DEF IInv, TypeOK, Check
<1>6. mailbox' = mailbox
  BY DEF Fetch
<1>7. CheckOK(checker[k])'
  <2>1. DeletedPage(mailbox') = DeletedPage(mailbox)
    BY <1>6
  <2> QED BY <1>2, <1>3, <1>5, <2>1 DEF CheckOK
<1>8. checking' \in BOOLEAN /\ waiting' \in BOOLEAN /\ pings' \in 0..clock
      /\ requestFailures' \in 0..MaxRequestFailures
  BY DEF IInv, TypeOK, Fetch, bounds
<1> QED BY <1>5, <1>6, <1>7, <1>8, OneCheck DEF Fetch, bounds

LEMMA AddInv == ASSUME IInv, NEW k \in Checker, NEW m \in Msg, Add(k, m) PROVE IInv'
<1> DEFINE c == checker[k]
<1>1. c \in Check /\ CheckOK(c) /\ c.pc = "add" /\ m \in c.todo
  BY DEF IInv, TypeOK, ChecksOK, Add, IsNext
<1>2. c.page \in [Msg -> Date] /\ c.page[m] # 0
  BY <1>1 DEF Check, CheckOK, Rows
<1>3. /\ checker' \in [Checker -> Check]
      /\ checker'[k].pc = "add" /\ checker'[k].page = c.page /\ checker'[k].raced = c.raced
      /\ checker'[k].todo = c.todo \ {m}
      /\ \A j \in Checker \ {k} : checker'[j] = checker[j]
  BY <1>1 DEF IInv, TypeOK, Add, Check
<1>4. mailbox' = mailbox /\ fetched' = fetched \cup {m}
  BY DEF Add
<1>5. CheckOK(checker[k])'
  BY <1>1, <1>3, <1>4 DEF CheckOK, Rows, DeletedPage, Oldest
<1>6. ChecksOK'
  BY <1>3, <1>4, <1>5, OtherOK DEF ChecksOK
<1>7. TypeOK'
  BY <1>2, <1>3 DEF IInv, TypeOK, Add, bounds
<1>8. ClockOK' /\ DatesOK'
  BY DEF IInv, ClockOK, DatesOK, Add
<1>9. AttemptsOK'
  BY DEF IInv, TypeOK, AttemptsOK, Add
<1>10. /\ \A x \in fetched' : x \in fetched \/ inbox'[x] # 0
       /\ \A x \in Msg : inbox[x] # 0 => inbox'[x] # 0
  BY <1>2 DEF IInv, TypeOK, Add
<1> QED BY <1>6, <1>7, <1>8, <1>9, <1>10, CheckStep DEF Add

LEMMA EndInv ==
  ASSUME IInv, NEW k \in Checker,
         (\E m \in Msg : AddFails(k, m)) \/ Added(k) \/ Count(k) \/ RequestFails(k)
  PROVE  IInv'
<1>1. /\ checker' \in [Checker -> Check] /\ checking' \in BOOLEAN
      /\ \A j \in Checker \ {k} : checker'[j] = checker[j]
  <2>1. checker \in [Checker -> Check] /\ checking \in BOOLEAN
    BY DEF IInv, TypeOK
  <2>2. CASE \E cs \in {checker} : Ended(k, cs)
    BY <2>1, <2>2, Types DEF Ended
  <2>3. CASE UNCHANGED checking /\ \/ checker' = [checker EXCEPT ![k].pc = "delete"]
                                   \/ checker' = [checker EXCEPT ![k].pc = "fetch"]
    BY <2>1, <2>3 DEF Check
  <2> QED BY <2>2, <2>3 DEF AddFails, Added, Count, RequestFails
<1>2. mailbox' = mailbox /\ fetched' = fetched
  BY DEF AddFails, Added, Count, RequestFails, history
<1>3. CheckOK(checker[k])'
  <2>1. CASE checker'[k] = NoCheck
    BY <2>1, Types DEF CheckOK, NoCheck, Rows
  <2>2. CASE checker'[k] = [checker[k] EXCEPT !.pc = "delete"] /\ Added(k)
    <3>1. checker[k] \in Check /\ CheckOK(checker[k]) /\ checker[k].pc = "add" /\ checker[k].todo = {}
      BY <2>2 DEF IInv, TypeOK, ChecksOK, Added
    <3>2. /\ checker'[k].pc = "delete" /\ checker'[k].page = checker[k].page
          /\ checker'[k].raced = checker[k].raced /\ checker'[k].todo = checker[k].todo
      BY <2>2, <3>1 DEF Check
    <3> QED BY <1>2, <3>1, <3>2 DEF CheckOK, Rows, DeletedPage, Oldest
  <2>3. CASE checker'[k] = [checker[k] EXCEPT !.pc = "fetch"]
    <3>1. checker[k] \in Check /\ CheckOK(checker[k])
      BY DEF IInv, TypeOK, ChecksOK
    <3> QED BY <2>3, <3>1 DEF Check, CheckOK, Rows
  <2>4. \/ checker'[k] = NoCheck
        \/ checker'[k] = [checker[k] EXCEPT !.pc = "delete"] /\ Added(k)
        \/ checker'[k] = [checker[k] EXCEPT !.pc = "fetch"]
    <3>1. checker \in [Checker -> Check]
      BY DEF IInv, TypeOK
    <3> QED BY <3>1 DEF AddFails, Added, Count, RequestFails, Ended
  <2> QED BY <2>1, <2>2, <2>3, <2>4
<1>4. waiting' \in BOOLEAN /\ pings' \in 0..clock
  BY DEF IInv, TypeOK, AddFails, Added, Count, RequestFails
<1>5. requestFailures' \in 0..MaxRequestFailures
  <2>1. MaxRequestFailures \in Nat /\ requestFailures \in 0..MaxRequestFailures
    BY MailboxConstants DEF IInv, TypeOK
  <2> QED BY <2>1 DEF AddFails, Added, Count, RequestFails, bounds
<1> QED BY <1>1, <1>2, <1>3, <1>4, <1>5, OneCheck DEF AddFails, Added, Count, RequestFails, bounds

LEMMA DeleteInv == ASSUME IInv, NEW k \in Checker, Delete(k) PROVE IInv'
<1>1. mailbox' \in [Msg -> Date] /\ fetched' = fetched
  BY Types DEF IInv, TypeOK, Delete, history
<1>2. PICK c \in Check : /\ c.pc = "count" /\ c.todo = {}
                        /\ checker' = [Raced(Checker) EXCEPT ![k] = c]
  <2>1. checker[k].flagged \in BOOLEAN
    BY DEF IInv, TypeOK, Check
  <2> QED BY <2>1, Types DEF Delete, NoCheck, Check
<1>3. checker'[k] = c /\ \A j \in Checker \ {k} : checker'[j] = Raced(Checker)[j]
  BY <1>2 DEF Raced
<1>4. ASSUME NEW j \in Checker PROVE checker'[j] \in Check /\ CheckOK(checker[j])'
  <2>1. CASE j = k
    BY <1>2, <1>3, <2>1 DEF CheckOK
  <2>2. CASE j # k
    <3>1. checker'[j] = Raced(Checker)[j]
      BY <1>3, <2>2
    <3> QED BY <1>1, <3>1, RacedOK
  <2> QED BY <2>1, <2>2
<1>5. checker' \in [Checker -> Check]
  BY <1>2, <1>4 DEF Raced
<1>6. TypeOK'
  BY <1>1, <1>5 DEF IInv, TypeOK, Delete, history, bounds
<1>7. ClockOK' /\ AttemptsOK' /\ ChecksOK'
  BY <1>4 DEF IInv, ClockOK, AttemptsOK, ChecksOK, Delete, history
<1>8. DatesOK'
  BY DateType DEF Delete, IInv, TypeOK, DatesOK
<1> QED BY <1>6, <1>7, <1>8, CheckStep DEF Delete, history
-----------------------------------------------------------------------------
LEMMA FlushInv == ASSUME IInv, StartFlush \/ FlushDone PROVE IInv'
<1> USE DEF history, bounds
<1>1. TypeOK'
  <2>1. flush' \in Flush /\ waiting' \in BOOLEAN
    <3>1. CASE StartFlush
      BY <3>1 DEF StartFlush, Flush
    <3>2. CASE FlushDone
      BY <3>2, Types DEF IInv, TypeOK, FlushDone
    <3> QED BY <3>1, <3>2
  <2> QED BY <2>1 DEF IInv, TypeOK, StartFlush, FlushDone
<1>2. HandlersOK' /\ AttemptsOK' /\ FetchedKept' /\ GivenUpTried'
  BY DEF IInv, HandlersOK, HandleOK, AttemptsOK, FetchedKept, GivenUpTried, StartFlush, FlushDone
<1> QED BY <1>1, <1>2, HandlerStep DEF StartFlush, FlushDone

LEMMA FlushPageInv == ASSUME IInv, FlushPage PROVE IInv'
<1> USE DEF history, bounds
<1>1. Listed \subseteq Msg /\ Listed # {}
  BY DEF Listed, Oldest, Rows, FlushPage
<1>2. flush' \in Flush
  <2>1. \E m \in Listed : \A x \in Listed : inbox[x] <= inbox[m]
    BY <1>1, Latest DEF IInv
  <2>2. (CHOOSE m \in Listed : \A x \in Listed : inbox[x] <= inbox[m]) \in Msg
    BY <1>1, <2>1
  <2> QED BY <2>2 DEF IInv, TypeOK, Flush, FlushPage
<1>3. ASSUME NEW h \in Handler PROVE handler'[h] \in Handle /\ HandleOK(handler[h])'
  <2>1. handler[h] \in Handle /\ HandleOK(handler[h])
    BY DEF IInv, TypeOK, HandlersOK
  <2>2. CASE handler'[h] = handler[h]
    BY <2>1, <2>2 DEF HandleOK, FlushPage
  <2>3. CASE \E m \in Listed : handler'[h] = [pc |-> "handle", msg |-> m, attempts |-> attempts[m]]
    BY <1>1, <2>3 DEF HandleOK, Handle, IInv, TypeOK, AttemptsOK, FlushPage
  <2>4. PICK slot \in [Listed -> {x \in Handler : handler[x] = NoHandle}] :
          handler' = [x \in Handler |->
            IF \E m \in Listed : slot[m] = x
            THEN LET m == CHOOSE m \in Listed : slot[m] = x
                 IN [pc |-> "handle", msg |-> m, attempts |-> attempts[m]]
            ELSE handler[x]]
    BY DEF FlushPage, Spawn
  <2> QED BY <2>2, <2>3, <2>4
<1>4. handler' \in [Handler -> Handle]
  BY <1>3 DEF FlushPage, Spawn
<1>5. TypeOK'
  BY <1>2, <1>4 DEF IInv, TypeOK, FlushPage
<1>6. HandlersOK' /\ AttemptsOK' /\ FetchedKept' /\ GivenUpTried'
  BY <1>3 DEF IInv, HandlersOK, AttemptsOK, FetchedKept, GivenUpTried, FlushPage
<1> QED BY <1>5, <1>6, HandlerStep DEF FlushPage

LEMMA HandleInv ==
  ASSUME IInv, NEW h \in Handler, HandleMessage(h) \/ DeleteRow(h) \/ HandleFails(h)
  PROVE  IInv'
<1> USE DEF history, bounds
<1>1. handler[h] \in Handle /\ HandleOK(handler[h]) /\ handler[h].msg \in Msg
  BY DEF IInv, TypeOK, HandlersOK, HandleOK, HandleMessage, DeleteRow, HandleFails
<1>2. /\ handler' \in [Handler -> Handle]
      /\ \A g \in Handler \ {h} : handler'[g] = handler[g]
      /\ \/ handler'[h] = NoHandle
         \/ /\ HandleMessage(h)
            /\ handler'[h].pc = "delete" /\ handler'[h].msg = handler[h].msg
  <2>1. handler \in [Handler -> Handle] /\ NoHandle \in Handle
    BY Types DEF IInv, TypeOK
  <2>2. CASE handler' = [handler EXCEPT ![h] = NoHandle]
    BY <2>1, <2>2
  <2>3. CASE HandleMessage(h)
    <3>1. [handler[h] EXCEPT !.pc = "delete"] \in Handle
      BY <1>1 DEF Handle
    <3> QED BY <1>1, <2>1, <2>3, <3>1 DEF HandleMessage, Handle
  <2> QED BY <2>2, <2>3 DEF DeleteRow, HandleFails
<1>3. handled \subseteq handled' /\ handled' \subseteq Msg /\ downloads' = downloads
  BY <1>1 DEF IInv, TypeOK, HandleMessage, DeleteRow, HandleFails
<1>4. HandlersOK'
  <2>1. ASSUME NEW g \in Handler, g # h PROVE HandleOK(handler[g])'
    BY <1>2, <1>3, <2>1 DEF IInv, HandlersOK, HandleOK
  <2>2. HandleOK(handler[h])'
    BY <1>1, <1>2, <1>3, Types DEF HandleOK, HandleMessage
  <2> QED BY <2>1, <2>2 DEF HandlersOK
<1>5. inbox' \in [Msg -> Date]
  BY Types DEF IInv, TypeOK, HandleMessage, DeleteRow, HandleFails
<1>6. handleFailures' \in 0..MaxHandleFailures
  <2>1. MaxHandleFailures \in Nat /\ handleFailures \in 0..MaxHandleFailures
    BY MailboxConstants DEF IInv, TypeOK
  <2> QED BY <2>1 DEF HandleMessage, DeleteRow, HandleFails
<1>7. TypeOK'
  BY <1>2, <1>3, <1>5, <1>6 DEF IInv, TypeOK, HandleMessage, DeleteRow, HandleFails
<1>8. FetchedKept'
  BY <1>1, <1>3 DEF IInv, TypeOK, FetchedKept, HandleOK, HandleMessage, DeleteRow, HandleFails
<1>9. AttemptsOK' /\ GivenUpTried'
  BY DEF IInv, AttemptsOK, GivenUpTried, HandleMessage, DeleteRow, HandleFails
<1> QED BY <1>4, <1>7, <1>8, <1>9, HandlerStep DEF HandleMessage, DeleteRow, HandleFails

LEMMA DownloadInv == ASSUME IInv, NEW h \in Handler, DownloadFails(h) PROVE IInv'
<1> USE DEF history, bounds
<1> DEFINE m == handler[h].msg
<1>1. /\ handler[h] \in Handle /\ m \in Msg
      /\ handler[h].attempts \in Nat /\ handler[h].attempts <= downloads[m]
  BY DEF IInv, TypeOK, HandlersOK, HandleOK, DownloadFails, Handle
<1>2. downloads \in [Msg -> Nat] /\ downloads' = [downloads EXCEPT ![m] = @ + 1]
  BY DEF IInv, TypeOK, DownloadFails
<1>3. /\ downloads' \in [Msg -> Nat] /\ downloads'[m] = downloads[m] + 1
      /\ \A x \in Msg : downloads[x] <= downloads'[x]
  BY <1>1, <1>2
<1>4. /\ handler' \in [Handler -> Handle] /\ handler'[h] = NoHandle
      /\ \A g \in Handler \ {h} : handler'[g] = handler[g]
  BY Types DEF IInv, TypeOK, DownloadFails
<1>5. HandlersOK'
  <2>1. ASSUME NEW g \in Handler, g # h PROVE HandleOK(handler[g])'
    <3>1. handler'[g] = handler[g] /\ HandleOK(handler[g]) /\ handler[g] \in Handle
      BY <1>4, <2>1 DEF IInv, TypeOK, HandlersOK
    <3>2. handled' = handled
      BY DEF DownloadFails
    <3>3. handler[g].attempts \in Nat
      BY <3>1 DEF Handle
    <3> QED BY <1>2, <1>3, <3>1, <3>2, <3>3 DEF HandleOK
  <2>2. HandleOK(handler[h])'
    BY <1>4, Types DEF HandleOK
  <2> QED BY <2>1, <2>2 DEF HandlersOK
<1>6. /\ attempts' \in [Msg -> Nat]
      /\ \A x \in Msg : attempts'[x] <= attempts[x] + (IF x = m THEN 1 ELSE 0)
  BY <1>1 DEF IInv, TypeOK, DownloadFails
<1>7. AttemptsOK'
  <2>1. ASSUME NEW x \in Msg PROVE attempts'[x] <= downloads'[x]
    <3>1. attempts[x] \in Nat /\ attempts'[x] \in Nat /\ attempts[x] <= downloads[x]
      BY <1>6 DEF IInv, TypeOK, AttemptsOK
    <3>2. CASE x = m
      BY <1>2, <1>3, <1>6, <3>1, <3>2
    <3>3. CASE x # m
      BY <1>2, <1>3, <1>6, <3>1, <3>3
    <3> QED BY <3>2, <3>3
  <2> QED BY <2>1 DEF AttemptsOK
<1>8. /\ inbox' \in [Msg -> Date]
      /\ \A x \in Msg : inbox'[x] = inbox[x] \/ x \in gaveUp'
      /\ gaveUp \subseteq gaveUp' /\ gaveUp' \subseteq gaveUp \cup {m}
      /\ m \in gaveUp' \ gaveUp => GivesUp(h)
  BY <1>1, Types DEF IInv, TypeOK, DownloadFails
<1>9. TypeOK'
  BY <1>1, <1>3, <1>4, <1>6, <1>8 DEF IInv, TypeOK, DownloadFails
<1>10. FetchedKept'
  BY <1>8 DEF IInv, TypeOK, FetchedKept, DownloadFails
<1>11. GivenUpTried'
  <2>1. ASSUME NEW x \in gaveUp' PROVE downloads'[x] >= MaxAttempts
    <3>1. CASE x \in gaveUp
      <4>1. x \in Msg /\ downloads[x] >= MaxAttempts
        BY <3>1 DEF IInv, TypeOK, GivenUpTried
      <4> QED BY <1>2, <1>3, <4>1, MailboxConstants
    <3>2. CASE x \notin gaveUp
      <4>1. x = m /\ GivesUp(h)
        BY <1>8, <2>1, <3>2
      <4> QED BY <1>1, <1>2, <1>3, <4>1, MailboxConstants DEF GivesUp
    <3> QED BY <3>1, <3>2
  <2> QED BY <2>1 DEF GivenUpTried
<1> QED BY <1>5, <1>7, <1>9, <1>10, <1>11, HandlerStep DEF DownloadFails

LEMMA CrashInv == ASSUME IInv, Crash PROVE IInv'
<1> USE DEF history
<1>1. checker' \in [Checker -> Check] /\ \A k \in Checker : checker'[k] = NoCheck
  BY Types DEF Crash
<1>2. handler' \in [Handler -> Handle] /\ \A h \in Handler : handler'[h] = NoHandle
  BY Types DEF Crash
<1>3. crashes' \in 0..MaxCrashes
  <2>1. MaxCrashes \in Nat /\ crashes \in 0..MaxCrashes
    BY MailboxConstants DEF IInv, TypeOK
  <2> QED BY <2>1 DEF Crash
<1>4. TypeOK'
  BY <1>1, <1>2, <1>3, Types DEF IInv, TypeOK, Crash
<1>5. ChecksOK' /\ HandlersOK'
  BY <1>1, <1>2, Types DEF ChecksOK, CheckOK, HandlersOK, HandleOK, NoCheck, Rows
<1>6. ClockOK' /\ DatesOK' /\ AttemptsOK' /\ FetchedKept' /\ GivenUpTried'
  BY DEF IInv, ClockOK, DatesOK, AttemptsOK, FetchedKept, GivenUpTried, Crash
<1> QED BY <1>4, <1>5, <1>6 DEF IInv

LEMMA HangInv == ASSUME IInv, Hang PROVE IInv'
<1> USE DEF history
<1>1. TypeOK'
  BY DEF IInv, TypeOK, Hang
<1>2. HandlersOK' /\ AttemptsOK' /\ FetchedKept' /\ GivenUpTried'
  BY DEF IInv, HandlersOK, HandleOK, AttemptsOK, FetchedKept, GivenUpTried, Hang
<1> QED BY <1>1, <1>2, HandlerStep DEF Hang
-----------------------------------------------------------------------------
LEMMA InitInv == Init => IInv
<1> SUFFICES ASSUME Init PROVE IInv
  OBVIOUS
<1>1. TypeOK
  <2>1. pings \in 0..clock /\ clock \in Date
    BY Types DEF Init
  <2>2. /\ handleFailures \in 0..MaxHandleFailures /\ requestFailures \in 0..MaxRequestFailures
        /\ crashes \in 0..MaxCrashes
    BY MailboxConstants DEF Init
  <2> QED BY <2>1, <2>2, Types DEF Init, TypeOK
<1>2. ClockOK /\ DatesOK
  <2>1. delivered = {} /\ clock = 0
    BY DEF Init
  <2>2. DatesOK
    BY DEF Init, DatesOK
  <2> QED BY <2>1, <2>2, FS_EmptySet, MailboxConstants DEF ClockOK
<1>3. ChecksOK /\ HandlersOK
  BY NoCheckOK, NoHandleOK DEF Init, ChecksOK, HandlersOK
<1>4. AttemptsOK /\ FetchedKept /\ GivenUpTried
  BY DEF Init, AttemptsOK, FetchedKept, GivenUpTried
<1> QED BY <1>1, <1>2, <1>3, <1>4 DEF IInv

LEMMA StutterInv == IInv /\ UNCHANGED vars => IInv'
<1> SUFFICES ASSUME IInv, UNCHANGED vars PROVE IInv'
  OBVIOUS
<1> USE DEF vars, history, bounds
<1>1. TypeOK'
  BY DEF IInv, TypeOK
<1>2. HandlersOK' /\ AttemptsOK' /\ FetchedKept' /\ GivenUpTried'
  BY DEF IInv, HandlersOK, HandleOK, AttemptsOK, FetchedKept, GivenUpTried
<1> QED BY <1>1, <1>2, HandlerStep

LEMMA NextInv == IInv /\ [Next]_vars => IInv'
<1> SUFFICES ASSUME IInv, [Next]_vars PROVE IInv'
  OBVIOUS
<1>1. CASE \E m \in Msg : Deliver(m)
  BY <1>1, DeliverInv
<1>2. CASE \E k \in Checker : Tick(k) \/ Notify(k) \/ Checking(k) \/ RequestFails(k)
  BY <1>2, TickInv, FetchInv, AddInv, EndInv, DeleteInv DEF Checking
<1>3. CASE Flushing
  BY <1>3, FlushInv, FlushPageInv DEF Flushing
<1>4. CASE \E h \in Handler : Handling(h) \/ HandleFails(h) \/ DownloadFails(h)
  BY <1>4, HandleInv, DownloadInv DEF Handling
<1>5. CASE Hang \/ Crash
  BY <1>5, HangInv, CrashInv
<1>6. CASE UNCHANGED vars
  BY <1>6, StutterInv
<1> QED BY <1>1, <1>2, <1>3, <1>4, <1>5, <1>6 DEF Next

LEMMA Invariant == Spec => []IInv
BY InitInv, NextInv, PTL DEF Spec

\* The mailbox, the inbox and the goroutines of checks and flushes keep their types.
THEOREM TypeCorrect == Spec => []TypeOK
<1>1. IInv => TypeOK
  BY DEF IInv
<1> QED BY <1>1, Invariant, PTL

\* A row CafeInbox.Add saved leaves cafe_messages only when handle is done with the
\* message or gave it up: whatever failed, ended early, ran twice or was cut off.
THEOREM RowsOutliveChecks == Spec => []FetchedKept
<1>1. IInv => FetchedKept
  BY DEF IInv
<1> QED BY <1>1, Invariant, PTL

\* handle gives a message up only after maxDownloadAttempts downloads of it failed,
\* however many goroutines of overlapping flushes counted them.
THEOREM GivesUpLate == Spec => []GivenUpTried
<1>1. IInv => GivenUpTried
  BY DEF IInv
<1> QED BY <1>1, Invariant, PTL

\* handleDeleteMessages names no messages, and yet deletes the page this check has
\* fetched and saved, however many messages arrived after a full page was fetched.
\* Excused are a page another check deleted from, a message of it that was
\* delivered again, and a page that was short when another message arrived.
THEOREM QuietDeletesAreSafe == Spec => OnlyRacesLose
<1>1. IInv /\ [Next]_vars =>
        [\A k \in Checker : Delete(k) /\ ~checker[k].raced
           => DeletedPage(mailbox) = Rows(checker[k].page)
              /\ DeletedPage(mailbox) \subseteq fetched]_vars
  <2> SUFFICES ASSUME IInv, NEW k \in Checker, Delete(k), ~checker[k].raced
               PROVE  /\ DeletedPage(mailbox) = Rows(checker[k].page)
                      /\ DeletedPage(mailbox) \subseteq fetched
    OBVIOUS
  <2>1. CheckOK(checker[k]) /\ checker[k].pc = "delete"
    BY DEF IInv, ChecksOK, Delete
  <2> QED BY <2>1 DEF CheckOK
<1> QED BY <1>1, Invariant, PTL DEF Spec, OnlyRacesLose
=============================================================================

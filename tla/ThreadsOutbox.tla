--------------------------- MODULE ThreadsOutbox ---------------------------
(***************************************************************************)
(* The queue of outbound thread messages (core/threads_outbox.go over the  *)
(* thread_messages table of repo/db/thread_messages.go).                   *)
(*                                                                         *)
(* Flush works through the table in pages of GroupSize rows, oldest first, *)
(* with one goroutine per receiver of a page.  A message that cannot be    *)
(* sent directly becomes a request for each of the receiver's inboxes.     *)
(* The goroutines append the ids they are done with to one slice without   *)
(* a lock.  Messages are numbered in the order of their dates.             *)
(***************************************************************************)
EXTENDS Naturals, FiniteSets

CONSTANTS
  Peer,        \* receivers
  Cafe,        \* cafes
  MaxMessages, \* bound: messages added
  To,          \* the receiver of each message
  Inboxes,     \* the inboxes of each receiver's contact row, or {}
  Session,     \* cafes this node has a session with
  Flusher,     \* goroutines that call Flush
  GroupSize,   \* threadsFlushGroupSize
  None,        \* the mutex is free
  MaxErrors,   \* bound: errors of InboxRequest (pinning, datastore)
  MaxCrashes   \* bound: node restarts

Msg == 1..MaxMessages

ASSUME OutboxConstants ==
  /\ MaxMessages \in Nat /\ MaxErrors \in Nat /\ MaxCrashes \in Nat
  /\ GroupSize \in Nat \ {0}
  /\ To \in [Msg -> Peer] /\ Inboxes \in [Peer -> SUBSET Cafe]
  /\ Session \subseteq Cafe
  /\ None \notin Flusher

VARIABLES
  added,     \* number of messages added so far
  table,     \* rows of thread_messages
  mux,       \* holder of the outbox mutex
  phase,     \* what the holder does
  page, next, \* the batch being flushed, and the one listed after it
  work,      \* the goroutine of each receiver in the batch
  toDelete,  \* the slice they append to
  berr,      \* some goroutine failed
  sent,      \* history: messages handed to their receiver
  requests,  \* the cafe requests InboxRequest queued
  dropped,   \* history: receiver offline and without an inbox
  errors, crashes

batchvars == <<phase, page, next, work, toDelete, berr>>
outcome == <<sent, requests, dropped>>
vars == <<added, table, mux, batchvars, outcome, errors, crashes>>

Request == [type: {"store", "inbox"}, msg: Msg, cafe: Cafe]

\* todo: messages of the receiver in this batch, cur: the one being handled;
\* cafes: those still to queue a request for; seen: the slice as it was read
Work == [pc: {"none", "send", "prep", "store", "inbox", "read", "write", "done", "returned"},
         todo: SUBSET Msg, cur: 0..MaxMessages, cafes: SUBSET Cafe, seen: SUBSET Msg]

NoWork == [pc |-> "none", todo |-> {}, cur |-> 0, cafes |-> {}, seen |-> {}]

TypeOK ==
  /\ added \in 0..MaxMessages
  /\ table \subseteq 1..added
  /\ mux \in Flusher \cup {None}
  /\ phase \in {"idle", "handle", "delete"}
  /\ page \subseteq Msg /\ next \subseteq Msg
  /\ work \in [Peer -> Work]
  /\ toDelete \subseteq Msg
  /\ berr \in BOOLEAN
  /\ sent \subseteq Msg /\ dropped \subseteq Msg
  /\ requests \subseteq Request
  /\ errors \in 0..MaxErrors /\ crashes \in 0..MaxCrashes

Init ==
  /\ added = 0 /\ table = {} /\ mux = None
  /\ phase = "idle" /\ page = {} /\ next = {} /\ toDelete = {} /\ berr = FALSE
  /\ work = [q \in Peer |-> NoWork]
  /\ sent = {} /\ requests = {} /\ dropped = {}
  /\ errors = 0 /\ crashes = 0
-----------------------------------------------------------------------------
\* rows dated after all of ms
After(ms) == {m \in table : \A n \in ms : n < m}

\* List(offset, limit): the oldest GroupSize rows dated after the last of a page
List(ms) == {m \in After(ms) : Cardinality({n \in After(ms) : n <= m}) <= GroupSize}

\* m is the oldest message the goroutine of receiver q has still to handle
IsNext(q, m) == work[q].pc = "send" /\ m \in work[q].todo /\ \A n \in work[q].todo : m <= n

\* group by peer id
Groups(ms) ==
  [q \in Peer |-> IF \E m \in ms : To[m] = q
                  THEN [NoWork EXCEPT !.pc = "send", !.todo = {m \in ms : To[m] = q}]
                  ELSE NoWork]

\* batch(msgs): an empty batch ends the flush
Batch(ms) ==
  /\ page' = ms /\ next' = {} /\ toDelete' = {} /\ berr' = FALSE
  /\ work' = Groups(ms)
  /\ phase' = IF ms = {} THEN "idle" ELSE "handle"
-----------------------------------------------------------------------------
Add ==
  /\ added < MaxMessages
  /\ added' = added + 1
  /\ table' = table \cup {added + 1}
  /\ UNCHANGED <<mux, batchvars, outcome, errors, crashes>>

Flush(f) ==
  /\ mux = None
  /\ Batch(List({}))
  /\ mux' = IF page' = {} THEN None ELSE f
  /\ UNCHANGED <<added, table, outcome, errors, crashes>>

At(q, m, pc) == work' = [work EXCEPT ![q].cur = m, ![q].pc = pc]

\* handle: SendMessage reaches the receiver
Send(q, m) ==
  /\ IsNext(q, m)
  /\ sent' = sent \cup {m}
  /\ At(q, m, "read")
  /\ UNCHANGED <<added, table, mux, phase, page, next, toDelete, berr, requests,
                 dropped, errors, crashes>>

\* Mutant: a message for an offline receiver counts as handled.
ForgetOffline(q, m) ==
  /\ IsNext(q, m)
  /\ At(q, m, "read")
  /\ UNCHANGED <<added, table, mux, phase, page, next, toDelete, berr, outcome, errors, crashes>>

\* Mutant: a receiver without an inbox is an error.
NoInboxIsError(q, m) ==
  /\ IsNext(q, m)
  /\ IF Inboxes[To[m]] = {}
     THEN work' = [work EXCEPT ![q] = [NoWork EXCEPT !.pc = "done"]] /\ berr' = TRUE
     ELSE At(q, m, "prep") /\ UNCHANGED berr
  /\ UNCHANGED <<added, table, mux, phase, page, next, toDelete, outcome, errors, crashes>>

\* handle: SendMessage fails; without an inbox that is the end of the message
SendFails(q, m) ==
  /\ IsNext(q, m)
  /\ IF Inboxes[To[m]] = {}
     THEN At(q, m, "read") /\ dropped' = dropped \cup {m}
     ELSE At(q, m, "prep") /\ UNCHANGED dropped
  /\ UNCHANGED <<added, table, mux, phase, page, next, toDelete, berr, sent,
                 requests, errors, crashes>>

\* Mutant: the delivery is requested before the ciphertext is queued.
PrepLast(q) ==
  /\ work[q].pc = "prep"
  /\ work' = [work EXCEPT ![q].pc = "inbox", ![q].cafes = Inboxes[To[work[q].cur]]]
  /\ UNCHANGED <<added, table, mux, phase, page, next, toDelete, berr, outcome,
                 errors, crashes>>

\* InboxRequest: prepForInbox encrypts and pins the envelope
Prep(q) ==
  /\ work[q].pc = "prep"
  /\ work' = [work EXCEPT ![q].pc = "store", ![q].cafes = Session]
  /\ UNCHANGED <<added, table, mux, phase, page, next, toDelete, berr, outcome,
                 errors, crashes>>

\* first a request to store the ciphertext at each own cafe, then one to deliver
\* it for each inbox of the receiver
Queue(q, c) ==
  LET w == work[q]
  IN /\ w.pc \in {"store", "inbox"} /\ c \in w.cafes
     /\ requests' = requests \cup {[type |-> w.pc, msg |-> w.cur, cafe |-> c]}
     /\ work' = [work EXCEPT ![q].cafes = @ \ {c}]
     /\ UNCHANGED <<added, table, mux, phase, page, next, toDelete, berr, sent,
                    dropped, errors, crashes>>

Stored(q) ==
  /\ work[q].pc = "store" /\ work[q].cafes = {}
  /\ work' = [work EXCEPT ![q].pc = "inbox", ![q].cafes = Inboxes[To[work[q].cur]]]
  /\ UNCHANGED <<added, table, mux, phase, page, next, toDelete, berr, outcome,
                 errors, crashes>>

Requested(q) ==
  /\ work[q].pc = "inbox" /\ work[q].cafes = {}
  /\ work' = [work EXCEPT ![q].pc = "read"]
  /\ UNCHANGED <<added, table, mux, phase, page, next, toDelete, berr, outcome,
                 errors, crashes>>

\* Mutant: the loop goes on with the receiver's next message.
FailAndContinue(q) ==
  LET rest == work[q].todo \ {work[q].cur}
  IN /\ work[q].pc \in {"prep", "store", "inbox"}
     /\ errors < MaxErrors
     /\ errors' = errors + 1
     /\ berr' = TRUE
     /\ work' = [work EXCEPT ![q] = [NoWork EXCEPT !.pc = IF rest = {} THEN "done" ELSE "send",
                                                   !.todo = rest]]
     /\ UNCHANGED <<added, table, mux, phase, page, next, toDelete, outcome, crashes>>

\* InboxRequest fails: the goroutine returns, and does not call wg.Done
InboxRequestFails(q) ==
  /\ work[q].pc \in {"prep", "store", "inbox"}
  /\ errors < MaxErrors
  /\ errors' = errors + 1
  /\ berr' = TRUE
  /\ work' = [work EXCEPT ![q].pc = "returned"]
  /\ UNCHANGED <<added, table, mux, phase, page, next, toDelete, outcome, crashes>>

\* append(toDelete, id): the slice is read, and written back with the id; what
\* another goroutine appended in between is lost
AppendRead(q) ==
  /\ work[q].pc = "read"
  /\ work' = [work EXCEPT ![q].pc = "write", ![q].seen = toDelete]
  /\ UNCHANGED <<added, table, mux, phase, page, next, toDelete, berr, outcome,
                 errors, crashes>>

\* the write, and the next message or wg.Done
AppendWrite(q) ==
  LET rest == work[q].todo \ {work[q].cur}
  IN /\ work[q].pc = "write"
     /\ toDelete' = work[q].seen \cup {work[q].cur}
     /\ work' = [work EXCEPT ![q] = [NoWork EXCEPT !.pc = IF rest = {} THEN "done" ELSE "send",
                                                   !.todo = rest]]
     /\ UNCHANGED <<added, table, mux, phase, page, next, berr, outcome, errors, crashes>>

\* wg.Wait returns when every goroutine called Done; the next page is listed
\* before anything is deleted
NextPage ==
  /\ phase = "handle"
  /\ \A q \in Peer : work[q].pc \in {"none", "done"}
  /\ phase' = "delete"
  /\ next' = List(page)
  /\ UNCHANGED <<added, table, mux, page, work, toDelete, berr, outcome, errors, crashes>>

Delete(m) ==
  /\ phase = "delete" /\ m \in toDelete \cap table
  /\ table' = table \ {m}
  /\ UNCHANGED <<added, mux, batchvars, outcome, errors, crashes>>

\* keep going unless an error occurred; an empty batch ends the flush and unlocks
Recurse ==
  /\ phase = "delete" /\ toDelete \cap table = {}
  /\ Batch(IF berr THEN {} ELSE next)
  /\ mux' = IF page' = {} THEN None ELSE mux
  /\ UNCHANGED <<added, table, outcome, errors, crashes>>

\* The node restarts: the table is on disk, the batch is not.
Crash ==
  /\ crashes < MaxCrashes
  /\ crashes' = crashes + 1
  /\ mux' = None
  /\ Batch({})
  /\ UNCHANGED <<added, table, outcome, errors>>

Handle(q) ==
  \/ \E m \in Msg : Send(q, m) \/ SendFails(q, m)
  \/ Prep(q) \/ Stored(q) \/ Requested(q) \/ \E c \in Cafe : Queue(q, c)
  \/ AppendRead(q) \/ AppendWrite(q)

Finish == NextPage \/ Recurse \/ \E m \in Msg : Delete(m)

Next ==
  \/ Add \/ \E f \in Flusher : Flush(f)
  \/ \E q \in Peer : Handle(q) \/ InboxRequestFails(q)
  \/ Finish \/ Crash

Spec == Init /\ [][Next]_vars

\* Goroutines run on, and the queue ticker calls Flush again and again
\* (core/main.go, runQueues).
FairSpec ==
  /\ Spec
  /\ \A q \in Peer : WF_vars(Handle(q))
  /\ WF_vars(Finish)
  /\ WF_vars(\E f \in Flusher : Flush(f))
-----------------------------------------------------------------------------
Asked(m, type, cafes) == \A c \in cafes : [type |-> type, msg |-> m, cafe |-> c] \in requests

\* m needs no row any more: its receiver got it, or its ciphertext is queued for
\* every own cafe and its delivery for every inbox of the receiver, or the
\* receiver was offline and has no inbox
Handled(m) ==
  \/ m \in sent \cup dropped
  \/ /\ Inboxes[To[m]] # {}
     /\ Asked(m, "store", Session) /\ Asked(m, "inbox", Inboxes[To[m]])

Touched(m) == m \in sent \cup dropped \/ \E x \in requests : x.msg = m

\* A message leaves the table only when it was handled: not when a goroutine
\* of its batch failed, its slice lost an append or the node restarted.
NothingLost == \A m \in 1..added : m \notin table => Handled(m)

\* To one receiver no message overtakes an older one: a failed message holds
\* back the later ones of its receiver, in its page and in the pages after it.
NoOvertaking ==
  \A m, n \in 1..added : m < n /\ To[m] = To[n] /\ Touched(n) => Handled(m)

\* No cafe is asked to deliver a message whose ciphertext is not at least queued
\* for every cafe of the sender: the receiver would find a name without content.
StoredFirst ==
  \A x \in requests : x.type = "inbox" => Asked(x.msg, "store", Session)

\* Every message is handled in the end and leaves the table, whatever appends
\* the slice lost and across a restart, unless some flush never ends.
QueueDrains ==
  <>[](mux # None) \/ \A m \in Msg : (m \in table ~> (m \notin table /\ Handled(m)))

\* threads_outbox.go:56 "Flush processes pending messages": a flush ends, and
\* another one can begin.
FlushEnds == mux # None ~> mux = None
=============================================================================

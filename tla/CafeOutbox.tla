----------------------------- MODULE CafeOutbox -----------------------------
(***************************************************************************)
(* The queue of requests of one peer to its cafes (core/cafe_outbox.go),   *)
(* the client calls it makes (Store, StoreThread and DeliverMessage of     *)
(* core/cafe_service.go) with their handlers at the cafes, and             *)
(* registration and deregistration (core/cafe.go).                         *)
(*                                                                         *)
(* Three kinds of request wait in one table: to store content at a cafe,   *)
(* to back up a thread's record there, and to deliver a message to the     *)
(* inbox a friend keeps at some cafe.  A flush takes them in pages, with a *)
(* goroutine for each cafe of the page.  Requests are numbered by date.    *)
(***************************************************************************)
EXTENDS Naturals, FiniteSets

CONSTANTS
  Cafe, Content, Thread,
  Registered,    \* cafes with a session at the start
  Friend,        \* receivers of messages
  Inboxes,       \* the inboxes of each of them
  Adder,         \* bound: goroutines adding requests at a time
  GroupSize,     \* cafeOutFlushGroupSize
  None,
  MaxRequests, MaxHeads,  \* bounds
  MaxFaults      \* bound: failed requests, expired tokens, deregistrations and restarts

ASSUME OutboxConstants ==
  /\ GroupSize \in Nat \ {0} /\ MaxRequests \in Nat /\ MaxHeads \in Nat
  /\ MaxFaults \in Nat /\ Inboxes \in [Friend -> SUBSET Cafe]
  /\ Registered \subseteq Cafe
  /\ None \notin Content \cup Thread \cup Nat

VARIABLES
  added,     \* requests added so far
  request,   \* what each of them asks for
  table,     \* the rows of cafe_requests
  adding,    \* the calls of Add, InboxRequest and updateHead under way
  session,   \* cafe_sessions, and whether the access token still holds
  leaving,   \* deregistrations that have deleted the requests
  head,      \* HEAD updates of each thread
  removed,   \* threads that were removed
  phase, page, next, work, toDelete, berr,  \* the flush that holds the mutex
  pinned,    \* content pinned at each cafe
  backup,    \* HEAD in each cafe's record of a thread
  mailbox,   \* messages delivered at each cafe
  refused,   \* history: requests the cafe did not serve, and the outbox took for handled
  dropped,   \* history: requests deleted with their session
  stuck,     \* the goroutines of the queue ticker hang in threadsOutbox.Flush
  faults

queue == <<added, request, table>>
peer == <<session, leaving, head, removed>>
flush == <<phase, page, next, work, toDelete, berr>>
cafes == <<pinned, backup, mailbox>>
vars == <<queue, adding, peer, flush, cafes, refused, dropped, stuck, faults>>

Id == 1..MaxRequests
Head == 0..MaxHeads

\* version: HEAD when the backup of a thread was requested
Request == [kind: {"store", "thread", "inbox"}, target: Content \cup Thread \cup {None},
            cafe: Cafe \cup {None}, version: Head]
NoRequest == [kind |-> "store", target |-> None, cafe |-> None, version |-> 0]

\* own: cafes still to get a store or thread request; inboxes: to get an inbox request
Adding == [pc: {"idle", "list", "add"}, kind: {"store", "thread"},
           target: Content \cup Thread \cup {None}, version: Head,
           own: SUBSET Cafe, inboxes: SUBSET Cafe]
Idle == [pc |-> "idle", kind |-> "store", target |-> None, version |-> 0, own |-> {}, inboxes |-> {}]

\* todo: requests still to handle, of which those of the type at hand are the group;
\* need: content the cafe asked for, stale: with a token that no longer holds;
\* snap: the HEAD read for the next thread request; done: handled
Work == [pc: {"pick", "send", "each", "upload"}, todo: SUBSET Id, group: SUBSET Id,
         need: SUBSET Content, stale: BOOLEAN, snap: Head, done: SUBSET Id]
NoWork == [pc |-> "pick", todo |-> {}, group |-> {}, need |-> {}, stale |-> FALSE,
           snap |-> 0, done |-> {}]

TypeOK ==
  /\ added \in 0..MaxRequests /\ request \in [Id -> Request] /\ table \subseteq 1..added
  /\ adding \in [Adder -> Adding]
  /\ session \in [Cafe -> {"none", "valid", "expired"}] /\ leaving \subseteq Cafe
  /\ head \in [Thread -> Head] /\ removed \subseteq Thread
  /\ phase \in {"idle", "handle", "delete"} /\ page \subseteq 1..added /\ next \subseteq 1..added
  /\ work \in [Cafe -> Work] /\ toDelete \subseteq 1..added /\ berr \in BOOLEAN
  /\ pinned \in [Cafe -> SUBSET Content] /\ backup \in [Cafe -> [Thread -> Head]]
  /\ mailbox \in [Cafe -> SUBSET Content]
  /\ refused \subseteq 1..added /\ dropped \subseteq 1..added /\ stuck \in BOOLEAN
  /\ faults \in 0..MaxFaults

Init ==
  /\ added = 0 /\ request = [i \in Id |-> NoRequest] /\ table = {}
  /\ adding = [a \in Adder |-> Idle]
  /\ session = [c \in Cafe |-> IF c \in Registered THEN "valid" ELSE "none"] /\ leaving = {}
  /\ head = [t \in Thread |-> 0] /\ removed = {}
  /\ phase = "idle" /\ page = {} /\ next = {} /\ work = [c \in Cafe |-> NoWork]
  /\ toDelete = {} /\ berr = FALSE
  /\ pinned = [c \in Cafe |-> {}] /\ backup = [c \in Cafe |-> [t \in Thread |-> 0]]
  /\ mailbox = [c \in Cafe |-> {}]
  /\ refused = {} /\ dropped = {} /\ stuck = FALSE
  /\ faults = 0
-----------------------------------------------------------------------------
Fault == faults < MaxFaults /\ faults' = faults + 1

(* Adding requests *)

Begin(a, x) == adding[a] = Idle /\ adding' = [adding EXCEPT ![a] = x]

\* Add of content this peer has pinned
Store(a, x) ==
  /\ Begin(a, [Idle EXCEPT !.pc = "list", !.target = x])
  /\ UNCHANGED <<queue, peer, flush, cafes, refused, dropped, stuck, faults>>

\* InboxRequest: the ciphertext is stored first
InboxRequest(a, x, f) ==
  /\ Inboxes[f] # {}
  /\ Begin(a, [Idle EXCEPT !.pc = "list", !.target = x, !.inboxes = Inboxes[f]])
  /\ UNCHANGED <<queue, peer, flush, cafes, refused, dropped, stuck, faults>>

\* updateHead: the thread's row, then a request to back it up
UpdateHead(a, t) ==
  /\ t \notin removed /\ head[t] < MaxHeads
  /\ head' = [head EXCEPT ![t] = @ + 1]
  /\ Begin(a, [Idle EXCEPT !.pc = "list", !.kind = "thread", !.target = t, !.version = head[t] + 1])
  /\ UNCHANGED <<queue, session, leaving, removed, flush, cafes, refused, dropped, stuck, faults>>

\* what is left to add
Left(x) == IF x.own = {} /\ x.inboxes = {} THEN Idle ELSE x

\* Add: a request for each session there is now
ListSessions(a) ==
  /\ adding[a].pc = "list"
  /\ adding' = [adding EXCEPT ![a] =
       Left([@ EXCEPT !.pc = "add", !.own = {c \in Cafe : session[c] # "none"}])]
  /\ UNCHANGED <<queue, peer, flush, cafes, refused, dropped, stuck, faults>>

\* add: one row
AddRow(a, c) ==
  LET x == adding[a]
      own == c \in x.own
  IN /\ x.pc = "add" /\ added < MaxRequests
     /\ own \/ (x.own = {} /\ c \in x.inboxes)
     /\ added' = added + 1
     /\ table' = table \cup {added + 1}
     /\ request' = [request EXCEPT ![added + 1] =
          [kind |-> IF own THEN x.kind ELSE "inbox", target |-> x.target, cafe |-> c,
           version |-> x.version]]
     /\ adding' = [adding EXCEPT ![a] =
          Left(IF own THEN [x EXCEPT !.own = @ \ {c}] ELSE [x EXCEPT !.inboxes = @ \ {c}])]
     /\ UNCHANGED <<peer, flush, cafes, refused, dropped, stuck, faults>>
-----------------------------------------------------------------------------
(* Flush and batch *)

Oldest(ms) == {i \in ms : Cardinality({j \in ms : j <= i}) <= GroupSize}

\* List after the last row of a page, if that row is still there
List(ms) ==
  LET last == {i \in ms : \A j \in ms : j <= i}
  IN IF last \subseteq table THEN Oldest({i \in table : \A j \in last : j < i}) ELSE {}

\* group by cafe; a goroutine with nothing to do has called wg.Done
Groups(ms) == [c \in Cafe |-> [NoWork EXCEPT !.todo = {i \in ms : request[i].cafe = c}]]

\* batch(reqs): an empty batch ends the flush
Batch(ms) ==
  /\ page' = ms /\ next' = {} /\ toDelete' = {} /\ berr' = FALSE
  /\ work' = Groups(ms)
  /\ phase' = IF ms = {} THEN "idle" ELSE "handle"

Flush ==
  /\ phase = "idle"
  /\ Batch(List({}))
  /\ UNCHANGED <<queue, adding, peer, cafes, refused, dropped, stuck, faults>>

\* The goroutines append to one slice without a lock: appends may be lost, but not all.
Appended ==
  LET all == UNION {work[c].done : c \in Cafe}
  IN {ids \in SUBSET all :
        IF \E c \in Cafe : work[c].done = all THEN ids = all ELSE ids # {}}

\* wg.Wait returns; the next page is listed before anything is deleted
NextPage ==
  /\ phase = "handle"
  /\ \A c \in Cafe : work[c].pc = "pick" /\ work[c].todo = {}
  /\ phase' = "delete"
  /\ next' = List(page)
  /\ toDelete' \in Appended
  /\ UNCHANGED <<queue, adding, peer, page, work, berr, cafes, refused, dropped, stuck, faults>>

Delete(i) ==
  /\ phase = "delete" /\ i \in toDelete \cap table
  /\ table' = table \ {i}
  /\ UNCHANGED <<added, request, adding, peer, flush, cafes, refused, dropped, stuck, faults>>

\* keep going unless an error occurred
Recurse ==
  /\ phase = "delete" /\ toDelete \cap table = {}
  /\ Batch(IF berr THEN {} ELSE next)
  /\ UNCHANGED <<queue, adding, peer, cafes, refused, dropped, stuck, faults>>
-----------------------------------------------------------------------------
(* handle, in the goroutine of cafe c *)

\* the goroutine of c goes on as w
Goes(c, w) ==
  /\ work' = [work EXCEPT ![c] = w]
  /\ UNCHANGED <<queue, adding, peer, phase, page, next, toDelete, dropped, stuck>>

\* the error of one request fails the batch
Fails(c, w) == Goes(c, w) /\ berr' = TRUE

OfKind(c, kind) == {i \in work[c].todo : request[i].kind = kind}
Wanting(c, xs) == {i \in work[c].todo : request[i].kind = "store" /\ request[i].target \in xs}

\* the goroutine has tried the requests ids, of which it handled those in ok
After(c, ids, ok) ==
  LET rest == work[c].group \ ids
  IN [work[c] EXCEPT !.todo = @ \ ids, !.group = rest, !.done = @ \cup ok, !.snap = 0,
                     !.pc = IF rest = {} THEN "pick" ELSE "each"]

\* Mutant: nothing counts as stored when the cafe asks for nothing.
NothingAsked(c) ==
  LET need == {request[i].target : i \in OfKind(c, "store")} \ pinned[c]
      stored == IF need = {} THEN {} ELSE OfKind(c, "store") \ Wanting(c, need)
  IN /\ work[c].pc = "pick" /\ OfKind(c, "store") # {} /\ session[c] = "valid"
     /\ Goes(c, [work[c] EXCEPT !.pc = IF need = {} THEN "pick" ELSE "send",
                                !.todo = @ \ (OfKind(c, "store") \ Wanting(c, need)),
                                !.need = need, !.stale = FALSE, !.done = @ \cup stored])
     /\ UNCHANGED <<berr, cafes, refused, faults>>

\* Types are taken in any order.  Store asks for all its content at once, and the
\* cafe answers what it has not pinned.
Ask(c) ==
  LET need == {request[i].target : i \in OfKind(c, "store")} \ pinned[c]
      stored == OfKind(c, "store") \ Wanting(c, need)
  IN /\ work[c].pc = "pick" /\ OfKind(c, "store") # {} /\ session[c] = "valid"
     /\ Goes(c, [work[c] EXCEPT !.pc = IF need = {} THEN "pick" ELSE "send",
                                !.todo = @ \ stored, !.need = need, !.stale = FALSE,
                                !.done = @ \cup stored])
     /\ UNCHANGED <<berr, cafes, refused, faults>>

\* no session; or an answer that is an error, whose token nobody refreshes
AskRefused(c) ==
  /\ work[c].pc = "pick" /\ OfKind(c, "store") # {} /\ session[c] # "valid"
  /\ Fails(c, After(c, OfKind(c, "store"), {}))
  /\ UNCHANGED <<cafes, refused, faults>>

Sent(c, x) ==
  [work[c] EXCEPT !.need = @ \ {x}, !.todo = @ \ Wanting(c, {x}),
                  !.done = @ \cup Wanting(c, {x}),
                  !.pc = IF work[c].need = {x} THEN "pick" ELSE "send"]

\* sendObject: the cafe pins the content
Send(c, x) ==
  /\ work[c].pc = "send" /\ x \in work[c].need /\ ~work[c].stale
  /\ pinned' = [pinned EXCEPT ![c] = @ \cup {x}]
  /\ Goes(c, Sent(c, x))
  /\ UNCHANGED <<berr, backup, mailbox, refused, faults>>

\* it refuses, with an answer nobody looks at
SendRefused(c, x) ==
  /\ work[c].pc = "send" /\ x \in work[c].need /\ work[c].stale
  /\ refused' = refused \cup Wanting(c, {x})
  /\ Goes(c, Sent(c, x))
  /\ UNCHANGED <<berr, cafes, faults>>

\* the request or its answer is lost: what was stored before counts
StoreFails(c) ==
  /\ work[c].pc = "send" \/ (work[c].pc = "pick" /\ OfKind(c, "store") # {})
  /\ Fault
  /\ pinned' \in {pinned} \cup {[pinned EXCEPT ![c] = @ \cup {x}] :
                                x \in IF work[c].stale THEN {} ELSE work[c].need}
  /\ Fails(c, [After(c, OfKind(c, "store"), {}) EXCEPT !.need = {}])
  /\ UNCHANGED <<backup, mailbox, refused>>

\* thread and inbox requests are handled one by one
Pick(c, kind) ==
  /\ work[c].pc = "pick" /\ OfKind(c, kind) # {}
  /\ Goes(c, [work[c] EXCEPT !.pc = "each", !.group = OfKind(c, kind)])
  /\ UNCHANGED <<berr, cafes, refused, faults>>

\* i is the next of them
IsNext(c, i, pc, kind) ==
  /\ work[c].pc = pc /\ request[i].kind = kind
  /\ i \in work[c].group /\ \A j \in work[c].group : i <= j

\* a thread that is gone needs no backup
ThreadGone(c, i) ==
  /\ IsNext(c, i, "each", "thread") /\ request[i].target \in removed
  /\ Goes(c, After(c, {i}, {i}))
  /\ UNCHANGED <<berr, cafes, refused, faults>>

ReadThread(c, i) ==
  /\ IsNext(c, i, "each", "thread") /\ request[i].target \notin removed
  /\ Goes(c, [work[c] EXCEPT !.pc = "upload", !.snap = head[request[i].target]])
  /\ UNCHANGED <<berr, cafes, refused, faults>>

BackedUp(c, i) == [backup EXCEPT ![c][request[i].target] = work[c].snap]

\* StoreThread
Upload(c, i) ==
  /\ IsNext(c, i, "upload", "thread") /\ session[c] = "valid"
  /\ backup' = BackedUp(c, i)
  /\ Goes(c, After(c, {i}, {i}))
  /\ UNCHANGED <<berr, pinned, mailbox, refused, faults>>

\* its answer is not looked at either
UploadRefused(c, i) ==
  /\ IsNext(c, i, "upload", "thread") /\ session[c] = "expired"
  /\ refused' = refused \cup {i}
  /\ Goes(c, After(c, {i}, {i}))
  /\ UNCHANGED <<berr, cafes, faults>>

\* Mutant: a failed backup counts as handled.
FailureIsHandled(c, i) ==
  /\ IsNext(c, i, "upload", "thread")
  /\ \/ session[c] = "none" /\ UNCHANGED <<faults, backup>>
     \/ session[c] # "none" /\ Fault /\ UNCHANGED backup
  /\ Fails(c, After(c, {i}, {i}))
  /\ UNCHANGED <<pinned, mailbox, refused>>

\* no session, or the request or its answer is lost
UploadFails(c, i) ==
  /\ IsNext(c, i, "upload", "thread")
  /\ \/ session[c] = "none" /\ UNCHANGED <<faults, backup>>
     \/ session[c] # "none" /\ Fault /\ UNCHANGED backup
     \/ session[c] = "valid" /\ Fault /\ backup' = BackedUp(c, i)
  /\ Fails(c, After(c, {i}, {}))
  /\ UNCHANGED <<pinned, mailbox, refused>>

\* DeliverMessage, which needs a session for the cafe's address but no token
Deliver(c, i) ==
  /\ IsNext(c, i, "each", "inbox") /\ session[c] # "none"
  /\ mailbox' = [mailbox EXCEPT ![c] = @ \cup {request[i].target}]
  /\ Goes(c, After(c, {i}, {i}))
  /\ UNCHANGED <<berr, pinned, backup, refused, faults>>

\* the cafe does not know the client or cannot add the message, and answers nothing else
DeliverIgnored(c, i) ==
  /\ IsNext(c, i, "each", "inbox") /\ session[c] # "none"
  /\ Fault
  /\ refused' = refused \cup {i}
  /\ Goes(c, After(c, {i}, {i}))
  /\ UNCHANGED <<berr, cafes>>

DeliverFails(c, i) ==
  /\ IsNext(c, i, "each", "inbox")
  /\ \/ session[c] = "none" /\ UNCHANGED <<faults, mailbox>>
     \/ /\ session[c] # "none" /\ Fault
        /\ mailbox' \in {mailbox, [mailbox EXCEPT ![c] = @ \cup {request[i].target}]}
  /\ Fails(c, After(c, {i}, {}))
  /\ UNCHANGED <<pinned, backup, refused>>
-----------------------------------------------------------------------------
(* Sessions, threads and restarts *)

Register(c) ==
  /\ session[c] # "valid" /\ c \notin leaving
  /\ session' = [session EXCEPT ![c] = "valid"]
  /\ UNCHANGED <<queue, adding, leaving, head, removed, flush, cafes, refused, dropped, stuck, faults>>

\* DeregisterCafe deletes the requests first
Deregister(c) ==
  LET gone == {i \in table : request[i].cafe = c}
  IN /\ session[c] # "none" /\ c \notin leaving
     /\ Fault
     /\ leaving' = leaving \cup {c}
     /\ table' = table \ gone
     /\ dropped' = dropped \cup gone
     /\ UNCHANGED <<added, request, adding, session, head, removed, flush, cafes, refused, stuck>>

DeleteSession(c) ==
  /\ c \in leaving
  /\ leaving' = leaving \ {c}
  /\ session' = [session EXCEPT ![c] = "none"]
  /\ UNCHANGED <<queue, adding, head, removed, flush, cafes, refused, dropped, stuck, faults>>

\* the access token expires, also where a goroutine holds it
Expire(c) ==
  /\ session[c] = "valid"
  /\ Fault
  /\ session' = [session EXCEPT ![c] = "expired"]
  /\ work' = [work EXCEPT ![c].stale = work[c].pc = "send"]
  /\ UNCHANGED <<queue, adding, leaving, head, removed, phase, page, next, toDelete, berr,
                 cafes, refused, dropped, stuck>>

RemoveThread(t) ==
  /\ t \notin removed
  /\ removed' = removed \cup {t}
  /\ UNCHANGED <<queue, adding, session, leaving, head, flush, cafes, refused, dropped, stuck, faults>>

\* threadsOutbox.Flush, which comes first in flushQueues, never returns: the
\* goroutines of later ticks wait for its mutex
Hang == ~stuck /\ stuck' = TRUE /\ UNCHANGED <<queue, adding, peer, flush, cafes, refused, dropped, faults>>

\* The node restarts: the tables are on disk.
Crash ==
  /\ Fault
  /\ stuck' = FALSE
  /\ adding' = [a \in Adder |-> Idle]
  /\ leaving' = {}
  /\ Batch({})
  /\ UNCHANGED <<queue, session, head, removed, cafes, refused, dropped>>
-----------------------------------------------------------------------------
Enqueue(a) ==
  \/ \E x \in Content : Store(a, x) \/ \E f \in Friend : InboxRequest(a, x, f)
  \/ \E t \in Thread : UpdateHead(a, t)

Adds(a) == ListSessions(a) \/ \E c \in Cafe : AddRow(a, c)

Handle(c) ==
  \/ Ask(c) \/ AskRefused(c)
  \/ \E x \in Content : Send(c, x) \/ SendRefused(c, x)
  \/ \E kind \in {"thread", "inbox"} : Pick(c, kind)
  \/ \E i \in Id : \/ ThreadGone(c, i) \/ ReadThread(c, i) \/ Upload(c, i) \/ UploadRefused(c, i)
                   \/ UploadFails(c, i) \/ Deliver(c, i) \/ DeliverIgnored(c, i)
                   \/ DeliverFails(c, i)

\* by the ticker; others call Flush when they have added a request
TickFlush == ~stuck /\ Flush

Flushing == NextPage \/ Recurse \/ \E i \in Id : Delete(i)

Next ==
  \/ \E a \in Adder : Enqueue(a) \/ Adds(a)
  \/ Flush \/ Flushing
  \/ \E c \in Cafe : Handle(c) \/ StoreFails(c)
  \/ \E c \in Cafe : Register(c) \/ Deregister(c) \/ DeleteSession(c) \/ Expire(c)
  \/ \E t \in Thread : RemoveThread(t)
  \/ Hang \/ Crash

Spec == Init /\ [][Next]_vars

\* Goroutines run on and failures are bounded.  The queue ticker calls Flush again
\* and again (core/main.go, runQueues), unless what it calls first hangs; nobody
\* needs to call it else.
Fairness == WF_vars(TickFlush) /\ WF_vars(Flushing) /\ \A c \in Cafe : WF_vars(Handle(c))

FairSpec == Spec /\ Fairness
-----------------------------------------------------------------------------
\* The cafe has what request i is about; a backup may be newer than the request.
Served(i) ==
  LET r == request[i]
  IN CASE r.kind = "store"  -> r.target \in pinned[r.cafe]
       [] r.kind = "thread" -> backup[r.cafe][r.target] >= r.version
       [] r.kind = "inbox"  -> r.target \in mailbox[r.cafe]

\* nothing is left to do: the request was deleted with its session, or its thread was removed
Moot(i) == i \in dropped \/ (request[i].kind = "thread" /\ request[i].target \in removed)

\* A request leaves the table only when its cafe has what it is about, or refused
\* it: whatever failed, expired, was lost from the slice or was cut off by a restart.
NothingForgotten == \A i \in 1..added : i \in table \/ Served(i) \/ Moot(i) \/ i \in refused

\* cafe_service.go:169 "Store stores (pins) content on a cafe and returns a list
\* of successful cids": content the outbox need not send again is pinned.
StoredIsPinned ==
  \A i \in 1..added : request[i].kind = "store" => i \in table \/ Served(i) \/ Moot(i)

\* Every request leaves the table, unless one stays whose cafe has no session
\* with a valid token, as a page of such requests holds back all later ones, or
\* the ticker hangs for good.
Unserved == \E i \in table : session[request[i].cafe] # "valid"
RequestsDrain == <>[]Unserved \/ <>[]stuck \/ \A i \in Id : (i \in table ~> i \notin table)
=============================================================================

---------------------------- MODULE CafeMailbox ----------------------------
(***************************************************************************)
(* One client's mailbox at one cafe, and the inbox the client fetches it   *)
(* into (core/cafe_inbox.go, CheckMessages and DeleteMessages with their   *)
(* handlers in core/cafe_service.go, repo/db/cafe_messages.go and          *)
(* repo/db/cafe_client_messages.go).                                       *)
(*                                                                         *)
(* The client asks for the oldest page of its mailbox, adds a row for each *)
(* message to its inbox, starts a flush and asks the cafe to delete a      *)
(* page.  The request names no messages: the cafe deletes what is oldest   *)
(* then.  Checks are started by the queue ticker (behind a flag) and by    *)
(* every notification (without it).  A flush starts a goroutine per row    *)
(* and does not wait for them.                                             *)
(*                                                                         *)
(* A date is the number of a delivery: it orders the rows as the cafe's    *)
(* date and rowid do.  The cafe keeps dates in seconds, PerSecond of them  *)
(* are the same one, and that is all the inbox can compare.                *)
(***************************************************************************)
EXTENDS Naturals, FiniteSets

CONSTANTS
  Msg,           \* message ids: hashes of the encrypted envelopes
  Checker,       \* goroutines that check for messages
  Handler,       \* bound: goroutines handling messages at a time
  PerSecond,     \* bound: deliveries that share a second
  PageSize,      \* inboxMessagePageSize
  GroupSize,     \* cafeInFlushGroupSize
  MaxAttempts,   \* maxDownloadAttempts
  None,
  MaxRedeliveries, \* bound: messages delivered once more
  MaxDownloadFailures, MaxHandleFailures, MaxRequestFailures, MaxCrashes \* bounds

ASSUME MailboxConstants ==
  /\ PerSecond \in Nat \ {0}
  /\ PageSize \in Nat \ {0} /\ GroupSize \in Nat \ {0} /\ MaxAttempts \in Nat \ {0}
  /\ MaxRedeliveries \in Nat /\ IsFiniteSet(Msg) /\ MaxDownloadFailures \in Nat /\ MaxHandleFailures \in Nat
  /\ MaxRequestFailures \in Nat /\ MaxCrashes \in Nat
  /\ None \notin Msg \cup Checker

VARIABLES
  mailbox,   \* the cafe's rows of the client: date of each message, 0 for none
  clock,     \* deliveries so far
  pings,     \* notifications under way; one that is lost stays
  inbox,     \* the client's cafe_messages: date of each message, 0 for no row
  attempts,  \* their attempts column
  checking,  \* CafeInbox.checking
  checker,   \* the checks under way
  flush,     \* the flush that holds the inbox mutex
  waiting,   \* some flush waits for the mutex
  handler,   \* the goroutines of batch
  delivered, \* history: messages that were delivered
  fetched,   \* history: messages that ever had a row in the inbox
  handled,   \* history: messages the threads service was done with
  gaveUp,    \* history: messages deleted after failed downloads
  downloads, \* history: failed downloads of each message
  stuck,     \* the goroutines of the queue ticker hang in threadsOutbox.Flush
  handleFailures, requestFailures, crashes

history == <<delivered, fetched, handled, gaveUp, downloads>>
bounds == <<stuck, handleFailures, requestFailures, crashes>>
vars == <<mailbox, clock, pings, inbox, attempts, checking, checker, flush, waiting,
          handler, history, bounds>>

Date == 0..(Cardinality(Msg) + MaxRedeliveries)

\* flagged: started through the flag; page: the fetched messages with their dates;
\* todo: those still to add; raced: since the page was fetched another check has
\* deleted one, a message of it was delivered again, or one came to fill it up
Check == [pc: {"idle", "fetch", "add", "delete", "count"}, flagged: BOOLEAN,
          page: [Msg -> Date], todo: SUBSET Msg, raced: BOOLEAN]
NoCheck == [pc |-> "idle", flagged |-> FALSE, page |-> [m \in Msg |-> 0], todo |-> {}, raced |-> FALSE]

\* offset: the last row of the page before
Flush == [on: BOOLEAN, offset: Msg \cup {None}]
NoFlush == [on |-> FALSE, offset |-> None]

\* attempts: the column as the flush listed it
Handle == [pc: {"idle", "handle", "delete"}, msg: Msg \cup {None}, attempts: Nat]
NoHandle == [pc |-> "idle", msg |-> None, attempts |-> 0]

TypeOK ==
  /\ mailbox \in [Msg -> Date] /\ clock \in Date /\ pings \in 0..clock
  /\ inbox \in [Msg -> Date] /\ attempts \in [Msg -> Nat]
  /\ checking \in BOOLEAN /\ checker \in [Checker -> Check]
  /\ flush \in Flush /\ waiting \in BOOLEAN
  /\ handler \in [Handler -> Handle]
  /\ delivered \subseteq Msg /\ fetched \subseteq Msg /\ handled \subseteq Msg /\ gaveUp \subseteq Msg
  /\ downloads \in [Msg -> Nat]
  /\ stuck \in BOOLEAN
  /\ handleFailures \in 0..MaxHandleFailures /\ requestFailures \in 0..MaxRequestFailures
  /\ crashes \in 0..MaxCrashes

Init ==
  /\ mailbox = [m \in Msg |-> 0] /\ clock = 0 /\ pings = 0
  /\ inbox = [m \in Msg |-> 0] /\ attempts = [m \in Msg |-> 0]
  /\ checking = FALSE /\ checker = [k \in Checker |-> NoCheck]
  /\ flush = NoFlush /\ waiting = FALSE
  /\ handler = [h \in Handler |-> NoHandle]
  /\ delivered = {} /\ fetched = {} /\ handled = {} /\ gaveUp = {}
  /\ downloads = [m \in Msg |-> 0]
  /\ stuck = FALSE /\ handleFailures = 0 /\ requestFailures = 0 /\ crashes = 0
-----------------------------------------------------------------------------
Rows(box) == {m \in Msg : box[m] # 0}

Second(date) == (date + PerSecond - 1) \div PerSecond

\* the oldest n of ms
Oldest(box, ms, n) == {m \in ms : Cardinality({x \in ms : box[x] <= box[m]}) <= n}

\* Mutant: ordered the other way round.
Newest(box) ==
  {m \in Rows(box) : Cardinality({x \in Rows(box) : box[x] >= box[m]}) <= PageSize}

\* the rows DeleteByClient deletes
DeletedPage(box) == Oldest(box, Rows(box), PageSize)

\* the checks after a step that may take their pages from the checks js
Raced(js) == [j \in Checker |-> IF j \in js /\ checker[j].pc \in {"add", "delete"}
                                THEN [checker[j] EXCEPT !.raced = TRUE] ELSE checker[j]]

\* the page of check j has m or room for m
Fits(j, m) ==
  LET page == Rows(checker[j].page)
  IN m \in page \/ Cardinality(page) < PageSize

\* a check ends; the flag is reset by the caller that set it
Ended(k, cs) ==
  /\ checker' = [cs EXCEPT ![k] = NoCheck]
  /\ checking' = (checking /\ ~checker[k].flagged)
-----------------------------------------------------------------------------
(* The cafe *)

\* handleDeliverMessage of a known client: insert or replace, with a new date,
\* and a notification.  A sender that restarts delivers a message again.
Deliver(m) ==
  /\ m \in delivered => clock - Cardinality(delivered) < MaxRedeliveries
  /\ delivered' = delivered \cup {m}
  /\ clock' = clock + 1 /\ pings' = pings + 1
  /\ mailbox' = [mailbox EXCEPT ![m] = clock + 1]
  /\ checker' = Raced({j \in Checker : Fits(j, m)})
  /\ UNCHANGED <<inbox, attempts, checking, flush, waiting, handler, fetched, handled,
                 gaveUp, downloads, bounds>>

(* Checks *)

\* CafeInbox.CheckMessages, by the ticker or the user
Tick(k) ==
  /\ checker[k].pc = "idle" /\ ~checking
  /\ checking' = TRUE
  /\ checker' = [checker EXCEPT ![k] = [NoCheck EXCEPT !.pc = "fetch", !.flagged = TRUE]]
  /\ UNCHANGED <<mailbox, clock, pings, inbox, attempts, flush, waiting, handler, history, bounds>>

\* handleNotifyClient: the cafe pings after a delivery
Notify(k) ==
  /\ checker[k].pc = "idle" /\ pings > 0
  /\ pings' = pings - 1
  /\ checker' = [checker EXCEPT ![k] = [NoCheck EXCEPT !.pc = "fetch"]]
  /\ UNCHANGED <<mailbox, clock, inbox, attempts, checking, flush, waiting, handler,
                 history, bounds>>

\* handleCheckMessages: the oldest page
Fetch(k) ==
  LET page == Oldest(mailbox, Rows(mailbox), PageSize)
  IN /\ checker[k].pc = "fetch"
     /\ checker' = [checker EXCEPT ![k] =
          [@ EXCEPT !.pc = "add", !.todo = page, !.raced = FALSE,
                    !.page = [m \in Msg |-> IF m \in page THEN mailbox[m] ELSE 0]]]
     /\ UNCHANGED <<mailbox, clock, pings, inbox, attempts, checking, flush, waiting,
                    handler, history, bounds>>

\* m is the next message of the page to save
IsNext(k, m) ==
  LET c == checker[k]
  IN c.pc = "add" /\ m \in c.todo /\ \A x \in c.todo : c.page[m] <= c.page[x]

\* inbox.Add
Add(k, m) ==
  /\ IsNext(k, m) /\ inbox[m] = 0
  /\ inbox' = [inbox EXCEPT ![m] = checker[k].page[m]]
  /\ attempts' = [attempts EXCEPT ![m] = 0]
  /\ checker' = [checker EXCEPT ![k].todo = @ \ {m}]
  /\ fetched' = fetched \cup {m}
  /\ UNCHANGED <<mailbox, clock, pings, checking, flush, waiting, handler, delivered,
                 handled, gaveUp, downloads, bounds>>

\* the row exists: the insert fails on its key and ends the check
AddFails(k, m) ==
  /\ IsNext(k, m) /\ inbox[m] # 0
  /\ Ended(k, checker)
  /\ UNCHANGED <<mailbox, clock, pings, inbox, attempts, flush, waiting, handler, history, bounds>>

\* Mutant: no flush for an empty page.
EmptyIsDone(k) ==
  /\ checker[k].pc = "add" /\ checker[k].todo = {}
  /\ IF Rows(checker[k].page) = {}
     THEN Ended(k, checker) /\ UNCHANGED waiting
     ELSE checker' = [checker EXCEPT ![k].pc = "delete"] /\ waiting' = TRUE /\ UNCHANGED checking
  /\ UNCHANGED <<mailbox, clock, pings, inbox, attempts, flush, handler, history, bounds>>

\* go inbox.Flush(); an empty page ends the check
Added(k) ==
  /\ checker[k].pc = "add" /\ checker[k].todo = {}
  /\ waiting' = TRUE
  /\ IF Rows(checker[k].page) = {}
     THEN Ended(k, checker)
     ELSE checker' = [checker EXCEPT ![k].pc = "delete"] /\ UNCHANGED checking
  /\ UNCHANGED <<mailbox, clock, pings, inbox, attempts, flush, handler, history, bounds>>

\* handleDeleteMessages: DeleteByClient names no messages ...
Delete(k) ==
  /\ checker[k].pc = "delete"
  /\ mailbox' = [m \in Msg |-> IF m \in DeletedPage(mailbox) THEN 0 ELSE mailbox[m]]
  /\ checker' = [Raced(Checker) EXCEPT ![k] =
       [NoCheck EXCEPT !.pc = "count", !.flagged = checker[k].flagged]]
  /\ UNCHANGED <<clock, pings, inbox, attempts, checking, flush, waiting, handler, history, bounds>>

\* ... and CountByClient comes after it: if more is waiting the check starts over
Count(k) ==
  /\ checker[k].pc = "count"
  /\ IF Rows(mailbox) = {}
     THEN Ended(k, checker)
     ELSE checker' = [checker EXCEPT ![k].pc = "fetch"] /\ UNCHANGED checking
  /\ UNCHANGED <<mailbox, clock, pings, inbox, attempts, flush, waiting, handler, history, bounds>>

\* sendCafeRequest fails, before the cafe handles the request or after
RequestFails(k) ==
  /\ checker[k].pc \in {"fetch", "delete", "count"}
  /\ requestFailures < MaxRequestFailures
  /\ requestFailures' = requestFailures + 1
  /\ Ended(k, checker)
  /\ UNCHANGED <<mailbox, clock, pings, inbox, attempts, flush, waiting, handler, history,
                 stuck, handleFailures, crashes>>
-----------------------------------------------------------------------------
(* CafeInbox.Flush, batch and handle *)

StartFlush ==
  /\ waiting /\ ~flush.on
  /\ waiting' = FALSE
  /\ flush' = [on |-> TRUE, offset |-> None]
  /\ UNCHANGED <<mailbox, clock, pings, inbox, attempts, checking, checker, handler, history, bounds>>

\* List: nothing is dated after an offset whose row is gone, and rows of the
\* offset's second wait for the next flush
Listed ==
  IF flush.offset = None THEN Oldest(inbox, Rows(inbox), GroupSize)
  ELSE IF inbox[flush.offset] = 0 THEN {}
  ELSE Oldest(inbox, {m \in Msg : Second(inbox[m]) > Second(inbox[flush.offset])}, GroupSize)

\* a goroutine for each row of the page
Spawn(ms) ==
  \E slot \in [ms -> {h \in Handler : handler[h] = NoHandle}] :
    /\ \A m, x \in ms : m # x => slot[m] # slot[x]
    /\ handler' = [h \in Handler |->
         IF \E m \in ms : slot[m] = h
         THEN LET m == CHOOSE m \in ms : slot[m] = h
              IN [pc |-> "handle", msg |-> m, attempts |-> attempts[m]]
         ELSE handler[h]]

FlushPage ==
  /\ flush.on /\ Listed # {}
  /\ Spawn(Listed)
  /\ flush' = [flush EXCEPT !.offset = CHOOSE m \in Listed : \A x \in Listed : inbox[x] <= inbox[m]]
  /\ UNCHANGED <<mailbox, clock, pings, inbox, attempts, checking, checker, waiting, history, bounds>>

FlushDone ==
  /\ flush.on /\ Listed = {}
  /\ flush' = NoFlush
  /\ UNCHANGED <<mailbox, clock, pings, inbox, attempts, checking, checker, waiting, handler,
                 history, bounds>>

\* downloaded, decrypted, and taken by the threads service, or not from its sender
HandleMessage(h) ==
  /\ handler[h].pc = "handle"
  /\ handled' = handled \cup {handler[h].msg}
  /\ handler' = [handler EXCEPT ![h].pc = "delete"]
  /\ UNCHANGED <<mailbox, clock, pings, inbox, attempts, checking, checker, flush, waiting,
                 delivered, fetched, gaveUp, downloads, bounds>>

DeleteRow(h) ==
  /\ handler[h].pc = "delete"
  /\ inbox' = [inbox EXCEPT ![handler[h].msg] = 0]
  /\ handler' = [handler EXCEPT ![h] = NoHandle]
  /\ UNCHANGED <<mailbox, clock, pings, attempts, checking, checker, flush, waiting, history, bounds>>

\* Mutant: an error of the threads service is logged and the row deleted.
ErrorIsHandled(h) ==
  /\ handler[h].pc = "handle"
  /\ handleFailures < MaxHandleFailures
  /\ handleFailures' = handleFailures + 1
  /\ handler' = [handler EXCEPT ![h].pc = "delete"]
  /\ UNCHANGED <<mailbox, clock, pings, inbox, attempts, checking, checker, flush, waiting,
                 history, stuck, requestFailures, crashes>>

\* it cannot be decrypted, or Handle fails: the row stays, no attempt is counted
HandleFails(h) ==
  /\ handler[h].pc = "handle"
  /\ handleFailures < MaxHandleFailures
  /\ handleFailures' = handleFailures + 1
  /\ handler' = [handler EXCEPT ![h] = NoHandle]
  /\ UNCHANGED <<mailbox, clock, pings, inbox, attempts, checking, checker, flush, waiting,
                 history, stuck, requestFailures, crashes>>

\* Mutant: the attempt of this download is counted twice.
GivesUpEarly(h) == handler[h].attempts + 2 >= MaxAttempts

\* the listed attempts and this one are all it gets
GivesUp(h) == handler[h].attempts + 1 >= MaxAttempts

\* DataAtPath fails
DownloadFails(h) ==
  LET m == handler[h].msg
  IN /\ handler[h].pc = "handle"
     /\ downloads[m] < MaxDownloadFailures
     /\ downloads' = [downloads EXCEPT ![m] = @ + 1]
     /\ IF GivesUp(h)
        THEN /\ inbox' = [inbox EXCEPT ![m] = 0]
             /\ gaveUp' = gaveUp \cup {m}
             /\ UNCHANGED attempts
        ELSE /\ attempts' = [attempts EXCEPT ![m] = IF inbox[m] # 0 THEN @ + 1 ELSE @]
             /\ UNCHANGED <<inbox, gaveUp>>
     /\ handler' = [handler EXCEPT ![h] = NoHandle]
     /\ UNCHANGED <<mailbox, clock, pings, checking, checker, flush, waiting, delivered,
                    fetched, handled, bounds>>

\* threadsOutbox.Flush, which comes first in flushQueues, never returns: the
\* goroutines of later ticks wait for its mutex
Hang ==
  /\ ~stuck /\ stuck' = TRUE
  /\ UNCHANGED <<mailbox, clock, pings, inbox, attempts, checking, checker, flush, waiting, handler,
                 history, handleFailures, requestFailures, crashes>>

\* the client restarts: its tables stay
Crash ==
  /\ crashes < MaxCrashes
  /\ stuck' = FALSE
  /\ crashes' = crashes + 1
  /\ checking' = FALSE /\ checker' = [k \in Checker |-> NoCheck]
  /\ flush' = NoFlush /\ waiting' = FALSE
  /\ handler' = [h \in Handler |-> NoHandle]
  /\ UNCHANGED <<mailbox, clock, pings, inbox, attempts, history, handleFailures, requestFailures>>
-----------------------------------------------------------------------------
Checking(k) ==
  \/ Fetch(k) \/ Added(k) \/ Delete(k) \/ Count(k)
  \/ \E m \in Msg : Add(k, m) \/ AddFails(k, m)

Flushing == StartFlush \/ FlushPage \/ FlushDone
Handling(h) == HandleMessage(h) \/ DeleteRow(h)

Next ==
  \/ \E m \in Msg : Deliver(m)
  \/ \E k \in Checker : Tick(k) \/ Notify(k) \/ Checking(k) \/ RequestFails(k)
  \/ Flushing
  \/ \E h \in Handler : Handling(h) \/ HandleFails(h) \/ DownloadFails(h)
  \/ Hang \/ Crash

Spec == Init /\ [][Next]_vars

TickerChecks == ~stuck /\ \E k \in Checker : Tick(k)

\* Goroutines run on; failures are bounded, so a message that is tried again and
\* again is downloaded and handled at last. The ticker checks again and again
\* (core/main.go, runQueues), unless what it calls first hangs; no delivery and
\* no call of the user is certain.
Fairness ==
  /\ WF_vars(TickerChecks)
  /\ \A k \in Checker : WF_vars(Checking(k))
  /\ WF_vars(Flushing)
  /\ \A h \in Handler : WF_vars(Handling(h))

FairSpec == Spec /\ Fairness
-----------------------------------------------------------------------------
\* A message the client ever saved still has its row, or the threads service is
\* done with it, or its downloads failed too often.
FetchedKept == \A m \in fetched : inbox[m] # 0 \/ m \in handled \cup gaveUp

\* A message is given up only after MaxAttempts downloads failed, also when two
\* flushes have started a goroutine for it and each counts from the attempts its
\* flush has listed.
GivenUpTried == \A m \in gaveUp : downloads[m] >= MaxAttempts

\* The page the cafe deletes is the one the client has saved, whatever arrived
\* after a full page was fetched. Excused are checks that overlap, a message of
\* the page that is delivered again, and one that arrives after a short page.
OnlyRacesLose ==
  [][\A k \in Checker : Delete(k) /\ ~checker[k].raced
       => DeletedPage(mailbox) = Rows(checker[k].page) /\ DeletedPage(mailbox) \subseteq fetched]_vars

\* cafe_service.go:303 "delete them from the remote so that more can be fetched":
\* what the cafe deletes was fetched.
DeletedWereFetched ==
  [][\A m \in Msg : mailbox[m] # 0 /\ mailbox'[m] = 0 => m \in fetched]_vars

\* A saved message is handled or given up in the end, however often downloads and
\* handling failed and checks ended early, unless a saved message stays in the
\* mailbox for good, when every check fails on its row and starts no flush, or
\* the ticker hangs for good.
Wedged == \E m \in Msg : inbox[m] # 0 /\ mailbox[m] # 0
SavedAreHandled ==
  <>[]Wedged \/ <>[]stuck \/ \A m \in Msg : (inbox[m] # 0 ~> m \in handled \cup gaveUp)
=============================================================================

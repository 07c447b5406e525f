# textile-go in TLA+

A textile node keeps *threads*: hash-linked logs of encrypted blocks that a group
of peers replicates over libp2p, with *cafes* (always-on peers) that store data
and keep mailboxes for peers that are offline. This directory holds TLA+ models
of that program, the TLC configurations that check them on small instances, and
TLAPS proofs of their main invariants for instances of any size.

## 1. The system

| component | state | operations | talks to |
|---|---|---|---|
| thread replica (`core/thread*.go`) | blocks table, `threads.head`, thread_peers (with `welcomed`), thread mutex | write a block, handle an inbound block, follow its parents, fast-forward or merge, welcome new peers, accept an invite, leave | IPFS, threads outbox |
| threads outbox (`core/threads_outbox.go`) | thread_messages table, its mutex | Add, Flush (batches of 16, one goroutine per peer) | P2P service, cafe outbox |
| cafe outbox (`core/cafe_outbox.go`) | cafe_requests table, its mutex | Add, InboxRequest, Flush | cafe service |
| cafe inbox and mailbox (`core/cafe_inbox.go`, `core/cafe_service.go`) | client: cafe_messages with attempt counts, `checking` flag; server: client messages | notify, CheckMessages (page of 10), delete page, Flush, retry up to 5 | threads service |
| cafe sessions (`core/cafe_service.go`, `jwt`) | nonces, clients, sessions | challenge, register, refresh, store, deliver, deregister | P2P service (HTTP or stream) |
| P2P service (`service/`) | one message sender (stream) per peer | SendRequest, SendMessage, NewStream, retry, invalidate | libp2p |
| node (`core/main.go`) | started/online flags, `done` channel, loaded threads | Start, Stop, runQueues, flushQueues | all of the above |
| files and ignores (`core/thread_files.go`, `core/thread_ignores.go`) | files table with targets, IPFS pins | add, handle, ignore, remove | IPFS, cafe outbox |
| broadcaster (`broadcast/`) | listener channels, mutex | Send, Listen, Close | API subscribers |
| threads registry (`core/threads.go`) | threads table, the slice of loaded threads, pending invites, the updates channel | AddThread, accept, ignore, RemoveThread | thread replica |
| desktop (`desktop/main.go`, `static/js/textile.js`) | `expanded`; the window's list, active entry, grid and pages | start, pump of the updates, auto-accept of invites, listing and clicks | threads registry, node |

A block travels like this. A writer takes the thread mutex, encrypts a block whose
header names HEAD as parent, stores it in IPFS, indexes it, makes it HEAD and hands
an envelope for every thread peer to the threads outbox. The outbox sends it to the
peer directly or, when that fails, to the peer's cafe inboxes. A receiver indexes
the block *first*, then fetches parents it does not have, recursively, and last puts
the block at HEAD: by fast-forward when HEAD is one of its parents, or below a new
merge block. A receiver that learns of a peer it has not greeted sends it its HEAD.

### What is hard about it

* Handlers, accepted invites and API calls are goroutines over one datastore.
  `handleHead` reads HEAD, and the fast-forward writes it, without the mutex that
  writers and merges hold.
* The walk over parents stops at any block that is already indexed. Two walks that
  meet each trust the other to finish, and a block is indexed before its parents.
* Messages arrive in any order, more than once, or through a cafe much later.
* A node may stop between any two datastore writes; nothing resumes a walk.
* Queues are flushed by several goroutines at once, in pages cut by a date.
* A member may leave and be invited again while its old messages are under way.

The complete list, each at its source line with the properties that watch it, is
`hazards` in `PROJECT.json`.

## 2. Plan

Most important first; each module is one component, written so that it can be proved
about (constants with named assumptions, one action per step, no RECURSIVE).

| | module | component | abstract specification | checked | proved |
|---|---|---|---|---|---|
| A | ThreadReplica | thread replica | CausalLog | done | ParentsAccounted, HeadAccounted, TipsCovered, AuthorsListed, refinement |
| B | ThreadsOutbox | threads outbox | | done | NothingLost, NoOvertaking, StoredFirst |
| C | CafeMailbox | cafe inbox and mailbox | | done | FetchedKept, GivenUpTried, OnlyRacesLose |
| D | CafeOutbox | cafe outbox | | done | NothingForgotten |
| E | CafeSession | registration, nonces, token refresh | | next | |
| F | MessageSender | per-peer stream of the service | | done | OwnAnswers, AtMostTwice, NoForgottenStream, SentUnlessReset |
| G | Broadcaster | broadcaster and its subscribers | | done | ReceivedInOrder |
| H | NodeLifecycle | start, stop, queue runner | | done | NodesAccounted, OnlineMeansServed, QueuesServed |
| I | ThreadsRegistry | threads table, loaded threads, invites | | done | LoadedMatchesRows, AcceptedMeansJoined |
| J | ThreadFiles | pins, files table, IGNORE blocks | | done | ShownAreKept, IgnoredAreReleased |
| K | Crc16, Strkey | checksummed keys against reference definitions | | | |
| L | Delivery | composes B, C and D: a thread message from the outbox of its writer to the threads service of an offline receiver | a bag of messages under way | | |
| M | Desktop | the desktop application on top of I | | done | ListedOnce, MainHidesSetup, GridFollowsActive |

Desktop EXTENDS ThreadsRegistry: its goroutines call the registry's operations and
drain its updates channel. MCNode checks F to I side by side and MCDesktop J and M:
the parts share no state and `part` chooses, at the start, which one moves, so their
states add up.

Runs wanted: for E two clients racing for one nonce and a refresh against an expiry;
for L one message, one cafe and one fault on each leg.

Theorems wanted: a nonce registers at most one client at a time (E), and what the
composition L delivers is what was posted. Of the invariants and action properties the
passing runs check, HeadAdvances alone has no theorem (section 5).

## 3. From the code to the modules

### ThreadReplica

One task slot is one goroutine of a node that works on the thread: an inbound stream,
an accepted invite or an API call. An action is one access to the datastore, the
thread mutex, IPFS or the network, so TLC interleaves goroutines between any two of
them; a restart can fall there too.

| state | code |
|---|---|
| `content` | IPFS: id -> kind, author, address, parents. Encrypted blocks get a fresh id each time; a merge block is plaintext, so equal content has an equal id (`IdOf`) |
| `head`, `index`, `members`, `unwelcomed` | `threads.head`, rows of `blocks`, rows of `thread_peers`, those with `welcomed = 0` |
| `loaded` | the row of `threads` and the loaded list |
| `mux` | `Thread.mux` |
| `net` | every envelope ever given to the outbox: it may arrive at any time, in any order, repeatedly or never |
| `lost`, `stray` | history: what was given up (parents that a failed fetch, a failed handler, a restart or a leave cut off), and tips that will not get to HEAD: their goroutine failed or died after it indexed them, their place at HEAD was overwritten, or they were shown between the two deletions of the own leave |

| actions | code |
|---|---|
| Receive, Unpeer, IndexInbound, IndexConflict, AddPeer | `ThreadsService.Handle`, `handleBlock`, `handle*Block`, `indexBlock`, `addOrUpdatePeer` |
| HandlerFails | `handleFilesBlock` and `handleIgnoreBlock` return an error after `indexBlock`: the parents are not followed, HEAD stays |
| FollowParent, ParentExists, FetchFails, FollowDone | `followParents`, `followParent` |
| ReadHead, FastForward, Merge, MergeFails, ReloadFails | `handleHead`, `updateHead`, `merge` |
| Welcome, Greet, GreetFails | `sendWelcome`, `WelcomeByThread` |
| AddInvite, Accept, AcceptHead, AcceptMark, Join | `AddInvite`, `AcceptThreadInvite`, `handleInviteMessage`, `joinInitial`/`join` |
| AddUpdate, CommitIndex, CommitConflict, CommitHead, PostBlock | `commitBlock`, `indexBlock`, `updateHead`, `post` of the local writers |
| CommitFails | `AddFiles` and `AddIgnore` return an error between `indexBlock` and `updateHead` |
| Cleanup, CleanupPeers, LeaveFails, RemoveThread | the deletions of `leave`, of the blocks and then of the peers, its errors, `Threads.RemoveThread` |
| Crash | the process ends and starts again |

`CausalLog` is the abstract specification: a log of blocks per replica, closed under
"parent of" up to an explicit debt. Nothing in it speaks of heads, merges, goroutines
or messages. `Log` in ThreadReplica maps the blocks table to the log and the parents
goroutines still have to follow, and do not yet show, to the debt.

Kinds of block that differ only in payload (files, ignores, likes, comments, flags,
messages) are one kind, `message`, whose handler may fail after it indexed the block as
those of files and ignores do. ANNOUNCE, JOIN, LEAVE and MERGE are kept apart because their
handlers touch peers, HEAD or the mutex in their own way.

### ThreadsOutbox

`table` holds the rows of `thread_messages`, numbered by date. `Flush` takes the mutex
and the oldest page; `Groups` starts one goroutine per receiver, whose messages go
through Send or SendFails, Prep (`prepForInbox`), Queue (a store request per own cafe,
then a request per inbox of the receiver), and the append to `toDelete`, split into
the read and the write of the slice because nothing locks it. NextPage is `wg.Wait`
with the listing that follows it, Delete and Recurse the rest of `batch`.
InboxRequestFails is the path that returns without `wg.Done`.

### CafeMailbox

One client and one cafe. `mailbox` holds the server's rows, `inbox` and `attempts` the
client's `cafe_messages`. Checkers are the goroutines in `CheckMessages`: by the
ticker through the `checking` flag, or by a notification past it. Fetch is
`handleCheckMessages`, Add the `inbox.Add` of one message; Delete and Count are the two
accesses of `handleDeleteMessages`, `DeleteByClient` and the `CountByClient` that makes its
`More` answer. A check is `raced` when something came into its page between the fetch and
the deletion: another check's deletion, a second delivery of one of its messages, or a
message that fits because the page was short (`Fits`). A flush lists pages and spawns a
goroutine per row (`handler`) that ends in HandleMessage and DeleteRow, HandleFails or
DownloadFails, as `handle` does. A date is the number of a delivery; the server keeps
it in seconds, so `PerSecond` of them compare as equal in the inbox. The ticker calls
`threadsOutbox.Flush`, `CheckMessages` and `cafeOutbox.Flush` one after the other
(`core/main.go:573`), and the first may never return (finding 2): from `Hang` on, `stuck`,
the ticker checks and flushes no more until a restart. CafeOutbox has the same step.

### CafeOutbox

`Adding` is a caller of `Add`, `InboxRequest` or `updateHead` that has listed the
sessions and adds its rows one by one. The goroutine of a cafe takes the types of its
group in any order: Ask, Send, SendRefused and StoreFails are `Store`, `sendObject` and
what the server's `handleStore` and `handleObject` answer; ReadThread, Upload,
UploadRefused and UploadFails are `StoreThread`; Deliver and DeliverFails
`DeliverMessage`, DeliverIgnored a delivery the cafe drops while it answers that all is well,
for a client it does not know or after an error of its datastore
(`core/cafe_service.go:771`). A failed action may have reached the cafe or not: the answer is lost
as easily as the request. Deregister and DeleteSession are the two steps of
`DeregisterCafe`. The racing append is modelled by its result: a nonempty subset of
what the goroutines appended. ThreadsOutbox splits it into steps and covers how such a
subset comes about.

### MessageSender

The goroutines that send to one peer (`Call`; `Request` those that wait for an
answer). `strmap`, `stream`, `invalid`, `lk` and `singleMes` are the fields of
`Service` and `messageSender`; `wire` is each stream with what was written and not yet
read, and `try` the retry flag. Found, MakeSender, Prepare, PrepareFails and Forget
are `messageSenderForPeer`; Lock, Prep, Write, Read and Finish are `SendRequest` and
`SendMessage`, with their failures, which reset the stream and retry once; HardClose
and CloseWhenRead are `Reset` and `FullClose`. Handle and HandlerFails are
`handleNewMessage` at the other end, Break the connection.

### Broadcaster

`m` is the mutex, kept by `Send` from its lock until every listener has the update;
`ch` the buffered channels. Listen, CheckClient, Receive, ReceiveEnds, CloseListener
are a subscriber of the API (`core/api_sub.go`), which sees that its client has left
only between two updates; CloseAll is `Broadcaster.Close`.

### NodeLifecycle

`caller` is the one holder of `Textile.mux`, in Start or Stop; `gpc` the goroutine
each Start leaves behind, `rpc` the queue runner that one starts. `createIPFS` is split
into Make, ClosePrevious and Attach, since the caller and the goroutine of an earlier
session may be in it at once. CloseFails is its return when the node before cannot be
closed: that one stays attached and the new one open (`leaked`). `touchDatastore` is two
steps, since a runner holds no mutex: Ping, where Start and FlushQueues go on from, and
Reopen, which replaces the datastore of the node (StartReopens, RunnerReopens). MakeQueues
is Start between the two and the IPFS node: the channel, the inbox and the outboxes with the
datastore they find. StopFails is `Stop` when the cafe API or the IPFS node cannot be
closed. Select keeps the channel that `t.done` named at that moment
(`watched`); Tick and Quit are the two cases of the select.

### ThreadsRegistry

`rows` and `invites` are the tables, `loaded` the slice `Textile.threads`. An adder
goes through Check, AddRow, Load (or LoadFails), the append split into read and write (with
what another append or removal in between makes of it: one of the two is lost, or both
share the array, or the splice panics),
the update on the channel, Join (or JoinFails) and DeleteInvite: `AddThread` and
`AcceptThreadInvite` with `loadThread`. A remover goes through Find, LeaveThread,
DeleteThreadRow, Splice and AnnounceRemoved: `RemoveThread`. What a JOIN or a LEAVE does
inside its thread is ThreadReplica's. The calls go on after a lost append (`raced`) with a
row without a loaded thread; only a panic ends the model (`broken`).

### ThreadFiles

A post is a FILES block with a target, a directory of files; `pinned` holds what IPFS
keeps, `fileRows` and `targets` the files table, `blocks` the FILES and IGNORE rows of
the blocks table. Arrive to AddTarget are `handleFilesBlock`, with IndexConflict when
another goroutine indexed the block meanwhile; WritePost to LockToPost the local way to
the same (`AddFile`, `AddNodeFromFiles`, `AddFiles`), ArriveIgnore, WriteIgnore and
IndexIgnore the IGNORE blocks; Look to DeleteRow are `ignoreBlockTarget`, `removeFiles`
and `deIndexFileLink`. The primary key of a row is what the file is the encryption of
(`ContentOf`), its targets are found by its hash. FetchFails is a node that cannot be
read, before the post is indexed or, at its links, after. Handlers take no lock, so a post
and an IGNORE with a file in common may be at work together: each goes on with what it has
read, and one may unpin what the other has just pinned (finding 5). `met` is the history of
the files this happened to; it is in no guard.

### Desktop

`main` is the goroutine that shows the threads it finds, `pump` the one that forwards
updates; both use the variable `expanded`. `window` is the queue of messages to the
window, `list` its entries, `loads` its `thread.load` messages without an answer. `Threads`
is the loop of `Textile.Threads` over the loaded threads, written as a recursive function.
An accepted invite is an adder of ThreadsRegistry; nothing on the desktop removes threads.

## 4. Runs

| run | instance | what it shows |
|---|---|---|
| replicas | 2 peers of one account, whose merges of the same parents are one block, 2 goroutines each. `RaceOrFaults`: one invite and 2 messages, or 1 message while two goroutines of the creator work; or 4 blocks with a message, a LEAVE or an ANNOUNCE and a restart, a failed fetch or handler, or a second invite | no interleaving of walks that stop at known blocks leaves a hole (ParentsAccounted), every childless block is HEAD or accounted for (TipsCovered), HEAD names a block that is shown or given up (HeadAccounted), the author of every JOIN and ANNOUNCE is listed (AuthorsListed), with handlers that fail half way or outlive the thread they work on |
| replica_live | 3 peers of two accounts, whose merges differ, 2 invites, 1 goroutine each | every update reaches every replica (EventuallyShared), every walk ends (DebtsPaid), every step is a step of CausalLog (LogSpec); HEAD moves only to blocks above it (HeadAdvances), which holds where one goroutine of a peer works at a time and fails with two (finding 1) |
| outbox | 4 messages for 2 receivers, pages of 2, 2 flushers, 1 error, 1 restart | a row goes only when handled (NothingLost), no message overtakes an older one of its receiver (NoOvertaking), content is queued before its name (StoredFirst), the table drains unless the error wedged a flush (QueueDrains) |
| mailbox | pages of 2, two messages a second. Either 3 messages, one delivered again, and 2 checks that overlap (`Overlapping`); or 2 messages, 1 check at a time and 2 goroutines that handle one group after the other, 2 failed downloads, 1 failed handling, request or restart (`OneByOne`) | a message is given up only after its share of downloads failed, with two goroutines that count (GivenUpTried); a saved row goes only when handled or given up (FetchedKept); what the cafe deletes is the page that was fetched and saved, whatever is delivered after a full page (OnlyRacesLose); every saved message is handled in the end (SavedAreHandled) unless one of them stays in the mailbox too or the ticker hangs |
| cafe_outbox | either 2 cafes and 2 requests of any type with 1 fault of any kind (`TwoCafes`), or 1 cafe and 3 requests in groups of 2 with 1 fault (`OneCafe`) | a request leaves the table only when served, moot or refused (NothingForgotten), and does leave it unless one waits for a cafe without a valid token or the ticker hangs (RequestsDrain) |
| node | 3 calls to one peer (2 requests, 1 message), 1 break; 2 subscribers with channels of 1, 2 updates; 2 sessions, 2 failures; 1 stored thread, 2 invites to another, 1 new one, 3 calls by 2 adders and 2 removers, 1 error | sender: an answer is that to one's own request (OwnAnswers), an envelope is handled twice at most (AtMostTwice), no open stream is forgotten (NoForgottenStream), what is reported as sent arrives unless its stream is reset (SentUnlessReset), calls return (CallsEnd). Broadcaster: updates arrive once and in order under reused ids (ReceivedInOrder), Sends and closings end unless they wait for each other (SendsEnd). Lifecycle: no IPFS node is closed twice or left open, but one that createIPFS gave up (NodesAccounted), an online node serves with what is attached and its queues have an open datastore, although runners reopen it (OnlineMeansServed), it keeps its queue runner (QueuesServed), and a stopped one loses them (RunnersStop). Registry: the slice is the table unless calls clashed or appends raced (LoadedMatchesRows), a deleted invite is to a thread that was loaded and joined, or whose join failed or is under way (AcceptedMeansJoined) |
| desktop | the account thread, 1 more or none, 2 invites to a further one, 1 click, 1 error; files: 2 goroutines, 2 targets with a file in common, 3 posts, two of them of one target and one local, 2 files of one content, an inbound and a local IGNORE. Either 1 failure or restart and no two at one file at a time (`files`), or a post and an IGNORE in any interleaving (`meeting`) | desktop: every loaded thread is listed (ListedEventually), twice only if announced and found (ListedOnce); no threads behind the setup page (MainHidesSetup); the grid is that of the active entry (GridFollowsActive). Files: what a post shows is pinned and indexed whatever is ignored around it, but for files the two were at together (ShownAreKept); an ignored post holds nothing, in either order of arrival (IgnoredAreReleased) |
| lost_update | 2 peers of one account, 2 goroutines each, 2 messages | finding 1 |
| flush_wedged | 2 messages, 1 error | finding 2 |
| unfetched_deleted | 2 messages, 1 checker | finding 3 |
| store_refused | 2 cafes, 2 requests, 1 fault | finding 4 |
| shared_unpinned | as desktop, without failures | finding 5 |

Four runs put several scenarios of one specification side by side; their MC module says what
each leaves out, and it chooses among them at the start (`overlap`, `single`, `part`) or
bounds the states (`RaceOrFaults`). What liveness depends on is never bounded that way: in
MCCafeOutbox and in the second scenario of MCCafeMailbox every fair step can be taken where
the specification can take it. The first scenario of MCCafeMailbox starts no flush and is
about safety alone.

**Bounds.** The numbers of peers, messages and failures are bounds of the instances,
never of the code. Two peers with two goroutines are the smallest instance in which a
local writer, an inbound handler and a merge meet on both sides of the network; five
block ids leave room for the first JOIN, the JOIN of the invited peer, two updates and a
merge. `Workers` bounds how many slots of a peer are taken at once. Two at the creator
are what a merge needs to find its own block indexed by another goroutine; a LEAVE under
a running handler needs two at the other peer, and there the constraint leaves the
creator one. Three peers (replica_live) are needed for an update that reaches a peer
only through another one. Four messages in pages of two make a first page with both
receivers, a second page, and a message that must wait for one on an earlier page. In
the mailbox three messages and pages of two are a full page, a short one, and a message
behind a full page; a second delivery gives a row a new date while its page is under
way, and two checks are the ticker's and a notification's. Groups of one row make every
flush go on to a next page, and two goroutines are the two copies of one row that
overlapping flushes handle. `MaxAttempts` is 2 (5 in the code) since what matters is one
failure before the last. Three requests in groups of two (cafe_outbox) are a full page,
whose group may fail half way, and a request that this holds back. Three calls on one
stream are an owner, one that waits for the lock, and a third that finds the stream
broken by the second; with `ReuseTries` 0 (3 in the code) the first reuse failure
already gives up on sharing, which is the branch the other values reach later. Two
sessions let the goroutines of the first run into the second Start; two adders and two
removers make every pair of racing calls. All counters that never decrease in the code
(deliveries, requests, HEAD versions, failures, restarts) are bounded in the guards by
the constants marked `bound`.

**Deadlock** is not checked: each system may come to rest when its bounded events are
used up and no one writes. That work under way ends is checked as liveness instead.

**Symmetry** (of goroutine slots) is used in runs of safety properties only.

**Fairness.** Weak fairness of a goroutine's own steps: the Go scheduler runs on what is
runnable, and reads from peer streams and from IPFS have deadlines, so a step that can
happen or fail does one or the other. Two things have none: the HTTP client for cafes
(`service/main.go:142`) and writes to a peer stream (`service/sender.go:198`). That a
cafe which took a connection answers or closes it, and that a peer reads or its
connection breaks, are assumptions about the network, made in mailbox, cafe_outbox,
outbox and node. Failures are bounded and not fair: the liveness properties say what
happens once they stop. The flushes and checks of the queue ticker are weakly fair
because `runQueues` starts them at every tick (`core/main.go:543`), but in mailbox and
cafe_outbox only as long as what the ticker calls first returns: `TickerChecks` and
`TickFlush` need `~stuck`, and SavedAreHandled and RequestsDrain promise nothing once
the ticker hangs for good. In outbox it is that hang itself that QueueDrains excludes.
No fairness is assumed of users, deliveries, registration, restarts or notifications; in
replica_live the steps of an envelope's receiver are fair, that is, a message given to
the outbox arrives in the end, which is what the outbox runs show. In node the steps of
calls (a read has a timeout), of subscribers and senders, of the caller of Start and
Stop and of its goroutines are weakly fair; so is each queue runner, and its Quit is
strongly fair, since a select with a tick and a closed channel ready chooses at random.
In desktop the goroutines and the window's event loop are weakly fair, users are not.

## 5. Proofs

TLAPS checks every step. The assumptions are `ThreadConstants`, `OutboxConstants`,
`MailboxConstants`, the ones of CafeOutbox, `SenderConstants`, `BroadcastConstants`,
`LifecycleConstants`, `RegistryConstants`, `DesktopConstants` and `FilesConstants`
(types of the constants; None is no peer, block or goroutine; the set of messages is
finite; a thread the user creates is no invite's and not stored before; a target has
files; hashes of posts and IGNOREs, of files and targets differ), which TLC evaluates.
Every component also has the theorem that all its variables keep their type.

*ThreadReplica_proofs*: `TypeCorrect`, `NoSilentHole` (ParentsAccounted) and
`HeadKnown` (HeadAccounted) for any number of peers, goroutines, blocks, restarts and
failures. ParentsAccounted alone is not inductive: a goroutine may die, or its handler fail, with a
block in hand, so `IInv` adds what a goroutine holds at each label (`TaskOK`: only a walk owes
parents, a block that is not one of them is the inbound block itself), that blocks
name written parents only, and that envelopes name written blocks. One lemma per
action shows `IInv` kept; `Step` and `TaskStep` hold what the many steps share that
touch one task and at most one table.

On top of `IInv` a second invariant, `HandInv`, gives `NoForgottenTip` (TipsCovered) and
`AuthorsKnown` (AuthorsListed). TipsCovered counts every block a goroutine has in hand;
that is too weak to be inductive, since of two goroutines with the same block the one
that lost the race to index it ends. `Carries` therefore counts a block only from when
its goroutine has indexed it itself, and `HandsOK` says that whatever a goroutine lets go
of, or replaces at HEAD, has a child by then. A tip also counts while its thread is not
loaded, because the thread may be accepted again. A goroutine whose handler fails, and one
that shows a block after the own leave deleted the others, leave a tip in `stray`; with the
second deletion of a leave the peers are gone too, so AuthorsListed excuses what was shown
between the two.

A further section has `ImplementsCausalLog`, Spec => LogSpec. Most actions are a
stutter of the log: `Stutter` shows it when neither the blocks table nor what is owed
changes. The others map to Show (indexing), Write (writing), Owe (accepting), WriteOff
(a failed fetch, a failed handler or a restart) and Forget (leaving).

*ThreadBlocks_proofs* has what the blocks of a thread promise. `LogClosed` is the property
the abstract log is for. `ShownStayKept` (ShownAreKept) and `IgnoredAreLetGo`
(IgnoredAreReleased) are about ThreadFiles, for any number of posts, files, workers,
failures and restarts. ShownAreKept speaks of posts that are through; the invariant follows
the two ways to get or lose a pin. A post under way has pinned and indexed what it went
through so far, and an IGNORE under way gives up files of no shown post that stays, but for
files in `met`: the two handlers had them in hand together and each may have undone the
other (`Safe`, of `AddSafe`, `DeleteSafe` and `Kept`). It holds always and gives
ShownAreKept. IgnoredAreReleased needs more, and only until the first such meeting
(`Calm`): a post under way holds exactly what it went through (`AddOK`), an IGNORE under
way found no other post of its target (`IgnoreOK`), a target which is held has a post, one
on its way or one that was cut off (`UsedOK`), and both promises are stated for workers
under way (`ReleasedOK`, `PinnedOK`).

*ThreadsOutbox_proofs*: `RowsOutliveFailures` (NothingLost), `OrderKept`
(NoOvertaking) and `ContentBeforeName` (StoredFirst) for any number of messages,
receivers and flushers and any page size. The inductive invariant says that the page
in hand is a prefix of the table up to handled rows, that each of its messages is with
its goroutine or handled, and that a goroutine's requests up to the one at hand are
queued.

*CafeOutbox_proofs*: `RequestsOutliveFailures` (NothingForgotten) for any number of
requests, cafes, threads, page sizes, failures and restarts. What is served must stay
served, so the invariant follows the HEADs: a request asks for a HEAD the thread has
had, a goroutine about to upload holds one that is neither older than the request nor
than the backup the cafe has, and only the goroutine of a cafe changes that backup
while it does (`Uploads`). The ids the goroutines and the slice hold are settled.

*CafeMailbox_proofs*: `RowsOutliveChecks` (FetchedKept), `GivesUpLate`
(GivenUpTried) and `QuietDeletesAreSafe` (OnlyRacesLose) for any number of messages,
checks and goroutines, any page sizes, failures and restarts. The invariant says that
a check has saved the rows of its page that it no longer has to, that a row about to be
deleted was handled, and that neither the attempts column nor the copy a goroutine
listed exceeds the downloads that failed. Its page stays the oldest one in the mailbox
unless the check is `raced`: a full page because later deliveries have later dates
(`ClockOK`, `DatesOK`), a short one because nothing was delivered. That a page has a last
row (the offset of the next one) rests on the well-foundedness of the naturals (`Latest`).

*MessageSender_proofs*: `EveryAnswerIsOwn` (OwnAnswers), `NeverThreeTimes`
(AtMostTwice), `NoStreamForgotten` (NoForgottenStream) and `NothingSentIsLost`
(SentUnlessReset) for any number of calls, breaks and reuse tries. The answers are right
because at most one request is ever due on a stream and only the holder of the lock
waits for it (`StreamsOK`: a stream that somebody has is quiet or its one answer is that
reader's). An envelope is on one stream at a place of its own and has been handled less
often than written (`CopiesOK`), and a sender that may still open a stream is the one in
the map (`MapOK`).

*Desktop_proofs* holds the registry and the desktop on top of it. `SliceMatchesTable`
(LoadedMatchesRows) and `InviteOutlivesJoin` (AcceptedMeansJoined) for any number of
threads, invites, goroutines, errors and calls. Each row belongs to one adder or to a
thread that could not be loaded (`AddingOK`, `RowsOK`), whatever the slice has lost. While
no removers clashed and no append raced, the slice has every row but those
(`Matching`), and a remover's thread until its Splice (`LeavingOK`). Whoever has seen a
thread in the slice can rely on an adder that joins it, failed to or is about to
(`AccountedOK`).

For the desktop: `ThreadsListedOnce` (ListedOnce), `SetupIsHidden` (MainHidesSetup) and
`GridIsOfActive` (GridFollowsActive), for any number of threads, invites, goroutines,
messages under way and clicks. The registry's invariant holds along since each step of the
desktop is one of the registry's or none of its business (`DesktopOfRegistry`). Nothing on
the desktop removes a thread, so its row stays and one adder has it, which appends it once:
the thread is in one cell of `Textile.threads` and of what adders have read of it, whatever
appends lose or bring back (`PlacesOK`). A thread to be announced is in one place on its way
from its adder to the window (`OnceOK`), what the main goroutine found goes there in one
message (`FoundOK`), so an entry has these two causes and no more (`EntriesOK`); that it is
still a loaded thread needs that no appends raced (`ShownOK`). Who expands the window has
sent `preready` before, and the queue keeps the order (`HiddenOK`); of the loads without an
answer the last is that of the active entry (`GridOK`). That the main goroutine finds loaded
threads, each once (`ThreadsFound`), is about the recursive function `Threads`: the induction
theorems of the library are out of reach, so it goes by a least index at which the claim
fails (`LeastNat`, from the well-foundedness of the naturals).

*Node_proofs*: for the lifecycle `NoNodeLeaks` (NodesAccounted), `OnlineServes`
(OnlineMeansServed) and `QueuesKept` (QueuesServed) for any number of sessions and
failures. Until two calls of createIPFS overlap (`crossed`), no goroutine but that of the
current session is under way (`AloneOK`), the open IPFS nodes are the attached one, the
one being made and those given up (`OpenOK`, `HasOK`), the datastore the queues were made
with stays open until Stop closes the node's, which a runner may have replaced meanwhile
(`DbOK`), and a runner waits for the channel of its own session unless it looked too early
(`RunnersOK`). For the broadcaster `UpdatesInOrder`
(ReceivedInOrder) for any number of subscribers and senders and any capacity: the ids the
subscribers keep and the map agree (`RegistryOK`), only the holder of the mutex has
listeners left to send to, and what a subscriber has heard, plus the update on its way to
it, is the log since it began (`InOrder`).

Only model-checked: the liveness properties (EventuallyShared, DebtsPaid, QueueDrains,
SavedAreHandled, RequestsDrain, CallsEnd, SendsEnd, RunnersStop, ListedEventually), which
rest on fairness, and HeadAdvances, which holds of one goroutine at a time.
FastForwardFromParent, FlushEnds, DeletedWereFetched, StoredIsPinned and UsedAreKept are
violated by the code (findings 1 to 5).

## 6. Findings

With a run each:

1. *lost_update*: `handleHead` reads HEAD and fast-forwards without the mutex
   (`core/thread.go:505`); a block written locally in between loses its place at HEAD.
   It stays in the blocks table but nothing will name it as a parent.
2. *flush_wedged*: a batch goroutine whose InboxRequest fails returns without
   `wg.Done()` (`core/threads_outbox.go:97`): the flush waits for ever with the mutex.
3. *unfetched_deleted*: `DeleteMessages` names no messages (`core/cafe_service.go:305`);
   a message that arrives between the fetch and the deletion of a short page is deleted
   unseen.
4. *store_refused*: `sendObject` drops the cafe's answer (`core/cafe_service.go:476`):
   objects refused for an expired token are reported as stored.
5. *shared_unpinned*: an IGNORE looks at the targets of a file and unpins it in two steps
   (`core/thread_files.go:439`), and the handlers of posts take no lock. A post of the same
   file may pin it and add its target in between: it is shown and its file is gone,
   although `core/thread_files.go:202` keeps files "used by another target".

Seen while modelling, without a run of their own:

* The address in a merge header is the account's (`core/thread.go:372`), so the merges
  two accounts write of the same parents differ, although `core/thread_merges.go:26`
  wants them identical: each may merge the other's merge again. No run asks whether that
  ends.
* A handler of files or ignores that fails after it indexed the block
  (`core/thread_files.go:188`, `core/thread_ignores.go:80`) follows no parents and leaves
  HEAD, and a repeated delivery is ignored as known: a hole and a tip that stay.
* Blocks are indexed newest first, so a LEAVE is handled before an older JOIN of the
  same peer, which then lists the peer again (`core/thread_leaves.go:58`).
* With two goroutines `WelcomeByThread` (`core/thread.go:572`) marks peers that were
  added after the list was read, and nobody greets them.
* Accepting an invite marks the peers it discovered as welcomed before it writes the JOIN
  that tells them (`core/threads.go:295`); after a restart in between nobody is told.
* The JOIN of a peer that could not fetch the invite's ancestry is posted to nobody
  (`core/thread_joins.go:61`, `core/threads.go:197`).
* The cafe answers a delivery with success when it does not know the client or could not
  store the message (`core/cafe_service.go:771`): the sender drops its request.
* `flushQueues` runs its three flushes in one goroutine (`core/main.go:573`): when finding 2
  hangs the first, no tick checks for messages or flushes the cafe outbox again.
* Overlapping flushes can try a download more often than `maxDownloadAttempts`
  (`core/cafe_inbox.go:21` and `:154`).
* A row that stays in both the mailbox and the inbox (a deletion that failed, then a
  download that keeps failing) makes every later check end at its insert, before the
  flush (`core/cafe_service.go:297`): SavedAreHandled excludes it by `Wedged`.
* A Send that waits for a full listener keeps the mutex its subscriber needs to leave
  (`broadcast/main.go:44`): SendsEnd excludes it by `Wedged`.
* The goroutine of a Start reads `t.done` and `t.online` when it gets there
  (`core/main.go:309`, `:560`): a runner that looked before the next Start made its
  channel waits for that of another session. A flush can reopen the datastore after
  Stop closed it, and `touchDatastore` reopens it with an empty pin.
* createIPFS attaches the new node last (`core/main.go:530`): when the previous one cannot be
  closed the new one stays open and nobody has it (`leaked`).
* A runner that pinged the datastore after Stop closed it may replace the one that Start
  reopened and made its queues with (`core/main.go:656`). Both are open; Stop closes the
  node's, and the other one stays open.
* Two calls of RemoveThread of one thread take out two places of the slice
  (`core/threads.go:123`): LoadedMatchesRows excludes it by `clashed`. Appends of two adders,
  or an append and a removal (`core/main.go:629`), lose a thread that has a row, or bring
  back a removed one: it excludes them by `raced`.
* An accept that fails after its thread was loaded leaves a thread without JOIN, and the
  next accept of its invite finds the thread and deletes the invite
  (`core/threads.go:304`).
* `handleFilesBlock` looks for IGNOREs before it indexes the post
  (`core/thread_files.go:104`); of a post and its IGNORE handled at the same time neither
  may see the other, and the files stay pinned. IgnoredAreReleased excludes it by `met`.
* A second IGNORE of a post finds no row to take the target from and fails after it was
  indexed (`core/thread_files.go:435`), so it never becomes HEAD and its parents are not
  followed. Two posts of one target that are both ignored are never released: ignored
  posts count (`core/thread_files.go:213`).
* A post of a file whose content the receiver has under another key fails: the conflict
  on (mill, checksum) is taken for "file exists" (`core/thread_files.go:171`,
  `repo/db/db.go:206`) and no row has its hash.
* A restart between RemoveTarget and Delete (`core/thread_files.go:435`, `:447`) leaves a
  pinned file of no target.
* `thread.update` carries its block type as a string and the window compares it with
  numbers, so no update ever changes the grid; `getThreadPhotos` of `desktop/main.go`
  returns an empty page; on the first run the account thread is announced and listed,
  which hides the setup page. `removeThread` of `textile.js` and
  `initPhotoSwipeFromDOM` of `photoswipe.js` are called by nothing.

## 7. Not modelled

External invites (the key travels in a link), the permission checks of the thread types,
and notifications are left out of ThreadReplica: they change which blocks a peer may
write, not how blocks are replicated. Cryptography and hashing are taken as ideal. Of
the datastore's errors only those named above are modelled. The client of CafeMailbox is
one the cafe knows; CafeOutbox has the deliveries it drops. In the threads outbox two
rows never have the same date (nanoseconds). In ThreadFiles a schema pins every file;
validation, nested link directories (pinned and never unpinned) and the store requests
files leave in the cafe outbox are left out. go-astilectron, which carries the desktop's
messages in order, is external; the JavaScript under `static/lib` is third-party. Cafe
registration and sessions (E) are modelled only as far as the cafe outbox sees them
(expiry, refusal, deregistration); checksums and key encoding (K) are conversions of
strings byte by byte. Components without a module are listed in `PROJECT.json` with the
reason; E, K and L of the plan are the ones that remain.

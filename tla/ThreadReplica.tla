--------------------------- MODULE ThreadReplica ---------------------------
(***************************************************************************)
(* One textile thread, replicated by peers that exchange encrypted blocks  *)
(* (core/thread.go, core/thread_service.go, core/thread_*.go).             *)
(*                                                                         *)
(* A block is an IPFS object that names its parents by hash.  Each peer    *)
(* keeps an index of the blocks it has handled, one HEAD, and the list of  *)
(* thread peers it posts to.  Every inbound stream, every accepted invite  *)
(* and every local API call is a goroutine; the thread mutex is taken by   *)
(* local writers and by merge(), but not by the inbound handler's          *)
(* fast-forward.  One task slot stands for one goroutine, and one action   *)
(* for one access to the datastore, the mutex, IPFS or the network.        *)
(***************************************************************************)
EXTENDS Naturals, FiniteSets

CONSTANTS
  Peer,             \* the peers that may take part
  Creator,          \* the peer that created the thread
  Block,            \* ids (hashes) that content can be given
  Genesis,          \* the JOIN block written by joinInitial
  Slot,             \* goroutines a peer can have working on the thread
  LocalKind,        \* kinds of block the users write: subset of UpdateKind
  Address,          \* account addresses
  AddressOf,        \* the account address of each peer
  Inviter,          \* peers whose users send invites
  None,             \* "no block", "no peer", the empty HEAD
  Workers,          \* bound: goroutines a peer has working at once
  MaxCrashes,       \* bound: node restarts
  MaxFailures,      \* bound: failed fetches and failed handlers
  MaxInvites,       \* bound: invites sent
  MaxUpdates        \* bound: blocks the users write

UpdateKind == {"message", "announce", "leave"}

ASSUME ThreadConstants ==
  /\ Creator \in Peer /\ Genesis \in Block
  /\ None \notin Peer \cup Block \cup Address \cup Slot
  /\ AddressOf \in [Peer -> Address]
  /\ Workers \in [Peer -> Nat]
  /\ LocalKind \subseteq UpdateKind /\ Inviter \subseteq Peer
  /\ MaxCrashes \in Nat /\ MaxFailures \in Nat /\ MaxInvites \in Nat
  /\ MaxUpdates \in Nat

VARIABLES
  content,  \* IPFS: what each block id holds (kind "none": not written yet)
  net,      \* envelopes ever handed to the threads outbox
  loaded,   \* the peer has the thread in its datastore and its loaded list
  head,     \* threads.head
  index,    \* rows of the blocks table
  members,  \* rows of thread_peers
  unwelcomed, \* thread_peers rows with welcomed = 0
  mux,      \* holder of Thread.mux
  task,     \* the goroutines
  lost,     \* history: blocks this replica dropped or gave up following
  stray,    \* history: tips whose task ended or whose HEAD was overwritten, and what
            \* was shown between the two deletions of a leave
  crashes, failures, invites   \* counters of the bounded events

replica == <<head, index, members, unwelcomed>>
bounds == <<crashes, failures, invites>>
vars == <<content, net, loaded, head, index, members, unwelcomed, mux, task,
          lost, stray, crashes, failures, invites>>

Kind == UpdateKind \cup {"join", "merge", "invite"}

Content == [kind: Kind \cup {"none"}, author: Peer \cup {None},
            address: Address \cup {None}, parents: SUBSET Block]

Unwritten == [kind |-> "none", author |-> None, address |-> None, parents |-> {}]

Envelope == [kind: {"block", "invite"}, from: Peer, to: Peer, block: Block \cup {None}]

Label == {"idle", "unpeer", "index", "peer", "follow", "head", "ff", "merge",
          "welcome", "greet", "accepthead", "acceptmark", "commit",
          "commitindex", "commithead", "post", "cleanup", "cleanuppeers", "remove"}

\* kind: the block being written ("invite" while an invite is accepted, "none"
\* while an inbound block is handled); top: the inbound block; cur: the block
\* being indexed; todo: parents still to follow; base: HEAD as the task read it;
\* list: the unwelcomed peers sendWelcome read
Task == [pc: Label, kind: Kind \cup {"none"}, top: Block \cup {None},
         cur: Block \cup {None}, todo: SUBSET Block,
         base: Block \cup {None}, list: SUBSET Peer]

Idle == [pc |-> "idle", kind |-> "none", top |-> None, cur |-> None,
         todo |-> {}, base |-> None, list |-> {}]
-----------------------------------------------------------------------------
Set(p, s, t) == task' = [task EXCEPT ![p][s] = t]

\* the bound on the goroutines of a peer that work on the thread at once
Spare(p) == Cardinality({s \in Slot : task[p][s] # Idle}) < Workers[p]

Parents(b) == content[b].parents

\* a fresh id for new content: ciphertexts are randomised, so never a repeat
Fresh == CHOOSE b \in Block : content[b].kind = "none"
HasFresh == \E b \in Block : content[b].kind = "none"

\* the id of a plaintext block is the hash of its content
IdOf(c) == IF \E b \in Block : content[b] = c
           THEN CHOOSE b \in Block : content[b] = c ELSE Fresh

\* Mutant: splitting an empty HEAD yields one empty parent.
HeadParentsUnfiltered(p) == {head[p]}

\* HEAD as the parents of a new block: none when the thread is empty
HeadParents(p) == {head[p]} \ {None}

\* Mutant: only one of a merge block's parents is followed.
FirstParentOnly(b) == IF Parents(b) = {} THEN {} ELSE {CHOOSE c \in Parents(b) : TRUE}

\* the parents followParents is called with after b was indexed
ParentsToFollow(b) == Parents(b)

\* Mutant: the announce handler does not collect its author.
CollectsJoinsOnly(b) == content[b].kind = "join"

\* blocks whose handler adds the author to the thread's peers
CollectsAuthor(b) == content[b].kind \in {"join", "announce"}

\* Mutant: any inbound block fast-forwards.
AlwaysFastForwardable(p, b) == TRUE

FastForwardable(p, b) == head[p] = None \/ head[p] \in Parents(b)

\* where a handler starts on block b: LEAVE removes the peer before it indexes
Entry(b) == IF content[b].kind = "leave" THEN "unpeer" ELSE "index"

Unlocked(p, s) == [mux EXCEPT ![p] = IF mux[p] = s THEN None ELSE mux[p]]

\* Threads().UpdateHead: no row, no effect.  A tip is stray from here on when
\* the write replaces a HEAD other than the one the task had read.
UpdateHead(p, b, base) ==
  IF loaded[p]
  THEN /\ head' = [head EXCEPT ![p] = b]
       /\ stray' = [stray EXCEPT ![p] = @ \cup ({head[p]} \ {None, b, base})]
  ELSE /\ stray' = [stray EXCEPT ![p] = @ \cup {b}]
       /\ UNCHANGED head

\* the task ends in an error; what it indexed as its own tip stays behind
Abort(p, s) ==
  /\ Set(p, s, Idle)
  /\ mux' = Unlocked(p, s)
  /\ stray' = [stray EXCEPT ![p] = @ \cup ({task[p][s].top} \ {None})]
-----------------------------------------------------------------------------
\* AddThread with Join: the creator's thread holds one JOIN block
Init ==
  /\ content = [b \in Block |-> IF b = Genesis
                                THEN [kind |-> "join", author |-> Creator,
                                      address |-> AddressOf[Creator], parents |-> {}]
                                ELSE Unwritten]
  /\ net = {}
  /\ loaded = [p \in Peer |-> p = Creator]
  /\ head = [p \in Peer |-> IF p = Creator THEN Genesis ELSE None]
  /\ index = [p \in Peer |-> IF p = Creator THEN {Genesis} ELSE {}]
  /\ members = [p \in Peer |-> {}]
  /\ unwelcomed = [p \in Peer |-> {}]
  /\ mux = [p \in Peer |-> None]
  /\ task = [p \in Peer |-> [s \in Slot |-> Idle]]
  /\ lost = [p \in Peer |-> {}]
  /\ stray = [p \in Peer |-> {}]
  /\ crashes = 0 /\ failures = 0 /\ invites = 0
-----------------------------------------------------------------------------
(* Inbound blocks: ThreadsService.Handle *)

\* getThread and handleBlock; a block already indexed changes nothing
Receive(p, s, m) ==
  /\ m \in net /\ m.to = p /\ m.kind = "block"
  /\ task[p][s] = Idle /\ Spare(p) /\ loaded[p]
  /\ m.block \notin index[p]
  /\ Set(p, s, [Idle EXCEPT !.pc = Entry(m.block), !.top = m.block, !.cur = m.block])
  /\ UNCHANGED <<content, net, loaded, replica, mux, lost, stray, bounds>>

\* handleLeaveBlock removes the author before it indexes the block
Unpeer(p, s) ==
  LET t == task[p][s]
      a == content[t.cur].author
  IN /\ t.pc = "unpeer"
     /\ members' = [members EXCEPT ![p] = @ \ {a}]
     /\ unwelcomed' = [unwelcomed EXCEPT ![p] = @ \ {a}]
     /\ Set(p, s, [t EXCEPT !.pc = "index"])
     /\ UNCHANGED <<content, net, loaded, head, index, mux, lost, stray, bounds>>

\* indexBlock by the handler of the block's type
IndexInbound(p, s) ==
  LET t == task[p][s]
      adds == CollectsAuthor(t.cur)
  IN /\ t.pc = "index"
     /\ t.cur \notin index[p]
     /\ index' = [index EXCEPT ![p] = @ \cup {t.cur}]
     /\ Set(p, s, [t EXCEPT !.pc = IF adds THEN "peer" ELSE "follow",
                            !.cur = IF adds THEN @ ELSE None,
                            !.todo = (@ \ {t.cur}) \cup ParentsToFollow(t.cur)])
     /\ UNCHANGED <<content, net, loaded, head, members, unwelcomed, mux, lost,
                    stray, bounds>>

\* the handler of a FILES or IGNORE fails once the block is indexed: a file cannot
\* be read or unpinned. Its parents are not followed; Handle returns the error of
\* the inbound block, followParents logs that of a parent and takes the next one.
HandlerFails(p, s) ==
  LET t == task[p][s]
      inbound == t.cur \notin t.todo
  IN /\ t.pc = "index" /\ content[t.cur].kind = "message"
     /\ t.cur \notin index[p]
     /\ failures < MaxFailures
     /\ failures' = failures + 1
     /\ index' = [index EXCEPT ![p] = @ \cup {t.cur}]
     /\ lost' = [lost EXCEPT ![p] = @ \cup Parents(t.cur)]
     /\ stray' = [stray EXCEPT ![p] = IF inbound THEN @ \cup {t.cur} ELSE @]
     /\ Set(p, s, IF inbound THEN Idle
                  ELSE [t EXCEPT !.pc = "follow", !.cur = None, !.todo = @ \ {t.cur}])
     /\ UNCHANGED <<content, net, loaded, head, members, unwelcomed, mux, crashes, invites>>

\* another goroutine indexed it first: Blocks().Add fails on the primary key.
\* For the inbound block Handle returns the error; for a parent (it stays in todo
\* until it is indexed) followParents logs it and takes the next one.
IndexConflict(p, s) ==
  LET t == task[p][s]
  IN /\ t.pc = "index"
     /\ t.cur \in index[p]
     /\ Set(p, s, IF t.cur \notin t.todo THEN Idle
                  ELSE [t EXCEPT !.pc = "follow", !.cur = None, !.todo = @ \ {t.cur}])
     /\ UNCHANGED <<content, net, loaded, replica, mux, lost, stray, bounds>>

\* addOrUpdatePeer: an author already listed keeps its row
AddPeer(p, s) ==
  LET t == task[p][s]
      a == content[t.cur].author
  IN /\ t.pc = "peer"
     /\ members' = [members EXCEPT ![p] = @ \cup {a}]
     /\ unwelcomed' = [unwelcomed EXCEPT ![p] = @ \cup ({a} \ members[p])]
     /\ Set(p, s, [t EXCEPT !.pc = "follow", !.cur = None])
     /\ UNCHANGED <<content, net, loaded, head, index, mux, lost, stray, bounds>>
-----------------------------------------------------------------------------
(* Back propagation: followParents and followParent *)

\* Mutant: a missing parent is waited for as a message instead of fetched.
FollowReceivedParent(p, s, b) ==
  LET t == task[p][s]
  IN /\ t.pc = "follow" /\ b \in t.todo
     /\ b \notin index[p]
     /\ \E e \in net : e.to = p /\ e.kind = "block" /\ e.block = b
     /\ Set(p, s, [t EXCEPT !.pc = Entry(b), !.cur = b])
     /\ UNCHANGED <<content, net, loaded, replica, mux, lost, stray, bounds>>

\* fetched, and not indexed yet
FollowParent(p, s, b) ==
  LET t == task[p][s]
  IN /\ t.pc = "follow" /\ b \in t.todo
     /\ b \notin index[p]
     /\ Set(p, s, [t EXCEPT !.pc = Entry(b), !.cur = b])
     /\ UNCHANGED <<content, net, loaded, replica, mux, lost, stray, bounds>>

\* Mutant: "exists, abort" ends the whole walk instead of one branch.
ParentExistsEndsWalk(p, s, b) ==
  LET t == task[p][s]
  IN /\ t.pc = "follow" /\ b \in t.todo
     /\ b \in index[p]
     /\ Set(p, s, [t EXCEPT !.todo = {}])
     /\ UNCHANGED <<content, net, loaded, replica, mux, lost, stray, bounds>>

\* exists, abort
ParentExists(p, s, b) ==
  LET t == task[p][s]
  IN /\ t.pc = "follow" /\ b \in t.todo
     /\ b \in index[p]
     /\ Set(p, s, [t EXCEPT !.todo = @ \ {b}])
     /\ UNCHANGED <<content, net, loaded, replica, mux, lost, stray, bounds>>

\* DataAtPath fails: a warning is logged and the parent is skipped for good
FetchFails(p, s, b) ==
  LET t == task[p][s]
  IN /\ t.pc = "follow" /\ b \in t.todo
     /\ failures < MaxFailures
     /\ failures' = failures + 1
     /\ lost' = [lost EXCEPT ![p] = @ \cup {b}]
     /\ Set(p, s, [t EXCEPT !.todo = @ \ {b}])
     /\ UNCHANGED <<content, net, loaded, replica, mux, stray, crashes, invites>>

\* Mutant: the walk is left to the background and HEAD handled at once.
FollowDoneEarly(p, s) ==
  LET t == task[p][s]
  IN /\ t.pc = "follow"
     /\ Set(p, s, [t EXCEPT !.pc = IF t.kind = "invite" THEN "accepthead" ELSE "head"])
     /\ UNCHANGED <<content, net, loaded, replica, mux, lost, stray, bounds>>

FollowDone(p, s) ==
  LET t == task[p][s]
  IN /\ t.pc = "follow" /\ t.todo = {}
     /\ Set(p, s, [t EXCEPT !.pc = IF t.kind = "invite" THEN "accepthead" ELSE "head"])
     /\ UNCHANGED <<content, net, loaded, replica, mux, lost, stray, bounds>>
-----------------------------------------------------------------------------
(* handleHead, merge and sendWelcome *)

\* Head() of a thread that was removed meanwhile is an error
ReloadFails(p, s) ==
  /\ task[p][s].pc \in {"head", "merge", "commit"}
  /\ ~loaded[p]
  /\ Abort(p, s)
  /\ UNCHANGED <<content, net, loaded, replica, lost, bounds>>

\* reads HEAD without the mutex and decides
ReadHead(p, s) ==
  LET t == task[p][s]
  IN /\ t.pc = "head" /\ loaded[p]
     /\ Set(p, s, [t EXCEPT !.pc = IF FastForwardable(p, t.top) THEN "ff" ELSE "merge",
                            !.base = head[p]])
     /\ UNCHANGED <<content, net, loaded, replica, mux, lost, stray, bounds>>

\* updateHead(inbound), without the mutex
FastForward(p, s) ==
  LET t == task[p][s]
  IN /\ t.pc = "ff"
     /\ UpdateHead(p, t.top, t.base)
     /\ Set(p, s, [Idle EXCEPT !.pc = "welcome"])
     /\ UNCHANGED <<content, net, loaded, index, members, unwelcomed, mux, lost, bounds>>

\* merge takes the mutex, reads HEAD again and adds the plaintext block to IPFS.
\* The author is deleted from the header; the address newBlockHeader set is not.
Merge(p, s) ==
  LET t == task[p][s]
      parents == {head[p], t.top}
      c == [kind |-> "merge", author |-> None, address |-> AddressOf[p],
            parents |-> parents]
  IN /\ t.pc = "merge" /\ loaded[p]
     /\ mux[p] = None
     /\ parents \subseteq index[p]
     /\ HasFresh \/ \E b \in Block : content[b] = c
     /\ content' = [content EXCEPT ![IdOf(c)] = c]
     /\ mux' = [mux EXCEPT ![p] = s]
     /\ Set(p, s, [t EXCEPT !.pc = "commitindex", !.kind = "merge",
                            !.cur = IdOf(c), !.base = head[p]])
     /\ UNCHANGED <<net, loaded, replica, lost, stray, bounds>>

\* "first merge parent not found", "second merge parent not found"
MergeFails(p, s) ==
  LET t == task[p][s]
  IN /\ t.pc = "merge" /\ loaded[p]
     /\ mux[p] = None
     /\ ~({head[p], t.top} \subseteq index[p])
     /\ Abort(p, s)
     /\ UNCHANGED <<content, net, loaded, replica, lost, bounds>>

\* Mutant: Handle ends without sendWelcome.
NoWelcome(p, s) ==
  /\ task[p][s].pc = "welcome"
  /\ Set(p, s, Idle)
  /\ UNCHANGED <<content, net, loaded, replica, mux, lost, stray, bounds>>

\* sendWelcome: ListUnwelcomedByThread, then Head
Welcome(p, s) ==
  /\ task[p][s].pc = "welcome"
  /\ Set(p, s, IF unwelcomed[p] = {} \/ head[p] = None THEN Idle
               ELSE [Idle EXCEPT !.pc = "greet", !.list = unwelcomed[p],
                                 !.base = head[p]])
  /\ UNCHANGED <<content, net, loaded, replica, mux, lost, stray, bounds>>

Post(p, to, b) ==
  net' = net \cup [kind: {"block"}, from: {p}, to: to, block: {b}]

\* post to the listed peers, then WelcomeByThread on every row of the thread
Greet(p, s) ==
  LET t == task[p][s]
  IN /\ t.pc = "greet"
     /\ Post(p, t.list, t.base)
     /\ unwelcomed' = [unwelcomed EXCEPT ![p] = {}]
     /\ Set(p, s, Idle)
     /\ UNCHANGED <<content, loaded, head, index, members, mux, lost, stray, bounds>>

\* HEAD cannot be read from IPFS: Handle fails, the peers stay unwelcomed
GreetFails(p, s) ==
  /\ task[p][s].pc = "greet"
  /\ failures < MaxFailures
  /\ failures' = failures + 1
  /\ Set(p, s, Idle)
  /\ UNCHANGED <<content, net, loaded, replica, mux, lost, stray, crashes, invites>>
-----------------------------------------------------------------------------
(* Invites *)

\* AddInvite: the invite block is sent to the invitee only and is not chained.
\* Sending one to a peer that has the thread has no effect and is left out.
AddInvite(p, q) ==
  /\ loaded[p] /\ mux[p] = None
  /\ ~loaded[q]
  /\ invites < MaxInvites
  /\ invites' = invites + 1
  /\ net' = net \cup {[kind |-> "invite", from |-> p, to |-> q, block |-> head[p]]}
  /\ UNCHANGED <<content, loaded, replica, mux, task, lost, stray, crashes, failures>>

\* AcceptThreadInvite up to AddThread; a thread that is loaded is not added again
Accept(p, s, m) ==
  /\ m \in net /\ m.to = p /\ m.kind = "invite"
  /\ task[p][s] = Idle /\ Spare(p) /\ ~loaded[p]
  /\ loaded' = [loaded EXCEPT ![p] = TRUE]
  /\ mux' = [mux EXCEPT ![p] = None]
  /\ Set(p, s, [Idle EXCEPT !.pc = "follow", !.kind = "invite", !.top = m.block,
                            !.todo = {m.block} \ {None}])
  /\ UNCHANGED <<content, net, replica, lost, stray, bounds>>

\* handleInviteMessage: HEAD becomes the invite's parent, followed or not
AcceptHead(p, s) ==
  LET t == task[p][s]
  IN /\ t.pc = "accepthead"
     /\ IF t.top = None THEN UNCHANGED <<head, stray>> ELSE UpdateHead(p, t.top, None)
     /\ Set(p, s, [Idle EXCEPT !.pc = "acceptmark", !.kind = "join"])
     /\ UNCHANGED <<content, net, loaded, index, members, unwelcomed, mux, lost, bounds>>

\* WelcomeByThread: the join message will tell the peers discovered so far
AcceptMark(p, s) ==
  /\ task[p][s].pc = "acceptmark"
  /\ unwelcomed' = [unwelcomed EXCEPT ![p] = {}]
  /\ Set(p, s, [task[p][s] EXCEPT !.pc = "commit"])
  /\ UNCHANGED <<content, net, loaded, head, index, members, mux, lost, stray, bounds>>
-----------------------------------------------------------------------------
(* Local writers: AddMessage and its siblings, annouce, join and leave *)

\* lock, newBlockHeader, encrypt and AddData
CommitBlock(p, s, k) ==
  /\ loaded[p] /\ mux[p] = None /\ HasFresh
  /\ content' = [content EXCEPT ![Fresh] =
       [kind |-> k, author |-> p, address |-> AddressOf[p], parents |-> HeadParents(p)]]
  /\ mux' = [mux EXCEPT ![p] = s]
  /\ Set(p, s, [Idle EXCEPT !.pc = "commitindex", !.kind = k, !.cur = Fresh,
                            !.base = head[p]])
  /\ UNCHANGED <<net, loaded, replica, lost, stray, bounds>>

AddUpdate(p, s, k) ==
  /\ task[p][s] = Idle /\ Spare(p)
  /\ Cardinality({b \in Block : content[b].kind \in UpdateKind}) < MaxUpdates
  /\ CommitBlock(p, s, k)

Join(p, s) == task[p][s].pc = "commit" /\ CommitBlock(p, s, "join")

\* indexBlock under the mutex; a merge block may be indexed already
CommitIndex(p, s) ==
  LET t == task[p][s]
  IN /\ t.pc = "commitindex"
     /\ t.cur \notin index[p]
     /\ index' = [index EXCEPT ![p] = @ \cup {t.cur}]
     /\ Set(p, s, [t EXCEPT !.pc = "commithead"])
     /\ UNCHANGED <<content, net, loaded, head, members, unwelcomed, mux, lost,
                    stray, bounds>>

CommitConflict(p, s) ==
  LET t == task[p][s]
  IN /\ t.pc = "commitindex"
     /\ t.cur \in index[p]
     /\ Set(p, s, Idle)
     /\ mux' = Unlocked(p, s)
     /\ UNCHANGED <<content, net, loaded, replica, lost, stray, bounds>>

\* AddFiles and AddIgnore return the same errors before HEAD is moved
CommitFails(p, s) ==
  LET t == task[p][s]
  IN /\ t.pc = "commithead" /\ t.kind = "message"
     /\ failures < MaxFailures
     /\ failures' = failures + 1
     /\ Set(p, s, Idle)
     /\ mux' = Unlocked(p, s)
     /\ stray' = [stray EXCEPT ![p] = @ \cup {t.cur}]
     /\ UNCHANGED <<content, net, loaded, replica, lost, crashes, invites>>

\* updateHead; a merge block is kept local, so its task goes on to sendWelcome
CommitHead(p, s) ==
  LET t == task[p][s]
  IN /\ t.pc = "commithead"
     /\ UpdateHead(p, t.cur, t.base)
     /\ IF t.kind = "merge"
        THEN /\ Set(p, s, [Idle EXCEPT !.pc = "welcome"])
             /\ mux' = Unlocked(p, s)
        ELSE /\ Set(p, s, [t EXCEPT !.pc = "post"])
             /\ UNCHANGED mux
     /\ UNCHANGED <<content, net, loaded, index, members, unwelcomed, lost, bounds>>

\* post(Peers())
PostBlock(p, s) ==
  LET t == task[p][s]
  IN /\ t.pc = "post"
     /\ Post(p, members[p], t.cur)
     /\ IF t.kind = "leave"
        THEN /\ Set(p, s, [t EXCEPT !.pc = "cleanup"])
             /\ UNCHANGED mux
        ELSE /\ Set(p, s, Idle)
             /\ mux' = Unlocked(p, s)
     /\ UNCHANGED <<content, loaded, replica, lost, stray, bounds>>

\* leave deletes the thread's blocks ...
Cleanup(p, s) ==
  /\ task[p][s].pc = "cleanup"
  /\ lost' = [lost EXCEPT ![p] = @ \cup index[p]]
  /\ index' = [index EXCEPT ![p] = {}]
  /\ Set(p, s, [task[p][s] EXCEPT !.pc = "cleanuppeers"])
  /\ UNCHANGED <<content, net, loaded, head, members, unwelcomed, mux, stray, bounds>>

\* ... and then its peers, and unlocks on return
CleanupPeers(p, s) ==
  /\ task[p][s].pc = "cleanuppeers"
  /\ members' = [members EXCEPT ![p] = {}]
  /\ unwelcomed' = [unwelcomed EXCEPT ![p] = {}]
  /\ stray' = [stray EXCEPT ![p] = @ \cup index[p]]
  /\ mux' = Unlocked(p, s)
  /\ Set(p, s, [Idle EXCEPT !.pc = "remove"])
  /\ UNCHANGED <<content, net, loaded, head, index, lost, bounds>>

\* a file cannot be unpinned: the leave is posted and the thread stays
LeaveFails(p, s) ==
  /\ task[p][s].pc = "cleanup"
  /\ failures < MaxFailures
  /\ failures' = failures + 1
  /\ Set(p, s, Idle)
  /\ mux' = Unlocked(p, s)
  /\ UNCHANGED <<content, net, loaded, replica, lost, stray, crashes, invites>>

\* RemoveThread: the row goes, with its HEAD, and the loaded entry
RemoveThread(p, s) ==
  /\ task[p][s].pc = "remove"
  /\ loaded' = [loaded EXCEPT ![p] = FALSE]
  /\ head' = [head EXCEPT ![p] = None]
  /\ stray' = [stray EXCEPT ![p] = @ \cup index[p]]
  /\ Set(p, s, Idle)
  /\ UNCHANGED <<content, net, index, members, unwelcomed, mux, lost, bounds>>
-----------------------------------------------------------------------------
\* The node stops and starts again: goroutines and the mutex are gone, the
\* datastore is not.  What they had indexed or had still to follow is recorded.
Crash(p) ==
  /\ crashes < MaxCrashes
  /\ crashes' = crashes + 1
  /\ lost' = [lost EXCEPT ![p] = @ \cup UNION {task[p][s].todo : s \in Slot}]
  /\ stray' = [stray EXCEPT ![p] =
       @ \cup ((UNION {{task[p][s].top, task[p][s].cur} : s \in Slot}) \ {None})]
  /\ task' = [task EXCEPT ![p] = [s \in Slot |-> Idle]]
  /\ mux' = [mux EXCEPT ![p] = None]
  /\ UNCHANGED <<content, net, loaded, replica, failures, invites>>

Inbound(p, s) ==
  \/ \E m \in net : Receive(p, s, m)
  \/ Unpeer(p, s) \/ IndexInbound(p, s) \/ IndexConflict(p, s) \/ AddPeer(p, s)
  \/ \E b \in Block : FollowParent(p, s, b) \/ ParentExists(p, s, b)
  \/ FollowDone(p, s)
  \/ ReloadFails(p, s) \/ ReadHead(p, s) \/ FastForward(p, s)
  \/ Merge(p, s) \/ MergeFails(p, s)
  \/ Welcome(p, s) \/ Greet(p, s)

Local(p, s) ==
  \/ AcceptHead(p, s) \/ AcceptMark(p, s) \/ Join(p, s)
  \/ CommitIndex(p, s) \/ CommitConflict(p, s) \/ CommitHead(p, s)
  \/ PostBlock(p, s) \/ Cleanup(p, s) \/ CleanupPeers(p, s) \/ RemoveThread(p, s)

User(p, s) ==
  \/ \E k \in LocalKind : AddUpdate(p, s, k)
  \/ \E m \in net : Accept(p, s, m)

Faulty(p, s) ==
  \/ \E b \in Block : FetchFails(p, s, b)
  \/ GreetFails(p, s) \/ HandlerFails(p, s) \/ CommitFails(p, s) \/ LeaveFails(p, s)

Next ==
  \E p \in Peer :
    \/ \E s \in Slot : Inbound(p, s) \/ Local(p, s) \/ User(p, s) \/ Faulty(p, s)
    \/ p \in Inviter /\ \E q \in Peer : AddInvite(p, q)
    \/ Crash(p)

Spec == Init /\ [][Next]_vars

FairSpec == Spec /\ \A p \in Peer, s \in Slot :
                      WF_vars(Inbound(p, s)) /\ WF_vars(Local(p, s))
-----------------------------------------------------------------------------
TypeOK ==
  /\ content \in [Block -> Content]
  /\ net \subseteq Envelope
  /\ loaded \in [Peer -> BOOLEAN]
  /\ head \in [Peer -> Block \cup {None}]
  /\ index \in [Peer -> SUBSET Block]
  /\ members \in [Peer -> SUBSET Peer]
  /\ unwelcomed \in [Peer -> SUBSET Peer]
  /\ mux \in [Peer -> Slot \cup {None}]
  /\ task \in [Peer -> [Slot -> Task]]
  /\ lost \in [Peer -> SUBSET Block]
  /\ stray \in [Peer -> SUBSET Block]
  /\ crashes \in 0..MaxCrashes
  /\ failures \in 0..MaxFailures
  /\ invites \in 0..MaxInvites

Pending(p) == UNION {task[p][s].todo : s \in Slot}

\* A parent of an indexed block is indexed, is on some goroutine's list of
\* parents to follow, or was given up by a failed fetch, a failed handler, a
\* crash or a leave: no interleaving of handlers that stop at "exists, abort"
\* skips an ancestor.
ParentsAccounted ==
  \A p \in Peer : \A b \in index[p] :
    Parents(b) \subseteq index[p] \cup Pending(p) \cup lost[p]

\* HEAD names an indexed block, except where that block was given up.
HeadAccounted ==
  \A p \in Peer : head[p] # None => head[p] \in index[p] \cup lost[p]

Tips(p) == {b \in index[p] : \A c \in index[p] \cup lost[p] : b \notin Parents(c)}

\* blocks a goroutine is still going to put at HEAD, or below a merge
InFlight(p) == UNION {{task[p][s].top, task[p][s].cur} : s \in Slot}

\* Every childless block of a loaded replica is HEAD or on its way there,
\* unless its goroutine died or failed, its place at HEAD was overwritten in a
\* race, or it was shown while the thread was being left.
TipsCovered ==
  \A p \in Peer : loaded[p] => Tips(p) \subseteq {head[p]} \cup InFlight(p) \cup stray[p]

\* thread.go:510 "fast-forward is possible if current HEAD is equal to one of
\* the incoming parents": the block a fast-forward replaces is such a parent.
FastForwardFromParent ==
  [][\A p \in Peer, s \in Slot :
       FastForward(p, s) /\ loaded[p]
         => head[p] \in {None} \cup Parents(task[p][s].top)]_vars

\* Where one goroutine at a time works on a thread, every new HEAD of a loaded
\* thread has the old HEAD as a parent: nothing a peer has seen leaves its chain.
HeadAdvances ==
  [][\A p \in Peer : (loaded[p] /\ loaded'[p] /\ head'[p] # head[p])
       => head[p] \in {None} \cup content'[head'[p]].parents]_vars

Runs(p, pc, b) == \E s \in Slot : task[p][s].pc = pc /\ task[p][s].cur = b

Left(p, a) == \E b \in Block : content[b].kind = "leave" /\ content[b].author = a
                 /\ (b \in index[p] \cup lost[p] \cup stray[p] \/ Runs(p, "index", b))

\* The author of a JOIN or ANNOUNCE a replica shows is one of its thread peers
\* (or will be as soon as the handler runs on), unless that author left, the
\* node stopped between the two datastore writes, or the block was shown between
\* the two deletions of this replica's own leave.
AuthorsListed ==
  \A p \in Peer : \A b \in index[p] :
    LET a == content[b].author
    IN content[b].kind \in {"join", "announce"} /\ a # p =>
         a \in members[p] \/ Left(p, a) \/ Runs(p, "peer", b) \/ b \in stray[p]

\* Without restarts and failed fetches every update reaches every replica that
\* has the thread.
EventuallyShared ==
  \A q \in Peer :
    loaded[q] ~> (~loaded[q] \/ {b \in Block : content[b].kind \in UpdateKind} \subseteq index[q])

\* A replica's blocks as a CausalLog: what its goroutines have still to follow
\* and do not yet show is its debt.
Log == INSTANCE CausalLog WITH
  parents <- [b \in Block |-> Parents(b)],
  written <- {b \in Block : content[b].kind # "none"},
  log <- index,
  debt <- [p \in Peer |-> Pending(p) \ index[p]],
  dropped <- lost

\* Every step of a replica shows one block with its parents owed, writes a debt
\* off, or leaves the log alone.
LogSpec == Log!LogSpec

\* Every parent a goroutine set out to follow is shown in the end, or its
\* fetch failed or the node stopped: the recursive walk of followParents ends.
DebtsPaid == \A p \in Peer : (Pending(p) \ index[p] # {}) ~> (Pending(p) \subseteq index[p])
=============================================================================

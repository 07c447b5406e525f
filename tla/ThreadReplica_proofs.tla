----------------------- MODULE ThreadReplica_proofs -----------------------
(***************************************************************************)
(* Proofs about ThreadReplica, for any number of peers, goroutines, blocks,*)
(* restarts, failed fetches and failed handlers.                           *)
(***************************************************************************)
EXTENDS ThreadReplica, FiniteSetTheorems, TLAPS

Written == {b \in Block : content[b].kind # "none"}

\* blocks the replica shows, or once dropped or gave up
Known(p) == index[p] \cup lost[p]

\* An id that was never given content has no parents; written blocks have
\* written parents, and an author unless they are merges.
ContentOK ==
  /\ \A b \in Block : Parents(b) \subseteq Written
  /\ \A b \in Block : content[b].kind \in {"join", "announce", "leave"}
                        => content[b].author \in Peer

NetOK == \A e \in net : /\ e.block \in Written \cup {None}
                        /\ e.kind = "block" => e.block \in Block

ReplicaOK ==
  \A p \in Peer : /\ index[p] \subseteq Written
                  /\ lost[p] \subseteq Written
                  /\ head[p] \in Written \cup {None}

\* What a goroutine holds at each label.  Only a walk owes parents; a block that
\* is not one of them is the inbound block itself.
Walking == {"unpeer", "index", "peer", "follow"}

TaskOK(p, t) ==
  /\ {t.top, t.cur, t.base} \subseteq Written \cup {None}
  /\ t.todo \subseteq Written
  /\ t.pc \notin Walking => t.todo = {}
  /\ t.pc \in {"unpeer", "index", "peer", "commitindex", "commithead", "post"} => t.cur \in Block
  /\ t.pc \in {"unpeer", "peer"} => content[t.cur].author \in Peer
  /\ t.pc = "greet" => t.base \in Block
  /\ t.pc \in Walking => t.kind \in {"none", "invite"}
  /\ t.pc \in {"head", "ff", "merge"} => t.kind = "none"
  /\ t.pc = "accepthead" => t.kind = "invite"
  /\ t.pc \in {"unpeer", "index"} /\ t.cur \notin t.todo
       => t.todo = {} /\ t.kind = "none" /\ t.cur = t.top
  /\ t.pc \in {"unpeer", "index"} /\ t.kind = "none"
       => t.cur \notin t.todo \/ t.top \in Known(p)
  /\ t.pc \in {"peer", "follow", "head", "ff", "merge"} /\ t.kind = "none"
       => t.top \in Known(p)
  /\ t.kind = "invite" => t.top \in Known(p) \cup t.todo \cup {None}
  /\ t.pc = "commitindex" => Parents(t.cur) \subseteq Known(p)
  /\ t.pc \in {"commithead", "post"} => t.cur \in Known(p)

TasksOK == \A p \in Peer, s \in Slot : TaskOK(p, task[p][s])

\* The inductive invariant: an abort or a conflict may end a walk at any point,
\* so every label must account for the blocks its goroutine has in hand.
IInv ==
  /\ TypeOK /\ ContentOK /\ NetOK /\ ReplicaOK /\ TasksOK
  /\ HeadAccounted /\ ParentsAccounted
-----------------------------------------------------------------------------
(* Helpers *)

LEMMA FreshType ==
  ASSUME TypeOK, HasFresh
  PROVE  Fresh \in Block /\ content[Fresh].kind = "none"
BY DEF HasFresh, Fresh

\* An id returned for a content either holds it already or was never written.
LEMMA IdOfType ==
  ASSUME TypeOK, NEW c \in Content, HasFresh \/ \E b \in Block : content[b] = c
  PROVE  /\ IdOf(c) \in Block
         /\ content[IdOf(c)] = c \/ content[IdOf(c)].kind = "none"
<1>1. CASE \E b \in Block : content[b] = c
  BY <1>1 DEF IdOf
<1>2. CASE ~\E b \in Block : content[b] = c
  BY <1>2, FreshType DEF IdOf
<1> QED BY <1>1, <1>2

\* Giving content to an id that had none changes no written block.
LEMMA WriteContent ==
  ASSUME TypeOK, ContentOK, NEW i \in Block, NEW c \in Content,
         content' = [content EXCEPT ![i] = c],
         content[i] = c \/ content[i].kind = "none",
         c.kind # "none", c.parents \subseteq Written,
         c.kind \in {"join", "announce", "leave"} => c.author \in Peer
  PROVE  /\ content' \in [Block -> Content]
         /\ ContentOK'
         /\ \A b \in Written : content'[b] = content[b]
         /\ Written' = Written \cup {i}
         /\ content'[i] = c
<1>1. /\ content' \in [Block -> Content]
      /\ content'[i] = c
      /\ \A b \in Block \ {i} : content'[b] = content[b]
  BY DEF TypeOK
<1>2. \A b \in Written : content'[b] = content[b]
  BY <1>1 DEF Written
<1>3. Written' = Written \cup {i}
  BY <1>1 DEF Written
<1>4. ContentOK'
  BY <1>1, <1>3 DEF ContentOK, Parents
<1> QED BY <1>1, <1>2, <1>3, <1>4

\* What has to be checked of a step by goroutine s of peer p: its own new
\* state, and that what it knew or owed is still known or owed.
LEMMA Step ==
  ASSUME IInv, NEW p \in Peer, NEW s \in Slot,
         TypeOK', ContentOK', NetOK',
         \A b \in Written : content'[b] = content[b],
         \A q \in Peer \ {p} : /\ index'[q] = index[q] /\ lost'[q] = lost[q]
                               /\ head'[q] = head[q] /\ task'[q] = task[q],
         Known(p) \subseteq Known(p)',
         Known(p)' \subseteq Written',
         head'[p] \in Known(p)' \cup {None},
         \A r \in Slot \ {s} : task'[p][r] = task[p][r],
         TaskOK(p, task[p][s])',
         task[p][s].todo \subseteq Known(p)' \cup task'[p][s].todo,
         \A b \in index'[p] \ index[p] :
           Parents(b)' \subseteq Known(p)' \cup task'[p][s].todo
  PROVE  IInv'
<1> USE DEF Known
<1>1. Written \subseteq Written'
  BY DEF Written
<1>2. \A b \in Written : Parents(b)' = Parents(b)
  BY DEF Parents
<1>3. ReplicaOK'
  BY <1>1 DEF ReplicaOK, IInv
<1>4. HeadAccounted'
  BY DEF HeadAccounted, IInv
<1>5. TasksOK'
  <2> SUFFICES ASSUME NEW q \in Peer, NEW r \in Slot, q # p \/ r # s
               PROVE  TaskOK(q, task[q][r])'
    BY DEF TasksOK
  <2>1. TaskOK(q, task[q][r])
    BY DEF IInv, TasksOK
  <2>2. task'[q][r] = task[q][r] /\ Known(q) \subseteq Known(q)'
    OBVIOUS
  <2>3. None \notin Written /\ Written \subseteq Block
    BY ThreadConstants DEF Written
  <2>4. task[q][r].cur \in Block => task[q][r].cur \in Written
    BY <2>1, <2>3, ThreadConstants DEF TaskOK
  <2> QED BY <2>1, <2>2, <2>4, <1>1, <1>2 DEF TaskOK
<1>6. ParentsAccounted'
  <2> SUFFICES ASSUME NEW q \in Peer, NEW b \in index'[q], NEW c \in Parents(b)'
               PROVE  c \in index'[q] \cup lost'[q] \cup Pending(q)'
    BY DEF ParentsAccounted
  <2>1. \A r \in Slot : task'[q][r].todo \subseteq Pending(q)'
    BY DEF Pending
  <2>2. CASE b \in index[q]
    <3>1. b \in Written
      BY <2>2 DEF IInv, ReplicaOK
    <3>2. c \in index[q] \cup lost[q] \cup Pending(q)
      BY <2>2, <3>1, <1>2 DEF IInv, ParentsAccounted
    <3>3. CASE c \in Pending(q)
      <4>1. PICK r \in Slot : c \in task[q][r].todo
        BY <3>3 DEF Pending
      <4> QED BY <4>1, <2>1
    <3> QED BY <3>2, <3>3
  <2>3. CASE b \notin index[q]
    BY <2>3, <2>1
  <2> QED BY <2>2, <2>3
<1> QED BY <1>3, <1>4, <1>5, <1>6 DEF IInv

\* A step that only moves its own goroutine.
LEMMA TaskStep ==
  ASSUME IInv, NEW p \in Peer, NEW s \in Slot, NEW t \in Task,
         Set(p, s, t), UNCHANGED <<content, head, index, lost>>,
         TypeOK', NetOK', TaskOK(p, t),
         task[p][s].todo \subseteq Known(p) \cup t.todo
  PROVE  IInv'
<1>1. task'[p][s] = t /\ \A r \in Slot \ {s} : task'[p][r] = task[p][r]
  BY DEF Set, IInv, TypeOK
<1>2. \A q \in Peer \ {p} : task'[q] = task[q]
  BY DEF Set, IInv, TypeOK
<1>3. TaskOK(p, task[p][s])'
  BY <1>1 DEF TaskOK, Written, Known, Parents
<1>4. ContentOK'
  BY DEF IInv, ContentOK, Parents, Written
<1>5. Known(p) \subseteq Written /\ head[p] \in Known(p) \cup {None}
  BY DEF IInv, ReplicaOK, HeadAccounted, Known
<1>6. Known(p)' = Known(p) /\ Written' = Written
  BY DEF Known, Written
<1> QED BY <1>1, <1>2, <1>3, <1>4, <1>5, <1>6, Step

LEMMA TaskType ==
  ASSUME IInv, NEW p \in Peer, NEW s \in Slot
  PROVE  task[p][s] \in Task /\ TaskOK(p, task[p][s])
BY DEF IInv, TypeOK, TasksOK

LEMMA IdleType == Idle \in Task
BY ThreadConstants DEF Idle, Task, Label, Kind, UpdateKind

LEMMA SetType ==
  ASSUME TypeOK, NEW p \in Peer, NEW s \in Slot, NEW t \in Task, Set(p, s, t)
  PROVE  task' \in [Peer -> [Slot -> Task]]
BY DEF TypeOK, Set

LEMMA IdleOK == ASSUME NEW p PROVE TaskOK(p, Idle)
BY DEF TaskOK, Idle, Walking

LEMMA PostOK ==
  ASSUME IInv, NEW p \in Peer, NEW to \in SUBSET Peer, NEW b \in Written,
         Post(p, to, b), content' = content
  PROVE  net' \subseteq Envelope /\ NetOK'
<1>1. b \in Block
  BY DEF Written
<1>2. \A e \in [kind: {"block"}, from: {p}, to: to, block: {b}] :
        e \in Envelope /\ e.kind = "block" /\ e.block = b
  BY <1>1 DEF Envelope
<1>3. net' \subseteq Envelope
  BY <1>2 DEF Post, IInv, TypeOK
<1>4. Written' = Written
  BY DEF Written
<1> QED BY <1>1, <1>2, <1>3, <1>4 DEF Post, IInv, NetOK

LEMMA NetKept ==
  ASSUME IInv, UNCHANGED <<content, net>>
  PROVE  NetOK'
BY DEF IInv, NetOK, Written
-----------------------------------------------------------------------------
(* Every action preserves the invariant: u is what the action leaves its own *)
(* goroutine with.                                                          *)

LEMMA ReceiveInv ==
  ASSUME IInv, NEW p \in Peer, NEW s \in Slot, NEW m,
         Receive(p, s, m)
  PROVE  IInv'
<1> DEFINE t == task[p][s]
<1> DEFINE u == [Idle EXCEPT !.pc = Entry(m.block), !.top = m.block, !.cur = m.block]
<1>1. t \in Task /\ TaskOK(p, t)
  BY TaskType
<1>2. u \in Task
  BY <1>1, IdleType DEF Receive, Task, Label, Entry, IInv, TypeOK, Envelope
<1>3. Set(p, s, u) /\ UNCHANGED <<content, head, index, lost>>
  BY DEF Receive, replica
<1>4. TypeOK'
  BY <1>1, <1>2, <1>3, SetType DEF Receive, IInv, TypeOK, replica, bounds
<1>5. TaskOK(p, u) /\ t.todo \subseteq Known(p) \cup u.todo
  <2>1. m.block \in Written /\ m.block \in Block
    BY ThreadConstants DEF Receive, IInv, NetOK
  <2>2. t.todo = {} /\ Entry(m.block) \in {"unpeer", "index"}
    BY DEF Receive, Idle, Entry
  <2>3. Entry(m.block) = "unpeer" => content[m.block].author \in Peer
    BY <2>1 DEF Entry, IInv, ContentOK
  <2>4. /\ u.pc = Entry(m.block) /\ u.kind = "none" /\ u.top = m.block
        /\ u.cur = m.block /\ u.todo = {} /\ u.base = None
    BY DEF Idle
  <2> HIDE DEF t, u
  <2> QED BY <2>1, <2>2, <2>3, <2>4 DEF TaskOK, Walking
<1>6. NetOK'
  BY <1>1, NetKept DEF Receive, IInv
<1> QED BY <1>2, <1>3, <1>4, <1>5, <1>6, TaskStep

LEMMA UnpeerInv ==
  ASSUME IInv, NEW p \in Peer, NEW s \in Slot, Unpeer(p, s)
  PROVE  IInv'
<1> DEFINE t == task[p][s]
<1> DEFINE u == [t EXCEPT !.pc = "index"]
<1>1. t \in Task /\ TaskOK(p, t)
  BY TaskType
<1>2. u \in Task
  BY <1>1 DEF Unpeer, Task, Label
<1>3. Set(p, s, u) /\ UNCHANGED <<content, head, index, lost>>
  BY DEF Unpeer, replica
<1>4. TypeOK'
  BY <1>1, <1>2, <1>3, SetType DEF Unpeer, IInv, TypeOK, replica, bounds
<1>5. TaskOK(p, u) /\ t.todo \subseteq Known(p) \cup u.todo
  <2>1. /\ t.pc = "unpeer" /\ u.pc = "index" /\ u.cur = t.cur /\ u.todo = t.todo
        /\ u.kind = t.kind /\ u.top = t.top /\ u.base = t.base
    BY <1>1 DEF Unpeer, Task
  <2> HIDE DEF t, u
  <2> QED BY <1>1, <2>1, ThreadConstants DEF TaskOK, Walking
<1>6. NetOK'
  BY <1>1, NetKept DEF Unpeer, IInv
<1> QED BY <1>2, <1>3, <1>4, <1>5, <1>6, TaskStep

LEMMA IndexConflictInv ==
  ASSUME IInv, NEW p \in Peer, NEW s \in Slot, IndexConflict(p, s)
  PROVE  IInv'
<1> DEFINE t == task[p][s]
<1> DEFINE u == IF t.cur \notin t.todo THEN Idle
                 ELSE [t EXCEPT !.pc = "follow", !.cur = None, !.todo = @ \ {t.cur}]
<1>1. t \in Task /\ TaskOK(p, t)
  BY TaskType
<1>2. u \in Task
  BY <1>1, IdleType, ThreadConstants DEF IndexConflict, Task, Label
<1>3. Set(p, s, u) /\ UNCHANGED <<content, head, index, lost>>
  BY DEF IndexConflict, replica
<1>4. TypeOK'
  BY <1>1, <1>2, <1>3, SetType DEF IndexConflict, IInv, TypeOK, replica, bounds
<1>5. TaskOK(p, u) /\ t.todo \subseteq Known(p) \cup u.todo
  <2> t.pc = "index" /\ t.cur \in index[p]
    BY DEF IndexConflict
  <2>1. CASE t.cur \notin t.todo
    BY <1>1, <2>1, ThreadConstants DEF TaskOK, Idle, Walking
  <2>2. CASE t.cur \in t.todo
    <3>1. /\ u.pc = "follow" /\ u.cur = None /\ u.todo = t.todo \ {t.cur}
          /\ u.kind = t.kind /\ u.top = t.top /\ u.base = t.base
      BY <1>1, <2>2 DEF Task
    <3> HIDE DEF t, u
    <3> QED BY <1>1, <2>2, <3>1, ThreadConstants DEF TaskOK, Walking, Known
  <2> QED BY <2>1, <2>2
<1>6. NetOK'
  BY <1>1, NetKept DEF IndexConflict, IInv
<1> QED BY <1>2, <1>3, <1>4, <1>5, <1>6, TaskStep

LEMMA AddPeerInv ==
  ASSUME IInv, NEW p \in Peer, NEW s \in Slot, AddPeer(p, s)
  PROVE  IInv'
<1> DEFINE t == task[p][s]
<1> DEFINE u == [t EXCEPT !.pc = "follow", !.cur = None]
<1>1. t \in Task /\ TaskOK(p, t)
  BY TaskType
<1>2. u \in Task
  BY <1>1 DEF AddPeer, Task, Label
<1>3. Set(p, s, u) /\ UNCHANGED <<content, head, index, lost>>
  BY DEF AddPeer, replica
<1>4. TypeOK'
  BY <1>1, <1>2, <1>3, SetType DEF AddPeer, IInv, TypeOK, replica, bounds, TaskOK
<1>5. TaskOK(p, u) /\ t.todo \subseteq Known(p) \cup u.todo
  <2>1. /\ t.pc = "peer" /\ u.pc = "follow" /\ u.cur = None /\ u.todo = t.todo
        /\ u.kind = t.kind /\ u.top = t.top /\ u.base = t.base
    BY <1>1 DEF AddPeer, Task
  <2> HIDE DEF t, u
  <2> QED BY <1>1, <2>1, ThreadConstants DEF TaskOK, Walking
<1>6. NetOK'
  BY <1>1, NetKept DEF AddPeer, IInv
<1> QED BY <1>2, <1>3, <1>4, <1>5, <1>6, TaskStep

LEMMA FollowParentInv ==
  ASSUME IInv, NEW p \in Peer, NEW s \in Slot, NEW b \in Block,
         FollowParent(p, s, b)
  PROVE  IInv'
<1> DEFINE t == task[p][s]
<1> DEFINE u == [t EXCEPT !.pc = Entry(b), !.cur = b]
<1>1. t \in Task /\ TaskOK(p, t)
  BY TaskType
<1>2. u \in Task
  BY <1>1 DEF FollowParent, Task, Label, Entry
<1>3. Set(p, s, u) /\ UNCHANGED <<content, head, index, lost>>
  BY DEF FollowParent, replica
<1>4. TypeOK'
  BY <1>1, <1>2, <1>3, SetType DEF FollowParent, IInv, TypeOK, replica, bounds
<1>5. TaskOK(p, u) /\ t.todo \subseteq Known(p) \cup u.todo
  <2>1. /\ t.pc = "follow" /\ u.pc \in {"unpeer", "index"} /\ u.cur = b /\ u.todo = t.todo
        /\ b \in t.todo
        /\ u.pc = "unpeer" => content[u.cur].author \in Peer
        /\ u.kind = t.kind /\ u.top = t.top /\ u.base = t.base
    BY <1>1 DEF FollowParent, Task, Entry, IInv, ContentOK
  <2> HIDE DEF t, u
  <2> QED BY <1>1, <2>1, ThreadConstants DEF TaskOK, Walking
<1>6. NetOK'
  BY <1>1, NetKept DEF FollowParent, IInv
<1> QED BY <1>2, <1>3, <1>4, <1>5, <1>6, TaskStep

LEMMA ParentExistsInv ==
  ASSUME IInv, NEW p \in Peer, NEW s \in Slot, NEW b \in Block,
         ParentExists(p, s, b)
  PROVE  IInv'
<1> DEFINE t == task[p][s]
<1> DEFINE u == [t EXCEPT !.todo = @ \ {b}]
<1>1. t \in Task /\ TaskOK(p, t)
  BY TaskType
<1>2. u \in Task
  BY <1>1 DEF ParentExists, Task, Label
<1>3. Set(p, s, u) /\ UNCHANGED <<content, head, index, lost>>
  BY DEF ParentExists, replica
<1>4. TypeOK'
  BY <1>1, <1>2, <1>3, SetType DEF ParentExists, IInv, TypeOK, replica, bounds
<1>5. TaskOK(p, u) /\ t.todo \subseteq Known(p) \cup u.todo
  <2>1. /\ t.pc = "follow" /\ u.pc = t.pc /\ u.cur = t.cur /\ u.todo = t.todo \ {b} /\ b \in index[p]
        /\ u.kind = t.kind /\ u.top = t.top /\ u.base = t.base
    BY <1>1 DEF ParentExists, Task
  <2> HIDE DEF t, u
  <2> QED BY <1>1, <2>1, ThreadConstants DEF TaskOK, Walking, Known
<1>6. NetOK'
  BY <1>1, NetKept DEF ParentExists, IInv
<1> QED BY <1>2, <1>3, <1>4, <1>5, <1>6, TaskStep

LEMMA FollowDoneInv ==
  ASSUME IInv, NEW p \in Peer, NEW s \in Slot, FollowDone(p, s)
  PROVE  IInv'
<1> DEFINE t == task[p][s]
<1> DEFINE u == [t EXCEPT !.pc = IF t.kind = "invite" THEN "accepthead" ELSE "head"]
<1>1. t \in Task /\ TaskOK(p, t)
  BY TaskType
<1>2. u \in Task
  BY <1>1 DEF FollowDone, Task, Label
<1>3. Set(p, s, u) /\ UNCHANGED <<content, head, index, lost>>
  BY DEF FollowDone, replica
<1>4. TypeOK'
  BY <1>1, <1>2, <1>3, SetType DEF FollowDone, IInv, TypeOK, replica, bounds
<1>5. TaskOK(p, u) /\ t.todo \subseteq Known(p) \cup u.todo
  <2>1. /\ t.pc = "follow" /\ u.cur = t.cur /\ u.todo = t.todo /\ t.todo = {}
        /\ u.pc = IF t.kind = "invite" THEN "accepthead" ELSE "head"
        /\ u.kind = t.kind /\ u.top = t.top /\ u.base = t.base
    BY <1>1 DEF FollowDone, Task
  <2> HIDE DEF t, u
  <2> QED BY <1>1, <2>1, ThreadConstants DEF TaskOK, Walking
<1>6. NetOK'
  BY <1>1, NetKept DEF FollowDone, IInv
<1> QED BY <1>2, <1>3, <1>4, <1>5, <1>6, TaskStep

LEMMA ReloadFailsInv ==
  ASSUME IInv, NEW p \in Peer, NEW s \in Slot, ReloadFails(p, s)
  PROVE  IInv'
<1> DEFINE t == task[p][s]
<1> DEFINE u == Idle
<1>1. t \in Task /\ TaskOK(p, t)
  BY TaskType
<1>2. u \in Task
  BY <1>1, IdleType DEF ReloadFails, Task, Label
<1>3. Set(p, s, u) /\ UNCHANGED <<content, head, index, lost>>
  BY DEF ReloadFails, replica, Abort
<1>4. TypeOK'
  BY <1>1, <1>2, <1>3, SetType
    DEF ReloadFails, IInv, TypeOK, replica, bounds, Abort, Unlocked, Task
<1>5. TaskOK(p, u) /\ t.todo \subseteq Known(p) \cup u.todo
  <2>1. t.pc \in {"head", "merge", "commit"}
    BY DEF ReloadFails
  <2>2. t.todo = {}
    BY <1>1, <2>1 DEF TaskOK, Walking
  <2> QED BY <2>2, IdleOK DEF Idle
<1>6. NetOK'
  BY <1>1, NetKept DEF ReloadFails, IInv
<1> QED BY <1>2, <1>3, <1>4, <1>5, <1>6, TaskStep

LEMMA ReadHeadInv ==
  ASSUME IInv, NEW p \in Peer, NEW s \in Slot, ReadHead(p, s)
  PROVE  IInv'
<1> DEFINE t == task[p][s]
<1> DEFINE u == [t EXCEPT !.pc = IF FastForwardable(p, t.top) THEN "ff" ELSE "merge",
                            !.base = head[p]]
<1>1. t \in Task /\ TaskOK(p, t)
  BY TaskType
<1>2. u \in Task
  BY <1>1 DEF ReadHead, Task, Label, IInv, TypeOK
<1>3. Set(p, s, u) /\ UNCHANGED <<content, head, index, lost>>
  BY DEF ReadHead, replica
<1>4. TypeOK'
  BY <1>1, <1>2, <1>3, SetType DEF ReadHead, IInv, TypeOK, replica, bounds
<1>5. TaskOK(p, u) /\ t.todo \subseteq Known(p) \cup u.todo
  <2> head[p] \in Written \cup {None}
    BY DEF IInv, ReplicaOK
  <2>1. /\ t.pc = "head" /\ u.pc \in {"ff", "merge"} /\ u.cur = t.cur /\ u.todo = t.todo
        /\ u.kind = t.kind /\ u.top = t.top /\ u.base = head[p]
    BY <1>1 DEF ReadHead, Task
  <2> HIDE DEF t, u
  <2> QED BY <1>1, <2>1, ThreadConstants DEF TaskOK, Walking
<1>6. NetOK'
  BY <1>1, NetKept DEF ReadHead, IInv
<1> QED BY <1>2, <1>3, <1>4, <1>5, <1>6, TaskStep

LEMMA MergeFailsInv ==
  ASSUME IInv, NEW p \in Peer, NEW s \in Slot, MergeFails(p, s)
  PROVE  IInv'
<1> DEFINE t == task[p][s]
<1> DEFINE u == Idle
<1>1. t \in Task /\ TaskOK(p, t)
  BY TaskType
<1>2. u \in Task
  BY <1>1, IdleType DEF MergeFails, Task, Label
<1>3. Set(p, s, u) /\ UNCHANGED <<content, head, index, lost>>
  BY DEF MergeFails, replica, Abort
<1>4. TypeOK'
  BY <1>1, <1>2, <1>3, SetType
    DEF MergeFails, IInv, TypeOK, replica, bounds, Abort, Unlocked, Task
<1>5. TaskOK(p, u) /\ t.todo \subseteq Known(p) \cup u.todo
  <2>1. t.pc \in {"merge"}
    BY DEF MergeFails
  <2>2. t.todo = {}
    BY <1>1, <2>1 DEF TaskOK, Walking
  <2> QED BY <2>2, IdleOK DEF Idle
<1>6. NetOK'
  BY <1>1, NetKept DEF MergeFails, IInv
<1> QED BY <1>2, <1>3, <1>4, <1>5, <1>6, TaskStep

LEMMA WelcomeInv ==
  ASSUME IInv, NEW p \in Peer, NEW s \in Slot, Welcome(p, s)
  PROVE  IInv'
<1> DEFINE t == task[p][s]
<1> DEFINE u == IF unwelcomed[p] = {} \/ head[p] = None THEN Idle
                 ELSE [Idle EXCEPT !.pc = "greet", !.list = unwelcomed[p], !.base = head[p]]
<1>1. t \in Task /\ TaskOK(p, t)
  BY TaskType
<1>2. u \in Task
  BY <1>1, IdleType DEF Welcome, Task, Label, IInv, TypeOK
<1>3. Set(p, s, u) /\ UNCHANGED <<content, head, index, lost>>
  BY DEF Welcome, replica
<1>4. TypeOK'
  BY <1>1, <1>2, <1>3, SetType DEF Welcome, IInv, TypeOK, replica, bounds
<1>5. TaskOK(p, u) /\ t.todo \subseteq Known(p) \cup u.todo
  <2>1. t.todo = {}
    BY <1>1 DEF Welcome, TaskOK, Walking
  <2>2. CASE unwelcomed[p] = {} \/ head[p] = None
    BY <2>1, <2>2, IdleOK
  <2>3. CASE ~(unwelcomed[p] = {} \/ head[p] = None)
    <3>1. u.pc = "greet" /\ u.base = head[p] /\ u.kind = "none" /\ u.top = None /\ u.cur = None /\ u.todo = {}
      BY <2>3 DEF Idle
    <3>2. head[p] \in Written /\ head[p] \in Block
      BY <2>3 DEF IInv, ReplicaOK, TypeOK
    <3> HIDE DEF u
    <3> QED BY <2>1, <3>1, <3>2 DEF TaskOK, Walking
  <2> QED BY <2>2, <2>3
<1>6. NetOK'
  BY <1>1, NetKept DEF Welcome, IInv
<1> QED BY <1>2, <1>3, <1>4, <1>5, <1>6, TaskStep

LEMMA GreetInv ==
  ASSUME IInv, NEW p \in Peer, NEW s \in Slot, Greet(p, s)
  PROVE  IInv'
<1> DEFINE t == task[p][s]
<1> DEFINE u == Idle
<1>1. t \in Task /\ TaskOK(p, t)
  BY TaskType
<1>0. t.list \in SUBSET Peer /\ t.base \in Written
  <2>1. t.pc = "greet"
    BY DEF Greet
  <2>2. t.list \in SUBSET Peer
    BY <1>1 DEF Task
  <2> HIDE DEF t
  <2>3. t.base \in Written \cup {None} /\ t.base \in Block
    BY <1>1, <2>1 DEF TaskOK
  <2> QED BY <2>2, <2>3, ThreadConstants
<1>2. u \in Task
  BY <1>1, IdleType DEF Greet, Task, Label
<1>3. Set(p, s, u) /\ UNCHANGED <<content, head, index, lost>>
  BY DEF Greet, replica
<1>4. TypeOK'
  BY <1>1, <1>2, <1>3, SetType, PostOK, <1>0 DEF Greet, IInv, TypeOK, replica, bounds
<1>5. TaskOK(p, u) /\ t.todo \subseteq Known(p) \cup u.todo
  <2>1. t.pc \in {"greet"}
    BY DEF Greet
  <2>2. t.todo = {}
    BY <1>1, <2>1 DEF TaskOK, Walking
  <2> QED BY <2>2, IdleOK DEF Idle
<1>6. NetOK'
  BY <1>0, PostOK DEF Greet
<1> QED BY <1>2, <1>3, <1>4, <1>5, <1>6, TaskStep

LEMMA GreetFailsInv ==
  ASSUME IInv, NEW p \in Peer, NEW s \in Slot, GreetFails(p, s)
  PROVE  IInv'
<1> DEFINE t == task[p][s]
<1> DEFINE u == Idle
<1>1. t \in Task /\ TaskOK(p, t)
  BY TaskType
<1>2. u \in Task
  BY <1>1, IdleType, ThreadConstants DEF GreetFails, Task, Label
<1>3. Set(p, s, u) /\ UNCHANGED <<content, head, index, lost>>
  BY DEF GreetFails, replica
<1>4. TypeOK'
  BY <1>1, <1>2, <1>3, SetType, ThreadConstants DEF GreetFails, IInv, TypeOK, replica, bounds
<1>5. TaskOK(p, u) /\ t.todo \subseteq Known(p) \cup u.todo
  <2>1. t.pc \in {"greet"}
    BY DEF GreetFails
  <2>2. t.todo = {}
    BY <1>1, <2>1 DEF TaskOK, Walking
  <2> QED BY <2>2, IdleOK DEF Idle
<1>6. NetOK'
  BY <1>1, NetKept DEF GreetFails, IInv
<1> QED BY <1>2, <1>3, <1>4, <1>5, <1>6, TaskStep

LEMMA CommitFailsInv ==
  ASSUME IInv, NEW p \in Peer, NEW s \in Slot, CommitFails(p, s)
  PROVE  IInv'
<1> DEFINE t == task[p][s]
<1> DEFINE u == Idle
<1>1. t \in Task /\ TaskOK(p, t)
  BY TaskType
<1>2. u \in Task
  BY <1>1, IdleType, ThreadConstants DEF CommitFails, Task, Label
<1>3. Set(p, s, u) /\ UNCHANGED <<content, head, index, lost>>
  BY DEF CommitFails, replica
<1>4. TypeOK'
  <2>1. t.cur \in Block
    BY <1>1 DEF CommitFails, TaskOK, Known, IInv, TypeOK
  <2>2. stray' \in [Peer -> SUBSET Block]
    BY <2>1 DEF CommitFails, IInv, TypeOK
  <2>3. mux' \in [Peer -> Slot \cup {None}]
    BY DEF CommitFails, Unlocked, IInv, TypeOK
  <2> QED
    BY <1>2, <1>3, <2>2, <2>3, SetType, ThreadConstants
    DEF CommitFails, IInv, TypeOK, replica, bounds
<1>5. TaskOK(p, u) /\ t.todo \subseteq Known(p) \cup u.todo
  <2>1. t.pc \in {"commithead"}
    BY DEF CommitFails
  <2>2. t.todo = {}
    BY <1>1, <2>1 DEF TaskOK, Walking
  <2> QED BY <2>2, IdleOK DEF Idle
<1>6. NetOK'
  BY <1>1, NetKept DEF CommitFails, IInv
<1> QED BY <1>2, <1>3, <1>4, <1>5, <1>6, TaskStep

LEMMA LeaveFailsInv ==
  ASSUME IInv, NEW p \in Peer, NEW s \in Slot, LeaveFails(p, s)
  PROVE  IInv'
<1> DEFINE t == task[p][s]
<1> DEFINE u == Idle
<1>1. t \in Task /\ TaskOK(p, t)
  BY TaskType
<1>2. u \in Task
  BY <1>1, IdleType, ThreadConstants DEF LeaveFails, Task, Label
<1>3. Set(p, s, u) /\ UNCHANGED <<content, head, index, lost>>
  BY DEF LeaveFails, replica
<1>4. TypeOK'
  BY <1>1, <1>2, <1>3, SetType, ThreadConstants DEF LeaveFails, IInv, TypeOK, replica, bounds, Unlocked
<1>5. TaskOK(p, u) /\ t.todo \subseteq Known(p) \cup u.todo
  <2>1. t.pc \in {"cleanup"}
    BY DEF LeaveFails
  <2>2. t.todo = {}
    BY <1>1, <2>1 DEF TaskOK, Walking
  <2> QED BY <2>2, IdleOK DEF Idle
<1>6. NetOK'
  BY <1>1, NetKept DEF LeaveFails, IInv
<1> QED BY <1>2, <1>3, <1>4, <1>5, <1>6, TaskStep

LEMMA AcceptInv ==
  ASSUME IInv, NEW p \in Peer, NEW s \in Slot, NEW m,
         Accept(p, s, m)
  PROVE  IInv'
<1> DEFINE t == task[p][s]
<1> DEFINE u == [Idle EXCEPT !.pc = "follow", !.kind = "invite", !.top = m.block,
                           !.todo = {m.block} \ {None}]
<1>1. t \in Task /\ TaskOK(p, t)
  BY TaskType
<1>2. u \in Task
  <2>1. m.block \in Block \cup {None}
    BY DEF Accept, IInv, TypeOK, Envelope
  <2> QED BY <2>1, IdleType DEF Task, Label, Kind
<1>3. Set(p, s, u) /\ UNCHANGED <<content, head, index, lost>>
  BY DEF Accept, replica
<1>4. TypeOK'
  BY <1>1, <1>2, <1>3, SetType DEF Accept, IInv, TypeOK, replica, bounds
<1>5. TaskOK(p, u) /\ t.todo \subseteq Known(p) \cup u.todo
  <2>1. m.block \in Written \cup {None}
    BY DEF Accept, IInv, NetOK
  <2>2. t.todo = {}
    BY DEF Accept, Idle
  <2>3. /\ u.pc = "follow" /\ u.kind = "invite" /\ u.top = m.block
        /\ u.cur = None /\ u.todo = {m.block} \ {None} /\ u.base = None
    BY DEF Idle
  <2> HIDE DEF t, u
  <2> QED BY <2>1, <2>2, <2>3 DEF TaskOK, Walking
<1>6. NetOK'
  BY <1>1, NetKept DEF Accept, IInv
<1> QED BY <1>2, <1>3, <1>4, <1>5, <1>6, TaskStep

LEMMA AcceptMarkInv ==
  ASSUME IInv, NEW p \in Peer, NEW s \in Slot, AcceptMark(p, s)
  PROVE  IInv'
<1> DEFINE t == task[p][s]
<1> DEFINE u == [t EXCEPT !.pc = "commit"]
<1>1. t \in Task /\ TaskOK(p, t)
  BY TaskType
<1>2. u \in Task
  BY <1>1 DEF AcceptMark, Task, Label
<1>3. Set(p, s, u) /\ UNCHANGED <<content, head, index, lost>>
  BY DEF AcceptMark, replica
<1>4. TypeOK'
  BY <1>1, <1>2, <1>3, SetType DEF AcceptMark, IInv, TypeOK, replica, bounds
<1>5. TaskOK(p, u) /\ t.todo \subseteq Known(p) \cup u.todo
  <2>1. /\ t.pc = "acceptmark" /\ u.pc = "commit" /\ u.cur = t.cur /\ u.todo = t.todo
        /\ u.kind = t.kind /\ u.top = t.top /\ u.base = t.base
    BY <1>1 DEF AcceptMark, Task
  <2> HIDE DEF t, u
  <2> QED BY <1>1, <2>1, ThreadConstants DEF TaskOK, Walking
<1>6. NetOK'
  BY <1>1, NetKept DEF AcceptMark, IInv
<1> QED BY <1>2, <1>3, <1>4, <1>5, <1>6, TaskStep

LEMMA CommitConflictInv ==
  ASSUME IInv, NEW p \in Peer, NEW s \in Slot, CommitConflict(p, s)
  PROVE  IInv'
<1> DEFINE t == task[p][s]
<1> DEFINE u == Idle
<1>1. t \in Task /\ TaskOK(p, t)
  BY TaskType
<1>2. u \in Task
  BY <1>1, IdleType DEF CommitConflict, Task, Label
<1>3. Set(p, s, u) /\ UNCHANGED <<content, head, index, lost>>
  BY DEF CommitConflict, replica
<1>4. TypeOK'
  BY <1>1, <1>2, <1>3, SetType DEF CommitConflict, IInv, TypeOK, replica, bounds, Unlocked
<1>5. TaskOK(p, u) /\ t.todo \subseteq Known(p) \cup u.todo
  <2>1. t.pc \in {"commitindex"}
    BY DEF CommitConflict
  <2>2. t.todo = {}
    BY <1>1, <2>1 DEF TaskOK, Walking
  <2> QED BY <2>2, IdleOK DEF Idle
<1>6. NetOK'
  BY <1>1, NetKept DEF CommitConflict, IInv
<1> QED BY <1>2, <1>3, <1>4, <1>5, <1>6, TaskStep

LEMMA PostBlockInv ==
  ASSUME IInv, NEW p \in Peer, NEW s \in Slot, PostBlock(p, s)
  PROVE  IInv'
<1> DEFINE t == task[p][s]
<1> DEFINE u == IF t.kind = "leave" THEN [t EXCEPT !.pc = "cleanup"] ELSE Idle
<1>1. t \in Task /\ TaskOK(p, t)
  BY TaskType
<1>0. members[p] \in SUBSET Peer /\ t.cur \in Written
  BY <1>1, ThreadConstants DEF PostBlock, IInv, TypeOK, TaskOK
<1>2. u \in Task
  BY <1>1, IdleType DEF PostBlock, Task, Label
<1>3. Set(p, s, u) /\ UNCHANGED <<content, head, index, lost>>
  BY DEF PostBlock, replica
<1>4. TypeOK'
  BY <1>1, <1>2, <1>3, SetType, PostOK, <1>0
    DEF PostBlock, IInv, TypeOK, replica, bounds, Unlocked
<1>5. TaskOK(p, u) /\ t.todo \subseteq Known(p) \cup u.todo
  <2>1. t.pc = "post" /\ t.todo = {}
    BY <1>1 DEF PostBlock, TaskOK, Walking
  <2>2. CASE t.kind = "leave"
    <3>1. u.pc = "cleanup" /\ u.kind = t.kind /\ u.top = t.top /\ u.cur = t.cur /\ u.base = t.base /\ u.todo = {}
      BY <1>1, <2>1, <2>2 DEF Task
    <3> HIDE DEF t, u
    <3> QED BY <1>1, <2>1, <2>2, <3>1 DEF TaskOK, Walking
  <2>3. CASE t.kind # "leave"
    BY <2>1, <2>3, IdleOK
  <2> QED BY <2>2, <2>3
<1>6. NetOK'
  BY <1>0, PostOK DEF PostBlock
<1> QED BY <1>2, <1>3, <1>4, <1>5, <1>6, TaskStep

LEMMA IndexInboundInv ==
  ASSUME IInv, NEW p \in Peer, NEW s \in Slot, IndexInbound(p, s)
  PROVE  IInv'
<1> DEFINE t == task[p][s]
<1> DEFINE u == [t EXCEPT !.pc = IF CollectsAuthor(t.cur) THEN "peer" ELSE "follow",
                          !.cur = IF CollectsAuthor(t.cur) THEN @ ELSE None,
                          !.todo = (@ \ {t.cur}) \cup ParentsToFollow(t.cur)]
<1>1. t \in Task /\ TaskOK(p, t)
  BY TaskType
<1>2. /\ t.pc = "index" /\ t.cur \in Block /\ t.cur \in Written
      /\ Parents(t.cur) \subseteq Written
      /\ CollectsAuthor(t.cur) => content[t.cur].author \in Peer
  BY <1>1, ThreadConstants DEF IndexInbound, TaskOK, IInv, ContentOK, CollectsAuthor
<1>3. /\ u.pc \in {"peer", "follow"} /\ u.kind = t.kind /\ u.top = t.top /\ u.base = t.base
      /\ u.cur \in {t.cur, None}
      /\ u.pc = "peer" => u.cur = t.cur /\ CollectsAuthor(t.cur)
      /\ u.todo = (t.todo \ {t.cur}) \cup Parents(t.cur)
  BY <1>1 DEF Task, ParentsToFollow
<1>4. u \in Task
  BY <1>1, <1>2, ThreadConstants DEF Task, Label, ParentsToFollow, Written
<1>5. Set(p, s, u) /\ index' = [index EXCEPT ![p] = @ \cup {t.cur}]
  BY DEF IndexInbound
<1>6. task' \in [Peer -> [Slot -> Task]]
  BY <1>4, <1>5, SetType DEF IInv
<1>7. TypeOK'
  <2>1. index' \in [Peer -> SUBSET Block]
    BY <1>2, <1>5 DEF IInv, TypeOK
  <2> QED BY <1>6, <2>1 DEF IndexInbound, IInv, TypeOK, bounds
<1>8. ContentOK' /\ NetOK'
  BY NetKept DEF IndexInbound, IInv, ContentOK, Written, Parents
<1>9. /\ task'[p][s] = u
      /\ \A r \in Slot \ {s} : task'[p][r] = task[p][r]
      /\ \A q \in Peer \ {p} : task'[q] = task[q]
  BY <1>5 DEF Set, IInv, TypeOK
<1>10. /\ index'[p] = index[p] \cup {t.cur} /\ lost' = lost /\ head' = head
       /\ \A q \in Peer \ {p} : index'[q] = index[q]
       /\ content' = content
  BY <1>5 DEF IndexInbound, IInv, TypeOK
<1> HIDE DEF t, u
<1>11. Known(p)' = Known(p) \cup {t.cur} /\ Written' = Written
  BY <1>10 DEF Known, Written
<1>12. TaskOK(p, task[p][s])'
  BY <1>1, <1>2, <1>3, <1>9, <1>10, <1>11 DEF TaskOK, Walking, Parents
<1>13. t.todo \subseteq Known(p)' \cup task'[p][s].todo
  BY <1>3, <1>9, <1>11
<1>14. \A b \in index'[p] \ index[p] :
         Parents(b)' \subseteq Known(p)' \cup task'[p][s].todo
  BY <1>3, <1>9, <1>10 DEF Parents
<1>15. Known(p)' \subseteq Written' /\ head'[p] \in Known(p)' \cup {None}
  BY <1>2, <1>10, <1>11 DEF IInv, ReplicaOK, HeadAccounted, Known
<1> QED BY <1>7, <1>8, <1>9, <1>10, <1>11, <1>12, <1>13, <1>14, <1>15, Step DEF t

LEMMA SetFrame ==
  ASSUME IInv, NEW p \in Peer, NEW s \in Slot, NEW t \in Task, Set(p, s, t)
  PROVE  /\ task'[p][s] = t
         /\ \A r \in Slot \ {s} : task'[p][r] = task[p][r]
         /\ \A q \in Peer \ {p} : task'[q] = task[q]
BY DEF Set, IInv, TypeOK

\* The block is shown and its parents are written off.
LEMMA HandlerFailsInv ==
  ASSUME IInv, NEW p \in Peer, NEW s \in Slot, HandlerFails(p, s)
  PROVE  IInv'
<1> DEFINE t == task[p][s]
<1> DEFINE u == IF t.cur \notin t.todo THEN Idle
                ELSE [t EXCEPT !.pc = "follow", !.cur = None, !.todo = @ \ {t.cur}]
<1>1. t \in Task /\ TaskOK(p, t) /\ t.pc = "index"
  BY TaskType DEF HandlerFails
<1>2. t.cur \in Block /\ t.cur \in Written /\ Parents(t.cur) \subseteq Written
  <2> HIDE DEF t
  <2> QED BY <1>1, ThreadConstants DEF TaskOK, IInv, ContentOK
<1>3. t.cur \notin t.todo => u = Idle /\ t.todo = {}
  <2> HIDE DEF t
  <2> QED BY <1>1 DEF TaskOK
<1>4. t.cur \in t.todo => /\ u.pc = "follow" /\ u.cur = None /\ u.todo = t.todo \ {t.cur}
                         /\ u.top = t.top /\ u.base = t.base /\ u.kind = t.kind
  BY <1>1 DEF Task
<1>5. u \in Task
  BY <1>1, IdleType DEF Task, Label
<1>6. /\ Set(p, s, u) /\ index' = [index EXCEPT ![p] = @ \cup {t.cur}]
      /\ lost' = [lost EXCEPT ![p] = @ \cup Parents(t.cur)]
  BY DEF HandlerFails
<1>7. TypeOK'
  <2>1. failures' \in 0..MaxFailures
    BY ThreadConstants DEF HandlerFails, IInv, TypeOK
  <2>2. index' \in [Peer -> SUBSET Block] /\ lost' \in [Peer -> SUBSET Block]
    BY <1>2, <1>6 DEF IInv, TypeOK, Written
  <2>3. stray' \in [Peer -> SUBSET Block]
    BY <1>2 DEF HandlerFails, IInv, TypeOK
  <2> QED BY <1>5, <1>6, <2>1, <2>2, <2>3, SetType DEF HandlerFails, IInv, TypeOK
<1>8. ContentOK' /\ NetOK'
  BY NetKept DEF HandlerFails, IInv, ContentOK, Written, Parents
<1>9. /\ task'[p][s] = u
      /\ \A r \in Slot \ {s} : task'[p][r] = task[p][r]
      /\ \A q \in Peer \ {p} : task'[q] = task[q]
  BY <1>5, <1>6, SetFrame
<1>10. /\ index'[p] = index[p] \cup {t.cur} /\ lost'[p] = lost[p] \cup Parents(t.cur)
       /\ head' = head /\ content' = content
       /\ \A q \in Peer \ {p} : index'[q] = index[q] /\ lost'[q] = lost[q]
  BY <1>6 DEF HandlerFails, IInv, TypeOK
<1> HIDE DEF t, u
<1>11. Known(p)' = Known(p) \cup {t.cur} \cup Parents(t.cur) /\ Written' = Written
  BY <1>10 DEF Known, Written
<1>12. TaskOK(p, task[p][s])'
  <2>1. CASE t.cur \notin t.todo
    BY <1>3, <1>9, <2>1 DEF TaskOK, Idle, Walking
  <2>2. CASE t.cur \in t.todo
    BY <1>1, <1>2, <1>4, <1>9, <1>10, <1>11, <2>2 DEF TaskOK, Walking
  <2> QED BY <2>1, <2>2
<1>13. t.todo \subseteq Known(p)' \cup task'[p][s].todo
  BY <1>3, <1>4, <1>9, <1>11
<1>14. \A b \in index'[p] \ index[p] :
         Parents(b)' \subseteq Known(p)' \cup task'[p][s].todo
  BY <1>10, <1>11 DEF Parents
<1>15. Known(p)' \subseteq Written' /\ head'[p] \in Known(p)' \cup {None}
  BY <1>2, <1>10, <1>11 DEF IInv, ReplicaOK, HeadAccounted, Known
<1> QED BY <1>7, <1>8, <1>9, <1>10, <1>11, <1>12, <1>13, <1>14, <1>15, Step DEF t

LEMMA UpdateHeadType ==
  ASSUME TypeOK, NEW p \in Peer, NEW b \in Block, NEW base, UpdateHead(p, b, base)
  PROVE  head' \in [Peer -> Block \cup {None}] /\ stray' \in [Peer -> SUBSET Block]
<1>1. CASE loaded[p]
  <2> DEFINE d == {head[p]} \ {None, b, base}
  <2>1. d \subseteq Block
    BY DEF TypeOK
  <2>2. head' = [head EXCEPT ![p] = b] /\ stray' = [stray EXCEPT ![p] = @ \cup d]
    BY <1>1 DEF UpdateHead
  <2> HIDE DEF d
  <2> QED BY <2>1, <2>2 DEF TypeOK
<1>2. CASE ~loaded[p]
  BY <1>2 DEF UpdateHead, TypeOK
<1> QED BY <1>1, <1>2

\* A step that moves its goroutine and sets HEAD to a known block.
LEMMA HeadStep ==
  ASSUME IInv, NEW p \in Peer, NEW s \in Slot, NEW t \in Task, NEW b \in Known(p), NEW base,
         Set(p, s, t), UpdateHead(p, b, base), UNCHANGED <<content, net, index, lost>>,
         TypeOK', TaskOK(p, t), task[p][s].todo = {}
  PROVE  IInv'
<1>1. /\ task'[p][s] = t
      /\ \A r \in Slot \ {s} : task'[p][r] = task[p][r]
      /\ \A q \in Peer \ {p} : task'[q] = task[q]
  BY SetFrame
<1>2. /\ \A q \in Peer \ {p} : head'[q] = head[q]
      /\ head'[p] \in {b, head[p]}
  BY DEF UpdateHead, IInv, TypeOK
<1>3. Known(p)' = Known(p) /\ Written' = Written
  BY DEF Known, Written
<1>4. TaskOK(p, task[p][s])'
  BY <1>1, <1>3 DEF TaskOK, Parents
<1>5. ContentOK' /\ NetOK'
  BY NetKept DEF IInv, ContentOK, Parents, Written
<1>6. Known(p) \subseteq Written /\ head[p] \in Known(p) \cup {None}
  BY DEF IInv, ReplicaOK, HeadAccounted, Known
<1> QED BY <1>1, <1>2, <1>3, <1>4, <1>5, <1>6, Step

LEMMA FastForwardInv ==
  ASSUME IInv, NEW p \in Peer, NEW s \in Slot, FastForward(p, s)
  PROVE  IInv'
<1> DEFINE t == task[p][s]
<1> DEFINE u == [Idle EXCEPT !.pc = "welcome"]
<1>1. t \in Task /\ TaskOK(p, t)
  BY TaskType
<1>2. t.top \in Known(p) /\ t.top \in Block /\ t.todo = {}
  <2>1. t.pc = "ff"
    BY DEF FastForward
  <2> HIDE DEF t
  <2> QED BY <1>1, <2>1 DEF TaskOK, Walking, Known, IInv, TypeOK
<1>3. u \in Task /\ TaskOK(p, u)
  BY IdleType DEF Task, Label, TaskOK, Idle, Walking
<1>4. Set(p, s, u) /\ UpdateHead(p, t.top, t.base) /\ UNCHANGED <<content, net, index, lost>>
  BY DEF FastForward
<1>5. TypeOK'
  BY <1>2, <1>3, <1>4, SetType, UpdateHeadType DEF FastForward, IInv, TypeOK, bounds
<1> QED BY <1>2, <1>3, <1>4, <1>5, HeadStep

LEMMA CommitHeadInv ==
  ASSUME IInv, NEW p \in Peer, NEW s \in Slot, CommitHead(p, s)
  PROVE  IInv'
<1> DEFINE t == task[p][s]
<1> DEFINE u == IF t.kind = "merge" THEN [Idle EXCEPT !.pc = "welcome"]
                ELSE [t EXCEPT !.pc = "post"]
<1>1. t \in Task /\ TaskOK(p, t) /\ t.pc = "commithead"
  BY TaskType DEF CommitHead
<1>2. t.cur \in Known(p) /\ t.cur \in Block /\ t.todo = {}
  <2> HIDE DEF t
  <2> QED BY <1>1 DEF TaskOK, Walking, Known, IInv, TypeOK
<1>3. u \in Task /\ TaskOK(p, u)
  <2>1. CASE t.kind = "merge"
    BY <2>1, IdleType DEF Task, Label, TaskOK, Idle, Walking
  <2>2. CASE t.kind # "merge"
    <3>1. /\ u.pc = "post" /\ u.kind = t.kind /\ u.top = t.top /\ u.cur = t.cur
          /\ u.base = t.base /\ u.todo = t.todo /\ u \in Task
      BY <1>1, <2>2 DEF Task, Label
    <3> HIDE DEF t, u
    <3> QED BY <1>1, <1>2, <3>1 DEF TaskOK, Walking
  <2> QED BY <2>1, <2>2
<1>4. Set(p, s, u) /\ UpdateHead(p, t.cur, t.base) /\ UNCHANGED <<content, net, index, lost>>
  BY DEF CommitHead
<1>5. mux' \in [Peer -> Slot \cup {None}]
  BY DEF CommitHead, Unlocked, IInv, TypeOK
<1>6. TypeOK'
  BY <1>2, <1>3, <1>4, <1>5, SetType, UpdateHeadType DEF CommitHead, IInv, TypeOK, bounds
<1> QED BY <1>2, <1>3, <1>4, <1>6, HeadStep

LEMMA AcceptHeadInv ==
  ASSUME IInv, NEW p \in Peer, NEW s \in Slot, AcceptHead(p, s)
  PROVE  IInv'
<1> DEFINE t == task[p][s]
<1> DEFINE u == [Idle EXCEPT !.pc = "acceptmark", !.kind = "join"]
<1>1. t \in Task /\ TaskOK(p, t) /\ t.pc = "accepthead"
  BY TaskType DEF AcceptHead
<1>2. t.top \in Known(p) \cup {None} /\ t.todo = {}
  <2> HIDE DEF t
  <2> QED BY <1>1 DEF TaskOK, Walking
<1>3. Known(p) \subseteq Block
  BY DEF Known, IInv, TypeOK
<1>4. u \in Task /\ TaskOK(p, u)
  BY IdleType DEF Task, Label, Kind, TaskOK, Idle, Walking
<1>5. Set(p, s, u) /\ UNCHANGED <<content, net, index, lost>>
  BY DEF AcceptHead
<1>6. CASE t.top = None
  <2>1. TypeOK' /\ NetOK' /\ head' = head
    BY <1>4, <1>5, <1>6, SetType, NetKept DEF AcceptHead, IInv, TypeOK, bounds
  <2> QED BY <1>2, <1>4, <1>5, <2>1, TaskStep
<1>7. CASE t.top # None
  <2>1. UpdateHead(p, t.top, None)
    BY <1>7 DEF AcceptHead
  <2>2. TypeOK'
    BY <1>2, <1>3, <1>4, <1>5, <1>7, <2>1, SetType, UpdateHeadType
    DEF AcceptHead, IInv, TypeOK, bounds
  <2> QED BY <1>2, <1>4, <1>5, <1>7, <2>1, <2>2, HeadStep
<1> QED BY <1>6, <1>7

\* A step that writes a block on top of known parents and puts it in the task's
\* hands, as merge() and the local writers do.
LEMMA WriteStep ==
  ASSUME IInv, NEW p \in Peer, NEW s \in Slot, NEW t \in Task, NEW i \in Block, NEW c \in Content,
         content' = [content EXCEPT ![i] = c],
         content[i] = c \/ content[i].kind = "none",
         c.kind # "none", c.parents \subseteq Known(p),
         c.kind \in {"join", "announce", "leave"} => c.author \in Peer,
         mux' = [mux EXCEPT ![p] = s], Set(p, s, t),
         UNCHANGED <<net, loaded, replica, lost, stray, bounds>>,
         task[p][s].todo = {},
         t.pc = "commitindex", t.kind \notin {"none", "invite"}, t.cur = i, t.todo = {},
         {t.top, t.base} \subseteq Written \cup {None}
  PROVE  IInv'
<1>1. Known(p) \subseteq Written /\ head[p] \in Known(p) \cup {None}
  BY DEF IInv, ReplicaOK, HeadAccounted, Known
<1>2. /\ content' \in [Block -> Content] /\ ContentOK'
      /\ \A b \in Written : content'[b] = content[b]
      /\ Written' = Written \cup {i} /\ content'[i] = c
  BY <1>1, WriteContent DEF IInv
<1>3. TypeOK'
  BY <1>2, SetType DEF IInv, TypeOK, replica, bounds
<1>4. NetOK'
  BY <1>2 DEF IInv, NetOK
<1>5. /\ task'[p][s] = t
      /\ \A r \in Slot \ {s} : task'[p][r] = task[p][r]
      /\ \A q \in Peer \ {p} : task'[q] = task[q]
  BY SetFrame
<1>6. Known(p)' = Known(p) /\ Written \subseteq Written' /\ UNCHANGED <<index, lost, head>>
  BY <1>2 DEF Known, replica
<1>7. TaskOK(p, task[p][s])'
  BY <1>2, <1>5, <1>6 DEF TaskOK, Walking, Parents
<1> QED BY <1>1, <1>2, <1>3, <1>4, <1>5, <1>6, <1>7, Step

LEMMA CommitBlockInv ==
  ASSUME IInv, NEW p \in Peer, NEW s \in Slot, NEW k \in UpdateKind \cup {"join"},
         CommitBlock(p, s, k), task[p][s].todo = {}
  PROVE  IInv'
<1> DEFINE c == [kind |-> k, author |-> p, address |-> AddressOf[p], parents |-> HeadParents(p)]
<1> DEFINE u == [Idle EXCEPT !.pc = "commitindex", !.kind = k, !.cur = Fresh, !.base = head[p]]
<1>1. Fresh \in Block /\ content[Fresh].kind = "none"
  BY FreshType DEF CommitBlock, IInv
<1>2. HeadParents(p) \subseteq Known(p) /\ head[p] \in Written \cup {None}
  BY DEF HeadParents, Known, IInv, HeadAccounted, ReplicaOK
<1>3. HeadParents(p) \subseteq Block /\ head[p] \in Block \cup {None}
  BY DEF HeadParents, IInv, TypeOK
<1>4. c \in Content /\ c.kind # "none" /\ c.parents \subseteq Known(p) /\ c.author \in Peer
  BY <1>2, <1>3, ThreadConstants DEF Content, Kind, UpdateKind
<1>5. /\ u \in Task
      /\ u.pc = "commitindex" /\ u.kind \notin {"none", "invite"}
      /\ u.cur = Fresh /\ u.todo = {} /\ u.top = None /\ u.base = head[p]
  BY <1>1, <1>3, IdleType DEF Task, Label, Kind, UpdateKind, Idle
<1>6. /\ content' = [content EXCEPT ![Fresh] = c]
      /\ mux' = [mux EXCEPT ![p] = s] /\ Set(p, s, u)
      /\ UNCHANGED <<net, loaded, replica, lost, stray, bounds>>
  BY DEF CommitBlock
<1> HIDE DEF c, u
<1> QED BY <1>1, <1>2, <1>4, <1>5, <1>6, WriteStep

LEMMA AddUpdateInv ==
  ASSUME IInv, NEW p \in Peer, NEW s \in Slot, NEW k \in LocalKind, AddUpdate(p, s, k)
  PROVE  IInv'
<1>1. task[p][s].todo = {} /\ k \in UpdateKind
  BY ThreadConstants DEF AddUpdate, Idle
<1> QED BY <1>1, CommitBlockInv DEF AddUpdate

LEMMA JoinInv ==
  ASSUME IInv, NEW p \in Peer, NEW s \in Slot, Join(p, s)
  PROVE  IInv'
<1>1. task[p][s].todo = {}
  BY TaskType DEF Join, TaskOK, Walking
<1> QED BY <1>1, CommitBlockInv DEF Join

LEMMA MergeInv ==
  ASSUME IInv, NEW p \in Peer, NEW s \in Slot, Merge(p, s)
  PROVE  IInv'
<1> DEFINE t == task[p][s]
<1> DEFINE c == [kind |-> "merge", author |-> None, address |-> AddressOf[p],
                 parents |-> {head[p], t.top}]
<1> DEFINE u == [t EXCEPT !.pc = "commitindex", !.kind = "merge", !.cur = IdOf(c), !.base = head[p]]
<1>1. t \in Task /\ TaskOK(p, t) /\ t.pc = "merge"
  BY TaskType DEF Merge
<1>2. t.todo = {} /\ t.top \in Written \cup {None}
  <2> HIDE DEF t
  <2> QED BY <1>1 DEF TaskOK, Walking
<1>3. c.parents \subseteq index[p]
  BY DEF Merge
<1>4. c.parents \subseteq Known(p) /\ c.parents \subseteq Block
  BY <1>3 DEF Known, IInv, TypeOK
<1>5. c \in Content
  BY <1>4, ThreadConstants DEF Content, Kind
<1>6. IdOf(c) \in Block /\ (content[IdOf(c)] = c \/ content[IdOf(c)].kind = "none")
  BY <1>5, IdOfType DEF Merge, IInv
<1>7. head[p] \in Block \cup {None} /\ head[p] \in Written \cup {None}
  BY DEF IInv, TypeOK, ReplicaOK
<1>8. /\ u \in Task /\ u.pc = "commitindex" /\ u.kind = "merge"
      /\ u.cur = IdOf(c) /\ u.todo = t.todo /\ u.top = t.top /\ u.base = head[p]
  BY <1>1, <1>6, <1>7 DEF Task, Label, Kind
<1>9. /\ content' = [content EXCEPT ![IdOf(c)] = c]
      /\ mux' = [mux EXCEPT ![p] = s] /\ Set(p, s, u)
      /\ UNCHANGED <<net, loaded, replica, lost, stray, bounds>>
  BY DEF Merge
<1>10. c.kind = "merge"
  OBVIOUS
<1> HIDE DEF c, u
<1> QED BY <1>2, <1>4, <1>5, <1>6, <1>7, <1>8, <1>9, <1>10, WriteStep DEF t

LEMMA CommitIndexInv ==
  ASSUME IInv, NEW p \in Peer, NEW s \in Slot, CommitIndex(p, s)
  PROVE  IInv'
<1> DEFINE t == task[p][s]
<1> DEFINE u == [t EXCEPT !.pc = "commithead"]
<1>1. t \in Task /\ TaskOK(p, t) /\ t.pc = "commitindex"
  BY TaskType DEF CommitIndex
<1>2. u \in Task /\ u.pc = "commithead" /\ u.cur = t.cur /\ u.todo = t.todo /\ u.top = t.top
      /\ u.base = t.base /\ u.kind = t.kind
  BY <1>1 DEF Task, Label
<1>3. Set(p, s, u) /\ index' = [index EXCEPT ![p] = @ \cup {t.cur}]
  BY DEF CommitIndex
<1>4. t.cur \in Block /\ t.cur \in Written /\ Parents(t.cur) \subseteq Known(p) /\ t.todo = {}
  <2> HIDE DEF t
  <2> QED BY <1>1, ThreadConstants DEF TaskOK, Walking
<1>5. TypeOK'
  <2>1. index' \in [Peer -> SUBSET Block]
    BY <1>3, <1>4 DEF IInv, TypeOK
  <2> QED BY <1>2, <1>3, <2>1, SetType DEF CommitIndex, IInv, TypeOK, bounds
<1>6. ContentOK' /\ NetOK'
  BY NetKept DEF CommitIndex, IInv, ContentOK, Written, Parents
<1>7. /\ task'[p][s] = u
      /\ \A r \in Slot \ {s} : task'[p][r] = task[p][r]
      /\ \A q \in Peer \ {p} : task'[q] = task[q]
  BY <1>2, <1>3, SetFrame
<1>8. /\ index'[p] = index[p] \cup {t.cur} /\ lost' = lost /\ head' = head
      /\ \A q \in Peer \ {p} : index'[q] = index[q]
      /\ content' = content
  BY <1>3 DEF CommitIndex, IInv, TypeOK
<1> HIDE DEF t, u
<1>9. Known(p)' = Known(p) \cup {t.cur} /\ Written' = Written
  BY <1>8 DEF Known, Written
<1>10. TaskOK(p, task[p][s])'
  BY <1>1, <1>2, <1>4, <1>7, <1>8, <1>9 DEF TaskOK, Walking, Parents
<1>11. \A b \in index'[p] \ index[p] : Parents(b)' \subseteq Known(p)'
  BY <1>4, <1>8, <1>9 DEF Parents
<1>12. Known(p)' \subseteq Written' /\ head'[p] \in Known(p)' \cup {None}
  BY <1>4, <1>8, <1>9 DEF IInv, ReplicaOK, HeadAccounted, Known
<1> QED BY <1>4, <1>5, <1>6, <1>7, <1>8, <1>9, <1>10, <1>11, <1>12, Step DEF t

LEMMA FetchFailsInv ==
  ASSUME IInv, NEW p \in Peer, NEW s \in Slot, NEW b \in Block, FetchFails(p, s, b)
  PROVE  IInv'
<1> DEFINE t == task[p][s]
<1> DEFINE u == [t EXCEPT !.todo = @ \ {b}]
<1>1. t \in Task /\ TaskOK(p, t) /\ t.pc = "follow" /\ b \in t.todo
  BY TaskType DEF FetchFails
<1>2. u \in Task /\ u.pc = "follow" /\ u.cur = t.cur /\ u.todo = t.todo \ {b} /\ u.top = t.top
      /\ u.base = t.base /\ u.kind = t.kind
  BY <1>1 DEF Task, Label
<1>3. Set(p, s, u) /\ lost' = [lost EXCEPT ![p] = @ \cup {b}]
  BY DEF FetchFails
<1>4. TypeOK'
  <2>1. failures' \in 0..MaxFailures
    BY ThreadConstants DEF FetchFails, IInv, TypeOK
  <2>2. lost' \in [Peer -> SUBSET Block]
    BY <1>3 DEF IInv, TypeOK
  <2> QED BY <1>2, <1>3, <2>1, <2>2, SetType DEF FetchFails, replica, IInv, TypeOK
<1>5. ContentOK' /\ NetOK'
  BY NetKept DEF FetchFails, IInv, ContentOK, Written, Parents
<1>6. /\ task'[p][s] = u
      /\ \A r \in Slot \ {s} : task'[p][r] = task[p][r]
      /\ \A q \in Peer \ {p} : task'[q] = task[q]
  BY <1>2, <1>3, SetFrame
<1>7. /\ lost'[p] = lost[p] \cup {b} /\ index' = index /\ head' = head
      /\ \A q \in Peer \ {p} : lost'[q] = lost[q]
      /\ content' = content
  BY <1>3 DEF FetchFails, replica, IInv, TypeOK
<1> HIDE DEF t, u
<1>8. Known(p)' = Known(p) \cup {b} /\ Written' = Written /\ b \in Written
  BY <1>1, <1>7 DEF Known, Written, TaskOK
<1>9. TaskOK(p, task[p][s])'
  BY <1>1, <1>2, <1>6, <1>7, <1>8 DEF TaskOK, Walking
<1>10. t.todo \subseteq Known(p)' \cup task'[p][s].todo
  BY <1>2, <1>6, <1>8
<1>11. Known(p)' \subseteq Written' /\ head'[p] \in Known(p)' \cup {None}
  BY <1>7, <1>8 DEF IInv, ReplicaOK, HeadAccounted, Known
<1> QED BY <1>4, <1>5, <1>6, <1>7, <1>8, <1>9, <1>10, <1>11, Step DEF t

LEMMA CleanupInv ==
  ASSUME IInv, NEW p \in Peer, NEW s \in Slot, Cleanup(p, s)
  PROVE  IInv'
<1> DEFINE u == [task[p][s] EXCEPT !.pc = "cleanuppeers"]
<1>1. /\ u \in Task /\ u.pc = "cleanuppeers" /\ u.kind = task[p][s].kind
      /\ u.cur = task[p][s].cur /\ u.top = task[p][s].top /\ u.base = task[p][s].base
      /\ u.todo = task[p][s].todo
  BY TaskType DEF Task, Label
<1>2. task[p][s].pc = "cleanup" /\ TaskOK(p, task[p][s]) /\ task[p][s].todo = {}
  BY TaskType DEF Cleanup, TaskOK, Walking
<1>3. Set(p, s, u)
  BY DEF Cleanup
<1>4. TypeOK'
  <2>1. lost' \in [Peer -> SUBSET Block] /\ index' \in [Peer -> SUBSET Block]
    BY DEF Cleanup, IInv, TypeOK
  <2> QED BY <1>1, <1>3, <2>1, SetType DEF Cleanup, IInv, TypeOK, bounds
<1>5. ContentOK' /\ NetOK'
  BY NetKept DEF Cleanup, IInv, ContentOK, Written, Parents
<1>6. /\ task'[p][s] = u
      /\ \A r \in Slot \ {s} : task'[p][r] = task[p][r]
      /\ \A q \in Peer \ {p} : task'[q] = task[q]
  BY <1>1, <1>3, SetFrame
<1>7. /\ lost'[p] = lost[p] \cup index[p] /\ index'[p] = {} /\ head' = head
      /\ \A q \in Peer \ {p} : lost'[q] = lost[q] /\ index'[q] = index[q]
      /\ content' = content
  BY DEF Cleanup, IInv, TypeOK
<1> HIDE DEF u
<1>8. Known(p)' = Known(p) /\ Written' = Written
  BY <1>7 DEF Known, Written
<1>9. TaskOK(p, task[p][s])'
  BY <1>1, <1>2, <1>6, <1>7, <1>8 DEF TaskOK, Walking
<1>10. Known(p)' \subseteq Written' /\ head'[p] \in Known(p)' \cup {None}
  BY <1>7, <1>8 DEF IInv, ReplicaOK, HeadAccounted, Known
<1> QED BY <1>2, <1>4, <1>5, <1>6, <1>7, <1>8, <1>9, <1>10, Step

LEMMA CleanupPeersInv ==
  ASSUME IInv, NEW p \in Peer, NEW s \in Slot, CleanupPeers(p, s)
  PROVE  IInv'
<1> DEFINE t == task[p][s]
<1> DEFINE u == [Idle EXCEPT !.pc = "remove"]
<1>1. t \in Task /\ TaskOK(p, t)
  BY TaskType
<1>2. u \in Task
  BY IdleType DEF Task, Label, Idle
<1>3. Set(p, s, u) /\ UNCHANGED <<content, head, index, lost>>
  BY DEF CleanupPeers
<1>4. TypeOK'
  <2>1. stray' \in [Peer -> SUBSET Block]
    BY DEF CleanupPeers, IInv, TypeOK
  <2>2. members' \in [Peer -> SUBSET Peer] /\ unwelcomed' \in [Peer -> SUBSET Peer]
    BY DEF CleanupPeers, IInv, TypeOK
  <2>3. mux' \in [Peer -> Slot \cup {None}]
    BY DEF CleanupPeers, Unlocked, IInv, TypeOK
  <2> QED BY <1>2, <1>3, <2>1, <2>2, <2>3, SetType DEF CleanupPeers, IInv, TypeOK, bounds
<1>5. TaskOK(p, u) /\ t.todo \subseteq Known(p) \cup u.todo
  <2>1. t.todo = {}
    BY <1>1 DEF CleanupPeers, TaskOK, Walking
  <2>2. TaskOK(p, u)
    BY DEF TaskOK, Idle, Walking
  <2> QED BY <2>1, <2>2
<1>6. NetOK'
  BY NetKept DEF CleanupPeers
<1> QED BY <1>2, <1>3, <1>4, <1>5, <1>6, TaskStep

LEMMA RemoveThreadInv ==
  ASSUME IInv, NEW p \in Peer, NEW s \in Slot, RemoveThread(p, s)
  PROVE  IInv'
<1>1. task[p][s].todo = {}
  BY TaskType DEF RemoveThread, TaskOK, Walking
<1>2. Set(p, s, Idle) /\ head' = [head EXCEPT ![p] = None]
      /\ UNCHANGED <<content, net, index, lost>>
  BY DEF RemoveThread
<1>3. TypeOK'
  BY <1>2, IdleType, SetType DEF RemoveThread, IInv, TypeOK, bounds
<1>4. ContentOK' /\ NetOK'
  BY <1>2, NetKept DEF IInv, ContentOK, Written, Parents
<1>5. /\ task'[p][s] = Idle
      /\ \A r \in Slot \ {s} : task'[p][r] = task[p][r]
      /\ \A q \in Peer \ {p} : task'[q] = task[q]
  BY <1>2, IdleType, SetFrame
<1>6. /\ head'[p] = None
      /\ \A q \in Peer \ {p} : head'[q] = head[q]
  BY <1>2 DEF IInv, TypeOK
<1>7. Known(p)' = Known(p) /\ Written' = Written /\ Known(p) \subseteq Written
  BY <1>2 DEF Known, Written, IInv, ReplicaOK
<1>8. TaskOK(p, task[p][s])'
  BY <1>5 DEF TaskOK, Walking, Idle
<1> QED BY <1>1, <1>2, <1>3, <1>4, <1>5, <1>6, <1>7, <1>8, Step

LEMMA AddInviteInv ==
  ASSUME IInv, NEW p \in Peer, NEW q \in Peer, AddInvite(p, q)
  PROVE  IInv'
<1> DEFINE e == [kind |-> "invite", from |-> p, to |-> q, block |-> head[p]]
<1>1. e \in Envelope /\ e.kind # "block" /\ e.block \in Written \cup {None}
  BY DEF Envelope, IInv, TypeOK, ReplicaOK
<1>2. net' = net \cup {e} /\ UNCHANGED <<content, replica, task, lost>>
  BY DEF AddInvite
<1>3. TypeOK'
  <2>1. invites' \in 0..MaxInvites
    BY ThreadConstants DEF AddInvite, IInv, TypeOK
  <2> HIDE DEF e
  <2> QED BY <1>1, <1>2, <2>1 DEF AddInvite, replica, IInv, TypeOK
<1> HIDE DEF e
<1>4. NetOK'
  BY <1>1, <1>2 DEF IInv, NetOK, Written
<1>5. ContentOK' /\ ReplicaOK' /\ HeadAccounted' /\ ParentsAccounted'
  BY <1>2 DEF replica, IInv, ContentOK, ReplicaOK, HeadAccounted, ParentsAccounted, Written,
              Parents, Pending
<1>6. TasksOK'
  BY <1>2 DEF replica, IInv, TasksOK, TaskOK, Written, Known, Parents
<1> QED BY <1>3, <1>4, <1>5, <1>6 DEF IInv

LEMMA CrashInv ==
  ASSUME IInv, NEW p \in Peer, Crash(p)
  PROVE  IInv'
<1> DEFINE owed == UNION {task[p][s].todo : s \in Slot}
<1> DEFINE held == UNION {{task[p][s].top, task[p][s].cur} : s \in Slot}
<1>1. /\ lost' = [lost EXCEPT ![p] = @ \cup owed]
      /\ stray' = [stray EXCEPT ![p] = @ \cup (held \ {None})]
      /\ task' = [task EXCEPT ![p] = [s \in Slot |-> Idle]]
      /\ UNCHANGED <<content, net, loaded, replica, failures, invites>>
  BY DEF Crash
<1>2. ASSUME NEW r \in Slot PROVE task[p][r] \in Task /\ task[p][r].todo \subseteq Written
  <2>1. task[p][r] \in Task /\ TaskOK(p, task[p][r])
    BY TaskType
  <2> QED BY <2>1 DEF TaskOK
<1>3. owed \subseteq Written /\ Written \subseteq Block
  BY <1>2 DEF Written
<1>4. held \ {None} \subseteq Block
  <2>1. \A r \in Slot : {task[p][r].top, task[p][r].cur} \subseteq Block \cup {None}
    BY <1>2 DEF Task
  <2> QED BY <2>1
<1> HIDE DEF owed, held
<1>5. TypeOK'
  <2>1. crashes' \in 0..MaxCrashes
    BY ThreadConstants DEF Crash, IInv, TypeOK
  <2>2. lost' \in [Peer -> SUBSET Block] /\ stray' \in [Peer -> SUBSET Block]
    BY <1>1, <1>3, <1>4 DEF IInv, TypeOK
  <2>3. task' \in [Peer -> [Slot -> Task]]
    BY <1>1, IdleType DEF IInv, TypeOK
  <2>4. mux' \in [Peer -> Slot \cup {None}]
    BY DEF Crash, IInv, TypeOK
  <2> QED BY <1>1, <2>1, <2>2, <2>3, <2>4 DEF replica, IInv, TypeOK
<1>6. /\ index' = index /\ head' = head /\ content' = content /\ Written' = Written
      /\ lost'[p] = lost[p] \cup owed
      /\ \A q \in Peer \ {p} : lost'[q] = lost[q] /\ task'[q] = task[q]
      /\ \A r \in Slot : task'[p][r] = Idle
  BY <1>1 DEF replica, IInv, TypeOK, Written
<1>7. ContentOK' /\ NetOK'
  BY <1>1, NetKept DEF IInv, ContentOK, Written, Parents
<1>8. ReplicaOK' /\ HeadAccounted'
  BY <1>3, <1>6 DEF IInv, ReplicaOK, HeadAccounted
<1>9. TasksOK'
  <2> SUFFICES ASSUME NEW q \in Peer, NEW r \in Slot
               PROVE  TaskOK(q, task[q][r])'
    BY DEF TasksOK
  <2>1. CASE q = p
    BY <1>6, <2>1 DEF TaskOK, Walking, Idle
  <2>2. CASE q # p
    BY <1>6, <2>2, TaskType DEF TaskOK, Known, Parents
  <2> QED BY <2>1, <2>2
<1>10. ParentsAccounted'
  <2> SUFFICES ASSUME NEW q \in Peer, NEW b \in index[q]
               PROVE  Parents(b) \subseteq index[q] \cup Pending(q)' \cup lost'[q]
    BY <1>6 DEF ParentsAccounted, Parents
  <2>1. Parents(b) \subseteq index[q] \cup Pending(q) \cup lost[q]
    BY DEF IInv, ParentsAccounted
  <2>2. CASE q = p
    BY <1>6, <2>1, <2>2 DEF Pending, owed
  <2>3. CASE q # p
    BY <1>6, <2>1, <2>3 DEF Pending
  <2> QED BY <2>2, <2>3
<1> QED BY <1>5, <1>7, <1>8, <1>9, <1>10 DEF IInv

LEMMA InitInv == Init => IInv
<1> SUFFICES ASSUME Init PROVE IInv
  OBVIOUS
<1> DEFINE g == [kind |-> "join", author |-> Creator, address |-> AddressOf[Creator], parents |-> {}]
<1>1. g \in Content /\ Unwritten \in Content
  BY ThreadConstants DEF Content, Kind, UpdateKind, Unwritten
<1>2. \A b \in Block : content[b] = IF b = Genesis THEN g ELSE Unwritten
  BY DEF Init
<1>3. content \in [Block -> Content]
  BY <1>1, <1>2 DEF Init
<1>4. task \in [Peer -> [Slot -> Task]] /\ \A p \in Peer, s \in Slot : task[p][s] = Idle
  BY IdleType DEF Init
<1>5. TypeOK
  <2>1. crashes \in 0..MaxCrashes /\ failures \in 0..MaxFailures /\ invites \in 0..MaxInvites
    BY ThreadConstants DEF Init
  <2>2. head \in [Peer -> Block \cup {None}] /\ index \in [Peer -> SUBSET Block]
    BY ThreadConstants DEF Init
  <2> QED BY <1>3, <1>4, <2>1, <2>2 DEF Init, TypeOK
<1>6. Genesis \in Written /\ \A b \in Block : Parents(b) = {}
  BY <1>2, ThreadConstants DEF Written, Parents, Unwritten
<1>7. ContentOK
  BY <1>2, <1>6, ThreadConstants DEF ContentOK, Unwritten
<1>8. NetOK /\ ReplicaOK /\ HeadAccounted
  BY <1>6 DEF Init, NetOK, ReplicaOK, HeadAccounted
<1>9. TasksOK
  BY <1>4, IdleOK DEF TasksOK
<1>10. ParentsAccounted
  BY <1>5, <1>6 DEF ParentsAccounted, TypeOK
<1> QED BY <1>5, <1>7, <1>8, <1>9, <1>10 DEF IInv

LEMMA NextInv == IInv /\ [Next]_vars => IInv'
<1> SUFFICES ASSUME IInv, [Next]_vars PROVE IInv'
  OBVIOUS
<1>1. CASE UNCHANGED vars
  <2> USE <1>1 DEF vars
  <2>1. TypeOK' /\ ContentOK' /\ NetOK' /\ ReplicaOK'
    BY DEF IInv, TypeOK, ContentOK, NetOK, ReplicaOK, Written, Parents
  <2>2. TasksOK'
    BY DEF IInv, TasksOK, TaskOK, Written, Known, Parents
  <2>3. HeadAccounted' /\ ParentsAccounted'
    BY DEF IInv, HeadAccounted, ParentsAccounted, Parents, Pending
  <2> QED BY <2>1, <2>2, <2>3 DEF IInv
<1>2. ASSUME NEW p \in Peer, NEW s \in Slot, Inbound(p, s) PROVE IInv'
  BY <1>2, ReceiveInv, UnpeerInv, IndexInboundInv, IndexConflictInv, AddPeerInv,
     FollowParentInv, ParentExistsInv, FollowDoneInv, ReloadFailsInv, ReadHeadInv,
     FastForwardInv, MergeInv, MergeFailsInv, WelcomeInv, GreetInv DEF Inbound
<1>3. ASSUME NEW p \in Peer, NEW s \in Slot, Local(p, s) PROVE IInv'
  BY <1>3, AcceptHeadInv, AcceptMarkInv, JoinInv, CommitIndexInv, CommitConflictInv,
     CommitHeadInv, PostBlockInv, CleanupInv, CleanupPeersInv, RemoveThreadInv DEF Local
<1>4. ASSUME NEW p \in Peer, NEW s \in Slot, User(p, s) PROVE IInv'
  BY <1>4, AddUpdateInv, AcceptInv DEF User
<1>5. ASSUME NEW p \in Peer, NEW s \in Slot, Faulty(p, s) PROVE IInv'
  BY <1>5, FetchFailsInv, GreetFailsInv, HandlerFailsInv, CommitFailsInv, LeaveFailsInv DEF Faulty
<1>6. CASE Next
  BY <1>2, <1>3, <1>4, <1>5, <1>6, AddInviteInv, CrashInv DEF Next
<1> QED BY <1>1, <1>6
-----------------------------------------------------------------------------
(* Tips and authors: what goroutines have in hand for what they indexed *)

\* some block the replica shows, or once dropped, has b as a parent
Below(p, b) == \E c \in Known(p) : b \in Parents(c)

\* b is no tip, is HEAD, or its place at HEAD was lost
Covered(p, b) == b = head[p] \/ b \in stray[p] \/ Below(p, b)

\* The tips a goroutine will still put at HEAD or below a merge: its inbound
\* block from when it has indexed it, and the block it has committed.  A block
\* another goroutine indexed first is that goroutine's to carry.
Carries(t) ==
  (IF t.pc \in {"unpeer", "index"} /\ t.cur \notin t.todo THEN {} ELSE {t.top})
  \cup (IF t.pc = "commithead" THEN {t.cur} ELSE {})

TipsCarried ==
  \A p \in Peer : \A b \in index[p] :
    Covered(p, b) \/ \E s \in Slot : b \in Carries(task[p][s])

\* labels of goroutines that hold no inbound block
Settled == {"idle", "welcome", "greet", "acceptmark", "commit", "post", "cleanup",
            "cleanuppeers", "remove"}

\* A HEAD a goroutine is going to replace is a parent of the block it will put
\* there, and what it has to follow is the invite's HEAD or has a child.
HandsOK(p, t) ==
  /\ t.pc \in Settled => t.top = None
  /\ \A b \in t.todo : b = t.top \/ Below(p, b)
  /\ t.pc = "ff" => t.base \in {None} \cup Parents(t.top)
  /\ t.pc \in {"commitindex", "commithead"} => {t.top, t.base} \subseteq {None} \cup Parents(t.cur)
  /\ t.pc \in {"commitindex", "commithead"} => t.kind = "merge" \/ t.top = None
  /\ t.pc = "unpeer" => content[t.cur].kind = "leave"
  /\ t.pc = "commitindex" => content[t.cur].kind = "merge" \/ content[t.cur].author = p

Listed(p, b) ==
  content[b].kind \in {"join", "announce"} /\ content[b].author # p =>
    \/ content[b].author \in members[p]
    \/ Left(p, content[b].author) \/ Runs(p, "peer", b) \/ b \in stray[p]

HandInv ==
  /\ \A p \in Peer, s \in Slot : HandsOK(p, task[p][s])
  /\ TipsCarried
  /\ \A p \in Peer : \A b \in index[p] : Listed(p, b)

\* What has to be checked of a step by goroutine s of peer p: its own hands, and
\* that what was at HEAD or in them, or is newly indexed, is covered or carried.
LEMMA HandStep ==
  ASSUME IInv, IInv', HandInv, NEW p \in Peer, NEW s \in Slot,
         \A b \in Written : content'[b] = content[b],
         \A q \in Peer \ {p} : /\ index'[q] = index[q] /\ lost'[q] = lost[q]
                               /\ head'[q] = head[q] /\ task'[q] = task[q]
                               /\ members'[q] = members[q] /\ stray'[q] = stray[q],
         \A r \in Slot \ {s} : task'[p][r] = task[p][r],
         Known(p) \subseteq Known(p)', stray[p] \subseteq stray'[p],
         HandsOK(p, task[p][s])',
         \A b \in index[p] : b = head[p] \/ b \in Carries(task[p][s])
                               => Covered(p, b)' \/ b \in Carries(task'[p][s]),
         \A b \in index'[p] \ index[p] : Covered(p, b)' \/ b \in Carries(task'[p][s]),
         \A b \in index'[p] : Listed(p, b)'
  PROVE  HandInv'
<1>1. \A q \in Peer : Known(q) \subseteq Known(q)' /\ stray[q] \subseteq stray'[q]
  BY DEF Known
<1>2. \A q \in Peer : Known(q) \subseteq Written
  BY DEF IInv, ReplicaOK, Known
<1>3. \A q \in Peer : \A b : Below(q, b) => Below(q, b)'
  BY <1>1, <1>2 DEF Below, Parents
<1>4. ASSUME NEW q \in Peer, NEW r \in Slot, q # p \/ r # s
      PROVE  HandsOK(q, task[q][r])'
  <2>1. task'[q][r] = task[q][r] /\ HandsOK(q, task[q][r]) /\ TaskOK(q, task[q][r])
    BY <1>4 DEF HandInv, IInv, TasksOK
  <2> DEFINE t == task[q][r]
  <2>2. t.pc = "ff" => t.top \in Written
    BY <2>1, <1>2 DEF TaskOK
  <2>3. t.pc \in {"unpeer", "commitindex", "commithead"} => t.cur \in Written
    BY <2>1, ThreadConstants DEF TaskOK, Written
  <2>4. HandsOK(q, t)'
    <3> HIDE DEF t
    <3>1. t' = t /\ HandsOK(q, t)
      BY <2>1 DEF t
    <3> QED BY <3>1, <2>2, <2>3, <1>3 DEF HandsOK, Parents
  <2> QED BY <2>4
<1>5. TipsCarried'
  <2> SUFFICES ASSUME NEW q \in Peer, NEW b \in index'[q]
               PROVE  Covered(q, b)' \/ \E r \in Slot : b \in Carries(task'[q][r])
    BY DEF TipsCarried, Carries
  <2>1. CASE b \notin index[q]
    BY <2>1
  <2>2. CASE b \in index[q]
    <3>1. Covered(q, b) \/ \E r \in Slot : b \in Carries(task[q][r])
      BY <2>2 DEF HandInv, TipsCarried
    <3>2. CASE q = p
      BY <2>2, <3>1, <3>2, <1>1, <1>3 DEF Covered
    <3>3. CASE q # p
      BY <3>1, <3>3, <1>1, <1>3 DEF Covered
    <3> QED BY <3>2, <3>3
  <2> QED BY <2>1, <2>2
<1>6. ASSUME NEW q \in Peer \ {p}, NEW b \in index'[q] PROVE Listed(q, b)'
  <2>1. b \in index[q] /\ b \in Written /\ Listed(q, b)
    BY <1>2 DEF HandInv, Known
  <2>2. \A a : Left(q, a) => Left(q, a)'
    BY <1>1 DEF Left, Runs, Written
  <2>3. Runs(q, "peer", b) => Runs(q, "peer", b)'
    BY DEF Runs
  <2> QED BY <2>1, <2>2, <2>3 DEF Listed
<1> QED BY <1>4, <1>5, <1>6 DEF HandInv

\* A step that shows no block and lists or forgets no peer.
LEMMA QuietStep ==
  ASSUME IInv, IInv', HandInv, NEW p \in Peer, NEW s \in Slot, NEW u \in Task,
         Set(p, s, u), UNCHANGED <<content, index, members>>,
         \A q \in Peer \ {p} : /\ lost'[q] = lost[q] /\ head'[q] = head[q]
                               /\ stray'[q] = stray[q],
         lost[p] \subseteq lost'[p], stray[p] \subseteq stray'[p],
         task[p][s].pc # "peer",
         task[p][s].pc = "index" => task[p][s].cur \in index[p],
         HandsOK(p, task[p][s])',
         \A b \in index[p] : b = head[p] \/ b \in Carries(task[p][s])
                               => Covered(p, b)' \/ b \in Carries(u)
  PROVE  HandInv'
<1>1. /\ task'[p][s] = u
      /\ \A r \in Slot \ {s} : task'[p][r] = task[p][r]
      /\ \A q \in Peer \ {p} : task'[q] = task[q]
  BY SetFrame
<1>3. Known(p) \subseteq Known(p)'
  BY DEF Known
<1>4. ASSUME NEW b \in index'[p] PROVE Listed(p, b)'
  <2>1. Listed(p, b)
    BY DEF HandInv
  <2>2. \A a : Left(p, a) => Left(p, a)'
    BY <1>1 DEF Left, Runs
  <2>3. Runs(p, "peer", b) => Runs(p, "peer", b)'
    BY <1>1 DEF Runs
  <2> QED BY <2>1, <2>2, <2>3 DEF Listed
<1> QED BY <1>1, <1>3, <1>4, HandStep

\* ... and leaves HEAD alone
LEMMA PlainStep ==
  ASSUME IInv, IInv', HandInv, NEW p \in Peer, NEW s \in Slot, NEW u \in Task,
         Set(p, s, u), UNCHANGED <<content, index, members, head, lost, stray>>,
         task[p][s].pc # "peer",
         task[p][s].pc = "index" => task[p][s].cur \in index[p],
         HandsOK(p, u),
         \A b \in Carries(task[p][s]) : b = None \/ b \in Carries(u) \/ Below(p, b)
  PROVE  HandInv'
<1>1. HandsOK(p, task[p][s])' /\ \A b : Covered(p, b)' <=> Covered(p, b)
  BY SetFrame DEF HandsOK, Below, Known, Parents, Covered
<1>2. None \notin index[p]
  BY ThreadConstants DEF IInv, TypeOK
<1> QED BY <1>1, <1>2, QuietStep DEF Covered

LEMMA HandType ==
  ASSUME IInv, HandInv, NEW p \in Peer, NEW s \in Slot
  PROVE  task[p][s] \in Task /\ TaskOK(p, task[p][s]) /\ HandsOK(p, task[p][s])
BY TaskType DEF HandInv

\* A goroutine that ends or goes on with no block in its hands.
LEMMA RestStep ==
  ASSUME IInv, IInv', HandInv, NEW p \in Peer, NEW s \in Slot, NEW u \in Task,
         Set(p, s, u), UNCHANGED <<content, index, members, head, lost, stray>>,
         task[p][s].pc \in Settled,
         u.pc \in Settled \ {"idle"} \/ u = Idle, u.top = None, u.todo = {}
  PROVE  HandInv'
<1>1. HandsOK(p, task[p][s])
  BY HandType
<1>2. u.pc \in Settled
  BY DEF Settled, Idle
<1>3. HandsOK(p, u)
  BY <1>2 DEF HandsOK, Settled
<1>4. Carries(task[p][s]) = {None}
  BY <1>1 DEF HandsOK, Carries, Settled
<1> QED BY <1>3, <1>4, PlainStep DEF Settled

LEMMA ReceiveHand ==
  ASSUME IInv, IInv', HandInv, NEW p \in Peer, NEW s \in Slot, NEW m, Receive(p, s, m)
  PROVE  HandInv'
<1> DEFINE u == [Idle EXCEPT !.pc = Entry(m.block), !.top = m.block, !.cur = m.block]
<1>1. u \in Task
  <2>1. m.block \in Block /\ Entry(m.block) \in {"unpeer", "index"}
    BY DEF Receive, Entry, IInv, NetOK
  <2> QED BY <2>1, IdleType DEF Task, Label
<1>2. Set(p, s, u) /\ UNCHANGED <<content, index, members, head, lost, stray>>
  BY DEF Receive, replica
<1>3. task[p][s] = Idle
  BY DEF Receive
<1>4. /\ u.pc = Entry(m.block) /\ u.cur = m.block /\ u.todo = {}
      /\ Entry(m.block) \in {"unpeer", "index"}
  BY DEF Idle, Entry
<1> HIDE DEF u
<1>5. HandsOK(p, u)
  BY <1>4 DEF HandsOK, Settled, Entry
<1>6. Carries(Idle) = {None} /\ Idle.pc = "idle"
  BY DEF Carries, Idle
<1> QED BY <1>1, <1>2, <1>3, <1>5, <1>6, PlainStep

LEMMA FollowParentHand ==
  ASSUME IInv, IInv', HandInv, NEW p \in Peer, NEW s \in Slot, NEW b \in Block,
         FollowParent(p, s, b)
  PROVE  HandInv'
<1> DEFINE t == task[p][s]
<1> DEFINE u == [t EXCEPT !.pc = Entry(b), !.cur = b]
<1>1. t \in Task /\ HandsOK(p, t) /\ t.pc = "follow" /\ b \in t.todo
  BY HandType DEF FollowParent
<1>2. /\ u \in Task /\ u.pc = Entry(b) /\ u.cur = b /\ u.todo = t.todo /\ u.top = t.top
      /\ Entry(b) \in {"unpeer", "index"}
  BY <1>1 DEF Task, Label, Entry
<1>3. Set(p, s, u) /\ UNCHANGED <<content, index, members, head, lost, stray>>
  BY DEF FollowParent, replica
<1> HIDE DEF t, u
<1>4. HandsOK(p, u)
  BY <1>1, <1>2 DEF HandsOK, Settled, Entry
<1>5. Carries(t) = {t.top} /\ Carries(u) = {t.top}
  BY <1>1, <1>2 DEF Carries
<1> QED BY <1>1, <1>2, <1>3, <1>4, <1>5, PlainStep DEF t

LEMMA ParentExistsHand ==
  ASSUME IInv, IInv', HandInv, NEW p \in Peer, NEW s \in Slot, NEW b \in Block,
         ParentExists(p, s, b)
  PROVE  HandInv'
<1> DEFINE t == task[p][s]
<1> DEFINE u == [t EXCEPT !.todo = @ \ {b}]
<1>1. t \in Task /\ HandsOK(p, t) /\ t.pc = "follow"
  BY HandType DEF ParentExists
<1>2. u \in Task /\ u.pc = "follow" /\ u.todo = t.todo \ {b} /\ u.top = t.top
  BY <1>1 DEF Task
<1>3. Set(p, s, u) /\ UNCHANGED <<content, index, members, head, lost, stray>>
  BY DEF ParentExists, replica
<1> HIDE DEF t, u
<1>4. HandsOK(p, u)
  BY <1>1, <1>2 DEF HandsOK, Settled
<1>5. Carries(t) = {t.top} /\ Carries(u) = {t.top}
  BY <1>1, <1>2 DEF Carries
<1> QED BY <1>1, <1>2, <1>3, <1>4, <1>5, PlainStep DEF t

LEMMA FollowDoneHand ==
  ASSUME IInv, IInv', HandInv, NEW p \in Peer, NEW s \in Slot, FollowDone(p, s)
  PROVE  HandInv'
<1> DEFINE t == task[p][s]
<1> DEFINE u == [t EXCEPT !.pc = IF t.kind = "invite" THEN "accepthead" ELSE "head"]
<1>1. t \in Task /\ t.pc = "follow" /\ t.todo = {}
  BY TaskType DEF FollowDone
<1>2. u \in Task /\ u.pc \in {"accepthead", "head"} /\ u.todo = {} /\ u.top = t.top
  BY <1>1 DEF Task, Label
<1>3. Set(p, s, u) /\ UNCHANGED <<content, index, members, head, lost, stray>>
  BY DEF FollowDone, replica
<1> HIDE DEF t, u
<1>4. HandsOK(p, u)
  BY <1>2 DEF HandsOK, Settled
<1>5. Carries(t) = {t.top} /\ Carries(u) = {t.top}
  BY <1>1, <1>2 DEF Carries
<1> QED BY <1>1, <1>2, <1>3, <1>4, <1>5, PlainStep DEF t

LEMMA ReadHeadHand ==
  ASSUME IInv, IInv', HandInv, NEW p \in Peer, NEW s \in Slot, ReadHead(p, s)
  PROVE  HandInv'
<1> DEFINE t == task[p][s]
<1> DEFINE u == [t EXCEPT !.pc = IF FastForwardable(p, t.top) THEN "ff" ELSE "merge",
                          !.base = head[p]]
<1>1. t \in Task /\ t.pc = "head" /\ t.todo = {}
  BY TaskType DEF ReadHead, TaskOK, Walking
<1>2. /\ u \in Task /\ u.pc \in {"ff", "merge"} /\ u.todo = {} /\ u.top = t.top
      /\ u.base = head[p] /\ (u.pc = "ff" => FastForwardable(p, t.top))
  <2>1. head[p] \in Block \cup {None}
    BY DEF IInv, TypeOK
  <2> QED BY <1>1, <2>1 DEF Task, Label
<1>3. Set(p, s, u) /\ UNCHANGED <<content, index, members, head, lost, stray>>
  BY DEF ReadHead, replica
<1> HIDE DEF t, u
<1>4. HandsOK(p, u)
  BY <1>2 DEF HandsOK, Settled, FastForwardable
<1>5. Carries(t) = {t.top} /\ Carries(u) = {t.top}
  BY <1>1, <1>2 DEF Carries
<1> QED BY <1>1, <1>2, <1>3, <1>4, <1>5, PlainStep DEF t

LEMMA WelcomeHand ==
  ASSUME IInv, IInv', HandInv, NEW p \in Peer, NEW s \in Slot, Welcome(p, s)
  PROVE  HandInv'
<1> DEFINE u == IF unwelcomed[p] = {} \/ head[p] = None THEN Idle
                ELSE [Idle EXCEPT !.pc = "greet", !.list = unwelcomed[p], !.base = head[p]]
<1>1. u \in Task /\ u.top = None /\ u.todo = {} /\ u.pc \in Settled /\ (u.pc = "idle" => u = Idle)
  <2>1. head[p] \in Block \cup {None} /\ unwelcomed[p] \in SUBSET Peer
    BY DEF IInv, TypeOK
  <2> QED BY <2>1, IdleType DEF Task, Label, Idle, Settled
<1>2. Set(p, s, u) /\ UNCHANGED <<content, index, members, head, lost, stray>>
  BY DEF Welcome, replica
<1> HIDE DEF u
<1> QED BY <1>1, <1>2, RestStep DEF Welcome, Settled

LEMMA GreetHand ==
  ASSUME IInv, IInv', HandInv, NEW p \in Peer, NEW s \in Slot,
         Greet(p, s) \/ GreetFails(p, s)
  PROVE  HandInv'
BY RestStep, IdleType DEF Greet, GreetFails, replica, Settled, Idle

LEMMA AcceptHand ==
  ASSUME IInv, IInv', HandInv, NEW p \in Peer, NEW s \in Slot, NEW m, Accept(p, s, m)
  PROVE  HandInv'
<1> DEFINE u == [Idle EXCEPT !.pc = "follow", !.kind = "invite", !.top = m.block,
                             !.todo = {m.block} \ {None}]
<1>1. m.block \in Block \cup {None}
  BY DEF Accept, IInv, TypeOK, Envelope
<1>2. u \in Task /\ u.pc = "follow" /\ u.top = m.block /\ u.todo \subseteq {m.block}
  BY <1>1, IdleType DEF Task, Label, Kind, Idle
<1>3. Set(p, s, u) /\ UNCHANGED <<content, index, members, head, lost, stray>>
  BY DEF Accept, replica
<1>4. task[p][s] = Idle
  BY DEF Accept
<1> HIDE DEF u
<1>5. HandsOK(p, u)
  BY <1>2 DEF HandsOK, Settled
<1>6. Carries(Idle) = {None} /\ Idle.pc = "idle"
  BY DEF Carries, Idle
<1> QED BY <1>2, <1>3, <1>4, <1>5, <1>6, PlainStep

LEMMA AcceptMarkHand ==
  ASSUME IInv, IInv', HandInv, NEW p \in Peer, NEW s \in Slot, AcceptMark(p, s)
  PROVE  HandInv'
<1> DEFINE t == task[p][s]
<1> DEFINE u == [t EXCEPT !.pc = "commit"]
<1>1. t \in Task /\ TaskOK(p, t) /\ HandsOK(p, t) /\ t.pc = "acceptmark"
  BY HandType DEF AcceptMark
<1>2. u \in Task /\ u.pc = "commit" /\ u.top = t.top /\ u.todo = t.todo
  BY <1>1 DEF Task, Label
<1>3. Set(p, s, u) /\ UNCHANGED <<content, index, members, head, lost, stray>>
  BY DEF AcceptMark, replica
<1> HIDE DEF t, u
<1>4. t.top = None /\ t.todo = {}
  BY <1>1 DEF HandsOK, TaskOK, Settled, Walking
<1> QED BY <1>1, <1>2, <1>3, <1>4, RestStep DEF t, Settled

LEMMA PostBlockHand ==
  ASSUME IInv, IInv', HandInv, NEW p \in Peer, NEW s \in Slot, PostBlock(p, s)
  PROVE  HandInv'
<1> DEFINE t == task[p][s]
<1> DEFINE u == IF t.kind = "leave" THEN [t EXCEPT !.pc = "cleanup"] ELSE Idle
<1>1. t \in Task /\ TaskOK(p, t) /\ HandsOK(p, t) /\ t.pc = "post"
  BY HandType DEF PostBlock
<1>2. t.top = None /\ t.todo = {}
  BY <1>1 DEF HandsOK, TaskOK, Settled, Walking
<1>3. u \in Task /\ u.top = None /\ u.todo = {} /\ (u.pc = "cleanup" \/ u = Idle)
  BY <1>1, <1>2, IdleType DEF Task, Label, Idle
<1>4. Set(p, s, u) /\ UNCHANGED <<content, index, members, head, lost, stray>>
  BY DEF PostBlock, replica
<1> HIDE DEF t, u
<1> QED BY <1>1, <1>3, <1>4, RestStep DEF t, Settled

LEMMA LeaveFailsHand ==
  ASSUME IInv, IInv', HandInv, NEW p \in Peer, NEW s \in Slot, LeaveFails(p, s)
  PROVE  HandInv'
<1>1. Set(p, s, Idle) /\ UNCHANGED <<content, index, members, head, lost, stray>>
  BY DEF LeaveFails, replica
<1>2. task[p][s].pc \in Settled
  BY DEF LeaveFails, Settled
<1>3. Idle.top = None /\ Idle.todo = {}
  BY DEF Idle
<1> QED BY <1>1, <1>2, <1>3, IdleType, RestStep

LEMMA CommitConflictHand ==
  ASSUME IInv, IInv', HandInv, NEW p \in Peer, NEW s \in Slot, CommitConflict(p, s)
  PROVE  HandInv'
<1> DEFINE t == task[p][s]
<1>1. t \in Task /\ HandsOK(p, t) /\ t.pc = "commitindex" /\ t.cur \in index[p]
  BY HandType DEF CommitConflict
<1>2. Set(p, s, Idle) /\ UNCHANGED <<content, index, members, head, lost, stray>>
  BY DEF CommitConflict, replica
<1> HIDE DEF t
<1>3. Carries(t) = {t.top} /\ t.top \in {None} \cup Parents(t.cur)
  BY <1>1 DEF Carries, HandsOK
<1>4. \A b \in Carries(t) : b = None \/ Below(p, b)
  BY <1>1, <1>3 DEF Below, Known
<1>5. HandsOK(p, Idle)
  BY DEF HandsOK, Idle, Settled
<1> QED BY <1>1, <1>2, <1>4, <1>5, IdleType, PlainStep DEF t

LEMMA IndexConflictHand ==
  ASSUME IInv, IInv', HandInv, NEW p \in Peer, NEW s \in Slot, IndexConflict(p, s)
  PROVE  HandInv'
<1> DEFINE t == task[p][s]
<1> DEFINE u == IF t.cur \notin t.todo THEN Idle
                ELSE [t EXCEPT !.pc = "follow", !.cur = None, !.todo = @ \ {t.cur}]
<1>1. t \in Task /\ HandsOK(p, t) /\ t.pc = "index" /\ t.cur \in index[p]
  BY HandType DEF IndexConflict
<1>2. Set(p, s, u) /\ UNCHANGED <<content, index, members, head, lost, stray>>
  BY DEF IndexConflict, replica
<1>3. CASE t.cur \notin t.todo
  <2>1. u = Idle /\ Carries(t) = {} /\ HandsOK(p, Idle)
    BY <1>1, <1>3 DEF Carries, HandsOK, Idle, Settled
  <2> HIDE DEF t, u
  <2> QED BY <1>1, <1>2, <2>1, IdleType, PlainStep DEF t
<1>4. CASE t.cur \in t.todo
  <2>1. u \in Task /\ u.pc = "follow" /\ u.top = t.top /\ u.todo = t.todo \ {t.cur}
    BY <1>1, <1>4 DEF Task, Label
  <2> HIDE DEF t, u
  <2>2. HandsOK(p, u) /\ Carries(u) = {t.top} /\ Carries(t) = {t.top}
    BY <1>1, <1>4, <2>1 DEF Carries, HandsOK, Settled
  <2> QED BY <1>1, <1>2, <2>1, <2>2, PlainStep DEF t
<1> QED BY <1>3, <1>4

\* A failed fetch, or an error of handleHead, is written off.
LEMMA FetchFailsHand ==
  ASSUME IInv, IInv', HandInv, NEW p \in Peer, NEW s \in Slot, NEW b \in Block,
         FetchFails(p, s, b)
  PROVE  HandInv'
<1> DEFINE t == task[p][s]
<1> DEFINE u == [t EXCEPT !.todo = @ \ {b}]
<1>1. t \in Task /\ HandsOK(p, t) /\ t.pc = "follow"
  BY HandType DEF FetchFails
<1>2. u \in Task /\ u.pc = "follow" /\ u.todo = t.todo \ {b} /\ u.top = t.top
  BY <1>1 DEF Task
<1>3. /\ Set(p, s, u) /\ UNCHANGED <<content, index, members, head, stray>>
      /\ lost' = [lost EXCEPT ![p] = @ \cup {b}]
  BY DEF FetchFails, replica
<1>4. /\ lost[p] \subseteq lost'[p] /\ \A q \in Peer \ {p} : lost'[q] = lost[q]
      /\ task'[p][s] = u
  BY <1>2, <1>3, SetFrame DEF IInv, TypeOK
<1> HIDE DEF t, u
<1>5. \A c : Below(p, c) => Below(p, c)'
  BY <1>3, <1>4 DEF Below, Known, Parents
<1>6. HandsOK(p, task[p][s])'
  BY <1>1, <1>2, <1>4, <1>5 DEF HandsOK, Settled
<1>7. Carries(t) = {t.top} /\ Carries(u) = {t.top}
  BY <1>1, <1>2 DEF Carries
<1> QED BY <1>1, <1>2, <1>3, <1>4, <1>5, <1>6, <1>7, QuietStep DEF t, Covered

\* A block whose handler failed is stray, or a parent with a child.
LEMMA HandlerFailsHand ==
  ASSUME IInv, IInv', HandInv, NEW p \in Peer, NEW s \in Slot, HandlerFails(p, s)
  PROVE  HandInv'
<1> DEFINE t == task[p][s]
<1> DEFINE u == IF t.cur \notin t.todo THEN Idle
                ELSE [t EXCEPT !.pc = "follow", !.cur = None, !.todo = @ \ {t.cur}]
<1>1. /\ t \in Task /\ TaskOK(p, t) /\ HandsOK(p, t)
      /\ t.pc = "index" /\ content[t.cur].kind = "message"
  BY HandType DEF HandlerFails
<1>2. t.cur \in Block /\ t.cur \notin index[p]
      /\ (t.cur \notin t.todo => t.cur = t.top /\ t.todo = {})
  BY <1>1 DEF TaskOK, HandlerFails
<1>3. u \in Task
  BY <1>1, IdleType DEF Task, Label
<1>4. /\ t.cur \notin t.todo => u = Idle
      /\ t.cur \in t.todo => u.pc = "follow" /\ u.top = t.top /\ u.todo = t.todo \ {t.cur}
  BY <1>1 DEF Task
<1>5. /\ Set(p, s, u) /\ UNCHANGED <<content, head, members>>
      /\ index' = [index EXCEPT ![p] = @ \cup {t.cur}]
      /\ lost' = [lost EXCEPT ![p] = @ \cup Parents(t.cur)]
      /\ stray' = [stray EXCEPT ![p] = IF t.cur \notin t.todo THEN @ \cup {t.cur} ELSE @]
  BY DEF HandlerFails
<1>6. /\ index'[p] = index[p] \cup {t.cur} /\ lost[p] \subseteq lost'[p]
      /\ stray[p] \subseteq stray'[p] /\ (t.cur \notin t.todo => t.cur \in stray'[p])
      /\ \A q \in Peer \ {p} : index'[q] = index[q] /\ lost'[q] = lost[q] /\ stray'[q] = stray[q]
  BY <1>5 DEF IInv, TypeOK
<1>7. /\ task'[p][s] = u
      /\ \A r \in Slot \ {s} : task'[p][r] = task[p][r]
      /\ \A q \in Peer \ {p} : task'[q] = task[q]
  BY <1>3, <1>5, SetFrame
<1> HIDE DEF t, u
<1>8. /\ Known(p) \subseteq Known(p)'
      /\ \A b : Below(p, b) => Below(p, b)'
  BY <1>5, <1>6 DEF Known, Below, Parents
<1>9. HandsOK(p, task[p][s])'
  <2>1. CASE t.cur \notin t.todo
    BY <1>4, <1>7, <2>1 DEF HandsOK, Settled, Idle
  <2>2. CASE t.cur \in t.todo
    <3>1. \A b \in u.todo : b = u.top \/ Below(p, b)'
      BY <1>1, <1>4, <1>8, <2>2 DEF HandsOK
    <3> QED BY <1>4, <1>7, <2>2, <3>1 DEF HandsOK, Settled
  <2> QED BY <2>1, <2>2
<1>10. ASSUME NEW b \in index'[p] PROVE Listed(p, b)'
  <2>1. CASE b = t.cur
    BY <1>1, <1>5, <2>1 DEF Listed
  <2>2. CASE b \in index[p]
    <3>1. Listed(p, b)
      BY <2>2 DEF HandInv
    <3>2. \A d : Left(p, d) => Left(p, d)'
      BY <1>1, <1>5, <1>6, <1>7 DEF Left, Runs, t
    <3>3. Runs(p, "peer", b) => Runs(p, "peer", b)'
      BY <1>1, <1>7 DEF Runs, t
    <3> QED BY <1>5, <1>6, <3>1, <3>2, <3>3 DEF Listed
  <2> QED BY <1>6, <2>1, <2>2
<1>11. /\ t.cur \notin t.todo => Carries(t) = {}
       /\ t.cur \in t.todo => Carries(u) = {t.top} /\ Carries(t) = {t.top}
  BY <1>1, <1>4 DEF Carries
<1>12. \A b \in index[p] : b = head[p] \/ b \in Carries(t)
                             => Covered(p, b)' \/ b \in Carries(task'[p][s])
  BY <1>5, <1>7, <1>11 DEF Covered
<1>13. \A b \in index'[p] \ index[p] : Covered(p, b)' \/ b \in Carries(task'[p][s])
  BY <1>1, <1>2, <1>6, <1>7, <1>8, <1>11 DEF Covered, HandsOK
<1> QED BY <1>5, <1>6, <1>7, <1>8, <1>9, <1>10, <1>12, <1>13, HandStep DEF t

\* The committed block is stray from here on.
LEMMA CommitFailsHand ==
  ASSUME IInv, IInv', HandInv, NEW p \in Peer, NEW s \in Slot, CommitFails(p, s)
  PROVE  HandInv'
<1> DEFINE t == task[p][s]
<1>1. t \in Task /\ HandsOK(p, t) /\ t.pc = "commithead" /\ t.kind = "message"
  BY HandType DEF CommitFails
<1>2. /\ Set(p, s, Idle) /\ UNCHANGED <<content, index, members, head, lost>>
      /\ stray' = [stray EXCEPT ![p] = @ \cup {t.cur}]
  BY DEF CommitFails, replica
<1> HIDE DEF t
<1>3. /\ stray'[p] = stray[p] \cup {t.cur}
      /\ \A q \in Peer \ {p} : stray'[q] = stray[q]
  BY <1>2 DEF IInv, TypeOK
<1>4. HandsOK(p, task[p][s])' /\ Carries(t) = {None, t.cur}
  BY <1>1, <1>2, IdleType, SetFrame DEF HandsOK, Idle, Settled, Carries
<1>5. None \notin index[p]
  BY ThreadConstants DEF IInv, TypeOK
<1> QED BY <1>1, <1>2, <1>3, <1>4, <1>5, IdleType, QuietStep DEF t, Covered

LEMMA AbortHand ==
  ASSUME IInv, IInv', HandInv, NEW p \in Peer, NEW s \in Slot,
         ReloadFails(p, s) \/ MergeFails(p, s)
  PROVE  HandInv'
<1> DEFINE t == task[p][s]
<1>1. t \in Task /\ HandsOK(p, t) /\ t.pc \in {"head", "merge", "commit"}
  BY HandType DEF ReloadFails, MergeFails
<1>2. /\ Set(p, s, Idle) /\ UNCHANGED <<content, index, members, head, lost>>
      /\ stray' = [stray EXCEPT ![p] = @ \cup ({t.top} \ {None})]
  BY DEF ReloadFails, MergeFails, Abort, replica
<1> HIDE DEF t
<1>3. /\ stray'[p] = stray[p] \cup ({t.top} \ {None})
      /\ \A q \in Peer \ {p} : stray'[q] = stray[q]
  BY <1>2 DEF IInv, TypeOK
<1>4. HandsOK(p, task[p][s])' /\ Carries(t) = {t.top}
  BY <1>1, <1>2, IdleType, SetFrame DEF HandsOK, Idle, Settled, Carries
<1>5. None \notin index[p]
  BY ThreadConstants DEF IInv, TypeOK
<1> QED BY <1>1, <1>2, <1>3, <1>4, <1>5, IdleType, QuietStep DEF t, Covered

\* A step that puts b at HEAD in place of a HEAD it read, and lets go of d.
LEMMA PutHead ==
  ASSUME IInv, IInv', HandInv, NEW p \in Peer, NEW s \in Slot, NEW u \in Task,
         NEW b, NEW base, UpdateHead(p, b, base),
         Set(p, s, u), UNCHANGED <<content, index, members, lost>>,
         task[p][s].pc \notin {"peer", "index"},
         u.pc \in Settled, u.top = None, u.todo = {},
         base = None \/ Below(p, base),
         \A d \in Carries(task[p][s]) : d = None \/ d = b \/ Below(p, d)
  PROVE  HandInv'
<1>1. None \notin index[p]
  BY ThreadConstants DEF IInv, TypeOK
<1>2. /\ stray[p] \subseteq stray'[p]
      /\ \A q \in Peer \ {p} : stray'[q] = stray[q] /\ head'[q] = head[q]
      /\ b = head'[p] \/ b \in stray'[p]
      /\ head[p] \in {None, b, base, head'[p]} \cup stray'[p]
  BY DEF UpdateHead, IInv, TypeOK
<1>3. \A d : Below(p, d) => Below(p, d)'
  BY DEF Below, Known, Parents
<1>4. HandsOK(p, task[p][s])'
  BY SetFrame DEF HandsOK, Settled
<1>5. ASSUME NEW d \in index[p], d = head[p] \/ d \in Carries(task[p][s])
      PROVE  Covered(p, d)'
  BY <1>1, <1>2, <1>3, <1>5 DEF Covered
<1> QED BY <1>2, <1>4, <1>5, QuietStep

LEMMA FastForwardHand ==
  ASSUME IInv, IInv', HandInv, NEW p \in Peer, NEW s \in Slot, FastForward(p, s)
  PROVE  HandInv'
<1> DEFINE t == task[p][s]
<1> DEFINE u == [Idle EXCEPT !.pc = "welcome"]
<1>1. t \in Task /\ TaskOK(p, t) /\ HandsOK(p, t) /\ t.pc = "ff"
  BY HandType DEF FastForward
<1>2. /\ Set(p, s, u) /\ UpdateHead(p, t.top, t.base)
      /\ UNCHANGED <<content, index, members, lost>>
  BY DEF FastForward
<1>3. u \in Task /\ u.pc \in Settled /\ u.top = None /\ u.todo = {}
  BY IdleType DEF Task, Label, Idle, Settled
<1> HIDE DEF t, u
<1>4. t.base = None \/ Below(p, t.base)
  BY <1>1 DEF HandsOK, TaskOK, Below
<1>5. Carries(t) = {t.top}
  BY <1>1 DEF Carries
<1> QED BY <1>1, <1>2, <1>3, <1>4, <1>5, PutHead DEF t

LEMMA CommitHeadHand ==
  ASSUME IInv, IInv', HandInv, NEW p \in Peer, NEW s \in Slot, CommitHead(p, s)
  PROVE  HandInv'
<1> DEFINE t == task[p][s]
<1> DEFINE u == IF t.kind = "merge" THEN [Idle EXCEPT !.pc = "welcome"]
                ELSE [t EXCEPT !.pc = "post"]
<1>1. t \in Task /\ TaskOK(p, t) /\ HandsOK(p, t) /\ t.pc = "commithead"
  BY HandType DEF CommitHead
<1>2. /\ Set(p, s, u) /\ UpdateHead(p, t.cur, t.base)
      /\ UNCHANGED <<content, index, members, lost>>
  BY DEF CommitHead
<1>3. /\ u \in Task /\ u.pc \in {"welcome", "post"}
      /\ u.pc = "welcome" => u.top = None /\ u.todo = {}
      /\ u.pc = "post" => u.top = t.top /\ u.todo = t.todo /\ t.kind # "merge"
  BY <1>1, IdleType DEF Task, Label, Idle
<1> HIDE DEF t, u
<1>4. t.todo = {} /\ t.cur \in Known(p)
  BY <1>1 DEF TaskOK, Walking
<1>5. {t.top, t.base} \subseteq {None} \cup Parents(t.cur)
  BY <1>1 DEF HandsOK
<1>6. Carries(t) = {t.top, t.cur}
  BY <1>1 DEF Carries
<1>7. t.kind # "merge" => t.top = None
  BY <1>1 DEF HandsOK
<1> QED BY <1>1, <1>2, <1>3, <1>4, <1>5, <1>6, <1>7, PutHead DEF t, Below, Settled

LEMMA AcceptHeadHand ==
  ASSUME IInv, IInv', HandInv, NEW p \in Peer, NEW s \in Slot, AcceptHead(p, s)
  PROVE  HandInv'
<1> DEFINE t == task[p][s]
<1> DEFINE u == [Idle EXCEPT !.pc = "acceptmark", !.kind = "join"]
<1>1. t \in Task /\ t.pc = "accepthead"
  BY HandType DEF AcceptHead
<1>2. Set(p, s, u) /\ UNCHANGED <<content, index, members, lost>>
  BY DEF AcceptHead
<1>3. u \in Task /\ u.pc \in Settled /\ u.top = None /\ u.todo = {}
  BY IdleType DEF Task, Label, Kind, Idle, Settled
<1>4. IF t.top = None THEN UNCHANGED <<head, stray>> ELSE UpdateHead(p, t.top, None)
  BY DEF AcceptHead
<1> HIDE DEF t, u
<1>5. Carries(t) = {t.top}
  BY <1>1 DEF Carries
<1>6. HandsOK(p, u)
  BY <1>3 DEF HandsOK, Settled
<1>7. CASE t.top = None
  BY <1>1, <1>2, <1>3, <1>4, <1>5, <1>6, <1>7, PlainStep DEF t
<1>8. CASE t.top # None
  BY <1>1, <1>2, <1>3, <1>4, <1>5, <1>8, PutHead DEF t
<1> QED BY <1>7, <1>8

\* RemoveThread drops HEAD and with it every tip.
LEMMA RemoveThreadHand ==
  ASSUME IInv, IInv', HandInv, NEW p \in Peer, NEW s \in Slot, RemoveThread(p, s)
  PROVE  HandInv'
<1>1. /\ Set(p, s, Idle) /\ UNCHANGED <<content, index, members, lost>>
      /\ head' = [head EXCEPT ![p] = None]
      /\ stray' = [stray EXCEPT ![p] = @ \cup index[p]]
      /\ task[p][s].pc = "remove"
  BY DEF RemoveThread
<1>2. /\ stray'[p] = stray[p] \cup index[p]
      /\ \A q \in Peer \ {p} : stray'[q] = stray[q] /\ head'[q] = head[q]
  BY <1>1 DEF IInv, TypeOK
<1>3. HandsOK(p, task[p][s])'
  BY <1>1, IdleType, SetFrame DEF HandsOK, Idle, Settled
<1> QED BY <1>1, <1>2, <1>3, IdleType, QuietStep DEF Covered

\* A leaving author goes only when his LEAVE is about to be indexed.
LEMMA UnpeerHand ==
  ASSUME IInv, IInv', HandInv, NEW p \in Peer, NEW s \in Slot, Unpeer(p, s)
  PROVE  HandInv'
<1> DEFINE t == task[p][s]
<1> DEFINE u == [t EXCEPT !.pc = "index"]
<1> DEFINE a == content[t.cur].author
<1>1. t \in Task /\ TaskOK(p, t) /\ HandsOK(p, t) /\ t.pc = "unpeer"
  BY HandType DEF Unpeer
<1>2. /\ u \in Task /\ u.pc = "index" /\ u.cur = t.cur /\ u.todo = t.todo /\ u.top = t.top
  BY <1>1 DEF Task, Label
<1>3. /\ Set(p, s, u) /\ UNCHANGED <<content, index, head, lost, stray>>
      /\ members' = [members EXCEPT ![p] = @ \ {a}]
  BY DEF Unpeer
<1>4. /\ members'[p] = members[p] \ {a}
      /\ \A q \in Peer \ {p} : members'[q] = members[q]
  BY <1>3 DEF IInv, TypeOK
<1>5. t.cur \in Block /\ content[t.cur].kind = "leave"
  BY <1>1 DEF TaskOK, HandsOK
<1>6. HandsOK(p, u)
  BY <1>1, <1>2 DEF HandsOK, Settled
<1>7. Carries(u) = Carries(t)
  BY <1>1, <1>2 DEF Carries
<1>8. /\ task'[p][s] = u
      /\ \A r \in Slot \ {s} : task'[p][r] = task[p][r]
      /\ \A q \in Peer \ {p} : task'[q] = task[q]
  BY <1>2, <1>3, SetFrame
<1>9. HandsOK(p, task[p][s])'
  BY <1>3, <1>6, <1>8 DEF HandsOK, Below, Known, Parents
<1>10. ASSUME NEW b \in index'[p] PROVE Listed(p, b)'
  <2>1. Listed(p, b)
    BY <1>3, <1>10 DEF HandInv
  <2>2. \A d : Left(p, d) => Left(p, d)'
    BY <1>1, <1>3, <1>8 DEF Left, Runs
  <2>3. Runs(p, "peer", b) => Runs(p, "peer", b)'
    BY <1>1, <1>8 DEF Runs
  <2>4. \A d : d = a => Left(p, d)'
    BY <1>2, <1>3, <1>5, <1>8 DEF Left, Runs
  <2> HIDE DEF a
  <2> QED BY <1>3, <1>4, <2>1, <2>2, <2>3, <2>4 DEF Listed
<1>11. Known(p)' = Known(p) /\ \A b : Covered(p, b)' <=> Covered(p, b)
  BY <1>3 DEF Known, Covered, Below, Parents
<1>13. \A b \in index[p] : b = head[p] \/ b \in Carries(t)
                             => Covered(p, b)' \/ b \in Carries(task'[p][s])
  BY <1>7, <1>8, <1>11 DEF Covered
<1> HIDE DEF u, a
<1> QED BY <1>3, <1>4, <1>8, <1>9, <1>10, <1>11, <1>13, HandStep

LEMMA AddPeerHand ==
  ASSUME IInv, IInv', HandInv, NEW p \in Peer, NEW s \in Slot, AddPeer(p, s)
  PROVE  HandInv'
<1> DEFINE t == task[p][s]
<1> DEFINE u == [t EXCEPT !.pc = "follow", !.cur = None]
<1> DEFINE a == content[t.cur].author
<1>1. t \in Task /\ HandsOK(p, t) /\ t.pc = "peer"
  BY HandType DEF AddPeer
<1>2. /\ u \in Task /\ u.pc = "follow" /\ u.todo = t.todo /\ u.top = t.top
  BY <1>1 DEF Task, Label
<1>3. /\ Set(p, s, u) /\ UNCHANGED <<content, index, head, lost, stray>>
      /\ members' = [members EXCEPT ![p] = @ \cup {a}]
  BY DEF AddPeer
<1>4. /\ members'[p] = members[p] \cup {a}
      /\ \A q \in Peer \ {p} : members'[q] = members[q]
  BY <1>3 DEF IInv, TypeOK
<1>6. HandsOK(p, u)
  BY <1>1, <1>2 DEF HandsOK, Settled
<1>7. Carries(u) = Carries(t)
  BY <1>1, <1>2 DEF Carries
<1>8. /\ task'[p][s] = u
      /\ \A r \in Slot \ {s} : task'[p][r] = task[p][r]
      /\ \A q \in Peer \ {p} : task'[q] = task[q]
  BY <1>2, <1>3, SetFrame
<1>9. HandsOK(p, task[p][s])'
  BY <1>3, <1>6, <1>8 DEF HandsOK, Below, Known, Parents
<1>10. ASSUME NEW b \in index'[p] PROVE Listed(p, b)'
  <2>1. Listed(p, b)
    BY <1>3, <1>10 DEF HandInv
  <2>2. \A d : Left(p, d) => Left(p, d)'
    BY <1>1, <1>3, <1>8 DEF Left, Runs
  <2>3. Runs(p, "peer", b) => Runs(p, "peer", b)' \/ b = t.cur
    BY <1>1, <1>8 DEF Runs
  <2> QED BY <1>3, <1>4, <2>1, <2>2, <2>3 DEF Listed
<1>11. Known(p)' = Known(p) /\ \A b : Covered(p, b)' <=> Covered(p, b)
  BY <1>3 DEF Known, Covered, Below, Parents
<1>13. \A b \in index[p] : b = head[p] \/ b \in Carries(t)
                             => Covered(p, b)' \/ b \in Carries(task'[p][s])
  BY <1>7, <1>8, <1>11 DEF Covered
<1> HIDE DEF u, a
<1> QED BY <1>3, <1>4, <1>8, <1>9, <1>10, <1>11, <1>13, HandStep

\* An indexed block is the inbound one, which its goroutine now carries, or has
\* a child; its parents have it as a child.
LEMMA IndexInboundHand ==
  ASSUME IInv, IInv', HandInv, NEW p \in Peer, NEW s \in Slot, IndexInbound(p, s)
  PROVE  HandInv'
<1> DEFINE t == task[p][s]
<1> DEFINE u == [t EXCEPT !.pc = IF CollectsAuthor(t.cur) THEN "peer" ELSE "follow",
                          !.cur = IF CollectsAuthor(t.cur) THEN @ ELSE None,
                          !.todo = (@ \ {t.cur}) \cup ParentsToFollow(t.cur)]
<1>1. t \in Task /\ TaskOK(p, t) /\ HandsOK(p, t) /\ t.pc = "index"
  BY HandType DEF IndexInbound
<1>2. t.cur \in Block /\ t.cur \notin index[p]
      /\ (t.cur \notin t.todo => t.cur = t.top /\ t.todo = {})
  BY <1>1 DEF TaskOK, IndexInbound
<1>3. ParentsToFollow(t.cur) = Parents(t.cur) /\ Parents(t.cur) \subseteq Block
  BY <1>2 DEF ParentsToFollow, IInv, ContentOK, Written
<1>4. /\ u \in Task /\ u.pc \in {"peer", "follow"} /\ u.top = t.top
      /\ u.todo = (t.todo \ {t.cur}) \cup Parents(t.cur)
      /\ CollectsAuthor(t.cur) => u.pc = "peer" /\ u.cur = t.cur
  BY <1>1, <1>2, <1>3 DEF Task, Label
<1>5. /\ Set(p, s, u) /\ UNCHANGED <<content, head, members, lost, stray>>
      /\ index' = [index EXCEPT ![p] = @ \cup {t.cur}]
  BY DEF IndexInbound
<1>6. /\ index'[p] = index[p] \cup {t.cur}
      /\ \A q \in Peer \ {p} : index'[q] = index[q]
  BY <1>5 DEF IInv, TypeOK
<1>7. /\ task'[p][s] = u
      /\ \A r \in Slot \ {s} : task'[p][r] = task[p][r]
      /\ \A q \in Peer \ {p} : task'[q] = task[q]
  BY <1>4, <1>5, SetFrame
<1> HIDE DEF t, u
<1>8. /\ Known(p)' = Known(p) \cup {t.cur}
      /\ \A b : Below(p, b) => Below(p, b)'
      /\ \A b \in Parents(t.cur) : Below(p, b)'
  BY <1>5, <1>6 DEF Known, Below, Parents
<1>9. HandsOK(p, task[p][s])'
  <2>1. \A b \in u.todo : b = u.top \/ Below(p, b)'
    BY <1>1, <1>4, <1>8 DEF HandsOK
  <2> QED BY <1>4, <1>7, <2>1 DEF HandsOK, Settled
<1>10. ASSUME NEW b \in index'[p] PROVE Listed(p, b)'
  <2>1. CASE b = t.cur
    BY <1>4, <1>5, <1>7, <2>1 DEF Listed, Runs, CollectsAuthor
  <2>2. CASE b \in index[p]
    <3>1. Listed(p, b)
      BY <2>2 DEF HandInv
    <3>2. \A d : Left(p, d) => Left(p, d)'
      BY <1>1, <1>5, <1>6, <1>7 DEF Left, Runs, t
    <3>3. Runs(p, "peer", b) => Runs(p, "peer", b)'
      BY <1>1, <1>7 DEF Runs, t
    <3> QED BY <1>5, <3>1, <3>2, <3>3 DEF Listed
  <2> QED BY <1>6, <2>1, <2>2
<1>11. Carries(u) = {t.top} /\ Carries(t) \subseteq {t.top}
  BY <1>1, <1>4 DEF Carries
<1>12. \A b \in index[p] : b = head[p] \/ b \in Carries(t)
                             => Covered(p, b)' \/ b \in Carries(task'[p][s])
  BY <1>5, <1>7, <1>11 DEF Covered
<1>13. \A b \in index'[p] \ index[p] : Covered(p, b)' \/ b \in Carries(task'[p][s])
  BY <1>1, <1>2, <1>6, <1>7, <1>8, <1>11 DEF Covered, HandsOK
<1> QED BY <1>5, <1>6, <1>7, <1>8, <1>9, <1>10, <1>12, <1>13, HandStep DEF t

\* A goroutine's own block is by its peer, who is not one of his own members.
LEMMA CommitIndexHand ==
  ASSUME IInv, IInv', HandInv, NEW p \in Peer, NEW s \in Slot, CommitIndex(p, s)
  PROVE  HandInv'
<1> DEFINE t == task[p][s]
<1> DEFINE u == [t EXCEPT !.pc = "commithead"]
<1>1. t \in Task /\ TaskOK(p, t) /\ HandsOK(p, t) /\ t.pc = "commitindex"
  BY HandType DEF CommitIndex
<1>2. t.todo = {} /\ (content[t.cur].kind = "merge" \/ content[t.cur].author = p)
  BY <1>1 DEF TaskOK, HandsOK, Walking
<1>4. /\ u \in Task /\ u.pc = "commithead" /\ u.top = t.top /\ u.todo = t.todo
      /\ u.cur = t.cur /\ u.base = t.base /\ u.kind = t.kind
  BY <1>1 DEF Task, Label
<1>5. /\ Set(p, s, u) /\ UNCHANGED <<content, head, members, lost, stray>>
      /\ index' = [index EXCEPT ![p] = @ \cup {t.cur}]
  BY DEF CommitIndex
<1>6. /\ index'[p] = index[p] \cup {t.cur}
      /\ \A q \in Peer \ {p} : index'[q] = index[q]
  BY <1>5 DEF IInv, TypeOK
<1>7. /\ task'[p][s] = u
      /\ \A r \in Slot \ {s} : task'[p][r] = task[p][r]
      /\ \A q \in Peer \ {p} : task'[q] = task[q]
  BY <1>4, <1>5, SetFrame
<1> HIDE DEF t, u
<1>8. /\ Known(p)' = Known(p) \cup {t.cur}
      /\ \A b : Below(p, b) => Below(p, b)'
  BY <1>5, <1>6 DEF Known, Below, Parents
<1>9. HandsOK(p, task[p][s])'
  BY <1>1, <1>2, <1>4, <1>5, <1>7 DEF HandsOK, Settled, Parents
<1>10. ASSUME NEW b \in index'[p] PROVE Listed(p, b)'
  <2>1. CASE b = t.cur
    BY <1>2, <1>5, <2>1 DEF Listed
  <2>2. CASE b \in index[p]
    <3>1. Listed(p, b)
      BY <2>2 DEF HandInv
    <3>2. \A d : Left(p, d) => Left(p, d)'
      BY <1>1, <1>5, <1>6, <1>7 DEF Left, Runs, t
    <3>3. Runs(p, "peer", b) => Runs(p, "peer", b)'
      BY <1>1, <1>7 DEF Runs, t
    <3> QED BY <1>5, <3>1, <3>2, <3>3 DEF Listed
  <2> QED BY <1>6, <2>1, <2>2
<1>11. Carries(u) = {t.top, t.cur} /\ Carries(t) = {t.top}
  BY <1>1, <1>4 DEF Carries
<1>12. \A b \in index[p] : b = head[p] \/ b \in Carries(t)
                             => Covered(p, b)' \/ b \in Carries(task'[p][s])
  BY <1>5, <1>7, <1>11 DEF Covered
<1>13. \A b \in index'[p] \ index[p] : Covered(p, b)' \/ b \in Carries(task'[p][s])
  BY <1>6, <1>7, <1>11
<1> QED BY <1>5, <1>6, <1>7, <1>8, <1>9, <1>10, <1>12, <1>13, HandStep DEF t

\* A goroutine that writes a block keeps what it carried as one of its parents.
LEMMA WriteHand ==
  ASSUME IInv, IInv', HandInv, NEW p \in Peer, NEW s \in Slot, NEW u \in Task,
         NEW i \in Block, NEW c \in Content,
         content' = [content EXCEPT ![i] = c],
         content[i] = c \/ content[i].kind = "none",
         Set(p, s, u), UNCHANGED <<replica, lost, stray>>,
         u.pc = "commitindex", u.cur = i, u.todo = {},
         {u.top, u.base} \subseteq {None} \cup c.parents,
         u.kind = "merge" \/ u.top = None, c.kind = "merge" \/ c.author = p,
         task[p][s].pc \notin {"peer", "index"},
         Carries(task[p][s]) \subseteq {None, u.top}
  PROVE  HandInv'
<1>1. \A b \in Written : content'[b] = content[b]
  BY DEF Written, IInv, TypeOK
<1>2. content'[i] = c
  BY DEF IInv, TypeOK
<1>3. /\ task'[p][s] = u
      /\ \A r \in Slot \ {s} : task'[p][r] = task[p][r]
      /\ \A q \in Peer \ {p} : task'[q] = task[q]
  BY SetFrame
<1>4. HandsOK(p, task[p][s])'
  BY <1>2, <1>3 DEF HandsOK, Settled, Parents
<1>5. None \notin index[p] /\ index[p] \subseteq Written
  BY ThreadConstants DEF IInv, TypeOK, ReplicaOK
<1>6. /\ UNCHANGED <<index, head, members, lost, stray>>
      /\ Known(p)' = Known(p)
  BY DEF replica, Known
<1>7. ASSUME NEW b \in index'[p] PROVE Listed(p, b)'
  <2>1. Listed(p, b) /\ b \in Written
    BY <1>5, <1>6 DEF HandInv
  <2>2. \A d : Left(p, d) => Left(p, d)'
    BY <1>1, <1>3, <1>6 DEF Left, Runs, Written
  <2>3. Runs(p, "peer", b) => Runs(p, "peer", b)'
    BY <1>3 DEF Runs
  <2> QED BY <1>1, <1>6, <2>1, <2>2, <2>3 DEF Listed
<1>8. Carries(u) = {u.top}
  BY DEF Carries
<1>9. \A b \in index[p] : b = head[p] \/ b \in Carries(task[p][s])
                             => Covered(p, b)' \/ b \in Carries(task'[p][s])
  BY <1>3, <1>5, <1>6, <1>8 DEF Covered
<1> QED BY <1>1, <1>3, <1>4, <1>6, <1>7, <1>9, HandStep

LEMMA CommitBlockHand ==
  ASSUME IInv, IInv', HandInv, NEW p \in Peer, NEW s \in Slot,
         NEW k \in UpdateKind \cup {"join"},
         CommitBlock(p, s, k), task[p][s].pc \in {"idle", "commit"}
  PROVE  HandInv'
<1> DEFINE c == [kind |-> k, author |-> p, address |-> AddressOf[p], parents |-> HeadParents(p)]
<1> DEFINE u == [Idle EXCEPT !.pc = "commitindex", !.kind = k, !.cur = Fresh, !.base = head[p]]
<1>1. Fresh \in Block /\ content[Fresh].kind = "none"
  BY FreshType DEF CommitBlock, IInv
<1>2. HeadParents(p) \subseteq Block /\ head[p] \in Block \cup {None}
  BY DEF HeadParents, IInv, TypeOK
<1>3. c \in Content /\ c.author = p /\ c.parents = HeadParents(p)
  BY <1>2, ThreadConstants DEF Content, Kind, UpdateKind
<1>4. /\ u \in Task /\ u.pc = "commitindex" /\ u.cur = Fresh /\ u.todo = {}
      /\ u.top = None /\ u.base = head[p]
  BY <1>1, <1>2, IdleType DEF Task, Label, Kind, UpdateKind, Idle
<1>5. /\ content' = [content EXCEPT ![Fresh] = c] /\ Set(p, s, u)
      /\ UNCHANGED <<replica, lost, stray>>
  BY DEF CommitBlock
<1> HIDE DEF c, u
<1>6. {u.top, u.base} \subseteq {None} \cup c.parents
  BY <1>3, <1>4 DEF HeadParents
<1>7. Carries(task[p][s]) \subseteq {None, u.top}
  BY HandType DEF HandsOK, Carries, Settled
<1> QED BY <1>1, <1>3, <1>4, <1>5, <1>6, <1>7, WriteHand

LEMMA MergeHand ==
  ASSUME IInv, IInv', HandInv, NEW p \in Peer, NEW s \in Slot, Merge(p, s)
  PROVE  HandInv'
<1> DEFINE t == task[p][s]
<1> DEFINE c == [kind |-> "merge", author |-> None, address |-> AddressOf[p],
                 parents |-> {head[p], t.top}]
<1> DEFINE u == [t EXCEPT !.pc = "commitindex", !.kind = "merge", !.cur = IdOf(c), !.base = head[p]]
<1>1. t \in Task /\ TaskOK(p, t) /\ t.pc = "merge"
  BY TaskType DEF Merge
<1>2. c \in Content /\ c.kind = "merge" /\ c.parents = {head[p], t.top}
  BY ThreadConstants DEF Merge, Content, Kind, IInv, TypeOK
<1>3. IdOf(c) \in Block /\ (content[IdOf(c)] = c \/ content[IdOf(c)].kind = "none")
  BY <1>2, IdOfType DEF Merge, IInv
<1>4. head[p] \in Block \cup {None}
  BY DEF IInv, TypeOK
<1>5. /\ u \in Task /\ u.pc = "commitindex" /\ u.kind = "merge"
      /\ u.cur = IdOf(c) /\ u.todo = t.todo /\ u.top = t.top /\ u.base = head[p]
  BY <1>1, <1>3, <1>4 DEF Task, Label, Kind
<1>6. /\ content' = [content EXCEPT ![IdOf(c)] = c] /\ Set(p, s, u)
      /\ UNCHANGED <<replica, lost, stray>>
  BY DEF Merge
<1> HIDE DEF t, c, u
<1>7. t.todo = {} /\ Carries(t) = {t.top}
  BY <1>1 DEF TaskOK, Walking, Carries
<1> QED BY <1>1, <1>2, <1>3, <1>5, <1>6, <1>7, WriteHand DEF t

LEMMA CleanupHand ==
  ASSUME IInv, IInv', HandInv, NEW p \in Peer, NEW s \in Slot, Cleanup(p, s)
  PROVE  HandInv'
<1> DEFINE u == [task[p][s] EXCEPT !.pc = "cleanuppeers"]
<1>1. /\ u \in Task /\ u.pc = "cleanuppeers" /\ u.top = None /\ u.todo = {}
  <2>1. task[p][s].top = None /\ task[p][s].todo = {}
    BY HandType DEF Cleanup, HandsOK, TaskOK, Settled, Walking
  <2> QED BY <2>1, TaskType DEF Task, Label
<1>2. /\ Set(p, s, u) /\ UNCHANGED <<content, head, members, stray>>
      /\ lost' = [lost EXCEPT ![p] = @ \cup index[p]]
      /\ index' = [index EXCEPT ![p] = {}]
  BY DEF Cleanup
<1> HIDE DEF u
<1>3. /\ index'[p] = {} /\ Known(p)' = Known(p)
      /\ \A q \in Peer \ {p} : index'[q] = index[q] /\ lost'[q] = lost[q]
  BY <1>2 DEF IInv, TypeOK, Known
<1>4. /\ task'[p][s] = u
      /\ \A r \in Slot \ {s} : task'[p][r] = task[p][r]
      /\ \A q \in Peer \ {p} : task'[q] = task[q]
  BY <1>1, <1>2, SetFrame
<1>5. HandsOK(p, task[p][s])'
  BY <1>1, <1>4 DEF HandsOK, Settled
<1>6. task[p][s].pc = "cleanup" /\ HandsOK(p, task[p][s])
  BY HandType DEF Cleanup
<1>7. \A b \in index[p] : b = head[p] \/ b \in Carries(task[p][s])
                             => Covered(p, b)' \/ b \in Carries(task'[p][s])
  <2>1. Carries(task[p][s]) = {None} /\ None \notin index[p]
    BY <1>6, ThreadConstants DEF HandsOK, Carries, Settled, IInv, TypeOK
  <2> QED BY <1>2, <2>1 DEF Covered
<1> QED BY <1>2, <1>3, <1>4, <1>5, <1>7, HandStep

\* What was shown between the two deletions is stray.
LEMMA CleanupPeersHand ==
  ASSUME IInv, IInv', HandInv, NEW p \in Peer, NEW s \in Slot, CleanupPeers(p, s)
  PROVE  HandInv'
<1> DEFINE u == [Idle EXCEPT !.pc = "remove"]
<1>1. /\ u \in Task /\ u.pc = "remove" /\ u.top = None /\ u.todo = {}
  BY IdleType DEF Task, Label, Idle
<1>2. /\ Set(p, s, u) /\ UNCHANGED <<content, head, index, lost>>
      /\ members' = [members EXCEPT ![p] = {}]
      /\ stray' = [stray EXCEPT ![p] = @ \cup index[p]]
  BY DEF CleanupPeers
<1> HIDE DEF u
<1>3. /\ stray'[p] = stray[p] \cup index[p]
      /\ \A q \in Peer \ {p} : stray'[q] = stray[q] /\ members'[q] = members[q]
  BY <1>2 DEF IInv, TypeOK
<1>4. /\ task'[p][s] = u
      /\ \A r \in Slot \ {s} : task'[p][r] = task[p][r]
      /\ \A q \in Peer \ {p} : task'[q] = task[q]
  BY <1>1, <1>2, SetFrame
<1>5. HandsOK(p, task[p][s])'
  BY <1>1, <1>4 DEF HandsOK, Settled
<1>6. \A b \in index[p] : Covered(p, b)' /\ Listed(p, b)'
  BY <1>2, <1>3 DEF Covered, Listed
<1>7. Known(p)' = Known(p)
  BY <1>2 DEF Known
<1> QED BY <1>2, <1>3, <1>4, <1>5, <1>6, <1>7, HandStep

\* A restart strays the tips in hand and loses what was still to be followed.
LEMMA CrashHand ==
  ASSUME IInv, IInv', HandInv, NEW p \in Peer, Crash(p)
  PROVE  HandInv'
<1> DEFINE owed == UNION {task[p][s].todo : s \in Slot}
<1> DEFINE held == UNION {{task[p][s].top, task[p][s].cur} : s \in Slot}
<1>1. /\ lost' = [lost EXCEPT ![p] = @ \cup owed]
      /\ stray' = [stray EXCEPT ![p] = @ \cup (held \ {None})]
      /\ task' = [task EXCEPT ![p] = [s \in Slot |-> Idle]]
      /\ UNCHANGED <<content, head, index, members>>
  BY DEF Crash, replica
<1>2. /\ \A r \in Slot : task[p][r].top \in held /\ task[p][r].cur \in held
  OBVIOUS
<1> HIDE DEF owed, held
<1>3. /\ lost[p] \subseteq lost'[p] /\ stray'[p] = stray[p] \cup (held \ {None})
      /\ \A q \in Peer \ {p} : lost'[q] = lost[q] /\ stray'[q] = stray[q] /\ task'[q] = task[q]
      /\ \A r \in Slot : task'[p][r] = Idle
  BY <1>1 DEF IInv, TypeOK
<1>4. \A q \in Peer : \A b : Below(q, b) => Below(q, b)'
  BY <1>1, <1>3 DEF Below, Known, Parents
<1>5. ASSUME NEW q \in Peer, NEW r \in Slot PROVE HandsOK(q, task[q][r])'
  <2>1. CASE q = p
    BY <1>3, <2>1 DEF HandsOK, Settled, Idle
  <2>2. CASE q # p
    BY <1>1, <1>3, <1>4, <2>2 DEF HandInv, HandsOK, Parents
  <2> QED BY <2>1, <2>2
<1>6. TipsCarried'
  <2> SUFFICES ASSUME NEW q \in Peer, NEW b \in index[q]
               PROVE  Covered(q, b)' \/ \E r \in Slot : b \in Carries(task'[q][r])
    BY <1>1 DEF TipsCarried, Carries
  <2>1. Covered(q, b) \/ \E r \in Slot : b \in Carries(task[q][r])
    BY DEF HandInv, TipsCarried
  <2>2. CASE q = p
    <3>1. ASSUME NEW r \in Slot, b \in Carries(task[p][r]) PROVE b \in stray'[p]
      <4>1. b \in held /\ b # None
        BY <1>2, <2>2, <3>1, ThreadConstants DEF Carries, IInv, TypeOK
      <4> QED BY <4>1, <1>3
    <3> QED BY <1>1, <1>3, <1>4, <2>1, <2>2, <3>1 DEF Covered
  <2>3. CASE q # p
    BY <1>1, <1>3, <1>4, <2>1, <2>3 DEF Covered
  <2> QED BY <2>2, <2>3
<1>7. ASSUME NEW q \in Peer, NEW b \in index'[q] PROVE Listed(q, b)'
  <2>1. Listed(q, b) /\ b # None
    BY <1>1, ThreadConstants DEF HandInv, IInv, TypeOK
  <2>2. CASE q = p
    <3>1. \A d : Left(p, d) => Left(p, d)'
      <4> SUFFICES ASSUME NEW d, NEW l \in Block,
                          content[l].kind = "leave", content[l].author = d,
                          l \in index[p] \cup lost[p] \cup stray[p] \/ Runs(p, "index", l)
                   PROVE  l \in index[p] \cup lost'[p] \cup stray'[p]
        BY <1>1 DEF Left
      <4>1. Runs(p, "index", l) => l \in held
        BY <1>2 DEF Runs
      <4> QED BY <1>3, <4>1, ThreadConstants
    <3>2. Runs(p, "peer", b) => b \in stray'[p]
      BY <1>2, <1>3, <2>1 DEF Runs
    <3> QED BY <1>1, <1>3, <2>1, <2>2, <3>1, <3>2 DEF Listed
  <2>3. CASE q # p
    <3>1. \A d : Left(q, d) => Left(q, d)'
      BY <1>1, <1>3, <2>3 DEF Left, Runs
    <3>2. Runs(q, "peer", b) => Runs(q, "peer", b)'
      BY <1>3, <2>3 DEF Runs
    <3> QED BY <1>1, <1>3, <2>1, <2>3, <3>1, <3>2 DEF Listed
  <2> QED BY <2>2, <2>3
<1> QED BY <1>5, <1>6, <1>7 DEF HandInv

LEMMA HandInit == Init => HandInv
<1> SUFFICES ASSUME Init PROVE HandInv
  OBVIOUS
<1>1. \A p \in Peer, s \in Slot : task[p][s] = Idle
  BY DEF Init
<1>2. \A p \in Peer, s \in Slot : HandsOK(p, task[p][s])
  BY <1>1 DEF HandsOK, Idle, Settled
<1>3. ASSUME NEW p \in Peer, NEW b \in index[p]
      PROVE  p = Creator /\ b = Genesis /\ head[p] = b /\ content[b].author = p
  BY <1>3, ThreadConstants DEF Init
<1> QED BY <1>2, <1>3 DEF HandInv, TipsCarried, Covered, Listed

LEMMA HandNext == IInv /\ IInv' /\ HandInv /\ [Next]_vars => HandInv'
<1> SUFFICES ASSUME IInv, IInv', HandInv, [Next]_vars PROVE HandInv'
  OBVIOUS
<1>1. CASE UNCHANGED <<content, replica, task, lost, stray>>
  <2> USE <1>1 DEF replica
  <2>1. \A p \in Peer, s \in Slot : HandsOK(p, task[p][s])'
    BY DEF HandInv, HandsOK, Below, Known, Parents
  <2>2. TipsCarried'
    BY DEF HandInv, TipsCarried, Covered, Below, Known, Parents, Carries
  <2>3. \A p \in Peer : \A b \in index'[p] : Listed(p, b)'
    BY DEF HandInv, Listed, Left, Runs
  <2> QED BY <2>1, <2>2, <2>3 DEF HandInv
<1>2. ASSUME NEW p \in Peer, NEW s \in Slot, Inbound(p, s) PROVE HandInv'
  BY <1>2, ReceiveHand, UnpeerHand, IndexInboundHand, IndexConflictHand, AddPeerHand,
     FollowParentHand, ParentExistsHand, FollowDoneHand, AbortHand, ReadHeadHand,
     FastForwardHand, MergeHand, WelcomeHand, GreetHand DEF Inbound
<1>3. ASSUME NEW p \in Peer, NEW s \in Slot, Local(p, s) PROVE HandInv'
  <2>1. CASE Join(p, s)
    BY <2>1, CommitBlockHand DEF Join
  <2> QED BY <1>3, <2>1, AcceptHeadHand, AcceptMarkHand, CommitIndexHand, CommitConflictHand,
             CommitHeadHand, PostBlockHand, CleanupHand, CleanupPeersHand, RemoveThreadHand
          DEF Local
<1>4. ASSUME NEW p \in Peer, NEW s \in Slot, User(p, s) PROVE HandInv'
  <2>1. ASSUME NEW k \in LocalKind, AddUpdate(p, s, k) PROVE HandInv'
    BY <2>1, CommitBlockHand, ThreadConstants DEF AddUpdate, Idle
  <2> QED BY <1>4, <2>1, AcceptHand DEF User
<1>5. ASSUME NEW p \in Peer, NEW s \in Slot, Faulty(p, s) PROVE HandInv'
  BY <1>5, FetchFailsHand, GreetHand, LeaveFailsHand, HandlerFailsHand, CommitFailsHand DEF Faulty
<1>6. ASSUME NEW p \in Peer, NEW q \in Peer, AddInvite(p, q) PROVE HandInv'
  BY <1>1, <1>6 DEF AddInvite
<1>7. CASE Next
  BY <1>2, <1>3, <1>4, <1>5, <1>6, <1>7, CrashHand DEF Next
<1>8. CASE UNCHANGED vars
  BY <1>1, <1>8 DEF vars, replica
<1> QED BY <1>7, <1>8

LEMMA HandCovers == HandInv => TipsCovered
<1> SUFFICES ASSUME HandInv, NEW p \in Peer, NEW b \in Tips(p)
             PROVE  b \in {head[p]} \cup InFlight(p) \cup stray[p]
  BY DEF TipsCovered
<1>1. b \in index[p] /\ ~Below(p, b)
  BY DEF Tips, Below, Known
<1>2. \A s \in Slot : Carries(task[p][s]) \subseteq InFlight(p)
  BY DEF Carries, InFlight
<1> QED BY <1>1, <1>2 DEF HandInv, TipsCarried, Covered
-----------------------------------------------------------------------------
(* The theorems *)

THEOREM Inductive == Spec => []IInv
BY InitInv, NextInv, PTL DEF Spec

\* Every variable keeps its type, whatever the interleaving.
THEOREM TypeCorrect == Spec => []TypeOK
<1>1. IInv => TypeOK
  BY DEF IInv
<1> QED BY <1>1, Inductive, PTL

\* No replica silently has a hole: a parent of a block it shows is shown, being
\* followed, or was given up with a failed fetch, a restart, a leave, or a handler that
\* returned an error after it had shown the block (thread.go followParents,
\* thread_files.go handleFilesBlock, thread_ignores.go handleIgnoreBlock).
THEOREM NoSilentHole == Spec => []ParentsAccounted
<1>1. IInv => ParentsAccounted
  BY DEF IInv
<1> QED BY <1>1, Inductive, PTL

\* HEAD never names a block the replica has neither shown nor given up, although
\* fast-forwards and merges interleave (thread.go handleHead, updateHead).
THEOREM HeadKnown == Spec => []HeadAccounted
<1>1. IInv => HeadAccounted
  BY DEF IInv
<1> QED BY <1>1, Inductive, PTL

THEOREM HandInductive == Spec => [](IInv /\ HandInv)
<1>1. Init => IInv /\ HandInv
  BY InitInv, HandInit
<1>2. IInv /\ HandInv /\ [Next]_vars => IInv' /\ HandInv'
  BY NextInv, HandNext
<1> QED BY <1>1, <1>2, PTL DEF Spec

\* Every childless block a loaded replica shows is HEAD, in the hands of a goroutine
\* that will put it at HEAD or below a merge, or lost its place to a race, an error of
\* its handler after indexBlock, a restart or a leave (thread.go handleHead, updateHead).
THEOREM NoForgottenTip == Spec => []TipsCovered
BY HandInductive, HandCovers, PTL

\* The author of a JOIN or ANNOUNCE a replica shows is listed or about to be, or left,
\* or the node stopped between the two writes (thread_joins.go, thread_announces.go), or
\* the block was shown between the two deletions of the replica's own leave
\* (thread_leaves.go cleanup).
THEOREM AuthorsKnown == Spec => []AuthorsListed
<1>1. HandInv => AuthorsListed
  BY DEF HandInv, Listed, AuthorsListed
<1> QED BY <1>1, HandInductive, PTL
-----------------------------------------------------------------------------
(* A replica implements CausalLog: each of its actions shows one block,    *)
(* owes one, writes debts off, forgets the log, writes a block, or is a    *)
(* stutter.  IInv supplies what a goroutine holds at each label.           *)

\* what CausalLog's variables are mapped to
parentsM == [b \in Block |-> Parents(b)]
debtM == [p \in Peer |-> Pending(p) \ index[p]]

LogNext == Log!Next \/ UNCHANGED <<parentsM, Written, index, debtM, lost>>

\* Only the debt of the goroutine that moved can change.
LEMMA PendingOf ==
  ASSUME IInv, NEW p \in Peer, NEW s \in Slot, NEW t, Set(p, s, t)
  PROVE  /\ \A q \in Peer \ {p} : Pending(q)' = Pending(q)
         /\ \E o : /\ Pending(p) = o \cup task[p][s].todo
                   /\ Pending(p)' = o \cup t.todo
<1>1. /\ task'[p][s] = t
      /\ \A r \in Slot \ {s} : task'[p][r] = task[p][r]
      /\ \A q \in Peer \ {p} : task'[q] = task[q]
  BY DEF Set, IInv, TypeOK
<1>2. \A q \in Peer \ {p} : Pending(q)' = Pending(q)
  BY <1>1 DEF Pending
<1> DEFINE o == UNION {task[p][r].todo : r \in Slot \ {s}}
<1>3. Pending(p) = o \cup task[p][s].todo
  BY DEF Pending
<1>4. Pending(p)' = o \cup t.todo
  BY <1>1 DEF Pending
<1> QED BY <1>2, <1>3, <1>4

LEMMA Stutter ==
  ASSUME IInv, NEW p \in Peer, NEW s \in Slot, NEW t, Set(p, s, t),
         UNCHANGED <<content, index, lost>>,
         t.todo \ index[p] = task[p][s].todo \ index[p]
  PROVE  UNCHANGED <<parentsM, Written, index, debtM, lost>>
<1>1. PICK o : Pending(p) = o \cup task[p][s].todo /\ Pending(p)' = o \cup t.todo
  BY PendingOf
<1>2. \A q \in Peer \ {p} : Pending(q)' = Pending(q)
  BY PendingOf
<1>3. \A q \in Peer : Pending(q)' \ index'[q] = Pending(q) \ index[q]
  BY <1>1, <1>2
<1>4. debtM' = debtM
  BY <1>3 DEF debtM
<1>5. parentsM' = parentsM /\ Written' = Written
  BY DEF parentsM, Written, Parents
<1> QED BY <1>4, <1>5

-----------------------------------------------------------------------------
(* Actions that leave the log alone *)

LEMMA ReceiveLog ==
  ASSUME IInv, NEW p \in Peer, NEW s \in Slot, NEW m,
         Receive(p, s, m)
  PROVE  LogNext
<1> DEFINE t == task[p][s]
<1> DEFINE u == [Idle EXCEPT !.pc = Entry(m.block), !.top = m.block, !.cur = m.block]
<1>1. t \in Task /\ TaskOK(p, t)
  BY TaskType
<1>2. Set(p, s, u) /\ UNCHANGED <<content, index, lost>>
  BY DEF Receive, replica, Abort
<1>3. u.todo \ index[p] = t.todo \ index[p]
  BY <1>1 DEF Receive, Idle
<1> QED BY <1>2, <1>3, Stutter DEF LogNext

LEMMA UnpeerLog ==
  ASSUME IInv, NEW p \in Peer, NEW s \in Slot, Unpeer(p, s)
  PROVE  LogNext
<1> DEFINE t == task[p][s]
<1> DEFINE u == [t EXCEPT !.pc = "index"]
<1>1. t \in Task /\ TaskOK(p, t)
  BY TaskType
<1>2. Set(p, s, u) /\ UNCHANGED <<content, index, lost>>
  BY DEF Unpeer, replica, Abort
<1>3. u.todo \ index[p] = t.todo \ index[p]
  BY <1>1 DEF Unpeer, Task
<1> QED BY <1>2, <1>3, Stutter DEF LogNext

LEMMA IndexConflictLog ==
  ASSUME IInv, NEW p \in Peer, NEW s \in Slot, IndexConflict(p, s)
  PROVE  LogNext
<1> DEFINE t == task[p][s]
<1> DEFINE u == IF t.cur \notin t.todo THEN Idle
                 ELSE [t EXCEPT !.pc = "follow", !.cur = None, !.todo = @ \ {t.cur}]
<1>1. t \in Task /\ TaskOK(p, t)
  BY TaskType
<1>2. Set(p, s, u) /\ UNCHANGED <<content, index, lost>>
  BY DEF IndexConflict, replica, Abort
<1>3. u.todo \ index[p] = t.todo \ index[p]
  BY <1>1 DEF IndexConflict, Task, Idle, TaskOK
<1> QED BY <1>2, <1>3, Stutter DEF LogNext

LEMMA AddPeerLog ==
  ASSUME IInv, NEW p \in Peer, NEW s \in Slot, AddPeer(p, s)
  PROVE  LogNext
<1> DEFINE t == task[p][s]
<1> DEFINE u == [t EXCEPT !.pc = "follow", !.cur = None]
<1>1. t \in Task /\ TaskOK(p, t)
  BY TaskType
<1>2. Set(p, s, u) /\ UNCHANGED <<content, index, lost>>
  BY DEF AddPeer, replica, Abort
<1>3. u.todo \ index[p] = t.todo \ index[p]
  BY <1>1 DEF AddPeer, Task
<1> QED BY <1>2, <1>3, Stutter DEF LogNext

LEMMA FollowParentLog ==
  ASSUME IInv, NEW p \in Peer, NEW s \in Slot, NEW b \in Block,
         FollowParent(p, s, b)
  PROVE  LogNext
<1> DEFINE t == task[p][s]
<1> DEFINE u == [t EXCEPT !.pc = Entry(b), !.cur = b]
<1>1. t \in Task /\ TaskOK(p, t)
  BY TaskType
<1>2. Set(p, s, u) /\ UNCHANGED <<content, index, lost>>
  BY DEF FollowParent, replica, Abort
<1>3. u.todo \ index[p] = t.todo \ index[p]
  BY <1>1 DEF FollowParent, Task
<1> QED BY <1>2, <1>3, Stutter DEF LogNext

LEMMA ParentExistsLog ==
  ASSUME IInv, NEW p \in Peer, NEW s \in Slot, NEW b \in Block,
         ParentExists(p, s, b)
  PROVE  LogNext
<1> DEFINE t == task[p][s]
<1> DEFINE u == [t EXCEPT !.todo = @ \ {b}]
<1>1. t \in Task /\ TaskOK(p, t)
  BY TaskType
<1>2. Set(p, s, u) /\ UNCHANGED <<content, index, lost>>
  BY DEF ParentExists, replica, Abort
<1>3. u.todo \ index[p] = t.todo \ index[p]
  BY <1>1 DEF ParentExists, Task
<1> QED BY <1>2, <1>3, Stutter DEF LogNext

LEMMA FollowDoneLog ==
  ASSUME IInv, NEW p \in Peer, NEW s \in Slot, FollowDone(p, s)
  PROVE  LogNext
<1> DEFINE t == task[p][s]
<1> DEFINE u == [t EXCEPT !.pc = IF t.kind = "invite" THEN "accepthead" ELSE "head"]
<1>1. t \in Task /\ TaskOK(p, t)
  BY TaskType
<1>2. Set(p, s, u) /\ UNCHANGED <<content, index, lost>>
  BY DEF FollowDone, replica, Abort
<1>3. u.todo \ index[p] = t.todo \ index[p]
  BY <1>1 DEF FollowDone, Task
<1> QED BY <1>2, <1>3, Stutter DEF LogNext

LEMMA ReloadFailsLog ==
  ASSUME IInv, NEW p \in Peer, NEW s \in Slot, ReloadFails(p, s)
  PROVE  LogNext
<1> DEFINE t == task[p][s]
<1> DEFINE u == Idle
<1>1. t \in Task /\ TaskOK(p, t)
  BY TaskType
<1>2. Set(p, s, u) /\ UNCHANGED <<content, index, lost>>
  BY DEF ReloadFails, replica, Abort
<1>3. u.todo \ index[p] = t.todo \ index[p]
  BY <1>1 DEF ReloadFails, Idle, TaskOK, Walking
<1> QED BY <1>2, <1>3, Stutter DEF LogNext

LEMMA ReadHeadLog ==
  ASSUME IInv, NEW p \in Peer, NEW s \in Slot, ReadHead(p, s)
  PROVE  LogNext
<1> DEFINE t == task[p][s]
<1> DEFINE u == [t EXCEPT !.pc = IF FastForwardable(p, t.top) THEN "ff" ELSE "merge",
                            !.base = head[p]]
<1>1. t \in Task /\ TaskOK(p, t)
  BY TaskType
<1>2. Set(p, s, u) /\ UNCHANGED <<content, index, lost>>
  BY DEF ReadHead, replica, Abort
<1>3. u.todo \ index[p] = t.todo \ index[p]
  BY <1>1 DEF ReadHead, Task
<1> QED BY <1>2, <1>3, Stutter DEF LogNext

LEMMA FastForwardLog ==
  ASSUME IInv, NEW p \in Peer, NEW s \in Slot, FastForward(p, s)
  PROVE  LogNext
<1> DEFINE t == task[p][s]
<1> DEFINE u == [Idle EXCEPT !.pc = "welcome"]
<1>1. t \in Task /\ TaskOK(p, t)
  BY TaskType
<1>2. Set(p, s, u) /\ UNCHANGED <<content, index, lost>>
  BY DEF FastForward, replica, Abort
<1>3. u.todo \ index[p] = t.todo \ index[p]
  BY <1>1 DEF FastForward, Idle, TaskOK, Walking
<1> QED BY <1>2, <1>3, Stutter DEF LogNext

LEMMA MergeFailsLog ==
  ASSUME IInv, NEW p \in Peer, NEW s \in Slot, MergeFails(p, s)
  PROVE  LogNext
<1> DEFINE t == task[p][s]
<1> DEFINE u == Idle
<1>1. t \in Task /\ TaskOK(p, t)
  BY TaskType
<1>2. Set(p, s, u) /\ UNCHANGED <<content, index, lost>>
  BY DEF MergeFails, replica, Abort
<1>3. u.todo \ index[p] = t.todo \ index[p]
  BY <1>1 DEF MergeFails, Idle, TaskOK, Walking
<1> QED BY <1>2, <1>3, Stutter DEF LogNext

LEMMA WelcomeLog ==
  ASSUME IInv, NEW p \in Peer, NEW s \in Slot, Welcome(p, s)
  PROVE  LogNext
<1> DEFINE t == task[p][s]
<1> DEFINE u == IF unwelcomed[p] = {} \/ head[p] = None THEN Idle
                 ELSE [Idle EXCEPT !.pc = "greet", !.list = unwelcomed[p], !.base = head[p]]
<1>1. t \in Task /\ TaskOK(p, t)
  BY TaskType
<1>2. Set(p, s, u) /\ UNCHANGED <<content, index, lost>>
  BY DEF Welcome, replica, Abort
<1>3. u.todo \ index[p] = t.todo \ index[p]
  BY <1>1 DEF Welcome, Idle, TaskOK, Walking
<1> QED BY <1>2, <1>3, Stutter DEF LogNext

LEMMA GreetLog ==
  ASSUME IInv, NEW p \in Peer, NEW s \in Slot, Greet(p, s)
  PROVE  LogNext
<1> DEFINE t == task[p][s]
<1> DEFINE u == Idle
<1>1. t \in Task /\ TaskOK(p, t)
  BY TaskType
<1>2. Set(p, s, u) /\ UNCHANGED <<content, index, lost>>
  BY DEF Greet, replica, Abort
<1>3. u.todo \ index[p] = t.todo \ index[p]
  BY <1>1 DEF Greet, Idle, TaskOK, Walking
<1> QED BY <1>2, <1>3, Stutter DEF LogNext

LEMMA GreetFailsLog ==
  ASSUME IInv, NEW p \in Peer, NEW s \in Slot, GreetFails(p, s)
  PROVE  LogNext
<1> DEFINE t == task[p][s]
<1> DEFINE u == Idle
<1>1. t \in Task /\ TaskOK(p, t)
  BY TaskType
<1>2. Set(p, s, u) /\ UNCHANGED <<content, index, lost>>
  BY DEF GreetFails, replica, Abort
<1>3. u.todo \ index[p] = t.todo \ index[p]
  BY <1>1 DEF GreetFails, Idle, TaskOK, Walking
<1> QED BY <1>2, <1>3, Stutter DEF LogNext

LEMMA CommitFailsLog ==
  ASSUME IInv, NEW p \in Peer, NEW s \in Slot, CommitFails(p, s)
  PROVE  LogNext
<1> DEFINE t == task[p][s]
<1> DEFINE u == Idle
<1>1. t \in Task /\ TaskOK(p, t)
  BY TaskType
<1>2. Set(p, s, u) /\ UNCHANGED <<content, index, lost>>
  BY DEF CommitFails, replica, Abort
<1>3. u.todo \ index[p] = t.todo \ index[p]
  BY <1>1 DEF CommitFails, Idle, TaskOK, Walking
<1> QED BY <1>2, <1>3, Stutter DEF LogNext

LEMMA LeaveFailsLog ==
  ASSUME IInv, NEW p \in Peer, NEW s \in Slot, LeaveFails(p, s)
  PROVE  LogNext
<1> DEFINE t == task[p][s]
<1> DEFINE u == Idle
<1>1. t \in Task /\ TaskOK(p, t)
  BY TaskType
<1>2. Set(p, s, u) /\ UNCHANGED <<content, index, lost>>
  BY DEF LeaveFails, replica, Abort
<1>3. u.todo \ index[p] = t.todo \ index[p]
  BY <1>1 DEF LeaveFails, Idle, TaskOK, Walking
<1> QED BY <1>2, <1>3, Stutter DEF LogNext

LEMMA CleanupPeersLog ==
  ASSUME IInv, NEW p \in Peer, NEW s \in Slot, CleanupPeers(p, s)
  PROVE  LogNext
<1> DEFINE t == task[p][s]
<1> DEFINE u == [Idle EXCEPT !.pc = "remove"]
<1>1. t \in Task /\ TaskOK(p, t)
  BY TaskType
<1>2. Set(p, s, u) /\ UNCHANGED <<content, index, lost>>
  BY DEF CleanupPeers, replica, Abort
<1>3. u.todo \ index[p] = t.todo \ index[p]
  BY <1>1 DEF CleanupPeers, Idle, TaskOK, Walking
<1> QED BY <1>2, <1>3, Stutter DEF LogNext


LEMMA AcceptHeadLog ==
  ASSUME IInv, NEW p \in Peer, NEW s \in Slot, AcceptHead(p, s)
  PROVE  LogNext
<1> DEFINE t == task[p][s]
<1> DEFINE u == [Idle EXCEPT !.pc = "acceptmark", !.kind = "join"]
<1>1. t \in Task /\ TaskOK(p, t)
  BY TaskType
<1>2. Set(p, s, u) /\ UNCHANGED <<content, index, lost>>
  BY DEF AcceptHead, replica, Abort
<1>3. u.todo \ index[p] = t.todo \ index[p]
  BY <1>1 DEF AcceptHead, Idle, TaskOK, Walking
<1> QED BY <1>2, <1>3, Stutter DEF LogNext

LEMMA AcceptMarkLog ==
  ASSUME IInv, NEW p \in Peer, NEW s \in Slot, AcceptMark(p, s)
  PROVE  LogNext
<1> DEFINE t == task[p][s]
<1> DEFINE u == [t EXCEPT !.pc = "commit"]
<1>1. t \in Task /\ TaskOK(p, t)
  BY TaskType
<1>2. Set(p, s, u) /\ UNCHANGED <<content, index, lost>>
  BY DEF AcceptMark, replica, Abort
<1>3. u.todo \ index[p] = t.todo \ index[p]
  BY <1>1 DEF AcceptMark, Task
<1> QED BY <1>2, <1>3, Stutter DEF LogNext

LEMMA CommitConflictLog ==
  ASSUME IInv, NEW p \in Peer, NEW s \in Slot, CommitConflict(p, s)
  PROVE  LogNext
<1> DEFINE t == task[p][s]
<1> DEFINE u == Idle
<1>1. t \in Task /\ TaskOK(p, t)
  BY TaskType
<1>2. Set(p, s, u) /\ UNCHANGED <<content, index, lost>>
  BY DEF CommitConflict, replica, Abort
<1>3. u.todo \ index[p] = t.todo \ index[p]
  BY <1>1 DEF CommitConflict, Idle, TaskOK, Walking
<1> QED BY <1>2, <1>3, Stutter DEF LogNext

LEMMA CommitHeadLog ==
  ASSUME IInv, NEW p \in Peer, NEW s \in Slot, CommitHead(p, s)
  PROVE  LogNext
<1> DEFINE t == task[p][s]
<1> DEFINE u == IF t.kind = "merge" THEN [Idle EXCEPT !.pc = "welcome"]
                ELSE [t EXCEPT !.pc = "post"]
<1>1. t \in Task /\ TaskOK(p, t)
  BY TaskType
<1>2. Set(p, s, u) /\ UNCHANGED <<content, index, lost>>
  BY DEF CommitHead, replica, Abort
<1>3. u.todo \ index[p] = t.todo \ index[p]
  BY <1>1 DEF CommitHead, Idle, TaskOK, Walking, Task
<1> QED BY <1>2, <1>3, Stutter DEF LogNext

LEMMA PostBlockLog ==
  ASSUME IInv, NEW p \in Peer, NEW s \in Slot, PostBlock(p, s)
  PROVE  LogNext
<1> DEFINE t == task[p][s]
<1> DEFINE u == IF t.kind = "leave" THEN [t EXCEPT !.pc = "cleanup"] ELSE Idle
<1>1. t \in Task /\ TaskOK(p, t)
  BY TaskType
<1>2. Set(p, s, u) /\ UNCHANGED <<content, index, lost>>
  BY DEF PostBlock, replica, Abort
<1>3. u.todo \ index[p] = t.todo \ index[p]
  BY <1>1 DEF PostBlock, Idle, TaskOK, Walking, Task
<1> QED BY <1>2, <1>3, Stutter DEF LogNext

LEMMA RemoveThreadLog ==
  ASSUME IInv, NEW p \in Peer, NEW s \in Slot, RemoveThread(p, s)
  PROVE  LogNext
<1> DEFINE t == task[p][s]
<1> DEFINE u == Idle
<1>1. t \in Task /\ TaskOK(p, t)
  BY TaskType
<1>2. Set(p, s, u) /\ UNCHANGED <<content, index, lost>>
  BY DEF RemoveThread, replica, Abort
<1>3. u.todo \ index[p] = t.todo \ index[p]
  BY <1>1 DEF RemoveThread, Idle, TaskOK, Walking
<1> QED BY <1>2, <1>3, Stutter DEF LogNext

-----------------------------------------------------------------------------
(* Actions that change the log *)

\* indexBlock shows a block and owes its parents, those it wrote off excepted.
LEMMA ShowStep ==
  ASSUME IInv, NEW p \in Peer, NEW s \in Slot, NEW t, NEW b \in Written,
         NEW owed \in SUBSET Parents(b), Set(p, s, t), content' = content,
         index' = [index EXCEPT ![p] = @ \cup {b}],
         lost' = [lost EXCEPT ![p] = @ \cup (Parents(b) \ owed)],
         t.todo \ index'[p] = (task[p][s].todo \cup owed) \ index'[p]
  PROVE  LogNext
<1>1. PICK o : Pending(p) = o \cup task[p][s].todo /\ Pending(p)' = o \cup t.todo
  BY PendingOf
<1>2. \A q \in Peer \ {p} : Pending(q)' = Pending(q)
  BY PendingOf
<1>3. b \in Block /\ index'[p] = index[p] \cup {b} /\ \A q \in Peer \ {p} : index'[q] = index[q]
  BY DEF Written, IInv, TypeOK
<1>4. parentsM' = parentsM /\ Written' = Written /\ parentsM[b] = Parents(b)
  BY <1>3 DEF parentsM, Written, Parents
<1>5. debtM'[p] = (debtM[p] \cup owed) \ index'[p]
  BY <1>1, <1>3 DEF debtM
<1>6. \A q \in Peer \ {p} : debtM'[q] = debtM[q]
  BY <1>2, <1>3 DEF debtM
<1>7. debtM' = [debtM EXCEPT ![p] = (@ \cup owed) \ index'[p]]
  BY <1>5, <1>6 DEF debtM
<1>8. Log!Show(p, b)
  <2>1. /\ b \in Written /\ parentsM' = parentsM /\ Written' = Written
        /\ owed \in SUBSET parentsM[b]
        /\ lost' = [lost EXCEPT ![p] = @ \cup (parentsM[b] \ owed)]
    BY <1>4
  <2> QED BY <1>7, <2>1 DEF Log!Show, parentsM, debtM, Written
<1> QED BY <1>3, <1>8 DEF LogNext, Log!Next

LEMMA IndexInboundLog ==
  ASSUME IInv, NEW p \in Peer, NEW s \in Slot, IndexInbound(p, s)
  PROVE  LogNext
<1> DEFINE t == task[p][s]
<1> DEFINE u == [t EXCEPT !.pc = IF CollectsAuthor(t.cur) THEN "peer" ELSE "follow",
                          !.cur = IF CollectsAuthor(t.cur) THEN @ ELSE None,
                          !.todo = (@ \ {t.cur}) \cup ParentsToFollow(t.cur)]
<1>1. t \in Task /\ TaskOK(p, t)
  BY TaskType
<1>2. t.cur \in Written
  BY <1>1, ThreadConstants DEF IndexInbound, TaskOK
<1>3. /\ Set(p, s, u) /\ index' = [index EXCEPT ![p] = @ \cup {t.cur}]
      /\ UNCHANGED <<content, lost>>
  BY DEF IndexInbound
<1>4. u.todo = (t.todo \ {t.cur}) \cup Parents(t.cur) /\ index'[p] = index[p] \cup {t.cur}
  BY <1>1, <1>3 DEF Task, ParentsToFollow, IInv, TypeOK
<1>5. lost' = [lost EXCEPT ![p] = @ \cup (Parents(t.cur) \ Parents(t.cur))]
  BY <1>3 DEF IInv, TypeOK
<1> HIDE DEF u
<1>6. u.todo \ index'[p] = (t.todo \cup Parents(t.cur)) \ index'[p]
  BY <1>4
<1> QED BY <1>2, <1>3, <1>5, <1>6, ShowStep

LEMMA HandlerFailsLog ==
  ASSUME IInv, NEW p \in Peer, NEW s \in Slot, HandlerFails(p, s)
  PROVE  LogNext
<1> DEFINE t == task[p][s]
<1> DEFINE u == IF t.cur \notin t.todo THEN Idle
                ELSE [t EXCEPT !.pc = "follow", !.cur = None, !.todo = @ \ {t.cur}]
<1>1. t \in Task /\ TaskOK(p, t) /\ t.pc = "index"
  BY TaskType DEF HandlerFails
<1>2. t.cur \in Written /\ (t.cur \notin t.todo => t.todo = {})
  <2> HIDE DEF t
  <2> QED BY <1>1, ThreadConstants DEF TaskOK
<1>3. /\ Set(p, s, u) /\ index' = [index EXCEPT ![p] = @ \cup {t.cur}]
      /\ lost' = [lost EXCEPT ![p] = @ \cup (Parents(t.cur) \ {})] /\ content' = content
  BY DEF HandlerFails
<1>4. u.todo = t.todo \ {t.cur} /\ index'[p] = index[p] \cup {t.cur}
  BY <1>1, <1>2, <1>3 DEF Task, Idle, IInv, TypeOK
<1>5. {} \in SUBSET Parents(t.cur)
  OBVIOUS
<1> HIDE DEF u
<1>6. u.todo \ index'[p] = (t.todo \cup {}) \ index'[p]
  BY <1>4
<1> QED BY <1>2, <1>3, <1>5, <1>6, ShowStep

LEMMA CommitIndexLog ==
  ASSUME IInv, NEW p \in Peer, NEW s \in Slot, CommitIndex(p, s)
  PROVE  LogNext
<1> DEFINE t == task[p][s]
<1> DEFINE u == [t EXCEPT !.pc = "commithead"]
<1> DEFINE owed == Parents(t.cur) \ lost[p]
<1>1. t \in Task /\ TaskOK(p, t) /\ t.pc = "commitindex"
  BY TaskType DEF CommitIndex
<1>2. t.cur \in Written /\ t.todo = {} /\ Parents(t.cur) \subseteq index[p] \cup lost[p]
  <2> HIDE DEF t
  <2> QED BY <1>1, ThreadConstants DEF TaskOK, Walking, Known
<1>3. /\ Set(p, s, u) /\ index' = [index EXCEPT ![p] = @ \cup {t.cur}]
      /\ UNCHANGED <<content, lost>>
  BY DEF CommitIndex
<1>4. u.todo = {} /\ index'[p] = index[p] \cup {t.cur}
  BY <1>1, <1>2, <1>3 DEF Task, IInv, TypeOK
<1>5. /\ owed \in SUBSET Parents(t.cur)
      /\ lost' = [lost EXCEPT ![p] = @ \cup (Parents(t.cur) \ owed)]
  BY <1>3 DEF IInv, TypeOK
<1> HIDE DEF u
<1>6. u.todo \ index'[p] = (t.todo \cup owed) \ index'[p]
  BY <1>2, <1>4
<1> HIDE DEF owed
<1> QED BY <1>2, <1>3, <1>5, <1>6, ShowStep

\* Accepting an invite owes the block it names, if it names one.
LEMMA AcceptLog ==
  ASSUME IInv, NEW p \in Peer, NEW s \in Slot, NEW m, Accept(p, s, m)
  PROVE  LogNext
<1> DEFINE u == [Idle EXCEPT !.pc = "follow", !.kind = "invite", !.top = m.block,
                             !.todo = {m.block} \ {None}]
<1>1. m.block \in Written \cup {None}
  BY DEF Accept, IInv, NetOK
<1>2. Set(p, s, u) /\ UNCHANGED <<content, index, lost>> /\ task[p][s].todo = {}
  BY DEF Accept, replica, Idle
<1>3. u.todo = {m.block} \ {None}
  BY DEF Idle
<1> HIDE DEF u
<1>4. CASE m.block = None
  BY <1>2, <1>3, <1>4, Stutter DEF LogNext
<1>5. CASE m.block # None
  <2> DEFINE b == m.block
  <2>1. PICK o : Pending(p) = o /\ Pending(p)' = o \cup {b}
    BY <1>2, <1>3, <1>5, PendingOf
  <2>2. \A q \in Peer \ {p} : Pending(q)' = Pending(q)
    BY <1>2, PendingOf
  <2>3. b \in Written /\ b \in Block
    BY <1>1, <1>5 DEF Written
  <2> HIDE DEF b
  <2>4. debtM' = [debtM EXCEPT ![p] = @ \cup ({b} \ index[p])]
    BY <1>2, <2>1, <2>2 DEF debtM
  <2>5. Written' = Written /\ parentsM' = parentsM
    BY <1>2 DEF Written, parentsM, Parents
  <2>6. Log!Owe(p, b)
    BY <1>2, <2>3, <2>4, <2>5 DEF Log!Owe, parentsM, debtM, Written
  <2> QED BY <2>3, <2>6 DEF LogNext, Log!Next
<1> QED BY <1>4, <1>5

\* Local writers and merge() write a block on top of blocks that exist; a merge
\* that another peer wrote first is there already.
LEMMA WriteLogStep ==
  ASSUME IInv, NEW p \in Peer, NEW s \in Slot, NEW t, NEW i \in Block, NEW c \in Content,
         content' = [content EXCEPT ![i] = c],
         content[i] = c \/ content[i].kind = "none",
         c.kind # "none", c.parents \subseteq Written,
         Set(p, s, t), UNCHANGED <<index, lost>>, t.todo = task[p][s].todo
  PROVE  LogNext
<1>1. CASE content[i] = c
  <2>1. content' = content
    BY <1>1 DEF IInv, TypeOK
  <2> QED BY <2>1, Stutter DEF LogNext
<1>2. CASE content[i].kind = "none"
  <2>1. PICK o : Pending(p) = o \cup task[p][s].todo /\ Pending(p)' = o \cup t.todo
    BY PendingOf
  <2>2. \A q \in Peer : Pending(q)' = Pending(q)
    BY <2>1, PendingOf
  <2>3. debtM' = debtM
    BY <2>2 DEF debtM
  <2>4. i \notin Written /\ Written' = Written \cup {i}
    BY <1>2 DEF Written, IInv, TypeOK
  <2>5. parentsM' = [parentsM EXCEPT ![i] = c.parents]
    BY DEF parentsM, Parents, IInv, TypeOK
  <2>6. Log!Write(i, c.parents)
    BY <2>3, <2>4, <2>5 DEF Log!Write, parentsM, debtM, Written
  <2>7. c.parents \in SUBSET Block
    BY DEF Content
  <2> QED BY <2>6, <2>7 DEF LogNext, Log!Next
<1> QED BY <1>1, <1>2

LEMMA CommitBlockLog ==
  ASSUME IInv, NEW p \in Peer, NEW s \in Slot, NEW k \in UpdateKind \cup {"join"},
         CommitBlock(p, s, k), task[p][s].todo = {}
  PROVE  LogNext
<1> DEFINE c == [kind |-> k, author |-> p, address |-> AddressOf[p], parents |-> HeadParents(p)]
<1> DEFINE u == [Idle EXCEPT !.pc = "commitindex", !.kind = k, !.cur = Fresh, !.base = head[p]]
<1>1. Fresh \in Block /\ content[Fresh].kind = "none"
  BY FreshType DEF CommitBlock, IInv
<1>2. HeadParents(p) \subseteq Written
  BY DEF HeadParents, IInv, ReplicaOK
<1>3. c \in Content /\ c.kind # "none" /\ c.parents \subseteq Written
  BY <1>2, ThreadConstants DEF Content, Kind, UpdateKind, Written
<1>4. u.todo = {}
  BY DEF Idle
<1>5. content' = [content EXCEPT ![Fresh] = c] /\ Set(p, s, u) /\ UNCHANGED <<index, lost>>
  BY DEF CommitBlock, replica
<1> HIDE DEF c, u
<1> QED BY <1>1, <1>3, <1>4, <1>5, WriteLogStep

LEMMA MergeLog ==
  ASSUME IInv, NEW p \in Peer, NEW s \in Slot, Merge(p, s)
  PROVE  LogNext
<1> DEFINE t == task[p][s]
<1> DEFINE c == [kind |-> "merge", author |-> None, address |-> AddressOf[p],
                 parents |-> {head[p], t.top}]
<1> DEFINE u == [t EXCEPT !.pc = "commitindex", !.kind = "merge", !.cur = IdOf(c), !.base = head[p]]
<1>1. t \in Task
  BY TaskType
<1>2. c.parents \subseteq index[p]
  BY DEF Merge
<1>3. c.parents \subseteq Written /\ c.parents \subseteq Block
  BY <1>2 DEF IInv, ReplicaOK, TypeOK
<1>4. c \in Content /\ c.kind # "none"
  BY <1>3, ThreadConstants DEF Content, Kind
<1>5. IdOf(c) \in Block /\ (content[IdOf(c)] = c \/ content[IdOf(c)].kind = "none")
  BY <1>4, IdOfType DEF Merge, IInv
<1>6. u.todo = t.todo
  BY <1>1 DEF Task
<1>7. content' = [content EXCEPT ![IdOf(c)] = c] /\ Set(p, s, u) /\ UNCHANGED <<index, lost>>
  BY DEF Merge, replica
<1> HIDE DEF c, u
<1> QED BY <1>3, <1>4, <1>5, <1>6, <1>7, WriteLogStep DEF t

LEMMA FetchFailsLog ==
  ASSUME IInv, NEW p \in Peer, NEW s \in Slot, NEW b \in Block, FetchFails(p, s, b)
  PROVE  LogNext
<1> DEFINE t == task[p][s]
<1> DEFINE u == [t EXCEPT !.todo = @ \ {b}]
<1>1. t \in Task /\ TaskOK(p, t) /\ b \in t.todo
  BY TaskType DEF FetchFails
<1>2. Set(p, s, u) /\ lost' = [lost EXCEPT ![p] = @ \cup {b}] /\ UNCHANGED <<content, index>>
  BY DEF FetchFails, replica
<1>3. u.todo = t.todo \ {b} /\ b \in Written
  BY <1>1 DEF Task, TaskOK
<1> HIDE DEF u
<1>4. PICK o : Pending(p) = o \cup t.todo /\ Pending(p)' = o \cup (t.todo \ {b})
  BY <1>2, <1>3, PendingOf
<1>5. \A q \in Peer \ {p} : Pending(q)' = Pending(q)
  BY <1>2, PendingOf
<1> HIDE DEF t
<1>6. \E d \in SUBSET {b} : debtM' = [debtM EXCEPT ![p] = @ \ d]
  <2> DEFINE d == {b} \ o
  <2>1. Pending(p)' \ index[p] = (Pending(p) \ index[p]) \ d
    BY <1>1, <1>4
  <2> HIDE DEF d
  <2>2. debtM' = [debtM EXCEPT ![p] = @ \ d]
    BY <1>2, <1>5, <2>1 DEF debtM
  <2> QED BY <2>2 DEF d
<1>7. Written' = Written /\ parentsM' = parentsM
  BY <1>2 DEF Written, parentsM, Parents
<1>8. Log!WriteOff(p, {b})
  BY <1>2, <1>3, <1>6, <1>7 DEF Log!WriteOff, parentsM, debtM, Written
<1> QED BY <1>8 DEF LogNext, Log!Next

LEMMA CleanupLog ==
  ASSUME IInv, NEW p \in Peer, NEW s \in Slot, Cleanup(p, s)
  PROVE  LogNext
<1> DEFINE u == [task[p][s] EXCEPT !.pc = "cleanuppeers"]
<1>1. task[p][s].todo = {}
  BY TaskType DEF Cleanup, TaskOK, Walking
<1>2. /\ Set(p, s, u) /\ index' = [index EXCEPT ![p] = {}]
      /\ lost' = [lost EXCEPT ![p] = @ \cup index[p]] /\ UNCHANGED content
  BY DEF Cleanup
<1>3. u.todo = {}
  BY <1>1, TaskType DEF Task
<1> HIDE DEF u
<1>4. \A q \in Peer : Pending(q)' = Pending(q)
  <2>1. PICK o : Pending(p) = o \cup task[p][s].todo /\ Pending(p)' = o \cup u.todo
    BY <1>2, PendingOf
  <2> QED BY <1>1, <1>2, <1>3, <2>1, PendingOf
<1>5. \E d \in SUBSET index[p] : debtM' = [debtM EXCEPT ![p] = @ \cup d]
  <2> DEFINE d == Pending(p) \cap index[p]
  <2>1. debtM' = [debtM EXCEPT ![p] = @ \cup d]
    BY <1>2, <1>4 DEF debtM, IInv, TypeOK
  <2> QED BY <2>1
<1>6. Written' = Written /\ parentsM' = parentsM
  BY <1>2 DEF Written, parentsM, Parents
<1>7. Log!Forget(p)
  BY <1>2, <1>5, <1>6 DEF Log!Forget, parentsM, debtM, Written
<1> QED BY <1>7 DEF LogNext, Log!Next

LEMMA CrashLog ==
  ASSUME IInv, NEW p \in Peer, Crash(p)
  PROVE  LogNext
<1>1. /\ lost' = [lost EXCEPT ![p] = @ \cup Pending(p)]
      /\ task' = [task EXCEPT ![p] = [s \in Slot |-> Idle]]
      /\ UNCHANGED <<content, index>>
  BY DEF Crash, replica, Pending
<1>2. Pending(p)' = {} /\ \A q \in Peer \ {p} : Pending(q)' = Pending(q)
  BY <1>1 DEF Pending, Idle, IInv, TypeOK
<1>3. Pending(p) \subseteq Written /\ Pending(p) \in SUBSET Block
  <2>1. \A s \in Slot : task[p][s].todo \subseteq Written
    BY DEF IInv, TasksOK, TaskOK
  <2> QED BY <2>1 DEF Pending, Written
<1>4. debtM' = [debtM EXCEPT ![p] = @ \ Pending(p)]
  BY <1>1, <1>2 DEF debtM
<1>5. Written' = Written /\ parentsM' = parentsM
  BY <1>1 DEF Written, parentsM, Parents
<1>6. PICK bs \in SUBSET Block : bs = Pending(p)
  BY <1>3
<1>7. \E d \in SUBSET bs : debtM' = [debtM EXCEPT ![p] = @ \ d]
  BY <1>4, <1>6
<1>8. Log!WriteOff(p, bs)
  BY <1>1, <1>3, <1>5, <1>6, <1>7 DEF Log!WriteOff, parentsM, debtM, Written
<1> QED BY <1>8 DEF LogNext, Log!Next
-----------------------------------------------------------------------------
LEMMA NextLog == IInv /\ [Next]_vars => [Log!Next]_(<<parentsM, Written, index, debtM, lost>>)
<1> SUFFICES ASSUME IInv, [Next]_vars PROVE LogNext
  BY DEF LogNext
<1>1. CASE UNCHANGED vars
  BY <1>1 DEF vars, LogNext, parentsM, Written, debtM, Pending, Parents
<1>2. ASSUME NEW p \in Peer, NEW s \in Slot, Inbound(p, s) PROVE LogNext
  BY <1>2, ReceiveLog, UnpeerLog, IndexInboundLog, IndexConflictLog, AddPeerLog,
     FollowParentLog, ParentExistsLog, FollowDoneLog, ReloadFailsLog, ReadHeadLog,
     FastForwardLog, MergeLog, MergeFailsLog, WelcomeLog, GreetLog DEF Inbound
<1>3. ASSUME NEW p \in Peer, NEW s \in Slot, Local(p, s) PROVE LogNext
  <2>1. ASSUME Join(p, s) PROVE LogNext
    <3>1. task[p][s].todo = {}
      BY <2>1, TaskType DEF Join, TaskOK, Walking
    <3> QED BY <2>1, <3>1, CommitBlockLog DEF Join
  <2> QED BY <1>3, <2>1, AcceptHeadLog, AcceptMarkLog, CommitIndexLog, CommitConflictLog,
             CommitHeadLog, PostBlockLog, CleanupLog, CleanupPeersLog, RemoveThreadLog DEF Local
<1>4. ASSUME NEW p \in Peer, NEW s \in Slot, User(p, s) PROVE LogNext
  <2>1. ASSUME NEW k \in LocalKind, AddUpdate(p, s, k) PROVE LogNext
    BY <2>1, ThreadConstants, CommitBlockLog DEF AddUpdate, Idle
  <2> QED BY <1>4, <2>1, AcceptLog DEF User
<1>5. ASSUME NEW p \in Peer, NEW s \in Slot, Faulty(p, s) PROVE LogNext
  BY <1>5, FetchFailsLog, GreetFailsLog, HandlerFailsLog, CommitFailsLog, LeaveFailsLog DEF Faulty
<1>6. ASSUME NEW p \in Peer, NEW q \in Peer, AddInvite(p, q) PROVE LogNext
  BY <1>6 DEF AddInvite, replica, LogNext, parentsM, Written, debtM, Pending, Parents
<1>7. CASE Next
  BY <1>2, <1>3, <1>4, <1>5, <1>6, <1>7, CrashLog DEF Next
<1> QED BY <1>1, <1>7

LEMMA InitLog == Init => Log!Init
<1> SUFFICES ASSUME Init PROVE Log!Init
  OBVIOUS
<1>1. IInv
  BY InitInv
<1>2. \A b \in Block : Parents(b) = {}
  BY DEF Init, Parents, Unwritten
<1>3. parentsM \in [Block -> SUBSET Block] /\ \A b \in Block : parentsM[b] = {}
  BY <1>2 DEF parentsM
<1>4. index \in [Peer -> SUBSET Written]
  BY <1>1 DEF IInv, TypeOK, ReplicaOK
<1>5. \A p \in Peer : Pending(p) = {}
  BY DEF Init, Pending, Idle
<1>6. debtM = [p \in Peer |-> {}]
  BY <1>5 DEF debtM
<1>7. Written \subseteq Block /\ lost = [p \in Peer |-> {}]
  BY DEF Written, Init
<1>8. \A p \in Peer, b \in Block : b \in index[p] => parentsM[b] \subseteq index[p]
  BY <1>3
<1> HIDE DEF parentsM, debtM
<1> QED BY <1>3, <1>4, <1>6, <1>7, <1>8 DEF Log!Init, parentsM, debtM, Written

\* Each replica is a causal log: whatever goroutines, restarts, failed fetches, failed
\* handlers and leaves do, a step shows one block with its parents owed, or writes a debt off.
THEOREM ImplementsCausalLog == Spec => LogSpec
<1>1. Init => Log!Init
  BY InitLog
<1>2. IInv /\ [Next]_vars => [Log!Next]_Log!logvars
  BY NextLog DEF Log!logvars, parentsM, debtM, Written
<1> QED BY <1>1, <1>2, Inductive, PTL DEF Spec, LogSpec, Log!LogSpec
=============================================================================

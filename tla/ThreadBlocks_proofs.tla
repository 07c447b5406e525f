------------------------- MODULE ThreadBlocks_proofs -------------------------
(***************************************************************************)
(* What the blocks of a thread promise.  The log: whatever is shown has    *)
(* its parents shown, owed or given up, the promise every replica keeps    *)
(* (ThreadReplica_proofs).  The files: what a post shows is kept, what was *)
(* ignored is let go.  For any number of peers, blocks, files, goroutines, *)
(* failures and restarts.                                                  *)
(***************************************************************************)
EXTENDS CausalLog, ThreadFiles, TLAPS

(* The abstract log *)

LogType ==
  /\ parents \in [Block -> SUBSET Block]
  /\ written \subseteq Block
  /\ log \in [Peer -> SUBSET written]
  /\ debt \in [Peer -> SUBSET Block]
  /\ dropped \in [Peer -> SUBSET Block]

\* Only written blocks are shown, so a shown block's parents never change.
LogInv == LogType /\ Closed

LEMMA InitClosed == Init => LogInv
BY DEF Init, LogInv, LogType, Closed

LEMMA NextClosed == LogInv /\ [Next]_logvars => LogInv'
<1> SUFFICES ASSUME LogInv, [Next]_logvars PROVE LogInv'
  OBVIOUS
<1> USE DEF LogInv
<1>1. ASSUME NEW b \in Block, NEW ps \in SUBSET Block, Write(b, ps) PROVE LogInv'
  <2>1. LogType'
    BY <1>1 DEF Write, LogType
  <2>2. \A p \in Peer : \A c \in log[p] : parents'[c] = parents[c]
    BY <1>1 DEF Write, LogType
  <2> QED BY <1>1, <2>1, <2>2 DEF Write, Closed
<1>2. ASSUME NEW p \in Peer, NEW b \in Block, Show(p, b) PROVE LogInv'
  <2>1. PICK owed \in SUBSET parents[b] :
          /\ debt' = [debt EXCEPT ![p] = (@ \cup owed) \ log'[p]]
          /\ dropped' = [dropped EXCEPT ![p] = @ \cup (parents[b] \ owed)]
    BY <1>2 DEF Show
  <2>2. log' \in [Peer -> SUBSET written]
    BY <1>2 DEF Show, LogType
  <2>3. parents[b] \subseteq Block
    BY DEF LogType
  <2>4. debt' \in [Peer -> SUBSET Block] /\ dropped' \in [Peer -> SUBSET Block]
    BY <2>1, <2>3 DEF LogType
  <2>5. LogType'
    BY <1>2, <2>2, <2>4 DEF Show, LogType
  <2>6. /\ log'[p] = log[p] \cup {b}
        /\ debt'[p] = (debt[p] \cup owed) \ log'[p]
        /\ dropped'[p] = dropped[p] \cup (parents[b] \ owed)
        /\ \A q \in Peer \ {p} : /\ log'[q] = log[q] /\ debt'[q] = debt[q]
                                /\ dropped'[q] = dropped[q]
        /\ parents' = parents
    BY <1>2, <2>1 DEF Show, LogType
  <2> QED BY <2>1, <2>5, <2>6 DEF Closed
<1>3. ASSUME NEW p \in Peer, NEW b \in Block, Owe(p, b) PROVE LogInv'
  BY <1>3 DEF Owe, LogType, Closed
<1>4. ASSUME NEW p \in Peer, NEW bs \in SUBSET Block, WriteOff(p, bs) PROVE LogInv'
  <2>1. PICK d \in SUBSET bs : debt' = [debt EXCEPT ![p] = @ \ d]
    BY <1>4 DEF WriteOff
  <2> QED BY <1>4, <2>1 DEF WriteOff, LogType, Closed
<1>5. ASSUME NEW p \in Peer, Forget(p) PROVE LogInv'
  <2>1. PICK d \in SUBSET log[p] : debt' = [debt EXCEPT ![p] = @ \cup d]
    BY <1>5 DEF Forget
  <2>2. d \subseteq Block /\ log[p] \subseteq Block
    BY <2>1 DEF LogType
  <2>3. debt' \in [Peer -> SUBSET Block] /\ dropped' \in [Peer -> SUBSET Block]
    BY <1>5, <2>1, <2>2 DEF Forget, LogType
  <2> QED BY <1>5, <2>1, <2>3 DEF Forget, LogType, Closed
<1>6. CASE UNCHANGED logvars
  BY <1>6 DEF logvars, LogType, Closed
<1> QED BY <1>1, <1>2, <1>3, <1>4, <1>5, <1>6 DEF Next

\* Every parent of a shown block is shown, owed or written off, whatever order
\* blocks are shown in.
THEOREM LogClosed == LogSpec => []Closed
<1>1. LogInv => Closed
  BY DEF LogInv
<1> QED BY <1>1, InitClosed, NextClosed, PTL DEF LogSpec
-----------------------------------------------------------------------------
(* Files, pins and IGNORE blocks *)

\* the steps of an IGNORE that has found its post alone with its target
Deleting == {"unpin", "unlink", "orphan", "release", "drop"}

IgnoredIn(p) == \E g \in blocks \cap IgnoreBlock : Ignored[g] = p

\* What a worker has in hand at each step.
TasksOK ==
  \A v \in Worker :
    /\ fpc[v] \in AddLabel => block[v] \in Post
    /\ fpc[v] \in IgnoreLabel => block[v] \in IgnoreBlock
    /\ fpc[v] = "idle" => left[v] = {}
    /\ fpc[v] # "idle" => left[v] \subseteq FilesOf[Its(v)]
    /\ fpc[v] = "link" \/ fpc[v] \in IgnoreLabel \ {"ignore"} => block[v] \in blocks
    /\ fpc[v] \in {"orphan", "release", "drop"} => file[v] \in left[v]
    /\ fpc[v] \in IgnoreLabel /\ PostOf(v) \in LocalPost => PostOf(v) \in blocks

\* A local post is ignored only once it is there.
LocalOK == \A g \in blocks \cap IgnoreBlock : Ignored[g] \in LocalPost => Ignored[g] \in blocks

\* A file without a row has no targets, and a file is of the targets it names.
RowsOK ==
  \A x \in File : /\ x \notin fileRows => targets[x] = {}
                  /\ \A k \in targets[x] : x \in FilesOf[k]

\* What a post under way has pinned and indexed up to its step; until it is indexed it
\* has not been ignored, or holds nothing.
AddOK ==
  \A w \in Worker :
    /\ fpc[w] \in {"lock", "pin", "row", "index", "link"} => Its(w) \in pinned
    /\ fpc[w] = "pin" => FilesOf[Its(w)] \ left[w] \subseteq pinned
    /\ fpc[w] \in {"row", "index", "link"} => FilesOf[Its(w)] \subseteq pinned
    /\ fpc[w] = "link" => \A x \in FilesOf[Its(w)] \ left[w] :
                            x \in fileRows /\ Its(w) \in targets[x]
    /\ fpc[w] = "indexOnly" => IgnoredIn(block[w])
    /\ fpc[w] \in AddLabel \ {"check", "indexOnly"} => ~IgnoredIn(block[w])

\* What an IGNORE under way has let go of: its target has no other post, and a file it
\* unpins is of no post that is shown and not ignored.
IgnoreOK ==
  \A v \in Worker :
    /\ fpc[v] \in Deleting =>
         \A p \in blocks \cap Post : TargetOf[p] = Its(v) => p = PostOf(v)
    /\ fpc[v] \in Deleting \ {"unpin"} =>
         /\ Its(v) \notin pinned
         /\ \A x \in FilesOf[Its(v)] \ left[v] : Its(v) \notin targets[x]
    /\ fpc[v] \in {"orphan", "release", "drop"} => Its(v) \notin targets[file[v]]
    /\ fpc[v] \in {"release", "drop"} =>
         \A p \in shown \cap Post : ~IgnoredIn(p) => file[v] \notin FilesOf[TargetOf[p]]
    /\ fpc[v] = "drop" => file[v] \notin pinned

\* A post in the blocks table was handled to the end, was cut off, or is being linked.
PostsOK ==
  \A p \in blocks \cap Post :
    \/ p \in shown \/ TargetOf[p] \in spoiled
    \/ \E w \in Worker : fpc[w] = "link" /\ block[w] = p

\* A target that is held has a post, a post on its way, or one that was cut off.
UsedOK ==
  \A k \in Target : k \in pinned \/ (\E x \in File : k \in targets[x]) =>
    \/ k \in spoiled
    \/ \E p \in blocks \cap Post : TargetOf[p] = k
    \/ \E w \in Worker : fpc[w] \in AddLabel /\ Its(w) = k

\* ShownAreKept without a meeting.
KeptOK ==
  \A p \in shown \cap Post : ~IgnoredIn(p) =>
    /\ TargetOf[p] \in pinned
    /\ \A x \in FilesOf[TargetOf[p]] :
         x \in pinned /\ x \in fileRows /\ TargetOf[p] \in targets[x]

\* the post that g ignores is the only one of its target
Only(g) == \A p \in blocks \cap Post : TargetOf[p] = TargetOf[Ignored[g]] => p = Ignored[g]

\* another post of the target that g released is being handled
Reused(g) ==
  \E w \in Worker : /\ fpc[w] \in AddLabel /\ Its(w) = TargetOf[Ignored[g]]
                    /\ block[w] # Ignored[g]

\* IgnoredAreReleased, also while workers are under way.
ReleasedOK ==
  spoiled = {} =>
    \A g \in shown \cap IgnoreBlock : Only(g) /\ ~Reused(g) =>
      /\ TargetOf[Ignored[g]] \notin pinned
      /\ \A x \in File : TargetOf[Ignored[g]] \notin targets[x]

PinnedOK ==
  spoiled = {} =>
    \A x \in pinned \cap File :
      \/ x \in fileRows
      \/ \E w \in Worker : fpc[w] \in {"pin", "row", "index", "link"} /\ x \in FilesOf[Its(w)]

\* What holds as long as no post and no IGNORE of common files were handled at once.
Calm ==
  /\ Meeting = {} /\ AddOK /\ IgnoreOK /\ PostsOK /\ UsedOK /\ KeptOK /\ ReleasedOK /\ PinnedOK

\* What of this is left for the files that no post and IGNORE were at together: a post
\* under way has pinned and indexed them up to its step.
AddSafe(w) ==
  /\ fpc[w] \in {"lock", "pin", "row", "index", "link"} =>
       Its(w) \in pinned \/ FilesOf[Its(w)] \subseteq met
  /\ fpc[w] = "pin" => FilesOf[Its(w)] \ left[w] \subseteq pinned \cup met
  /\ fpc[w] \in {"row", "index", "link"} => FilesOf[Its(w)] \subseteq pinned \cup met
  /\ fpc[w] = "link" => \A x \in FilesOf[Its(w)] \ (left[w] \cup met) :
                          x \in fileRows /\ Its(w) \in targets[x]
  /\ fpc[w] = "indexOnly" => IgnoredIn(block[w])

\* An IGNORE under way lets go of a target or a file that no other post shows.
DeleteSafe(v) ==
  /\ fpc[v] \in Deleting =>
       \A p \in blocks \cap Post : TargetOf[p] = Its(v) =>
         p = PostOf(v) \/ FilesOf[Its(v)] \subseteq met
  /\ fpc[v] \in {"release", "drop"} =>
       \A p \in shown \cap Post : ~IgnoredIn(p) =>
         file[v] \notin FilesOf[TargetOf[p]] \/ file[v] \in met

Kept(p) ==
  /\ TargetOf[p] \in pinned \/ FilesOf[TargetOf[p]] \subseteq met
  /\ \A x \in FilesOf[TargetOf[p]] \ met :
       x \in pinned /\ x \in fileRows /\ TargetOf[p] \in targets[x]

\* ShownAreKept, with what it rests on while workers are under way.
Safe ==
  /\ \A v \in Worker : AddSafe(v) /\ DeleteSafe(v)
  /\ \A p \in shown \cap Post : ~IgnoredIn(p) => Kept(p)

\* The inductive invariant.
IInv ==
  /\ FilesTypeOK /\ TasksOK /\ LocalOK /\ RowsOK
  /\ Meeting \subseteq met /\ Safe
  /\ met = {} => Calm
-----------------------------------------------------------------------------
(* Helpers *)

\* What the constants say of posts, targets and files.
LEMMA Constants ==
  /\ \A p \in Post : TargetOf[p] \in Target
  /\ \A g \in IgnoreBlock : Ignored[g] \in Post /\ g \notin Post /\ TargetOf[Ignored[g]] \in Target
  /\ \A k \in Target : FilesOf[k] \subseteq File /\ FilesOf[k] # {} /\ k \notin File
  /\ NoBlock \notin Post /\ NoBlock \notin IgnoreBlock /\ NoBlock \notin File
<1>1. FilesOf \in [Target -> (SUBSET File) \ {{}}] /\ File \cap Target = {}
  BY FilesConstants
<1>2. \A k \in Target : FilesOf[k] \in (SUBSET File) \ {{}} /\ k \notin File
  BY <1>1
<1>3. \A k \in Target : FilesOf[k] \subseteq File /\ FilesOf[k] # {}
  BY <1>2
<1>4. \A p \in Post : TargetOf[p] \in Target
  BY FilesConstants
<1>5. \A g \in IgnoreBlock : Ignored[g] \in Post /\ g \notin Post
  BY FilesConstants
<1> QED BY <1>2, <1>3, <1>4, <1>5, FilesConstants

LEMMA MeetingType == Meeting \subseteq File /\ Meeting' \subseteq File
BY DEF Meeting

\* A worker under way has a post in hand, its own or the one it ignores.
LEMMA Posts ==
  ASSUME TasksOK, NEW v \in Worker, fpc[v] \in AddLabel \cup IgnoreLabel
  PROVE  /\ PostOf(v) \in Post /\ Its(v) \in Target /\ Its(v) = TargetOf[PostOf(v)]
         /\ fpc[v] \in AddLabel => PostOf(v) = block[v]
         /\ fpc[v] \in IgnoreLabel => PostOf(v) = Ignored[block[v]]
BY Constants DEF TasksOK, PostOf, Its

\* Who adds and who ignores have no file and no target in common.
LEMMA Distant ==
  ASSUME TasksOK, Meeting = {}
  PROVE  \A v, w \in Worker : fpc[v] \in AddLabel /\ fpc[w] \in IgnoreLabel =>
           FilesOf[Its(v)] \cap FilesOf[Its(w)] = {} /\ Its(v) # Its(w)
<1> SUFFICES ASSUME NEW v \in Worker, NEW w \in Worker, fpc[v] \in AddLabel, fpc[w] \in IgnoreLabel
             PROVE  FilesOf[Its(v)] \cap FilesOf[Its(w)] = {} /\ Its(v) # Its(w)
  OBVIOUS
<1>1. FilesOf[Its(v)] \subseteq File /\ FilesOf[Its(v)] # {}
  BY Posts, Constants
<1>2. FilesOf[Its(v)] \cap FilesOf[Its(w)] = {}
  BY <1>1 DEF Meeting
<1> QED BY <1>1, <1>2

\* What both are at is in met.
LEMMA Met ==
  ASSUME TasksOK, Meeting \subseteq met, NEW v \in Worker, NEW w \in Worker,
         fpc[v] \in AddLabel, fpc[w] \in IgnoreLabel
  PROVE  FilesOf[Its(v)] \cap FilesOf[Its(w)] \subseteq met
<1>1. FilesOf[Its(v)] \subseteq File
  BY Posts, Constants
<1> QED BY <1>1 DEF Meeting

\* Worker v adds to the store: the files of the posts it does not show are as safe as
\* before.
LEMMA Grows ==
  ASSUME TasksOK, Safe, Meeting \subseteq met, met \subseteq met', NEW v \in Worker,
         \A u \in Worker \ {v} : /\ fpc'[u] = fpc[u] /\ block'[u] = block[u]
                                /\ left'[u] = left[u] /\ file'[u] = file[u]
                                /\ PostOf(u)' = PostOf(u) /\ Its(u)' = Its(u),
         blocks \subseteq blocks', pinned \subseteq pinned', fileRows \subseteq fileRows',
         \A x \in fileRows : targets[x] \subseteq targets'[x],
         \A p \in (blocks' \ blocks) \cap Post : p = block[v] /\ fpc[v] \in AddLabel,
         \A p \in (shown' \ shown) \cap Post :
           p = block[v] /\ fpc[v] \in AddLabel /\ (Kept(p)' \/ IgnoredIn(p)'),
         AddSafe(v)', DeleteSafe(v)'
  PROVE  Safe'
<1>1. \A p \in Post : IgnoredIn(p) => IgnoredIn(p)'
  BY DEF IgnoredIn
<1>2. ASSUME NEW u \in Worker \ {v} PROVE AddSafe(u)'
  <2>1. AddSafe(u)
    BY DEF Safe
  <2>2. fpc[u] = "indexOnly" => block[u] \in Post
    BY DEF TasksOK, AddLabel
  <2> QED BY <1>1, <2>1, <2>2 DEF AddSafe
<1>3. ASSUME NEW u \in Worker \ {v} PROVE DeleteSafe(u)'
  <2>1. DeleteSafe(u)
    BY DEF Safe
  <2>2. ASSUME fpc[u] \in Deleting, NEW p \in blocks' \cap Post, TargetOf[p] = Its(u)
        PROVE  p = PostOf(u) \/ FilesOf[Its(u)] \subseteq met
    <3>1. CASE p \in blocks
      BY <2>1, <2>2, <3>1 DEF DeleteSafe
    <3>2. CASE p \notin blocks
      <4>1. p = block[v] /\ fpc[v] \in AddLabel /\ Its(v) = Its(u)
        BY <2>2, <3>2 DEF Its, PostOf
      <4> QED BY <2>2, <4>1, Met DEF Deleting, IgnoreLabel
    <3> QED BY <3>1, <3>2
  <2>3. ASSUME fpc[u] \in {"release", "drop"}, NEW p \in shown' \cap Post, ~IgnoredIn(p)'
        PROVE  file[u] \notin FilesOf[TargetOf[p]] \/ file[u] \in met
    <3>1. CASE p \in shown
      BY <1>1, <2>1, <2>3, <3>1 DEF DeleteSafe
    <3>2. CASE p \notin shown
      <4>1. p = block[v] /\ fpc[v] \in AddLabel /\ Its(v) = TargetOf[p]
        BY <2>3, <3>2 DEF Its, PostOf
      <4>2. fpc[u] \in IgnoreLabel /\ file[u] \in FilesOf[Its(u)]
        BY <2>3 DEF TasksOK, IgnoreLabel
      <4> QED BY <4>1, <4>2, Met
    <3> QED BY <3>1, <3>2
  <2> QED BY <2>2, <2>3 DEF DeleteSafe
<1>4. ASSUME NEW p \in shown' \cap Post, ~IgnoredIn(p)' PROVE Kept(p)'
  <2>1. CASE p \in shown
    <3>1. Kept(p)
      BY <1>1, <1>4, <2>1 DEF Safe
    <3> QED BY <3>1 DEF Kept
  <2>2. CASE p \notin shown
    BY <1>4, <2>2
  <2> QED BY <2>1, <2>2
<1> QED BY <1>2, <1>3, <1>4 DEF Safe

\* An IGNORE lets go of its target, or of the file it is at once that is of no post that
\* is shown: the files of the other posts are as safe as before.
LEMMA Shrinks ==
  ASSUME FilesTypeOK, TasksOK, Safe, Meeting \subseteq met, met \subseteq met', NEW v \in Worker,
         \A u \in Worker \ {v} : /\ fpc'[u] = fpc[u] /\ block'[u] = block[u]
                                /\ left'[u] = left[u] /\ file'[u] = file[u]
                                /\ PostOf(u)' = PostOf(u) /\ Its(u)' = Its(u),
         fpc[v] \in Deleting, blocks' = blocks, shown' \cap Post = shown \cap Post,
         NEW gone, gone \subseteq {file[v]}, gone # {} => fpc[v] \in {"release", "drop"},
         pinned \ ({Its(v)} \cup gone) \subseteq pinned',
         \A x \in fileRows \ gone : x \in fileRows' /\ targets[x] \ {Its(v)} \subseteq targets'[x],
         fpc'[v] \notin AddLabel, DeleteSafe(v)'
  PROVE  Safe'
<1>1. \A p : IgnoredIn(p)' = IgnoredIn(p)
  BY DEF IgnoredIn
<1>2. /\ Its(v) \in Target /\ Its(v) = TargetOf[PostOf(v)] /\ IgnoredIn(PostOf(v))
      /\ fpc[v] \in IgnoreLabel /\ gone \subseteq FilesOf[Its(v)] /\ gone \cap Target = {}
  <2>1. fpc[v] \in IgnoreLabel /\ fpc[v] \notin {"ignore"}
    BY DEF Deleting, IgnoreLabel
  <2>2. block[v] \in blocks /\ block[v] \in IgnoreBlock
    BY <2>1 DEF TasksOK
  <2>3. gone \subseteq FilesOf[Its(v)]
    BY DEF TasksOK
  <2> QED BY <2>1, <2>2, <2>3, Posts, Constants DEF IgnoredIn
<1>3. ASSUME NEW u \in Worker \ {v}, fpc[u] \in AddLabel
      PROVE  /\ Its(u) \in Target /\ FilesOf[Its(u)] \subseteq File
             /\ FilesOf[Its(u)] \cap gone \subseteq met
             /\ Its(u) = Its(v) => FilesOf[Its(u)] \subseteq met
             /\ Its(v) \notin FilesOf[Its(u)]
  BY <1>2, <1>3, Met, Posts, Constants
<1>4. ASSUME NEW u \in Worker \ {v} PROVE AddSafe(u)'
  <2>1. AddSafe(u)
    BY DEF Safe
  <2>2. CASE fpc[u] \in AddLabel
    <3>1. Its(u) \in pinned => Its(u) \in pinned' \/ FilesOf[Its(u)] \subseteq met
      BY <1>2, <1>3, <2>2
    <3>2. \A x \in FilesOf[Its(u)] : x \in pinned => x \in pinned' \/ x \in met
      BY <1>3, <2>2
    <3>3. \A x \in FilesOf[Its(u)] : x \in fileRows /\ Its(u) \in targets[x] =>
            x \in met \/ (x \in fileRows' /\ Its(u) \in targets'[x])
      BY <1>3, <2>2
    <3> QED BY <1>1, <2>1, <3>1, <3>2, <3>3 DEF AddSafe
  <2>3. CASE fpc[u] \notin AddLabel
    BY <2>3 DEF AddSafe, AddLabel
  <2> QED BY <2>2, <2>3
<1>5. AddSafe(v)'
  BY DEF AddSafe, AddLabel
<1>6. ASSUME NEW u \in Worker \ {v} PROVE DeleteSafe(u)'
  <2>1. DeleteSafe(u)
    BY DEF Safe
  <2> QED BY <1>1, <2>1 DEF DeleteSafe
<1>7. ASSUME NEW p \in shown \cap Post, ~IgnoredIn(p), p \in blocks PROVE Kept(p)'
  <2>1. Kept(p) /\ DeleteSafe(v)
    BY <1>7 DEF Safe
  <2>2. /\ TargetOf[p] \in Target /\ FilesOf[TargetOf[p]] \subseteq File
        /\ Its(v) \notin FilesOf[TargetOf[p]]
    BY <1>2, Constants
  <2>3. TargetOf[p] = Its(v) => FilesOf[TargetOf[p]] \subseteq met
    BY <1>2, <1>7, <2>1 DEF DeleteSafe
  <2>4. FilesOf[TargetOf[p]] \cap gone \subseteq met
    BY <1>7, <2>1 DEF DeleteSafe
  <2> QED BY <1>2, <2>1, <2>2, <2>3, <2>4 DEF Kept
<1>8. shown' \cap Post \subseteq blocks
  BY DEF FilesTypeOK
<1> QED BY <1>1, <1>4, <1>5, <1>6, <1>7, <1>8, DeleteSafe(v)' DEF Safe

-----------------------------------------------------------------------------
(* Every action preserves the invariant: what it changes comes first, then   *)
(* one step per part.  The rows, the pins and the steps of the other workers *)
(* (others) are what a part can lose.                                        *)

LEMMA ArriveInv ==
  ASSUME IInv, met' = met \cup Meeting', NEW v \in Worker, NEW p \in Post, Arrive(v, p)
  PROVE  IInv'
<1>1. /\ p \notin blocks /\ p \notin LocalPost
      /\ fpc[v] = "idle"
      /\ block' = [block EXCEPT ![v] = p]
      /\ fpc' = [fpc EXCEPT ![v] = "check"]
      /\ UNCHANGED <<blocks, fileRows, targets, pinned, mux, left, file, shown, spoiled, mishaps>>
  BY DEF Arrive, Takes, Go, Reached, store
<1>2. FilesTypeOK /\ TasksOK /\ LocalOK /\ RowsOK /\ Meeting \subseteq met /\ Safe
  BY DEF IInv
<1>3. FilesTypeOK'
  BY <1>1, <1>2, Constants, Posts, MeetingType DEF FilesTypeOK, TasksOK, AddLabel
<1>4. TasksOK'
  BY <1>1, <1>2, Constants
    DEF FilesTypeOK, TasksOK, LocalOK, PostOf, Its, AddLabel, IgnoreLabel
<1>5. LocalOK'
  BY <1>1, <1>2, Constants DEF LocalOK, TasksOK, PostOf, AddLabel
<1>6. RowsOK'
  BY <1>1, <1>2, Constants DEF FilesTypeOK, RowsOK, TasksOK, AddLabel
<1> DEFINE others == Worker \ {v}
<1>7. /\ \A u \in others : /\ fpc'[u] = fpc[u] /\ block'[u] = block[u]
                           /\ left'[u] = left[u] /\ file'[u] = file[u]
                           /\ PostOf(u)' = PostOf(u) /\ Its(u)' = Its(u)
  BY <1>1, <1>2 DEF FilesTypeOK, PostOf, Its
<1>8. AddSafe(v)' /\ DeleteSafe(v)'
  BY <1>1, <1>2, <1>7, Constants, Posts
    DEF FilesTypeOK, TasksOK, RowsOK, Safe, AddSafe, DeleteSafe, IgnoredIn, PostOf, Its,
        AddLabel, IgnoreLabel, Deleting
<1>9. Safe'
  BY <1>1, <1>2, <1>7, <1>8, Constants, Grows DEF FilesTypeOK, TasksOK, AddLabel, IgnoreLabel
<1>10. ASSUME met' = {} PROVE Calm'
  <2>1. /\ Meeting = {} /\ AddOK /\ IgnoreOK /\ PostsOK /\ UsedOK /\ KeptOK /\ ReleasedOK
        /\ PinnedOK /\ Meeting' = {}
    BY <1>10 DEF IInv, Calm
  <2>2. AddOK'
    BY <1>1, <1>2, <2>1, <1>7, Constants, Posts, Distant
      DEF FilesTypeOK, TasksOK, RowsOK, AddOK, IgnoredIn, PostOf, Its, AddLabel, IgnoreLabel
  <2>3. IgnoreOK'
    BY <1>1, <1>2, <2>1, <1>7, Constants, Posts, Distant
      DEF FilesTypeOK, TasksOK, IgnoreOK, IgnoredIn, PostOf, Its, Deleting, AddLabel
  <2>4. PostsOK'
    BY <1>1, <1>2, <2>1, <1>7, Constants, Posts DEF FilesTypeOK, TasksOK, PostsOK, AddLabel
  <2>5. UsedOK'
    BY <1>1, <1>2, <2>1, <1>7, Constants, Posts DEF FilesTypeOK, TasksOK, UsedOK, AddLabel
  <2>6. KeptOK'
    BY <1>1, <1>2, <2>1, <1>7, Constants, Posts DEF FilesTypeOK, TasksOK, KeptOK, IgnoredIn, AddLabel
  <2>7. ReleasedOK'
    BY <1>1, <1>2, <2>1, <1>7, Constants, Posts
      DEF FilesTypeOK, TasksOK, ReleasedOK, Only, Reused, AddLabel
  <2>8. PinnedOK'
    BY <1>1, <1>2, <2>1, <1>7, Constants, Posts DEF FilesTypeOK, TasksOK, PinnedOK, AddLabel
  <2> QED BY <2>1, <2>2, <2>3, <2>4, <2>5, <2>6, <2>7, <2>8 DEF Calm
<1> QED BY <1>3, <1>4, <1>5, <1>6, <1>9, <1>10 DEF IInv

LEMMA WritePostInv ==
  ASSUME IInv, met' = met \cup Meeting', NEW v \in Worker, NEW p \in Post, WritePost(v, p)
  PROVE  IInv'
<1>1. /\ p \notin blocks /\ p \in LocalPost
      /\ fpc[v] = "idle"
      /\ block' = [block EXCEPT ![v] = p]
      /\ fpc' = [fpc EXCEPT ![v] = "mill"]
      /\ left' = [left EXCEPT ![v] = FilesOf[TargetOf[p]]]
      /\ UNCHANGED <<blocks, fileRows, targets, pinned, mux, file, shown, spoiled, mishaps>>
  BY DEF WritePost, Takes, Go, Reached, store
<1>2. FilesTypeOK /\ TasksOK /\ LocalOK /\ RowsOK /\ Meeting \subseteq met /\ Safe
  BY DEF IInv
<1>3. FilesTypeOK'
  BY <1>1, <1>2, Constants, Posts, MeetingType DEF FilesTypeOK, TasksOK, AddLabel
<1>4. TasksOK'
  BY <1>1, <1>2, Constants
    DEF FilesTypeOK, TasksOK, LocalOK, PostOf, Its, AddLabel, IgnoreLabel
<1>5. LocalOK'
  BY <1>1, <1>2, Constants DEF LocalOK, TasksOK, PostOf, AddLabel
<1>6. RowsOK'
  BY <1>1, <1>2, Constants DEF FilesTypeOK, RowsOK, TasksOK, AddLabel
<1> DEFINE others == Worker \ {v}
<1>7. /\ \A u \in others : /\ fpc'[u] = fpc[u] /\ block'[u] = block[u]
                           /\ left'[u] = left[u] /\ file'[u] = file[u]
                           /\ PostOf(u)' = PostOf(u) /\ Its(u)' = Its(u)
  BY <1>1, <1>2 DEF FilesTypeOK, PostOf, Its
<1>8. AddSafe(v)' /\ DeleteSafe(v)'
  BY <1>1, <1>2, <1>7, Constants, Posts
    DEF FilesTypeOK, TasksOK, RowsOK, Safe, AddSafe, DeleteSafe, IgnoredIn, PostOf, Its,
        AddLabel, IgnoreLabel, Deleting
<1>9. Safe'
  BY <1>1, <1>2, <1>7, <1>8, Constants, Grows DEF FilesTypeOK, TasksOK, AddLabel, IgnoreLabel
<1>10. ASSUME met' = {} PROVE Calm'
  <2>1. /\ Meeting = {} /\ AddOK /\ IgnoreOK /\ PostsOK /\ UsedOK /\ KeptOK /\ ReleasedOK
        /\ PinnedOK /\ Meeting' = {}
    BY <1>10 DEF IInv, Calm
  <2>2. AddOK'
    BY <1>1, <1>2, <2>1, <1>7 DEF FilesTypeOK, TasksOK, LocalOK, AddOK, IgnoredIn
  <2>3. IgnoreOK'
    BY <1>1, <1>2, <2>1, <1>7, Constants, Posts, Distant
      DEF FilesTypeOK, TasksOK, IgnoreOK, IgnoredIn, PostOf, Its, Deleting, AddLabel
  <2>4. PostsOK'
    BY <1>1, <1>2, <2>1, <1>7, Constants, Posts DEF FilesTypeOK, TasksOK, PostsOK, AddLabel
  <2>5. UsedOK'
    BY <1>1, <1>2, <2>1, <1>7, Constants, Posts DEF FilesTypeOK, TasksOK, UsedOK, AddLabel
  <2>6. KeptOK'
    BY <1>1, <1>2, <2>1, <1>7, Constants, Posts DEF FilesTypeOK, TasksOK, KeptOK, IgnoredIn, AddLabel
  <2>7. ReleasedOK'
    BY <1>1, <1>2, <2>1, <1>7, Constants, Posts
      DEF FilesTypeOK, TasksOK, ReleasedOK, Only, Reused, AddLabel
  <2>8. PinnedOK'
    BY <1>1, <1>2, <2>1, <1>7, Constants, Posts DEF FilesTypeOK, TasksOK, PinnedOK, AddLabel
  <2> QED BY <2>1, <2>2, <2>3, <2>4, <2>5, <2>6, <2>7, <2>8 DEF Calm
<1> QED BY <1>3, <1>4, <1>5, <1>6, <1>9, <1>10 DEF IInv

LEMMA ArriveIgnoreInv ==
  ASSUME IInv, met' = met \cup Meeting', NEW v \in Worker, NEW g \in IgnoreBlock, ArriveIgnore(v, g)
  PROVE  IInv'
<1>1. /\ g \notin blocks /\ (Ignored[g] \in LocalPost => Ignored[g] \in shown)
      /\ fpc[v] = "idle"
      /\ block' = [block EXCEPT ![v] = g]
      /\ fpc' = [fpc EXCEPT ![v] = "ignore"]
      /\ UNCHANGED <<blocks, fileRows, targets, pinned, mux, left, file, shown, spoiled, mishaps>>
  BY DEF ArriveIgnore, Takes, Go, Reached, store
<1>2. FilesTypeOK /\ TasksOK /\ LocalOK /\ RowsOK /\ Meeting \subseteq met /\ Safe
  BY DEF IInv
<1>3. FilesTypeOK'
  BY <1>1, <1>2, Constants, Posts, MeetingType DEF FilesTypeOK, TasksOK, AddLabel, IgnoreLabel
<1>4. TasksOK'
  BY <1>1, <1>2, Constants DEF FilesTypeOK, TasksOK, LocalOK, PostOf, Its, AddLabel
<1>5. LocalOK'
  BY <1>1, <1>2, Constants DEF LocalOK, TasksOK, PostOf, AddLabel
<1>6. RowsOK'
  BY <1>1, <1>2, Constants DEF FilesTypeOK, RowsOK, TasksOK, AddLabel
<1> DEFINE others == Worker \ {v}
<1>7. /\ \A u \in others : /\ fpc'[u] = fpc[u] /\ block'[u] = block[u]
                           /\ left'[u] = left[u] /\ file'[u] = file[u]
                           /\ PostOf(u)' = PostOf(u) /\ Its(u)' = Its(u)
  BY <1>1, <1>2 DEF FilesTypeOK, PostOf, Its
<1>8. AddSafe(v)' /\ DeleteSafe(v)'
  BY <1>1, <1>2, <1>7, Constants, Posts
    DEF FilesTypeOK, TasksOK, RowsOK, Safe, AddSafe, DeleteSafe, IgnoredIn, PostOf, Its,
        AddLabel, IgnoreLabel, Deleting
<1>9. Safe'
  BY <1>1, <1>2, <1>7, <1>8, Constants, Grows DEF FilesTypeOK, TasksOK, AddLabel, IgnoreLabel
<1>10. ASSUME met' = {} PROVE Calm'
  <2>1. /\ Meeting = {} /\ AddOK /\ IgnoreOK /\ PostsOK /\ UsedOK /\ KeptOK /\ ReleasedOK
        /\ PinnedOK /\ Meeting' = {}
    BY <1>10 DEF IInv, Calm
  <2>2. AddOK'
    BY <1>1, <1>2, <2>1, <1>7, Constants, Posts, Distant
      DEF FilesTypeOK, TasksOK, RowsOK, AddOK, IgnoredIn, PostOf, Its, AddLabel
  <2>3. IgnoreOK'
    BY <1>1, <1>2, <2>1, <1>7, Constants, Posts, Distant
      DEF FilesTypeOK, TasksOK, IgnoreOK, IgnoredIn, PostOf, Its, Deleting, AddLabel
  <2>4. PostsOK'
    BY <1>1, <1>2, <2>1, <1>7, Constants, Posts DEF FilesTypeOK, TasksOK, PostsOK, AddLabel
  <2>5. UsedOK'
    BY <1>1, <1>2, <2>1, <1>7, Constants, Posts DEF FilesTypeOK, TasksOK, UsedOK, AddLabel
  <2>6. KeptOK'
    BY <1>1, <1>2, <2>1, <1>7, Constants, Posts DEF FilesTypeOK, TasksOK, KeptOK, IgnoredIn, AddLabel
  <2>7. ReleasedOK'
    BY <1>1, <1>2, <2>1, <1>7, Constants, Posts
      DEF FilesTypeOK, TasksOK, ReleasedOK, Only, Reused, AddLabel
  <2>8. PinnedOK'
    BY <1>1, <1>2, <2>1, <1>7, Constants, Posts DEF FilesTypeOK, TasksOK, PinnedOK, AddLabel
  <2> QED BY <2>1, <2>2, <2>3, <2>4, <2>5, <2>6, <2>7, <2>8 DEF Calm
<1> QED BY <1>3, <1>4, <1>5, <1>6, <1>9, <1>10 DEF IInv

LEMMA WriteIgnoreInv ==
  ASSUME IInv, met' = met \cup Meeting', NEW v \in Worker, NEW g \in IgnoreBlock, WriteIgnore(v, g)
  PROVE  IInv'
<1>1. /\ g \notin blocks /\ Ignored[g] \in blocks
      /\ fpc[v] = "idle"
      /\ block' = [block EXCEPT ![v] = g]
      /\ fpc' = [fpc EXCEPT ![v] = "ignore"]
      /\ mux' = v
      /\ UNCHANGED <<blocks, fileRows, targets, pinned, left, file, shown, spoiled, mishaps>>
  BY DEF WriteIgnore, Takes, Go, Reached, store
<1>2. FilesTypeOK /\ TasksOK /\ LocalOK /\ RowsOK /\ Meeting \subseteq met /\ Safe
  BY DEF IInv
<1>3. FilesTypeOK'
  BY <1>1, <1>2, Constants, Posts, MeetingType DEF FilesTypeOK, TasksOK, AddLabel, IgnoreLabel
<1>4. TasksOK'
  BY <1>1, <1>2, Constants DEF FilesTypeOK, TasksOK, LocalOK, PostOf, Its, AddLabel
<1>5. LocalOK'
  BY <1>1, <1>2, Constants DEF LocalOK, TasksOK, PostOf, AddLabel
<1>6. RowsOK'
  BY <1>1, <1>2, Constants DEF FilesTypeOK, RowsOK, TasksOK, AddLabel
<1> DEFINE others == Worker \ {v}
<1>7. /\ \A u \in others : /\ fpc'[u] = fpc[u] /\ block'[u] = block[u]
                           /\ left'[u] = left[u] /\ file'[u] = file[u]
                           /\ PostOf(u)' = PostOf(u) /\ Its(u)' = Its(u)
  BY <1>1, <1>2 DEF FilesTypeOK, PostOf, Its
<1>8. AddSafe(v)' /\ DeleteSafe(v)'
  BY <1>1, <1>2, <1>7, Constants, Posts
    DEF FilesTypeOK, TasksOK, RowsOK, Safe, AddSafe, DeleteSafe, IgnoredIn, PostOf, Its,
        AddLabel, IgnoreLabel, Deleting
<1>9. Safe'
  BY <1>1, <1>2, <1>7, <1>8, Constants, Grows DEF FilesTypeOK, TasksOK, AddLabel, IgnoreLabel
<1>10. ASSUME met' = {} PROVE Calm'
  <2>1. /\ Meeting = {} /\ AddOK /\ IgnoreOK /\ PostsOK /\ UsedOK /\ KeptOK /\ ReleasedOK
        /\ PinnedOK /\ Meeting' = {}
    BY <1>10 DEF IInv, Calm
  <2>2. AddOK'
    BY <1>1, <1>2, <2>1, <1>7, Constants, Posts, Distant
      DEF FilesTypeOK, TasksOK, RowsOK, AddOK, IgnoredIn, PostOf, Its, AddLabel
  <2>3. IgnoreOK'
    BY <1>1, <1>2, <2>1, <1>7, Constants, Posts, Distant
      DEF FilesTypeOK, TasksOK, IgnoreOK, IgnoredIn, PostOf, Its, Deleting, AddLabel
  <2>4. PostsOK'
    BY <1>1, <1>2, <2>1, <1>7, Constants, Posts DEF FilesTypeOK, TasksOK, PostsOK, AddLabel
  <2>5. UsedOK'
    BY <1>1, <1>2, <2>1, <1>7, Constants, Posts DEF FilesTypeOK, TasksOK, UsedOK, AddLabel
  <2>6. KeptOK'
    BY <1>1, <1>2, <2>1, <1>7, Constants, Posts DEF FilesTypeOK, TasksOK, KeptOK, IgnoredIn, AddLabel
  <2>7. ReleasedOK'
    BY <1>1, <1>2, <2>1, <1>7, Constants, Posts
      DEF FilesTypeOK, TasksOK, ReleasedOK, Only, Reused, AddLabel
  <2>8. PinnedOK'
    BY <1>1, <1>2, <2>1, <1>7, Constants, Posts DEF FilesTypeOK, TasksOK, PinnedOK, AddLabel
  <2> QED BY <2>1, <2>2, <2>3, <2>4, <2>5, <2>6, <2>7, <2>8 DEF Calm
<1> QED BY <1>3, <1>4, <1>5, <1>6, <1>9, <1>10 DEF IInv

LEMMA CheckIgnoredInv ==
  ASSUME IInv, met' = met \cup Meeting', NEW v \in Worker, CheckIgnored(v)
  PROVE  IInv'
<1>1. /\ fpc[v] = "check"
      /\ fpc' = [fpc EXCEPT ![v] = IF IgnoredIn(block[v]) THEN "indexOnly" ELSE "target"]
      /\ UNCHANGED <<blocks, fileRows, targets, pinned, mux, block, left, file, shown, spoiled,
                     mishaps>>
  BY DEF CheckIgnored, Go, Reached, store, IgnoredIn
<1>2. FilesTypeOK /\ TasksOK /\ LocalOK /\ RowsOK /\ Meeting \subseteq met /\ Safe
  BY DEF IInv
<1>3. FilesTypeOK'
  BY <1>1, <1>2, Constants, Posts, MeetingType DEF FilesTypeOK, TasksOK, AddLabel
<1>4. TasksOK'
  BY <1>1, <1>2, Constants
    DEF FilesTypeOK, TasksOK, LocalOK, PostOf, Its, AddLabel, IgnoreLabel
<1>5. LocalOK'
  BY <1>1, <1>2, Constants DEF LocalOK, TasksOK, PostOf, AddLabel
<1>6. RowsOK'
  BY <1>1, <1>2, Constants DEF FilesTypeOK, RowsOK, TasksOK, AddLabel
<1> DEFINE others == Worker \ {v}
<1>7. /\ \A u \in others : /\ fpc'[u] = fpc[u] /\ block'[u] = block[u]
                           /\ left'[u] = left[u] /\ file'[u] = file[u]
                           /\ PostOf(u)' = PostOf(u) /\ Its(u)' = Its(u)
  BY <1>1, <1>2 DEF FilesTypeOK, PostOf, Its
<1>7a. \A u \in Worker : /\ (fpc'[u] \in AddLabel) <=> (fpc[u] \in AddLabel)
                         /\ block'[u] = block[u] /\ Its(u)' = Its(u)
  BY <1>1, <1>2, <1>7 DEF FilesTypeOK, PostOf, Its, AddLabel
<1>7b. \A u \in Worker :
         fpc[u] \in {"pin", "row", "index", "link"} => fpc'[u] \in {"pin", "row", "index", "link"}
  BY <1>1, <1>2, <1>7
<1>7c. \A g \in IgnoreBlock : (Only(g)' <=> Only(g)) /\ (Reused(g)' <=> Reused(g))
  BY <1>1, <1>7a DEF Only, Reused
<1>8. AddSafe(v)' /\ DeleteSafe(v)'
  BY <1>1, <1>2, <1>7, Constants, Posts
    DEF FilesTypeOK, TasksOK, RowsOK, Safe, AddSafe, DeleteSafe, IgnoredIn, PostOf, Its,
        AddLabel, IgnoreLabel, Deleting
<1>9. Safe'
  BY <1>1, <1>2, <1>7, <1>8, Constants, Grows DEF FilesTypeOK, TasksOK, AddLabel, IgnoreLabel
<1>10. ASSUME met' = {} PROVE Calm'
  <2>1. /\ Meeting = {} /\ AddOK /\ IgnoreOK /\ PostsOK /\ UsedOK /\ KeptOK /\ ReleasedOK
        /\ PinnedOK /\ Meeting' = {}
    BY <1>10 DEF IInv, Calm
  <2>2. AddOK'
    BY <1>1, <1>2, <2>1, <1>7, Constants, Posts, Distant
      DEF FilesTypeOK, TasksOK, RowsOK, AddOK, IgnoredIn, PostOf, Its, AddLabel
  <2>3. IgnoreOK'
    BY <1>1, <1>2, <2>1, <1>7, Constants, Posts, Distant
      DEF FilesTypeOK, TasksOK, IgnoreOK, IgnoredIn, PostOf, Its, Deleting, AddLabel
  <2>4. PostsOK'
    BY <1>1, <1>2, <2>1, <1>7, Constants, Posts DEF FilesTypeOK, TasksOK, PostsOK, AddLabel
  <2>5. UsedOK'
    BY <1>1, <1>2, <2>1, <1>7a, Constants DEF FilesTypeOK, UsedOK
  <2>6. KeptOK'
    BY <1>1, <1>2, <2>1, <1>7, Constants, Posts DEF FilesTypeOK, TasksOK, KeptOK, IgnoredIn, AddLabel
  <2>7. ReleasedOK'
    <3> SUFFICES ASSUME spoiled = {}, NEW g \in shown \cap IgnoreBlock, Only(g), ~Reused(g)
                 PROVE  /\ TargetOf[Ignored[g]] \notin pinned'
                        /\ \A y \in File : TargetOf[Ignored[g]] \notin targets'[y]
      BY <1>1, <1>7c DEF ReleasedOK
    <3>1. /\ TargetOf[Ignored[g]] \notin pinned /\ TargetOf[Ignored[g]] \in Target
          /\ \A y \in File : TargetOf[Ignored[g]] \notin targets[y]
      BY <1>2, <2>1, Constants DEF ReleasedOK
    <3> QED BY <1>1, <1>2, <2>1, <3>1, Constants
  <2>8. PinnedOK'
    BY <1>1, <1>2, <2>1, <1>7a, <1>7b DEF PinnedOK
  <2> QED BY <2>1, <2>2, <2>3, <2>4, <2>5, <2>6, <2>7, <2>8 DEF Calm
<1> QED BY <1>3, <1>4, <1>5, <1>6, <1>9, <1>10 DEF IInv

LEMMA PinTargetInv ==
  ASSUME IInv, met' = met \cup Meeting', NEW v \in Worker, PinTarget(v)
  PROVE  IInv'
<1>1. /\ fpc[v] = "target"
      /\ pinned' = pinned \cup {Its(v)}
      /\ fpc' = [fpc EXCEPT ![v] = "pin"]
      /\ left' = [left EXCEPT ![v] = FilesOf[Its(v)]]
      /\ UNCHANGED <<blocks, fileRows, targets, mux, block, file, shown, spoiled, mishaps>>
  BY DEF PinTarget, Loop, Go, Reached
<1>2. FilesTypeOK /\ TasksOK /\ LocalOK /\ RowsOK /\ Meeting \subseteq met /\ Safe
  BY DEF IInv
<1>3. FilesTypeOK'
  BY <1>1, <1>2, Constants, Posts, MeetingType DEF FilesTypeOK, TasksOK, AddLabel
<1>4. TasksOK'
  BY <1>1, <1>2, Constants
    DEF FilesTypeOK, TasksOK, LocalOK, PostOf, Its, AddLabel, IgnoreLabel
<1>5. LocalOK'
  BY <1>1, <1>2, Constants DEF LocalOK, TasksOK, PostOf, AddLabel
<1>6. RowsOK'
  BY <1>1, <1>2, Constants DEF FilesTypeOK, RowsOK, TasksOK, AddLabel
<1> DEFINE others == Worker \ {v}
<1>7. /\ \A u \in others : /\ fpc'[u] = fpc[u] /\ block'[u] = block[u]
                           /\ left'[u] = left[u] /\ file'[u] = file[u]
                           /\ PostOf(u)' = PostOf(u) /\ Its(u)' = Its(u)
  BY <1>1, <1>2 DEF FilesTypeOK, PostOf, Its
<1>7a. \A u \in Worker : /\ (fpc'[u] \in AddLabel) <=> (fpc[u] \in AddLabel)
                         /\ block'[u] = block[u] /\ Its(u)' = Its(u)
  BY <1>1, <1>2, <1>7 DEF FilesTypeOK, PostOf, Its, AddLabel
<1>7b. \A u \in Worker :
         fpc[u] \in {"pin", "row", "index", "link"} => fpc'[u] \in {"pin", "row", "index", "link"}
  BY <1>1, <1>2, <1>7
<1>7c. \A g \in IgnoreBlock : (Only(g)' <=> Only(g)) /\ (Reused(g)' <=> Reused(g))
  BY <1>1, <1>7a DEF Only, Reused
<1>8. AddSafe(v)' /\ DeleteSafe(v)'
  BY <1>1, <1>2, <1>7, Constants, Posts
    DEF FilesTypeOK, TasksOK, RowsOK, Safe, AddSafe, DeleteSafe, IgnoredIn, PostOf, Its,
        AddLabel, IgnoreLabel, Deleting
<1>9. Safe'
  BY <1>1, <1>2, <1>7, <1>8, Constants, Grows DEF FilesTypeOK, TasksOK, AddLabel, IgnoreLabel
<1>10. ASSUME met' = {} PROVE Calm'
  <2>1. /\ Meeting = {} /\ AddOK /\ IgnoreOK /\ PostsOK /\ UsedOK /\ KeptOK /\ ReleasedOK
        /\ PinnedOK /\ Meeting' = {}
    BY <1>10 DEF IInv, Calm
  <2>2. AddOK'
    BY <1>1, <1>2, <2>1, <1>7, Constants, Posts, Distant
      DEF FilesTypeOK, TasksOK, RowsOK, AddOK, IgnoredIn, PostOf, Its, AddLabel, IgnoreLabel
  <2>3. IgnoreOK'
    BY <1>1, <1>2, <2>1, <1>7, Constants, Posts, Distant
      DEF FilesTypeOK, TasksOK, IgnoreOK, IgnoredIn, PostOf, Its, Deleting, AddLabel
  <2>4. PostsOK'
    BY <1>1, <1>2, <2>1, <1>7, Constants, Posts DEF FilesTypeOK, TasksOK, PostsOK, AddLabel
  <2>5. UsedOK'
    <3>1. \A k \in Target : k \in pinned' \/ (\E y \in File : k \in targets'[y]) =>
            k = Its(v) \/ k \in pinned \/ (\E y \in File : k \in targets[y])
      BY <1>1, <1>2, <2>1
    <3>2. fpc[v] \in AddLabel
      BY <1>1 DEF AddLabel
    <3> QED BY <1>1, <1>2, <2>1, <1>7a, <3>1, <3>2 DEF UsedOK
  <2>6. KeptOK'
    BY <1>1, <1>2, <2>1, <1>7, Constants, Posts DEF FilesTypeOK, TasksOK, KeptOK, IgnoredIn, AddLabel
  <2>7. ReleasedOK'
    <3> SUFFICES ASSUME spoiled = {}, NEW g \in shown \cap IgnoreBlock, Only(g), ~Reused(g)
                 PROVE  /\ TargetOf[Ignored[g]] \notin pinned'
                        /\ \A y \in File : TargetOf[Ignored[g]] \notin targets'[y]
      BY <1>1, <1>7c DEF ReleasedOK
    <3>1. /\ TargetOf[Ignored[g]] \notin pinned /\ TargetOf[Ignored[g]] \in Target
          /\ \A y \in File : TargetOf[Ignored[g]] \notin targets[y]
      BY <1>2, <2>1, Constants DEF ReleasedOK
    <3>2. TargetOf[Ignored[g]] # Its(v)
      <4>1. g \in blocks /\ ~IgnoredIn(block[v]) /\ fpc[v] \in AddLabel
        BY <1>1, <1>2, <2>1 DEF FilesTypeOK, AddOK, AddLabel
      <4> QED BY <4>1 DEF IgnoredIn, Reused
    <3> QED BY <1>1, <1>2, <2>1, <3>1, <3>2, Constants
  <2>8. PinnedOK'
    <3>1. Its(v) \notin File
      BY <1>1, <1>2, <2>1, Posts, Constants DEF AddLabel
    <3> QED BY <1>1, <1>2, <2>1, <1>7a, <1>7b, <3>1 DEF PinnedOK
  <2> QED BY <2>1, <2>2, <2>3, <2>4, <2>5, <2>6, <2>7, <2>8 DEF Calm
<1> QED BY <1>3, <1>4, <1>5, <1>6, <1>9, <1>10 DEF IInv

LEMMA PinFileInv ==
  ASSUME IInv, met' = met \cup Meeting', NEW v \in Worker, NEW x \in File, PinFile(v, x)
  PROVE  IInv'
<1>1. /\ fpc[v] = "pin" /\ x \in left[v]
      /\ pinned' = pinned \cup {x}
      /\ \/ left[v] # {x} /\ left' = [left EXCEPT ![v] = @ \ {x}] /\ fpc' = fpc
         \/ left[v] = {x} /\ left' = [left EXCEPT ![v] = @ \ {x}] /\ fpc' = [fpc EXCEPT ![v] = "index"]
         \/ left[v] = {x} /\ left' = [left EXCEPT ![v] = FilesOf[Its(v)]] /\ fpc' = [fpc EXCEPT ![v] = "row"]
      /\ UNCHANGED <<blocks, fileRows, targets, mux, block, file, shown, spoiled, mishaps>>
  BY DEF PinFile, Loop, Through, LastLeft, Go, Reached
<1>2. FilesTypeOK /\ TasksOK /\ LocalOK /\ RowsOK /\ Meeting \subseteq met /\ Safe
  BY DEF IInv
<1>3. FilesTypeOK'
  BY <1>1, <1>2, Constants, Posts, MeetingType DEF FilesTypeOK, TasksOK, AddLabel
<1>4. TasksOK'
  BY <1>1, <1>2, Constants
    DEF FilesTypeOK, TasksOK, LocalOK, PostOf, Its, AddLabel, IgnoreLabel
<1>5. LocalOK'
  BY <1>1, <1>2, Constants DEF LocalOK, TasksOK, PostOf, AddLabel
<1>6. RowsOK'
  BY <1>1, <1>2, Constants DEF FilesTypeOK, RowsOK, TasksOK, AddLabel
<1> DEFINE others == Worker \ {v}
<1>7. /\ \A u \in others : /\ fpc'[u] = fpc[u] /\ block'[u] = block[u]
                           /\ left'[u] = left[u] /\ file'[u] = file[u]
                           /\ PostOf(u)' = PostOf(u) /\ Its(u)' = Its(u)
  BY <1>1, <1>2 DEF FilesTypeOK, PostOf, Its
<1>7a. \A u \in Worker : /\ (fpc'[u] \in AddLabel) <=> (fpc[u] \in AddLabel)
                         /\ block'[u] = block[u] /\ Its(u)' = Its(u)
  BY <1>1, <1>2, <1>7 DEF FilesTypeOK, PostOf, Its, AddLabel
<1>7b. \A u \in Worker :
         fpc[u] \in {"pin", "row", "index", "link"} => fpc'[u] \in {"pin", "row", "index", "link"}
  BY <1>1, <1>2, <1>7 DEF FilesTypeOK
<1>7c. \A g \in IgnoreBlock : (Only(g)' <=> Only(g)) /\ (Reused(g)' <=> Reused(g))
  BY <1>1, <1>7a DEF Only, Reused
<1>8. AddSafe(v)' /\ DeleteSafe(v)'
  BY <1>1, <1>2, <1>7, Constants, Posts
    DEF FilesTypeOK, TasksOK, RowsOK, Safe, AddSafe, DeleteSafe, IgnoredIn, PostOf, Its,
        AddLabel, IgnoreLabel, Deleting
<1>9. Safe'
  BY <1>1, <1>2, <1>7, <1>8, Constants, Grows DEF FilesTypeOK, TasksOK, AddLabel, IgnoreLabel
<1>10. ASSUME met' = {} PROVE Calm'
  <2>1. /\ Meeting = {} /\ AddOK /\ IgnoreOK /\ PostsOK /\ UsedOK /\ KeptOK /\ ReleasedOK
        /\ PinnedOK /\ Meeting' = {}
    BY <1>10 DEF IInv, Calm
  <2>2. AddOK'
    BY <1>1, <1>2, <2>1, <1>7, Constants, Posts, Distant
      DEF FilesTypeOK, TasksOK, RowsOK, AddOK, IgnoredIn, PostOf, Its, AddLabel, IgnoreLabel
  <2>3. IgnoreOK'
    <3>1. \A u \in Worker : fpc'[u] \in IgnoreLabel => u \in others /\ fpc[u] \in IgnoreLabel
      BY <1>1, <1>2, <2>1, <1>7 DEF FilesTypeOK, IgnoreLabel
    <3>2. x \in FilesOf[Its(v)] /\ fpc[v] \in AddLabel
      BY <1>1, <1>2, <2>1 DEF TasksOK, AddLabel
    <3>3. \A u \in Worker : fpc[u] \in IgnoreLabel => x # Its(u) /\ (fpc[u] = "drop" => file[u] # x)
      BY <1>2, <2>1, <3>2, Distant, Posts, Constants DEF TasksOK
    <3> QED BY <1>1, <1>2, <2>1, <1>7, <3>1, <3>3 DEF IgnoreOK, Deleting, IgnoreLabel, IgnoredIn
  <2>4. PostsOK'
    BY <1>1, <1>2, <2>1, <1>7, Constants, Posts DEF FilesTypeOK, TasksOK, PostsOK, AddLabel
  <2>5. UsedOK'
    BY <1>1, <1>2, <2>1, <1>7a, Constants DEF FilesTypeOK, UsedOK
  <2>6. KeptOK'
    BY <1>1, <1>2, <2>1, <1>7, Constants, Posts DEF FilesTypeOK, TasksOK, KeptOK, IgnoredIn, AddLabel
  <2>7. ReleasedOK'
    <3> SUFFICES ASSUME spoiled = {}, NEW g \in shown \cap IgnoreBlock, Only(g), ~Reused(g)
                 PROVE  /\ TargetOf[Ignored[g]] \notin pinned'
                        /\ \A y \in File : TargetOf[Ignored[g]] \notin targets'[y]
      BY <1>1, <1>7c DEF ReleasedOK
    <3>1. /\ TargetOf[Ignored[g]] \notin pinned /\ TargetOf[Ignored[g]] \in Target
          /\ \A y \in File : TargetOf[Ignored[g]] \notin targets[y]
      BY <1>2, <2>1, Constants DEF ReleasedOK
    <3>2. TargetOf[Ignored[g]] # Its(v)
      <4>1. g \in blocks /\ ~IgnoredIn(block[v]) /\ fpc[v] \in AddLabel
        BY <1>1, <1>2, <2>1 DEF FilesTypeOK, AddOK, AddLabel
      <4> QED BY <4>1 DEF IgnoredIn, Reused
    <3> QED BY <1>1, <1>2, <2>1, <3>1, <3>2, Constants
  <2>8. PinnedOK'
    <3>1. x \in FilesOf[Its(v)] /\ fpc'[v] \in {"pin", "row", "index", "link"}
      BY <1>1, <1>2, <2>1 DEF TasksOK, FilesTypeOK
    <3> QED BY <1>1, <1>2, <2>1, <1>7a, <1>7b, <3>1 DEF PinnedOK
  <2> QED BY <2>1, <2>2, <2>3, <2>4, <2>5, <2>6, <2>7, <2>8 DEF Calm
<1> QED BY <1>3, <1>4, <1>5, <1>6, <1>9, <1>10 DEF IInv

LEMMA AddFileRowInv ==
  ASSUME IInv, met' = met \cup Meeting', NEW v \in Worker, NEW x \in File, AddFileRow(v, x)
  PROVE  IInv'
<1>1. /\ fpc[v] = "row" /\ x \in left[v]
      /\ \/ fileRows' = fileRows /\ targets' = targets
         \/ x \notin fileRows /\ fileRows' = fileRows \cup {x} /\ targets' = [targets EXCEPT ![x] = {}]
      /\ left' = [left EXCEPT ![v] = @ \ {x}]
      /\ fpc' = fpc \/ fpc' = [fpc EXCEPT ![v] = "index"]
      /\ UNCHANGED <<blocks, pinned, mux, block, file, shown, spoiled, mishaps>>
  BY DEF AddFileRow, AddRowFor, SameContent, Through, LastLeft, Go, Reached
<1>2. FilesTypeOK /\ TasksOK /\ LocalOK /\ RowsOK /\ Meeting \subseteq met /\ Safe
  BY DEF IInv
<1>3. FilesTypeOK'
  BY <1>1, <1>2, Constants, Posts, MeetingType DEF FilesTypeOK, TasksOK, AddLabel
<1>4. TasksOK'
  BY <1>1, <1>2, Constants
    DEF FilesTypeOK, TasksOK, LocalOK, PostOf, Its, AddLabel, IgnoreLabel
<1>5. LocalOK'
  BY <1>1, <1>2, Constants DEF LocalOK, TasksOK, PostOf, AddLabel
<1>6. RowsOK'
  BY <1>1, <1>2, Constants DEF FilesTypeOK, RowsOK, TasksOK, AddLabel
<1> DEFINE others == Worker \ {v}
<1>7. /\ \A u \in others : /\ fpc'[u] = fpc[u] /\ block'[u] = block[u]
                           /\ left'[u] = left[u] /\ file'[u] = file[u]
                           /\ PostOf(u)' = PostOf(u) /\ Its(u)' = Its(u)
  BY <1>1, <1>2 DEF FilesTypeOK, PostOf, Its
<1>7a. \A u \in Worker : /\ (fpc'[u] \in AddLabel) <=> (fpc[u] \in AddLabel)
                         /\ block'[u] = block[u] /\ Its(u)' = Its(u)
  BY <1>1, <1>2, <1>7 DEF FilesTypeOK, PostOf, Its, AddLabel
<1>7b. \A u \in Worker :
         fpc[u] \in {"pin", "row", "index", "link"} => fpc'[u] \in {"pin", "row", "index", "link"}
  BY <1>1, <1>2, <1>7 DEF FilesTypeOK
<1>7c. \A g \in IgnoreBlock : (Only(g)' <=> Only(g)) /\ (Reused(g)' <=> Reused(g))
  BY <1>1, <1>7a DEF Only, Reused
<1>8. AddSafe(v)' /\ DeleteSafe(v)'
  BY <1>1, <1>2, <1>7, Constants, Posts
    DEF FilesTypeOK, TasksOK, RowsOK, Safe, AddSafe, DeleteSafe, IgnoredIn, PostOf, Its,
        AddLabel, IgnoreLabel, Deleting
<1>9. Safe'
  BY <1>1, <1>2, <1>7, <1>8, Constants, Grows DEF FilesTypeOK, TasksOK, AddLabel, IgnoreLabel
<1>10. ASSUME met' = {} PROVE Calm'
  <2>1. /\ Meeting = {} /\ AddOK /\ IgnoreOK /\ PostsOK /\ UsedOK /\ KeptOK /\ ReleasedOK
        /\ PinnedOK /\ Meeting' = {}
    BY <1>10 DEF IInv, Calm
  <2>2. AddOK'
    BY <1>1, <1>2, <2>1, <1>7, Constants, Posts, Distant
      DEF FilesTypeOK, TasksOK, RowsOK, AddOK, IgnoredIn, PostOf, Its, AddLabel
  <2>3. IgnoreOK'
    BY <1>1, <1>2, <2>1, <1>7, Constants, Posts, Distant
      DEF FilesTypeOK, TasksOK, IgnoreOK, IgnoredIn, PostOf, Its, Deleting, AddLabel
  <2>4. PostsOK'
    BY <1>1, <1>2, <2>1, <1>7, Constants, Posts DEF FilesTypeOK, TasksOK, PostsOK, AddLabel
  <2>5. UsedOK'
    BY <1>1, <1>2, <2>1, <1>7a, Constants DEF FilesTypeOK, UsedOK
  <2>6. KeptOK'
    BY <1>1, <1>2, <2>1, <1>7, Constants, Posts DEF FilesTypeOK, TasksOK, KeptOK, IgnoredIn, AddLabel
  <2>7. ReleasedOK'
    <3> SUFFICES ASSUME spoiled = {}, NEW g \in shown \cap IgnoreBlock, Only(g), ~Reused(g)
                 PROVE  /\ TargetOf[Ignored[g]] \notin pinned'
                        /\ \A y \in File : TargetOf[Ignored[g]] \notin targets'[y]
      BY <1>1, <1>7c DEF ReleasedOK
    <3>1. /\ TargetOf[Ignored[g]] \notin pinned /\ TargetOf[Ignored[g]] \in Target
          /\ \A y \in File : TargetOf[Ignored[g]] \notin targets[y]
      BY <1>2, <2>1, Constants DEF ReleasedOK
    <3> QED BY <1>1, <1>2, <2>1, <3>1, Constants DEF FilesTypeOK
  <2>8. PinnedOK'
    BY <1>1, <1>2, <2>1, <1>7a, <1>7b DEF PinnedOK
  <2> QED BY <2>1, <2>2, <2>3, <2>4, <2>5, <2>6, <2>7, <2>8 DEF Calm
<1> QED BY <1>3, <1>4, <1>5, <1>6, <1>9, <1>10 DEF IInv

LEMMA MillFileInv ==
  ASSUME IInv, met' = met \cup Meeting', NEW v \in Worker, NEW x \in File, MillFile(v, x)
  PROVE  IInv'
<1>1. /\ fpc[v] = "mill" /\ x \in left[v]
      /\ \/ fileRows' = fileRows /\ targets' = targets
         \/ x \notin fileRows /\ fileRows' = fileRows \cup {x} /\ targets' = [targets EXCEPT ![x] = {}]
      /\ \/ left' = [left EXCEPT ![v] = @ \ {x}] /\ fpc' = fpc
         \/ left' = [left EXCEPT ![v] = FilesOf[Its(v)]] /\ fpc' = [fpc EXCEPT ![v] = "node"]
      /\ UNCHANGED <<blocks, pinned, mux, block, file, shown, spoiled, mishaps>>
  BY DEF MillFile, AddRowFor, SameContent, Loop, Through, LastLeft, Go, Reached
<1>2. FilesTypeOK /\ TasksOK /\ LocalOK /\ RowsOK /\ Meeting \subseteq met /\ Safe
  BY DEF IInv
<1>3. FilesTypeOK'
  BY <1>1, <1>2, Constants, Posts, MeetingType DEF FilesTypeOK, TasksOK, AddLabel
<1>4. TasksOK'
  BY <1>1, <1>2, Constants
    DEF FilesTypeOK, TasksOK, LocalOK, PostOf, Its, AddLabel, IgnoreLabel
<1>5. LocalOK'
  BY <1>1, <1>2, Constants DEF LocalOK, TasksOK, PostOf, AddLabel
<1>6. RowsOK'
  BY <1>1, <1>2, Constants DEF FilesTypeOK, RowsOK, TasksOK, AddLabel
<1> DEFINE others == Worker \ {v}
<1>7. /\ \A u \in others : /\ fpc'[u] = fpc[u] /\ block'[u] = block[u]
                           /\ left'[u] = left[u] /\ file'[u] = file[u]
                           /\ PostOf(u)' = PostOf(u) /\ Its(u)' = Its(u)
  BY <1>1, <1>2 DEF FilesTypeOK, PostOf, Its
<1>7a. \A u \in Worker : /\ (fpc'[u] \in AddLabel) <=> (fpc[u] \in AddLabel)
                         /\ block'[u] = block[u] /\ Its(u)' = Its(u)
  BY <1>1, <1>2, <1>7 DEF FilesTypeOK, PostOf, Its, AddLabel
<1>7b. \A u \in Worker :
         fpc[u] \in {"pin", "row", "index", "link"} => fpc'[u] \in {"pin", "row", "index", "link"}
  BY <1>1, <1>2, <1>7
<1>7c. \A g \in IgnoreBlock : (Only(g)' <=> Only(g)) /\ (Reused(g)' <=> Reused(g))
  BY <1>1, <1>7a DEF Only, Reused
<1>8. AddSafe(v)' /\ DeleteSafe(v)'
  BY <1>1, <1>2, <1>7, Constants, Posts
    DEF FilesTypeOK, TasksOK, RowsOK, Safe, AddSafe, DeleteSafe, IgnoredIn, PostOf, Its,
        AddLabel, IgnoreLabel, Deleting
<1>9. Safe'
  BY <1>1, <1>2, <1>7, <1>8, Constants, Grows DEF FilesTypeOK, TasksOK, AddLabel, IgnoreLabel
<1>10. ASSUME met' = {} PROVE Calm'
  <2>1. /\ Meeting = {} /\ AddOK /\ IgnoreOK /\ PostsOK /\ UsedOK /\ KeptOK /\ ReleasedOK
        /\ PinnedOK /\ Meeting' = {}
    BY <1>10 DEF IInv, Calm
  <2>2. AddOK'
    BY <1>1, <1>2, <2>1, <1>7, Constants, Posts, Distant
      DEF FilesTypeOK, TasksOK, RowsOK, AddOK, IgnoredIn, PostOf, Its, AddLabel, IgnoreLabel
  <2>3. IgnoreOK'
    BY <1>1, <1>2, <2>1, <1>7, Constants, Posts, Distant
      DEF FilesTypeOK, TasksOK, IgnoreOK, IgnoredIn, PostOf, Its, Deleting, AddLabel,
          IgnoreLabel
  <2>4. PostsOK'
    BY <1>1, <1>2, <2>1, <1>7, Constants, Posts DEF FilesTypeOK, TasksOK, PostsOK, AddLabel
  <2>5. UsedOK'
    BY <1>1, <1>2, <2>1, <1>7a, Constants DEF FilesTypeOK, UsedOK
  <2>6. KeptOK'
    BY <1>1, <1>2, <2>1, <1>7, Constants, Posts DEF FilesTypeOK, TasksOK, KeptOK, IgnoredIn, AddLabel
  <2>7. ReleasedOK'
    <3> SUFFICES ASSUME spoiled = {}, NEW g \in shown \cap IgnoreBlock, Only(g), ~Reused(g)
                 PROVE  /\ TargetOf[Ignored[g]] \notin pinned'
                        /\ \A y \in File : TargetOf[Ignored[g]] \notin targets'[y]
      BY <1>1, <1>7c DEF ReleasedOK
    <3>1. /\ TargetOf[Ignored[g]] \notin pinned /\ TargetOf[Ignored[g]] \in Target
          /\ \A y \in File : TargetOf[Ignored[g]] \notin targets[y]
      BY <1>2, <2>1, Constants DEF ReleasedOK
    <3> QED BY <1>1, <1>2, <2>1, <3>1, Constants DEF FilesTypeOK
  <2>8. PinnedOK'
    BY <1>1, <1>2, <2>1, <1>7a, <1>7b DEF PinnedOK
  <2> QED BY <2>1, <2>2, <2>3, <2>4, <2>5, <2>6, <2>7, <2>8 DEF Calm
<1> QED BY <1>3, <1>4, <1>5, <1>6, <1>9, <1>10 DEF IInv

LEMMA NodeForFileInv ==
  ASSUME IInv, met' = met \cup Meeting', NEW v \in Worker, NEW x \in File, NodeForFile(v, x)
  PROVE  IInv'
<1>1. /\ fpc[v] = "node" /\ x \in left[v] /\ x \in fileRows
      /\ pinned' = pinned \cup {x}
      /\ left' = [left EXCEPT ![v] = @ \ {x}]
      /\ fpc' = fpc \/ fpc' = [fpc EXCEPT ![v] = "outer"]
      /\ UNCHANGED <<blocks, fileRows, targets, mux, block, file, shown, spoiled, mishaps>>
  BY DEF NodeForFile, Through, LastLeft, Go, Reached
<1>2. FilesTypeOK /\ TasksOK /\ LocalOK /\ RowsOK /\ Meeting \subseteq met /\ Safe
  BY DEF IInv
<1>3. FilesTypeOK'
  BY <1>1, <1>2, Constants, Posts, MeetingType DEF FilesTypeOK, TasksOK, AddLabel
<1>4. TasksOK'
  BY <1>1, <1>2, Constants
    DEF FilesTypeOK, TasksOK, LocalOK, PostOf, Its, AddLabel, IgnoreLabel
<1>5. LocalOK'
  BY <1>1, <1>2, Constants DEF LocalOK, TasksOK, PostOf, AddLabel
<1>6. RowsOK'
  BY <1>1, <1>2, Constants DEF FilesTypeOK, RowsOK, TasksOK, AddLabel
<1> DEFINE others == Worker \ {v}
<1>7. /\ \A u \in others : /\ fpc'[u] = fpc[u] /\ block'[u] = block[u]
                           /\ left'[u] = left[u] /\ file'[u] = file[u]
                           /\ PostOf(u)' = PostOf(u) /\ Its(u)' = Its(u)
  BY <1>1, <1>2 DEF FilesTypeOK, PostOf, Its
<1>7a. \A u \in Worker : /\ (fpc'[u] \in AddLabel) <=> (fpc[u] \in AddLabel)
                         /\ block'[u] = block[u] /\ Its(u)' = Its(u)
  BY <1>1, <1>2, <1>7 DEF FilesTypeOK, PostOf, Its, AddLabel
<1>7b. \A u \in Worker :
         fpc[u] \in {"pin", "row", "index", "link"} => fpc'[u] \in {"pin", "row", "index", "link"}
  BY <1>1, <1>2, <1>7
<1>7c. \A g \in IgnoreBlock : (Only(g)' <=> Only(g)) /\ (Reused(g)' <=> Reused(g))
  BY <1>1, <1>7a DEF Only, Reused
<1>8. AddSafe(v)' /\ DeleteSafe(v)'
  BY <1>1, <1>2, <1>7, Constants, Posts
    DEF FilesTypeOK, TasksOK, RowsOK, Safe, AddSafe, DeleteSafe, IgnoredIn, PostOf, Its,
        AddLabel, IgnoreLabel, Deleting
<1>9. Safe'
  BY <1>1, <1>2, <1>7, <1>8, Constants, Grows DEF FilesTypeOK, TasksOK, AddLabel, IgnoreLabel
<1>10. ASSUME met' = {} PROVE Calm'
  <2>1. /\ Meeting = {} /\ AddOK /\ IgnoreOK /\ PostsOK /\ UsedOK /\ KeptOK /\ ReleasedOK
        /\ PinnedOK /\ Meeting' = {}
    BY <1>10 DEF IInv, Calm
  <2>2. AddOK'
    BY <1>1, <1>2, <2>1, <1>7, Constants, Posts, Distant
      DEF FilesTypeOK, TasksOK, RowsOK, AddOK, IgnoredIn, PostOf, Its, AddLabel
  <2>3. IgnoreOK'
    <3>1. \A u \in Worker : fpc'[u] \in IgnoreLabel => u \in others /\ fpc[u] \in IgnoreLabel
      BY <1>1, <1>2, <2>1, <1>7 DEF FilesTypeOK, IgnoreLabel
    <3>2. x \in FilesOf[Its(v)] /\ fpc[v] \in AddLabel
      BY <1>1, <1>2, <2>1 DEF TasksOK, AddLabel
    <3>3. \A u \in Worker : fpc[u] \in IgnoreLabel => x # Its(u) /\ (fpc[u] = "drop" => file[u] # x)
      BY <1>2, <2>1, <3>2, Distant, Posts, Constants DEF TasksOK
    <3> QED BY <1>1, <1>2, <2>1, <1>7, <3>1, <3>3 DEF IgnoreOK, Deleting, IgnoreLabel, IgnoredIn
  <2>4. PostsOK'
    BY <1>1, <1>2, <2>1, <1>7, Constants, Posts DEF FilesTypeOK, TasksOK, PostsOK, AddLabel
  <2>5. UsedOK'
    BY <1>1, <1>2, <2>1, <1>7a, Constants DEF FilesTypeOK, UsedOK
  <2>6. KeptOK'
    BY <1>1, <1>2, <2>1, <1>7, Constants, Posts DEF FilesTypeOK, TasksOK, KeptOK, IgnoredIn, AddLabel
  <2>7. ReleasedOK'
    <3> SUFFICES ASSUME spoiled = {}, NEW g \in shown \cap IgnoreBlock, Only(g), ~Reused(g)
                 PROVE  /\ TargetOf[Ignored[g]] \notin pinned'
                        /\ \A y \in File : TargetOf[Ignored[g]] \notin targets'[y]
      BY <1>1, <1>7c DEF ReleasedOK
    <3>1. /\ TargetOf[Ignored[g]] \notin pinned /\ TargetOf[Ignored[g]] \in Target
          /\ \A y \in File : TargetOf[Ignored[g]] \notin targets[y]
      BY <1>2, <2>1, Constants DEF ReleasedOK
    <3>2. TargetOf[Ignored[g]] # Its(v)
      <4>1. g \in blocks /\ ~IgnoredIn(block[v]) /\ fpc[v] \in AddLabel
        BY <1>1, <1>2, <2>1 DEF FilesTypeOK, AddOK, AddLabel
      <4> QED BY <4>1 DEF IgnoredIn, Reused
    <3> QED BY <1>1, <1>2, <2>1, <3>1, <3>2, Constants
  <2>8. PinnedOK'
    BY <1>1, <1>2, <2>1, <1>7a, <1>7b DEF PinnedOK
  <2> QED BY <2>1, <2>2, <2>3, <2>4, <2>5, <2>6, <2>7, <2>8 DEF Calm
<1> QED BY <1>3, <1>4, <1>5, <1>6, <1>9, <1>10 DEF IInv

LEMMA PinOuterInv ==
  ASSUME IInv, met' = met \cup Meeting', NEW v \in Worker, PinOuter(v)
  PROVE  IInv'
<1>1. /\ fpc[v] = "outer"
      /\ pinned' = pinned \cup {Its(v)}
      /\ fpc' = [fpc EXCEPT ![v] = "lock"]
      /\ UNCHANGED <<blocks, fileRows, targets, mux, block, left, file, shown, spoiled, mishaps>>
  BY DEF PinOuter, Go, Reached
<1>2. FilesTypeOK /\ TasksOK /\ LocalOK /\ RowsOK /\ Meeting \subseteq met /\ Safe
  BY DEF IInv
<1>3. FilesTypeOK'
  BY <1>1, <1>2, Constants, Posts, MeetingType DEF FilesTypeOK, TasksOK, AddLabel
<1>4. TasksOK'
  BY <1>1, <1>2, Constants
    DEF FilesTypeOK, TasksOK, LocalOK, PostOf, Its, AddLabel, IgnoreLabel
<1>5. LocalOK'
  BY <1>1, <1>2, Constants DEF LocalOK, TasksOK, PostOf, AddLabel
<1>6. RowsOK'
  BY <1>1, <1>2, Constants DEF FilesTypeOK, RowsOK, TasksOK, AddLabel
<1> DEFINE others == Worker \ {v}
<1>7. /\ \A u \in others : /\ fpc'[u] = fpc[u] /\ block'[u] = block[u]
                           /\ left'[u] = left[u] /\ file'[u] = file[u]
                           /\ PostOf(u)' = PostOf(u) /\ Its(u)' = Its(u)
  BY <1>1, <1>2 DEF FilesTypeOK, PostOf, Its
<1>7a. \A u \in Worker : /\ (fpc'[u] \in AddLabel) <=> (fpc[u] \in AddLabel)
                         /\ block'[u] = block[u] /\ Its(u)' = Its(u)
  BY <1>1, <1>2, <1>7 DEF FilesTypeOK, PostOf, Its, AddLabel
<1>7b. \A u \in Worker :
         fpc[u] \in {"pin", "row", "index", "link"} => fpc'[u] \in {"pin", "row", "index", "link"}
  BY <1>1, <1>2, <1>7
<1>7c. \A g \in IgnoreBlock : (Only(g)' <=> Only(g)) /\ (Reused(g)' <=> Reused(g))
  BY <1>1, <1>7a DEF Only, Reused
<1>8. AddSafe(v)' /\ DeleteSafe(v)'
  BY <1>1, <1>2, <1>7, Constants, Posts
    DEF FilesTypeOK, TasksOK, RowsOK, Safe, AddSafe, DeleteSafe, IgnoredIn, PostOf, Its,
        AddLabel, IgnoreLabel, Deleting
<1>9. Safe'
  BY <1>1, <1>2, <1>7, <1>8, Constants, Grows DEF FilesTypeOK, TasksOK, AddLabel, IgnoreLabel
<1>10. ASSUME met' = {} PROVE Calm'
  <2>1. /\ Meeting = {} /\ AddOK /\ IgnoreOK /\ PostsOK /\ UsedOK /\ KeptOK /\ ReleasedOK
        /\ PinnedOK /\ Meeting' = {}
    BY <1>10 DEF IInv, Calm
  <2>2. AddOK'
    BY <1>1, <1>2, <2>1, <1>7, Constants, Posts, Distant
      DEF FilesTypeOK, TasksOK, RowsOK, AddOK, IgnoredIn, PostOf, Its, AddLabel
  <2>3. IgnoreOK'
    BY <1>1, <1>2, <2>1, <1>7, Constants, Posts, Distant
      DEF FilesTypeOK, TasksOK, IgnoreOK, IgnoredIn, PostOf, Its, Deleting, AddLabel
  <2>4. PostsOK'
    BY <1>1, <1>2, <2>1, <1>7, Constants, Posts DEF FilesTypeOK, TasksOK, PostsOK, AddLabel
  <2>5. UsedOK'
    <3>1. \A k \in Target : k \in pinned' \/ (\E y \in File : k \in targets'[y]) =>
            k = Its(v) \/ k \in pinned \/ (\E y \in File : k \in targets[y])
      BY <1>1, <1>2, <2>1
    <3>2. fpc[v] \in AddLabel
      BY <1>1 DEF AddLabel
    <3> QED BY <1>1, <1>2, <2>1, <1>7a, <3>1, <3>2 DEF UsedOK
  <2>6. KeptOK'
    BY <1>1, <1>2, <2>1, <1>7, Constants, Posts DEF FilesTypeOK, TasksOK, KeptOK, IgnoredIn, AddLabel
  <2>7. ReleasedOK'
    <3> SUFFICES ASSUME spoiled = {}, NEW g \in shown \cap IgnoreBlock, Only(g), ~Reused(g)
                 PROVE  /\ TargetOf[Ignored[g]] \notin pinned'
                        /\ \A y \in File : TargetOf[Ignored[g]] \notin targets'[y]
      BY <1>1, <1>7c DEF ReleasedOK
    <3>1. /\ TargetOf[Ignored[g]] \notin pinned /\ TargetOf[Ignored[g]] \in Target
          /\ \A y \in File : TargetOf[Ignored[g]] \notin targets[y]
      BY <1>2, <2>1, Constants DEF ReleasedOK
    <3>2. TargetOf[Ignored[g]] # Its(v)
      <4>1. g \in blocks /\ ~IgnoredIn(block[v]) /\ fpc[v] \in AddLabel
        BY <1>1, <1>2, <2>1 DEF FilesTypeOK, AddOK, AddLabel
      <4> QED BY <4>1 DEF IgnoredIn, Reused
    <3> QED BY <1>1, <1>2, <2>1, <3>1, <3>2, Constants
  <2>8. PinnedOK'
    <3>1. Its(v) \notin File
      BY <1>1, <1>2, <2>1, Posts, Constants DEF AddLabel
    <3> QED BY <1>1, <1>2, <2>1, <1>7a, <1>7b, <3>1 DEF PinnedOK
  <2> QED BY <2>1, <2>2, <2>3, <2>4, <2>5, <2>6, <2>7, <2>8 DEF Calm
<1> QED BY <1>3, <1>4, <1>5, <1>6, <1>9, <1>10 DEF IInv

LEMMA LockToPostInv ==
  ASSUME IInv, met' = met \cup Meeting', NEW v \in Worker, LockToPost(v)
  PROVE  IInv'
<1>1. /\ fpc[v] = "lock"
      /\ mux' = v
      /\ fpc' = [fpc EXCEPT ![v] = "pin"]
      /\ left' = [left EXCEPT ![v] = FilesOf[Its(v)]]
      /\ UNCHANGED <<blocks, fileRows, targets, pinned, block, file, shown, spoiled, mishaps>>
  BY DEF LockToPost, Loop, Go, Reached, store
<1>2. FilesTypeOK /\ TasksOK /\ LocalOK /\ RowsOK /\ Meeting \subseteq met /\ Safe
  BY DEF IInv
<1>3. FilesTypeOK'
  BY <1>1, <1>2, Constants, Posts, MeetingType DEF FilesTypeOK, TasksOK, AddLabel
<1>4. TasksOK'
  BY <1>1, <1>2, Constants
    DEF FilesTypeOK, TasksOK, LocalOK, PostOf, Its, AddLabel, IgnoreLabel
<1>5. LocalOK'
  BY <1>1, <1>2, Constants DEF LocalOK, TasksOK, PostOf, AddLabel
<1>6. RowsOK'
  BY <1>1, <1>2, Constants DEF FilesTypeOK, RowsOK, TasksOK, AddLabel
<1> DEFINE others == Worker \ {v}
<1>7. /\ \A u \in others : /\ fpc'[u] = fpc[u] /\ block'[u] = block[u]
                           /\ left'[u] = left[u] /\ file'[u] = file[u]
                           /\ PostOf(u)' = PostOf(u) /\ Its(u)' = Its(u)
  BY <1>1, <1>2 DEF FilesTypeOK, PostOf, Its
<1>7a. \A u \in Worker : /\ (fpc'[u] \in AddLabel) <=> (fpc[u] \in AddLabel)
                         /\ block'[u] = block[u] /\ Its(u)' = Its(u)
  BY <1>1, <1>2, <1>7 DEF FilesTypeOK, PostOf, Its, AddLabel
<1>7b. \A u \in Worker :
         fpc[u] \in {"pin", "row", "index", "link"} => fpc'[u] \in {"pin", "row", "index", "link"}
  BY <1>1, <1>2, <1>7
<1>7c. \A g \in IgnoreBlock : (Only(g)' <=> Only(g)) /\ (Reused(g)' <=> Reused(g))
  BY <1>1, <1>7a DEF Only, Reused
<1>8. AddSafe(v)' /\ DeleteSafe(v)'
  BY <1>1, <1>2, <1>7, Constants, Posts
    DEF FilesTypeOK, TasksOK, RowsOK, Safe, AddSafe, DeleteSafe, IgnoredIn, PostOf, Its,
        AddLabel, IgnoreLabel, Deleting
<1>9. Safe'
  BY <1>1, <1>2, <1>7, <1>8, Constants, Grows DEF FilesTypeOK, TasksOK, AddLabel, IgnoreLabel
<1>10. ASSUME met' = {} PROVE Calm'
  <2>1. /\ Meeting = {} /\ AddOK /\ IgnoreOK /\ PostsOK /\ UsedOK /\ KeptOK /\ ReleasedOK
        /\ PinnedOK /\ Meeting' = {}
    BY <1>10 DEF IInv, Calm
  <2>2. AddOK'
    BY <1>1, <1>2, <2>1, <1>7, Constants, Posts, Distant
      DEF FilesTypeOK, TasksOK, RowsOK, AddOK, IgnoredIn, PostOf, Its, AddLabel
  <2>3. IgnoreOK'
    BY <1>1, <1>2, <2>1, <1>7, Constants, Posts, Distant
      DEF FilesTypeOK, TasksOK, IgnoreOK, IgnoredIn, PostOf, Its, Deleting, AddLabel
  <2>4. PostsOK'
    BY <1>1, <1>2, <2>1, <1>7, Constants, Posts DEF FilesTypeOK, TasksOK, PostsOK, AddLabel
  <2>5. UsedOK'
    BY <1>1, <1>2, <2>1, <1>7a, Constants DEF FilesTypeOK, UsedOK
  <2>6. KeptOK'
    BY <1>1, <1>2, <2>1, <1>7, Constants, Posts DEF FilesTypeOK, TasksOK, KeptOK, IgnoredIn, AddLabel
  <2>7. ReleasedOK'
    <3> SUFFICES ASSUME spoiled = {}, NEW g \in shown \cap IgnoreBlock, Only(g), ~Reused(g)
                 PROVE  /\ TargetOf[Ignored[g]] \notin pinned'
                        /\ \A y \in File : TargetOf[Ignored[g]] \notin targets'[y]
      BY <1>1, <1>7c DEF ReleasedOK
    <3>1. /\ TargetOf[Ignored[g]] \notin pinned /\ TargetOf[Ignored[g]] \in Target
          /\ \A y \in File : TargetOf[Ignored[g]] \notin targets[y]
      BY <1>2, <2>1, Constants DEF ReleasedOK
    <3> QED BY <1>1, <1>2, <2>1, <3>1, Constants
  <2>8. PinnedOK'
    BY <1>1, <1>2, <2>1, <1>7a, <1>7b DEF PinnedOK
  <2> QED BY <2>1, <2>2, <2>3, <2>4, <2>5, <2>6, <2>7, <2>8 DEF Calm
<1> QED BY <1>3, <1>4, <1>5, <1>6, <1>9, <1>10 DEF IInv

LEMMA IndexPostInv ==
  ASSUME IInv, met' = met \cup Meeting', NEW v \in Worker, IndexPost(v)
  PROVE  IInv'
<1>1. /\ fpc[v] = "index" /\ block[v] \notin blocks
      /\ blocks' = blocks \cup {block[v]}
      /\ fpc' = [fpc EXCEPT ![v] = "link"]
      /\ left' = [left EXCEPT ![v] = FilesOf[Its(v)]]
      /\ UNCHANGED <<fileRows, targets, pinned, mux, block, file, shown, spoiled, mishaps>>
  BY DEF IndexPost, Loop, Go, Reached
<1>2. FilesTypeOK /\ TasksOK /\ LocalOK /\ RowsOK /\ Meeting \subseteq met /\ Safe
  BY DEF IInv
<1>3. FilesTypeOK'
  BY <1>1, <1>2, Constants, Posts, MeetingType DEF FilesTypeOK, TasksOK, AddLabel
<1>4. TasksOK'
  BY <1>1, <1>2, Constants
    DEF FilesTypeOK, TasksOK, LocalOK, PostOf, Its, AddLabel, IgnoreLabel
<1>5. LocalOK'
  BY <1>1, <1>2, Constants DEF LocalOK, TasksOK, PostOf, AddLabel
<1>6. RowsOK'
  BY <1>1, <1>2, Constants DEF FilesTypeOK, RowsOK, TasksOK, AddLabel
<1> DEFINE others == Worker \ {v}
<1>7. /\ \A u \in others : /\ fpc'[u] = fpc[u] /\ block'[u] = block[u]
                           /\ left'[u] = left[u] /\ file'[u] = file[u]
                           /\ PostOf(u)' = PostOf(u) /\ Its(u)' = Its(u)
  BY <1>1, <1>2 DEF FilesTypeOK, PostOf, Its
<1>7a. \A u \in Worker : /\ (fpc'[u] \in AddLabel) <=> (fpc[u] \in AddLabel)
                         /\ block'[u] = block[u] /\ Its(u)' = Its(u)
  BY <1>1, <1>2, <1>7 DEF FilesTypeOK, PostOf, Its, AddLabel
<1>7b. \A u \in Worker :
         fpc[u] \in {"pin", "row", "index", "link"} => fpc'[u] \in {"pin", "row", "index", "link"}
  BY <1>1, <1>2, <1>7
<1>8. AddSafe(v)' /\ DeleteSafe(v)'
  BY <1>1, <1>2, <1>7, Constants, Posts
    DEF FilesTypeOK, TasksOK, RowsOK, Safe, AddSafe, DeleteSafe, IgnoredIn, PostOf, Its,
        AddLabel, IgnoreLabel, Deleting
<1>9. Safe'
  BY <1>1, <1>2, <1>7, <1>8, Constants, Grows DEF FilesTypeOK, TasksOK, AddLabel, IgnoreLabel
<1>10. ASSUME met' = {} PROVE Calm'
  <2>1. /\ Meeting = {} /\ AddOK /\ IgnoreOK /\ PostsOK /\ UsedOK /\ KeptOK /\ ReleasedOK
        /\ PinnedOK /\ Meeting' = {}
    BY <1>10 DEF IInv, Calm
  <2>2. AddOK'
    BY <1>1, <1>2, <2>1, <1>7, Constants, Posts, Distant
      DEF FilesTypeOK, TasksOK, RowsOK, AddOK, IgnoredIn, PostOf, Its, AddLabel
  <2>3. IgnoreOK'
    BY <1>1, <1>2, <2>1, <1>7, Constants, Posts, Distant
      DEF FilesTypeOK, TasksOK, IgnoreOK, IgnoredIn, PostOf, Its, Deleting, AddLabel
  <2>4. PostsOK'
    BY <1>1, <1>2, <2>1, <1>7, Constants, Posts DEF FilesTypeOK, TasksOK, PostsOK, AddLabel
  <2>5. UsedOK'
    BY <1>1, <1>2, <2>1, <1>7, Constants, Posts DEF FilesTypeOK, TasksOK, UsedOK, AddLabel
  <2>6. KeptOK'
    BY <1>1, <1>2, <2>1, <1>7, Constants, Posts DEF FilesTypeOK, TasksOK, KeptOK, IgnoredIn, AddLabel
  <2>7. ReleasedOK'
    BY <1>1, <1>2, <2>1, <1>7, Constants, Posts
      DEF FilesTypeOK, TasksOK, ReleasedOK, Only, Reused, AddLabel
  <2>8. PinnedOK'
    BY <1>1, <1>2, <2>1, <1>7a, <1>7b DEF PinnedOK
  <2> QED BY <2>1, <2>2, <2>3, <2>4, <2>5, <2>6, <2>7, <2>8 DEF Calm
<1> QED BY <1>3, <1>4, <1>5, <1>6, <1>9, <1>10 DEF IInv

LEMMA IndexOnlyInv ==
  ASSUME IInv, met' = met \cup Meeting', NEW v \in Worker, IndexOnly(v)
  PROVE  IInv'
<1>1. /\ fpc[v] = "indexOnly"
      /\ blocks' = blocks \cup {block[v]}
      /\ fpc' = [fpc EXCEPT ![v] = "idle"]
      /\ mux' = IF mux = v THEN NoBlock ELSE mux
      /\ block' = [block EXCEPT ![v] = NoBlock] /\ left' = [left EXCEPT ![v] = {}]
      /\ file' = [file EXCEPT ![v] = NoBlock]
      /\ shown' = shown \cup {block[v]}
      /\ UNCHANGED <<fileRows, targets, pinned, spoiled, mishaps>>
  BY DEF IndexOnly, Ends, Clear, Go, Reached
<1>2. FilesTypeOK /\ TasksOK /\ LocalOK /\ RowsOK /\ Meeting \subseteq met /\ Safe
  BY DEF IInv
<1>3. FilesTypeOK'
  BY <1>1, <1>2, Constants, Posts, MeetingType DEF FilesTypeOK, TasksOK, AddLabel
<1>4. TasksOK'
  BY <1>1, <1>2, Constants
    DEF FilesTypeOK, TasksOK, LocalOK, PostOf, Its, AddLabel, IgnoreLabel
<1>5. LocalOK'
  BY <1>1, <1>2, Constants DEF LocalOK, TasksOK, PostOf, AddLabel
<1>6. RowsOK'
  BY <1>1, <1>2, Constants DEF FilesTypeOK, RowsOK, TasksOK, AddLabel
<1> DEFINE others == Worker \ {v}
<1>7. /\ \A u \in others : /\ fpc'[u] = fpc[u] /\ block'[u] = block[u]
                           /\ left'[u] = left[u] /\ file'[u] = file[u]
                           /\ PostOf(u)' = PostOf(u) /\ Its(u)' = Its(u)
  BY <1>1, <1>2 DEF FilesTypeOK, PostOf, Its
<1>8. AddSafe(v)' /\ DeleteSafe(v)'
  BY <1>1, <1>2, <1>7, Constants, Posts
    DEF FilesTypeOK, TasksOK, RowsOK, Safe, AddSafe, DeleteSafe, IgnoredIn, PostOf, Its,
        AddLabel, IgnoreLabel, Deleting
<1>9. Safe'
  <2>1. fpc[v] \in AddLabel /\ IgnoredIn(block[v])
    BY <1>1, <1>2 DEF Safe, AddSafe, AddLabel
  <2>2. blocks \subseteq blocks' /\ shown' \ shown \subseteq {block[v]}
        /\ blocks' \ blocks \subseteq {block[v]}
    BY <1>1
  <2>3. \A p \in (shown' \ shown) \cap Post : IgnoredIn(p)'
    <3>1. \A p : p = block[v] => IgnoredIn(p)'
      BY <1>1, <2>1, Constants DEF IgnoredIn
    <3> QED BY <2>2, <3>1
  <2> QED BY <1>1, <1>2, <1>7, <1>8, <2>1, <2>2, <2>3, Grows
<1>10. ASSUME met' = {} PROVE Calm'
  <2>1. /\ Meeting = {} /\ AddOK /\ IgnoreOK /\ PostsOK /\ UsedOK /\ KeptOK /\ ReleasedOK
        /\ PinnedOK /\ Meeting' = {}
    BY <1>10 DEF IInv, Calm
  <2>2. AddOK'
    BY <1>1, <1>2, <2>1, <1>7, Constants, Posts, Distant
      DEF FilesTypeOK, TasksOK, RowsOK, AddOK, IgnoredIn, PostOf, Its, AddLabel
  <2>3. IgnoreOK'
    <3>1. \A p \in shown' \cap Post : ~IgnoredIn(p)' => p \in shown /\ ~IgnoredIn(p)
      BY <1>1, <1>2, <2>1 DEF AddOK, IgnoredIn
    <3>2. \A u \in Worker : fpc'[u] \in IgnoreLabel => u \in others /\ fpc[u] \in IgnoreLabel
      BY <1>1, <1>2, <2>1, <1>7 DEF FilesTypeOK, IgnoreLabel
    <3>3. \A u \in Worker : fpc[u] \in IgnoreLabel => TargetOf[block[v]] # Its(u)
      BY <1>1, <1>2, <2>1, Distant, Posts DEF AddLabel
    <3> QED BY <1>1, <1>2, <2>1, <1>7, <3>1, <3>2, <3>3 DEF IgnoreOK, Deleting, IgnoreLabel
  <2>4. PostsOK'
    BY <1>1, <1>2, <2>1, <1>7, Constants, Posts DEF FilesTypeOK, TasksOK, PostsOK, AddLabel
  <2>5. UsedOK'
    BY <1>1, <1>2, <2>1, <1>7, Constants, Posts DEF FilesTypeOK, TasksOK, UsedOK, AddLabel
  <2>6. KeptOK'
    <3>1. \A p \in shown' \cap Post : ~IgnoredIn(p)' => p \in shown /\ ~IgnoredIn(p)
      BY <1>1, <1>2, <2>1 DEF AddOK, IgnoredIn
    <3> QED BY <1>1, <1>2, <2>1, <3>1 DEF KeptOK
  <2>7. ReleasedOK'
    BY <1>1, <1>2, <2>1, <1>7, Constants, Posts
      DEF FilesTypeOK, TasksOK, ReleasedOK, Only, Reused, AddLabel
  <2>8. PinnedOK'
    BY <1>1, <1>2, <2>1, <1>7, Constants, Posts DEF FilesTypeOK, TasksOK, PinnedOK, AddLabel
  <2> QED BY <2>1, <2>2, <2>3, <2>4, <2>5, <2>6, <2>7, <2>8 DEF Calm
<1> QED BY <1>3, <1>4, <1>5, <1>6, <1>9, <1>10 DEF IInv

LEMMA IndexConflictInv ==
  ASSUME IInv, met' = met \cup Meeting', NEW v \in Worker, IndexConflict(v)
  PROVE  IInv'
<1>1. /\ fpc[v] \in {"index", "indexOnly", "ignore"} /\ block[v] \in blocks
      /\ fpc' = [fpc EXCEPT ![v] = "idle"]
      /\ mux' = IF mux = v THEN NoBlock ELSE mux
      /\ block' = [block EXCEPT ![v] = NoBlock] /\ left' = [left EXCEPT ![v] = {}]
      /\ file' = [file EXCEPT ![v] = NoBlock]
      /\ UNCHANGED <<blocks, fileRows, targets, pinned, shown, spoiled, mishaps>>
  BY DEF IndexConflict, Clear, Go, store
<1>2. FilesTypeOK /\ TasksOK /\ LocalOK /\ RowsOK /\ Meeting \subseteq met /\ Safe
  BY DEF IInv
<1>3. FilesTypeOK'
  BY <1>1, <1>2, Constants, Posts, MeetingType DEF FilesTypeOK, TasksOK, AddLabel
<1>4. TasksOK'
  BY <1>1, <1>2, Constants
    DEF FilesTypeOK, TasksOK, LocalOK, PostOf, Its, AddLabel, IgnoreLabel
<1>5. LocalOK'
  BY <1>1, <1>2, Constants DEF LocalOK, TasksOK, PostOf, AddLabel
<1>6. RowsOK'
  BY <1>1, <1>2, Constants DEF FilesTypeOK, RowsOK, TasksOK, AddLabel
<1> DEFINE others == Worker \ {v}
<1>7. /\ \A u \in others : /\ fpc'[u] = fpc[u] /\ block'[u] = block[u]
                           /\ left'[u] = left[u] /\ file'[u] = file[u]
                           /\ PostOf(u)' = PostOf(u) /\ Its(u)' = Its(u)
  BY <1>1, <1>2 DEF FilesTypeOK, PostOf, Its
<1>8. AddSafe(v)' /\ DeleteSafe(v)'
  BY <1>1, <1>2, <1>7, Constants, Posts
    DEF FilesTypeOK, TasksOK, RowsOK, Safe, AddSafe, DeleteSafe, IgnoredIn, PostOf, Its,
        AddLabel, IgnoreLabel, Deleting
<1>9. Safe'
  BY <1>1, <1>2, <1>7, <1>8, Constants, Grows DEF FilesTypeOK, TasksOK, AddLabel, IgnoreLabel
<1>10. ASSUME met' = {} PROVE Calm'
  <2>1. /\ Meeting = {} /\ AddOK /\ IgnoreOK /\ PostsOK /\ UsedOK /\ KeptOK /\ ReleasedOK
        /\ PinnedOK /\ Meeting' = {}
    BY <1>10 DEF IInv, Calm
  <2>2. AddOK'
    BY <1>1, <1>2, <2>1, <1>7, Constants, Posts, Distant
      DEF FilesTypeOK, TasksOK, RowsOK, AddOK, IgnoredIn, PostOf, Its, AddLabel
  <2>3. IgnoreOK'
    BY <1>1, <1>2, <2>1, <1>7, Constants, Posts, Distant
      DEF FilesTypeOK, TasksOK, IgnoreOK, IgnoredIn, PostOf, Its, Deleting, AddLabel
  <2>4. PostsOK'
    BY <1>1, <1>2, <2>1, <1>7, Constants, Posts DEF FilesTypeOK, TasksOK, PostsOK, AddLabel
  <2>5. UsedOK'
    BY <1>1, <1>2, <2>1, <1>7, Constants, Posts DEF FilesTypeOK, TasksOK, UsedOK, AddLabel
  <2>6. KeptOK'
    BY <1>1, <1>2, <2>1, <1>7, Constants, Posts DEF FilesTypeOK, TasksOK, KeptOK, IgnoredIn, AddLabel
  <2>7. ReleasedOK'
    BY <1>1, <1>2, <2>1, <1>7, Constants, Posts
      DEF FilesTypeOK, TasksOK, ReleasedOK, Only, Reused, AddLabel
  <2>8. PinnedOK'
    <3> SUFFICES ASSUME spoiled = {}, NEW y \in pinned \cap File, y \notin fileRows
                 PROVE  \E w \in others : fpc[w] \in {"pin", "row", "index", "link"} /\ y \in FilesOf[Its(w)]
      BY <1>1, <1>7 DEF PinnedOK
    <3>1. PICK w \in Worker : fpc[w] \in {"pin", "row", "index", "link"} /\ y \in FilesOf[Its(w)]
      BY <1>2, <2>1 DEF PinnedOK
    <3>2. CASE w = v
      <4>1. fpc[v] = "index" /\ block[v] \in blocks \cap Post /\ Its(v) = TargetOf[block[v]]
        BY <1>1, <1>2, <2>1, <3>1, <3>2, Posts DEF AddLabel
      <4>2. ~IgnoredIn(block[v])
        BY <1>2, <2>1, <4>1 DEF AddOK, AddLabel
      <4>3. block[v] \notin shown
        BY <1>2, <2>1, <3>1, <3>2, <4>1, <4>2 DEF KeptOK
      <4>4. PICK u \in Worker : fpc[u] = "link" /\ block[u] = block[v]
        BY <1>2, <2>1, <4>1, <4>3 DEF PostsOK
      <4>5. u # v /\ Its(u) = Its(v)
        BY <4>1, <4>4 DEF Its, PostOf
      <4> QED BY <3>1, <3>2, <4>4, <4>5
    <3> QED BY <3>1, <3>2
  <2> QED BY <2>1, <2>2, <2>3, <2>4, <2>5, <2>6, <2>7, <2>8 DEF Calm
<1> QED BY <1>3, <1>4, <1>5, <1>6, <1>9, <1>10 DEF IInv

LEMMA LinkNextInv ==
  ASSUME IInv, met' = met \cup Meeting', NEW v \in Worker, NEW x \in File, AddTarget(v, x),
         left[v] # {x}
  PROVE  IInv'
<1>1. /\ fpc[v] = "link" /\ x \in left[v] /\ x \in fileRows
      /\ targets' = [targets EXCEPT ![x] = @ \cup {Its(v)}]
      /\ left' = [left EXCEPT ![v] = @ \ {x}]
      /\ UNCHANGED <<blocks, fileRows, pinned, mux, fpc, block, file, shown, spoiled, mishaps>>
  BY DEF AddTarget, Through, LastLeft, Reached
<1>2. FilesTypeOK /\ TasksOK /\ LocalOK /\ RowsOK /\ Meeting \subseteq met /\ Safe
  BY DEF IInv
<1>3. FilesTypeOK'
  BY <1>1, <1>2, Constants, Posts, MeetingType DEF FilesTypeOK, TasksOK, AddLabel
<1>4. TasksOK'
  BY <1>1, <1>2, Constants DEF FilesTypeOK, TasksOK, LocalOK, PostOf, Its, AddLabel
<1>5. LocalOK'
  BY <1>1, <1>2, Constants DEF LocalOK, TasksOK, PostOf, AddLabel
<1>6. RowsOK'
  BY <1>1, <1>2, Constants DEF FilesTypeOK, RowsOK, TasksOK, AddLabel
<1> DEFINE others == Worker \ {v}
<1>7. /\ \A u \in others : /\ fpc'[u] = fpc[u] /\ block'[u] = block[u]
                           /\ left'[u] = left[u] /\ file'[u] = file[u]
                           /\ PostOf(u)' = PostOf(u) /\ Its(u)' = Its(u)
  BY <1>1, <1>2 DEF FilesTypeOK, PostOf, Its
<1>7a. \A u \in Worker : /\ (fpc'[u] \in AddLabel) <=> (fpc[u] \in AddLabel)
                         /\ block'[u] = block[u] /\ Its(u)' = Its(u)
  BY <1>1, <1>2, <1>7 DEF FilesTypeOK, PostOf, Its
<1>7b. \A u \in Worker :
         fpc[u] \in {"pin", "row", "index", "link"} => fpc'[u] \in {"pin", "row", "index", "link"}
  BY <1>1, <1>2, <1>7
<1>7c. \A g \in IgnoreBlock : (Only(g)' <=> Only(g)) /\ (Reused(g)' <=> Reused(g))
  BY <1>1, <1>7a DEF Only, Reused
<1>8. AddSafe(v)' /\ DeleteSafe(v)'
  BY <1>1, <1>2, <1>7, Constants, Posts
    DEF FilesTypeOK, TasksOK, RowsOK, Safe, AddSafe, DeleteSafe, IgnoredIn, PostOf, Its,
        AddLabel, IgnoreLabel, Deleting
<1>9. Safe'
  BY <1>1, <1>2, <1>7, <1>8, Constants, Grows DEF FilesTypeOK, TasksOK, AddLabel, IgnoreLabel
<1>10. ASSUME met' = {} PROVE Calm'
  <2>1. /\ Meeting = {} /\ AddOK /\ IgnoreOK /\ PostsOK /\ UsedOK /\ KeptOK /\ ReleasedOK
        /\ PinnedOK /\ Meeting' = {}
    BY <1>10 DEF IInv, Calm
  <2>2. AddOK'
    BY <1>1, <1>2, <2>1, <1>7, Constants, Posts, Distant
      DEF FilesTypeOK, TasksOK, RowsOK, AddOK, IgnoredIn, PostOf, Its, AddLabel
  <2>3. IgnoreOK'
    BY <1>1, <1>2, <2>1, <1>7, Constants, Posts, Distant
      DEF FilesTypeOK, TasksOK, IgnoreOK, IgnoredIn, PostOf, Its, Deleting, AddLabel
  <2>4. PostsOK'
    BY <1>1, <1>2, <2>1, <1>7, Constants, Posts DEF FilesTypeOK, TasksOK, PostsOK, AddLabel
  <2>5. UsedOK'
    <3>1. \A k \in Target : k \in pinned' \/ (\E y \in File : k \in targets'[y]) =>
            k = Its(v) \/ k \in pinned \/ (\E y \in File : k \in targets[y])
      BY <1>1, <1>2, <2>1
    <3>2. fpc[v] \in AddLabel
      BY <1>1 DEF AddLabel
    <3> QED BY <1>1, <1>2, <2>1, <1>7a, <3>1, <3>2 DEF UsedOK
  <2>6. KeptOK'
    BY <1>1, <1>2, <2>1, <1>7, Constants, Posts DEF FilesTypeOK, TasksOK, KeptOK, IgnoredIn, AddLabel
  <2>7. ReleasedOK'
    <3> SUFFICES ASSUME spoiled = {}, NEW g \in shown \cap IgnoreBlock, Only(g), ~Reused(g)
                 PROVE  /\ TargetOf[Ignored[g]] \notin pinned'
                        /\ \A y \in File : TargetOf[Ignored[g]] \notin targets'[y]
      BY <1>1, <1>7c DEF ReleasedOK
    <3>1. /\ TargetOf[Ignored[g]] \notin pinned /\ TargetOf[Ignored[g]] \in Target
          /\ \A y \in File : TargetOf[Ignored[g]] \notin targets[y]
      BY <1>2, <2>1, Constants DEF ReleasedOK
    <3>2. TargetOf[Ignored[g]] # Its(v)
      <4>1. g \in blocks /\ ~IgnoredIn(block[v]) /\ fpc[v] \in AddLabel
        BY <1>1, <1>2, <2>1 DEF FilesTypeOK, AddOK, AddLabel
      <4> QED BY <4>1 DEF IgnoredIn, Reused
    <3> QED BY <1>1, <1>2, <2>1, <3>1, <3>2, Constants
  <2>8. PinnedOK'
    BY <1>1, <1>2, <2>1, <1>7a, <1>7b DEF PinnedOK
  <2> QED BY <2>1, <2>2, <2>3, <2>4, <2>5, <2>6, <2>7, <2>8 DEF Calm
<1> QED BY <1>3, <1>4, <1>5, <1>6, <1>9, <1>10 DEF IInv

LEMMA LinkLastInv ==
  ASSUME IInv, met' = met \cup Meeting', NEW v \in Worker, NEW x \in File, AddTarget(v, x),
         left[v] = {x}
  PROVE  IInv'
<1>1. /\ fpc[v] = "link" /\ x \in left[v] /\ x \in fileRows
      /\ targets' = [targets EXCEPT ![x] = @ \cup {Its(v)}]
      /\ fpc' = [fpc EXCEPT ![v] = "idle"]
      /\ mux' = IF mux = v THEN NoBlock ELSE mux
      /\ block' = [block EXCEPT ![v] = NoBlock] /\ left' = [left EXCEPT ![v] = {}]
      /\ file' = [file EXCEPT ![v] = NoBlock]
      /\ shown' = shown \cup {block[v]}
      /\ UNCHANGED <<blocks, fileRows, pinned, spoiled, mishaps>>
  BY DEF AddTarget, LastLeft, Ends, Clear, Go, Reached
<1>2. FilesTypeOK /\ TasksOK /\ LocalOK /\ RowsOK /\ Meeting \subseteq met /\ Safe
  BY DEF IInv
<1>3. FilesTypeOK'
  BY <1>1, <1>2, Constants, Posts, MeetingType DEF FilesTypeOK, TasksOK, AddLabel
<1>4. TasksOK'
  BY <1>1, <1>2, Constants
    DEF FilesTypeOK, TasksOK, LocalOK, PostOf, Its, AddLabel, IgnoreLabel
<1>5. LocalOK'
  BY <1>1, <1>2, Constants DEF LocalOK, TasksOK, PostOf, AddLabel
<1>6. RowsOK'
  BY <1>1, <1>2, Constants DEF FilesTypeOK, RowsOK, TasksOK, AddLabel
<1> DEFINE others == Worker \ {v}
<1>7. /\ \A u \in others : /\ fpc'[u] = fpc[u] /\ block'[u] = block[u]
                           /\ left'[u] = left[u] /\ file'[u] = file[u]
                           /\ PostOf(u)' = PostOf(u) /\ Its(u)' = Its(u)
  BY <1>1, <1>2 DEF FilesTypeOK, PostOf, Its
<1>8. AddSafe(v)' /\ DeleteSafe(v)'
  BY <1>1, <1>2, <1>7, Constants, Posts
    DEF FilesTypeOK, TasksOK, RowsOK, Safe, AddSafe, DeleteSafe, IgnoredIn, PostOf, Its,
        AddLabel, IgnoreLabel, Deleting
<1>9. Safe'
  <2>1. fpc[v] = "link" /\ fpc[v] \in AddLabel /\ block[v] \in Post
        /\ Its(v) = TargetOf[block[v]]
    BY <1>1, <1>2 DEF TasksOK, AddLabel, Its, PostOf
  <2>2. AddSafe(v)
    BY <1>2 DEF Safe
  <2>3. \A k \in Target : FilesOf[k] \subseteq File
    BY Constants
  <2>4. ASSUME NEW p \in (shown' \ shown) \cap Post PROVE p = block[v] /\ Kept(p)'
    <3>1. p = block[v] /\ Its(v) \in Target
      BY <1>1, <2>1, Constants
    <3>2. Its(v) \in pinned' \/ FilesOf[Its(v)] \subseteq met'
      BY <1>1, <2>1, <2>2 DEF AddSafe
    <3>3. ASSUME NEW y \in FilesOf[Its(v)], y \notin met'
          PROVE  y \in pinned' /\ y \in fileRows' /\ Its(v) \in targets'[y]
      BY <1>1, <1>2, <2>1, <2>2, <2>3, <3>1, <3>3 DEF AddSafe, FilesTypeOK
    <3>4. TargetOf[p] = Its(v)
      BY <2>1, <3>1
    <3> QED BY <3>1, <3>2, <3>3, <3>4 DEF Kept
  <2> QED
    BY <1>1, <1>2, <1>7, <1>8, <2>1, <2>4, Grows DEF FilesTypeOK
<1>10. ASSUME met' = {} PROVE Calm'
  <2>1. /\ Meeting = {} /\ AddOK /\ IgnoreOK /\ PostsOK /\ UsedOK /\ KeptOK /\ ReleasedOK
        /\ PinnedOK /\ Meeting' = {}
    BY <1>10 DEF IInv, Calm
  <2>2. AddOK'
    BY <1>1, <1>2, <2>1, <1>7, Constants, Posts, Distant
      DEF FilesTypeOK, TasksOK, RowsOK, AddOK, IgnoredIn, PostOf, Its, AddLabel, IgnoreLabel
  <2>3. IgnoreOK'
    <3>1. /\ fpc[v] \in AddLabel /\ block[v] \in Post /\ Its(v) = TargetOf[block[v]]
          /\ x \in FilesOf[Its(v)]
      BY <1>1, <1>2, <2>1, Posts DEF AddLabel, TasksOK
    <3>2. \A u \in Worker : fpc'[u] \in IgnoreLabel => u \in others /\ fpc[u] \in IgnoreLabel
      BY <1>1, <1>2, <2>1, <1>7 DEF FilesTypeOK, IgnoreLabel
    <3>3. \A u \in Worker : fpc[u] \in IgnoreLabel =>
            Its(v) # Its(u) /\ (fpc[u] \in {"release", "drop"} => file[u] \notin FilesOf[Its(v)])
      BY <1>2, <2>1, <3>1, Distant DEF TasksOK
    <3>4. \A y \in File, k \in Target : k # Its(v) /\ k \notin targets[y] => k \notin targets'[y]
      BY <1>1, <1>2, <2>1
    <3>5. \A u \in Worker : fpc[u] \in IgnoreLabel =>
            Its(u) \in Target /\ FilesOf[Its(u)] \subseteq File /\ left[u] \subseteq FilesOf[Its(u)]
      BY <1>2, <2>1, Posts, Constants DEF TasksOK
    <3> QED
      <4> SUFFICES ASSUME NEW u \in Worker, u \in others, fpc[u] \in IgnoreLabel, fpc'[u] = fpc[u]
                   PROVE  /\ fpc[u] \in Deleting =>
                               \A p \in blocks \cap Post : TargetOf[p] = Its(u) => p = PostOf(u)
                          /\ fpc[u] \in Deleting \ {"unpin"} =>
                               /\ Its(u) \notin pinned
                               /\ \A y \in FilesOf[Its(u)] \ left[u] : Its(u) \notin targets'[y]
                          /\ fpc[u] \in {"orphan", "release", "drop"} => Its(u) \notin targets'[file[u]]
                          /\ fpc[u] \in {"release", "drop"} =>
                               \A p \in shown' \cap Post : ~IgnoredIn(p) => file[u] \notin FilesOf[TargetOf[p]]
                          /\ fpc[u] = "drop" => file[u] \notin pinned
        BY <1>1, <1>7, <3>2 DEF IgnoreOK, IgnoredIn, Deleting, IgnoreLabel
      <4>1. fpc[u] \in {"orphan", "release", "drop"} => file[u] \in File
        BY <1>2, <2>1, <3>5 DEF TasksOK
      <4> QED BY <1>1, <1>2, <2>1, <3>1, <3>3, <3>4, <3>5, <4>1 DEF IgnoreOK
  <2>4. PostsOK'
    BY <1>1, <1>2, <2>1, <1>7, Constants, Posts DEF FilesTypeOK, TasksOK, PostsOK, AddLabel
  <2>5. UsedOK'
    BY <1>1, <1>2, <2>1, <1>7, Constants, Posts DEF FilesTypeOK, TasksOK, UsedOK, AddLabel
  <2>6. KeptOK'
    <3> SUFFICES ASSUME NEW p \in shown' \cap Post, ~IgnoredIn(p)
                 PROVE  /\ TargetOf[p] \in pinned
                        /\ \A y \in FilesOf[TargetOf[p]] :
                             y \in pinned /\ y \in fileRows /\ TargetOf[p] \in targets'[y]
      BY <1>1 DEF KeptOK, IgnoredIn
    <3>1. \A y \in File, k \in Target : k \in targets[y] => k \in targets'[y]
      BY <1>1, <1>2, <2>1
    <3>2. TargetOf[p] \in Target /\ FilesOf[TargetOf[p]] \subseteq File
      BY Constants
    <3>3. CASE p \in shown
      BY <1>2, <2>1, <3>1, <3>2, <3>3 DEF KeptOK
    <3>4. CASE p = block[v]
      <4>1. Its(v) = TargetOf[p]
        BY <1>1, <1>2, <2>1, <3>4, Posts DEF AddLabel
      <4>2. Its(v) \in targets'[x]
        BY <1>1, <1>2, <2>1 DEF FilesTypeOK
      <4> QED BY <1>1, <1>2, <2>1, <3>1, <3>2, <4>1, <4>2 DEF AddOK
    <3> QED BY <1>1, <3>3, <3>4
  <2>7. ReleasedOK'
    <3> SUFFICES ASSUME spoiled = {}, NEW g \in shown' \cap IgnoreBlock, Only(g)', ~Reused(g)'
                 PROVE  /\ TargetOf[Ignored[g]] \notin pinned'
                        /\ \A y \in File : TargetOf[Ignored[g]] \notin targets'[y]
      BY <1>1 DEF ReleasedOK
    <3>1. g \in shown /\ g \in blocks /\ block[v] \in blocks \cap Post /\ TargetOf[block[v]] = Its(v)
      BY <1>1, <1>2, <2>1, Posts, Constants DEF FilesTypeOK, TasksOK, AddLabel
    <3>2. block[v] # Ignored[g]
      BY <1>1, <1>2, <2>1, <3>1 DEF AddOK, AddLabel, IgnoredIn
    <3>3. Only(g)
      BY <1>1 DEF Only
    <3>4. Its(v) # TargetOf[Ignored[g]]
      BY <3>1, <3>2, <3>3 DEF Only
    <3>5. ~Reused(g)
      BY <1>7, <3>4 DEF Reused
    <3>6. /\ TargetOf[Ignored[g]] \notin pinned /\ TargetOf[Ignored[g]] \in Target
          /\ \A y \in File : TargetOf[Ignored[g]] \notin targets[y]
      BY <1>2, <2>1, <3>1, <3>3, <3>5, Constants DEF ReleasedOK
    <3> QED BY <1>1, <1>2, <2>1, <3>4, <3>6
  <2>8. PinnedOK'
    <3>1. \A y \in FilesOf[Its(v)] : y \in fileRows
      BY <1>1, <1>2, <2>1 DEF AddOK
    <3> QED BY <1>1, <1>2, <2>1, <1>7, <3>1 DEF PinnedOK
  <2> QED BY <2>1, <2>2, <2>3, <2>4, <2>5, <2>6, <2>7, <2>8 DEF Calm
<1> QED BY <1>3, <1>4, <1>5, <1>6, <1>9, <1>10 DEF IInv

LEMMA FetchFailsInv ==
  ASSUME IInv, met' = met \cup Meeting', NEW v \in Worker, FetchFails(v)
  PROVE  IInv'
<1>1. /\ fpc[v] \in AddLabel
      /\ spoiled' = spoiled \cup {Its(v)}
      /\ fpc' = [fpc EXCEPT ![v] = "idle"]
      /\ mux' = IF mux = v THEN NoBlock ELSE mux
      /\ block' = [block EXCEPT ![v] = NoBlock] /\ left' = [left EXCEPT ![v] = {}]
      /\ file' = [file EXCEPT ![v] = NoBlock]
      /\ mishaps < MaxMishaps /\ mishaps' = mishaps + 1
      /\ UNCHANGED <<blocks, fileRows, targets, pinned, shown>>
  BY DEF FetchFails, GivesUp, Posting, AddLabel, Mishap, Clear, Go, store
<1>2. FilesTypeOK /\ TasksOK /\ LocalOK /\ RowsOK /\ Meeting \subseteq met /\ Safe
  BY DEF IInv
<1>3. FilesTypeOK'
  BY <1>1, <1>2, Constants, FilesConstants, Posts, MeetingType DEF FilesTypeOK, TasksOK, AddLabel
<1>4. TasksOK'
  BY <1>1, <1>2, Constants
    DEF FilesTypeOK, TasksOK, LocalOK, PostOf, Its, AddLabel, IgnoreLabel
<1>5. LocalOK'
  BY <1>1, <1>2, Constants DEF LocalOK, TasksOK, PostOf, AddLabel
<1>6. RowsOK'
  BY <1>1, <1>2, Constants DEF FilesTypeOK, RowsOK, TasksOK, AddLabel
<1> DEFINE others == Worker \ {v}
<1>7. /\ \A u \in others : /\ fpc'[u] = fpc[u] /\ block'[u] = block[u]
                           /\ left'[u] = left[u] /\ file'[u] = file[u]
                           /\ PostOf(u)' = PostOf(u) /\ Its(u)' = Its(u)
  BY <1>1, <1>2 DEF FilesTypeOK, PostOf, Its
<1>8. AddSafe(v)' /\ DeleteSafe(v)'
  BY <1>1, <1>2, <1>7, Constants, Posts
    DEF FilesTypeOK, TasksOK, RowsOK, Safe, AddSafe, DeleteSafe, IgnoredIn, PostOf, Its,
        AddLabel, IgnoreLabel, Deleting
<1>9. Safe'
  BY <1>1, <1>2, <1>7, <1>8, Constants, Grows DEF FilesTypeOK, TasksOK, AddLabel, IgnoreLabel
<1>10. ASSUME met' = {} PROVE Calm'
  <2>1. /\ Meeting = {} /\ AddOK /\ IgnoreOK /\ PostsOK /\ UsedOK /\ KeptOK /\ ReleasedOK
        /\ PinnedOK /\ Meeting' = {}
    BY <1>10 DEF IInv, Calm
  <2>2. AddOK'
    BY <1>1, <1>2, <2>1, <1>7, Constants, Posts, Distant
      DEF FilesTypeOK, TasksOK, RowsOK, AddOK, IgnoredIn, PostOf, Its, AddLabel, IgnoreLabel
  <2>3. IgnoreOK'
    BY <1>1, <1>2, <2>1, <1>7, Constants, Posts, Distant
      DEF FilesTypeOK, TasksOK, IgnoreOK, IgnoredIn, PostOf, Its, Deleting, AddLabel
  <2>4. PostsOK'
    BY <1>1, <1>2, <2>1, <1>7, Constants, Posts DEF FilesTypeOK, TasksOK, PostsOK, AddLabel
  <2>5. UsedOK'
    BY <1>1, <1>2, <2>1, <1>7, Constants, Posts DEF FilesTypeOK, TasksOK, UsedOK, AddLabel
  <2>6. KeptOK'
    BY <1>1, <1>2, <2>1, <1>7, Constants, Posts DEF FilesTypeOK, TasksOK, KeptOK, IgnoredIn, AddLabel
  <2>7. ReleasedOK'
    BY <1>1, <1>2, <2>1, <1>7, Constants, Posts
      DEF FilesTypeOK, TasksOK, ReleasedOK, Only, Reused, AddLabel, IgnoreLabel
  <2>8. PinnedOK'
    BY <1>1, <1>2, <2>1, <1>7, Constants, Posts DEF FilesTypeOK, TasksOK, PinnedOK, AddLabel
  <2> QED BY <2>1, <2>2, <2>3, <2>4, <2>5, <2>6, <2>7, <2>8 DEF Calm
<1> QED BY <1>3, <1>4, <1>5, <1>6, <1>9, <1>10 DEF IInv

LEMMA IndexIgnoreInv ==
  ASSUME IInv, met' = met \cup Meeting', NEW v \in Worker, IndexIgnore(v)
  PROVE  IInv'
<1>1. /\ fpc[v] = "ignore" /\ block[v] \notin blocks
      /\ blocks' = blocks \cup {block[v]}
      /\ fpc' = [fpc EXCEPT ![v] = "look"]
      /\ UNCHANGED <<fileRows, targets, pinned, mux, block, left, file, shown, spoiled, mishaps>>
  BY DEF IndexIgnore, Go, Reached
<1>2. FilesTypeOK /\ TasksOK /\ LocalOK /\ RowsOK /\ Meeting \subseteq met /\ Safe
  BY DEF IInv
<1>3. FilesTypeOK'
  BY <1>1, <1>2, Constants, Posts, MeetingType DEF FilesTypeOK, TasksOK, AddLabel, IgnoreLabel
<1>4. TasksOK'
  BY <1>1, <1>2, Constants DEF FilesTypeOK, TasksOK, LocalOK, PostOf, Its, AddLabel
<1>5. LocalOK'
  BY <1>1, <1>2, Constants DEF LocalOK, TasksOK, PostOf, AddLabel, IgnoreLabel
<1>6. RowsOK'
  BY <1>1, <1>2, Constants DEF FilesTypeOK, RowsOK, TasksOK, AddLabel
<1> DEFINE others == Worker \ {v}
<1>7. /\ \A u \in others : /\ fpc'[u] = fpc[u] /\ block'[u] = block[u]
                           /\ left'[u] = left[u] /\ file'[u] = file[u]
                           /\ PostOf(u)' = PostOf(u) /\ Its(u)' = Its(u)
  BY <1>1, <1>2 DEF FilesTypeOK, PostOf, Its
<1>8. AddSafe(v)' /\ DeleteSafe(v)'
  BY <1>1, <1>2, <1>7, Constants, Posts
    DEF FilesTypeOK, TasksOK, RowsOK, Safe, AddSafe, DeleteSafe, IgnoredIn, PostOf, Its,
        AddLabel, IgnoreLabel, Deleting
<1>9. Safe'
  BY <1>1, <1>2, <1>7, <1>8, Constants, Grows DEF FilesTypeOK, TasksOK, AddLabel, IgnoreLabel
<1>10. ASSUME met' = {} PROVE Calm'
  <2>1. /\ Meeting = {} /\ AddOK /\ IgnoreOK /\ PostsOK /\ UsedOK /\ KeptOK /\ ReleasedOK
        /\ PinnedOK /\ Meeting' = {}
    BY <1>10 DEF IInv, Calm
  <2>2. AddOK'
    BY <1>1, <1>2, <2>1, <1>7, Constants, Posts, Distant
      DEF FilesTypeOK, TasksOK, RowsOK, AddOK, IgnoredIn, PostOf, Its, AddLabel
  <2>3. IgnoreOK'
    BY <1>1, <1>2, <2>1, <1>7, Constants, Posts, Distant
      DEF FilesTypeOK, TasksOK, IgnoreOK, IgnoredIn, PostOf, Its, Deleting, AddLabel
  <2>4. PostsOK'
    BY <1>1, <1>2, <2>1, <1>7, Constants, Posts DEF FilesTypeOK, TasksOK, PostsOK, AddLabel
  <2>5. UsedOK'
    BY <1>1, <1>2, <2>1, <1>7, Constants, Posts DEF FilesTypeOK, TasksOK, UsedOK, AddLabel
  <2>6. KeptOK'
    BY <1>1, <1>2, <2>1, <1>7, Constants, Posts DEF FilesTypeOK, TasksOK, KeptOK, IgnoredIn, AddLabel
  <2>7. ReleasedOK'
    BY <1>1, <1>2, <2>1, <1>7, Constants, Posts
      DEF FilesTypeOK, TasksOK, ReleasedOK, Only, Reused, AddLabel
  <2>8. PinnedOK'
    BY <1>1, <1>2, <2>1, <1>7, Constants, Posts DEF FilesTypeOK, TasksOK, PinnedOK, AddLabel
  <2> QED BY <2>1, <2>2, <2>3, <2>4, <2>5, <2>6, <2>7, <2>8 DEF Calm
<1> QED BY <1>3, <1>4, <1>5, <1>6, <1>9, <1>10 DEF IInv

LEMMA LookOnInv ==
  ASSUME IInv, met' = met \cup Meeting', NEW v \in Worker, Look(v),
         PostOf(v) \in blocks
  PROVE  IInv'
<1>1. /\ fpc[v] = "look"
      /\ fpc' = [fpc EXCEPT ![v] = "count"]
      /\ UNCHANGED <<blocks, fileRows, targets, pinned, mux, block, left, file, shown, spoiled,
                     mishaps>>
  BY DEF Look, Go, Reached, store
<1>2. FilesTypeOK /\ TasksOK /\ LocalOK /\ RowsOK /\ Meeting \subseteq met /\ Safe
  BY DEF IInv
<1>3. FilesTypeOK'
  BY <1>1, <1>2, Constants, Posts, MeetingType DEF FilesTypeOK, TasksOK, AddLabel, IgnoreLabel
<1>4. TasksOK'
  BY <1>1, <1>2, Constants DEF FilesTypeOK, TasksOK, LocalOK, PostOf, Its, AddLabel
<1>5. LocalOK'
  BY <1>1, <1>2, Constants DEF LocalOK, TasksOK, PostOf, AddLabel
<1>6. RowsOK'
  BY <1>1, <1>2, Constants DEF FilesTypeOK, RowsOK, TasksOK, AddLabel
<1> DEFINE others == Worker \ {v}
<1>7. /\ \A u \in others : /\ fpc'[u] = fpc[u] /\ block'[u] = block[u]
                           /\ left'[u] = left[u] /\ file'[u] = file[u]
                           /\ PostOf(u)' = PostOf(u) /\ Its(u)' = Its(u)
  BY <1>1, <1>2 DEF FilesTypeOK, PostOf, Its
<1>8. AddSafe(v)' /\ DeleteSafe(v)'
  BY <1>1, <1>2, <1>7, Constants, Posts
    DEF FilesTypeOK, TasksOK, RowsOK, Safe, AddSafe, DeleteSafe, IgnoredIn, PostOf, Its,
        AddLabel, IgnoreLabel, Deleting
<1>9. Safe'
  BY <1>1, <1>2, <1>7, <1>8, Constants, Grows DEF FilesTypeOK, TasksOK, AddLabel, IgnoreLabel
<1>10. ASSUME met' = {} PROVE Calm'
  <2>1. /\ Meeting = {} /\ AddOK /\ IgnoreOK /\ PostsOK /\ UsedOK /\ KeptOK /\ ReleasedOK
        /\ PinnedOK /\ Meeting' = {}
    BY <1>10 DEF IInv, Calm
  <2>2. AddOK'
    BY <1>1, <1>2, <2>1, <1>7, Constants, Posts, Distant
      DEF FilesTypeOK, TasksOK, RowsOK, AddOK, IgnoredIn, PostOf, Its, AddLabel
  <2>3. IgnoreOK'
    BY <1>1, <1>2, <2>1, <1>7, Constants, Posts, Distant
      DEF FilesTypeOK, TasksOK, IgnoreOK, IgnoredIn, PostOf, Its, Deleting, AddLabel
  <2>4. PostsOK'
    BY <1>1, <1>2, <2>1, <1>7, Constants, Posts DEF FilesTypeOK, TasksOK, PostsOK, AddLabel
  <2>5. UsedOK'
    BY <1>1, <1>2, <2>1, <1>7, Constants, Posts DEF FilesTypeOK, TasksOK, UsedOK, AddLabel
  <2>6. KeptOK'
    BY <1>1, <1>2, <2>1, <1>7, Constants, Posts DEF FilesTypeOK, TasksOK, KeptOK, IgnoredIn, AddLabel
  <2>7. ReleasedOK'
    BY <1>1, <1>2, <2>1, <1>7, Constants, Posts
      DEF FilesTypeOK, TasksOK, ReleasedOK, Only, Reused, AddLabel
  <2>8. PinnedOK'
    BY <1>1, <1>2, <2>1, <1>7, Constants, Posts DEF FilesTypeOK, TasksOK, PinnedOK, AddLabel
  <2> QED BY <2>1, <2>2, <2>3, <2>4, <2>5, <2>6, <2>7, <2>8 DEF Calm
<1> QED BY <1>3, <1>4, <1>5, <1>6, <1>9, <1>10 DEF IInv

LEMMA LookEndsInv ==
  ASSUME IInv, met' = met \cup Meeting', NEW v \in Worker, Look(v),
         PostOf(v) \notin blocks
  PROVE  IInv'
<1>1. /\ fpc[v] = "look"
      /\ fpc' = [fpc EXCEPT ![v] = "idle"]
      /\ mux' = IF mux = v THEN NoBlock ELSE mux
      /\ block' = [block EXCEPT ![v] = NoBlock] /\ left' = [left EXCEPT ![v] = {}]
      /\ file' = [file EXCEPT ![v] = NoBlock]
      /\ shown' = shown \cup {block[v]}
      /\ UNCHANGED <<blocks, fileRows, targets, pinned, spoiled, mishaps>>
  BY DEF Look, Ends, Clear, Go, Reached, store
<1>2. FilesTypeOK /\ TasksOK /\ LocalOK /\ RowsOK /\ Meeting \subseteq met /\ Safe
  BY DEF IInv
<1>3. FilesTypeOK'
  BY <1>1, <1>2, Constants, Posts, MeetingType DEF FilesTypeOK, TasksOK, AddLabel
<1>4. TasksOK'
  BY <1>1, <1>2, Constants
    DEF FilesTypeOK, TasksOK, LocalOK, PostOf, Its, AddLabel, IgnoreLabel
<1>5. LocalOK'
  BY <1>1, <1>2, Constants DEF LocalOK, TasksOK, PostOf, AddLabel
<1>6. RowsOK'
  BY <1>1, <1>2, Constants DEF FilesTypeOK, RowsOK, TasksOK, AddLabel
<1> DEFINE others == Worker \ {v}
<1>7. /\ \A u \in others : /\ fpc'[u] = fpc[u] /\ block'[u] = block[u]
                           /\ left'[u] = left[u] /\ file'[u] = file[u]
                           /\ PostOf(u)' = PostOf(u) /\ Its(u)' = Its(u)
  BY <1>1, <1>2 DEF FilesTypeOK, PostOf, Its
<1>8. AddSafe(v)' /\ DeleteSafe(v)'
  BY <1>1, <1>2, <1>7, Constants, Posts
    DEF FilesTypeOK, TasksOK, RowsOK, Safe, AddSafe, DeleteSafe, IgnoredIn, PostOf, Its,
        AddLabel, IgnoreLabel, Deleting
<1>9. Safe'
  BY <1>1, <1>2, <1>7, <1>8, Constants, Grows DEF FilesTypeOK, TasksOK, AddLabel, IgnoreLabel
<1>10. ASSUME met' = {} PROVE Calm'
  <2>1. /\ Meeting = {} /\ AddOK /\ IgnoreOK /\ PostsOK /\ UsedOK /\ KeptOK /\ ReleasedOK
        /\ PinnedOK /\ Meeting' = {}
    BY <1>10 DEF IInv, Calm
  <2>2. AddOK'
    BY <1>1, <1>2, <2>1, <1>7, Constants, Posts, Distant
      DEF FilesTypeOK, TasksOK, RowsOK, AddOK, IgnoredIn, PostOf, Its, AddLabel, IgnoreLabel
  <2>3. IgnoreOK'
    BY <1>1, <1>2, <2>1, <1>7, Constants, Posts, Distant
      DEF FilesTypeOK, TasksOK, IgnoreOK, IgnoredIn, PostOf, Its, Deleting, AddLabel
  <2>4. PostsOK'
    BY <1>1, <1>2, <2>1, <1>7, Constants, Posts DEF FilesTypeOK, TasksOK, PostsOK, AddLabel
  <2>5. UsedOK'
    BY <1>1, <1>2, <2>1, <1>7, Constants, Posts DEF FilesTypeOK, TasksOK, UsedOK, AddLabel
  <2>6. KeptOK'
    BY <1>1, <1>2, <2>1, <1>7, Constants, Posts DEF FilesTypeOK, TasksOK, KeptOK, IgnoredIn, AddLabel
  <2>7. ReleasedOK'
    <3> SUFFICES ASSUME spoiled = {}, NEW g \in shown' \cap IgnoreBlock, Only(g)', ~Reused(g)'
                 PROVE  /\ TargetOf[Ignored[g]] \notin pinned
                        /\ \A y \in File : TargetOf[Ignored[g]] \notin targets'[y]
      BY <1>1 DEF ReleasedOK
    <3>1. Only(g) /\ ~Reused(g)
      BY <1>1, <1>7 DEF Only, Reused, AddLabel
    <3>2. CASE g \in shown
      BY <1>1, <1>2, <2>1, <3>1, <3>2 DEF ReleasedOK
    <3>3. CASE g = block[v]
      <4>1. Its(v) = TargetOf[Ignored[g]] /\ PostOf(v) = Ignored[g] /\ Its(v) \in Target /\ fpc[v] \in IgnoreLabel
        BY <1>1, <1>2, <2>1, <3>3, Posts DEF IgnoreLabel
      <4>2. ~\E p \in blocks \cap Post : TargetOf[p] = Its(v)
        BY <3>1, <4>1 DEF Only
      <4>3. ~\E w \in Worker : fpc[w] \in AddLabel /\ Its(w) = Its(v)
        BY <1>2, <2>1, <4>1, Distant
      <4> QED BY <1>1, <1>2, <2>1, <4>1, <4>2, <4>3 DEF UsedOK
    <3> QED BY <1>1, <3>2, <3>3
  <2>8. PinnedOK'
    BY <1>1, <1>2, <2>1, <1>7, Constants, Posts DEF FilesTypeOK, TasksOK, PinnedOK, AddLabel
  <2> QED BY <2>1, <2>2, <2>3, <2>4, <2>5, <2>6, <2>7, <2>8 DEF Calm
<1> QED BY <1>3, <1>4, <1>5, <1>6, <1>9, <1>10 DEF IInv

LEMMA CountOnInv ==
  ASSUME IInv, met' = met \cup Meeting', NEW v \in Worker, Count(v),
         ~(\E p \in blocks \cap Post : TargetOf[p] = Its(v) /\ p # PostOf(v))
  PROVE  IInv'
<1>1. /\ fpc[v] = "count"
      /\ fpc' = [fpc EXCEPT ![v] = "unpin"]
      /\ UNCHANGED <<blocks, fileRows, targets, pinned, mux, block, left, file, shown, spoiled,
                     mishaps>>
  BY DEF Count, Go, Reached, store
<1>2. FilesTypeOK /\ TasksOK /\ LocalOK /\ RowsOK /\ Meeting \subseteq met /\ Safe
  BY DEF IInv
<1>3. FilesTypeOK'
  BY <1>1, <1>2, Constants, Posts, MeetingType DEF FilesTypeOK, TasksOK, AddLabel, IgnoreLabel
<1>4. TasksOK'
  BY <1>1, <1>2, Constants DEF FilesTypeOK, TasksOK, LocalOK, PostOf, Its, AddLabel
<1>5. LocalOK'
  BY <1>1, <1>2, Constants DEF LocalOK, TasksOK, PostOf, AddLabel
<1>6. RowsOK'
  BY <1>1, <1>2, Constants DEF FilesTypeOK, RowsOK, TasksOK, AddLabel
<1> DEFINE others == Worker \ {v}
<1>7. /\ \A u \in others : /\ fpc'[u] = fpc[u] /\ block'[u] = block[u]
                           /\ left'[u] = left[u] /\ file'[u] = file[u]
                           /\ PostOf(u)' = PostOf(u) /\ Its(u)' = Its(u)
  BY <1>1, <1>2 DEF FilesTypeOK, PostOf, Its
<1>8. AddSafe(v)' /\ DeleteSafe(v)'
  BY <1>1, <1>2, <1>7, Constants, Posts
    DEF FilesTypeOK, TasksOK, RowsOK, Safe, AddSafe, DeleteSafe, IgnoredIn, PostOf, Its,
        AddLabel, IgnoreLabel, Deleting
<1>9. Safe'
  BY <1>1, <1>2, <1>7, <1>8, Constants, Grows DEF FilesTypeOK, TasksOK, AddLabel, IgnoreLabel
<1>10. ASSUME met' = {} PROVE Calm'
  <2>1. /\ Meeting = {} /\ AddOK /\ IgnoreOK /\ PostsOK /\ UsedOK /\ KeptOK /\ ReleasedOK
        /\ PinnedOK /\ Meeting' = {}
    BY <1>10 DEF IInv, Calm
  <2>2. AddOK'
    BY <1>1, <1>2, <2>1, <1>7, Constants, Posts, Distant
      DEF FilesTypeOK, TasksOK, RowsOK, AddOK, IgnoredIn, PostOf, Its, AddLabel, IgnoreLabel
  <2>3. IgnoreOK'
    BY <1>1, <1>2, <2>1, <1>7, Constants, Posts, Distant
      DEF FilesTypeOK, TasksOK, IgnoreOK, IgnoredIn, PostOf, Its, Deleting, AddLabel,
          IgnoreLabel
  <2>4. PostsOK'
    BY <1>1, <1>2, <2>1, <1>7, Constants, Posts DEF FilesTypeOK, TasksOK, PostsOK, AddLabel
  <2>5. UsedOK'
    BY <1>1, <1>2, <2>1, <1>7, Constants, Posts DEF FilesTypeOK, TasksOK, UsedOK, AddLabel
  <2>6. KeptOK'
    BY <1>1, <1>2, <2>1, <1>7, Constants, Posts DEF FilesTypeOK, TasksOK, KeptOK, IgnoredIn, AddLabel
  <2>7. ReleasedOK'
    BY <1>1, <1>2, <2>1, <1>7, Constants, Posts
      DEF FilesTypeOK, TasksOK, ReleasedOK, Only, Reused, AddLabel
  <2>8. PinnedOK'
    BY <1>1, <1>2, <2>1, <1>7, Constants, Posts DEF FilesTypeOK, TasksOK, PinnedOK, AddLabel
  <2> QED BY <2>1, <2>2, <2>3, <2>4, <2>5, <2>6, <2>7, <2>8 DEF Calm
<1> QED BY <1>3, <1>4, <1>5, <1>6, <1>9, <1>10 DEF IInv

LEMMA CountEndsInv ==
  ASSUME IInv, met' = met \cup Meeting', NEW v \in Worker, Count(v),
         \E p \in blocks \cap Post : TargetOf[p] = Its(v) /\ p # PostOf(v)
  PROVE  IInv'
<1>1. /\ fpc[v] = "count"
      /\ fpc' = [fpc EXCEPT ![v] = "idle"]
      /\ mux' = IF mux = v THEN NoBlock ELSE mux
      /\ block' = [block EXCEPT ![v] = NoBlock] /\ left' = [left EXCEPT ![v] = {}]
      /\ file' = [file EXCEPT ![v] = NoBlock]
      /\ shown' = shown \cup {block[v]}
      /\ UNCHANGED <<blocks, fileRows, targets, pinned, spoiled, mishaps>>
  BY DEF Count, Ends, Clear, Go, Reached, store
<1>2. FilesTypeOK /\ TasksOK /\ LocalOK /\ RowsOK /\ Meeting \subseteq met /\ Safe
  BY DEF IInv
<1>3. FilesTypeOK'
  BY <1>1, <1>2, Constants, Posts, MeetingType DEF FilesTypeOK, TasksOK, AddLabel
<1>4. TasksOK'
  BY <1>1, <1>2, Constants
    DEF FilesTypeOK, TasksOK, LocalOK, PostOf, Its, AddLabel, IgnoreLabel
<1>5. LocalOK'
  BY <1>1, <1>2, Constants DEF LocalOK, TasksOK, PostOf, AddLabel
<1>6. RowsOK'
  BY <1>1, <1>2, Constants DEF FilesTypeOK, RowsOK, TasksOK, AddLabel
<1> DEFINE others == Worker \ {v}
<1>7. /\ \A u \in others : /\ fpc'[u] = fpc[u] /\ block'[u] = block[u]
                           /\ left'[u] = left[u] /\ file'[u] = file[u]
                           /\ PostOf(u)' = PostOf(u) /\ Its(u)' = Its(u)
  BY <1>1, <1>2 DEF FilesTypeOK, PostOf, Its
<1>8. AddSafe(v)' /\ DeleteSafe(v)'
  BY <1>1, <1>2, <1>7, Constants, Posts
    DEF FilesTypeOK, TasksOK, RowsOK, Safe, AddSafe, DeleteSafe, IgnoredIn, PostOf, Its,
        AddLabel, IgnoreLabel, Deleting
<1>9. Safe'
  BY <1>1, <1>2, <1>7, <1>8, Constants, Grows DEF FilesTypeOK, TasksOK, AddLabel, IgnoreLabel
<1>10. ASSUME met' = {} PROVE Calm'
  <2>1. /\ Meeting = {} /\ AddOK /\ IgnoreOK /\ PostsOK /\ UsedOK /\ KeptOK /\ ReleasedOK
        /\ PinnedOK /\ Meeting' = {}
    BY <1>10 DEF IInv, Calm
  <2>2. AddOK'
    BY <1>1, <1>2, <2>1, <1>7, Constants, Posts, Distant
      DEF FilesTypeOK, TasksOK, RowsOK, AddOK, IgnoredIn, PostOf, Its, AddLabel, IgnoreLabel
  <2>3. IgnoreOK'
    BY <1>1, <1>2, <2>1, <1>7, Constants, Posts, Distant
      DEF FilesTypeOK, TasksOK, IgnoreOK, IgnoredIn, PostOf, Its, Deleting, AddLabel,
          IgnoreLabel
  <2>4. PostsOK'
    BY <1>1, <1>2, <2>1, <1>7, Constants, Posts DEF FilesTypeOK, TasksOK, PostsOK, AddLabel
  <2>5. UsedOK'
    BY <1>1, <1>2, <2>1, <1>7, Constants, Posts DEF FilesTypeOK, TasksOK, UsedOK, AddLabel
  <2>6. KeptOK'
    BY <1>1, <1>2, <2>1, <1>7, Constants, Posts DEF FilesTypeOK, TasksOK, KeptOK, IgnoredIn, AddLabel
  <2>7. ReleasedOK'
    BY <1>1, <1>2, <2>1, <1>7, Constants, Posts
      DEF FilesTypeOK, TasksOK, ReleasedOK, Only, Reused, AddLabel
  <2>8. PinnedOK'
    BY <1>1, <1>2, <2>1, <1>7, Constants, Posts DEF FilesTypeOK, TasksOK, PinnedOK, AddLabel
  <2> QED BY <2>1, <2>2, <2>3, <2>4, <2>5, <2>6, <2>7, <2>8 DEF Calm
<1> QED BY <1>3, <1>4, <1>5, <1>6, <1>9, <1>10 DEF IInv

LEMMA UnpinTargetInv ==
  ASSUME IInv, met' = met \cup Meeting', NEW v \in Worker, UnpinTarget(v)
  PROVE  IInv'
<1>1. /\ fpc[v] = "unpin"
      /\ pinned' = pinned \ {Its(v)}
      /\ fpc' = [fpc EXCEPT ![v] = "unlink"]
      /\ left' = [left EXCEPT ![v] = FilesOf[Its(v)]]
      /\ UNCHANGED <<blocks, fileRows, targets, mux, block, file, shown, spoiled, mishaps>>
  BY DEF UnpinTarget, Loop, Go, Reached
<1>2. FilesTypeOK /\ TasksOK /\ LocalOK /\ RowsOK /\ Meeting \subseteq met /\ Safe
  BY DEF IInv
<1>3. FilesTypeOK'
  BY <1>1, <1>2, Constants, Posts, MeetingType DEF FilesTypeOK, TasksOK, AddLabel, IgnoreLabel
<1>4. TasksOK'
  BY <1>1, <1>2, Constants DEF FilesTypeOK, TasksOK, LocalOK, PostOf, Its, AddLabel
<1>5. LocalOK'
  BY <1>1, <1>2, Constants DEF LocalOK, TasksOK, PostOf, AddLabel
<1>6. RowsOK'
  BY <1>1, <1>2, Constants DEF FilesTypeOK, RowsOK, TasksOK, AddLabel
<1> DEFINE others == Worker \ {v}
<1>7. /\ \A u \in others : /\ fpc'[u] = fpc[u] /\ block'[u] = block[u]
                           /\ left'[u] = left[u] /\ file'[u] = file[u]
                           /\ PostOf(u)' = PostOf(u) /\ Its(u)' = Its(u)
  BY <1>1, <1>2 DEF FilesTypeOK, PostOf, Its
<1>8. AddSafe(v)' /\ DeleteSafe(v)'
  BY <1>1, <1>2, <1>7, Constants, Posts
    DEF FilesTypeOK, TasksOK, RowsOK, Safe, AddSafe, DeleteSafe, IgnoredIn, PostOf, Its,
        AddLabel, IgnoreLabel, Deleting
<1>9. Safe'
  <2> DEFINE gone == {}
  <2>1. /\ fpc[v] \in Deleting /\ gone \subseteq {file[v]}
        /\ gone # {} => fpc[v] \in {"release", "drop"}
        /\ blocks' = blocks /\ shown' \cap Post = shown \cap Post
        /\ pinned \ ({Its(v)} \cup gone) \subseteq pinned'
        /\ \A x \in fileRows \ gone : x \in fileRows' /\ targets[x] \ {Its(v)} \subseteq targets'[x]
        /\ fpc'[v] \notin AddLabel
    BY <1>1, <1>2, Constants DEF FilesTypeOK, TasksOK, Deleting, AddLabel, IgnoreLabel
  <2> HIDE DEF gone
  <2> QED BY <1>1, <1>2, <1>7, <1>8, <2>1, Shrinks
<1>10. ASSUME met' = {} PROVE Calm'
  <2>1. /\ Meeting = {} /\ AddOK /\ IgnoreOK /\ PostsOK /\ UsedOK /\ KeptOK /\ ReleasedOK
        /\ PinnedOK /\ Meeting' = {}
    BY <1>10 DEF IInv, Calm
  <2>2. AddOK'
    BY <1>1, <1>2, <2>1, <1>7, Constants, Posts, Distant
      DEF FilesTypeOK, TasksOK, RowsOK, AddOK, IgnoredIn, PostOf, Its, AddLabel, IgnoreLabel
  <2>3. IgnoreOK'
    BY <1>1, <1>2, <2>1, <1>7, Constants, Posts, Distant
      DEF FilesTypeOK, TasksOK, IgnoreOK, IgnoredIn, PostOf, Its, Deleting, AddLabel
  <2>4. PostsOK'
    BY <1>1, <1>2, <2>1, <1>7, Constants, Posts DEF FilesTypeOK, TasksOK, PostsOK, AddLabel
  <2>5. UsedOK'
    BY <1>1, <1>2, <2>1, <1>7, Constants, Posts DEF FilesTypeOK, TasksOK, UsedOK, AddLabel
  <2>6. KeptOK'
    <3>1. block[v] \in blocks \cap IgnoreBlock /\ PostOf(v) = Ignored[block[v]] /\ fpc[v] \in Deleting
      BY <1>1, <1>2, <2>1, Posts DEF TasksOK, IgnoreLabel, Deleting
    <3>2. \A p \in shown \cap Post : ~IgnoredIn(p) => TargetOf[p] # Its(v)
      BY <1>2, <2>1, <3>1 DEF IgnoreOK, IgnoredIn, FilesTypeOK
    <3>3. \A p \in Post : TargetOf[p] \in Target /\ FilesOf[TargetOf[p]] \subseteq File
      BY Constants
    <3>4. Its(v) \in Target
      BY <1>1, <1>2, <2>1, Posts DEF IgnoreLabel
    <3> QED BY <1>1, <1>2, <2>1, <3>2, <3>3, <3>4, Constants DEF KeptOK, IgnoredIn
  <2>7. ReleasedOK'
    BY <1>1, <1>2, <2>1, <1>7, Constants, Posts
      DEF FilesTypeOK, TasksOK, ReleasedOK, Only, Reused, AddLabel
  <2>8. PinnedOK'
    BY <1>1, <1>2, <2>1, <1>7, Constants, Posts DEF FilesTypeOK, TasksOK, PinnedOK, AddLabel
  <2> QED BY <2>1, <2>2, <2>3, <2>4, <2>5, <2>6, <2>7, <2>8 DEF Calm
<1> QED BY <1>3, <1>4, <1>5, <1>6, <1>9, <1>10 DEF IInv

LEMMA RemoveTargetInv ==
  ASSUME IInv, met' = met \cup Meeting', NEW v \in Worker, NEW x \in File, RemoveTarget(v, x)
  PROVE  IInv'
<1>1. /\ fpc[v] = "unlink" /\ x \in left[v] /\ x \in fileRows
      /\ targets' = [targets EXCEPT ![x] = @ \ {Its(v)}]
      /\ file' = [file EXCEPT ![v] = x]
      /\ fpc' = [fpc EXCEPT ![v] = "orphan"]
      /\ UNCHANGED <<blocks, fileRows, pinned, mux, block, left, shown, spoiled, mishaps>>
  BY DEF RemoveTarget, Go, Reached
<1>2. FilesTypeOK /\ TasksOK /\ LocalOK /\ RowsOK /\ Meeting \subseteq met /\ Safe
  BY DEF IInv
<1>3. FilesTypeOK'
  BY <1>1, <1>2, Constants, Posts, MeetingType DEF FilesTypeOK, TasksOK, AddLabel, IgnoreLabel
<1>4. TasksOK'
  BY <1>1, <1>2, Constants DEF FilesTypeOK, TasksOK, LocalOK, PostOf, Its, AddLabel
<1>5. LocalOK'
  BY <1>1, <1>2, Constants DEF LocalOK, TasksOK, PostOf, AddLabel
<1>6. RowsOK'
  BY <1>1, <1>2, Constants DEF FilesTypeOK, RowsOK, TasksOK, AddLabel
<1> DEFINE others == Worker \ {v}
<1>7. /\ \A u \in others : /\ fpc'[u] = fpc[u] /\ block'[u] = block[u]
                           /\ left'[u] = left[u] /\ file'[u] = file[u]
                           /\ PostOf(u)' = PostOf(u) /\ Its(u)' = Its(u)
  BY <1>1, <1>2 DEF FilesTypeOK, PostOf, Its
<1>8. AddSafe(v)' /\ DeleteSafe(v)'
  BY <1>1, <1>2, <1>7, Constants, Posts
    DEF FilesTypeOK, TasksOK, RowsOK, Safe, AddSafe, DeleteSafe, IgnoredIn, PostOf, Its,
        AddLabel, IgnoreLabel, Deleting
<1>9. Safe'
  <2> DEFINE gone == {}
  <2>1. /\ fpc[v] \in Deleting /\ gone \subseteq {file[v]}
        /\ gone # {} => fpc[v] \in {"release", "drop"}
        /\ blocks' = blocks /\ shown' \cap Post = shown \cap Post
        /\ pinned \ ({Its(v)} \cup gone) \subseteq pinned'
        /\ \A y \in fileRows \ gone : y \in fileRows' /\ targets[y] \ {Its(v)} \subseteq targets'[y]
        /\ fpc'[v] \notin AddLabel
    BY <1>1, <1>2, Constants DEF FilesTypeOK, TasksOK, Deleting, AddLabel, IgnoreLabel
  <2> HIDE DEF gone
  <2> QED BY <1>1, <1>2, <1>7, <1>8, <2>1, Shrinks
<1>10. ASSUME met' = {} PROVE Calm'
  <2>1. /\ Meeting = {} /\ AddOK /\ IgnoreOK /\ PostsOK /\ UsedOK /\ KeptOK /\ ReleasedOK
        /\ PinnedOK /\ Meeting' = {}
    BY <1>10 DEF IInv, Calm
  <2>2. AddOK'
    BY <1>1, <1>2, <2>1, <1>7, Constants, Posts, Distant
      DEF FilesTypeOK, TasksOK, RowsOK, AddOK, IgnoredIn, PostOf, Its, AddLabel
  <2>3. IgnoreOK'
    BY <1>1, <1>2, <2>1, <1>7, Constants, Posts, Distant
      DEF FilesTypeOK, TasksOK, IgnoreOK, IgnoredIn, PostOf, Its, Deleting, AddLabel
  <2>4. PostsOK'
    BY <1>1, <1>2, <2>1, <1>7, Constants, Posts DEF FilesTypeOK, TasksOK, PostsOK, AddLabel
  <2>5. UsedOK'
    BY <1>1, <1>2, <2>1, <1>7, Constants, Posts DEF FilesTypeOK, TasksOK, UsedOK, AddLabel
  <2>6. KeptOK'
    <3>1. block[v] \in blocks \cap IgnoreBlock /\ PostOf(v) = Ignored[block[v]] /\ fpc[v] \in Deleting
      BY <1>1, <1>2, <2>1, Posts DEF TasksOK, IgnoreLabel, Deleting
    <3>2. \A p \in shown \cap Post : ~IgnoredIn(p) => TargetOf[p] # Its(v)
      BY <1>2, <2>1, <3>1 DEF IgnoreOK, IgnoredIn, FilesTypeOK
    <3>3. \A p \in Post : TargetOf[p] \in Target /\ FilesOf[TargetOf[p]] \subseteq File
      BY Constants
    <3>4. Its(v) \in Target
      BY <1>1, <1>2, <2>1, Posts DEF IgnoreLabel
    <3> QED BY <1>1, <1>2, <2>1, <3>2, <3>3, <3>4, Constants DEF KeptOK, IgnoredIn
  <2>7. ReleasedOK'
    BY <1>1, <1>2, <2>1, <1>7, Constants, Posts
      DEF FilesTypeOK, TasksOK, ReleasedOK, Only, Reused, AddLabel
  <2>8. PinnedOK'
    BY <1>1, <1>2, <2>1, <1>7, Constants, Posts DEF FilesTypeOK, TasksOK, PinnedOK, AddLabel
  <2> QED BY <2>1, <2>2, <2>3, <2>4, <2>5, <2>6, <2>7, <2>8 DEF Calm
<1> QED BY <1>3, <1>4, <1>5, <1>6, <1>9, <1>10 DEF IInv

LEMMA OrphanFoundInv ==
  ASSUME IInv, met' = met \cup Meeting', NEW v \in Worker, CheckOrphan(v),
         file[v] \in fileRows,
         targets[file[v]] = {}
  PROVE  IInv'
<1>1. /\ fpc[v] = "orphan"
      /\ fpc' = [fpc EXCEPT ![v] = "release"]
      /\ UNCHANGED <<blocks, fileRows, targets, pinned, mux, block, left, file, shown, spoiled,
                     mishaps>>
  BY DEF CheckOrphan, Go, Reached, store
<1>2. FilesTypeOK /\ TasksOK /\ LocalOK /\ RowsOK /\ Meeting \subseteq met /\ Safe
  BY DEF IInv
<1>3. FilesTypeOK'
  BY <1>1, <1>2, Constants, Posts, MeetingType DEF FilesTypeOK, TasksOK, AddLabel, IgnoreLabel
<1>4. TasksOK'
  BY <1>1, <1>2, Constants DEF FilesTypeOK, TasksOK, LocalOK, PostOf, Its, AddLabel
<1>5. LocalOK'
  BY <1>1, <1>2, Constants DEF LocalOK, TasksOK, PostOf, AddLabel
<1>6. RowsOK'
  BY <1>1, <1>2, Constants DEF FilesTypeOK, RowsOK, TasksOK, AddLabel
<1> DEFINE others == Worker \ {v}
<1>7. /\ \A u \in others : /\ fpc'[u] = fpc[u] /\ block'[u] = block[u]
                           /\ left'[u] = left[u] /\ file'[u] = file[u]
                           /\ PostOf(u)' = PostOf(u) /\ Its(u)' = Its(u)
  BY <1>1, <1>2 DEF FilesTypeOK, PostOf, Its
<1>8. AddSafe(v)' /\ DeleteSafe(v)'
  <2>1. \A p \in shown \cap Post : ~IgnoredIn(p) =>
          file[v] \notin FilesOf[TargetOf[p]] \/ file[v] \in met
    BY <1>1, <1>2 DEF Safe, Kept
  <2> QED
    BY <1>1, <1>2, <1>7, <2>1, Constants, Posts
    DEF FilesTypeOK, TasksOK, Safe, AddSafe, DeleteSafe, IgnoredIn, PostOf, Its, AddLabel, Deleting
<1>9. Safe'
  BY <1>1, <1>2, <1>7, <1>8, Constants, Grows DEF FilesTypeOK, TasksOK, AddLabel, IgnoreLabel
<1>10. ASSUME met' = {} PROVE Calm'
  <2>1. /\ Meeting = {} /\ AddOK /\ IgnoreOK /\ PostsOK /\ UsedOK /\ KeptOK /\ ReleasedOK
        /\ PinnedOK /\ Meeting' = {}
    BY <1>10 DEF IInv, Calm
  <2>2. AddOK'
    BY <1>1, <1>2, <2>1, <1>7, Constants, Posts, Distant
      DEF FilesTypeOK, TasksOK, RowsOK, AddOK, IgnoredIn, PostOf, Its, AddLabel
  <2>3. IgnoreOK'
    <3>1. \A p \in shown \cap Post : ~IgnoredIn(p) => file[v] \notin FilesOf[TargetOf[p]]
      BY <1>2, <2>1 DEF KeptOK
    <3> QED BY <1>1, <1>2, <2>1, <1>7, <3>1 DEF FilesTypeOK, IgnoreOK, IgnoredIn, PostOf, Its, Deleting
  <2>4. PostsOK'
    BY <1>1, <1>2, <2>1, <1>7, Constants, Posts DEF FilesTypeOK, TasksOK, PostsOK, AddLabel
  <2>5. UsedOK'
    BY <1>1, <1>2, <2>1, <1>7, Constants, Posts DEF FilesTypeOK, TasksOK, UsedOK, AddLabel
  <2>6. KeptOK'
    BY <1>1, <1>2, <2>1, <1>7, Constants, Posts DEF FilesTypeOK, TasksOK, KeptOK, IgnoredIn, AddLabel
  <2>7. ReleasedOK'
    BY <1>1, <1>2, <2>1, <1>7, Constants, Posts
      DEF FilesTypeOK, TasksOK, ReleasedOK, Only, Reused, AddLabel
  <2>8. PinnedOK'
    BY <1>1, <1>2, <2>1, <1>7, Constants, Posts DEF FilesTypeOK, TasksOK, PinnedOK, AddLabel
  <2> QED BY <2>1, <2>2, <2>3, <2>4, <2>5, <2>6, <2>7, <2>8 DEF Calm
<1> QED BY <1>3, <1>4, <1>5, <1>6, <1>9, <1>10 DEF IInv

LEMMA OrphanNextInv ==
  ASSUME IInv, met' = met \cup Meeting', NEW v \in Worker, CheckOrphan(v),
         ~(file[v] \in fileRows /\ targets[file[v]] = {}),
         left[v] # {file[v]}
  PROVE  IInv'
<1>1. /\ fpc[v] = "orphan"
      /\ left' = [left EXCEPT ![v] = @ \ {file[v]}]
      /\ fpc' = [fpc EXCEPT ![v] = "unlink"]
      /\ file' = [file EXCEPT ![v] = NoBlock]
      /\ UNCHANGED <<blocks, fileRows, targets, pinned, mux, block, shown, spoiled, mishaps>>
  BY DEF CheckOrphan, NextFile, LastLeft, Through, Go, Reached, store
<1>2. FilesTypeOK /\ TasksOK /\ LocalOK /\ RowsOK /\ Meeting \subseteq met /\ Safe
  BY DEF IInv
<1>3. FilesTypeOK'
  BY <1>1, <1>2, Constants, Posts, MeetingType DEF FilesTypeOK, TasksOK, AddLabel, IgnoreLabel
<1>4. TasksOK'
  BY <1>1, <1>2, Constants DEF FilesTypeOK, TasksOK, LocalOK, PostOf, Its, AddLabel
<1>5. LocalOK'
  BY <1>1, <1>2, Constants DEF LocalOK, TasksOK, PostOf, AddLabel
<1>6. RowsOK'
  BY <1>1, <1>2, Constants DEF FilesTypeOK, RowsOK, TasksOK, AddLabel
<1> DEFINE others == Worker \ {v}
<1>7. /\ \A u \in others : /\ fpc'[u] = fpc[u] /\ block'[u] = block[u]
                           /\ left'[u] = left[u] /\ file'[u] = file[u]
                           /\ PostOf(u)' = PostOf(u) /\ Its(u)' = Its(u)
  BY <1>1, <1>2 DEF FilesTypeOK, PostOf, Its
<1>8. AddSafe(v)' /\ DeleteSafe(v)'
  BY <1>1, <1>2, <1>7, Constants, Posts
    DEF FilesTypeOK, TasksOK, RowsOK, Safe, AddSafe, DeleteSafe, IgnoredIn, PostOf, Its,
        AddLabel, IgnoreLabel, Deleting
<1>9. Safe'
  BY <1>1, <1>2, <1>7, <1>8, Constants, Grows DEF FilesTypeOK, TasksOK, AddLabel, IgnoreLabel
<1>10. ASSUME met' = {} PROVE Calm'
  <2>1. /\ Meeting = {} /\ AddOK /\ IgnoreOK /\ PostsOK /\ UsedOK /\ KeptOK /\ ReleasedOK
        /\ PinnedOK /\ Meeting' = {}
    BY <1>10 DEF IInv, Calm
  <2>2. AddOK'
    BY <1>1, <1>2, <2>1, <1>7, Constants, Posts, Distant
      DEF FilesTypeOK, TasksOK, RowsOK, AddOK, IgnoredIn, PostOf, Its, AddLabel
  <2>3. IgnoreOK'
    BY <1>1, <1>2, <2>1, <1>7, Constants, Posts, Distant
      DEF FilesTypeOK, TasksOK, IgnoreOK, IgnoredIn, PostOf, Its, Deleting, AddLabel
  <2>4. PostsOK'
    BY <1>1, <1>2, <2>1, <1>7, Constants, Posts DEF FilesTypeOK, TasksOK, PostsOK, AddLabel
  <2>5. UsedOK'
    BY <1>1, <1>2, <2>1, <1>7, Constants, Posts DEF FilesTypeOK, TasksOK, UsedOK, AddLabel
  <2>6. KeptOK'
    BY <1>1, <1>2, <2>1, <1>7, Constants, Posts DEF FilesTypeOK, TasksOK, KeptOK, IgnoredIn, AddLabel
  <2>7. ReleasedOK'
    BY <1>1, <1>2, <2>1, <1>7, Constants, Posts
      DEF FilesTypeOK, TasksOK, ReleasedOK, Only, Reused, AddLabel
  <2>8. PinnedOK'
    BY <1>1, <1>2, <2>1, <1>7, Constants, Posts DEF FilesTypeOK, TasksOK, PinnedOK, AddLabel
  <2> QED BY <2>1, <2>2, <2>3, <2>4, <2>5, <2>6, <2>7, <2>8 DEF Calm
<1> QED BY <1>3, <1>4, <1>5, <1>6, <1>9, <1>10 DEF IInv

LEMMA OrphanEndsInv ==
  ASSUME IInv, met' = met \cup Meeting', NEW v \in Worker, CheckOrphan(v),
         ~(file[v] \in fileRows /\ targets[file[v]] = {}),
         left[v] = {file[v]}
  PROVE  IInv'
<1>1. /\ fpc[v] = "orphan"
      /\ fpc' = [fpc EXCEPT ![v] = "idle"]
      /\ mux' = IF mux = v THEN NoBlock ELSE mux
      /\ block' = [block EXCEPT ![v] = NoBlock] /\ left' = [left EXCEPT ![v] = {}]
      /\ file' = [file EXCEPT ![v] = NoBlock]
      /\ shown' = shown \cup {block[v]}
      /\ UNCHANGED <<blocks, fileRows, targets, pinned, spoiled, mishaps>>
  BY DEF CheckOrphan, NextFile, LastLeft, Ends, Clear, Go, Reached, store
<1>2. FilesTypeOK /\ TasksOK /\ LocalOK /\ RowsOK /\ Meeting \subseteq met /\ Safe
  BY DEF IInv
<1>3. FilesTypeOK'
  BY <1>1, <1>2, Constants, Posts, MeetingType DEF FilesTypeOK, TasksOK, AddLabel
<1>4. TasksOK'
  BY <1>1, <1>2, Constants
    DEF FilesTypeOK, TasksOK, LocalOK, PostOf, Its, AddLabel, IgnoreLabel
<1>5. LocalOK'
  BY <1>1, <1>2, Constants DEF LocalOK, TasksOK, PostOf, AddLabel
<1>6. RowsOK'
  BY <1>1, <1>2, Constants DEF FilesTypeOK, RowsOK, TasksOK, AddLabel
<1> DEFINE others == Worker \ {v}
<1>7. /\ \A u \in others : /\ fpc'[u] = fpc[u] /\ block'[u] = block[u]
                           /\ left'[u] = left[u] /\ file'[u] = file[u]
                           /\ PostOf(u)' = PostOf(u) /\ Its(u)' = Its(u)
  BY <1>1, <1>2 DEF FilesTypeOK, PostOf, Its
<1>8. AddSafe(v)' /\ DeleteSafe(v)'
  BY <1>1, <1>2, <1>7, Constants, Posts
    DEF FilesTypeOK, TasksOK, RowsOK, Safe, AddSafe, DeleteSafe, IgnoredIn, PostOf, Its,
        AddLabel, IgnoreLabel, Deleting
<1>9. Safe'
  BY <1>1, <1>2, <1>7, <1>8, Constants, Grows DEF FilesTypeOK, TasksOK, AddLabel, IgnoreLabel
<1>10. ASSUME met' = {} PROVE Calm'
  <2>1. /\ Meeting = {} /\ AddOK /\ IgnoreOK /\ PostsOK /\ UsedOK /\ KeptOK /\ ReleasedOK
        /\ PinnedOK /\ Meeting' = {}
    BY <1>10 DEF IInv, Calm
  <2>2. AddOK'
    BY <1>1, <1>2, <2>1, <1>7, Constants, Posts, Distant
      DEF FilesTypeOK, TasksOK, RowsOK, AddOK, IgnoredIn, PostOf, Its, AddLabel, IgnoreLabel
  <2>3. IgnoreOK'
    BY <1>1, <1>2, <2>1, <1>7, Constants, Posts, Distant
      DEF FilesTypeOK, TasksOK, IgnoreOK, IgnoredIn, PostOf, Its, Deleting, AddLabel
  <2>4. PostsOK'
    BY <1>1, <1>2, <2>1, <1>7, Constants, Posts DEF FilesTypeOK, TasksOK, PostsOK, AddLabel
  <2>5. UsedOK'
    BY <1>1, <1>2, <2>1, <1>7, Constants, Posts DEF FilesTypeOK, TasksOK, UsedOK, AddLabel
  <2>6. KeptOK'
    BY <1>1, <1>2, <2>1, <1>7, Constants, Posts DEF FilesTypeOK, TasksOK, KeptOK, IgnoredIn, AddLabel
  <2>7. ReleasedOK'
    <3> SUFFICES ASSUME spoiled = {}, NEW g \in shown' \cap IgnoreBlock, Only(g)', ~Reused(g)'
                 PROVE  /\ TargetOf[Ignored[g]] \notin pinned
                        /\ \A y \in File : TargetOf[Ignored[g]] \notin targets'[y]
      BY <1>1 DEF ReleasedOK
    <3>1. Only(g) /\ ~Reused(g)
      BY <1>1, <1>7 DEF Only, Reused, AddLabel
    <3>2. CASE g \in shown
      BY <1>1, <1>2, <2>1, <3>1, <3>2 DEF ReleasedOK
    <3>3. CASE g = block[v]
      <4>1. Its(v) = TargetOf[Ignored[g]] /\ PostOf(v) = Ignored[g] /\ Its(v) \in Target /\ fpc[v] \in IgnoreLabel
        BY <1>1, <1>2, <2>1, <3>3, Posts DEF IgnoreLabel
      <4>2. /\ Its(v) \notin pinned /\ Its(v) \notin targets[file[v]]
            /\ \A y \in FilesOf[Its(v)] \ left[v] : Its(v) \notin targets[y]
        BY <1>1, <1>2, <2>1 DEF IgnoreOK, Deleting
      <4>3. \A y \in File \ FilesOf[Its(v)] : Its(v) \notin targets[y]
        BY <1>2, <2>1 DEF RowsOK
      <4>4. \A y \in File : Its(v) \notin targets[y]
        BY <4>2, <4>3
      <4> QED BY <1>1, <1>2, <2>1, <4>1, <4>2, <4>4
    <3> QED BY <1>1, <3>2, <3>3
  <2>8. PinnedOK'
    BY <1>1, <1>2, <2>1, <1>7, Constants, Posts DEF FilesTypeOK, TasksOK, PinnedOK, AddLabel
  <2> QED BY <2>1, <2>2, <2>3, <2>4, <2>5, <2>6, <2>7, <2>8 DEF Calm
<1> QED BY <1>3, <1>4, <1>5, <1>6, <1>9, <1>10 DEF IInv

LEMMA UnpinFileInv ==
  ASSUME IInv, met' = met \cup Meeting', NEW v \in Worker, UnpinFile(v)
  PROVE  IInv'
<1>1. /\ fpc[v] = "release"
      /\ pinned' = pinned \ {file[v]}
      /\ fpc' = [fpc EXCEPT ![v] = "drop"]
      /\ UNCHANGED <<blocks, fileRows, targets, mux, block, left, file, shown, spoiled, mishaps>>
  BY DEF UnpinFile, Go, Reached
<1>2. FilesTypeOK /\ TasksOK /\ LocalOK /\ RowsOK /\ Meeting \subseteq met /\ Safe
  BY DEF IInv
<1>3. FilesTypeOK'
  BY <1>1, <1>2, Constants, Posts, MeetingType DEF FilesTypeOK, TasksOK, AddLabel, IgnoreLabel
<1>4. TasksOK'
  BY <1>1, <1>2, Constants DEF FilesTypeOK, TasksOK, LocalOK, PostOf, Its, AddLabel
<1>5. LocalOK'
  BY <1>1, <1>2, Constants DEF LocalOK, TasksOK, PostOf, AddLabel
<1>6. RowsOK'
  BY <1>1, <1>2, Constants DEF FilesTypeOK, RowsOK, TasksOK, AddLabel
<1> DEFINE others == Worker \ {v}
<1>7. /\ \A u \in others : /\ fpc'[u] = fpc[u] /\ block'[u] = block[u]
                           /\ left'[u] = left[u] /\ file'[u] = file[u]
                           /\ PostOf(u)' = PostOf(u) /\ Its(u)' = Its(u)
  BY <1>1, <1>2 DEF FilesTypeOK, PostOf, Its
<1>8. AddSafe(v)' /\ DeleteSafe(v)'
  BY <1>1, <1>2, <1>7, Constants, Posts
    DEF FilesTypeOK, TasksOK, RowsOK, Safe, AddSafe, DeleteSafe, IgnoredIn, PostOf, Its,
        AddLabel, IgnoreLabel, Deleting
<1>9. Safe'
  <2> DEFINE gone == {file[v]}
  <2>1. /\ fpc[v] \in Deleting /\ gone \subseteq {file[v]}
        /\ gone # {} => fpc[v] \in {"release", "drop"}
        /\ blocks' = blocks /\ shown' \cap Post = shown \cap Post
        /\ pinned \ ({Its(v)} \cup gone) \subseteq pinned'
        /\ \A x \in fileRows \ gone : x \in fileRows' /\ targets[x] \ {Its(v)} \subseteq targets'[x]
        /\ fpc'[v] \notin AddLabel
    BY <1>1, <1>2, Constants DEF FilesTypeOK, TasksOK, Deleting, AddLabel, IgnoreLabel
  <2> HIDE DEF gone
  <2> QED BY <1>1, <1>2, <1>7, <1>8, <2>1, Shrinks
<1>10. ASSUME met' = {} PROVE Calm'
  <2>1. /\ Meeting = {} /\ AddOK /\ IgnoreOK /\ PostsOK /\ UsedOK /\ KeptOK /\ ReleasedOK
        /\ PinnedOK /\ Meeting' = {}
    BY <1>10 DEF IInv, Calm
  <2>2. AddOK'
    <3>1. \A u \in Worker : fpc'[u] \in AddLabel => u \in others /\ fpc[u] \in AddLabel
      BY <1>1, <1>2, <2>1, <1>7 DEF FilesTypeOK, AddLabel
    <3>2. file[v] \in FilesOf[Its(v)] /\ file[v] \in File /\ fpc[v] \in IgnoreLabel
      BY <1>1, <1>2, <2>1, Posts, Constants DEF TasksOK, IgnoreLabel
    <3>3. \A u \in Worker : fpc[u] \in AddLabel =>
            /\ file[v] # Its(u) /\ file[v] \notin FilesOf[Its(u)]
            /\ FilesOf[Its(u)] \subseteq File
      BY <1>2, <2>1, <3>2, Distant, Posts, Constants
    <3> QED BY <1>1, <1>2, <2>1, <1>7, <3>1, <3>3 DEF AddOK, AddLabel, IgnoredIn
  <2>3. IgnoreOK'
    BY <1>1, <1>2, <2>1, <1>7, Constants, Posts, Distant
      DEF FilesTypeOK, TasksOK, IgnoreOK, IgnoredIn, PostOf, Its, Deleting, AddLabel
  <2>4. PostsOK'
    BY <1>1, <1>2, <2>1, <1>7, Constants, Posts DEF FilesTypeOK, TasksOK, PostsOK, AddLabel
  <2>5. UsedOK'
    BY <1>1, <1>2, <2>1, <1>7, Constants, Posts DEF FilesTypeOK, TasksOK, UsedOK, AddLabel
  <2>6. KeptOK'
    <3>1. \A p \in shown \cap Post : ~IgnoredIn(p) => file[v] \notin FilesOf[TargetOf[p]]
      BY <1>1, <1>2, <2>1 DEF IgnoreOK
    <3>2. file[v] \in File /\ \A p \in Post : TargetOf[p] \in Target /\ FilesOf[TargetOf[p]] \subseteq File
      BY <1>1, <1>2, <2>1, Posts, Constants DEF TasksOK, IgnoreLabel
    <3>3. \A p \in shown' \cap Post : p \in shown /\ (IgnoredIn(p)' <=> IgnoredIn(p))
      BY <1>1, <1>2, <2>1, Constants DEF TasksOK, IgnoreLabel, IgnoredIn
    <3> QED BY <1>1, <1>2, <2>1, <3>1, <3>2, <3>3, Constants DEF KeptOK
  <2>7. ReleasedOK'
    BY <1>1, <1>2, <2>1, <1>7, Constants, Posts
      DEF FilesTypeOK, TasksOK, ReleasedOK, Only, Reused, AddLabel
  <2>8. PinnedOK'
    BY <1>1, <1>2, <2>1, <1>7, Constants, Posts DEF FilesTypeOK, TasksOK, PinnedOK, AddLabel
  <2> QED BY <2>1, <2>2, <2>3, <2>4, <2>5, <2>6, <2>7, <2>8 DEF Calm
<1> QED BY <1>3, <1>4, <1>5, <1>6, <1>9, <1>10 DEF IInv

LEMMA DropNextInv ==
  ASSUME IInv, met' = met \cup Meeting', NEW v \in Worker, DeleteRow(v),
         left[v] # {file[v]}
  PROVE  IInv'
<1>1. /\ fpc[v] = "drop"
      /\ fileRows' = fileRows \ {file[v]} /\ targets' = [targets EXCEPT ![file[v]] = {}]
      /\ left' = [left EXCEPT ![v] = @ \ {file[v]}]
      /\ fpc' = [fpc EXCEPT ![v] = "unlink"]
      /\ file' = [file EXCEPT ![v] = NoBlock]
      /\ UNCHANGED <<blocks, pinned, mux, block, shown, spoiled, mishaps>>
  BY DEF DeleteRow, NextFile, LastLeft, Through, Go, Reached
<1>2. FilesTypeOK /\ TasksOK /\ LocalOK /\ RowsOK /\ Meeting \subseteq met /\ Safe
  BY DEF IInv
<1>3. FilesTypeOK'
  BY <1>1, <1>2, Constants, Posts, MeetingType DEF FilesTypeOK, TasksOK, AddLabel, IgnoreLabel
<1>4. TasksOK'
  BY <1>1, <1>2, Constants DEF FilesTypeOK, TasksOK, LocalOK, PostOf, Its, AddLabel
<1>5. LocalOK'
  BY <1>1, <1>2, Constants DEF LocalOK, TasksOK, PostOf, AddLabel
<1>6. RowsOK'
  BY <1>1, <1>2, Constants DEF FilesTypeOK, RowsOK, TasksOK, AddLabel
<1> DEFINE others == Worker \ {v}
<1>7. /\ \A u \in others : /\ fpc'[u] = fpc[u] /\ block'[u] = block[u]
                           /\ left'[u] = left[u] /\ file'[u] = file[u]
                           /\ PostOf(u)' = PostOf(u) /\ Its(u)' = Its(u)
  BY <1>1, <1>2 DEF FilesTypeOK, PostOf, Its
<1>8. AddSafe(v)' /\ DeleteSafe(v)'
  BY <1>1, <1>2, <1>7, Constants, Posts
    DEF FilesTypeOK, TasksOK, RowsOK, Safe, AddSafe, DeleteSafe, IgnoredIn, PostOf, Its,
        AddLabel, IgnoreLabel, Deleting
<1>9. Safe'
  <2> DEFINE gone == {file[v]}
  <2>1. /\ fpc[v] \in Deleting /\ gone \subseteq {file[v]}
        /\ gone # {} => fpc[v] \in {"release", "drop"}
        /\ blocks' = blocks /\ shown' \cap Post = shown \cap Post
        /\ pinned \ ({Its(v)} \cup gone) \subseteq pinned'
        /\ \A x \in fileRows \ gone : x \in fileRows' /\ targets[x] \ {Its(v)} \subseteq targets'[x]
        /\ fpc'[v] \notin AddLabel
    BY <1>1, <1>2, Constants DEF FilesTypeOK, TasksOK, Deleting, AddLabel, IgnoreLabel
  <2> HIDE DEF gone
  <2> QED BY <1>1, <1>2, <1>7, <1>8, <2>1, Shrinks
<1>10. ASSUME met' = {} PROVE Calm'
  <2>1. /\ Meeting = {} /\ AddOK /\ IgnoreOK /\ PostsOK /\ UsedOK /\ KeptOK /\ ReleasedOK
        /\ PinnedOK /\ Meeting' = {}
    BY <1>10 DEF IInv, Calm
  <2>2. AddOK'
    <3>1. \A u \in Worker : fpc'[u] \in AddLabel => u \in others /\ fpc[u] \in AddLabel
      BY <1>1, <1>2, <2>1, <1>7 DEF FilesTypeOK, AddLabel
    <3>2. file[v] \in FilesOf[Its(v)] /\ file[v] \in File /\ fpc[v] \in IgnoreLabel
      BY <1>1, <1>2, <2>1, Posts, Constants DEF TasksOK, IgnoreLabel
    <3>3. \A u \in Worker : fpc[u] \in AddLabel =>
            /\ file[v] # Its(u) /\ file[v] \notin FilesOf[Its(u)]
            /\ FilesOf[Its(u)] \subseteq File
      BY <1>2, <2>1, <3>2, Distant, Posts, Constants
    <3> QED BY <1>1, <1>2, <2>1, <1>7, <3>1, <3>3 DEF AddOK, AddLabel, IgnoredIn
  <2>3. IgnoreOK'
    BY <1>1, <1>2, <2>1, <1>7, Constants, Posts, Distant
      DEF FilesTypeOK, TasksOK, IgnoreOK, IgnoredIn, PostOf, Its, Deleting, AddLabel
  <2>4. PostsOK'
    BY <1>1, <1>2, <2>1, <1>7, Constants, Posts DEF FilesTypeOK, TasksOK, PostsOK, AddLabel
  <2>5. UsedOK'
    BY <1>1, <1>2, <2>1, <1>7, Constants, Posts DEF FilesTypeOK, TasksOK, UsedOK, AddLabel
  <2>6. KeptOK'
    <3>1. \A p \in shown \cap Post : ~IgnoredIn(p) => file[v] \notin FilesOf[TargetOf[p]]
      BY <1>1, <1>2, <2>1 DEF IgnoreOK
    <3>2. file[v] \in File /\ \A p \in Post : TargetOf[p] \in Target /\ FilesOf[TargetOf[p]] \subseteq File
      BY <1>1, <1>2, <2>1, Posts, Constants DEF TasksOK, IgnoreLabel
    <3>3. \A p \in shown' \cap Post : p \in shown /\ (IgnoredIn(p)' <=> IgnoredIn(p))
      BY <1>1, <1>2, <2>1, Constants DEF TasksOK, IgnoreLabel, IgnoredIn
    <3> QED BY <1>1, <1>2, <2>1, <3>1, <3>2, <3>3, Constants DEF KeptOK
  <2>7. ReleasedOK'
    BY <1>1, <1>2, <2>1, <1>7, Constants, Posts
      DEF FilesTypeOK, TasksOK, ReleasedOK, Only, Reused, AddLabel
  <2>8. PinnedOK'
    <3>1. file[v] \notin pinned
      BY <1>1, <1>2, <2>1 DEF IgnoreOK
    <3> QED BY <1>1, <1>2, <2>1, <1>7, <3>1 DEF PinnedOK
  <2> QED BY <2>1, <2>2, <2>3, <2>4, <2>5, <2>6, <2>7, <2>8 DEF Calm
<1> QED BY <1>3, <1>4, <1>5, <1>6, <1>9, <1>10 DEF IInv

LEMMA DropEndsInv ==
  ASSUME IInv, met' = met \cup Meeting', NEW v \in Worker, DeleteRow(v),
         left[v] = {file[v]}
  PROVE  IInv'
<1>1. /\ fpc[v] = "drop"
      /\ fileRows' = fileRows \ {file[v]} /\ targets' = [targets EXCEPT ![file[v]] = {}]
      /\ fpc' = [fpc EXCEPT ![v] = "idle"]
      /\ mux' = IF mux = v THEN NoBlock ELSE mux
      /\ block' = [block EXCEPT ![v] = NoBlock] /\ left' = [left EXCEPT ![v] = {}]
      /\ file' = [file EXCEPT ![v] = NoBlock]
      /\ shown' = shown \cup {block[v]}
      /\ UNCHANGED <<blocks, pinned, spoiled, mishaps>>
  BY DEF DeleteRow, NextFile, LastLeft, Ends, Clear, Go, Reached
<1>2. FilesTypeOK /\ TasksOK /\ LocalOK /\ RowsOK /\ Meeting \subseteq met /\ Safe
  BY DEF IInv
<1>3. FilesTypeOK'
  BY <1>1, <1>2, Constants, Posts, MeetingType DEF FilesTypeOK, TasksOK, AddLabel
<1>4. TasksOK'
  BY <1>1, <1>2, Constants
    DEF FilesTypeOK, TasksOK, LocalOK, PostOf, Its, AddLabel, IgnoreLabel
<1>5. LocalOK'
  BY <1>1, <1>2, Constants DEF LocalOK, TasksOK, PostOf, AddLabel
<1>6. RowsOK'
  BY <1>1, <1>2, Constants DEF FilesTypeOK, RowsOK, TasksOK, AddLabel
<1> DEFINE others == Worker \ {v}
<1>7. /\ \A u \in others : /\ fpc'[u] = fpc[u] /\ block'[u] = block[u]
                           /\ left'[u] = left[u] /\ file'[u] = file[u]
                           /\ PostOf(u)' = PostOf(u) /\ Its(u)' = Its(u)
  BY <1>1, <1>2 DEF FilesTypeOK, PostOf, Its
<1>8. AddSafe(v)' /\ DeleteSafe(v)'
  BY <1>1, <1>2, <1>7, Constants, Posts
    DEF FilesTypeOK, TasksOK, RowsOK, Safe, AddSafe, DeleteSafe, IgnoredIn, PostOf, Its,
        AddLabel, IgnoreLabel, Deleting
<1>9. Safe'
  <2> DEFINE gone == {file[v]}
  <2>1. /\ fpc[v] \in Deleting /\ gone \subseteq {file[v]}
        /\ gone # {} => fpc[v] \in {"release", "drop"}
        /\ blocks' = blocks /\ shown' \cap Post = shown \cap Post
        /\ pinned \ ({Its(v)} \cup gone) \subseteq pinned'
        /\ \A x \in fileRows \ gone : x \in fileRows' /\ targets[x] \ {Its(v)} \subseteq targets'[x]
        /\ fpc'[v] \notin AddLabel
    BY <1>1, <1>2, Constants DEF FilesTypeOK, TasksOK, Deleting, AddLabel, IgnoreLabel
  <2> HIDE DEF gone
  <2> QED BY <1>1, <1>2, <1>7, <1>8, <2>1, Shrinks
<1>10. ASSUME met' = {} PROVE Calm'
  <2>1. /\ Meeting = {} /\ AddOK /\ IgnoreOK /\ PostsOK /\ UsedOK /\ KeptOK /\ ReleasedOK
        /\ PinnedOK /\ Meeting' = {}
    BY <1>10 DEF IInv, Calm
  <2>2. AddOK'
    <3>1. \A u \in Worker : fpc'[u] \in AddLabel => u \in others /\ fpc[u] \in AddLabel
      BY <1>1, <1>2, <2>1, <1>7 DEF FilesTypeOK, AddLabel
    <3>2. file[v] \in FilesOf[Its(v)] /\ file[v] \in File /\ fpc[v] \in IgnoreLabel
      BY <1>1, <1>2, <2>1, Posts, Constants DEF TasksOK, IgnoreLabel
    <3>3. \A u \in Worker : fpc[u] \in AddLabel =>
            /\ file[v] # Its(u) /\ file[v] \notin FilesOf[Its(u)]
            /\ FilesOf[Its(u)] \subseteq File
      BY <1>2, <2>1, <3>2, Distant, Posts, Constants
    <3> QED BY <1>1, <1>2, <2>1, <1>7, <3>1, <3>3 DEF AddOK, AddLabel, IgnoredIn
  <2>3. IgnoreOK'
    BY <1>1, <1>2, <2>1, <1>7, Constants, Posts, Distant
      DEF FilesTypeOK, TasksOK, IgnoreOK, IgnoredIn, PostOf, Its, Deleting, AddLabel
  <2>4. PostsOK'
    BY <1>1, <1>2, <2>1, <1>7, Constants, Posts DEF FilesTypeOK, TasksOK, PostsOK, AddLabel
  <2>5. UsedOK'
    BY <1>1, <1>2, <2>1, <1>7, Constants, Posts DEF FilesTypeOK, TasksOK, UsedOK, AddLabel
  <2>6. KeptOK'
    <3>1. \A p \in shown \cap Post : ~IgnoredIn(p) => file[v] \notin FilesOf[TargetOf[p]]
      BY <1>1, <1>2, <2>1 DEF IgnoreOK
    <3>2. file[v] \in File /\ \A p \in Post : TargetOf[p] \in Target /\ FilesOf[TargetOf[p]] \subseteq File
      BY <1>1, <1>2, <2>1, Posts, Constants DEF TasksOK, IgnoreLabel
    <3>3. \A p \in shown' \cap Post : p \in shown /\ (IgnoredIn(p)' <=> IgnoredIn(p))
      BY <1>1, <1>2, <2>1, Constants DEF TasksOK, IgnoreLabel, IgnoredIn
    <3> QED BY <1>1, <1>2, <2>1, <3>1, <3>2, <3>3, Constants DEF KeptOK
  <2>7. ReleasedOK'
    <3> SUFFICES ASSUME spoiled = {}, NEW g \in shown' \cap IgnoreBlock, Only(g)', ~Reused(g)'
                 PROVE  /\ TargetOf[Ignored[g]] \notin pinned
                        /\ \A y \in File : TargetOf[Ignored[g]] \notin targets'[y]
      BY <1>1 DEF ReleasedOK
    <3>1. Only(g) /\ ~Reused(g)
      BY <1>1, <1>7 DEF Only, Reused, AddLabel
    <3>2. CASE g \in shown
      BY <1>1, <1>2, <2>1, <3>1, <3>2 DEF ReleasedOK
    <3>3. CASE g = block[v]
      <4>1. Its(v) = TargetOf[Ignored[g]] /\ PostOf(v) = Ignored[g] /\ Its(v) \in Target /\ fpc[v] \in IgnoreLabel
        BY <1>1, <1>2, <2>1, <3>3, Posts DEF IgnoreLabel
      <4>2. /\ Its(v) \notin pinned /\ Its(v) \notin targets[file[v]]
            /\ \A y \in FilesOf[Its(v)] \ left[v] : Its(v) \notin targets[y]
        BY <1>1, <1>2, <2>1 DEF IgnoreOK, Deleting
      <4>3. \A y \in File \ FilesOf[Its(v)] : Its(v) \notin targets[y]
        BY <1>2, <2>1 DEF RowsOK
      <4>4. \A y \in File : Its(v) \notin targets[y]
        BY <4>2, <4>3
      <4> QED BY <1>1, <1>2, <2>1, <4>1, <4>2, <4>4
    <3> QED BY <1>1, <3>2, <3>3
  <2>8. PinnedOK'
    <3>1. file[v] \notin pinned
      BY <1>1, <1>2, <2>1 DEF IgnoreOK
    <3> QED BY <1>1, <1>2, <2>1, <1>7, <3>1 DEF PinnedOK
  <2> QED BY <2>1, <2>2, <2>3, <2>4, <2>5, <2>6, <2>7, <2>8 DEF Calm
<1> QED BY <1>3, <1>4, <1>5, <1>6, <1>9, <1>10 DEF IInv

LEMMA NodesUnreadInv ==
  ASSUME IInv, met' = met \cup Meeting', NEW v \in Worker, NodesUnread(v)
  PROVE  IInv'
<1>1. /\ fpc[v] \in IgnoreLabel /\ spoiled' = spoiled
      /\ fpc' = [fpc EXCEPT ![v] = "idle"]
      /\ mux' = IF mux = v THEN NoBlock ELSE mux
      /\ block' = [block EXCEPT ![v] = NoBlock] /\ left' = [left EXCEPT ![v] = {}]
      /\ file' = [file EXCEPT ![v] = NoBlock]
      /\ mishaps < MaxMishaps /\ mishaps' = mishaps + 1
      /\ UNCHANGED <<blocks, fileRows, targets, pinned, shown>>
  BY DEF NodesUnread, GivesUp, Posting, AddLabel, IgnoreLabel, Mishap, Clear, Go, store
<1>2. FilesTypeOK /\ TasksOK /\ LocalOK /\ RowsOK /\ Meeting \subseteq met /\ Safe
  BY DEF IInv
<1>3. FilesTypeOK'
  BY <1>1, <1>2, Constants, FilesConstants, Posts, MeetingType DEF FilesTypeOK, TasksOK, AddLabel
<1>4. TasksOK'
  BY <1>1, <1>2, Constants
    DEF FilesTypeOK, TasksOK, LocalOK, PostOf, Its, AddLabel, IgnoreLabel
<1>5. LocalOK'
  BY <1>1, <1>2, Constants DEF LocalOK, TasksOK, PostOf, AddLabel
<1>6. RowsOK'
  BY <1>1, <1>2, Constants DEF FilesTypeOK, RowsOK, TasksOK, AddLabel
<1> DEFINE others == Worker \ {v}
<1>7. /\ \A u \in others : /\ fpc'[u] = fpc[u] /\ block'[u] = block[u]
                           /\ left'[u] = left[u] /\ file'[u] = file[u]
                           /\ PostOf(u)' = PostOf(u) /\ Its(u)' = Its(u)
  BY <1>1, <1>2 DEF FilesTypeOK, PostOf, Its
<1>8. AddSafe(v)' /\ DeleteSafe(v)'
  BY <1>1, <1>2, <1>7, Constants, Posts
    DEF FilesTypeOK, TasksOK, RowsOK, Safe, AddSafe, DeleteSafe, IgnoredIn, PostOf, Its,
        AddLabel, IgnoreLabel, Deleting
<1>9. Safe'
  BY <1>1, <1>2, <1>7, <1>8, Constants, Grows DEF FilesTypeOK, TasksOK, AddLabel, IgnoreLabel
<1>10. ASSUME met' = {} PROVE Calm'
  <2>1. /\ Meeting = {} /\ AddOK /\ IgnoreOK /\ PostsOK /\ UsedOK /\ KeptOK /\ ReleasedOK
        /\ PinnedOK /\ Meeting' = {}
    BY <1>10 DEF IInv, Calm
  <2>2. AddOK'
    BY <1>1, <1>2, <2>1, <1>7, Constants, Posts, Distant
      DEF FilesTypeOK, TasksOK, RowsOK, AddOK, IgnoredIn, PostOf, Its, AddLabel
  <2>3. IgnoreOK'
    BY <1>1, <1>2, <2>1, <1>7, Constants, Posts, Distant
      DEF FilesTypeOK, TasksOK, IgnoreOK, IgnoredIn, PostOf, Its, Deleting, AddLabel
  <2>4. PostsOK'
    BY <1>1, <1>2, <2>1, <1>7, Constants, Posts DEF FilesTypeOK, TasksOK, PostsOK, AddLabel
  <2>5. UsedOK'
    BY <1>1, <1>2, <2>1, <1>7, Constants, Posts DEF FilesTypeOK, TasksOK, UsedOK, AddLabel
  <2>6. KeptOK'
    BY <1>1, <1>2, <2>1, <1>7, Constants, Posts DEF FilesTypeOK, TasksOK, KeptOK, IgnoredIn, AddLabel
  <2>7. ReleasedOK'
    BY <1>1, <1>2, <2>1, <1>7, Constants, Posts
      DEF FilesTypeOK, TasksOK, ReleasedOK, Only, Reused, AddLabel
  <2>8. PinnedOK'
    BY <1>1, <1>2, <2>1, <1>7, Constants, Posts DEF FilesTypeOK, TasksOK, PinnedOK, AddLabel
  <2> QED BY <2>1, <2>2, <2>3, <2>4, <2>5, <2>6, <2>7, <2>8 DEF Calm
<1> QED BY <1>3, <1>4, <1>5, <1>6, <1>9, <1>10 DEF IInv

LEMMA RowMissingAddInv ==
  ASSUME IInv, met' = met \cup Meeting', NEW v \in Worker, RowMissing(v),
         fpc[v] \in AddLabel
  PROVE  IInv'
<1>1. /\ spoiled' = spoiled \cup {Its(v)}
      /\ fpc' = [fpc EXCEPT ![v] = "idle"]
      /\ mux' = IF mux = v THEN NoBlock ELSE mux
      /\ block' = [block EXCEPT ![v] = NoBlock] /\ left' = [left EXCEPT ![v] = {}]
      /\ file' = [file EXCEPT ![v] = NoBlock]
      /\ UNCHANGED <<blocks, fileRows, targets, pinned, shown, mishaps>>
  BY DEF RowMissing, GivesUp, Posting, AddLabel, Clear, Go, store
<1>2. FilesTypeOK /\ TasksOK /\ LocalOK /\ RowsOK /\ Meeting \subseteq met /\ Safe
  BY DEF IInv
<1>3. FilesTypeOK'
  BY <1>1, <1>2, Constants, Posts, MeetingType DEF FilesTypeOK, TasksOK, AddLabel
<1>4. TasksOK'
  BY <1>1, <1>2, Constants
    DEF FilesTypeOK, TasksOK, LocalOK, PostOf, Its, AddLabel, IgnoreLabel
<1>5. LocalOK'
  BY <1>1, <1>2, Constants DEF LocalOK, TasksOK, PostOf, AddLabel
<1>6. RowsOK'
  BY <1>1, <1>2, Constants DEF FilesTypeOK, RowsOK, TasksOK, AddLabel
<1> DEFINE others == Worker \ {v}
<1>7. /\ \A u \in others : /\ fpc'[u] = fpc[u] /\ block'[u] = block[u]
                           /\ left'[u] = left[u] /\ file'[u] = file[u]
                           /\ PostOf(u)' = PostOf(u) /\ Its(u)' = Its(u)
  BY <1>1, <1>2 DEF FilesTypeOK, PostOf, Its
<1>8. AddSafe(v)' /\ DeleteSafe(v)'
  BY <1>1, <1>2, <1>7, Constants, Posts
    DEF FilesTypeOK, TasksOK, RowsOK, Safe, AddSafe, DeleteSafe, IgnoredIn, PostOf, Its,
        AddLabel, IgnoreLabel, Deleting
<1>9. Safe'
  BY <1>1, <1>2, <1>7, <1>8, Constants, Grows DEF FilesTypeOK, TasksOK, AddLabel, IgnoreLabel
<1>10. ASSUME met' = {} PROVE Calm'
  <2>1. /\ Meeting = {} /\ AddOK /\ IgnoreOK /\ PostsOK /\ UsedOK /\ KeptOK /\ ReleasedOK
        /\ PinnedOK /\ Meeting' = {}
    BY <1>10 DEF IInv, Calm
  <2>2. AddOK'
    BY <1>1, <1>2, <2>1, <1>7, Constants, Posts, Distant
      DEF FilesTypeOK, TasksOK, RowsOK, AddOK, IgnoredIn, PostOf, Its, AddLabel, IgnoreLabel
  <2>3. IgnoreOK'
    BY <1>1, <1>2, <2>1, <1>7, Constants, Posts, Distant
      DEF FilesTypeOK, TasksOK, IgnoreOK, IgnoredIn, PostOf, Its, Deleting, AddLabel
  <2>4. PostsOK'
    BY <1>1, <1>2, <2>1, <1>7, Constants, Posts DEF FilesTypeOK, TasksOK, PostsOK, AddLabel
  <2>5. UsedOK'
    BY <1>1, <1>2, <2>1, <1>7, Constants, Posts DEF FilesTypeOK, TasksOK, UsedOK, AddLabel
  <2>6. KeptOK'
    BY <1>1, <1>2, <2>1, <1>7, Constants, Posts DEF FilesTypeOK, TasksOK, KeptOK, IgnoredIn, AddLabel
  <2>7. ReleasedOK'
    BY <1>1, <1>2, <2>1, <1>7, Constants, Posts
      DEF FilesTypeOK, TasksOK, ReleasedOK, Only, Reused, AddLabel, IgnoreLabel
  <2>8. PinnedOK'
    BY <1>1, <1>2, <2>1, <1>7, Constants, Posts DEF FilesTypeOK, TasksOK, PinnedOK, AddLabel
  <2> QED BY <2>1, <2>2, <2>3, <2>4, <2>5, <2>6, <2>7, <2>8 DEF Calm
<1> QED BY <1>3, <1>4, <1>5, <1>6, <1>9, <1>10 DEF IInv

LEMMA RowMissingIgnoreInv ==
  ASSUME IInv, met' = met \cup Meeting', NEW v \in Worker, RowMissing(v),
         fpc[v] \notin AddLabel
  PROVE  IInv'
<1>1. /\ fpc[v] \in IgnoreLabel /\ spoiled' = spoiled
      /\ fpc' = [fpc EXCEPT ![v] = "idle"]
      /\ mux' = IF mux = v THEN NoBlock ELSE mux
      /\ block' = [block EXCEPT ![v] = NoBlock] /\ left' = [left EXCEPT ![v] = {}]
      /\ file' = [file EXCEPT ![v] = NoBlock]
      /\ UNCHANGED <<blocks, fileRows, targets, pinned, shown, mishaps>>
  BY DEF RowMissing, GivesUp, Posting, AddLabel, IgnoreLabel, Clear, Go, store
<1>2. FilesTypeOK /\ TasksOK /\ LocalOK /\ RowsOK /\ Meeting \subseteq met /\ Safe
  BY DEF IInv
<1>3. FilesTypeOK'
  BY <1>1, <1>2, Constants, Posts, MeetingType DEF FilesTypeOK, TasksOK, AddLabel
<1>4. TasksOK'
  BY <1>1, <1>2, Constants
    DEF FilesTypeOK, TasksOK, LocalOK, PostOf, Its, AddLabel, IgnoreLabel
<1>5. LocalOK'
  BY <1>1, <1>2, Constants DEF LocalOK, TasksOK, PostOf, AddLabel
<1>6. RowsOK'
  BY <1>1, <1>2, Constants DEF FilesTypeOK, RowsOK, TasksOK, AddLabel
<1> DEFINE others == Worker \ {v}
<1>7. /\ \A u \in others : /\ fpc'[u] = fpc[u] /\ block'[u] = block[u]
                           /\ left'[u] = left[u] /\ file'[u] = file[u]
                           /\ PostOf(u)' = PostOf(u) /\ Its(u)' = Its(u)
  BY <1>1, <1>2 DEF FilesTypeOK, PostOf, Its
<1>8. AddSafe(v)' /\ DeleteSafe(v)'
  BY <1>1, <1>2, <1>7, Constants, Posts
    DEF FilesTypeOK, TasksOK, RowsOK, Safe, AddSafe, DeleteSafe, IgnoredIn, PostOf, Its,
        AddLabel, IgnoreLabel, Deleting
<1>9. Safe'
  BY <1>1, <1>2, <1>7, <1>8, Constants, Grows DEF FilesTypeOK, TasksOK, AddLabel, IgnoreLabel
<1>10. ASSUME met' = {} PROVE Calm'
  <2>1. /\ Meeting = {} /\ AddOK /\ IgnoreOK /\ PostsOK /\ UsedOK /\ KeptOK /\ ReleasedOK
        /\ PinnedOK /\ Meeting' = {}
    BY <1>10 DEF IInv, Calm
  <2>2. AddOK'
    BY <1>1, <1>2, <2>1, <1>7, Constants, Posts, Distant
      DEF FilesTypeOK, TasksOK, RowsOK, AddOK, IgnoredIn, PostOf, Its, AddLabel, IgnoreLabel
  <2>3. IgnoreOK'
    BY <1>1, <1>2, <2>1, <1>7, Constants, Posts, Distant
      DEF FilesTypeOK, TasksOK, IgnoreOK, IgnoredIn, PostOf, Its, Deleting, AddLabel
  <2>4. PostsOK'
    BY <1>1, <1>2, <2>1, <1>7, Constants, Posts DEF FilesTypeOK, TasksOK, PostsOK, AddLabel
  <2>5. UsedOK'
    BY <1>1, <1>2, <2>1, <1>7, Constants, Posts DEF FilesTypeOK, TasksOK, UsedOK, AddLabel
  <2>6. KeptOK'
    BY <1>1, <1>2, <2>1, <1>7, Constants, Posts DEF FilesTypeOK, TasksOK, KeptOK, IgnoredIn, AddLabel
  <2>7. ReleasedOK'
    BY <1>1, <1>2, <2>1, <1>7, Constants, Posts
      DEF FilesTypeOK, TasksOK, ReleasedOK, Only, Reused, AddLabel
  <2>8. PinnedOK'
    BY <1>1, <1>2, <2>1, <1>7, Constants, Posts DEF FilesTypeOK, TasksOK, PinnedOK, AddLabel
  <2> QED BY <2>1, <2>2, <2>3, <2>4, <2>5, <2>6, <2>7, <2>8 DEF Calm
<1> QED BY <1>3, <1>4, <1>5, <1>6, <1>9, <1>10 DEF IInv

LEMMA FilesStart == FilesInit => IInv
<1> SUFFICES ASSUME FilesInit PROVE IInv
  OBVIOUS
<1>1. FilesTypeOK
  <2>1. /\ targets \in [File -> SUBSET Target] /\ mishaps \in 0..MaxMishaps
        /\ file \in [Worker -> File \cup {NoBlock}]
    BY FilesConstants DEF FilesInit
  <2>2. left \in [Worker -> SUBSET File] /\ block \in [Worker -> Post \cup IgnoreBlock \cup {NoBlock}]
    BY DEF FilesInit
  <2>3. fpc \in [Worker -> {"idle"} \cup AddLabel \cup IgnoreLabel]
    BY DEF FilesInit
  <2> QED BY <2>1, <2>2, <2>3 DEF FilesInit, FilesTypeOK
<1>2. TasksOK /\ LocalOK /\ RowsOK
  BY DEF FilesInit, TasksOK, LocalOK, RowsOK, AddLabel, IgnoreLabel
<1>3. Meeting = {} /\ AddOK /\ IgnoreOK
  BY DEF FilesInit, Meeting, AddOK, IgnoreOK, AddLabel, IgnoreLabel, Deleting
<1>4. PostsOK /\ UsedOK /\ KeptOK /\ ReleasedOK /\ PinnedOK
  BY DEF FilesInit, PostsOK, UsedOK, KeptOK, ReleasedOK, PinnedOK
<1>5. Safe
  BY DEF FilesInit, Safe, AddSafe, DeleteSafe, Deleting
<1> QED BY <1>1, <1>2, <1>3, <1>4, <1>5 DEF IInv, Calm

\* A restart drops every task; what was being posted counts as spoiled.
LEMMA RestartInv ==
  ASSUME IInv, met' = met \cup Meeting', Restart
  PROVE  IInv'
<1>1. /\ spoiled' = spoiled \cup Posting(Worker) /\ mux' = NoBlock
      /\ fpc' = [v \in Worker |-> "idle"] /\ block' = [v \in Worker |-> NoBlock]
      /\ left' = [v \in Worker |-> {}] /\ file' = [v \in Worker |-> NoBlock]
      /\ mishaps < MaxMishaps /\ mishaps' = mishaps + 1
      /\ UNCHANGED <<blocks, fileRows, targets, pinned, shown>>
  BY DEF Restart, Mishap, store
<1>2. FilesTypeOK /\ TasksOK /\ LocalOK /\ RowsOK /\ Meeting \subseteq met /\ Safe
  BY DEF IInv
<1>3. /\ Posting(Worker) \subseteq Target
      /\ \A w \in Worker : fpc[w] \in AddLabel => Its(w) \in Posting(Worker)
  BY <1>2, Posts DEF Posting
<1>4. \A v \in Worker : fpc'[v] = "idle" /\ fpc'[v] \notin AddLabel \cup IgnoreLabel
  BY <1>1 DEF AddLabel, IgnoreLabel
<1>5. FilesTypeOK'
  BY <1>1, <1>2, <1>3, FilesConstants, MeetingType DEF FilesTypeOK
<1>6. TasksOK' /\ LocalOK' /\ RowsOK'
  BY <1>1, <1>2, <1>4 DEF TasksOK, LocalOK, RowsOK, AddLabel
<1>7. Safe'
  BY <1>1, <1>2, <1>4 DEF Safe, AddSafe, DeleteSafe, Deleting, Kept, IgnoredIn
<1>8. ASSUME met' = {} PROVE Calm'
  <2>1. PostsOK /\ UsedOK /\ KeptOK /\ ReleasedOK /\ PinnedOK
    BY <1>8 DEF IInv, Calm
  <2>2. Meeting' = {} /\ AddOK' /\ IgnoreOK'
    BY <1>4 DEF Meeting, AddOK, IgnoreOK, AddLabel, IgnoreLabel, Deleting
  <2>3. PostsOK'
    <3> SUFFICES ASSUME NEW p \in blocks \cap Post, p \notin shown, TargetOf[p] \notin spoiled
                 PROVE  TargetOf[p] \in Posting(Worker)
      BY <1>1 DEF PostsOK
    <3>1. PICK w \in Worker : fpc[w] = "link" /\ block[w] = p
      BY <2>1 DEF PostsOK
    <3>2. Its(w) = TargetOf[p] /\ fpc[w] \in AddLabel
      BY <3>1 DEF Its, PostOf, AddLabel
    <3> QED BY <1>3, <3>2
  <2>4. UsedOK'
    BY <1>1, <1>3, <2>1 DEF UsedOK
  <2>5. KeptOK'
    BY <1>1, <2>1 DEF KeptOK, IgnoredIn
  <2>6. spoiled' = {} => spoiled = {} /\ \A w \in Worker : fpc[w] \notin AddLabel
    BY <1>1, <1>3
  <2>7. ReleasedOK'
    <3>1. ASSUME spoiled' = {}, NEW g \in IgnoreBlock, Only(g)'
          PROVE  Only(g) /\ ~Reused(g)
      BY <1>1, <2>6, <3>1 DEF Only, Reused
    <3> QED BY <1>1, <2>1, <2>6, <3>1 DEF ReleasedOK
  <2>8. PinnedOK'
    BY <1>1, <2>1, <2>6 DEF PinnedOK, AddLabel
  <2> QED BY <2>2, <2>3, <2>4, <2>5, <2>7, <2>8 DEF Calm
<1> QED BY <1>5, <1>6, <1>7, <1>8 DEF IInv

LEMMA WorkerInv ==
  ASSUME IInv, met' = met \cup Meeting', NEW v \in Worker, WorkerStep(v)
  PROVE  IInv'
<1>1. CASE \E p \in Post : Arrive(v, p) \/ WritePost(v, p)
  BY <1>1, ArriveInv, WritePostInv
<1>2. CASE \E g \in IgnoreBlock : ArriveIgnore(v, g) \/ WriteIgnore(v, g)
  BY <1>2, ArriveIgnoreInv, WriteIgnoreInv
<1>3. CASE \E x \in File : \/ PinFile(v, x) \/ AddFileRow(v, x)
                           \/ MillFile(v, x) \/ NodeForFile(v, x) \/ RemoveTarget(v, x)
  BY <1>3, PinFileInv, AddFileRowInv, MillFileInv, NodeForFileInv, RemoveTargetInv
<1>4. CASE \E x \in File : AddTarget(v, x)
  BY <1>4, LinkNextInv, LinkLastInv
<1>5. CASE CheckIgnored(v) \/ PinTarget(v) \/ FetchFails(v) \/ IndexPost(v) \/ IndexOnly(v)
  BY <1>5, CheckIgnoredInv, PinTargetInv, FetchFailsInv, IndexPostInv, IndexOnlyInv
<1>6. CASE IndexConflict(v) \/ PinOuter(v) \/ LockToPost(v) \/ IndexIgnore(v)
  BY <1>6, IndexConflictInv, PinOuterInv, LockToPostInv, IndexIgnoreInv
<1>7. CASE UnpinTarget(v) \/ UnpinFile(v) \/ NodesUnread(v)
  BY <1>7, UnpinTargetInv, UnpinFileInv, NodesUnreadInv
<1>8. CASE RowMissing(v)
  BY <1>8, RowMissingAddInv, RowMissingIgnoreInv
<1>9. CASE Look(v)
  BY <1>9, LookOnInv, LookEndsInv
<1>10. CASE Count(v)
  BY <1>10, CountOnInv, CountEndsInv
<1>11. CASE CheckOrphan(v)
  BY <1>11, OrphanFoundInv, OrphanNextInv, OrphanEndsInv
<1>12. CASE DeleteRow(v)
  BY <1>12, DropNextInv, DropEndsInv
<1> QED BY <1>1, <1>2, <1>3, <1>4, <1>5, <1>6, <1>7, <1>8, <1>9, <1>10, <1>11, <1>12
        DEF WorkerStep

LEMMA FilesStep == IInv /\ [FilesNext]_filesVars => IInv'
<1>1. ASSUME IInv, FilesNext
      PROVE  IInv'
  BY <1>1, WorkerInv, RestartInv DEF FilesNext
<1>2. ASSUME IInv, UNCHANGED filesVars
      PROVE  IInv'
  <2>1. UNCHANGED <<blocks, fileRows, targets, pinned, mux, fpc, block, left, file, shown, met, spoiled, mishaps>>
    BY <1>2 DEF filesVars, store, task
  <2>2. IInv' <=> IInv
    BY <2>1
      DEF IInv, Calm, FilesTypeOK, TasksOK, LocalOK, RowsOK, Meeting, AddOK, IgnoreOK,
          PostsOK, UsedOK, KeptOK, ReleasedOK, PinnedOK, Safe, AddSafe, DeleteSafe, Kept,
          IgnoredIn, Only, Reused, PostOf, Its
  <2> QED BY <1>2, <2>2
<1> QED BY <1>1, <1>2

-----------------------------------------------------------------------------
(* The theorems *)

\* The invariant holds however posts, IGNOREs, failures and restarts interleave
\* (thread_files.go handleFilesBlock, thread_ignores.go handleIgnoreBlock).
THEOREM FilesInductive == FilesSpec => []IInv
BY FilesStart, FilesStep, PTL DEF FilesSpec

\* Every variable keeps its type, for any number of goroutines, files and posts.
THEOREM FilesTypeCorrect == FilesSpec => []FilesTypeOK
<1>1. IInv => FilesTypeOK
  BY DEF IInv
<1> QED BY <1>1, FilesInductive, PTL

\* The files of a post that was handled to the end and is not ignored stay pinned, with
\* rows that name its target, whatever else is ignored, except the files that a post and
\* an IGNORE were at together (thread_files.go removeFiles and deIndexFileLink count what
\* others still use, without a lock).
THEOREM ShownStayKept == FilesSpec => []ShownAreKept
<1>1. IInv => ShownAreKept
  BY DEF IInv, Safe, Kept, ShownAreKept, IgnoredIn
<1> QED BY <1>1, FilesInductive, PTL

\* Once nothing is under way and nothing was cut off, an ignored post that had its
\* target to itself holds nothing, and every pinned file has its row, whether the post or
\* the IGNORE came first (thread_files.go handleFilesBlock, thread_ignores.go).
THEOREM IgnoredAreLetGo == FilesSpec => []IgnoredAreReleased
<1>1. ASSUME IInv PROVE IgnoredAreReleased
  <2> SUFFICES ASSUME \A v \in Worker : Reached(v, "idle"), met = {}, spoiled = {}
               PROVE  /\ \A g \in shown \cap IgnoreBlock : Only(g) =>
                           /\ TargetOf[Ignored[g]] \notin pinned
                           /\ \A x \in fileRows : TargetOf[Ignored[g]] \notin targets[x]
                      /\ pinned \cap File \subseteq fileRows
    BY DEF IgnoredAreReleased, Only
  <2>1. \A v \in Worker : fpc[v] = "idle" /\ fpc[v] \notin AddLabel
    BY DEF Reached, AddLabel
  <2>2. ReleasedOK /\ PinnedOK /\ fileRows \subseteq File
    BY <1>1 DEF IInv, Calm, FilesTypeOK
  <2>3. \A g \in IgnoreBlock : ~Reused(g)
    BY <2>1 DEF Reused
  <2>4. \A g \in shown \cap IgnoreBlock : Only(g) =>
          /\ TargetOf[Ignored[g]] \notin pinned
          /\ \A x \in fileRows : TargetOf[Ignored[g]] \notin targets[x]
    BY <2>2, <2>3 DEF ReleasedOK
  <2>5. pinned \cap File \subseteq fileRows
    BY <2>1, <2>2 DEF PinnedOK
  <2> QED BY <2>4, <2>5
<1> QED BY <1>1, FilesInductive, PTL
=============================================================================

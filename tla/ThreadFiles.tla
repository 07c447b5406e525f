---------------------------- MODULE ThreadFiles ----------------------------
(***************************************************************************)
(* The files of threads: what FILES and IGNORE blocks do to the pins and   *)
(* to the files table (core/thread_files.go, core/thread_ignores.go,       *)
(* core/files.go, repo/db/files.go).                                       *)
(*                                                                         *)
(* A FILES block (a post) names a target, a directory of files.  Files are *)
(* shared: a file may be in several targets, and a target in several       *)
(* posts.  The row of a file lists the targets it is used by; an IGNORE    *)
(* takes its post's target from the rows and lets go of what nobody uses.  *)
(* Handlers of inbound blocks hold no lock, local writers that of their    *)
(* thread.  How a block becomes HEAD is in ThreadReplica.  An IGNORE is    *)
(* dated after its post, and the schema pins every file.                   *)
(***************************************************************************)
EXTENDS Naturals, FiniteSets

CONSTANTS
  File,       \* hashes of files
  ContentOf,  \* what a file is the encryption of, by some key
  FilesOf,    \* the files of each target
  TargetOf,   \* the target of each post
  Ignored,    \* the post of each IGNORE block
  LocalPost,  \* the posts written here, the others are inbound
  LocalIgnore,
  Worker,     \* goroutines
  NoBlock,    \* no block, no file
  MaxMishaps  \* bound: failures of IPFS and restarts

Target == DOMAIN FilesOf
Post == DOMAIN TargetOf
IgnoreBlock == DOMAIN Ignored

ASSUME FilesConstants ==
  /\ DOMAIN ContentOf = File
  /\ FilesOf \in [Target -> (SUBSET File) \ {{}}]
  /\ TargetOf \in [Post -> Target] /\ Ignored \in [IgnoreBlock -> Post]
  /\ LocalPost \subseteq Post /\ LocalIgnore \subseteq IgnoreBlock
  /\ Post \cap IgnoreBlock = {} /\ File \cap Target = {}
  /\ NoBlock \notin Post \cup IgnoreBlock \cup File
  /\ MaxMishaps \in Nat

VARIABLES
  blocks,   \* the blocks table: posts and IGNOREs
  fileRows, \* the files with a row in the files table
  targets,  \* files.targets
  pinned,   \* the targets and files IPFS keeps
  mux,      \* Thread.mux: the worker that holds it
  fpc,      \* where a worker is
  block,    \* its block
  left,     \* the files it has not been through in its loop
  file,     \* the file whose row deIndexFileLink is at
  shown,    \* history: the blocks that were handled to the end
  met,      \* history: files common to a post and an IGNORE handled at one time
  spoiled,  \* history: the targets whose post failed or was cut off
  mishaps

store == <<blocks, fileRows, targets, pinned>>
task == <<fpc, block, left, file>>
filesVars == <<store, mux, task, shown, met, spoiled, mishaps>>

AddLabel == {"mill", "node", "outer", "lock", "check", "target", "pin", "row", "index", "indexOnly", "link"}
IgnoreLabel == {"ignore", "look", "count", "unpin", "unlink", "orphan", "release", "drop"}

FilesTypeOK ==
  /\ blocks \subseteq Post \cup IgnoreBlock
  /\ fileRows \subseteq File /\ targets \in [File -> SUBSET Target]
  /\ pinned \subseteq Target \cup File
  /\ mux \in Worker \cup {NoBlock}
  /\ fpc \in [Worker -> {"idle"} \cup AddLabel \cup IgnoreLabel]
  /\ block \in [Worker -> Post \cup IgnoreBlock \cup {NoBlock}]
  /\ left \in [Worker -> SUBSET File] /\ file \in [Worker -> File \cup {NoBlock}]
  /\ shown \subseteq blocks /\ met \subseteq File /\ spoiled \subseteq Target
  /\ mishaps \in 0..MaxMishaps

FilesInit ==
  /\ blocks = {} /\ fileRows = {} /\ targets = [x \in File |-> {}] /\ pinned = {}
  /\ mux = NoBlock
  /\ fpc = [v \in Worker |-> "idle"] /\ block = [v \in Worker |-> NoBlock]
  /\ left = [v \in Worker |-> {}] /\ file = [v \in Worker |-> NoBlock]
  /\ shown = {} /\ met = {} /\ spoiled = {} /\ mishaps = 0
-----------------------------------------------------------------------------
\* the post worker v is about, and its target
PostOf(v) == IF block[v] \in Post THEN block[v] ELSE Ignored[block[v]]
Its(v) == TargetOf[PostOf(v)]

Reached(v, label) == fpc[v] = label
Go(v, label) == fpc' = [fpc EXCEPT ![v] = label]

\* on to a loop over the files of the target
Loop(v, label) == Go(v, label) /\ left' = [left EXCEPT ![v] = FilesOf[Its(v)]]

\* file x is done; the last one ends the loop
Through(v, x) == left' = [left EXCEPT ![v] = @ \ {x}]
LastLeft(v, x) == left[v] = {x}

\* worker v is done with its block, or gives up on it, and unlocks
Clear(v) ==
  /\ Go(v, "idle")
  /\ mux' = IF mux = v THEN NoBlock ELSE mux
  /\ block' = [block EXCEPT ![v] = NoBlock] /\ left' = [left EXCEPT ![v] = {}]
  /\ file' = [file EXCEPT ![v] = NoBlock]

Ends(v) == Clear(v) /\ shown' = shown \cup {block[v]} /\ UNCHANGED spoiled

\* the targets of the posts that the workers W are at
Posting(W) == {Its(v) : v \in {u \in W : fpc[u] \in AddLabel}}

GivesUp(v) == Clear(v) /\ spoiled' = spoiled \cup Posting({v}) /\ UNCHANGED shown

Takes(v, b, label) ==
  /\ Reached(v, "idle")
  /\ block' = [block EXCEPT ![v] = b] /\ Go(v, label)

Mishap == mishaps < MaxMishaps /\ mishaps' = mishaps + 1

\* the primary key of a row is the content, not the hash
SameContent(x) == {y \in fileRows : ContentOf[y] = ContentOf[x]}

\* Files.Add: a row of the content stays as it is, a new one has no targets
AddRowFor(x) ==
  IF SameContent(x) # {} THEN UNCHANGED <<fileRows, targets>>
  ELSE fileRows' = fileRows \cup {x} /\ targets' = [targets EXCEPT ![x] = {}]
-----------------------------------------------------------------------------
\* An inbound FILES block that is not indexed; two workers may have the same
Arrive(v, p) ==
  /\ p \in Post \ (blocks \cup LocalPost)
  /\ Takes(v, p, "check")
  /\ UNCHANGED <<store, mux, left, file, shown, spoiled, mishaps>>

\* Mutant: an IGNORE that came first is not looked for.
NeverIgnored(v) ==
  /\ Reached(v, "check")
  /\ Go(v, "target")
  /\ UNCHANGED <<store, mux, block, left, file, shown, spoiled, mishaps>>

CheckIgnored(v) ==
  /\ Reached(v, "check")
  /\ Go(v, IF \E g \in blocks \cap IgnoreBlock : Ignored[g] = block[v] THEN "indexOnly" ELSE "target")
  /\ UNCHANGED <<store, mux, block, left, file, shown, spoiled, mishaps>>

PinTarget(v) ==
  /\ Reached(v, "target")
  /\ pinned' = pinned \cup {Its(v)}
  /\ Loop(v, "pin")
  /\ UNCHANGED <<blocks, fileRows, targets, mux, block, file, shown, spoiled, mishaps>>

\* processFileNode, for local posts too
PinFile(v, x) ==
  /\ Reached(v, "pin") /\ x \in left[v]
  /\ pinned' = pinned \cup {x}
  /\ IF ~LastLeft(v, x) THEN Through(v, x) /\ UNCHANGED fpc
     ELSE IF block[v] \in LocalPost THEN Through(v, x) /\ Go(v, "index")
     ELSE Loop(v, "row")
  /\ UNCHANGED <<blocks, fileRows, targets, mux, block, file, shown, spoiled, mishaps>>

AddFileRow(v, x) ==
  /\ Reached(v, "row") /\ x \in left[v]
  /\ AddRowFor(x)
  /\ Through(v, x)
  /\ IF LastLeft(v, x) THEN Go(v, "index") ELSE UNCHANGED fpc
  /\ UNCHANGED <<blocks, pinned, mux, block, file, shown, spoiled, mishaps>>

\* the target or a file cannot be read, before the post is indexed or after
FetchFails(v) ==
  /\ fpc[v] \in {"target", "pin", "row", "link"} /\ Mishap
  /\ GivesUp(v)
  /\ UNCHANGED store

\* indexBlock of a post, and of one that is ignored and needs nothing else
IndexPost(v) ==
  /\ Reached(v, "index") /\ block[v] \notin blocks
  /\ blocks' = blocks \cup {block[v]}
  /\ Loop(v, "link")
  /\ UNCHANGED <<fileRows, targets, pinned, mux, block, file, shown, spoiled, mishaps>>

IndexOnly(v) ==
  /\ Reached(v, "indexOnly") /\ block[v] \notin blocks
  /\ blocks' = blocks \cup {block[v]}
  /\ Ends(v)
  /\ UNCHANGED <<fileRows, targets, pinned, mishaps>>

\* another worker has indexed the block since
IndexConflict(v) ==
  /\ fpc[v] \in {"index", "indexOnly", "ignore"} /\ block[v] \in blocks
  /\ Clear(v)
  /\ UNCHANGED <<store, shown, spoiled, mishaps>>

\* indexFileNode
AddTarget(v, x) ==
  /\ Reached(v, "link") /\ x \in left[v] /\ x \in fileRows
  /\ targets' = [targets EXCEPT ![x] = @ \cup {Its(v)}]
  /\ IF LastLeft(v, x) THEN Ends(v)
     ELSE Through(v, x) /\ UNCHANGED <<mux, fpc, block, file, shown, spoiled>>
  /\ UNCHANGED <<blocks, fileRows, pinned, mishaps>>

\* the row is gone
RowMissing(v) ==
  /\ fpc[v] \in {"node", "link", "unlink"} /\ ~(left[v] \subseteq fileRows)
  /\ GivesUp(v)
  /\ UNCHANGED <<store, mishaps>>
-----------------------------------------------------------------------------
\* A local post: AddFile and AddNodeFromFiles for its files, then AddFiles; the
\* target is made of the files that have the rows
WritePost(v, p) ==
  /\ p \in LocalPost \ blocks /\ \A w \in Worker : block[w] # p
  /\ Takes(v, p, "mill")
  /\ left' = [left EXCEPT ![v] = FilesOf[TargetOf[p]]]
  /\ UNCHANGED <<store, mux, file, shown, spoiled, mishaps>>

MillFile(v, x) ==
  /\ Reached(v, "mill") /\ x \in left[v] /\ SameContent(x) \subseteq {x}
  /\ AddRowFor(x)
  /\ IF LastLeft(v, x) THEN Loop(v, "node") ELSE Through(v, x) /\ UNCHANGED fpc
  /\ UNCHANGED <<blocks, pinned, mux, block, file, shown, spoiled, mishaps>>

\* fileNode
NodeForFile(v, x) ==
  /\ Reached(v, "node") /\ x \in left[v] /\ x \in fileRows
  /\ pinned' = pinned \cup {x}
  /\ Through(v, x)
  /\ IF LastLeft(v, x) THEN Go(v, "outer") ELSE UNCHANGED fpc
  /\ UNCHANGED <<blocks, fileRows, targets, mux, block, file, shown, spoiled, mishaps>>

PinOuter(v) ==
  /\ Reached(v, "outer")
  /\ pinned' = pinned \cup {Its(v)}
  /\ Go(v, "lock")
  /\ UNCHANGED <<blocks, fileRows, targets, mux, block, left, file, shown, spoiled, mishaps>>

LockToPost(v) ==
  /\ Reached(v, "lock") /\ mux = NoBlock
  /\ mux' = v
  /\ Loop(v, "pin")
  /\ UNCHANGED <<store, block, file, shown, spoiled, mishaps>>
-----------------------------------------------------------------------------
\* An inbound IGNORE, before or after its post unless that was written here
ArriveIgnore(v, g) ==
  /\ g \in IgnoreBlock \ (blocks \cup LocalIgnore)
  /\ Ignored[g] \in LocalPost => Ignored[g] \in shown
  /\ Takes(v, g, "ignore")
  /\ UNCHANGED <<store, mux, left, file, shown, spoiled, mishaps>>

\* AddIgnore
WriteIgnore(v, g) ==
  /\ g \in LocalIgnore \ blocks /\ Ignored[g] \in blocks
  /\ mux = NoBlock /\ mux' = v
  /\ Takes(v, g, "ignore")
  /\ UNCHANGED <<store, left, file, shown, spoiled, mishaps>>

IndexIgnore(v) ==
  /\ Reached(v, "ignore") /\ block[v] \notin blocks
  /\ blocks' = blocks \cup {block[v]}
  /\ Go(v, "look")
  /\ UNCHANGED <<fileRows, targets, pinned, mux, block, left, file, shown, spoiled, mishaps>>

\* ignoreBlockTarget does nothing for a post that is not there
Look(v) ==
  /\ Reached(v, "look")
  /\ IF PostOf(v) \in blocks
     THEN Go(v, "count") /\ UNCHANGED <<mux, block, left, file, shown, spoiled>>
     ELSE Ends(v)
  /\ UNCHANGED <<store, mishaps>>

\* Mutant: other posts of the target are not counted.
CountNothing(v) ==
  /\ Reached(v, "count")
  /\ Go(v, "unpin")
  /\ UNCHANGED <<store, mux, block, left, file, shown, spoiled, mishaps>>

\* removeFiles: a post keeps the target, if it is ignored too
Count(v) ==
  /\ Reached(v, "count")
  /\ IF \E p \in blocks \cap Post : TargetOf[p] = Its(v) /\ p # PostOf(v)
     THEN Ends(v)
     ELSE Go(v, "unpin") /\ UNCHANGED <<mux, block, left, file, shown, spoiled>>
  /\ UNCHANGED <<store, mishaps>>

UnpinTarget(v) ==
  /\ Reached(v, "unpin")
  /\ pinned' = pinned \ {Its(v)}
  /\ Loop(v, "unlink")
  /\ UNCHANGED <<blocks, fileRows, targets, mux, block, file, shown, spoiled, mishaps>>

\* deIndexFileLink, from here on
RemoveTarget(v, x) ==
  /\ Reached(v, "unlink") /\ x \in left[v] /\ x \in fileRows
  /\ targets' = [targets EXCEPT ![x] = @ \ {Its(v)}]
  /\ file' = [file EXCEPT ![v] = x]
  /\ Go(v, "orphan")
  /\ UNCHANGED <<blocks, fileRows, pinned, mux, block, left, shown, spoiled, mishaps>>

\* on to the next file
NextFile(v) ==
  IF LastLeft(v, file[v]) THEN Ends(v)
  ELSE /\ Through(v, file[v]) /\ Go(v, "unlink")
       /\ file' = [file EXCEPT ![v] = NoBlock]
       /\ UNCHANGED <<mux, block, shown, spoiled>>

\* Mutant: a file goes with the first of its targets.
AlwaysOrphan(v) ==
  /\ Reached(v, "orphan")
  /\ Go(v, "release")
  /\ UNCHANGED <<store, mux, block, left, file, shown, spoiled, mishaps>>

CheckOrphan(v) ==
  /\ Reached(v, "orphan")
  /\ IF file[v] \in fileRows /\ targets[file[v]] = {}
     THEN Go(v, "release") /\ UNCHANGED <<mux, block, left, file, shown, spoiled>>
     ELSE NextFile(v)
  /\ UNCHANGED <<store, mishaps>>

UnpinFile(v) ==
  /\ Reached(v, "release")
  /\ pinned' = pinned \ {file[v]}
  /\ Go(v, "drop")
  /\ UNCHANGED <<blocks, fileRows, targets, mux, block, left, file, shown, spoiled, mishaps>>

DeleteRow(v) ==
  /\ Reached(v, "drop")
  /\ fileRows' = fileRows \ {file[v]} /\ targets' = [targets EXCEPT ![file[v]] = {}]
  /\ NextFile(v)
  /\ UNCHANGED <<blocks, pinned, mishaps>>

\* the nodes of the target cannot be read
NodesUnread(v) ==
  /\ fpc[v] \in {"count", "unlink"} /\ Mishap
  /\ GivesUp(v)
  /\ UNCHANGED store
-----------------------------------------------------------------------------
\* the process ends and starts again
Restart ==
  /\ \E v \in Worker : ~Reached(v, "idle")
  /\ Mishap
  /\ spoiled' = spoiled \cup Posting(Worker)
  /\ mux' = NoBlock
  /\ fpc' = [v \in Worker |-> "idle"] /\ block' = [v \in Worker |-> NoBlock]
  /\ left' = [v \in Worker |-> {}] /\ file' = [v \in Worker |-> NoBlock]
  /\ UNCHANGED <<store, shown>>

\* the files of a post and of an IGNORE that are being handled
Meeting ==
  {x \in File : \E v, w \in Worker : /\ fpc[v] \in AddLabel /\ fpc[w] \in IgnoreLabel
                                     /\ x \in FilesOf[Its(v)] \cap FilesOf[Its(w)]}

WorkerStep(v) ==
  \/ \E p \in Post : Arrive(v, p) \/ WritePost(v, p)
  \/ \E g \in IgnoreBlock : ArriveIgnore(v, g) \/ WriteIgnore(v, g)
  \/ \E x \in File : \/ PinFile(v, x) \/ AddFileRow(v, x) \/ AddTarget(v, x)
                     \/ MillFile(v, x) \/ NodeForFile(v, x) \/ RemoveTarget(v, x)
  \/ CheckIgnored(v) \/ PinTarget(v) \/ FetchFails(v) \/ IndexPost(v) \/ IndexOnly(v)
  \/ IndexConflict(v) \/ RowMissing(v) \/ PinOuter(v) \/ LockToPost(v)
  \/ IndexIgnore(v) \/ Look(v) \/ Count(v) \/ UnpinTarget(v) \/ CheckOrphan(v)
  \/ UnpinFile(v) \/ DeleteRow(v) \/ NodesUnread(v)

FilesNext ==
  /\ (\E v \in Worker : WorkerStep(v)) \/ Restart
  /\ met' = met \cup Meeting'

FilesSpec == FilesInit /\ [][FilesNext]_filesVars
-----------------------------------------------------------------------------
\* The files of a post that was handled to the end and is not ignored are kept,
\* whatever else is ignored: IPFS has them pinned, with their target, and their
\* rows name the target. Excused are files that a post and an IGNORE were at
\* together, and a target of which all files were.
ShownAreKept ==
  \A p \in shown \cap Post :
    (\A g \in blocks \cap IgnoreBlock : Ignored[g] # p) =>
      /\ TargetOf[p] \in pinned \/ FilesOf[TargetOf[p]] \subseteq met
      /\ \A x \in FilesOf[TargetOf[p]] \ met :
           x \in pinned /\ x \in fileRows /\ TargetOf[p] \in targets[x]

\* thread_files.go:202 "unpins and removes target files unless they are used by
\* another target": the files of a post that was handled to the end and is not
\* ignored stay pinned.
UsedAreKept ==
  \A p \in shown \cap Post :
    (\A g \in blocks \cap IgnoreBlock : Ignored[g] # p) => FilesOf[TargetOf[p]] \subseteq pinned

\* When nothing is under way and no post was cut off or met an IGNORE, a post that
\* is ignored, before or after it came, holds nothing, if it is the only one of
\* its target; and every file that is pinned has a row to find it by.
IgnoredAreReleased ==
  (\A v \in Worker : Reached(v, "idle")) /\ met = {} /\ spoiled = {} =>
    /\ \A g \in shown \cap IgnoreBlock :
         LET released == TargetOf[Ignored[g]] IN
         (\A p \in blocks \cap Post : TargetOf[p] = released => p = Ignored[g]) =>
           released \notin pinned /\ \A x \in fileRows : released \notin targets[x]
    /\ pinned \cap File \subseteq fileRows
=============================================================================

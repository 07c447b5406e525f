-------------------------- MODULE ThreadsRegistry --------------------------
(***************************************************************************)
(* The threads of a node (core/threads.go, loadThread of core/main.go,     *)
(* repo/db/threads.go, repo/db/thread_invites.go).                         *)
(*                                                                         *)
(* A thread has a row in the datastore and, once loaded, a place in the    *)
(* slice Textile.threads, which nothing guards: the API, the mobile        *)
(* binding, the threads service and the notification loop of the desktop   *)
(* create, accept and remove threads in goroutines of their own.  What     *)
(* they did is announced on the updates channel.                           *)
(***************************************************************************)
EXTENDS Naturals, Sequences, SequencesExt

CONSTANTS
  Thread,       \* thread ids
  Invite,       \* ids of pending invites
  ThreadOf,     \* the thread an invite is to
  Fresh,        \* the threads the user creates
  Stored,       \* what may be loaded when Start returns, in order
  Adder,        \* goroutines in AcceptThreadInvite or AddThread
  Remover,      \* goroutines in RemoveThread
  UpdatesSize,  \* the capacity of the updates channel
  MaxErrors,    \* bound: threads that cannot be loaded, joined or left
  MaxCalls,     \* bound: calls of AddThread, AcceptThreadInvite and RemoveThread
  Nothing       \* no job, no thread

ASSUME RegistryConstants ==
  /\ ThreadOf \in [Invite -> Thread \ Fresh] /\ Fresh \subseteq Thread
  /\ \A s \in Stored : s \in Seq(Thread \ Fresh) /\ IsInjective(s)
  /\ UpdatesSize \in Nat \ {0} /\ MaxErrors \in Nat /\ MaxCalls \in Nat
  /\ Nothing \notin Thread \cup Invite

VARIABLES
  rows,     \* the threads table
  loaded,   \* Textile.threads
  invites,  \* the thread_invites table
  updates,  \* Textile.updates
  apc,      \* where an adder is
  job,      \* its invite or the thread it creates
  slice,    \* Textile.threads as it read it for its append
  vpc,      \* where a remover is
  index,    \* the index it found
  leaving,  \* and the thread it found there
  joined,   \* history: threads this node has joined once
  half,     \* history: threads with a row that could not be loaded
  failed,   \* history: threads a goroutine loaded and could not join
  ignored,  \* history: invites the user ignored
  clashed,  \* history: two calls removed one thread, or one took out another than its own
  raced,    \* history: the slice changed between the read and the write of an append
  broken,   \* the process has panicked: an index out of range, or a nil thread in the slice
  errors,
  called

tables == <<rows, invites>>
adders == <<apc, job, slice>>
removers == <<vpc, index, leaving>>
bounds == <<errors, called>>
history == <<joined, half, failed, ignored, clashed, raced>>
registryVars == <<tables, loaded, updates, adders, removers, history, broken, bounds>>

AdderLabel == {"idle", "check", "addRow", "load", "append", "write", "update", "join", "ignore"}

RegistryTypeOK ==
  /\ rows \subseteq Thread /\ loaded \in Seq(Thread) /\ invites \subseteq Invite
  /\ updates \in Seq([type : {"added", "removed"}, id : Thread])
  /\ Len(updates) <= UpdatesSize
  /\ apc \in [Adder -> AdderLabel]
  /\ job \in [Adder -> Invite \cup Fresh \cup {Nothing}]
  /\ slice \in [Adder -> Seq(Thread)]
  /\ vpc \in [Remover -> {"idle", "leave", "deleteRow", "splice", "update"}]
  /\ index \in [Remover -> Nat] /\ leaving \in [Remover -> Thread \cup {Nothing}]
  /\ joined \subseteq Thread /\ half \subseteq Thread /\ failed \subseteq Thread
  /\ ignored \subseteq Invite
  /\ clashed \in BOOLEAN /\ raced \in BOOLEAN /\ broken \in BOOLEAN /\ errors \in 0..MaxErrors
  /\ called \in 0..MaxCalls

\* after Start; updates may be on the channel
RegistryStart ==
  /\ loaded \in Stored /\ rows = ToSet(loaded) /\ invites = Invite
  /\ apc = [a \in Adder |-> "idle"] /\ job = [a \in Adder |-> Nothing]
  /\ slice = [a \in Adder |-> <<>>]
  /\ vpc = [r \in Remover |-> "idle"] /\ index = [r \in Remover |-> 0]
  /\ leaving = [r \in Remover |-> Nothing]
  /\ joined = ToSet(loaded) /\ half = {} /\ failed = {} /\ ignored = {}
  /\ clashed = FALSE /\ raced = FALSE /\ broken = FALSE /\ errors = 0 /\ called = 0

RegistryInit == RegistryStart /\ updates = <<>>
-----------------------------------------------------------------------------
GotoA(a, label) == apc' = [apc EXCEPT ![a] = label]

\* the thread an adder is about
Wanted(a) == IF job[a] \in Invite THEN ThreadOf[job[a]] ELSE job[a]

\* Textile.Thread finds it
Loaded(t) == t \in ToSet(loaded)

\* the call of an adder returns
Returns(a) ==
  /\ GotoA(a, "idle")
  /\ job' = [job EXCEPT ![a] = Nothing]
  /\ UNCHANGED slice

Errs == errors < MaxErrors /\ errors' = errors + 1 /\ UNCHANGED called

Called == called < MaxCalls /\ called' = called + 1 /\ UNCHANGED errors

\* AcceptThreadInvite has found the invite
Accept(a, i) ==
  /\ apc[a] = "idle" /\ i \in invites
  /\ job' = [job EXCEPT ![a] = i]
  /\ GotoA(a, "check")
  /\ Called
  /\ UNCHANGED <<tables, loaded, updates, slice, removers, history, broken>>

\* AddThread for a thread of the user's: its key pair is new
Create(a, t) ==
  /\ apc[a] = "idle"
  /\ t \in Fresh \ (rows \cup joined \cup failed) /\ \A b \in Adder : job[b] # t
  /\ job' = [job EXCEPT ![a] = t]
  /\ GotoA(a, "addRow")
  /\ Called
  /\ UNCHANGED <<tables, loaded, updates, slice, removers, history, broken>>

\* handleThreadInvite: a thread that is loaded needs no JOIN
Check(a) ==
  /\ apc[a] = "check"
  /\ GotoA(a, IF Loaded(Wanted(a)) THEN "ignore" ELSE "addRow")
  /\ UNCHANGED <<tables, loaded, updates, job, slice, removers, history, broken, bounds>>

\* Mutant: a row that is there is left alone.
InsertOrIgnore(a) ==
  /\ apc[a] = "addRow"
  /\ rows' = rows \cup {Wanted(a)} /\ GotoA(a, "load") /\ UNCHANGED <<job, slice>>
  /\ UNCHANGED <<loaded, invites, updates, removers, history, broken, bounds>>

\* AddThread: the id of a thread is the primary key
AddRow(a) ==
  /\ apc[a] = "addRow"
  /\ \/ /\ Wanted(a) \notin rows
        /\ rows' = rows \cup {Wanted(a)}
        /\ GotoA(a, "load") /\ UNCHANGED <<job, slice>>
     \/ /\ Wanted(a) \in rows
        /\ Returns(a) /\ UNCHANGED rows
  /\ UNCHANGED <<loaded, invites, updates, removers, history, broken, bounds>>

\* loadThread up to its append
Load(a) ==
  /\ apc[a] = "load" /\ ~Loaded(Wanted(a))
  /\ GotoA(a, "append")
  /\ UNCHANGED <<tables, loaded, updates, job, slice, removers, history, broken, bounds>>

\* Mutant: the error of loadThread is not returned.
LoadErrorIgnored(a) ==
  /\ apc[a] = "load"
  /\ Errs
  /\ GotoA(a, "ignore")
  /\ half' = half \cup {Wanted(a)}
  /\ UNCHANGED <<tables, loaded, updates, job, slice, removers, joined, failed, ignored, clashed, raced, broken>>

\* the thread is loaded already, or its schema cannot be: the row stays
LoadFails(a) ==
  /\ apc[a] = "load"
  /\ IF Loaded(Wanted(a)) THEN UNCHANGED bounds ELSE Errs
  /\ half' = half \cup {Wanted(a)}
  /\ Returns(a)
  /\ UNCHANGED <<tables, loaded, updates, removers, joined, failed, ignored, clashed, raced, broken>>

\* t.threads = append(t.threads, thrd): the slice is read ...
Append1(a) ==
  /\ apc[a] = "append"
  /\ slice' = [slice EXCEPT ![a] = loaded]
  /\ GotoA(a, "write")
  /\ UNCHANGED <<tables, loaded, updates, job, removers, history, broken, bounds>>

\* what the cells of the slice u hold once they were written through the slice s
Overlaid(u, s) == [n \in 1..Len(u) |-> IF n <= Len(s) THEN s[n] ELSE u[n]]

\* ... and written. When the slice was replaced in between, what was added is
\* lost and what was taken out comes back: append copied the cells before that,
\* or shares them. A cell that a removal left nil ends the process at the next
\* Textile.Thread.
Append2(a) ==
  /\ apc[a] = "write"
  /\ \/ loaded' = Append(slice[a], Wanted(a)) /\ UNCHANGED broken
     \/ loaded' = Append(Overlaid(slice[a], loaded), Wanted(a)) /\ UNCHANGED broken
     \/ /\ Len(loaded) < Len(slice[a]) /\ ~(ToSet(slice[a]) \subseteq rows)
        /\ broken' = TRUE /\ UNCHANGED loaded
  /\ raced' = (raced \/ slice[a] # loaded)
  /\ slice' = [slice EXCEPT ![a] = <<>>]
  /\ GotoA(a, IF job[a] \in Fresh THEN "join" ELSE "update")
  /\ UNCHANGED <<tables, updates, job, removers, joined, half, failed, ignored, clashed, bounds>>

\* sendUpdate waits while the channel is full
AnnounceAdded(a) ==
  /\ apc[a] = "update" /\ Len(updates) < UpdatesSize
  /\ updates' = Append(updates, [type |-> "added", id |-> Wanted(a)])
  /\ IF job[a] \in Fresh THEN Returns(a) ELSE GotoA(a, "join") /\ UNCHANGED <<job, slice>>
  /\ UNCHANGED <<tables, loaded, removers, history, broken, bounds>>

\* handleInviteMessage, WelcomeByThread and join, or joinInitial
Join(a) ==
  /\ apc[a] = "join"
  /\ joined' = joined \cup {Wanted(a)}
  /\ GotoA(a, IF job[a] \in Fresh THEN "update" ELSE "ignore")
  /\ UNCHANGED <<tables, loaded, updates, job, slice, removers, half, failed, ignored, clashed, raced, broken,
                 bounds>>

\* one of them fails: the thread stays loaded
JoinFails(a) ==
  /\ apc[a] = "join"
  /\ Errs
  /\ failed' = failed \cup {Wanted(a)}
  /\ Returns(a)
  /\ UNCHANGED <<tables, loaded, updates, removers, joined, half, ignored, clashed, raced, broken>>

\* the end of AcceptThreadInvite
DeleteInvite(a) ==
  /\ apc[a] = "ignore"
  /\ invites' = invites \ {job[a]}
  /\ Returns(a)
  /\ UNCHANGED <<rows, loaded, updates, removers, history, broken, bounds>>

\* IgnoreThreadInvite by the user
Ignore(i) ==
  /\ i \in invites
  /\ invites' = invites \ {i} /\ ignored' = ignored \cup {i}
  /\ UNCHANGED <<rows, loaded, updates, adders, removers, joined, half, failed, clashed, raced, broken, bounds>>
-----------------------------------------------------------------------------
GotoR(r, label) == vpc' = [vpc EXCEPT ![r] = label]

\* the call of a remover returns
ReturnsR(r) ==
  /\ GotoR(r, "idle")
  /\ index' = [index EXCEPT ![r] = 0] /\ leaving' = [leaving EXCEPT ![r] = Nothing]

\* RemoveThread has found the thread
Find(r, k) ==
  /\ vpc[r] = "idle"
  /\ index' = [index EXCEPT ![r] = k] /\ leaving' = [leaving EXCEPT ![r] = loaded[k]]
  /\ clashed' = (clashed \/ \E v \in Remover : leaving[v] = loaded[k])
  /\ GotoR(r, "leave")
  /\ Called
  /\ UNCHANGED <<tables, loaded, updates, adders, joined, half, failed, ignored, raced, broken>>

\* thread.leave posts to the peers and cleans up
LeaveThread(r) ==
  /\ vpc[r] = "leave"
  /\ \/ GotoR(r, "deleteRow") /\ UNCHANGED <<index, leaving, bounds>>
     \/ Errs /\ ReturnsR(r)
  /\ UNCHANGED <<tables, loaded, updates, adders, history, broken>>

DeleteThreadRow(r) ==
  /\ vpc[r] = "deleteRow"
  /\ rows' = rows \ {leaving[r]}
  /\ GotoR(r, "splice")
  /\ UNCHANGED <<loaded, invites, updates, adders, index, leaving, history, broken, bounds>>

\* the index was found before the thread was left
Splice(r) ==
  /\ vpc[r] = "splice"
  /\ IF index[r] \in DOMAIN loaded
     THEN /\ loaded' = RemoveAt(loaded, index[r])
          /\ clashed' = (clashed \/ loaded[index[r]] # leaving[r])
          /\ UNCHANGED broken
     ELSE broken' = TRUE /\ UNCHANGED <<loaded, clashed>>
  /\ GotoR(r, "update")
  /\ UNCHANGED <<tables, updates, adders, index, leaving, joined, half, failed, ignored, raced, bounds>>

AnnounceRemoved(r) ==
  /\ vpc[r] = "update" /\ Len(updates) < UpdatesSize
  /\ updates' = Append(updates, [type |-> "removed", id |-> leaving[r]])
  /\ ReturnsR(r)
  /\ UNCHANGED <<tables, loaded, adders, history, broken, bounds>>

\* a reader of the channel: the command line, the mobile binding
TakeUpdate ==
  /\ updates # <<>>
  /\ updates' = Tail(updates)
  /\ UNCHANGED <<tables, loaded, adders, removers, history, broken, bounds>>

\* what an adder does once it was called
AdderStep(a) ==
  \/ Check(a) \/ AddRow(a) \/ Load(a) \/ LoadFails(a) \/ Append1(a) \/ Append2(a)
  \/ AnnounceAdded(a) \/ Join(a) \/ JoinFails(a) \/ DeleteInvite(a)

RemoverStep(r) ==
  \/ \E k \in DOMAIN loaded : Find(r, k)
  \/ LeaveThread(r) \/ DeleteThreadRow(r) \/ Splice(r) \/ AnnounceRemoved(r)

CallsNext ==
  /\ ~broken
  /\ \/ \E a \in Adder :
          \/ AdderStep(a) \/ \E i \in invites : Accept(a, i)
          \/ \E t \in Fresh : Create(a, t)
     \/ \E i \in invites : Ignore(i)
     \/ \E r \in Remover : RemoverStep(r)

RegistryNext == CallsNext \/ (~broken /\ TakeUpdate)

RegistrySpec == RegistryInit /\ [][RegistryNext]_registryVars
-----------------------------------------------------------------------------
Quiet == (\A a \in Adder : apc[a] = "idle") /\ (\A r \in Remover : vpc[r] = "idle")

\* When no call is under way the loaded threads are those with a row, each once,
\* but for those that could not be loaded. Excused are calls of RemoveThread that
\* met, and an append to the slice that another append or removal came into.
LoadedMatchesRows ==
  Quiet /\ ~broken /\ ~clashed /\ ~raced =>
    IsInjective(loaded) /\ ToSet(loaded) = rows \ half

\* An accepted invite goes only when its thread has been joined, or its join has
\* failed after it was loaded, or somebody is between loading and joining it: also
\* if other invites to it are accepted at the same time and whatever the slice
\* loses.
AcceptedMeansJoined ==
  \A i \in Invite \ (invites \cup ignored) :
    \/ ThreadOf[i] \in joined \cup failed
    \/ \E a \in Adder : Wanted(a) = ThreadOf[i] /\ apc[a] \in {"update", "join"}
=============================================================================

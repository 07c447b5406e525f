------------------------------ MODULE Desktop ------------------------------
(***************************************************************************)
(* The desktop application (desktop/main.go) and its window                *)
(* (static/js/textile.js), on top of the threads of its node.              *)
(*                                                                         *)
(* Once the node is online one goroutine pumps the updates channel into    *)
(* the window, others accept every invite that a notification tells of,    *)
(* and the main one shows, after a while, the threads it finds then or the *)
(* code to set the account up with.  The window handles messages one at a  *)
(* time; the answers to its own thread.load messages come in any order.    *)
(* Nothing here calls RemoveThread or creates threads.                     *)
(***************************************************************************)
EXTENDS ThreadsRegistry

CONSTANTS
  Account,   \* the account thread, which Threads leaves out
  MaxClicks  \* bound: clicks of the user

ASSUME DesktopConstants ==
  /\ Remover = {} /\ MaxClicks \in Nat
  /\ \A s \in Stored : Account \in ToSet(s)

VARIABLES
  expanded,   \* the variable of desktop/main.go, which both goroutines use
  main,       \* where the main goroutine is
  snap,       \* the threads it found
  pump,       \* where the pump is
  held,       \* the thread of the update it holds
  window,     \* messages on their way to the window, in order
  list,       \* .threads: the ids of its entries
  active,     \* the entry with the class active, 0 for none
  timers,     \* pending timeouts of loadFirstThread
  loads,      \* the threads of thread.load messages without an answer
  grid,       \* the thread of the grid that is shown
  page,       \* .setup: its logo or its code shown, or hidden
  mainShown,  \* .main is shown
  announced,  \* history: the threads the pump has sent
  overtaken,  \* history: a thread.load was answered before an earlier one
  clicks

goroutines == <<expanded, main, snap, pump, held, announced>>
entries == <<list, timers, page, mainShown>>
content == <<active, loads, grid, overtaken>>
desktopVars == <<registryVars, goroutines, window, entries, content, clicks>>

DesktopTypeOK ==
  /\ expanded \in BOOLEAN
  /\ main \in {"snapshot", "preready", "expand", "ready", "setup", "done"}
  /\ snap \in Seq(Thread)
  /\ pump \in {"take", "preready", "expand", "send"}
  /\ held \in Thread \cup {Nothing}
  /\ window \in Seq([name : {"preready", "ready", "wallet.update", "setup"}, threads : Seq(Thread)])
  /\ list \in Seq(Thread) /\ active \in 0..Len(list)
  /\ timers \in Nat /\ loads \in Seq(Thread)
  /\ grid \in Thread \cup {Nothing}
  /\ page \in {"logo", "code", "hidden"} /\ mainShown \in BOOLEAN
  /\ announced \subseteq Thread /\ overtaken \in BOOLEAN /\ clicks \in 0..MaxClicks

\* the first time, Start has just added the account thread
DesktopInit ==
  /\ RegistryStart
  /\ \/ updates = <<>>
     \/ loaded = <<Account>> /\ updates = <<[type |-> "added", id |-> Account]>>
  /\ expanded = FALSE /\ main = "snapshot" /\ snap = <<>>
  /\ pump = "take" /\ held = Nothing /\ announced = {}
  /\ window = <<>> /\ list = <<>> /\ timers = 0 /\ page = "logo" /\ mainShown = FALSE
  /\ active = 0 /\ loads = <<>> /\ grid = Nothing /\ overtaken = FALSE /\ clicks = 0
-----------------------------------------------------------------------------
\* sendMessage and sendData
Sent(name, threads) == window' = Append(window, [name |-> name, threads |-> threads])

\* the account thread is loaded and not shown
Visible(t) == t # Account

\* Textile.Threads: the loaded threads but the account's, in their order
Threads ==
  LET kept[n \in 0..Len(loaded)] ==
        IF n = 0 THEN <<>>
        ELSE IF Visible(loaded[n]) THEN Append(kept[n - 1], loaded[n]) ELSE kept[n - 1]
  IN  kept[Len(loaded)]

Snapshot ==
  /\ main = "snapshot"
  /\ snap' = Threads
  /\ main' = IF snap' = <<>> THEN "setup" ELSE "preready"
  /\ UNCHANGED <<registryVars, expanded, pump, held, announced, window, entries, content, clicks>>

MainPreReady ==
  /\ main = "preready"
  /\ Sent("preready", <<>>)
  /\ main' = "expand"
  /\ UNCHANGED <<registryVars, expanded, snap, pump, held, announced, entries, content, clicks>>

MainExpand ==
  /\ main = "expand"
  /\ expanded' = TRUE
  /\ main' = "ready"
  /\ UNCHANGED <<registryVars, snap, pump, held, announced, window, entries, content, clicks>>

MainReady ==
  /\ main = "ready"
  /\ Sent("ready", snap)
  /\ main' = "done"
  /\ UNCHANGED <<registryVars, expanded, snap, pump, held, announced, entries, content, clicks>>

MainSetup ==
  /\ main = "setup"
  /\ Sent("setup", <<>>)
  /\ main' = "done"
  /\ UNCHANGED <<registryVars, expanded, snap, pump, held, announced, entries, content, clicks>>

\* the pump takes an update and looks whether the window is expanded
PumpTake ==
  /\ pump = "take" /\ updates # <<>>
  /\ held' = Head(updates).id
  /\ updates' = Tail(updates)
  /\ pump' = IF expanded THEN "send" ELSE "preready"
  /\ UNCHANGED <<tables, loaded, adders, removers, history, broken, bounds>>
  /\ UNCHANGED <<expanded, main, snap, announced, window, entries, content, clicks>>

\* Mutant: the window expands with the setup page in it.
SkipPreReady ==
  /\ pump = "preready"
  /\ pump' = "expand"
  /\ UNCHANGED <<registryVars, expanded, main, snap, held, announced, window, entries, content, clicks>>

PumpPreReady ==
  /\ pump = "preready"
  /\ Sent("preready", <<>>)
  /\ pump' = "expand"
  /\ UNCHANGED <<registryVars, expanded, main, snap, held, announced, entries, content, clicks>>

\* Mutant: the update that expands the window is not sent.
ExpandOnly ==
  /\ pump = "expand"
  /\ expanded' = TRUE
  /\ pump' = "take" /\ held' = Nothing
  /\ UNCHANGED <<registryVars, main, snap, announced, window, entries, content, clicks>>

PumpExpand ==
  /\ pump = "expand"
  /\ expanded' = TRUE
  /\ pump' = "send"
  /\ UNCHANGED <<registryVars, main, snap, held, announced, window, entries, content, clicks>>

\* Mutant: the update is sent again once it is there.
SendAgain ==
  /\ pump = "send"
  /\ Sent("wallet.update", <<held>>)
  /\ announced' = announced \cup {held}
  /\ IF held \in announced THEN pump' = "take" /\ held' = Nothing ELSE UNCHANGED <<pump, held>>
  /\ UNCHANGED <<registryVars, expanded, main, snap, entries, content, clicks>>

PumpSend ==
  /\ pump = "send"
  /\ Sent("wallet.update", <<held>>)
  /\ announced' = announced \cup {held}
  /\ pump' = "take" /\ held' = Nothing
  /\ UNCHANGED <<registryVars, expanded, main, snap, entries, content, clicks>>
-----------------------------------------------------------------------------
\* what addThread does for each of the threads: the first entry of all is loaded
AddThreads(threads) ==
  /\ list' = list \o threads
  /\ mainShown' = TRUE

Handled(name) == window # <<>> /\ Head(window).name = name /\ window' = Tail(window)

\* hideSetup
HandlePreReady ==
  /\ Handled("preready")
  /\ page' = "hidden"
  /\ UNCHANGED <<registryVars, goroutines, list, timers, mainShown, content, clicks>>

\* renderThreads loads the first thread once more
HandleReady ==
  /\ Handled("ready")
  /\ AddThreads(Head(window).threads)
  /\ timers' = timers + IF list = <<>> THEN 2 ELSE 1
  /\ UNCHANGED <<registryVars, goroutines, page, content, clicks>>

HandleUpdate ==
  /\ Handled("wallet.update")
  /\ AddThreads(Head(window).threads)
  /\ timers' = timers + IF list = <<>> THEN 1 ELSE 0
  /\ UNCHANGED <<registryVars, goroutines, page, content, clicks>>

\* setAddress does not show a page that is hidden
HandleSetup ==
  /\ Handled("setup")
  /\ page' = IF page = "hidden" THEN page ELSE "code"
  /\ UNCHANGED <<registryVars, goroutines, list, timers, mainShown, content, clicks>>

\* Mutant: nothing is asked for while an answer is due.
LoadIfIdle(k) ==
  /\ active' = k
  /\ loads' = IF loads = <<>> THEN <<list[k]>> ELSE loads

\* loadThread: the click handler of entry k
LoadThread(k) ==
  /\ active' = k
  /\ loads' = Append(loads, list[k])

\* the timeout of loadFirstThread
Timeout ==
  /\ timers > 0
  /\ timers' = timers - 1
  /\ LoadThread(1)
  /\ UNCHANGED <<registryVars, goroutines, window, list, page, mainShown, grid, overtaken, clicks>>

Click(k) ==
  /\ mainShown /\ clicks < MaxClicks
  /\ clicks' = clicks + 1
  /\ LoadThread(k)
  /\ UNCHANGED <<registryVars, goroutines, window, entries, grid, overtaken>>

\* handleMessage answers in a goroutine of its own; showGrid
Answer(n) ==
  /\ grid' = loads[n]
  /\ loads' = RemoveAt(loads, n)
  /\ overtaken' = (overtaken \/ n # 1)
  /\ UNCHANGED <<registryVars, goroutines, window, entries, active, clicks>>

MainStep == Snapshot \/ MainPreReady \/ MainExpand \/ MainReady \/ MainSetup

PumpStep == PumpTake \/ PumpPreReady \/ PumpExpand \/ PumpSend

Handle == HandlePreReady \/ HandleReady \/ HandleUpdate \/ HandleSetup

\* a call of the auto-accepting goroutines
Calls(step) == step /\ UNCHANGED <<goroutines, window, entries, content, clicks>>

\* what happens without the user and the other peers
SystemStep ==
  /\ ~broken
  /\ \/ MainStep \/ PumpStep \/ Handle \/ Timeout
     \/ \E n \in DOMAIN loads : Answer(n)
     \/ \E a \in Adder : Calls(AdderStep(a))

DesktopNext ==
  \/ SystemStep
  \/ /\ ~broken
     /\ \/ \E a \in Adder, i \in invites : Calls(Accept(a, i))
        \/ \E k \in DOMAIN list : Click(k)

\* while anything can move, something does: an update, a message, an answer and
\* a call take finitely many steps each
DesktopSpec == DesktopInit /\ [][DesktopNext]_desktopVars /\ WF_desktopVars(SystemStep)
-----------------------------------------------------------------------------
\* Every thread that is loaded gets an entry in the window, whether it was there
\* at the start, or was added before, while or after the main goroutine looked.
ListedEventually == []<>(ToSet(loaded) \ {Account} \subseteq ToSet(list))

\* An entry is that of a loaded thread, so that its thread.load is answered,
\* unless two goroutines that accepted invites appended at once; and a thread has
\* two entries only if it was announced and found by the main goroutine too.
ListedOnce ==
  /\ ~raced => ToSet(list) \subseteq ToSet(loaded)
  /\ \A j, k \in DOMAIN list :
       list[j] = list[k] =>
         \/ j = k \/ list[j] \in ToSet(snap) \cap announced

\* The threads are never shown behind the setup page, whichever of the two
\* goroutines expands the window and however their messages mix.
MainHidesSetup == mainShown => page = "hidden"

\* When every answer is there, and none came before that to an earlier click, the
\* grid is that of the active entry.
GridFollowsActive ==
  loads = <<>> /\ ~overtaken /\ active # 0 => grid = list[active]
=============================================================================

--------------------------- MODULE NodeLifecycle ---------------------------
(***************************************************************************)
(* Starting and stopping a node (core/main.go: Start, Stop, createIPFS,    *)
(* runQueues, flushQueues, touchDatastore).                                *)
(*                                                                         *)
(* Start attaches an offline IPFS node and returns once the stored threads *)
(* are loaded; a goroutine of its own attaches the online node, binds the  *)
(* services to it, starts the goroutine that flushes the queues and closes *)
(* the online channel.  Only the caller of Start and Stop holds the mutex: *)
(* the goroutines of a session read and write the fields of the node while *)
(* the caller does, and may outlive its Stop.                              *)
(***************************************************************************)
EXTENDS Naturals

CONSTANTS
  MaxSessions,  \* bound: calls of Start
  MaxFailures   \* bound: IPFS nodes that cannot be made or closed, a datastore that cannot
                \* be opened, threads that cannot be loaded

ASSUME LifecycleConstants == MaxSessions \in Nat /\ MaxFailures \in Nat

Session == 1..MaxSessions
Ipfs == Session \X BOOLEAN   \* the IPFS nodes of a session, <<n, TRUE>> is online

VARIABLES
  session,   \* the calls of Start so far
  caller,    \* where the holder of mux is
  started,   \* Textile.started
  node,      \* Textile.node, as a set of at most one
  running,   \* the IPFS nodes that are not closed
  old,       \* what createIPFS found attached, of the caller and of the goroutines
  leaked,    \* history: nodes createIPFS made and gave up, as the one before could not be closed
  services,  \* the IPFS nodes threadsService and cafeService were made with
  db,        \* Textile.datastore, a number for each time it was opened
  dbOpen,    \* the datastores that are not closed
  queuesDb,  \* the datastore the inbox and the outboxes were made with
  done,      \* Textile.done: the session that made it
  stopped,   \* the sessions whose done channel is closed
  online,    \* Textile.online: the session that made it
  goesOn,    \* the online channel the goroutine of a session will close
  onlineSet, \* the sessions whose online channel is closed
  gpc,       \* where the goroutine of a session is
  rpc,       \* where the queue runner of a session is
  watched,   \* the done channel its select waits for
  tidy,      \* history: the last call was a Stop that came after everything was online
  crossed,   \* history: createIPFS began while another had not ended
  early,     \* history: runners that read done before Start had made the one of their session
  panicked,  \* a closed channel was closed
  failures

nodes == <<node, running, old, leaked>>
data == <<db, dbOpen, queuesDb>>
channels == <<done, stopped, online, goesOn, onlineSet, panicked>>
runners == <<rpc, watched, early>>
lifecycleVars == <<session, caller, started, nodes, services, data, channels, gpc,
                   runners, tidy, crossed, failures>>

NoSession == 0
Caller == 0   \* the caller's place among those who call createIPFS

LifecycleTypeOK ==
  /\ session \in 0..MaxSessions
  /\ caller \in {"idle", "reopen", "queues", "create", "close", "attach", "load", "stop",
               "closeDb", "return"}
  /\ started \in BOOLEAN
  /\ node \subseteq Ipfs /\ running \subseteq Ipfs /\ services \subseteq Ipfs /\ leaked \subseteq Ipfs
  /\ old \in [Session \cup {Caller} -> SUBSET Ipfs]
  /\ db \in Nat /\ dbOpen \subseteq Nat /\ queuesDb \in Nat
  /\ done \in Session \cup {NoSession} /\ stopped \subseteq Session
  /\ online \in Session \cup {NoSession} /\ onlineSet \subseteq Session
  /\ goesOn \in [Session -> Session \cup {NoSession}]
  /\ gpc \in [Session -> {"no", "begin", "create", "close", "attach", "serve", "ended"}]
  /\ rpc \in [Session -> {"no", "flush", "reopen", "select", "wait", "ended"}]
  /\ watched \in [Session -> Session \cup {NoSession}]
  /\ tidy \in BOOLEAN /\ crossed \in BOOLEAN /\ panicked \in BOOLEAN
  /\ early \subseteq Session /\ failures \in 0..MaxFailures

\* NewTextile: the datastore is open, nothing else is there
LifecycleInit ==
  /\ session = 0 /\ caller = "idle" /\ started = FALSE
  /\ node = {} /\ running = {} /\ old = [p \in Session \cup {Caller} |-> {}]
  /\ leaked = {} /\ services = {}
  /\ db = 1 /\ dbOpen = {1} /\ queuesDb = 0
  /\ done = NoSession /\ stopped = {} /\ online = NoSession
  /\ goesOn = [n \in Session |-> NoSession] /\ onlineSet = {}
  /\ gpc = [n \in Session |-> "no"]
  /\ rpc = [n \in Session |-> "no"] /\ watched = [n \in Session |-> NoSession]
  /\ tidy = FALSE /\ crossed = FALSE /\ early = {} /\ panicked = FALSE /\ failures = 0
-----------------------------------------------------------------------------
\* the goroutines that have not ended
Busy == {n \in Session : gpc[n] \notin {"no", "ended"}}

Fails == failures < MaxFailures /\ failures' = failures + 1

\* touchDatastore: Ping is where a process goes on from, Reopen opens the
\* datastore anew and replaces the one of the node, whoever else has done so
Ping(open, closed) == IF db \in dbOpen THEN open ELSE closed

Reopen == db' = db + 1 /\ dbOpen' = dbOpen \cup {db + 1} /\ UNCHANGED queuesDb

Start ==
  /\ caller = "idle" /\ ~started /\ session < MaxSessions
  /\ caller' = Ping("queues", "reopen")
  /\ UNCHANGED <<session, started, nodes, services, data, channels, gpc, runners, tidy, crossed,
                 failures>>

\* or an error ends Start
StartReopens ==
  /\ caller = "reopen"
  /\ \/ Reopen /\ caller' = "queues" /\ UNCHANGED failures
     \/ Fails /\ caller' = "idle" /\ UNCHANGED data
  /\ UNCHANGED <<session, started, nodes, services, channels, gpc, runners, tidy, crossed>>

\* the online channel, the inbox and the outboxes: one read of the datastore
\* stands for those of the three
MakeQueues ==
  /\ caller = "queues"
  /\ session' = session + 1
  /\ online' = session'
  /\ queuesDb' = db
  /\ crossed' = (crossed \/ Busy # {})
  /\ tidy' = FALSE
  /\ caller' = "create"
  /\ UNCHANGED <<started, nodes, services, db, dbOpen, done, stopped, goesOn, onlineSet, panicked, gpc,
                 runners, failures>>

\* createIPFS of process p makes the IPFS node x and reads which one is attached
Make(p, x) ==
  /\ running' = running \cup {x}
  /\ old' = [old EXCEPT ![p] = node]
  /\ UNCHANGED <<node, leaked>>

\* Mutant: the node that was attached is not closed.
KeepPrevious(p) ==
  /\ old' = [old EXCEPT ![p] = {}]
  /\ UNCHANGED <<running, node, leaked>>

ClosePrevious(p) ==
  /\ running' = running \ old[p]
  /\ old' = [old EXCEPT ![p] = {}]
  /\ UNCHANGED <<node, leaked>>

\* the node x may be half closed when its Close fails
CloseOf(x) == running' \in {running, running \ x}

\* createIPFS returns: the previous node stays attached, the new one x open
CloseFails(p, x) ==
  /\ Fails
  /\ CloseOf(old[p])
  /\ old' = [old EXCEPT ![p] = {}]
  /\ leaked' = leaked \cup {x}
  /\ UNCHANGED node

Attach(x) == node' = {x} /\ UNCHANGED <<running, old, leaked>>

\* the offline node; an error ends Start
CreateOffline ==
  /\ caller = "create"
  /\ \/ Make(Caller, <<session, FALSE>>) /\ caller' = "close" /\ UNCHANGED failures
     \/ Fails /\ caller' = "idle" /\ UNCHANGED nodes
  /\ UNCHANGED <<session, started, services, data, channels, gpc, runners, tidy, crossed>>

CloseOffline ==
  /\ caller = "close"
  /\ \/ ClosePrevious(Caller) /\ caller' = "attach" /\ UNCHANGED failures
     \/ CloseFails(Caller, <<session, FALSE>>) /\ caller' = "idle"
  /\ UNCHANGED <<session, started, services, data, channels, gpc, runners, tidy, crossed>>

\* and the goroutine is started
AttachOffline ==
  /\ caller = "attach"
  /\ Attach(<<session, FALSE>>)
  /\ gpc' = [gpc EXCEPT ![session] = "begin"]
  /\ caller' = "load"
  /\ UNCHANGED <<session, started, services, data, channels, runners, tidy, crossed, failures>>

\* Mutant: the channel of an earlier session serves this one too.
DoneOnce == done' = IF done = NoSession THEN session ELSE done

MakeDone == done' = session

Started ==
  /\ caller = "load"
  /\ MakeDone
  /\ started' = TRUE
  /\ caller' = "idle"
  /\ UNCHANGED <<session, nodes, services, data, stopped, online, goesOn, onlineSet, panicked, gpc,
                 runners, tidy, crossed, failures>>

\* a stored thread cannot be loaded: Start returns, its goroutine goes on
LoadStoredFails ==
  /\ caller = "load"
  /\ Fails
  /\ caller' = "idle"
  /\ UNCHANGED <<session, started, nodes, services, data, channels, gpc, runners, tidy, crossed>>
-----------------------------------------------------------------------------
\* Mutant: the done channel is not closed.
LeaveOpen ==
  /\ started' = FALSE
  /\ UNCHANGED stopped
  /\ caller' = "idle"

\* the deferred function of Stop
Leave ==
  /\ started' = FALSE
  /\ stopped' = stopped \cup {done}
  /\ caller' = "idle"

Stop ==
  /\ caller = "idle" /\ started
  /\ tidy' = (Busy = {})
  /\ caller' = "stop"
  /\ UNCHANGED <<session, started, nodes, services, data, channels, gpc, runners, crossed, failures>>

\* the cafe API cannot be stopped or the IPFS node cannot be closed: the deferred
\* function runs all the same
StopFails ==
  /\ caller = "stop"
  /\ Fails
  /\ CloseOf(node)
  /\ Leave
  /\ tidy' = FALSE
  /\ UNCHANGED <<session, node, old, leaked, services, data, done, online, goesOn, onlineSet, panicked, gpc,
                 runners, crossed>>

StopNode ==
  /\ caller = "stop"
  /\ running' = running \ node
  /\ caller' = "closeDb"
  /\ UNCHANGED <<session, started, node, old, leaked, services, data, channels, gpc, runners, tidy,
                 crossed, failures>>

CloseDb ==
  /\ caller = "closeDb"
  /\ dbOpen' = dbOpen \ {db}
  /\ caller' = "return"
  /\ UNCHANGED <<session, started, nodes, services, db, queuesDb, channels, gpc, runners, tidy,
                 crossed, failures>>

StopReturns ==
  /\ caller = "return"
  /\ Leave
  /\ UNCHANGED <<session, nodes, services, data, done, online, goesOn, onlineSet, panicked, gpc,
                 runners, tidy, crossed, failures>>
-----------------------------------------------------------------------------
\* the goroutine of session n: the argument of its deferred close is read first
Begin(n) ==
  /\ gpc[n] = "begin"
  /\ goesOn' = [goesOn EXCEPT ![n] = online]
  /\ gpc' = [gpc EXCEPT ![n] = "create"]
  /\ UNCHANGED <<session, caller, started, nodes, services, data, done, stopped, online, onlineSet,
                 panicked, runners, tidy, crossed, failures>>

\* the deferred close
CloseOnline(n) ==
  /\ panicked' = (goesOn[n] \in onlineSet)
  /\ onlineSet' = onlineSet \cup {goesOn[n]}
  /\ goesOn' = [goesOn EXCEPT ![n] = NoSession]
  /\ gpc' = [gpc EXCEPT ![n] = "ended"]

CreateOnline(n) ==
  /\ gpc[n] = "create"
  /\ Make(n, <<n, TRUE>>)
  /\ gpc' = [gpc EXCEPT ![n] = "close"]
  /\ UNCHANGED <<session, caller, started, services, data, channels, runners, tidy, crossed, failures>>

CreateFails(n) ==
  /\ gpc[n] = "create"
  /\ Fails
  /\ CloseOnline(n)
  /\ UNCHANGED <<session, caller, started, nodes, services, data, done, stopped, online, runners,
                 tidy, crossed>>

CloseAttachedFails(n) ==
  /\ gpc[n] = "close"
  /\ CloseFails(n, <<n, TRUE>>)
  /\ CloseOnline(n)
  /\ UNCHANGED <<session, caller, started, services, data, done, stopped, online, runners, tidy,
                 crossed>>

CloseAttached(n) ==
  /\ gpc[n] = "close"
  /\ ClosePrevious(n)
  /\ gpc' = [gpc EXCEPT ![n] = "attach"]
  /\ UNCHANGED <<session, caller, started, services, data, channels, runners, tidy, crossed, failures>>

AttachOnline(n) ==
  /\ gpc[n] = "attach"
  /\ Attach(<<n, TRUE>>)
  /\ gpc' = [gpc EXCEPT ![n] = "serve"]
  /\ UNCHANGED <<session, caller, started, services, data, channels, runners, tidy, crossed, failures>>

\* Mutant: services that are there are kept.
ServeOnce(n) == services' = IF services = {} THEN node ELSE services

Bind(n) == services' = node

\* the services and the queue runner
Serve(n) ==
  /\ gpc[n] = "serve"
  /\ Bind(n)
  /\ rpc' = [rpc EXCEPT ![n] = "flush"]
  /\ CloseOnline(n)
  /\ UNCHANGED <<session, caller, started, nodes, data, done, stopped, online, watched, early, tidy,
                 crossed, failures>>

Goroutine(n) ==
  \/ Begin(n) \/ CreateOnline(n) \/ CreateFails(n) \/ CloseAttached(n) \/ CloseAttachedFails(n)
  \/ AttachOnline(n) \/ Serve(n)
-----------------------------------------------------------------------------
\* flushQueues: the flush itself is in a goroutine of its own
FlushQueues(n, label) ==
  /\ rpc[n] = label
  /\ rpc' = [rpc EXCEPT ![n] = Ping("select", "reopen")]
  /\ watched' = [watched EXCEPT ![n] = NoSession]
  /\ UNCHANGED <<session, caller, started, nodes, services, data, channels, gpc, early, tidy,
                 crossed, failures>>

\* the queues keep the datastore they have; an error is logged
RunnerReopens(n) ==
  /\ rpc[n] = "reopen"
  /\ \/ Reopen /\ UNCHANGED failures
     \/ Fails /\ UNCHANGED data
  /\ rpc' = [rpc EXCEPT ![n] = "select"]
  /\ UNCHANGED <<session, caller, started, nodes, services, channels, gpc, watched, early, tidy,
                 crossed>>

Flush(n) == FlushQueues(n, "flush")

\* select evaluates t.done each time it is entered
Select(n) ==
  /\ rpc[n] = "select"
  /\ watched' = [watched EXCEPT ![n] = done]
  /\ early' = IF caller = "load" THEN early \cup {n} ELSE early
  /\ rpc' = [rpc EXCEPT ![n] = "wait"]
  /\ UNCHANGED <<session, caller, started, nodes, services, data, channels, gpc, tidy, crossed,
                 failures>>

Tick(n) == FlushQueues(n, "wait")

\* a nil channel is never ready
Quit(n) ==
  /\ rpc[n] = "wait" /\ watched[n] \in stopped
  /\ rpc' = [rpc EXCEPT ![n] = "ended"]
  /\ watched' = [watched EXCEPT ![n] = NoSession]
  /\ UNCHANGED <<session, caller, started, nodes, services, data, channels, gpc, early, tidy, crossed,
                 failures>>

Runner(n) == Flush(n) \/ RunnerReopens(n) \/ Select(n) \/ Tick(n) \/ Quit(n)

CallerStep ==
  \/ StartReopens \/ MakeQueues \/ CreateOffline \/ CloseOffline \/ AttachOffline \/ Started \/ LoadStoredFails
  \/ StopFails \/ StopNode \/ CloseDb \/ StopReturns

LifecycleNext ==
  /\ ~panicked
  /\ Start \/ Stop \/ CallerStep \/ \E n \in Session : Goroutine(n) \/ Runner(n)

LifecycleSpec == LifecycleInit /\ [][LifecycleNext]_lifecycleVars
-----------------------------------------------------------------------------
\* nobody is inside Start or Stop, and every goroutine of a Start has ended
Settled == caller = "idle" /\ Busy = {}

\* Once all is settled only the attached IPFS node is open, also after failures,
\* and none is after a Stop that succeeded and came when the node was online;
\* no channel is closed twice. Excused are calls of createIPFS that ran at once,
\* and a new node that was given up as the one before it could not be closed.
NodesAccounted ==
  ~crossed =>
    /\ Settled => running \subseteq node \cup leaked
    /\ Settled /\ tidy => running \subseteq leaked
    /\ ~panicked

\* When a session's online channel is closed and its online node was attached,
\* and no two calls of createIPFS ran at once, the services are bound to the
\* attached node, which is open, and the queues work on an open datastore. It
\* need not be the node's: a runner of an earlier session that pinged the closed
\* one may replace it after the queues were made.
OnlineMeansServed ==
  started /\ Settled /\ ~crossed /\ rpc[session] # "no" =>
    /\ node = {<<session, TRUE>>} /\ services = node /\ node \subseteq running
    /\ db \in dbOpen /\ queuesDb \in dbOpen

\* A session that is online keeps a queue runner until it is stopped, unless the
\* runner looked for the done channel before Start had made it.
QueuesServed ==
  started /\ Settled /\ ~crossed /\ session \notin early /\ rpc[session] # "no" => rpc[session] # "ended"

\* After a Stop the queue runners end, those of earlier sessions included, unless
\* the node is started again.
RunnersStop ==
  caller = "idle" /\ ~started /\ done # NoSession /\ Busy = {} ~>
    panicked \/ caller # "idle" \/ \A n \in Session : rpc[n] \in {"no", "ended"}
=============================================================================

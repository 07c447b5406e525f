---------------------------- MODULE Node_proofs ----------------------------
(***************************************************************************)
(* Proofs about NodeLifecycle, for any number of sessions and failures,    *)
(* and about Broadcaster, for any number of subscribers and senders.       *)
(***************************************************************************)
EXTENDS NodeLifecycle, Broadcaster, SequenceTheorems, TLAPS

\* labels of a Start whose goroutine is not running yet, and of one under way
Beginning == {"create", "close", "attach"}
Starting == Beginning \cup {"load"}

Active == {"begin", "create", "close", "attach", "serve"}

\* Sessions that have not begun, or whose Start has not made its goroutine.
FutureOK ==
  \A n \in Session : n > session \/ (n = session /\ caller \in Beginning) =>
    gpc[n] = "no" /\ rpc[n] = "no"

CallerOK ==
  /\ caller \notin {"idle", "reopen", "queues"} \/ started => session \in Session
  /\ caller \in Starting \cup {"reopen", "queues"} => ~started
  /\ caller \in {"reopen", "queues"} => session < MaxSessions
  /\ caller \in {"stop", "closeDb", "return"} => started
  /\ started => done = session
  /\ started \/ caller \in Starting => session \notin stopped
  /\ online = session /\ done <= session
  /\ \A k \in stopped : k <= session

\* A runner is there from when its goroutine has served; it waits for the channel
\* of its own session unless it looked too early, and that one is not closed.
RunnersOK ==
  /\ \A n \in Session : /\ rpc[n] # "no" => gpc[n] = "ended"
                        /\ rpc[n] = "no" => n \notin early
                        /\ rpc[n] # "wait" => watched[n] = NoSession
  /\ started \/ caller = "load" => \A n \in Session : n = session /\ n \notin early =>
       rpc[n] # "ended" /\ watched[n] \in {NoSession, done} /\ (caller = "load" => rpc[n] # "wait")

\* Until Stop closes it the node's datastore is open, and so is the one the queues were
\* made with, which a runner may have replaced in the node since.
DbOK ==
  /\ caller \in Starting \/ (started /\ caller \in {"idle", "stop", "closeDb"}) =>
       db \in dbOpen /\ queuesDb \in dbOpen
  /\ caller = "queues" => db \in dbOpen

GoroutinesOK ==
  /\ \A n \in Session : gpc[n] \in {"create", "close", "attach", "serve"} => goesOn[n] \in Session
  /\ tidy => Busy = {} /\ caller \notin Starting

\* started and not past StopNode
Up == caller = "load" \/ (started /\ caller \in {"idle", "stop"})

\* While createIPFS is never in two goroutines at once.
AloneOK ==
  /\ \A n \in Session : gpc[n] \in Active => n = session
  /\ \A n \in Session : gpc[n] \in {"create", "close", "attach", "serve"} => goesOn[n] = n
  /\ \A n \in onlineSet : gpc[n] = "ended"
  /\ ~panicked

\* ... the open nodes are the attached one, the one just made, and those given up.
OpenOK ==
  /\ caller \notin {"close", "attach"} /\ (\A n \in Session : gpc[n] \notin {"close", "attach"})
       => running \subseteq node \cup leaked
  /\ caller = "close" => /\ running \subseteq node \cup {<<session, FALSE>>} \cup leaked
                         /\ old[Caller] = node
  /\ caller = "attach" => running \subseteq {<<session, FALSE>>} \cup leaked
  /\ tidy /\ caller # "stop" => running \subseteq leaked

\* What the goroutine of session n has attached, made or bound.
HasOK(n) ==
  /\ gpc[n] \in {"begin", "create", "close", "attach"} => node = {<<n, FALSE>>}
  /\ gpc[n] = "close" => /\ running \subseteq node \cup {<<n, TRUE>>} \cup leaked
                         /\ <<n, TRUE>> \in running /\ old[n] = node
  /\ gpc[n] = "attach" => running \subseteq {<<n, TRUE>>} \cup leaked /\ <<n, TRUE>> \in running
  /\ gpc[n] = "serve" => node = {<<n, TRUE>>}
  /\ n = session /\ rpc[n] # "no" => node = {<<n, TRUE>>} /\ services = node
  /\ n = session /\ Up /\ (gpc[n] = "serve" \/ rpc[n] # "no") => node \subseteq running

NodesOK == OpenOK /\ \A n \in Session : HasOK(n)

IInv ==
  /\ LifecycleTypeOK /\ FutureOK /\ CallerOK /\ RunnersOK /\ DbOK /\ GoroutinesOK
  /\ ~crossed => AloneOK /\ NodesOK
-----------------------------------------------------------------------------
(* Helpers *)

LEMMA IpfsType ==
  ASSUME NEW n \in Session
  PROVE  <<n, TRUE>> \in Ipfs /\ <<n, FALSE>> \in Ipfs /\ <<n, TRUE>> # <<n, FALSE>>
BY DEF Ipfs

LEMMA FailsType == ASSUME LifecycleTypeOK, Fails PROVE failures' \in 0..MaxFailures
BY LifecycleConstants DEF LifecycleTypeOK, Fails

LEMMA ReopenType ==
  ASSUME LifecycleTypeOK, Reopen
  PROVE  /\ db' \in Nat /\ dbOpen' \subseteq Nat /\ db' \in dbOpen' /\ dbOpen \subseteq dbOpen'
         /\ queuesDb' = queuesDb
<1>1. db \in Nat /\ dbOpen \subseteq Nat
  BY DEF LifecycleTypeOK
<1>2. db + 1 \in Nat
  BY <1>1
<1> QED BY <1>1, <1>2 DEF Reopen

\* A Close that fails closes its node or does not.
LEMMA CloseOfType ==
  ASSUME NEW x, CloseOf(x)
  PROVE  running' \subseteq running /\ running \ x \subseteq running'
BY DEF CloseOf

-----------------------------------------------------------------------------
(* Every action preserves the invariant. *)

LEMMA StartInv ==
  ASSUME IInv, Start
  PROVE  IInv'
<1> USE DEF Start, Ping, nodes, data, channels, runners
<1>1. LifecycleTypeOK'
  BY LifecycleConstants DEF IInv, LifecycleTypeOK
<1>2. FutureOK'
  BY DEF IInv, FutureOK, Beginning
<1>3. CallerOK'
  BY LifecycleConstants DEF IInv, CallerOK, Starting, Beginning
<1>4. RunnersOK'
  BY DEF IInv, RunnersOK, NoSession
<1>5. DbOK'
  BY DEF IInv, DbOK, Starting, Beginning
<1>6. GoroutinesOK'
  BY DEF IInv, GoroutinesOK, Busy, Starting, Beginning
<1>7. ASSUME ~crossed' PROVE AloneOK'
  BY <1>7 DEF IInv, AloneOK, Session
<1>8. ASSUME ~crossed' PROVE NodesOK'
  <2>1. OpenOK'
    BY <1>8 DEF IInv, NodesOK, OpenOK
  <2>2. ASSUME NEW k \in Session PROVE HasOK(k)'
    BY <1>8 DEF IInv, NodesOK, HasOK, Up
  <2> QED BY <2>1, <2>2 DEF NodesOK
<1> QED BY <1>1, <1>2, <1>3, <1>4, <1>5, <1>6, <1>7, <1>8 DEF IInv

LEMMA StartReopensInv ==
  ASSUME IInv, StartReopens
  PROVE  IInv'
<1> USE DEF StartReopens, nodes, data, channels, runners
<1>1. LifecycleTypeOK'
  BY LifecycleConstants, FailsType, ReopenType DEF IInv, LifecycleTypeOK
<1>2. FutureOK'
  BY DEF IInv, FutureOK, Beginning
<1>3. CallerOK'
  BY LifecycleConstants DEF IInv, CallerOK, Starting, Beginning
<1>4. RunnersOK'
  BY DEF IInv, RunnersOK, NoSession
<1>5. DbOK'
  BY ReopenType DEF IInv, CallerOK, DbOK, Starting, Beginning
<1>6. GoroutinesOK'
  BY DEF IInv, GoroutinesOK, Busy, Starting, Beginning
<1>7. ASSUME ~crossed' PROVE AloneOK'
  BY <1>7 DEF IInv, AloneOK, Session
<1>8. ASSUME ~crossed' PROVE NodesOK'
  <2>1. OpenOK'
    BY <1>8 DEF IInv, NodesOK, OpenOK
  <2>2. ASSUME NEW k \in Session PROVE HasOK(k)'
    <3>1. ~Up' /\ HasOK(k)
      BY <1>8 DEF IInv, NodesOK, CallerOK, Up
    <3> QED BY <3>1 DEF HasOK
  <2> QED BY <2>1, <2>2 DEF NodesOK
<1> QED BY <1>1, <1>2, <1>3, <1>4, <1>5, <1>6, <1>7, <1>8 DEF IInv

LEMMA MakeQueuesInv ==
  ASSUME IInv, MakeQueues
  PROVE  IInv'
<1> USE DEF MakeQueues, nodes, data, channels, runners
<1>1. LifecycleTypeOK'
  <2>1. session' \in Session /\ session' \in 0..MaxSessions
    BY LifecycleConstants DEF IInv, LifecycleTypeOK, CallerOK, Session, Starting, Beginning
  <2>2. LifecycleTypeOK
    BY DEF IInv
  <2> QED BY <2>1, <2>2 DEF LifecycleTypeOK
<1>2. FutureOK'
  BY DEF IInv, LifecycleTypeOK, FutureOK, Session
<1>3. CallerOK'
  BY LifecycleConstants DEF IInv, LifecycleTypeOK, CallerOK, Session
<1>4. RunnersOK'
  BY DEF IInv, RunnersOK, CallerOK, NoSession
<1>5. DbOK'
  BY DEF IInv, DbOK
<1>6. GoroutinesOK'
  BY DEF IInv, GoroutinesOK, Session
<1>7. ASSUME ~crossed' PROVE AloneOK'
  BY <1>7 DEF IInv, AloneOK, Active, Busy, Session
<1>8. ASSUME ~crossed' PROVE NodesOK'
  <2>1. OpenOK'
    BY <1>8 DEF IInv, NodesOK, OpenOK
  <2>2. ASSUME NEW k \in Session PROVE HasOK(k)'
    <3>1. gpc[k] \in {"no", "ended"}
      BY <1>8 DEF Busy
    <3>2. k = session' => rpc[k] = "no"
      BY DEF IInv, LifecycleTypeOK, FutureOK
    <3> QED BY <3>1, <3>2 DEF HasOK
  <2> QED BY <2>1, <2>2 DEF NodesOK
<1> QED BY <1>1, <1>2, <1>3, <1>4, <1>5, <1>6, <1>7, <1>8 DEF IInv

LEMMA CreateOfflineInv ==
  ASSUME IInv, CreateOffline
  PROVE  IInv'
<1> USE DEF CreateOffline, Make, nodes, data, channels, runners
<1>1. LifecycleTypeOK'
  BY LifecycleConstants, FailsType, IpfsType DEF IInv, LifecycleTypeOK, CallerOK
<1>2. FutureOK'
  BY DEF IInv, FutureOK, Beginning
<1>3. CallerOK'
  BY LifecycleConstants DEF IInv, CallerOK, Starting, Beginning
<1>4. RunnersOK'
  BY DEF IInv, RunnersOK, NoSession
<1>5. DbOK'
  BY DEF IInv, DbOK, Starting, Beginning
<1>6. GoroutinesOK'
  BY DEF IInv, GoroutinesOK, Starting, Beginning
<1>7. ASSUME ~crossed' PROVE AloneOK'
  BY <1>7 DEF IInv, AloneOK, Session
<1>8. ASSUME ~crossed' PROVE NodesOK'
  <2>1. OpenOK'
    BY <1>8 DEF IInv, NodesOK, LifecycleTypeOK, OpenOK, AloneOK, FutureOK, GoroutinesOK,
       Active, Starting, Beginning
  <2>2. ASSUME NEW k \in Session PROVE HasOK(k)'
    BY <1>8 DEF IInv, HasOK, AloneOK, FutureOK, Active, Beginning
  <2> QED BY <2>1, <2>2 DEF NodesOK
<1> QED BY <1>1, <1>2, <1>3, <1>4, <1>5, <1>6, <1>7, <1>8 DEF IInv

LEMMA CloseOfflineInv ==
  ASSUME IInv, CloseOffline
  PROVE  IInv'
<1> USE DEF CloseOffline, ClosePrevious, CloseFails, nodes, data, channels, runners
<1>1. LifecycleTypeOK'
  BY LifecycleConstants, FailsType, CloseOfType, IpfsType DEF IInv, LifecycleTypeOK, CallerOK
<1>2. FutureOK'
  BY DEF IInv, FutureOK, Beginning
<1>3. CallerOK'
  BY LifecycleConstants DEF IInv, CallerOK, Starting, Beginning
<1>4. RunnersOK'
  BY DEF IInv, RunnersOK, NoSession
<1>5. DbOK'
  BY DEF IInv, DbOK, Starting, Beginning
<1>6. GoroutinesOK'
  BY DEF IInv, GoroutinesOK, Starting, Beginning
<1>7. ASSUME ~crossed' PROVE AloneOK'
  BY <1>7 DEF IInv, AloneOK, Session
<1>8. ASSUME ~crossed' PROVE NodesOK'
  <2>1. OpenOK'
    <3>1. /\ OpenOK /\ ~tidy /\ old[Caller] = node
          /\ \A n \in Session : gpc[n] \notin {"close", "attach"}
      BY <1>8 DEF IInv, NodesOK, OpenOK, GoroutinesOK, Starting, Beginning, AloneOK, FutureOK,
         Active
    <3>2. running' \subseteq running
      BY CloseOfType
    <3> QED BY <3>1, <3>2 DEF OpenOK
  <2>2. ASSUME NEW k \in Session PROVE HasOK(k)'
    BY <1>8 DEF IInv, HasOK, AloneOK, FutureOK, Active, Beginning
  <2> QED BY <2>1, <2>2 DEF NodesOK
<1> QED BY <1>1, <1>2, <1>3, <1>4, <1>5, <1>6, <1>7, <1>8 DEF IInv

LEMMA AttachOfflineInv ==
  ASSUME IInv, AttachOffline
  PROVE  IInv'
<1> USE DEF AttachOffline, Attach, nodes, data, channels, runners
<1>1. LifecycleTypeOK'
  BY LifecycleConstants, IpfsType DEF IInv, LifecycleTypeOK, CallerOK
<1>2. FutureOK'
  BY DEF IInv, FutureOK, Beginning, Session
<1>3. CallerOK'
  BY LifecycleConstants DEF IInv, CallerOK, Starting, Beginning
<1>4. RunnersOK'
  BY DEF IInv, RunnersOK, FutureOK, Beginning, NoSession
<1>5. DbOK'
  BY DEF IInv, DbOK, Starting, Beginning
<1>6. GoroutinesOK'
  BY DEF IInv, GoroutinesOK, Starting, Beginning
<1>7. ASSUME ~crossed' PROVE AloneOK'
  BY <1>7 DEF IInv, AloneOK, CallerOK, FutureOK, Beginning
<1>8. ASSUME ~crossed' PROVE NodesOK'
  <2>1. OpenOK'
    BY <1>8 DEF IInv, NodesOK, OpenOK
  <2>2. ASSUME NEW k \in Session PROVE HasOK(k)'
    BY <1>8 DEF IInv, LifecycleTypeOK, HasOK, AloneOK, FutureOK, Active, Beginning
  <2> QED BY <2>1, <2>2 DEF NodesOK
<1> QED BY <1>1, <1>2, <1>3, <1>4, <1>5, <1>6, <1>7, <1>8 DEF IInv

LEMMA StartedInv ==
  ASSUME IInv, Started
  PROVE  IInv'
<1> USE DEF Started, MakeDone, nodes, data, channels, runners
<1>1. LifecycleTypeOK'
  BY LifecycleConstants, IpfsType DEF IInv, LifecycleTypeOK, CallerOK
<1>2. FutureOK'
  BY DEF IInv, FutureOK, Beginning
<1>3. CallerOK'
  BY LifecycleConstants DEF IInv, CallerOK, Starting, Beginning, Session
<1>4. RunnersOK'
  BY DEF IInv, RunnersOK, NoSession
<1>5. DbOK'
  BY DEF IInv, DbOK, Starting
<1>6. GoroutinesOK'
  BY DEF IInv, GoroutinesOK, Starting, Session
<1>7. ASSUME ~crossed' PROVE AloneOK'
  BY <1>7 DEF IInv, AloneOK, Session
<1>8. ASSUME ~crossed' PROVE NodesOK'
  <2>1. OpenOK'
    BY <1>8 DEF IInv, NodesOK, OpenOK
  <2>2. ASSUME NEW k \in Session PROVE HasOK(k)'
    BY <1>8 DEF IInv, NodesOK, HasOK, Up
  <2> QED BY <2>1, <2>2 DEF NodesOK
<1> QED BY <1>1, <1>2, <1>3, <1>4, <1>5, <1>6, <1>7, <1>8 DEF IInv

LEMMA LoadStoredFailsInv ==
  ASSUME IInv, LoadStoredFails
  PROVE  IInv'
<1> USE DEF LoadStoredFails, nodes, data, channels, runners
<1>1. LifecycleTypeOK'
  BY LifecycleConstants, FailsType DEF IInv, LifecycleTypeOK
<1>2. FutureOK'
  BY DEF IInv, FutureOK, Beginning
<1>3. CallerOK'
  BY LifecycleConstants DEF IInv, CallerOK, Starting
<1>4. RunnersOK'
  BY DEF IInv, RunnersOK, NoSession
<1>5. DbOK'
  BY DEF IInv, DbOK, Starting
<1>6. GoroutinesOK'
  BY DEF IInv, GoroutinesOK, Starting, Session
<1>7. ASSUME ~crossed' PROVE AloneOK'
  BY <1>7 DEF IInv, AloneOK, Session
<1>8. ASSUME ~crossed' PROVE NodesOK'
  <2>1. OpenOK'
    BY <1>8 DEF IInv, NodesOK, OpenOK
  <2>2. ASSUME NEW k \in Session PROVE HasOK(k)'
    BY <1>8 DEF IInv, NodesOK, HasOK, Up
  <2> QED BY <2>1, <2>2 DEF NodesOK
<1> QED BY <1>1, <1>2, <1>3, <1>4, <1>5, <1>6, <1>7, <1>8 DEF IInv

LEMMA StopInv ==
  ASSUME IInv, Stop
  PROVE  IInv'
<1> USE DEF Stop, nodes, data, channels, runners
<1>1. LifecycleTypeOK'
  BY LifecycleConstants DEF IInv, LifecycleTypeOK
<1>2. FutureOK'
  BY DEF IInv, FutureOK, Beginning
<1>3. CallerOK'
  BY LifecycleConstants DEF IInv, CallerOK, Starting, Beginning
<1>4. RunnersOK'
  BY DEF IInv, RunnersOK, NoSession
<1>5. DbOK'
  BY DEF IInv, DbOK
<1>6. GoroutinesOK'
  BY DEF IInv, GoroutinesOK, Busy, Starting, Beginning
<1>7. ASSUME ~crossed' PROVE AloneOK'
  BY <1>7 DEF IInv, AloneOK, Session
<1>8. ASSUME ~crossed' PROVE NodesOK'
  <2>1. OpenOK'
    BY <1>8 DEF IInv, NodesOK, OpenOK
  <2>2. ASSUME NEW k \in Session PROVE HasOK(k)'
    BY <1>8 DEF IInv, NodesOK, HasOK, Up
  <2> QED BY <2>1, <2>2 DEF NodesOK
<1> QED BY <1>1, <1>2, <1>3, <1>4, <1>5, <1>6, <1>7, <1>8 DEF IInv

LEMMA StopFailsInv ==
  ASSUME IInv, StopFails
  PROVE  IInv'
<1> USE DEF StopFails, Leave, nodes, data, channels, runners
<1>1. LifecycleTypeOK'
  BY LifecycleConstants, FailsType, CloseOfType DEF IInv, LifecycleTypeOK, CallerOK
<1>2. FutureOK'
  BY DEF IInv, FutureOK, Beginning
<1>3. CallerOK'
  BY LifecycleConstants DEF IInv, CallerOK, Starting, Beginning
<1>4. RunnersOK'
  BY DEF IInv, RunnersOK, NoSession
<1>5. DbOK'
  BY DEF DbOK, Starting, Beginning
<1>6. GoroutinesOK'
  BY DEF IInv, GoroutinesOK, Session
<1>7. ASSUME ~crossed' PROVE AloneOK'
  BY <1>7 DEF IInv, AloneOK, Session
<1>8. ASSUME ~crossed' PROVE NodesOK'
  <2>1. OpenOK'
    BY <1>8, CloseOfType DEF IInv, NodesOK, OpenOK
  <2>2. ASSUME NEW k \in Session PROVE HasOK(k)'
    <3>1. HasOK(k) /\ <<k, TRUE>> # <<k, FALSE>>
      BY <1>8, IpfsType DEF IInv, NodesOK
    <3>2. ~Up'
      BY DEF Up
    <3>3. running' \subseteq running /\ running \ node \subseteq running'
      BY CloseOfType
    <3>4. gpc[k] \in {"close", "attach"} => <<k, TRUE>> \in running'
      <4> HIDE DEF LifecycleTypeOK
      <4> DEFINE x == <<k, TRUE>>
                 y == <<k, FALSE>>
      <4>1. gpc[k] \in {"close", "attach"} => node = {y} /\ x \in running /\ x # y
        BY <3>1 DEF HasOK
      <4> HIDE DEF x, y
      <4>2. gpc[k] \in {"close", "attach"} => x \in running'
        BY <3>3, <4>1
      <4> QED BY <4>2 DEF x
    <3> QED BY <3>1, <3>2, <3>3, <3>4 DEF HasOK
  <2> QED BY <2>1, <2>2 DEF NodesOK
<1> QED BY <1>1, <1>2, <1>3, <1>4, <1>5, <1>6, <1>7, <1>8 DEF IInv

LEMMA StopNodeInv ==
  ASSUME IInv, StopNode
  PROVE  IInv'
<1> USE DEF StopNode, nodes, data, channels, runners
<1>1. LifecycleTypeOK'
  BY LifecycleConstants DEF IInv, LifecycleTypeOK
<1>2. FutureOK'
  BY DEF IInv, FutureOK, Beginning
<1>3. CallerOK'
  BY LifecycleConstants DEF IInv, CallerOK, Starting, Beginning
<1>4. RunnersOK'
  BY DEF IInv, RunnersOK, NoSession
<1>5. DbOK'
  BY DEF IInv, DbOK, Starting, Beginning
<1>6. GoroutinesOK'
  BY DEF IInv, GoroutinesOK, Busy, Starting, Beginning
<1>7. ASSUME ~crossed' PROVE AloneOK'
  BY <1>7 DEF IInv, AloneOK, Session
<1>8. ASSUME ~crossed' PROVE NodesOK'
  <2>1. OpenOK'
    BY <1>8 DEF IInv, NodesOK, OpenOK, GoroutinesOK, Busy
  <2>2. ASSUME NEW k \in Session PROVE HasOK(k)'
    <3>1. HasOK(k) /\ <<k, TRUE>> # <<k, FALSE>>
      BY <1>8, IpfsType DEF IInv, NodesOK
    <3>2. ~Up'
      BY DEF Up
    <3>3. running' \subseteq running /\ running \ node \subseteq running'
      OBVIOUS
    <3>4. gpc[k] \in {"close", "attach"} => <<k, TRUE>> \in running'
      <4> HIDE DEF LifecycleTypeOK
      <4> DEFINE x == <<k, TRUE>>
                 y == <<k, FALSE>>
      <4>1. gpc[k] \in {"close", "attach"} => node = {y} /\ x \in running /\ x # y
        BY <3>1 DEF HasOK
      <4> HIDE DEF x, y
      <4>2. gpc[k] \in {"close", "attach"} => x \in running'
        BY <3>3, <4>1
      <4> QED BY <4>2 DEF x
    <3> QED BY <3>1, <3>2, <3>3, <3>4 DEF HasOK
  <2> QED BY <2>1, <2>2 DEF NodesOK
<1> QED BY <1>1, <1>2, <1>3, <1>4, <1>5, <1>6, <1>7, <1>8 DEF IInv

LEMMA CloseDbInv ==
  ASSUME IInv, CloseDb
  PROVE  IInv'
<1> USE DEF CloseDb, nodes, data, channels, runners
<1>1. LifecycleTypeOK'
  BY LifecycleConstants DEF IInv, LifecycleTypeOK
<1>2. FutureOK'
  BY DEF IInv, FutureOK, Beginning
<1>3. CallerOK'
  BY LifecycleConstants DEF IInv, CallerOK, Starting, Beginning
<1>4. RunnersOK'
  BY DEF IInv, RunnersOK, NoSession
<1>5. DbOK'
  BY DEF DbOK, Starting, Beginning
<1>6. GoroutinesOK'
  BY DEF IInv, GoroutinesOK, Busy, Starting, Beginning
<1>7. ASSUME ~crossed' PROVE AloneOK'
  BY <1>7 DEF IInv, AloneOK, Session
<1>8. ASSUME ~crossed' PROVE NodesOK'
  <2>1. OpenOK'
    BY <1>8 DEF IInv, NodesOK, OpenOK
  <2>2. ASSUME NEW k \in Session PROVE HasOK(k)'
    BY <1>8 DEF IInv, NodesOK, HasOK, Up
  <2> QED BY <2>1, <2>2 DEF NodesOK
<1> QED BY <1>1, <1>2, <1>3, <1>4, <1>5, <1>6, <1>7, <1>8 DEF IInv

LEMMA StopReturnsInv ==
  ASSUME IInv, StopReturns
  PROVE  IInv'
<1> USE DEF StopReturns, Leave, nodes, data, channels, runners
<1>1. LifecycleTypeOK'
  BY LifecycleConstants DEF IInv, LifecycleTypeOK, CallerOK
<1>2. FutureOK'
  BY DEF IInv, FutureOK, Beginning
<1>3. CallerOK'
  BY LifecycleConstants DEF IInv, CallerOK, Starting, Beginning
<1>4. RunnersOK'
  BY DEF IInv, RunnersOK, NoSession
<1>5. DbOK'
  BY DEF DbOK, Starting, Beginning
<1>6. GoroutinesOK'
  BY DEF IInv, GoroutinesOK, Busy, Starting, Beginning
<1>7. ASSUME ~crossed' PROVE AloneOK'
  BY <1>7 DEF IInv, AloneOK, Session
<1>8. ASSUME ~crossed' PROVE NodesOK'
  <2>1. OpenOK'
    BY <1>8 DEF IInv, NodesOK, OpenOK
  <2>2. ASSUME NEW k \in Session PROVE HasOK(k)'
    BY <1>8 DEF IInv, NodesOK, HasOK, Up
  <2> QED BY <2>1, <2>2 DEF NodesOK
<1> QED BY <1>1, <1>2, <1>3, <1>4, <1>5, <1>6, <1>7, <1>8 DEF IInv

LEMMA BeginInv ==
  ASSUME IInv, NEW n \in Session, Begin(n)
  PROVE  IInv'
<1> USE DEF Begin, nodes, data, channels, runners
<1>1. LifecycleTypeOK'
  BY LifecycleConstants DEF IInv, LifecycleTypeOK
<1>2. FutureOK'
  BY DEF IInv, FutureOK
<1>3. CallerOK'
  BY LifecycleConstants DEF IInv, CallerOK
<1>4. RunnersOK'
  BY DEF IInv, RunnersOK, NoSession
<1>5. DbOK'
  BY DEF IInv, DbOK
<1>6. GoroutinesOK'
  BY DEF IInv, LifecycleTypeOK, GoroutinesOK, CallerOK, FutureOK, Busy, Session
<1>7. ASSUME ~crossed' PROVE AloneOK'
  BY <1>7 DEF IInv, LifecycleTypeOK, AloneOK, CallerOK, Active, Session
<1>8. ASSUME ~crossed' PROVE NodesOK'
  <2>1. /\ LifecycleTypeOK /\ AloneOK /\ OpenOK /\ HasOK(n) /\ n = session
        /\ \A k \in Session \ {n} : HasOK(k) /\ gpc[k] \notin Active
    BY <1>8 DEF IInv, NodesOK, AloneOK, Active
  <2>2. OpenOK'
    BY <1>8, <2>1 DEF OpenOK, Active
  <2>3. HasOK(n)'
    BY <1>8, <2>1, IpfsType DEF LifecycleTypeOK, HasOK, Active
  <2>4. ASSUME NEW k \in Session \ {n} PROVE HasOK(k)'
    BY <2>1, <2>4 DEF HasOK, LifecycleTypeOK
  <2> QED BY <2>2, <2>3, <2>4 DEF NodesOK
<1> QED BY <1>1, <1>2, <1>3, <1>4, <1>5, <1>6, <1>7, <1>8 DEF IInv

LEMMA CreateOnlineInv ==
  ASSUME IInv, NEW n \in Session, CreateOnline(n)
  PROVE  IInv'
<1> USE DEF CreateOnline, Make, nodes, data, channels, runners
<1>1. LifecycleTypeOK'
  BY LifecycleConstants, IpfsType DEF IInv, LifecycleTypeOK
<1>2. FutureOK'
  BY DEF IInv, FutureOK
<1>3. CallerOK'
  BY LifecycleConstants DEF IInv, CallerOK
<1>4. RunnersOK'
  BY DEF IInv, RunnersOK, NoSession
<1>5. DbOK'
  BY DEF IInv, DbOK
<1>6. GoroutinesOK'
  BY DEF IInv, GoroutinesOK, Busy, Session
<1>7. ASSUME ~crossed' PROVE AloneOK'
  BY <1>7 DEF IInv, AloneOK, Active, Session
<1>8. ASSUME ~crossed' PROVE NodesOK'
  <2>1. /\ LifecycleTypeOK /\ AloneOK /\ OpenOK /\ HasOK(n) /\ n = session
        /\ \A k \in Session \ {n} : HasOK(k) /\ gpc[k] \notin Active
    BY <1>8 DEF IInv, NodesOK, AloneOK, Active
  <2>2. running \subseteq node \cup leaked /\ node = {<<n, FALSE>>} /\ rpc[n] = "no"
        /\ caller \notin {"close", "attach"}
    BY <1>8, <2>1 DEF IInv, OpenOK, HasOK, Active, RunnersOK, FutureOK, Beginning
  <2>3. OpenOK'
    BY <1>8, <2>1, <2>2 DEF IInv, GoroutinesOK, Busy, OpenOK, LifecycleTypeOK
  <2>5. HasOK(n)'
    BY <1>8, <2>1, <2>2 DEF HasOK, LifecycleTypeOK
  <2>4. ASSUME NEW k \in Session \ {n} PROVE HasOK(k)'
    BY <2>1, <2>4 DEF HasOK, Active, LifecycleTypeOK
  <2> QED BY <2>3, <2>4, <2>5 DEF NodesOK
<1> QED BY <1>1, <1>2, <1>3, <1>4, <1>5, <1>6, <1>7, <1>8 DEF IInv

LEMMA CreateFailsInv ==
  ASSUME IInv, NEW n \in Session, CreateFails(n)
  PROVE  IInv'
<1> USE DEF CreateFails, CloseOnline, nodes, data, channels, runners
<1>1. LifecycleTypeOK'
  <2>1. LifecycleTypeOK /\ goesOn[n] \in Session
    BY DEF IInv, GoroutinesOK
  <2> QED BY <2>1, FailsType DEF LifecycleTypeOK
<1>2. FutureOK'
  BY DEF IInv, FutureOK
<1>3. CallerOK'
  BY LifecycleConstants DEF IInv, CallerOK
<1>4. RunnersOK'
  BY DEF IInv, RunnersOK, NoSession
<1>5. DbOK'
  BY DEF IInv, DbOK
<1>6. GoroutinesOK'
  BY DEF IInv, LifecycleTypeOK, GoroutinesOK, Busy, Session
<1>7. ASSUME ~crossed' PROVE AloneOK'
  BY <1>7 DEF IInv, LifecycleTypeOK, AloneOK, Active, Session
<1>8. ASSUME ~crossed' PROVE NodesOK'
  <2>1. /\ LifecycleTypeOK /\ AloneOK /\ OpenOK /\ HasOK(n) /\ n = session
        /\ \A k \in Session \ {n} : HasOK(k) /\ gpc[k] \notin Active
    BY <1>8 DEF IInv, NodesOK, AloneOK, Active
  <2>2. OpenOK'
    BY <1>8, <2>1 DEF OpenOK, Active
  <2>3. HasOK(n)'
    BY <1>8, <2>1, IpfsType DEF LifecycleTypeOK, HasOK, Active
  <2>4. ASSUME NEW k \in Session \ {n} PROVE HasOK(k)'
    BY <2>1, <2>4 DEF HasOK, LifecycleTypeOK
  <2> QED BY <2>2, <2>3, <2>4 DEF NodesOK
<1> QED BY <1>1, <1>2, <1>3, <1>4, <1>5, <1>6, <1>7, <1>8 DEF IInv

LEMMA CloseAttachedFailsInv ==
  ASSUME IInv, NEW n \in Session, CloseAttachedFails(n)
  PROVE  IInv'
<1> USE DEF CloseAttachedFails, CloseFails, CloseOnline, nodes, data, channels, runners
<1>1. LifecycleTypeOK'
  <2>1. LifecycleTypeOK /\ goesOn[n] \in Session
    BY DEF IInv, GoroutinesOK
  <2>2. running' \subseteq Ipfs /\ leaked' \subseteq Ipfs /\ old' \in [Session \cup {Caller} -> SUBSET Ipfs]
    BY <2>1, CloseOfType, IpfsType DEF LifecycleTypeOK
  <2>3. failures' \in 0..MaxFailures
    BY <2>1, FailsType
  <2>4. /\ goesOn' \in [Session -> Session \cup {NoSession}]
        /\ gpc' \in [Session -> {"no", "begin", "create", "close", "attach", "serve", "ended"}]
        /\ onlineSet' \subseteq Session /\ panicked' \in BOOLEAN
    BY <2>1 DEF LifecycleTypeOK
  <2>5. node' = node /\ services' = services
    OBVIOUS
  <2> QED BY <2>1, <2>2, <2>3, <2>4, <2>5 DEF LifecycleTypeOK
<1>2. FutureOK'
  BY DEF IInv, FutureOK
<1>3. CallerOK'
  BY LifecycleConstants DEF IInv, CallerOK
<1>4. RunnersOK'
  BY DEF IInv, RunnersOK, NoSession
<1>5. DbOK'
  BY DEF IInv, DbOK
<1>6. GoroutinesOK'
  BY DEF IInv, LifecycleTypeOK, GoroutinesOK, Busy, Session
<1>7. ASSUME ~crossed' PROVE AloneOK'
  BY <1>7 DEF IInv, LifecycleTypeOK, AloneOK, Active, Session
<1>8. ASSUME ~crossed' PROVE NodesOK'
  <2>1. /\ LifecycleTypeOK /\ AloneOK /\ OpenOK /\ HasOK(n) /\ n = session
        /\ \A k \in Session \ {n} : HasOK(k) /\ gpc[k] \notin Active
    BY <1>8 DEF IInv, NodesOK, AloneOK, Active
  <2>2. OpenOK'
    <3>1. /\ running \subseteq node \cup {<<n, TRUE>>} \cup leaked /\ old[n] = node
          /\ caller \notin {"close", "attach"} /\ ~tidy
      BY <1>8, <2>1 DEF IInv, HasOK, FutureOK, Beginning, GoroutinesOK, Busy
    <3>2. running' \subseteq running
      BY CloseOfType
    <3> QED BY <2>1, <3>1, <3>2 DEF OpenOK
  <2>3. HasOK(n)'
    BY <1>8, <2>1, IpfsType DEF LifecycleTypeOK, HasOK, Active
  <2>4. ASSUME NEW k \in Session \ {n} PROVE HasOK(k)'
    BY <2>1, <2>4 DEF HasOK, Active, LifecycleTypeOK
  <2> QED BY <2>2, <2>3, <2>4 DEF NodesOK
<1> QED BY <1>1, <1>2, <1>3, <1>4, <1>5, <1>6, <1>7, <1>8 DEF IInv

LEMMA CloseAttachedInv ==
  ASSUME IInv, NEW n \in Session, CloseAttached(n)
  PROVE  IInv'
<1> USE DEF CloseAttached, ClosePrevious, nodes, data, channels, runners
<1>1. LifecycleTypeOK'
  BY LifecycleConstants, IpfsType DEF IInv, LifecycleTypeOK
<1>2. FutureOK'
  BY DEF IInv, FutureOK
<1>3. CallerOK'
  BY LifecycleConstants DEF IInv, CallerOK
<1>4. RunnersOK'
  BY DEF IInv, RunnersOK, NoSession
<1>5. DbOK'
  BY DEF IInv, DbOK
<1>6. GoroutinesOK'
  BY DEF IInv, GoroutinesOK, Busy, Session
<1>7. ASSUME ~crossed' PROVE AloneOK'
  BY <1>7 DEF IInv, AloneOK, Active, Session
<1>8. ASSUME ~crossed' PROVE NodesOK'
  <2>1. /\ LifecycleTypeOK /\ AloneOK /\ OpenOK /\ HasOK(n) /\ n = session
        /\ \A k \in Session \ {n} : HasOK(k) /\ gpc[k] \notin Active
    BY <1>8 DEF IInv, NodesOK, AloneOK, Active
  <2>2. OpenOK'
    <3>1. caller \notin {"close", "attach"} /\ ~tidy
      BY <1>8, <2>1 DEF IInv, FutureOK, Beginning, GoroutinesOK, Busy
    <3>2. gpc'[n] = "attach"
      BY <2>1 DEF LifecycleTypeOK
    <3> QED BY <3>1, <3>2 DEF OpenOK
  <2>3. HasOK(n)'
    <3> DEFINE x == <<n, TRUE>>
               y == <<n, FALSE>>
    <3>1. /\ node = {y} /\ running \subseteq node \cup {x} \cup leaked /\ x \in running
          /\ old[n] = node
          /\ x # y /\ rpc[n] = "no"
      BY <2>1, IpfsType DEF IInv, HasOK, RunnersOK
    <3> HIDE DEF x, y
    <3>2. running' \subseteq {x} \cup leaked' /\ x \in running'
      BY <3>1
    <3>3. gpc'[n] = "attach" /\ rpc'[n] = "no" /\ node' = {y}
      BY <2>1, <3>1 DEF LifecycleTypeOK
    <3> QED BY <3>2, <3>3 DEF HasOK, x, y
  <2>4. ASSUME NEW k \in Session \ {n} PROVE HasOK(k)'
    BY <2>1, <2>4 DEF HasOK, Active, LifecycleTypeOK
  <2> QED BY <2>2, <2>3, <2>4 DEF NodesOK
<1> QED BY <1>1, <1>2, <1>3, <1>4, <1>5, <1>6, <1>7, <1>8 DEF IInv

LEMMA AttachOnlineInv ==
  ASSUME IInv, NEW n \in Session, AttachOnline(n)
  PROVE  IInv'
<1> USE DEF AttachOnline, Attach, nodes, data, channels, runners
<1>1. LifecycleTypeOK'
  BY LifecycleConstants, IpfsType DEF IInv, LifecycleTypeOK
<1>2. FutureOK'
  BY DEF IInv, FutureOK
<1>3. CallerOK'
  BY LifecycleConstants DEF IInv, CallerOK
<1>4. RunnersOK'
  BY DEF IInv, RunnersOK, NoSession
<1>5. DbOK'
  BY DEF IInv, DbOK
<1>6. GoroutinesOK'
  BY DEF IInv, GoroutinesOK, Busy, Session
<1>7. ASSUME ~crossed' PROVE AloneOK'
  BY <1>7 DEF IInv, AloneOK, Active, Session
<1>8. ASSUME ~crossed' PROVE NodesOK'
  <2>1. /\ LifecycleTypeOK /\ AloneOK /\ OpenOK /\ HasOK(n) /\ n = session
        /\ \A k \in Session \ {n} : HasOK(k) /\ gpc[k] \notin Active
    BY <1>8 DEF IInv, NodesOK, AloneOK, Active
  <2>2. OpenOK'
    <3>1. caller \notin {"close", "attach"} /\ ~tidy
      BY <1>8, <2>1 DEF IInv, FutureOK, Beginning, GoroutinesOK, Busy
    <3>2. running \subseteq {<<n, TRUE>>} \cup leaked
      BY <2>1 DEF HasOK
    <3> QED BY <3>1, <3>2 DEF OpenOK
  <2>3. HasOK(n)'
    BY <1>8, <2>1, IpfsType DEF LifecycleTypeOK, HasOK, Active
  <2>4. ASSUME NEW k \in Session \ {n} PROVE HasOK(k)'
    BY <2>1, <2>4 DEF HasOK, Active, LifecycleTypeOK
  <2> QED BY <2>2, <2>3, <2>4 DEF NodesOK
<1> QED BY <1>1, <1>2, <1>3, <1>4, <1>5, <1>6, <1>7, <1>8 DEF IInv

LEMMA ServeInv ==
  ASSUME IInv, NEW n \in Session, Serve(n)
  PROVE  IInv'
<1> USE DEF Serve, Bind, CloseOnline, nodes, data, channels, runners
<1>1. LifecycleTypeOK'
  <2>1. LifecycleTypeOK /\ goesOn[n] \in Session
    BY DEF IInv, GoroutinesOK
  <2> QED BY <2>1 DEF LifecycleTypeOK
<1>2. FutureOK'
  BY DEF IInv, FutureOK
<1>3. CallerOK'
  BY LifecycleConstants DEF IInv, CallerOK
<1>4. RunnersOK'
  BY DEF IInv, LifecycleTypeOK, RunnersOK, NoSession
<1>5. DbOK'
  BY DEF IInv, DbOK
<1>6. GoroutinesOK'
  BY DEF IInv, LifecycleTypeOK, GoroutinesOK, Busy, Session
<1>7. ASSUME ~crossed' PROVE AloneOK'
  BY <1>7 DEF IInv, LifecycleTypeOK, AloneOK, Active, Session
<1>8. ASSUME ~crossed' PROVE NodesOK'
  <2>1. /\ LifecycleTypeOK /\ AloneOK /\ OpenOK /\ HasOK(n) /\ n = session
        /\ \A k \in Session \ {n} : HasOK(k) /\ gpc[k] \notin Active
    BY <1>8 DEF IInv, NodesOK, AloneOK, Active
  <2>2. OpenOK'
    BY <1>8, <2>1 DEF OpenOK, Active
  <2>3. HasOK(n)'
    BY <1>8, <2>1, IpfsType DEF LifecycleTypeOK, HasOK, Up
  <2>4. ASSUME NEW k \in Session \ {n} PROVE HasOK(k)'
    BY <2>1, <2>4 DEF HasOK, LifecycleTypeOK
  <2> QED BY <2>2, <2>3, <2>4 DEF NodesOK
<1> QED BY <1>1, <1>2, <1>3, <1>4, <1>5, <1>6, <1>7, <1>8 DEF IInv

LEMMA FlushQueuesInv ==
  ASSUME IInv, NEW n \in Session, NEW l \in {"flush", "wait"}, FlushQueues(n, l)
  PROVE  IInv'
<1> USE DEF FlushQueues, Ping, nodes, data, channels, runners
<1>1. LifecycleTypeOK'
  BY LifecycleConstants DEF IInv, LifecycleTypeOK
<1>2. FutureOK'
  BY DEF IInv, FutureOK
<1>3. CallerOK'
  BY LifecycleConstants DEF IInv, CallerOK
<1>4. RunnersOK'
  BY DEF IInv, LifecycleTypeOK, RunnersOK, NoSession
<1>5. DbOK'
  BY DEF IInv, DbOK
<1>6. GoroutinesOK'
  BY DEF IInv, GoroutinesOK, Busy, Session
<1>7. ASSUME ~crossed' PROVE AloneOK'
  BY <1>7 DEF IInv, AloneOK, Session
<1>8. ASSUME ~crossed' PROVE NodesOK'
  <2>1. OpenOK'
    BY <1>8 DEF IInv, NodesOK, OpenOK
  <2>2. ASSUME NEW k \in Session PROVE HasOK(k)'
    BY <1>8 DEF IInv, NodesOK, LifecycleTypeOK, HasOK, Up
  <2> QED BY <2>1, <2>2 DEF NodesOK
<1> QED BY <1>1, <1>2, <1>3, <1>4, <1>5, <1>6, <1>7, <1>8 DEF IInv

LEMMA RunnerReopensInv ==
  ASSUME IInv, NEW n \in Session, RunnerReopens(n)
  PROVE  IInv'
<1> USE DEF RunnerReopens, nodes, data, channels, runners
<1>1. LifecycleTypeOK'
  BY LifecycleConstants, FailsType, ReopenType DEF IInv, LifecycleTypeOK
<1>2. FutureOK'
  BY DEF IInv, FutureOK
<1>3. CallerOK'
  BY LifecycleConstants DEF IInv, CallerOK
<1>4. RunnersOK'
  BY DEF IInv, LifecycleTypeOK, RunnersOK, NoSession
<1>5. DbOK'
  BY ReopenType DEF IInv, DbOK
<1>6. GoroutinesOK'
  BY DEF IInv, GoroutinesOK, Busy, Session
<1>7. ASSUME ~crossed' PROVE AloneOK'
  BY <1>7 DEF IInv, AloneOK, Session
<1>8. ASSUME ~crossed' PROVE NodesOK'
  <2>1. OpenOK'
    BY <1>8 DEF IInv, NodesOK, OpenOK
  <2>2. ASSUME NEW k \in Session PROVE HasOK(k)'
    BY <1>8 DEF IInv, NodesOK, LifecycleTypeOK, HasOK, Up
  <2> QED BY <2>1, <2>2 DEF NodesOK
<1> QED BY <1>1, <1>2, <1>3, <1>4, <1>5, <1>6, <1>7, <1>8 DEF IInv

LEMMA SelectInv ==
  ASSUME IInv, NEW n \in Session, Select(n)
  PROVE  IInv'
<1> USE DEF Select, nodes, data, channels, runners
<1>1. LifecycleTypeOK'
  BY LifecycleConstants DEF IInv, LifecycleTypeOK
<1>2. FutureOK'
  BY DEF IInv, FutureOK
<1>3. CallerOK'
  BY LifecycleConstants DEF IInv, CallerOK
<1>4. RunnersOK'
  BY DEF IInv, LifecycleTypeOK, RunnersOK, NoSession
<1>5. DbOK'
  BY DEF IInv, DbOK
<1>6. GoroutinesOK'
  BY DEF IInv, GoroutinesOK, Busy, Session
<1>7. ASSUME ~crossed' PROVE AloneOK'
  BY <1>7 DEF IInv, AloneOK, Session
<1>8. ASSUME ~crossed' PROVE NodesOK'
  <2>1. OpenOK'
    BY <1>8 DEF IInv, NodesOK, OpenOK
  <2>2. ASSUME NEW k \in Session PROVE HasOK(k)'
    BY <1>8 DEF IInv, NodesOK, LifecycleTypeOK, HasOK, Up
  <2> QED BY <2>1, <2>2 DEF NodesOK
<1> QED BY <1>1, <1>2, <1>3, <1>4, <1>5, <1>6, <1>7, <1>8 DEF IInv

LEMMA QuitInv ==
  ASSUME IInv, NEW n \in Session, Quit(n)
  PROVE  IInv'
<1> USE DEF Quit, nodes, data, channels, runners
<1>1. LifecycleTypeOK'
  BY LifecycleConstants DEF IInv, LifecycleTypeOK
<1>2. FutureOK'
  BY DEF IInv, FutureOK
<1>3. CallerOK'
  BY LifecycleConstants DEF IInv, CallerOK
<1>4. RunnersOK'
  BY DEF IInv, LifecycleTypeOK, RunnersOK, CallerOK, Session, NoSession
<1>5. DbOK'
  BY DEF IInv, DbOK
<1>6. GoroutinesOK'
  BY DEF IInv, GoroutinesOK, Busy, Session
<1>7. ASSUME ~crossed' PROVE AloneOK'
  BY <1>7 DEF IInv, AloneOK, Session
<1>8. ASSUME ~crossed' PROVE NodesOK'
  <2>1. OpenOK'
    BY <1>8 DEF IInv, NodesOK, OpenOK
  <2>2. ASSUME NEW k \in Session PROVE HasOK(k)'
    BY <1>8 DEF IInv, NodesOK, LifecycleTypeOK, HasOK, Up
  <2> QED BY <2>1, <2>2 DEF NodesOK
<1> QED BY <1>1, <1>2, <1>3, <1>4, <1>5, <1>6, <1>7, <1>8 DEF IInv
LEMMA InitInv == LifecycleInit => IInv
<1> SUFFICES ASSUME LifecycleInit PROVE IInv
  OBVIOUS
<1> USE DEF LifecycleInit, NoSession
<1>1. LifecycleTypeOK
  <2>1. 0 \in 0..MaxSessions /\ 0 \in 0..MaxFailures
    BY LifecycleConstants
  <2>2. dbOpen \subseteq Nat
    OBVIOUS
  <2> QED BY <2>1, <2>2 DEF LifecycleTypeOK
<1>2. FutureOK /\ CallerOK /\ RunnersOK /\ DbOK /\ GoroutinesOK
  BY DEF FutureOK, CallerOK, RunnersOK, DbOK, GoroutinesOK, Starting, Beginning
<1>3. AloneOK /\ OpenOK
  BY DEF AloneOK, OpenOK, Active
<1>4. \A n \in Session : HasOK(n)
  BY DEF HasOK
<1> QED BY <1>1, <1>2, <1>3, <1>4 DEF IInv, NodesOK

LEMMA NextInv == IInv /\ [LifecycleNext]_lifecycleVars => IInv'
<1> SUFFICES ASSUME IInv, [LifecycleNext]_lifecycleVars PROVE IInv'
  OBVIOUS
<1>1. CASE UNCHANGED lifecycleVars
  <2> USE <1>1 DEF lifecycleVars, nodes, data, channels, runners
  <2>1. LifecycleTypeOK' /\ FutureOK' /\ CallerOK' /\ RunnersOK'
    BY DEF IInv, LifecycleTypeOK, FutureOK, CallerOK, RunnersOK
  <2>2. DbOK' /\ GoroutinesOK' /\ (~crossed' => AloneOK')
    BY DEF IInv, DbOK, GoroutinesOK, AloneOK, Busy
  <2>3. ~crossed' => NodesOK'
    BY DEF IInv, NodesOK, OpenOK, HasOK, Up
  <2> QED BY <2>1, <2>2, <2>3 DEF IInv
<1>2. CASE CallerStep
  BY <1>2, StartReopensInv, MakeQueuesInv, CreateOfflineInv, CloseOfflineInv, AttachOfflineInv, StartedInv, LoadStoredFailsInv,
     StopFailsInv, StopNodeInv, CloseDbInv, StopReturnsInv DEF CallerStep
<1>3. ASSUME NEW n \in Session, Goroutine(n) PROVE IInv'
  BY <1>3, BeginInv, CreateOnlineInv, CreateFailsInv, CloseAttachedInv,
     CloseAttachedFailsInv, AttachOnlineInv,
     ServeInv DEF Goroutine
<1>4. ASSUME NEW n \in Session, Runner(n) PROVE IInv'
  BY <1>4, FlushQueuesInv, RunnerReopensInv, SelectInv, QuitInv DEF Runner, Flush, Tick
<1> QED BY <1>1, <1>2, <1>3, <1>4, StartInv, StopInv DEF LifecycleNext
-----------------------------------------------------------------------------
(* The theorems *)

THEOREM LifecycleInductive == LifecycleSpec => []IInv
BY InitInv, NextInv, PTL DEF LifecycleSpec

\* Every variable keeps its type for any number of sessions and failures.
THEOREM LifecycleTypeCorrect == LifecycleSpec => []LifecycleTypeOK
<1>1. IInv => LifecycleTypeOK
  BY DEF IInv
<1> QED BY <1>1, LifecycleInductive, PTL

\* Until two calls of createIPFS overlap, once all is settled no IPFS node is left open but
\* the attached one and those createIPFS gave up because the one before could not be
\* closed; only the latter after a Stop of a node that was online; and no channel is
\* closed twice (core/main.go createIPFS, Stop).
THEOREM NoNodeLeaks == LifecycleSpec => []NodesAccounted
<1>1. IInv => NodesAccounted
  <2> SUFFICES ASSUME IInv, ~crossed
               PROVE  /\ ~panicked
                      /\ Settled => running \subseteq node \cup leaked
                      /\ Settled /\ tidy => running \subseteq leaked
    BY DEF NodesAccounted
  <2>1. ~panicked /\ OpenOK
    BY DEF IInv, AloneOK, NodesOK
  <2>2. Settled => caller = "idle" /\ \A n \in Session : gpc[n] \in {"no", "ended"}
    BY DEF Settled, Busy
  <2> QED BY <2>1, <2>2 DEF OpenOK
<1> QED BY <1>1, LifecycleInductive, PTL

\* Unless two calls of createIPFS overlapped, a node that went online and has settled
\* serves with its own open IPFS node, and the node's datastore and the one its queues
\* work on are open, two though they may be (core/main.go Start, touchDatastore).
THEOREM OnlineServes == LifecycleSpec => []OnlineMeansServed
<1>1. IInv => OnlineMeansServed
  <2> SUFFICES ASSUME IInv, started, Settled, ~crossed, rpc[session] # "no"
               PROVE  /\ node = {<<session, TRUE>>} /\ services = node /\ node \subseteq running
                      /\ db \in dbOpen /\ queuesDb \in dbOpen
    BY DEF OnlineMeansServed
  <2>1. session \in Session /\ Up /\ caller = "idle"
    BY DEF IInv, CallerOK, Up, Settled
  <2>2. HasOK(session) /\ DbOK
    BY <2>1 DEF IInv, NodesOK
  <2> QED BY <2>1, <2>2 DEF HasOK, DbOK
<1> QED BY <1>1, LifecycleInductive, PTL

\* A started node keeps the queue runner of its session, unless the runner looked for the
\* done channel before Start had made it (core/main.go runQueues, Start).
THEOREM QueuesKept == LifecycleSpec => []QueuesServed
<1>1. IInv => QueuesServed
  <2> SUFFICES ASSUME IInv, started, session \notin early PROVE rpc[session] # "ended"
    BY DEF QueuesServed
  <2> QED BY DEF IInv, CallerOK, RunnersOK
<1> QED BY <1>1, LifecycleInductive, PTL

-----------------------------------------------------------------------------
(* The broadcaster *)

\* subscribers that have a listener and have not closed it
Listening(c) == spc[c] \in {"check", "receive", "close"}

\* updates the holder of the mutex has still to put into the channel of c
Coming(c) == IF id[c] \in todo THEN 1 ELSE 0

HeardType ==
  /\ todo \subseteq DOMAIN listeners
  /\ \A i \in DOMAIN listeners : listeners[i] \in Subscriber
  /\ m \in Sender \cup {Nobody}
  /\ log \in Seq(Sender)
  /\ ch \in [Subscriber -> Seq(Sender)] /\ got \in [Subscriber -> Seq(Sender)]
  /\ since \in [Subscriber -> Nat]
  /\ spc \in [Subscriber -> {"listen", "check", "receive", "close", "done"}]
  /\ DOMAIN id = Subscriber

\* The map of listeners and the ids that subscribers keep agree.
RegistryOK ==
  /\ \A i \in DOMAIN listeners : Listening(listeners[i]) /\ id[listeners[i]] = i
  /\ \A c \in Subscriber : Listening(c) =>
       id[c] \in DOMAIN listeners /\ listeners[id[c]] = c

\* Who sends has the mutex, and what it sends is the last of the log.
HolderOK ==
  /\ m = Nobody => todo = {}
  /\ m # Nobody => log # <<>> /\ log[Len(log)] = m

\* What a subscriber has heard is a stretch of the log from where it began.
InOrder(c) ==
  /\ since[c] + Len(Heard(c)) <= Len(log)
  /\ \A k \in 1..Len(Heard(c)) : Heard(c)[k] = log[since[c] + k]
  /\ Listening(c) => since[c] + Len(Heard(c)) + Coming(c) = Len(log)

HeardOK ==
  \A c \in Subscriber :
    IF spc[c] = "listen" THEN Heard(c) = <<>> ELSE InOrder(c)

BroadcastInv == HeardType /\ RegistryOK /\ HolderOK /\ HeardOK

LEMMA AppendProps ==
  ASSUME NEW S, NEW s \in Seq(S), NEW x \in S
  PROVE  /\ Append(s, x) \in Seq(S) /\ Len(s) \in Nat /\ Len(Append(s, x)) = Len(s) + 1
         /\ \A k \in 1..Len(s) : Append(s, x)[k] = s[k]
         /\ Append(s, x)[Len(s) + 1] = x
OBVIOUS

LEMMA AppendRight ==
  ASSUME NEW S, NEW s \in Seq(S), NEW t \in Seq(S), NEW x \in S
  PROVE  s \o Append(t, x) = Append(s \o t, x)
<1> DEFINE u == s \o Append(t, x)
           v == Append(s \o t, x)
<1>1. /\ u \in Seq(S) /\ Len(u) = Len(s) + Len(t) + 1
      /\ \A k \in 1..(Len(s) + Len(t) + 1) :
           u[k] = IF k <= Len(s) THEN s[k] ELSE Append(t, x)[k - Len(s)]
  BY AppendProps, ConcatProperties
<1>2. /\ s \o t \in Seq(S) /\ Len(s \o t) = Len(s) + Len(t)
      /\ \A k \in 1..(Len(s) + Len(t)) : (s \o t)[k] = IF k <= Len(s) THEN s[k] ELSE t[k - Len(s)]
  BY ConcatProperties
<1>3. /\ v \in Seq(S) /\ Len(v) = Len(s) + Len(t) + 1 /\ v[Len(s) + Len(t) + 1] = x
      /\ \A k \in 1..(Len(s) + Len(t)) : v[k] = (s \o t)[k]
  BY <1>2, AppendProps
<1>4. Len(s) \in Nat /\ Len(t) \in Nat /\ Append(t, x)[Len(t) + 1] = x
      /\ \A k \in 1..Len(t) : Append(t, x)[k] = t[k]
  OBVIOUS
<1> HIDE DEF u, v
<1>5. \A k \in 1..Len(u) : u[k] = v[k]
  <2> TAKE k \in 1..Len(u)
  <2>0. k \in 1..(Len(s) + Len(t) + 1) /\ Len(s) \in Nat /\ Len(t) \in Nat
    BY <1>1, <1>4
  <2>1. CASE k <= Len(s)
    <3>1. k \in 1..(Len(s) + Len(t))
      BY <2>0, <2>1
    <3> QED BY <2>0, <2>1, <3>1, <1>1, <1>2, <1>3
  <2>2. CASE k > Len(s) /\ k <= Len(s) + Len(t)
    BY <2>2, <1>1, <1>2, <1>3, <1>4
  <2>3. CASE k = Len(s) + Len(t) + 1
    BY <2>3, <1>1, <1>3, <1>4
  <2> QED BY <2>0, <2>1, <2>2, <2>3
<1>6. u = v
  BY <1>1, <1>3, <1>5, SeqEqual
<1> QED BY <1>6 DEF u, v

\* an element moved from the head of one sequence to the end of another
LEMMA PassOn ==
  ASSUME NEW S, NEW s \in Seq(S), NEW t \in Seq(S), t # <<>>
  PROVE  Append(s, Head(t)) \o Tail(t) = s \o t
<1>1. /\ Head(t) \in S /\ Head(t) = t[1] /\ Tail(t) \in Seq(S) /\ Len(Tail(t)) = Len(t) - 1
      /\ Len(t) \in Nat \ {0} /\ \A k \in 1..Len(Tail(t)) : Tail(t)[k] = t[k + 1]
  BY HeadTailProperties, EmptySeq
<1> DEFINE a == Append(s, Head(t))
           u == a \o Tail(t)
           v == s \o t
<1>2. /\ a \in Seq(S) /\ Len(s) \in Nat /\ Len(a) = Len(s) + 1
      /\ \A k \in 1..Len(s) : a[k] = s[k]
      /\ a[Len(s) + 1] = t[1]
  BY <1>1, AppendProps
<1>3. /\ v \in Seq(S) /\ Len(v) = Len(s) + Len(t)
      /\ \A k \in 1..(Len(s) + Len(t)) : v[k] = IF k <= Len(s) THEN s[k] ELSE t[k - Len(s)]
  BY ConcatProperties
<1> HIDE DEF a
<1>4. /\ u \in Seq(S) /\ Len(u) = Len(a) + Len(Tail(t))
      /\ \A k \in 1..(Len(a) + Len(Tail(t))) : u[k] = IF k <= Len(a) THEN a[k] ELSE Tail(t)[k - Len(a)]
  BY <1>1, <1>2, ConcatProperties
<1> HIDE DEF u, v
<1>5. Len(u) = Len(s) + Len(t) /\ Len(s) \in Nat /\ Len(t) \in Nat
  BY <1>1, <1>2, <1>4
<1>6. \A k \in 1..Len(u) : u[k] = v[k]
  <2> TAKE k \in 1..Len(u)
  <2>1. CASE k <= Len(s)
    BY <2>1, <1>1, <1>2, <1>3, <1>4, <1>5
  <2>2. CASE k = Len(s) + 1
    BY <2>2, <1>1, <1>2, <1>3, <1>4, <1>5
  <2>3. CASE k > Len(s) + 1
    <3>1. k - Len(a) \in 1..Len(Tail(t)) /\ (k - Len(a)) + 1 = k - Len(s)
      BY <2>3, <1>1, <1>2, <1>5
    <3> QED BY <2>3, <3>1, <1>1, <1>2, <1>3, <1>4, <1>5
  <2> QED BY <2>1, <2>2, <2>3, <1>5
<1>7. u = v
  BY <1>3, <1>4, <1>5, <1>6, SeqEqual
<1> QED BY <1>7 DEF u, v, a

LEMMA BInit == BroadcastInit => BroadcastInv
<1> SUFFICES ASSUME BroadcastInit PROVE BroadcastInv
  OBVIOUS
<1>1. HeardType
  BY DEF BroadcastInit, HeardType
<1>2. RegistryOK /\ HolderOK
  BY DEF BroadcastInit, RegistryOK, HolderOK, Listening
<1>3. HeardOK
  BY ConcatEmptySeq, EmptySeq DEF BroadcastInit, HeardOK, Heard
<1> QED BY <1>1, <1>2, <1>3 DEF BroadcastInv

\* A step that changes neither what a subscriber heard nor the log, nor who
\* listens, leaves the order alone.
LEMMA HeardSame ==
  ASSUME HeardOK, NEW c \in Subscriber,
         Heard(c)' = Heard(c), log' = log, since'[c] = since[c], Coming(c)' = Coming(c),
         (spc[c] = "listen") <=> (spc'[c] = "listen"), Listening(c)' => Listening(c)
  PROVE  IF spc'[c] = "listen" THEN Heard(c)' = <<>> ELSE InOrder(c)'
BY DEF HeardOK, InOrder

LEMMA BListen ==
  ASSUME BroadcastInv, NEW c \in Subscriber, Listen(c)
  PROVE  BroadcastInv'
<1> USE DEF BroadcastInv
<1>0. PICK n \in 0..MaxId :
        /\ n \notin DOMAIN listeners
        /\ id' = [id EXCEPT ![c] = n]
        /\ listeners' = [i \in DOMAIN listeners \cup {n} |-> IF i = n THEN c ELSE listeners[i]]
  BY DEF Listen, NextFree
<1>1. /\ m = Nobody /\ todo = {} /\ todo' = todo /\ m' = m /\ log' = log /\ ch' = ch /\ got' = got
      /\ spc[c] = "listen" /\ spc' = [spc EXCEPT ![c] = "check"]
      /\ since' = [since EXCEPT ![c] = Len(log)]
  BY DEF Listen, sending, HolderOK
<1>2. HeardType'
  BY <1>0, <1>1 DEF HeardType
<1>3. \A d \in Subscriber : Listening(d)' <=> (Listening(d) \/ d = c)
  BY <1>1 DEF Listening, HeardType
<1>4. ~Listening(c)
  BY <1>1 DEF Listening
<1>5. RegistryOK'
  <2>1. ASSUME NEW i \in DOMAIN listeners' PROVE Listening(listeners[i])' /\ id'[listeners'[i]] = i
    <3>1. CASE i = n
      <4>1. listeners'[i] = c /\ id'[c] = n /\ spc'[c] = "check"
        BY <3>1, <1>0, <1>1 DEF HeardType
      <4> QED BY <3>1, <4>1 DEF Listening
    <3>2. CASE i # n
      <4>1. i \in DOMAIN listeners /\ listeners'[i] = listeners[i] /\ listeners[i] \in Subscriber
        BY <3>2, <1>0 DEF HeardType
      <4>2. Listening(listeners[i]) /\ id[listeners[i]] = i
        BY <4>1 DEF RegistryOK
      <4>3. listeners[i] # c
        BY <4>2, <1>4
      <4>4. spc'[listeners[i]] = spc[listeners[i]] /\ id'[listeners[i]] = id[listeners[i]]
        BY <4>1, <4>3, <1>0, <1>1 DEF HeardType
      <4> QED BY <4>1, <4>2, <4>4 DEF Listening
    <3> QED BY <3>1, <3>2
  <2>2. ASSUME NEW d \in Subscriber, Listening(d)'
        PROVE  id'[d] \in DOMAIN listeners' /\ listeners'[id'[d]] = d
    <3>1. CASE d = c
      BY <3>1, <1>0 DEF HeardType
    <3>2. CASE d # c
      BY <3>2, <2>2, <1>0, <1>3 DEF HeardType, RegistryOK
    <3> QED BY <3>1, <3>2
  <2> QED BY <2>1, <2>2 DEF RegistryOK
<1>6. HolderOK'
  BY <1>1 DEF HolderOK
<1>7. HeardOK'
  <2> SUFFICES ASSUME NEW d \in Subscriber
               PROVE  IF spc'[d] = "listen" THEN Heard(d)' = <<>> ELSE InOrder(d)'
    BY DEF HeardOK
  <2>1. Heard(d)' = Heard(d) /\ Coming(d)' = 0 /\ Coming(d) = 0
    BY <1>1 DEF Heard, Coming
  <2>2. CASE d = c
    <3>1. Heard(c) = <<>> /\ Len(log) \in Nat
      BY <1>1 DEF HeardOK, HeardType
    <3>2. since'[c] = Len(log) /\ spc'[c] = "check"
      BY <1>1 DEF HeardType
    <3>3. Len(Heard(c)') = 0
      BY <2>1, <2>2, <3>1
    <3> QED BY <2>1, <2>2, <3>1, <3>2, <3>3, <1>1 DEF InOrder
  <2>3. CASE d # c
    BY <2>1, <2>3, <1>1, <1>3, HeardSame DEF HeardType
  <2> QED BY <2>2, <2>3
<1> QED BY <1>2, <1>5, <1>6, <1>7

\* a subscriber that goes on to "check", "receive" or "close"
LEMMA BMove ==
  ASSUME BroadcastInv, NEW c \in Subscriber, Listening(c),
         NEW x \in {"check", "receive", "close"}, spc' = [spc EXCEPT ![c] = x],
         UNCHANGED <<registry, sending>>,
         HeardType', \A d \in Subscriber : Heard(d)' = Heard(d)
  PROVE  BroadcastInv'
<1> USE DEF BroadcastInv
<1>1. \A d \in Subscriber : Listening(d)' <=> Listening(d)
  BY DEF Listening, HeardType
<1>2. /\ listeners' = listeners /\ id' = id /\ since' = since
      /\ m' = m /\ todo' = todo /\ log' = log
  BY DEF registry, sending
<1>3. RegistryOK' /\ HolderOK'
  BY <1>1, <1>2 DEF RegistryOK, HolderOK, HeardType
<1>4. HeardOK'
  <2> SUFFICES ASSUME NEW d \in Subscriber
               PROVE  IF spc'[d] = "listen" THEN Heard(d)' = <<>> ELSE InOrder(d)'
    BY DEF HeardOK
  <2>1. Coming(d)' = Coming(d)
    BY <1>2 DEF Coming
  <2>2. (spc[d] = "listen") <=> (spc'[d] = "listen")
    BY DEF HeardType, Listening
  <2> QED BY <1>1, <1>2, <2>1, <2>2, HeardSame
<1> QED BY <1>3, <1>4

LEMMA BReceive ==
  ASSUME BroadcastInv, NEW c \in Subscriber, Receive(c)
  PROVE  BroadcastInv'
<1> USE DEF BroadcastInv
<1>1. /\ spc[c] = "receive" /\ ch[c] # <<>> /\ ch[c] \in Seq(Sender) /\ got[c] \in Seq(Sender)
      /\ got' = [got EXCEPT ![c] = Append(@, Head(ch[c]))]
      /\ ch' = [ch EXCEPT ![c] = Tail(@)]
      /\ spc' = [spc EXCEPT ![c] = "check"]
  BY DEF Receive, HeardType
<1>2. Head(ch[c]) \in Sender /\ Tail(ch[c]) \in Seq(Sender)
  BY <1>1
<1>3. HeardType'
  BY <1>1, <1>2 DEF Receive, registry, sending, HeardType
<1>4. \A d \in Subscriber : Heard(d)' = Heard(d)
  <2>1. Append(got[c], Head(ch[c])) \o Tail(ch[c]) = got[c] \o ch[c]
    BY <1>1, PassOn
  <2> QED BY <2>1, <1>1 DEF Heard, HeardType
<1> QED BY <1>1, <1>3, <1>4, BMove DEF Receive, Listening

LEMMA BSubscriber ==
  ASSUME BroadcastInv, NEW c \in Subscriber,
         CheckClient(c) \/ ReceiveEnds(c)
  PROVE  BroadcastInv'
<1> USE DEF BroadcastInv
<1>1. PICK x \in {"check", "receive", "close"} : spc' = [spc EXCEPT ![c] = x]
  BY DEF CheckClient, ReceiveEnds
<1>2. UNCHANGED <<registry, sending, ch, got>> /\ Listening(c)
  BY DEF CheckClient, ReceiveEnds, Listening
<1>3. HeardType' /\ \A d \in Subscriber : Heard(d)' = Heard(d)
  BY <1>1, <1>2 DEF registry, sending, HeardType, Heard
<1> QED BY <1>1, <1>2, <1>3, BMove

LEMMA BClose ==
  ASSUME BroadcastInv, NEW c \in Subscriber, CloseListener(c)
  PROVE  BroadcastInv'
<1> USE DEF BroadcastInv
<1>1. /\ spc[c] = "close" /\ m = Nobody /\ todo = {} /\ spc' = [spc EXCEPT ![c] = "done"]
      /\ listeners' = [i \in DOMAIN listeners \ {id[c]} |-> listeners[i]]
      /\ id' = id /\ since' = since /\ m' = m /\ todo' = todo /\ log' = log
      /\ ch' = ch /\ got' = got
  BY DEF CloseListener, sending, HolderOK
<1>2. HeardType'
  BY <1>1 DEF HeardType
<1>3. \A d \in Subscriber : Listening(d)' <=> (Listening(d) /\ d # c)
  BY <1>1 DEF Listening, HeardType
<1>4. RegistryOK'
  <2>1. ASSUME NEW i \in DOMAIN listeners' PROVE Listening(listeners[i])' /\ id'[listeners'[i]] = i
    <3>1. i \in DOMAIN listeners /\ i # id[c] /\ listeners'[i] = listeners[i]
      BY <1>1
    <3>2. listeners[i] \in Subscriber /\ Listening(listeners[i]) /\ id[listeners[i]] = i
      BY <3>1 DEF RegistryOK, HeardType
    <3>3. listeners[i] # c
      BY <3>1, <3>2
    <3> QED BY <3>1, <3>2, <3>3, <1>1 DEF Listening, HeardType
  <2>2. ASSUME NEW d \in Subscriber, Listening(d)'
        PROVE  id'[d] \in DOMAIN listeners' /\ listeners'[id'[d]] = d
    <3>1. Listening(d) /\ d # c /\ Listening(c)
      BY <2>2, <1>1, <1>3 DEF Listening
    <3>2. id[d] \in DOMAIN listeners /\ listeners[id[d]] = d /\ listeners[id[c]] = c
      BY <3>1 DEF RegistryOK
    <3> QED BY <3>1, <3>2, <1>1
  <2> QED BY <2>1, <2>2 DEF RegistryOK
<1>5. HolderOK'
  BY <1>1 DEF HolderOK
<1>6. HeardOK'
  <2> SUFFICES ASSUME NEW d \in Subscriber
               PROVE  IF spc'[d] = "listen" THEN Heard(d)' = <<>> ELSE InOrder(d)'
    BY DEF HeardOK
  <2>1. Coming(d)' = Coming(d) /\ Heard(d)' = Heard(d)
    BY <1>1 DEF Coming, Heard
  <2>2. (spc[d] = "listen") <=> (spc'[d] = "listen")
    BY <1>1 DEF HeardType
  <2> QED BY <1>1, <1>3, <2>1, <2>2, HeardSame
<1> QED BY <1>2, <1>4, <1>5, <1>6

LEMMA BSend ==
  ASSUME BroadcastInv, NEW s \in Sender, Send(s)
  PROVE  BroadcastInv'
<1> USE DEF BroadcastInv
<1>1. /\ m = Nobody /\ todo = {}
      /\ UNCHANGED <<listeners, id, since, ch, spc, got>>
  BY DEF Send, registry, HolderOK
<1>2. \A d \in Subscriber : Heard(d)' = Heard(d) /\ (Listening(d)' <=> Listening(d))
  BY <1>1 DEF Heard, Listening
<1>3. RegistryOK'
  BY <1>1, <1>2 DEF RegistryOK, HeardType
<1>4. CASE closed
  <2>1. m' = m /\ todo' = todo /\ log' = log
    BY <1>4 DEF Send
  <2>2. HeardType' /\ HolderOK'
    BY <1>1, <2>1 DEF HeardType, HolderOK
  <2>3. HeardOK'
    BY <1>1, <1>2, <2>1, HeardSame DEF HeardOK, Coming
  <2> QED BY <1>3, <2>2, <2>3
<1>5. CASE ~closed
  <2>1. m' = s /\ todo' = DOMAIN listeners /\ log' = Append(log, s)
    BY <1>5 DEF Send
  <2>2. HeardType'
    BY <1>1, <2>1 DEF HeardType
  <2>3. /\ Len(log) \in Nat /\ Len(log') = Len(log) + 1 /\ log'[Len(log')] = s
        /\ \A k \in 1..Len(log) : log'[k] = log[k]
    BY <2>1 DEF HeardType
  <2>4. HolderOK'
    BY <2>1, <2>3, BroadcastConstants DEF HolderOK, HeardType
  <2>5. HeardOK'
    <3> SUFFICES ASSUME NEW d \in Subscriber, spc[d] # "listen", InOrder(d)
                 PROVE  InOrder(d)'
      BY <1>1, <1>2 DEF HeardOK
    <3>1. Heard(d) \in Seq(Sender) /\ Len(Heard(d)) \in Nat /\ since[d] \in Nat
      BY DEF Heard, HeardType
    <3>2. Coming(d) = 0
      BY <1>1 DEF Coming
    <3>3. Listening(d) => Coming(d)' = 1
      BY <1>1, <2>1 DEF Coming, RegistryOK
    <3>4. since'[d] + Len(Heard(d)') <= Len(log')
      BY <1>1, <1>2, <2>3, <3>1 DEF InOrder
    <3>5. \A k \in 1..Len(Heard(d)) : Heard(d)[k] = log'[since[d] + k]
      <4> TAKE k \in 1..Len(Heard(d))
      <4>1. since[d] + k \in 1..Len(log) /\ Heard(d)[k] = log[since[d] + k]
        BY <2>3, <3>1 DEF InOrder
      <4> QED BY <4>1, <2>3
    <3>6. Listening(d)' => since'[d] + Len(Heard(d)') + Coming(d)' = Len(log')
      <4> SUFFICES ASSUME Listening(d) PROVE since[d] + Len(Heard(d)) + 1 = Len(log')
        BY <1>1, <1>2, <3>3
      <4>1. since[d] + Len(Heard(d)) + 0 = Len(log)
        BY <3>2 DEF InOrder
      <4> QED BY <4>1, <2>3, <3>1
    <3> QED BY <1>1, <1>2, <3>4, <3>5, <3>6 DEF InOrder
  <2> QED BY <1>3, <2>2, <2>4, <2>5
<1> QED BY <1>4, <1>5

LEMMA BSendTo ==
  ASSUME BroadcastInv, NEW s \in Sender, NEW i \in DOMAIN listeners, NEW c \in Subscriber,
         c = listeners[i], SendTo(s, i)
  PROVE  BroadcastInv'
<1> USE DEF BroadcastInv
<1>1. /\ m = s /\ i \in todo /\ s # Nobody
      /\ ch' = [ch EXCEPT ![c] = Append(@, s)] /\ todo' = todo \ {i}
      /\ UNCHANGED <<listeners, id, since, m, log, spc, got>>
  BY BroadcastConstants DEF SendTo, registry, HeardType
<1>2. Listening(c) /\ id[c] = i
  BY DEF RegistryOK
<1>3. HeardType'
  BY <1>1 DEF HeardType
<1>4. \A d \in Subscriber : Listening(d)' <=> Listening(d)
  BY <1>1 DEF Listening
<1>5. RegistryOK' /\ HolderOK'
  BY <1>1, <1>4 DEF RegistryOK, HolderOK, HeardType
<1>6. HeardOK'
  <2> SUFFICES ASSUME NEW d \in Subscriber
               PROVE  IF spc'[d] = "listen" THEN Heard(d)' = <<>> ELSE InOrder(d)'
    BY DEF HeardOK
  <2>1. CASE d = c
    <3>1. ch[c] \in Seq(Sender) /\ got[c] \in Seq(Sender) /\ since[c] \in Nat /\ Len(log) \in Nat
      BY <1>1 DEF HeardType
    <3>2. Heard(c)' = got[c] \o Append(ch[c], s)
      BY <1>1 DEF Heard, HeardType
    <3>0a. got[c] \o ch[c] \in Seq(Sender)
      BY <3>1, ConcatProperties
    <3>0b. got[c] \o Append(ch[c], s) = Append(got[c] \o ch[c], s)
      <4>1. \A S : \A a, b \in Seq(S), x \in S : a \o Append(b, x) = Append(a \o b, x)
        BY AppendRight
      <4>2. \A a, b \in Seq(Sender), x \in Sender : a \o Append(b, x) = Append(a \o b, x)
        <5> HIDE DEF BroadcastInv
        <5> QED BY <4>1
      <4> QED BY <3>1, <4>2
    <3>3. Heard(c) \in Seq(Sender) /\ Heard(c)' = Append(Heard(c), s)
      BY <3>2, <3>0a, <3>0b DEF Heard
    <3>4. /\ Len(Heard(c)) \in Nat /\ Len(Heard(c)') = Len(Heard(c)) + 1
          /\ Heard(c)'[Len(Heard(c)) + 1] = s
          /\ \A k \in 1..Len(Heard(c)) : Heard(c)'[k] = Heard(c)[k]
      BY <3>3
    <3>5. Coming(c) = 1 /\ Coming(c)' = 0
      BY <1>1, <1>2 DEF Coming
    <3>6. InOrder(c) /\ spc'[c] # "listen"
      BY <1>1, <1>2 DEF HeardOK, Listening
    <3>7. since[c] + Len(Heard(c)) + 1 = Len(log) /\ log[Len(log)] = s
      BY <1>1, <1>2, <3>5, <3>6 DEF InOrder, HolderOK
    <3>8. \A k \in 1..Len(Heard(c)') : Heard(c)'[k] = log[since[c] + k]
      <4> TAKE k \in 1..Len(Heard(c)')
      <4>1. CASE k \in 1..Len(Heard(c))
        BY <4>1, <3>4, <3>6 DEF InOrder
      <4>2. CASE k = Len(Heard(c)) + 1
        BY <4>2, <3>1, <3>4, <3>7
      <4> QED BY <4>1, <4>2, <3>4
    <3>9. InOrder(c)'
      BY <1>1, <3>1, <3>4, <3>5, <3>7, <3>8 DEF InOrder
    <3> QED BY <2>1, <3>6, <3>9
  <2>2. CASE d # c
    <3>1. Heard(d)' = Heard(d)
      BY <2>2, <1>1 DEF Heard, HeardType
    <3>2. Listening(d) => id[d] # i
      BY <2>2 DEF RegistryOK
    <3>3. CASE Listening(d)
      <4>1. Coming(d)' = Coming(d)
        BY <1>1, <3>2, <3>3 DEF Coming
      <4> QED BY <1>1, <1>4, <3>1, <4>1, HeardSame
    <3>4. CASE ~Listening(d)
      BY <1>1, <1>4, <3>1, <3>4 DEF HeardOK, InOrder
    <3> QED BY <3>3, <3>4
  <2> QED BY <2>1, <2>2
<1> QED BY <1>3, <1>5, <1>6

\* SendReturns, CloseAll, ClientLeaves: nobody's channel or listener changes
LEMMA BRest ==
  ASSUME BroadcastInv,
         \/ \E s \in Sender : SendReturns(s)
         \/ CloseAll
         \/ \E c \in Subscriber : ClientLeaves(c)
         \/ UNCHANGED broadcastVars
  PROVE  BroadcastInv'
<1> USE DEF BroadcastInv
<1>1. /\ UNCHANGED <<listeners, id, since, ch, spc, got, todo, log>>
      /\ m' = m \/ (m' = Nobody /\ todo = {})
  BY DEF SendReturns, CloseAll, ClientLeaves, broadcastVars, registry, sending
<1>2. HeardType'
  BY <1>1 DEF HeardType
<1>3. RegistryOK' /\ HolderOK'
  BY <1>1 DEF RegistryOK, HolderOK, Listening
<1>4. HeardOK'
  BY <1>1 DEF HeardOK, InOrder, Heard, Listening, Coming
<1> QED BY <1>2, <1>3, <1>4

LEMMA BNext == BroadcastInv /\ [BroadcastNext]_broadcastVars => BroadcastInv'
<1> SUFFICES ASSUME BroadcastInv, [BroadcastNext]_broadcastVars PROVE BroadcastInv'
  OBVIOUS
<1>1. CASE \E c \in Subscriber : SubscriberStep(c)
  BY <1>1, BListen, BReceive, BSubscriber, BClose DEF SubscriberStep
<1>2. CASE \E s \in Sender : SenderStep(s)
  <2>1. \A i \in DOMAIN listeners : listeners[i] \in Subscriber
    BY DEF BroadcastInv, HeardType
  <2> QED BY <1>2, <2>1, BSend, BSendTo, BRest DEF SenderStep
<1>3. CASE CloseAll \/ (\E c \in Subscriber : ClientLeaves(c)) \/ UNCHANGED broadcastVars
  BY <1>3, BRest
<1> QED BY <1>1, <1>2, <1>3 DEF BroadcastNext

LEMMA BImplies == BroadcastInv => ReceivedInOrder
<1> SUFFICES ASSUME BroadcastInv, NEW c \in Subscriber, spc[c] # "listen"
             PROVE  /\ since[c] + Len(Heard(c)) <= Len(log)
                    /\ \A k \in 1..Len(Heard(c)) : Heard(c)[k] = log[since[c] + k]
                    /\ spc[c] # "done" /\ m = Nobody => since[c] + Len(Heard(c)) = Len(log)
  BY DEF ReceivedInOrder
<1>1. InOrder(c) /\ Len(Heard(c)) \in Nat /\ since[c] \in Nat
  BY DEF BroadcastInv, HeardOK, HeardType, Heard
<1>2. m = Nobody => Coming(c) = 0
  BY DEF BroadcastInv, HolderOK, Coming
<1>3. spc[c] # "done" => Listening(c)
  BY DEF BroadcastInv, HeardType, Listening
<1> QED BY <1>1, <1>2, <1>3 DEF InOrder

\* Whatever ids are used again and whoever closes or leaves meanwhile, a
\* subscriber gets the updates sent while it listens, once each, in order.
THEOREM UpdatesInOrder == BroadcastSpec => []ReceivedInOrder
BY BInit, BNext, BImplies, PTL DEF BroadcastSpec

LEMMA BType ==
  ASSUME BroadcastTypeOK, BroadcastInv, BroadcastNext
  PROVE  BroadcastTypeOK'
<1> USE DEF BroadcastTypeOK
<1>1. ASSUME NEW c \in Subscriber, Listen(c) PROVE BroadcastTypeOK'
  <2>1. PICK n \in 0..MaxId :
          /\ nextID' = n /\ id' = [id EXCEPT ![c] = n]
          /\ listeners' = [i \in DOMAIN listeners \cup {n} |-> IF i = n THEN c ELSE listeners[i]]
    BY <1>1 DEF Listen
  <2>2. DOMAIN listeners' = DOMAIN listeners \cup {n}
    BY <2>1
  <2>3. listeners' \in [DOMAIN listeners' -> Subscriber]
    BY <2>1, <2>2
  <2>4. since' \in [Subscriber -> Nat]
    BY <1>1 DEF Listen
  <2> QED BY <1>1, <2>1, <2>2, <2>3, <2>4 DEF Listen, sending
<1>2. ASSUME NEW c \in Subscriber, Receive(c) PROVE BroadcastTypeOK'
  <2>1. Head(ch[c]) \in Sender /\ Tail(ch[c]) \in Seq(Sender)
    BY <1>2 DEF Receive
  <2> QED BY <1>2, <2>1 DEF Receive, registry, sending
<1>3. ASSUME NEW c \in Subscriber, CheckClient(c) \/ ReceiveEnds(c) \/ ClientLeaves(c)
      PROVE  BroadcastTypeOK'
  BY <1>3 DEF CheckClient, ReceiveEnds, ClientLeaves, registry, sending
<1>4. ASSUME NEW c \in Subscriber, CloseListener(c) PROVE BroadcastTypeOK'
  <2>1. todo = {} /\ todo' = {}
    BY <1>4 DEF CloseListener, sending, BroadcastInv, HolderOK
  <2> QED BY <1>4, <2>1 DEF CloseListener, sending
<1>5. ASSUME NEW s \in Sender, Send(s) PROVE BroadcastTypeOK'
  <2>1. Append(log, s) \in Seq(Sender)
    OBVIOUS
  <2>2. log' \in Seq(Sender) /\ m' \in Sender \cup {Nobody}
    BY <1>5, <2>1 DEF Send
  <2>3. todo' \subseteq DOMAIN listeners /\ bpc' \in [Sender -> {"lock", "send", "done"}]
    BY <1>5 DEF Send
  <2> QED BY <1>5, <2>2, <2>3 DEF Send, registry
<1>6. ASSUME NEW s \in Sender, NEW i \in DOMAIN listeners, SendTo(s, i) PROVE BroadcastTypeOK'
  BY <1>6 DEF SendTo, registry
<1>7. ASSUME NEW s \in Sender, SendReturns(s) PROVE BroadcastTypeOK'
  BY <1>7 DEF SendReturns, registry
<1>8. CASE CloseAll
  BY <1>8 DEF CloseAll, registry, sending
<1> QED BY <1>1, <1>2, <1>3, <1>4, <1>5, <1>6, <1>7, <1>8
        DEF BroadcastNext, SubscriberStep, SenderStep

\* Every variable keeps its type (broadcast/main.go).
THEOREM BroadcastTypeCorrect == BroadcastSpec => []BroadcastTypeOK
<1>1. BroadcastInit => BroadcastTypeOK
  <2> SUFFICES ASSUME BroadcastInit PROVE BroadcastTypeOK
    OBVIOUS
  <2>1. DOMAIN listeners = {} /\ listeners \in [{} -> Subscriber]
    BY DEF BroadcastInit
  <2>2. 0 \in 0..MaxId /\ 0 \in Nat /\ <<>> \in Seq(Sender)
    BY BroadcastConstants, EmptySeq
  <2>3. /\ id \in [Subscriber -> 0..MaxId] /\ since \in [Subscriber -> Nat]
        /\ ch \in [Subscriber -> Seq(Sender)] /\ got \in [Subscriber -> Seq(Sender)]
    BY <2>2 DEF BroadcastInit
  <2> QED BY <2>1, <2>2, <2>3 DEF BroadcastInit, BroadcastTypeOK
<1>2. BroadcastInv /\ BroadcastTypeOK /\ [BroadcastNext]_broadcastVars => BroadcastTypeOK'
  <2>1. BroadcastTypeOK /\ UNCHANGED broadcastVars => BroadcastTypeOK'
    BY DEF BroadcastTypeOK, broadcastVars, registry, sending
  <2> QED BY <2>1, BType
<1> QED BY <1>1, <1>2, BInit, BNext, PTL DEF BroadcastSpec
=============================================================================

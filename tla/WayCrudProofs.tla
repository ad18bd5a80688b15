---------------------------- MODULE WayCrudProofs ----------------------------
(***************************************************************************)
(* Safety of the way administration, for any number of jobs, ways, failures,*)
(* timeouts and restarts. Everything rests on the lock (Mutex): because one  *)
(* job at a time is between _run_locked's acquire and release, the network   *)
(* a job has read is still the network when it writes (Drafts), and the      *)
(* network it has written is still the network when its rebuild is served    *)
(* (Waiting).                                                              *)
(***************************************************************************)
EXTENDS WayCrud, FiniteSetTheorems, TLAPS

\* The lock is held exactly while one job works, and the status says so.
Mutex ==
    /\ \A j, k \in Jobs : phase[j] \in Active /\ phase[k] \in Active => j = k
    /\ lock <=> \E j \in Jobs : phase[j] \in Active
    /\ status.running = lock

\* A way with an OBJECTID is registered before it is merged; what a job is about to write is the network
\* but for its own way.
Drafts ==
    /\ \A w \in Ways \ Anonymous : net[w] # NoWay => w \in registered
    /\ \A j \in Jobs :
          /\ phase[j] = "merge" => op[j].way \in registered \cup Anonymous
          /\ phase[j] \in {"rewrite1", "writing1", "rewrite2", "writing2"} =>
                \A w \in Ways : /\ draft[j][w] # NoWay => w \in registered \cup Anonymous
                                /\ w # op[j].way => draft[j][w] = net[w]

\* The rebuild server reads the network only for the one request it serves.
Serving ==
    /\ \A j, k \in Jobs : {answer[j], answer[k]} \subseteq {"running", "published"} => j = k
    /\ src # NoSource <=> \E j \in Jobs : answer[j] = "running"

\* While a job waits for its answer nobody rewrites the PBF, so the build that is
\* made for it, and any made after it, is a build of the PBF as it is.
Waiting ==
    \A j \in Jobs : phase[j] = "wait" =>
        /\ answer[j] # "unsent"
        /\ answer[j] = "running" => src = pbf
        /\ answer[j] \in {"published", "ok"} =>
              graph = pbf /\ (src # NoSource => src = pbf)

\* What the last job left behind when it completed stays so until the next one.
Current ==
    crashes = 0 /\ ~status.running /\ ~status.last_error =>
        graph = pbf /\ (src # NoSource => src = pbf)

\* Without failures every request at the server has its job waiting for it, so no
\* job rewrites the PBF while the server builds.
Clean ==
    timeouts = 0 /\ fails = 0 /\ crashes = 0 =>
        /\ src # Torn /\ graph # Torn
        /\ pbf = Torn => \E j \in Jobs : phase[j] \in {"writing1", "writing2"}
        /\ \A j \in Jobs : answer[j] \in {"queued", "running", "published"}
                              => phase[j] = "wait"

IInv == TypeOK /\ Mutex /\ Drafts /\ Serving /\ Waiting /\ Current /\ Clean

\* TileStore's actions have guards of their own. Those osmium and urlopen do not have:
\* a job that comes to rewrite the PBF, to finish the rewrite or to ask for a rebuild can.
NeverBarred ==
    \A j \in Jobs :
        /\ phase[j] \in {"rewrite1", "rewrite2"} =>
              edits < 2 * Cardinality(Jobs) /\ pbf # Torn
        /\ phase[j] \in {"writing1", "writing2"} => pbf = Torn
        /\ phase[j] = "send" => answer[j] = "unsent"

\* Every job rewrites the PBF at most twice: the jobs past their first and past their
\* second rewrite, whether they made it or not.
ToRewrite1 == {"new", "accepted", "remove", "rewrite1", "writing1"}
ToRewrite2 == ToRewrite1 \cup {"convert", "merge", "rewrite2", "writing2"}
Past1 == {j \in Jobs : phase[j] \notin ToRewrite1}
Past2 == {j \in Jobs : phase[j] \notin ToRewrite2}
Budget == edits <= Cardinality(Past1) + Cardinality(Past2)

Ready == /\ Budget
         /\ \A j \in Jobs :
               /\ phase[j] \in {"rewrite1", "rewrite2"} => pbf # Torn
               /\ phase[j] \in {"writing1", "writing2"} => pbf = Torn
               /\ phase[j] \in ToRewrite2 \cup {"send"} => answer[j] = "unsent"

-----------------------------------------------------------------------------
\* The bootstrapped api satisfies the inductive invariant.
LEMMA InitIInv == Init => IInv
<1> SUFFICES ASSUME Init PROVE IInv
  OBVIOUS
<1> USE NetworkAssumption, MarkersAssumption DEF Init, Store!Init, Bootstrapped
<1>1. TypeOK
  BY DEF TypeOK, Store!TypeOK, Store!Graph, Store!Phase, Network, Kind, Phase, Active, Idle
<1>2. Mutex BY DEF Mutex, Active, Idle
<1>3. Drafts BY DEF Drafts
<1>4. Serving BY DEF Serving
<1>5. Waiting /\ Current /\ Clean BY DEF Waiting, Current, Clean, Idle
<1> QED BY <1>1, <1>2, <1>3, <1>4, <1>5 DEF IInv

\* A status is a record of two Booleans.
LEMMA StatusType == ASSUME NEW a \in BOOLEAN, NEW b \in BOOLEAN
                    PROVE [running |-> a, last_error |-> b]
                             \in [running : BOOLEAN, last_error : BOOLEAN]
OBVIOUS

\* Every step keeps the types.
LEMMA NextTypeOK == ASSUME IInv, [Next]_vars PROVE TypeOK'
<1> USE DEF IInv, TypeOK, Phase, Active, Goto, Idle, storeVars, countVars
<1>1. ASSUME Store!TypeOK' , UNCHANGED <<net, registered, op, phase, draft, lock, status,
             fails, timeouts, crashes>>
      PROVE TypeOK'
  BY <1>1
<1>2. ASSUME UNCHANGED storeVars PROVE Store!TypeOK'
  BY <1>2 DEF Store!TypeOK
<1>3. ASSUME NEW j \in Jobs, NEW kind \in Kind, NEW w \in Ways, Accept(j, kind, w)
      PROVE TypeOK'
  BY <1>2, <1>3 DEF Accept
<1>4. ASSUME NEW j \in Jobs, Submit(j) PROVE TypeOK'
  BY <1>3, <1>4 DEF Kind, Submit, AddWay, UpdateWay, DeleteWay, RebuildTiles
<1>5. ASSUME NEW j \in Jobs, Acquire(j) \/ Drop(j) PROVE TypeOK'
  <2>1. FirstStep(j) \in Phase
    BY DEF FirstStep
  <2>2. phase' \in [Jobs -> Phase]
    BY <1>5, <2>1 DEF Acquire, Drop
  <2>3. lock' \in BOOLEAN
    BY <1>5, Zenon DEF Acquire, Drop
  <2>4. status' \in [running : BOOLEAN, last_error : BOOLEAN]
    <3>1. CASE Acquire(j)
      <4>1. status' = [running |-> TRUE, last_error |-> FALSE]
        BY <3>1 DEF Acquire
      <4> QED BY <4>1, StatusType
    <3>2. CASE Drop(j)
      BY <3>2 DEF Drop
    <3> QED BY <1>5, <3>1, <3>2
  <2> QED BY <1>2, <1>5, <2>2, <2>3, <2>4 DEF Acquire, Drop
<1>6. ASSUME NEW j \in Jobs, Complete(j) \/ Abort(j) PROVE TypeOK'
  <2>1. phase' \in [Jobs -> Phase]
    BY <1>6 DEF Complete, Abort
  <2>2. lock' \in BOOLEAN
    BY <1>6, Zenon DEF Complete, Abort, Unlocked
  <2>3. status' \in [running : BOOLEAN, last_error : BOOLEAN]
    <3>1. CASE Complete(j)
      <4>1. status' = [running |-> FALSE, last_error |-> FALSE]
        BY <3>1 DEF Complete
      <4> QED BY <4>1, StatusType
    <3>2. CASE Abort(j)
      <4>1. status' = [running |-> FALSE, last_error |-> TRUE]
        BY <3>2 DEF Abort, ErrorKept
      <4> QED BY <4>1, StatusType
    <3> QED BY <1>6, <3>1, <3>2
  <2> QED BY <1>2, <1>6, <2>1, <2>2, <2>3 DEF Complete, Abort
<1>7. ASSUME NEW j \in Jobs, ReadWithoutWay(j) PROVE TypeOK'
  <2>1. [net EXCEPT ![op[j].way] = NoWay] \in Network
    BY DEF Network
  <2> QED BY <1>2, <1>7, <2>1 DEF ReadWithoutWay
<1>8. ASSUME NEW j \in Jobs, MergeWay(j) PROVE TypeOK'
  <2>1. [net EXCEPT ![op[j].way] = j] \in Network
    BY DEF Network
  <2> QED BY <1>2, <1>8, <2>1 DEF MergeWay
<1>9. ASSUME NEW j \in Jobs, Convert(j) PROVE TypeOK'
  BY <1>2, <1>9 DEF Convert, Register
<1>10. ASSUME NEW j \in Jobs, StartRewrite(j) PROVE TypeOK'
  BY <1>10 DEF StartRewrite, Store!EditBegin, Store!TypeOK, Store!Graph
<1>11. ASSUME NEW j \in Jobs, EndRewrite(j) PROVE TypeOK'
  <2>1. Store!TypeOK'
    BY <1>11 DEF EndRewrite, Store!EditEnd, Store!TypeOK, Store!Graph
  <2> QED BY <1>11, <2>1 DEF EndRewrite
<1>12. ASSUME NEW j \in Jobs, SendRebuild(j) PROVE TypeOK'
  <2>1. Store!TypeOK'
    BY <1>12 DEF SendRebuild, Store!Connect, Store!TypeOK, Store!Phase
  <2> QED BY <1>12, <2>1 DEF SendRebuild
<1>13. ASSUME NEW j \in Jobs, RebuildFailed(j) \/ RebuildTimesOut(j) \/ StepFails(j)
       PROVE TypeOK'
  BY <1>2, <1>13 DEF RebuildFailed, RebuildTimesOut, StepFails
<1>14. ASSUME NEW j \in Jobs, Server(j) PROVE TypeOK'
  <2> USE DEF Store!TypeOK, Store!Graph, Store!Phase
  <2>1. CASE Store!Begin(j) BY <1>1, <1>14, <2>1 DEF Server, Store!Begin
  <2>2. CASE Store!Refuse(j) BY <1>1, <1>14, <2>2 DEF Server, Store!Refuse
  <2>3. CASE Store!Publish(j)
    <3>1. src # NoSource
      BY <2>3 DEF Store!Publish, Serving
    <3> QED BY <1>1, <1>14, <2>3, <3>1 DEF Server, Store!Publish, Store!Built
  <2>4. CASE Store!Succeed(j) BY <1>1, <1>14, <2>4 DEF Server, Store!Succeed
  <2>5. CASE Store!Fail(j) BY <1>1, <1>14, <2>5 DEF Server, Store!Fail
  <2> QED BY <1>14, <2>1, <2>2, <2>3, <2>4, <2>5 DEF Server, Store!Serve
<1>15. CASE ApiRestart
  <2>1. phase' \in [Jobs -> Phase]
    BY <1>15 DEF ApiRestart
  <2>2. lock' \in BOOLEAN
    BY <1>15, Zenon DEF ApiRestart
  <2>3. status' = [running |-> FALSE, last_error |-> FALSE]
    BY <1>15 DEF ApiRestart
  <2>4. status' \in [running : BOOLEAN, last_error : BOOLEAN]
    BY <2>3, StatusType
  <2> QED BY <1>2, <1>15, <2>1, <2>2, <2>4 DEF ApiRestart
<1>16. CASE UNCHANGED vars BY <1>1, <1>2, <1>16 DEF vars
<1> QED
  BY <1>4, <1>5, <1>6, <1>7, <1>8, <1>9, <1>10, <1>11, <1>12, <1>13, <1>14, <1>15, <1>16
  DEF Next, JobStep

-----------------------------------------------------------------------------
\* A job that works goes from one of its steps to another.
LEMMA KeepsWorking ==
    ASSUME TypeOK, Mutex, NEW j \in Jobs, phase[j] \in Active,
           NEW p \in Active, Goto(j, p), UNCHANGED <<lock, status>>
    PROVE  Mutex'
BY DEF Mutex, TypeOK, Goto

\* Every step keeps the lock held by the one job that works.
LEMMA NextMutex == ASSUME IInv, [Next]_vars PROVE Mutex'
<1> USE DEF IInv
<1>1. ASSUME NEW j \in Jobs, Submit(j) PROVE Mutex'
  <2>1. PICK kind, w : Accept(j, kind, w)
    BY <1>1 DEF Submit, AddWay, UpdateWay, DeleteWay, RebuildTiles
  <2> QED BY <2>1 DEF Accept, Mutex, TypeOK, Goto, Active
<1>2. ASSUME NEW j \in Jobs, Acquire(j) PROVE Mutex'
  <2>1. FirstStep(j) \in Active BY DEF FirstStep, Active
  <2>2. ~lock BY <1>2 DEF Acquire, LockFree
  <2>3. \A k \in Jobs : phase[k] \notin Active BY <2>2 DEF Mutex
  <2>4. \A k \in Jobs : phase'[k] \in Active <=> k = j
    BY <1>2, <2>1, <2>3 DEF Acquire, Goto, TypeOK
  <2>5. lock' /\ status'.running BY <1>2 DEF Acquire
  <2> QED BY <2>4, <2>5 DEF Mutex
<1>3. ASSUME NEW j \in Jobs, Drop(j) PROVE Mutex'
  BY <1>3 DEF Drop, Mutex, TypeOK, Goto, Active
<1>4. ASSUME NEW j \in Jobs, Complete(j) \/ Abort(j) PROVE Mutex'
  <2>1. phase[j] \in Active BY <1>4 DEF Complete, Abort, Active
  <2>2. \A k \in Jobs : phase'[k] \notin Active
    BY <1>4, <2>1 DEF Complete, Abort, Goto, Active, Mutex, TypeOK
  <2>3. lock' = FALSE BY <1>4 DEF Complete, Abort, Unlocked
  <2>4. status'.running = FALSE BY <1>4 DEF Complete, Abort, Idle, ErrorKept
  <2> QED BY <2>2, <2>3, <2>4 DEF Mutex
<1>5. ASSUME NEW j \in Jobs,
             ReadWithoutWay(j) \/ Convert(j) \/ MergeWay(j) \/ StartRewrite(j)
               \/ EndRewrite(j) \/ SendRebuild(j) \/ RebuildFailed(j)
               \/ RebuildTimesOut(j) \/ StepFails(j)
      PROVE Mutex'
  <2>1. phase[j] \in Active
    BY <1>5 DEF ReadWithoutWay, Convert, MergeWay, StartRewrite, EndRewrite, SendRebuild,
                RebuildFailed, RebuildTimesOut, StepFails, Active
  <2>2. UNCHANGED <<lock, status>>
    BY <1>5 DEF ReadWithoutWay, Convert, MergeWay, StartRewrite, EndRewrite, SendRebuild,
                RebuildFailed, RebuildTimesOut, StepFails
  <2>3. \E p \in Active : Goto(j, p)
    BY <1>5 DEF ReadWithoutWay, Convert, MergeWay, StartRewrite, EndRewrite, SendRebuild,
                RebuildFailed, RebuildTimesOut, StepFails, Active
  <2> QED BY <2>1, <2>2, <2>3, KeepsWorking
<1>6. ASSUME NEW j \in Jobs, Server(j) PROVE Mutex'
  BY <1>6 DEF Server, Mutex
<1>7. CASE ApiRestart
  <2>1. \A k \in Jobs : phase'[k] \notin Active
    BY <1>7 DEF ApiRestart, Active, TypeOK, Phase
  <2> QED BY <1>7, <2>1 DEF ApiRestart, Mutex, Idle
<1>8. CASE UNCHANGED vars BY <1>8 DEF vars, Mutex
<1> QED BY <1>1, <1>2, <1>3, <1>4, <1>5, <1>6, <1>7, <1>8 DEF Next, JobStep

\* Every step keeps the drafts up to date with the network.
LEMMA NextDrafts == ASSUME IInv, [Next]_vars PROVE Drafts'
<1> USE DEF IInv, Drafts, Active, Goto, TypeOK, Network
<1>1. ASSUME NEW j \in Jobs, Submit(j) PROVE Drafts'
  <2>1. PICK kind, w : Accept(j, kind, w)
    BY <1>1 DEF Submit, AddWay, UpdateWay, DeleteWay, RebuildTiles
  <2> QED BY <2>1 DEF Accept
<1>2. ASSUME NEW j \in Jobs, Acquire(j) PROVE Drafts' BY <1>2 DEF Acquire, FirstStep
<1>3. ASSUME NEW j \in Jobs, Drop(j) PROVE Drafts' BY <1>3 DEF Drop
<1>4. ASSUME NEW j \in Jobs, Complete(j) PROVE Drafts' BY <1>4 DEF Complete
<1>5. ASSUME NEW j \in Jobs, Abort(j) PROVE Drafts' BY <1>5 DEF Abort
<1>6. ASSUME NEW j \in Jobs, ReadWithoutWay(j) PROVE Drafts' BY <1>6 DEF ReadWithoutWay
<1>7. ASSUME NEW j \in Jobs, Convert(j) PROVE Drafts' BY <1>7 DEF Convert, Register
<1>8. ASSUME NEW j \in Jobs, MergeWay(j) PROVE Drafts' BY <1>8 DEF MergeWay
<1>9. ASSUME NEW j \in Jobs, StartRewrite(j) PROVE Drafts'
  BY <1>9 DEF StartRewrite, Store!EditBegin
<1>10. ASSUME NEW j \in Jobs, EndRewrite(j) PROVE Drafts'
  <2>1. \A k \in Jobs : phase[k] \in Active => k = j
    BY <1>10 DEF EndRewrite, Mutex
  <2>2. \A k \in Jobs : phase'[k] \notin
           {"merge", "rewrite1", "writing1", "rewrite2", "writing2"}
    BY <1>10, <2>1 DEF EndRewrite
  <2>3. \A w \in Ways \ Anonymous : net'[w] # NoWay => w \in registered'
    BY <1>10 DEF EndRewrite
  <2> QED BY <2>2, <2>3
<1>11. ASSUME NEW j \in Jobs, SendRebuild(j) PROVE Drafts'
  BY <1>11 DEF SendRebuild, Store!Connect
<1>12. ASSUME NEW j \in Jobs, RebuildFailed(j) \/ RebuildTimesOut(j) \/ StepFails(j)
       PROVE Drafts'
  BY <1>12 DEF RebuildFailed, RebuildTimesOut, StepFails
<1>13. ASSUME NEW j \in Jobs, Server(j) PROVE Drafts'
  BY <1>13 DEF Server
<1>14. CASE ApiRestart BY <1>14 DEF ApiRestart
<1>15. CASE UNCHANGED vars BY <1>15 DEF vars
<1> QED
  BY <1>1, <1>2, <1>3, <1>4, <1>5, <1>6, <1>7, <1>8, <1>9, <1>10, <1>11, <1>12, <1>13,
     <1>14, <1>15 DEF Next, JobStep

\* Every step keeps what is known of requests, builds and their outcome.
LEMMA NextServing ==
    ASSUME IInv, [Next]_vars PROVE Serving' /\ Waiting' /\ Current' /\ Clean'
<1> DEFINE Outcome == Serving /\ Waiting /\ Current /\ Clean
<1> USE DEF IInv, TypeOK, Serving, Waiting, Current, Clean, Goto
<1>0. SUFFICES Outcome'
  OBVIOUS
<1> USE BoundsAssumption, MarkersAssumption DEF Store!TypeOK, Store!Graph, Store!Phase,
        storeVars, countVars
<1>1. ASSUME NEW j \in Jobs, Submit(j) PROVE Outcome'
  <2>1. PICK kind, w : Accept(j, kind, w)
    BY <1>1 DEF Submit, AddWay, UpdateWay, DeleteWay, RebuildTiles
  <2> QED BY <2>1 DEF Accept
<1>2. ASSUME NEW j \in Jobs, Acquire(j) PROVE Outcome'
  BY <1>2 DEF Acquire, FirstStep
<1>3. ASSUME NEW j \in Jobs, Drop(j) PROVE Outcome' BY <1>3 DEF Drop
<1>4. ASSUME NEW j \in Jobs, Complete(j) PROVE Outcome'
  BY <1>4 DEF Complete, Answered, Idle
<1>5. ASSUME NEW j \in Jobs, Abort(j) PROVE Outcome'
  <2>1. ~(status'.running) /\ status'.last_error
    BY <1>5 DEF Abort, ErrorKept
  <2> QED BY <1>5, <2>1 DEF Abort
<1>6. ASSUME NEW j \in Jobs, ReadWithoutWay(j) \/ Convert(j) \/ MergeWay(j)
      PROVE Outcome'
  BY <1>6 DEF ReadWithoutWay, Convert, MergeWay
<1>7. ASSUME NEW j \in Jobs, StartRewrite(j) PROVE Outcome'
  <2>1. \A k \in Jobs : phase[k] \in Active => k = j
    BY <1>7 DEF StartRewrite, Mutex, Active
  <2>2. \A k \in Jobs : phase[k] # "wait" /\ phase'[k] # "wait"
    BY <1>7, <2>1 DEF StartRewrite, Active
  <2>3. status.running /\ status' = status
    BY <1>7 DEF StartRewrite, Mutex, Active
  <2>4. timeouts = 0 /\ fails = 0 /\ crashes = 0 => src = NoSource /\ src' = NoSource
    BY <1>7, <2>2 DEF StartRewrite, Store!EditBegin
  <2> QED BY <1>7, <2>2, <2>3, <2>4 DEF StartRewrite, Store!EditBegin
<1>8. ASSUME NEW j \in Jobs, EndRewrite(j) PROVE Outcome'
  <2>1. \A k \in Jobs : phase[k] \in Active => k = j
    BY <1>8 DEF EndRewrite, Mutex, Active
  <2>2. \A k \in Jobs : phase[k] # "wait" /\ phase'[k] # "wait"
    BY <1>8, <2>1 DEF EndRewrite, Active
  <2>3. status.running /\ status' = status
    BY <1>8 DEF EndRewrite, Mutex, Active
  <2>4. pbf' # Torn /\ UNCHANGED <<src, graph, answer>>
    <3>1. Torn \notin Nat OBVIOUS
    <3>2. pbf' \in Nat BY <1>8 DEF EndRewrite, Store!EditEnd
    <3> QED BY <1>8, <3>1, <3>2 DEF EndRewrite, Store!EditEnd
  <2>5. \A k \in Jobs : answer[k] \in {"queued", "running", "published"}
                        => timeouts + fails + crashes # 0
    BY <2>2
  <2>6. Serving' /\ Waiting' BY <2>2, <2>4
  <2>7. Current' BY <2>3
  <2>8. UNCHANGED countVars BY <1>8 DEF EndRewrite
  <2>9. Clean' BY <2>2, <2>4, <2>5, <2>8
  <2> QED BY <2>6, <2>7, <2>9
<1>9. ASSUME NEW j \in Jobs, SendRebuild(j) PROVE Outcome'
  BY <1>9 DEF SendRebuild, Store!Connect
<1>10. ASSUME NEW j \in Jobs, RebuildFailed(j) \/ RebuildTimesOut(j) PROVE Outcome'
  BY <1>10 DEF RebuildFailed, RebuildTimesOut
<1>11. ASSUME NEW j \in Jobs, StepFails(j) PROVE Outcome'
  BY <1>11 DEF StepFails
<1>12. ASSUME NEW j \in Jobs, Server(j) PROVE Outcome'
  <2> USE DEF Server
  <2>1. CASE Store!Begin(j)
    <3>1. timeouts = 0 /\ fails = 0 /\ crashes = 0 => pbf # Torn
      BY <2>1 DEF Store!Begin, Mutex, Active
    <3> QED BY <1>12, <2>1, <3>1 DEF Store!Begin, Store!Busy
  <2>2. CASE Store!Refuse(j) BY <1>12, <2>2 DEF Store!Refuse
  <2>3. CASE Store!Publish(j) BY <1>12, <2>3 DEF Store!Publish, Store!Built
  <2>4. CASE Store!Succeed(j) BY <1>12, <2>4 DEF Store!Succeed
  <2>5. CASE Store!Fail(j) BY <1>12, <2>5 DEF Store!Fail
  <2> QED BY <1>12, <2>1, <2>2, <2>3, <2>4, <2>5 DEF Store!Serve
<1>13. CASE ApiRestart BY <1>13 DEF ApiRestart, Active
<1>14. CASE UNCHANGED vars BY <1>14 DEF vars
<1> QED
  BY <1>1, <1>2, <1>3, <1>4, <1>5, <1>6, <1>7, <1>8, <1>9, <1>10, <1>11, <1>12, <1>13,
     <1>14 DEF Next, JobStep

-----------------------------------------------------------------------------
LEMMA IInvHolds == Spec => []IInv
<1>1. IInv /\ [Next]_vars => IInv'
  BY NextTypeOK, NextMutex, NextDrafts, NextServing DEF IInv
<1> QED BY InitIInv, <1>1, PTL DEF Spec

\* The model is well typed: phases, drafts and the store's state keep their sets.
THEOREM TypeCorrect == Spec => []TypeOK
<1>1. IInv => TypeOK BY DEF IInv
<1> QED BY <1>1, IInvHolds, PTL

\* _rebuild_lock keeps any number of job threads apart.
THEOREM JobsExclude == Spec => []OneJob
<1>1. IInv => OneJob BY DEF IInv, Mutex, OneJob
<1> QED BY <1>1, IInvHolds, PTL

\* The lock is never left behind by a finished, failed or lost job.
THEOREM LockReleased == Spec => []LockHasOwner
<1>1. IInv => LockHasOwner BY DEF IInv, Mutex, LockHasOwner, Running
<1> QED BY <1>1, IInvHolds, PTL

\* Every way in the network PBF that has an OBJECTID can be looked up, updated and
\* deleted.
THEOREM RegistryCovers == Spec => []RegistryCoversNetwork
<1>1. IInv => RegistryCoversNetwork BY DEF IInv, Drafts, RegistryCoversNetwork
<1> QED BY <1>1, IInvHolds, PTL

\* "Tiles up to date" is true as long as the api process has not restarted.
THEOREM UpToDateIsTrue == Spec => []UpToDateMeansCurrent
<1>1. IInv => UpToDateMeansCurrent
  BY DEF IInv, Current, UpToDateMeansCurrent, UpToDate
<1> QED BY <1>1, IInvHolds, PTL

\* The lock keeps builds and rewrites of the PBF apart as long as nothing fails.
THEOREM BuildsReadWhole == Spec => []BuildsReadWholeNetwork
<1>1. IInv => BuildsReadWholeNetwork
  BY DEF IInv, TypeOK, Clean, BuildsReadWholeNetwork
<1> QED BY <1>1, IInvHolds, PTL

\* A rewrite of the PBF changes only the way of the job that makes it.
THEOREM NoUpdateLost == Spec => NoLostUpdate
<1> DEFINE Rewrites == \A w \in Ways : net'[w] # net[w] =>
                  \E j \in Jobs : /\ phase[j] \in {"writing1", "writing2"}
                                 /\ phase'[j] # phase[j]
                                 /\ op[j].way = w
<1>1. IInv /\ [Next]_vars => [Rewrites]_vars
  <2> SUFFICES ASSUME IInv, [Next]_vars, NEW w \in Ways, net'[w] # net[w]
               PROVE  \E j \in Jobs : /\ phase[j] \in {"writing1", "writing2"}
                                     /\ phase'[j] # phase[j]
                                     /\ op[j].way = w
    OBVIOUS
  <2>1. PICK j \in Jobs : EndRewrite(j)
    BY DEF Next, Submit, AddWay, UpdateWay, DeleteWay, RebuildTiles, Accept, JobStep,
           Acquire, Drop, Complete, Abort, ReadWithoutWay, Convert, MergeWay,
           StartRewrite, SendRebuild, RebuildFailed, RebuildTimesOut, StepFails,
           Server, ApiRestart, vars
  <2>2. phase[j] \in {"writing1", "writing2"} /\ phase'[j] # phase[j]
    BY <2>1 DEF EndRewrite, Goto, IInv, TypeOK
  <2>3. op[j].way = w
    BY <2>1 DEF EndRewrite, IInv, Drafts
  <2> QED BY <2>2, <2>3
<1> QED BY <1>1, IInvHolds, PTL DEF Spec, NoLostUpdate

\* A job that completes has had the PBF on disk built and served, whatever other
\* requests are queued at the rebuild server.
THEOREM DoneIsServed == Spec => DoneMeansServed
<1> DEFINE Serves == \A j \in Jobs : phase[j] # "done" /\ phase'[j] = "done"
                                        => graph = pbf
<1>1. IInv /\ [Next]_vars => [Serves]_vars
  <2> SUFFICES ASSUME IInv, [Next]_vars, NEW j \in Jobs,
                      phase[j] # "done", phase'[j] = "done"
               PROVE  graph = pbf
    OBVIOUS
  <2>1. Complete(j)
    BY DEF Next, Submit, AddWay, UpdateWay, DeleteWay, RebuildTiles, Accept, JobStep,
           Acquire, FirstStep, Drop, Complete, Abort, ReadWithoutWay, Convert, MergeWay,
           StartRewrite, EndRewrite, SendRebuild, RebuildFailed, RebuildTimesOut,
           StepFails, Server, ApiRestart, vars, Goto, IInv, TypeOK
  <2> QED BY <2>1 DEF Complete, Answered, IInv, Waiting
<1> QED BY <1>1, IInvHolds, PTL DEF Spec, DoneMeansServed

-----------------------------------------------------------------------------
(* What the guards of TileStore leave to the jobs.                          *)

\* One more job, or at least no fewer, past a rewrite.
LEMMA PastGrows ==
    ASSUME IsFiniteSet(Jobs), NEW S \in SUBSET Jobs, NEW T \in SUBSET Jobs, S \subseteq T
    PROVE  /\ Cardinality(S) \in Nat /\ Cardinality(T) \in Nat
           /\ Cardinality(S) <= Cardinality(T)
           /\ \A j \in T \ S : Cardinality(S) + 1 <= Cardinality(T)
<1>1. IsFiniteSet(S) /\ IsFiniteSet(T)
  BY FS_Subset
<1>2. Cardinality(S) \in Nat /\ Cardinality(T) \in Nat
  BY <1>1, FS_CardinalityType
<1>3. Cardinality(S) <= Cardinality(T)
  BY <1>1, FS_Subset
<1>4. ASSUME NEW j \in T \ S PROVE Cardinality(S) + 1 <= Cardinality(T)
  <2>1. Cardinality(S \cup {j}) = Cardinality(S) + 1
    BY <1>1, FS_AddElement
  <2>2. Cardinality(S \cup {j}) <= Cardinality(T)
    BY <1>1, FS_Subset
  <2> QED BY <2>1, <2>2
<1> QED BY <1>2, <1>3, <1>4

\* A job that ends a rewrite is past one more of them.
LEMMA NextBudget ==
    ASSUME IsFiniteSet(Jobs), IInv, Budget, [Next]_vars
    PROVE  Budget'
<1>1. Past1 \in SUBSET Jobs /\ Past1' \in SUBSET Jobs /\ Past2 \in SUBSET Jobs /\ Past2' \in SUBSET Jobs
  BY DEF Past1, Past2
<1>2. edits \in Nat /\ phase \in [Jobs -> Phase]
  BY DEF IInv, TypeOK, Store!TypeOK
<1>3. ASSUME NEW j \in Jobs, EndRewrite(j) PROVE Budget'
  <2>1. edits' = edits + 1
    BY <1>3 DEF EndRewrite, Store!EditEnd
  <2>2. CASE phase[j] = "writing1"
    <3>1. Past1 \subseteq Past1' /\ j \in Past1' \ Past1 /\ Past2 \subseteq Past2'
      BY <1>2, <1>3, <2>2
         DEF EndRewrite, Goto, Past1, Past2, ToRewrite1, ToRewrite2
    <3> QED BY <1>1, <1>2, <2>1, <3>1, PastGrows DEF Budget
  <2>3. CASE phase[j] = "writing2"
    <3>1. Past1 \subseteq Past1' /\ j \in Past2' \ Past2 /\ Past2 \subseteq Past2'
      BY <1>2, <1>3, <2>3
         DEF EndRewrite, Goto, Past1, Past2, ToRewrite1, ToRewrite2
    <3> QED BY <1>1, <1>2, <2>1, <3>1, PastGrows DEF Budget
  <2> QED BY <1>3, <2>2, <2>3 DEF EndRewrite
<1>4. CASE ~ \E j \in Jobs : EndRewrite(j)
  <2>1. edits' = edits
    BY <1>4
       DEF Next, Submit, AddWay, UpdateWay, DeleteWay, RebuildTiles, Accept, JobStep,
           Acquire, Drop, Complete, Abort, ReadWithoutWay, Convert, MergeWay,
           StartRewrite, SendRebuild, RebuildFailed, RebuildTimesOut, StepFails,
           Server, ApiRestart, vars, storeVars, Store!EditBegin, Store!Connect,
           Store!Serve, Store!Begin, Store!Refuse, Store!Publish, Store!Succeed, Store!Fail
  <2>2. Past1 \subseteq Past1' /\ Past2 \subseteq Past2'
    BY <1>2, <1>4
       DEF Next, Submit, AddWay, UpdateWay, DeleteWay, RebuildTiles, Accept, JobStep,
           Acquire, FirstStep, Drop, Complete, Abort, ReadWithoutWay, Convert, MergeWay,
           StartRewrite, SendRebuild, RebuildFailed, RebuildTimesOut, StepFails,
           Server, ApiRestart, vars, Goto, Active, Past1, Past2, ToRewrite1, ToRewrite2
  <2> QED BY <1>1, <1>2, <2>1, <2>2, PastGrows DEF Budget
<1> QED BY <1>3, <1>4

\* The PBF is whole when a job begins to rewrite it and torn while it does so; a job
\* asks for a rebuild once.
LEMMA NextReady ==
    ASSUME IsFiniteSet(Jobs), IInv, Ready, [Next]_vars
    PROVE  Ready'
<1>1. Budget'
  BY NextBudget DEF Ready
<1>2. phase \in [Jobs -> Phase] /\ answer \in [Jobs -> Store!Phase]
  BY DEF IInv, TypeOK, Store!TypeOK
<1>3. /\ \A j \in Jobs : /\ phase[j] \in {"rewrite1", "rewrite2"} => pbf # Torn
                         /\ phase[j] \in {"writing1", "writing2"} => pbf = Torn
                         /\ phase[j] \in ToRewrite2 \cup {"send"} => answer[j] = "unsent"
      /\ \A j, k \in Jobs : phase[j] \in Active /\ phase[k] \in Active => j = k
  BY DEF Ready, IInv, Mutex
<1> DEFINE Able(j) == /\ phase[j] \in {"rewrite1", "rewrite2"} => pbf # Torn
                      /\ phase[j] \in {"writing1", "writing2"} => pbf = Torn
                      /\ phase[j] \in ToRewrite2 \cup {"send"} => answer[j] = "unsent"
<1> SUFFICES ASSUME NEW k \in Jobs PROVE Able(k)'
  BY <1>1 DEF Ready
<1>4. ASSUME NEW j \in Jobs, Submit(j) PROVE Able(k)'
  <2>1. PICK kind, w : Accept(j, kind, w)
    BY <1>4 DEF Submit, AddWay, UpdateWay, DeleteWay, RebuildTiles
  <2> QED BY <1>2, <1>3, <2>1 DEF Accept, Goto, storeVars, ToRewrite1, ToRewrite2
<1>5. ASSUME NEW j \in Jobs, Acquire(j) \/ Drop(j) PROVE Able(k)'
  BY <1>2, <1>3, <1>5
     DEF Acquire, FirstStep, Drop, Goto, storeVars, ToRewrite1, ToRewrite2
<1>6. ASSUME NEW j \in Jobs, Complete(j) \/ Abort(j) PROVE Able(k)'
  BY <1>2, <1>3, <1>6 DEF Complete, Abort, Goto, storeVars, ToRewrite1, ToRewrite2
<1>7. ASSUME NEW j \in Jobs, ReadWithoutWay(j) \/ Convert(j) \/ MergeWay(j) PROVE Able(k)'
  BY <1>2, <1>3, <1>7
     DEF ReadWithoutWay, Convert, MergeWay, Goto, storeVars, ToRewrite1, ToRewrite2
<1>8. ASSUME NEW j \in Jobs, StartRewrite(j) PROVE Able(k)'
  <2>1. phase[k] \in Active => k = j
    BY <1>3, <1>8 DEF StartRewrite, Active
  <2> QED
    BY <1>2, <1>3, <1>8, <2>1
       DEF StartRewrite, Store!EditBegin, Goto, Active, ToRewrite1, ToRewrite2
<1>9. ASSUME NEW j \in Jobs, EndRewrite(j) PROVE Able(k)'
  <2>1. phase[k] \in Active => k = j
    BY <1>3, <1>9 DEF EndRewrite, Active
  <2>2. pbf' # Torn
    <3>1. edits \in Nat /\ pbf' = edits + 1
      BY <1>9 DEF EndRewrite, Store!EditEnd, IInv, TypeOK, Store!TypeOK
    <3>2. Torn \notin Nat
      BY MarkersAssumption
    <3> QED BY <3>1, <3>2
  <2> QED
    BY <1>2, <1>3, <1>9, <2>1, <2>2
       DEF EndRewrite, Store!EditEnd, Goto, Active, ToRewrite1, ToRewrite2
<1>10. ASSUME NEW j \in Jobs, SendRebuild(j) PROVE Able(k)'
  BY <1>2, <1>3, <1>10 DEF SendRebuild, Store!Connect, Goto, ToRewrite1, ToRewrite2
<1>11. ASSUME NEW j \in Jobs, RebuildFailed(j) \/ RebuildTimesOut(j) \/ StepFails(j)
       PROVE  Able(k)'
  BY <1>2, <1>3, <1>11
     DEF RebuildFailed, RebuildTimesOut, StepFails, Goto, storeVars, ToRewrite1, ToRewrite2
<1>12. ASSUME NEW j \in Jobs, Server(j) PROVE Able(k)'
  <2>1. answer[j] # "unsent" /\ pbf' = pbf /\ answer' = [answer EXCEPT ![j] = answer'[j]]
    BY <1>2, <1>12
       DEF Server, Store!Serve, Store!Begin, Store!Refuse, Store!Publish, Store!Succeed,
           Store!Fail
  <2> QED BY <1>2, <1>3, <1>12, <2>1 DEF Server
<1>13. CASE ApiRestart
  BY <1>2, <1>3, <1>13 DEF ApiRestart, Active, storeVars, ToRewrite1, ToRewrite2
<1>14. CASE UNCHANGED vars
  BY <1>3, <1>14 DEF vars
<1> QED
  BY <1>4, <1>5, <1>6, <1>7, <1>8, <1>9, <1>10, <1>11, <1>12, <1>13, <1>14
     DEF Next, JobStep

\* tile_reloading.py and way_crud_service.py against the promise of the rebuild
\* server: nothing a job does waits for the server, but for the answer. What the
\* actions of TileStore are guarded by, its bound on rewrites included, holds
\* whenever a job gets to them.
THEOREM JobsAreNotBarred == ASSUME IsFiniteSet(Jobs) PROVE Spec => []NeverBarred
<1>1. Init => Ready
  <2> SUFFICES ASSUME Init PROVE Ready
    OBVIOUS
  <2>1. Past1 = {} /\ Past2 = {}
    BY DEF Init, Past1, Past2, ToRewrite1, ToRewrite2
  <2>2. Budget
    BY <2>1, FS_EmptySet DEF Init, Store!Init, Budget
  <2> QED BY <2>2 DEF Init, Store!Init, Ready, ToRewrite1, ToRewrite2
<1>2. IInv /\ Ready /\ [Next]_vars => Ready'
  BY NextReady
<1>3. IInv /\ Ready => NeverBarred
  <2> SUFFICES ASSUME IInv, Ready, NEW j \in Jobs, phase[j] \in {"rewrite1", "rewrite2"}
               PROVE  edits < 2 * Cardinality(Jobs)
    BY DEF Ready, NeverBarred, ToRewrite1, ToRewrite2
  <2>1. Past1 \in SUBSET Jobs /\ Past2 \in SUBSET Jobs /\ j \in Jobs \ Past2
    BY DEF Past1, Past2, ToRewrite1, ToRewrite2
  <2>2. /\ Cardinality(Past1) <= Cardinality(Jobs)
        /\ Cardinality(Past2) + 1 <= Cardinality(Jobs)
        /\ Cardinality(Past1) \in Nat /\ Cardinality(Past2) \in Nat /\ Cardinality(Jobs) \in Nat
    BY <2>1, PastGrows
  <2> QED BY <2>2 DEF Ready, Budget, IInv, TypeOK, Store!TypeOK
<1> QED BY <1>1, <1>2, <1>3, IInvHolds, PTL DEF Spec
=============================================================================

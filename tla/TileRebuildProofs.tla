-------------------------- MODULE TileRebuildProofs --------------------------
(***************************************************************************)
(* Safety of the valhalla container, for any number of requests, edits,     *)
(* process exits, stops and file system errors. None of the properties of   *)
(* TileRebuild is inductive: a complete tile set is never lost because of   *)
(* what the directories hold at each step of the swap (Directories), one    *)
(* process runs because of what the main thread has done to it (Processes), *)
(* the cache follows the live tiles because a swap that succeeded always    *)
(* goes on to a restart (Caches).                                           *)
(***************************************************************************)
EXTENDS TileRebuild, TLAPS

\* What each step of build_and_swap may rely on.
Directories ==
    /\ pc = "build" <=> src # NoSource
    /\ pc \in {"retire", "install"} => staging \in Graph
    /\ tiles # Partial
    /\ tiles = Absent => old \in Graph
    /\ pc = "install" => tiles = Absent
    /\ pc = "purge" \/ outcome = "ok" => tiles # Absent /\ staging = Absent

\* How many processes there are at each step of restart_valhalla.
Processes ==
    /\ alive <= 1
    /\ pc \in {"spawn", "down"} => alive = 0

\* Which result the main thread carries to the answer.
Outcomes ==
    /\ pc = "except" => outcome = "failed"
    /\ pc \in {"cleanup", "reply"} => outcome \in {"ok", "failed"}
    /\ pc \in {"restart", "spawn"} => outcome = "ok"
    /\ pc \notin {"except", "cleanup", "reply", "restart", "spawn"} => outcome = "none"

\* While no file system has failed, the service only knows the live tiles, except
\* from the moment the swap begins to the restart that ends it.
Caches ==
    faults = 0 =>
        /\ pc # "install" /\ pc # "down" => tiles # Absent
        /\ pc \in {"idle", "build", "retire", "except", "reply"} => cache \subseteq {tiles}
        /\ pc = "cleanup" /\ outcome = "failed" => cache \subseteq {tiles}
        /\ pc = "down" => cache = {}

\* The server is single-threaded: a request is running exactly while the main
\* thread is on its way from do_POST to the answer, and it is the only one; a
\* stopped container has dropped its backlog.
Serving ==
    /\ \A r, s \in Requests : req[r] = "running" /\ req[s] = "running" => r = s
    /\ (\E r \in Requests : req[r] = "running") <=> pc \notin {"idle", "down"}
    /\ pc = "down" => \A r \in Requests : req[r] # "queued"

AtLeast(version, r) == version \in Nat => asked[r] <= version

\* A request that saw version v of the network when it was sent is served with a
\* network, then a staged and then a live tile set not older than v.
Freshness ==
    /\ pbf \in Nat => pbf <= edits
    /\ \A r \in Requests : asked[r] \in Nat =>
          /\ req[r] \in {"queued", "running"} => asked[r] <= edits /\ AtLeast(pbf, r)
          /\ req[r] = "running" =>
                /\ pc = "build" => AtLeast(src, r)
                /\ pc \in {"retire", "install"} => AtLeast(staging, r)
                /\ pc \in {"purge", "restart", "spawn"} \/ outcome = "ok"
                      => AtLeast(tiles, r)

IInv == TypeOK /\ Directories /\ Processes /\ Outcomes /\ Caches /\ Serving /\ Freshness

-----------------------------------------------------------------------------
\* The bootstrapped container satisfies the inductive invariant.
LEMMA InitIInv == Init => IInv
BY MarkersAssumption
   DEF Init, IInv, TypeOK, Directories, Processes, Outcomes, Caches, Serving,
       Freshness, AtLeast, Content, Graph, Label, Fate

\* Every step keeps the types.
LEMMA NextTypeOK == ASSUME IInv, [Next]_vars PROVE TypeOK'
<1> USE DEF IInv, TypeOK, Content, Graph, Label, Fate, netVars, dirVars, procVars, countVars
<1>1. CASE EditBegin BY <1>1 DEF EditBegin
<1>2. CASE EditEnd BY <1>2 DEF EditEnd
<1>3. ASSUME NEW r \in Requests, Connect(r) PROVE TypeOK' BY <1>3 DEF Connect
<1>4. ASSUME NEW r \in Requests, BeginRebuild(r) PROVE TypeOK' BY <1>4 DEF BeginRebuild
<1>5. CASE BuildTiles BY <1>5 DEF BuildTiles, Directories
<1>6. CASE BuildFails BY <1>6 DEF BuildFails
<1>7. CASE RetireLive BY <1>7 DEF RetireLive, SetAside
<1>8. CASE RetireBlocked BY <1>8 DEF RetireBlocked
<1>9. CASE InstallStaging BY <1>9 DEF InstallStaging
<1>10. CASE PurgeOld BY <1>10 DEF PurgeOld
<1>11. CASE SwapFault BY <1>11 DEF SwapFault
<1>12. CASE RestoreOld BY <1>12 DEF RestoreOld
<1>13. CASE RemoveStaging BY <1>13 DEF RemoveStaging, AfterBuildAndSwap
<1>14. CASE StopValhalla BY <1>14 DEF StopValhalla, Reap
<1>15. CASE SpawnValhalla BY <1>15 DEF SpawnValhalla
<1>16. CASE Respond BY <1>16 DEF Respond, Finish, Outcomes
<1>17. CASE ServeRoute BY <1>17 DEF ServeRoute
<1>18. CASE ValhallaExits BY <1>18 DEF ValhallaExits
<1>19. CASE WatchValhalla BY <1>19 DEF WatchValhalla
<1>20. ASSUME Stop, staging' \in {Absent, Partial, staging}, old' \in {old, Partial}
       PROVE  TypeOK'
  BY <1>20 DEF Stop
<1>21. CASE HandleShutdown BY <1>20, <1>21 DEF HandleShutdown, HalfRemoved
<1>22. CASE Kill BY <1>20, <1>22 DEF Kill, HalfRemoved
<1>23. CASE ContainerStart BY <1>23 DEF ContainerStart
<1>24. ASSUME NEW r \in Requests, StagingFault(r) PROVE TypeOK' BY <1>24 DEF StagingFault
<1>25. CASE RestoreFault BY <1>25 DEF RestoreFault
<1>26. CASE CleanupFault BY <1>26 DEF CleanupFault, HalfRemoved
<1>27. CASE UNCHANGED vars BY <1>27 DEF vars
<1> QED
  BY <1>1, <1>2, <1>3, <1>4, <1>5, <1>6, <1>7, <1>8, <1>9, <1>10, <1>11, <1>12, <1>13,
     <1>14, <1>15, <1>16, <1>17, <1>18, <1>19, <1>21, <1>22, <1>23, <1>24, <1>25,
     <1>26, <1>27
  DEF Next, MainThread
\* Every step of the swap leaves the directories as the next one expects them.
LEMMA NextDirectories == ASSUME IInv, [Next]_vars PROVE Directories'
<1> USE MarkersAssumption DEF IInv, TypeOK, Directories, Graph, netVars, dirVars, procVars,
                              countVars
<1>1. CASE EditBegin BY <1>1 DEF EditBegin
<1>2. ASSUME NEW r \in Requests, BeginRebuild(r) \/ StagingFault(r) PROVE Directories'
  BY <1>2 DEF BeginRebuild, StagingFault
<1>3. CASE BuildTiles BY <1>3 DEF BuildTiles, Outcomes
<1>4. CASE BuildFails BY <1>4 DEF BuildFails
<1>5. CASE RetireLive BY <1>5 DEF RetireLive, SetAside, Content, Outcomes
<1>6. CASE RetireBlocked BY <1>6 DEF RetireBlocked
<1>7. CASE InstallStaging BY <1>7 DEF InstallStaging
<1>8. CASE PurgeOld BY <1>8 DEF PurgeOld
<1>9. CASE SwapFault BY <1>9 DEF SwapFault, Content
<1>10. CASE RestoreOld \/ RestoreFault
  BY <1>10 DEF RestoreOld, RestoreFault, MustRestore
<1>11. CASE RemoveStaging \/ CleanupFault
  BY <1>11 DEF RemoveStaging, CleanupFault, HalfRemoved, AfterBuildAndSwap
<1>12. CASE StopValhalla \/ SpawnValhalla \/ Respond
  BY <1>12 DEF StopValhalla, SpawnValhalla, Respond
<1>13. CASE HandleShutdown \/ Kill BY <1>13 DEF HandleShutdown, Kill, Stop
<1>14. CASE ContainerStart BY <1>14 DEF ContainerStart
<1>15. CASE UNCHANGED <<tiles, staging, old, src, pc, outcome>> BY <1>15
<1> QED
  BY <1>1, <1>2, <1>3, <1>4, <1>5, <1>6, <1>7, <1>8, <1>9, <1>10, <1>11, <1>12, <1>13,
     <1>14, <1>15
  DEF Next, MainThread, EditEnd, Connect, ServeRoute, ValhallaExits, WatchValhalla, vars

\* No step starts a second process, or a first one during a restart.
LEMMA NextProcesses == ASSUME IInv, [Next]_vars PROVE Processes'
<1> USE DEF IInv, TypeOK, Processes, netVars, dirVars, procVars, countVars
<1>1. ASSUME NEW r \in Requests, BeginRebuild(r) \/ StagingFault(r) PROVE Processes'
  BY <1>1 DEF BeginRebuild, StagingFault
<1>2. CASE BuildTiles \/ BuildFails \/ RetireLive \/ RetireBlocked \/ InstallStaging
           \/ PurgeOld \/ SwapFault \/ RestoreOld \/ RestoreFault
  BY <1>2 DEF BuildTiles, BuildFails, RetireLive, RetireBlocked, InstallStaging, PurgeOld,
              SwapFault, RestoreOld, RestoreFault
<1>3. CASE RemoveStaging \/ CleanupFault
  BY <1>3 DEF RemoveStaging, CleanupFault, AfterBuildAndSwap
<1>4. CASE StopValhalla BY <1>4 DEF StopValhalla, Reap
<1>5. CASE SpawnValhalla BY <1>5 DEF SpawnValhalla
<1>6. CASE Respond BY <1>6 DEF Respond
<1>7. CASE ValhallaExits BY <1>7 DEF ValhallaExits
<1>8. CASE WatchValhalla BY <1>8 DEF WatchValhalla, ValhallaLockHeld
<1>9. CASE Stop BY <1>9 DEF Stop
<1>10. CASE ContainerStart BY <1>10 DEF ContainerStart
<1>11. CASE UNCHANGED <<alive, pc>> BY <1>11
<1> QED
  BY <1>1, <1>2, <1>3, <1>4, <1>5, <1>6, <1>7, <1>8, <1>9, <1>10, <1>11
  DEF Next, MainThread, EditBegin, EditEnd, Connect, ServeRoute, HandleShutdown, Kill, vars

\* The result that run_rebuild will answer is set and reset where it should be.
LEMMA NextOutcomes == ASSUME IInv, [Next]_vars PROVE Outcomes'
<1> USE DEF IInv, TypeOK, Outcomes, netVars, dirVars, procVars, countVars
<1>1. ASSUME NEW r \in Requests, BeginRebuild(r) \/ StagingFault(r) PROVE Outcomes'
  BY <1>1 DEF BeginRebuild, StagingFault
<1>2. CASE BuildTiles \/ BuildFails \/ RetireLive \/ RetireBlocked \/ InstallStaging
           \/ PurgeOld \/ SwapFault \/ RestoreOld \/ RestoreFault
  BY <1>2 DEF BuildTiles, BuildFails, RetireLive, RetireBlocked, InstallStaging, PurgeOld,
              SwapFault, RestoreOld, RestoreFault
<1>3. CASE RemoveStaging \/ CleanupFault
  BY <1>3 DEF RemoveStaging, CleanupFault, AfterBuildAndSwap
<1>4. CASE StopValhalla \/ SpawnValhalla \/ Respond
  BY <1>4 DEF StopValhalla, SpawnValhalla, Respond
<1>5. CASE Stop BY <1>5 DEF Stop
<1>6. CASE ContainerStart BY <1>6 DEF ContainerStart
<1>7. CASE UNCHANGED <<outcome, pc>> BY <1>7
<1> QED
  BY <1>1, <1>2, <1>3, <1>4, <1>5, <1>6, <1>7
  DEF Next, MainThread, EditBegin, EditEnd, Connect, ServeRoute, ValhallaExits, WatchValhalla,
      HandleShutdown, Kill, vars

\* The cache only takes in live tiles, and a swap that succeeds empties it.
LEMMA NextCaches == ASSUME IInv, [Next]_vars PROVE Caches'
<1> USE DEF IInv, TypeOK, Caches, Outcomes, netVars, dirVars, procVars, countVars
<1>1. ASSUME NEW r \in Requests, BeginRebuild(r) \/ StagingFault(r) PROVE Caches'
  BY <1>1 DEF BeginRebuild, StagingFault
<1>2. CASE BuildTiles \/ BuildFails \/ RetireBlocked
  BY <1>2, MarkersAssumption DEF BuildTiles, BuildFails, RetireBlocked, Directories
<1>3. CASE RetireLive \/ InstallStaging \/ PurgeOld
  BY <1>3, MarkersAssumption DEF RetireLive, InstallStaging, PurgeOld, Directories, Graph
<1>4. CASE SwapFault \/ RestoreFault \/ CleanupFault
  BY <1>4 DEF SwapFault, RestoreFault, CleanupFault
<1>5. CASE RestoreOld BY <1>5 DEF RestoreOld, MustRestore
<1>6. CASE RemoveStaging BY <1>6 DEF RemoveStaging, AfterBuildAndSwap
<1>7. CASE StopValhalla \/ SpawnValhalla BY <1>7 DEF StopValhalla, SpawnValhalla
<1>8. CASE Respond BY <1>8 DEF Respond
<1>9. CASE ServeRoute BY <1>9 DEF ServeRoute, Processes
<1>10. CASE ValhallaExits BY <1>10 DEF ValhallaExits
<1>11. CASE WatchValhalla BY <1>11 DEF WatchValhalla
<1>12. CASE Stop BY <1>12 DEF Stop
<1>13. CASE ContainerStart BY <1>13, MarkersAssumption DEF ContainerStart, Graph
<1>14. CASE UNCHANGED <<cache, tiles, pc, outcome, faults>> BY <1>14
<1> QED
  BY <1>1, <1>2, <1>3, <1>4, <1>5, <1>6, <1>7, <1>8, <1>9, <1>10, <1>11, <1>12, <1>13, <1>14
  DEF Next, MainThread, EditBegin, EditEnd, Connect, HandleShutdown, Kill, vars
\* A request is taken up only when none is running, and answered at the end.
LEMMA NextServing == ASSUME IInv, [Next]_vars PROVE Serving'
<1> USE DEF IInv, TypeOK, Serving, netVars, dirVars, procVars, countVars
<1>1. ASSUME NEW r \in Requests, Connect(r) PROVE Serving'
  <2>1. \A s \in Requests : req'[s] = "running" <=> req[s] = "running"
    BY <1>1 DEF Connect
  <2> QED BY <1>1, <2>1 DEF Connect
<1>2. ASSUME NEW r \in Requests, BeginRebuild(r) \/ StagingFault(r) PROVE Serving'
  BY <1>2 DEF BeginRebuild, StagingFault
<1>3. CASE BuildTiles \/ BuildFails \/ RetireLive \/ RetireBlocked \/ InstallStaging
           \/ PurgeOld \/ SwapFault \/ RestoreOld \/ RestoreFault
  BY <1>3 DEF BuildTiles, BuildFails, RetireLive, RetireBlocked, InstallStaging, PurgeOld,
              SwapFault, RestoreOld, RestoreFault
<1>4. CASE RemoveStaging \/ CleanupFault
  BY <1>4 DEF RemoveStaging, CleanupFault, AfterBuildAndSwap
<1>5. CASE StopValhalla \/ SpawnValhalla BY <1>5 DEF StopValhalla, SpawnValhalla
<1>6. CASE Respond BY <1>6 DEF Respond, Finish, Outcomes
<1>7. CASE Stop BY <1>7 DEF Stop
<1>8. CASE ContainerStart BY <1>8 DEF ContainerStart
<1>9. CASE UNCHANGED <<req, pc>> BY <1>9
<1> QED
  BY <1>1, <1>2, <1>3, <1>4, <1>5, <1>6, <1>7, <1>8, <1>9
  DEF Next, MainThread, EditBegin, EditEnd, ServeRoute, ValhallaExits, WatchValhalla,
      HandleShutdown, Kill, vars

\* What a request was promised when it was sent is handed on from the network to
\* the staged and then to the live tiles.
LEMMA NextFreshness == ASSUME IInv, [Next]_vars PROVE Freshness'
<1> USE MarkersAssumption DEF IInv, TypeOK, Freshness, AtLeast, Graph, netVars, dirVars,
                              procVars, countVars
<1>1. CASE EditBegin BY <1>1 DEF EditBegin
<1>2. CASE EditEnd BY <1>2 DEF EditEnd
<1>3. ASSUME NEW r \in Requests, Connect(r) PROVE Freshness' BY <1>3 DEF Connect
<1>4. ASSUME NEW r \in Requests, BeginRebuild(r) \/ StagingFault(r) PROVE Freshness'
  BY <1>4 DEF BeginRebuild, StagingFault
<1>5. CASE BuildTiles BY <1>5 DEF BuildTiles, Outcomes
<1>6. CASE BuildFails BY <1>6 DEF BuildFails
<1>7. CASE RetireLive \/ RetireBlocked BY <1>7 DEF RetireLive, RetireBlocked, Outcomes
<1>8. CASE InstallStaging BY <1>8 DEF InstallStaging, Outcomes
<1>9. CASE PurgeOld BY <1>9 DEF PurgeOld
<1>10. CASE SwapFault \/ RestoreFault \/ CleanupFault
  BY <1>10 DEF SwapFault, RestoreFault, CleanupFault, Outcomes
<1>11. CASE RestoreOld BY <1>11 DEF RestoreOld, Outcomes
<1>12. CASE RemoveStaging BY <1>12 DEF RemoveStaging, AfterBuildAndSwap
<1>13. CASE StopValhalla \/ SpawnValhalla BY <1>13 DEF StopValhalla, SpawnValhalla
<1>14. CASE Respond
  <2>1. \A r \in Requests : req'[r] # "running"
                           /\ (req'[r] = "queued" => req[r] = "queued")
    BY <1>14 DEF Respond, Finish, Outcomes
  <2> QED BY <1>14, <2>1 DEF Respond
<1>15. CASE Stop
  <2>1. \A r \in Requests : req'[r] \notin {"queued", "running"}
    BY <1>15 DEF Stop
  <2>2. pbf' = pbf /\ edits' = edits
    BY <1>15 DEF Stop
  <2> QED BY <2>1, <2>2
<1>16. CASE ContainerStart BY <1>16 DEF ContainerStart, Serving
<1>17. CASE UNCHANGED <<pbf, edits, tiles, staging, src, pc, outcome, req, asked>> BY <1>17
<1> QED
  BY <1>1, <1>2, <1>3, <1>4, <1>5, <1>6, <1>7, <1>8, <1>9, <1>10, <1>11, <1>12, <1>13,
     <1>14, <1>15, <1>16, <1>17
  DEF Next, MainThread, ServeRoute, ValhallaExits, WatchValhalla, HandleShutdown, Kill, vars

\* The inductive invariant holds throughout.
LEMMA IInvHolds == Spec => []IInv
<1>1. IInv /\ [Next]_vars => IInv'
  BY NextTypeOK, NextDirectories, NextProcesses, NextOutcomes, NextCaches, NextServing,
     NextFreshness DEF IInv
<1> QED BY InitIInv, <1>1, PTL DEF Spec

-----------------------------------------------------------------------------
\* Type correctness of the valhalla container.
THEOREM TypeCorrect == Spec => []TypeOK
BY IInvHolds, PTL DEF IInv

\* Whatever fails and whenever the container stops, a complete tile set stays on disk.
THEOREM GraphSafe == Spec => []GraphNeverLost
<1>1. IInv => GraphNeverLost
  BY DEF IInv, TypeOK, Directories, GraphNeverLost, Content
<1> QED BY IInvHolds, <1>1, PTL

\* At most one valhalla_service runs.
THEOREM SingleValhalla == Spec => []OneValhalla
<1>1. IInv => OneValhalla
  BY DEF IInv, Processes, OneValhalla
<1> QED BY IInvHolds, <1>1, PTL

\* Between rebuilds the service holds no tile of a replaced graph.
THEOREM CacheIsLive == Spec => []ServesLiveGraph
<1>1. IInv => ServesLiveGraph
  BY DEF IInv, Caches, ServesLiveGraph
<1> QED BY IInvHolds, <1>1, PTL

\* A successful answer stands for a graph at least as new as what the client saw.
THEOREM OkMeansFresh == Spec => OkIsFresh
<1> DEFINE Fresh == \A r \in Requests :
          req'[r] = "ok" /\ req[r] # "ok" /\ tiles # Torn /\ asked[r] # Torn
            => tiles \in Nat /\ tiles >= asked[r]
<1>1. ASSUME IInv, [Next]_vars PROVE Fresh
  <2> SUFFICES ASSUME NEW r \in Requests, req'[r] = "ok", req[r] # "ok",
                      tiles # Torn, asked[r] # Torn
               PROVE  tiles \in Nat /\ tiles >= asked[r]
    OBVIOUS
  <2>1. Respond
    BY <1>1 DEF Next, MainThread, EditBegin, EditEnd, Connect, BeginRebuild, BuildTiles,
        BuildFails, RetireLive, RetireBlocked, InstallStaging, PurgeOld, SwapFault,
        StagingFault, RestoreOld, RestoreFault, RemoveStaging, CleanupFault,
        StopValhalla, SpawnValhalla, ServeRoute, ValhallaExits, WatchValhalla, Stop,
        HandleShutdown, Kill, ContainerStart, vars, IInv, TypeOK
  <2>2. req[r] = "running" /\ outcome = "ok" /\ pc = "reply"
    BY <2>1, <1>1 DEF Respond, Finish, IInv, TypeOK
  <2>3. tiles \in Nat /\ asked[r] \in Nat
    BY <2>2, <1>1 DEF IInv, TypeOK, Directories, Content, Graph
  <2> QED BY <2>2, <2>3, <1>1 DEF IInv, Freshness, AtLeast, TypeOK
<1>2. IInv /\ [Next]_vars => [Fresh]_vars
  BY <1>1
<1> QED BY <1>2, IInvHolds, PTL DEF Spec, OkIsFresh

-----------------------------------------------------------------------------
(* build_and_swap implements the abstract container of TileStore: a swap of *)
(* directories, with all its intermediate states and failures, looks from   *)
(* outside like one step that replaces the routing graph. Container stops   *)
(* are left out, as they are in TileStore.                                  *)

Up == pc # "down"

\* A bootstrapped container is a bootstrapped store.
LEMMA InitRefines == Init => Store!Init
<1> SUFFICES ASSUME Init PROVE Store!Init
  OBVIOUS
<1>1. \A r \in Requests : AbstractFate(r) = "unsent"
  BY DEF Init, AbstractFate
<1>2. LogicalGraph = 0 /\ ReadSoFar = NoSource
  BY MarkersAssumption DEF Init, LogicalGraph, ReadSoFar
<1> QED BY <1>1, <1>2 DEF Init, Store!Init

\* Steps that the abstract container does not see.
LEMMA Hidden ==
    ASSUME IInv, Up, UNCHANGED <<pbf, edits, req>>,
           LogicalGraph' = LogicalGraph, ReadSoFar' = ReadSoFar,
           (outcome = "failed") = (outcome = "failed")', Installed' = Installed
    PROVE  UNCHANGED Store!storeVars
<1>1. \A r \in Requests : AbstractFate(r)' = AbstractFate(r)
  BY DEF AbstractFate
<1> QED BY <1>1 DEF Store!storeVars

\* The request being served fails: the graph stays as it was.
LEMMA Failing ==
    ASSUME IInv, Up, UNCHANGED <<pbf, edits, req>>, pc # "idle",
           LogicalGraph' = LogicalGraph, ReadSoFar' = NoSource,
           outcome # "failed", outcome' = "failed"
    PROVE  Store!Next
<1>1. PICK r \in Requests : req[r] = "running"
  BY DEF IInv, Serving, Up
<1>2. \A s \in Requests \ {r} : req[s] # "running"
  BY <1>1 DEF IInv, Serving
<1>3. AbstractFate(r) \in {"running", "published"} /\ AbstractFate(r)' = "failed"
  BY <1>1 DEF AbstractFate
<1>4. \A s \in Requests \ {r} : AbstractFate(s)' = AbstractFate(s)
  BY <1>2 DEF AbstractFate
<1>5. [s \in Requests |-> AbstractFate(s)]'
        = [[s \in Requests |-> AbstractFate(s)] EXCEPT ![r] = "failed"]
  BY <1>3, <1>4
<1>6. Store!Fail(r)
  BY <1>3, <1>5 DEF Store!Fail
<1> QED BY <1>6 DEF Store!Next, Store!Serve
\* One request goes from one abstract fate to another, the others keep theirs.
LEMMA OneFate ==
    ASSUME NEW r \in Requests, NEW fate, AbstractFate(r)' = fate,
           \A s \in Requests \ {r} : AbstractFate(s)' = AbstractFate(s)
    PROVE  [s \in Requests |-> AbstractFate(s)]'
             = [[s \in Requests |-> AbstractFate(s)] EXCEPT ![r] = fate]
OBVIOUS

\* When no request is running, the store serves none.
LEMMA IdleStore ==
    ASSUME IInv, \A s \in Requests : req[s] # "running"
    PROVE  ~Store!Busy
<1>1. \A s \in Requests : AbstractFate(s) = req[s]
  BY DEF AbstractFate
<1>2. \A s \in Requests : AbstractFate(s) \notin {"running", "published"}
  BY <1>1 DEF IInv, TypeOK, Fate
<1> QED BY <1>2 DEF Store!Busy

\* Every step of the container is a step of the store, or invisible to it.
LEMMA StepRefines ==
    ASSUME IInv, Up, Up', [Next]_vars
    PROVE  [Store!Next]_(Store!storeVars)
<1> USE MarkersAssumption DEF Up, netVars, dirVars, procVars, countVars
<1>1. CASE EditBegin
  <2>1. [s \in Requests |-> AbstractFate(s)]' = [s \in Requests |-> AbstractFate(s)]
    BY <1>1 DEF EditBegin, AbstractFate, Installed
  <2>2. LogicalGraph' = LogicalGraph
    BY <1>1 DEF EditBegin, LogicalGraph
  <2>3. ReadSoFar' \in (IF ReadSoFar = NoSource THEN {NoSource} ELSE {ReadSoFar, Torn})
    BY <1>1 DEF EditBegin, ReadSoFar, IInv, Directories
  <2>4. Store!EditBegin
    BY <1>1, <2>1, <2>2, <2>3 DEF EditBegin, Store!EditBegin
  <2> QED BY <2>4 DEF Store!Next
<1>2. CASE EditEnd
  <2>1. [s \in Requests |-> AbstractFate(s)]' = [s \in Requests |-> AbstractFate(s)]
    BY <1>2 DEF EditEnd, AbstractFate, Installed
  <2>2. LogicalGraph' = LogicalGraph /\ ReadSoFar' = ReadSoFar
    BY <1>2 DEF EditEnd, LogicalGraph, ReadSoFar
  <2>3. Store!EditEnd
    BY <1>2, <2>1, <2>2 DEF EditEnd, Store!EditEnd
  <2> QED BY <2>3 DEF Store!Next
<1>3. ASSUME NEW r \in Requests, Connect(r) PROVE Store!Next
  <2>1. AbstractFate(r) = "unsent" /\ AbstractFate(r)' = "queued"
    BY <1>3 DEF Connect, AbstractFate, IInv, TypeOK
  <2>2. \A s \in Requests \ {r} : AbstractFate(s)' = AbstractFate(s)
    BY <1>3 DEF Connect, AbstractFate, Installed, IInv, TypeOK
  <2>3. LogicalGraph' = LogicalGraph /\ ReadSoFar' = ReadSoFar
    BY <1>3 DEF Connect, LogicalGraph, ReadSoFar
  <2>4. Store!Connect(r)
    BY <1>3, <2>1, <2>2, <2>3, OneFate DEF Connect, Store!Connect
  <2> QED BY <2>4 DEF Store!Next
<1>4. ASSUME NEW r \in Requests, BeginRebuild(r) PROVE Store!Next
  <2>1. \A s \in Requests : req[s] # "running"
    BY <1>4 DEF BeginRebuild, IInv, Serving
  <2>2. AbstractFate(r) = "queued" /\ AbstractFate(r)' = "running"
    BY <1>4 DEF BeginRebuild, AbstractFate, Installed, IInv, TypeOK
  <2>3. \A s \in Requests \ {r} : AbstractFate(s)' = AbstractFate(s)
    BY <1>4, <2>1 DEF BeginRebuild, AbstractFate, Installed, IInv, TypeOK
  <2>4. ~Store!Busy
    BY <2>1, IdleStore
  <2>5. LogicalGraph' = LogicalGraph /\ ReadSoFar' = pbf
    BY <1>4 DEF BeginRebuild, LogicalGraph, ReadSoFar
  <2>6. Store!Begin(r)
    BY <1>4, <2>2, <2>3, <2>4, <2>5, OneFate DEF BeginRebuild, Store!Begin
  <2> QED BY <2>6 DEF Store!Next, Store!Serve
<1>5. CASE BuildTiles
  BY <1>5, Hidden DEF BuildTiles, LogicalGraph, ReadSoFar, Installed
<1>6. CASE BuildFails
  <2>1. LogicalGraph' = LogicalGraph /\ ReadSoFar' = NoSource
    BY <1>6 DEF BuildFails, LogicalGraph, ReadSoFar
  <2> QED BY <1>6, <2>1, Failing DEF BuildFails, IInv, Outcomes
<1>7. CASE RetireLive
  <2>1. LogicalGraph' = LogicalGraph /\ ReadSoFar' = ReadSoFar
    BY <1>7 DEF RetireLive, SetAside, LogicalGraph, ReadSoFar, IInv, Directories
  <2> QED BY <1>7, <2>1, Hidden DEF RetireLive, Installed
<1>8. CASE RetireBlocked
  <2>1. LogicalGraph' = LogicalGraph /\ ReadSoFar' = NoSource
    BY <1>8 DEF RetireBlocked, LogicalGraph, ReadSoFar
  <2> QED BY <1>8, <2>1, Failing DEF RetireBlocked, IInv, Outcomes
<1>9. CASE InstallStaging
  <2>1. PICK r \in Requests : req[r] = "running"
    BY <1>9 DEF InstallStaging, IInv, Serving
  <2>2. \A s \in Requests \ {r} : req[s] # "running"
    BY <2>1 DEF IInv, Serving
  <2>3. AbstractFate(r) = "running" /\ AbstractFate(r)' = "published"
    BY <1>9, <2>1 DEF InstallStaging, AbstractFate, Installed, IInv, Outcomes
  <2>4. \A s \in Requests \ {r} : AbstractFate(s)' = AbstractFate(s)
    BY <1>9, <2>2 DEF InstallStaging, AbstractFate
  <2>5. LogicalGraph' = ReadSoFar /\ ReadSoFar' = NoSource
    BY <1>9 DEF InstallStaging, LogicalGraph, ReadSoFar, IInv, Directories, Graph
  <2>6. Store!Publish(r)
    BY <1>9, <2>3, <2>4, <2>5, OneFate DEF InstallStaging, Store!Publish, Store!Built
  <2> QED BY <2>6 DEF Store!Next, Store!Serve
<1>10. CASE PurgeOld
  <2>1. LogicalGraph' = LogicalGraph /\ ReadSoFar' = ReadSoFar
    BY <1>10 DEF PurgeOld, LogicalGraph, ReadSoFar, IInv, Directories
  <2> QED BY <1>10, <2>1, Hidden DEF PurgeOld, Installed, IInv, Outcomes
<1>11. CASE SwapFault
  <2>1. LogicalGraph' = LogicalGraph /\ ReadSoFar' = NoSource
    BY <1>11 DEF SwapFault, LogicalGraph, ReadSoFar, IInv, Directories
  <2> QED BY <1>11, <2>1, Failing DEF SwapFault, IInv, Outcomes
<1>12. CASE RestoreOld \/ RestoreFault
  <2>1. LogicalGraph' = LogicalGraph /\ ReadSoFar' = ReadSoFar
    BY <1>12 DEF RestoreOld, RestoreFault, MustRestore, LogicalGraph, ReadSoFar, IInv, Directories
  <2>2. UNCHANGED <<pbf, edits, req, outcome>> /\ outcome = "failed"
    BY <1>12 DEF RestoreOld, RestoreFault, IInv, Outcomes
  <2>3. \A s \in Requests : AbstractFate(s)' = AbstractFate(s)
    BY <2>2 DEF AbstractFate
  <2> QED BY <2>1, <2>2, <2>3 DEF Store!storeVars
<1>13. CASE RemoveStaging
  <2>1. LogicalGraph' = LogicalGraph /\ ReadSoFar' = ReadSoFar
    BY <1>13 DEF RemoveStaging, AfterBuildAndSwap, LogicalGraph, ReadSoFar
  <2> QED BY <1>13, <2>1, Hidden DEF RemoveStaging, AfterBuildAndSwap, Installed
<1>14. CASE StopValhalla \/ SpawnValhalla
  <2>1. LogicalGraph' = LogicalGraph /\ ReadSoFar' = ReadSoFar
    BY <1>14 DEF StopValhalla, SpawnValhalla, LogicalGraph, ReadSoFar
  <2> QED BY <1>14, <2>1, Hidden DEF StopValhalla, SpawnValhalla, Installed
<1>15. CASE Respond
  <2>1. PICK r \in Requests : req[r] = "running"
    BY <1>15 DEF Respond, IInv, Serving
  <2>2. \A s \in Requests \ {r} : req[s] # "running"
    BY <2>1 DEF IInv, Serving
  <2>3. \A s \in Requests \ {r} : AbstractFate(s)' = AbstractFate(s)
    BY <1>15, <2>2 DEF Respond, Finish, AbstractFate, IInv, TypeOK
  <2>4. AbstractFate(r)' = outcome
    BY <1>15, <2>1 DEF Respond, Finish, AbstractFate, IInv, TypeOK, Outcomes
  <2>5. LogicalGraph' = LogicalGraph /\ ReadSoFar' = ReadSoFar
    BY <1>15 DEF Respond, LogicalGraph, ReadSoFar
  <2>6. CASE outcome = "ok"
    <3>1. AbstractFate(r) = "published"
      BY <1>15, <2>1, <2>6 DEF Respond, AbstractFate, Installed
    <3>2. Store!Succeed(r)
      BY <1>15, <2>3, <2>4, <2>5, <2>6, <3>1, OneFate DEF Respond, Store!Succeed
    <3> QED BY <3>2 DEF Store!Next, Store!Serve
  <2>7. CASE outcome = "failed"
    <3>1. AbstractFate(r) = "failed"
      BY <2>1, <2>7 DEF AbstractFate
    <3>2. \A s \in Requests : AbstractFate(s)' = AbstractFate(s)
      BY <2>3, <2>4, <2>7, <3>1
    <3> QED BY <1>15, <2>5, <3>2 DEF Respond, Store!storeVars
  <2> QED BY <1>15, <2>6, <2>7 DEF Respond, IInv, Outcomes
<1>16. CASE ServeRoute \/ ValhallaExits \/ WatchValhalla
  <2>1. UNCHANGED <<pbf, edits, tiles, staging, old, src, pc, outcome, req>>
    BY <1>16 DEF ServeRoute, ValhallaExits, WatchValhalla
  <2> QED BY <2>1, Hidden DEF LogicalGraph, ReadSoFar, Installed
<1>17. CASE CleanupFault
  <2>1. LogicalGraph' = LogicalGraph /\ ReadSoFar' = NoSource
    BY <1>17 DEF CleanupFault, LogicalGraph, ReadSoFar
  <2>2. CASE outcome = "failed"
    BY <1>17, <2>1, <2>2, Hidden DEF CleanupFault, ReadSoFar, Installed
  <2>3. CASE outcome # "failed"
    BY <1>17, <2>1, <2>3, Failing DEF CleanupFault
  <2> QED BY <2>2, <2>3
<1>18. ASSUME NEW r \in Requests, StagingFault(r) PROVE Store!Next
  <2>1. \A s \in Requests : req[s] # "running"
    BY <1>18 DEF StagingFault, IInv, Serving
  <2>2. AbstractFate(r) = "queued" /\ AbstractFate(r)' = "failed"
    BY <1>18 DEF StagingFault, AbstractFate, IInv, TypeOK
  <2>3. \A s \in Requests \ {r} : AbstractFate(s)' = AbstractFate(s)
    BY <1>18, <2>1 DEF StagingFault, AbstractFate, IInv, TypeOK
  <2>4. ~Store!Busy
    BY <2>1, IdleStore
  <2>5. LogicalGraph' = LogicalGraph /\ ReadSoFar' = ReadSoFar
    BY <1>18 DEF StagingFault, LogicalGraph, ReadSoFar
  <2>6. Store!Refuse(r)
    BY <1>18, <2>2, <2>3, <2>4, <2>5, OneFate DEF StagingFault, Store!Refuse
  <2> QED BY <2>6 DEF Store!Next, Store!Serve
<1>19. CASE UNCHANGED vars
  BY <1>19, Hidden DEF vars, LogicalGraph, ReadSoFar, Installed
<1> QED
  BY <1>1, <1>2, <1>3, <1>4, <1>5, <1>6, <1>7, <1>8, <1>9, <1>10, <1>11, <1>12, <1>13,
     <1>14, <1>15, <1>16, <1>17, <1>18, <1>19
  DEF Next, MainThread, HandleShutdown, Kill, Stop, ContainerStart
\* A container that is never stopped stays up.
LEMMA StaysUp == ASSUME MaxStops = 0 PROVE Spec => []Up
<1>1. Init => Up
  BY DEF Init, Up
<1>2. IInv /\ Up /\ [Next]_vars => Up'
  <2> SUFFICES ASSUME IInv, Up, [Next]_vars PROVE Up'
    OBVIOUS
  <2>1. ~Stop
    BY DEF Stop, IInv, TypeOK
  <2> QED
    BY <2>1 DEF Up, Next, MainThread, EditBegin, EditEnd, Connect, BeginRebuild, BuildTiles,
        BuildFails, RetireLive, RetireBlocked, InstallStaging, PurgeOld, SwapFault,
        StagingFault, RestoreOld, RestoreFault, RemoveStaging, CleanupFault,
        AfterBuildAndSwap, StopValhalla, SpawnValhalla, Respond,
        ServeRoute, ValhallaExits, WatchValhalla, HandleShutdown, Kill, ContainerStart, vars
<1> QED BY <1>1, <1>2, IInvHolds, PTL DEF Spec

\* The container that is not stopped implements the abstract store: whatever fails
\* and whenever, its swap of directories looks like a single replacement of the
\* routing graph on behalf of the one request being served.
THEOREM Refinement == ASSUME MaxStops = 0 PROVE Spec => ImplementsStore
<1>1. Init => Store!Init
  BY InitRefines
<1>2. IInv /\ Up /\ Up' /\ [Next]_vars => [Store!Next]_(Store!storeVars)
  BY StepRefines
<1>3. Spec => []IInv /\ []Up
  BY IInvHolds, StaysUp, PTL
<1> QED BY <1>1, <1>2, <1>3, PTL DEF Spec, ImplementsStore, Store!Spec
=============================================================================

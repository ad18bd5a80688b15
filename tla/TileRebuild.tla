----------------------------- MODULE TileRebuild -----------------------------
(***************************************************************************)
(* The valhalla container once it is up: rebuild_server.py (PID 1), the     *)
(* tile builder's build_and_swap, the valhalla_service child process and    *)
(* the watcher thread, on the shared data directory.                        *)
(*                                                                         *)
(* rebuild_server.py uses http.server.HTTPServer, which serves one request  *)
(* at a time in the main thread, so the main thread is one program counter  *)
(* pc; requests that arrive meanwhile wait in the listen backlog. Between   *)
(* two steps of pc anything else may happen: valhalla_service reads tiles   *)
(* or dies, the watcher runs, the api container rewrites the network PBF,   *)
(* the container is stopped or killed.                                      *)
(***************************************************************************)
EXTENDS Naturals

CONSTANTS
    Requests,    \* POST /rebuild calls, each used once
    MaxEdits,    \* bound: rewrites of the network PBF by the api container
    MaxExits,    \* bound: unexpected exits of valhalla_service
    MaxStops,    \* bound: stops or kills of the container
    MaxFaults,   \* bound: file system errors inside build_and_swap
    Absent,      \* the directory does not exist
    Partial,     \* the directory holds an incomplete tile set
    Torn,        \* a tile set built from a PBF that was rewritten while read
    NoSource     \* no build is reading the PBF

ASSUME MarkersAssumption ==
    /\ {Absent, Partial, Torn, NoSource} \cap Nat = {}
    /\ Absent # Partial /\ Absent # Torn /\ Absent # NoSource
    /\ Partial # Torn /\ Partial # NoSource /\ Torn # NoSource
ASSUME BoundsAssumption ==
    MaxEdits \in Nat /\ MaxExits \in Nat /\ MaxStops \in Nat /\ MaxFaults \in Nat

VARIABLES
    pbf,        \* network.osm.pbf: a version, or Torn while it is overwritten
    edits,      \* completed rewrites of the PBF (0: the bootstrapped network)
    tiles,      \* data/valhalla/tiles
    staging,    \* data/valhalla/tiles_staging
    old,        \* data/valhalla/tiles_old
    src,        \* what valhalla_build_tiles has read of the PBF
    pc,         \* next step of the main thread
    outcome,    \* result of run_rebuild so far: did build_and_swap raise?
    req,        \* fate of each request
    asked,      \* content of the PBF when each request was sent
    alive,      \* running valhalla_service processes
    cache,      \* tile sets the current valhalla_service has read tiles from
    exits, stops, faults    \* what the bounds count

netVars   == <<pbf, edits>>
dirVars   == <<tiles, staging, old>>
procVars  == <<alive, cache>>
countVars == <<exits, stops, faults>>
vars == <<pbf, edits, tiles, staging, old, src, pc, outcome, req, asked,
          alive, cache, exits, stops, faults>>

Graph   == Nat \cup {Torn}
Content == Graph \cup {Absent, Partial}
\* "build": valhalla_build_tiles runs; "retire": tiles -> tiles_old;
\* "install": tiles_staging -> tiles; "purge": rmtree(tiles_old);
\* "except", "cleanup": the handlers of build_and_swap; "restart", "spawn":
\* restart_valhalla before and after the old process is gone (the second
\* under _valhalla_lock); "reply": the HTTP answer.
Label   == {"idle", "build", "retire", "install", "purge", "except",
            "cleanup", "restart", "spawn", "reply", "down"}
InTry   == {"build", "retire", "install", "purge", "except", "cleanup"}
Fate    == {"unsent", "queued", "running", "ok", "failed", "lost"}

TypeOK ==
    /\ pbf \in Graph /\ edits \in Nat
    /\ tiles \in Content /\ staging \in Content /\ old \in Content
    /\ src \in Graph \cup {NoSource}
    /\ pc \in Label
    /\ outcome \in {"none", "ok", "failed"}
    /\ req \in [Requests -> Fate]
    /\ asked \in [Requests -> Graph]
    /\ alive \in Nat /\ cache \subseteq Graph
    /\ exits \in Nat /\ stops \in Nat /\ faults \in Nat

\* The container after its first bootstrap: tiles built from the network PBF,
\* valhalla_service just started.
Init ==
    /\ pbf = 0 /\ edits = 0
    /\ tiles = 0 /\ staging = Absent /\ old = Absent
    /\ src = NoSource
    /\ pc = "idle" /\ outcome = "none"
    /\ req = [r \in Requests |-> "unsent"]
    /\ asked = [r \in Requests |-> 0]
    /\ alive = 1 /\ cache = {}
    /\ exits = 0 /\ stops = 0 /\ faults = 0

AnswerBacklogToo(fate) ==
    req' = [r \in Requests |-> IF req[r] \in {"queued", "running"} THEN fate
                               ELSE req[r]]

\* The answer goes to the request being served.
Finish(fate) ==
    req' = [r \in Requests |-> IF req[r] = "running" THEN fate ELSE req[r]]

-----------------------------------------------------------------------------
(* Environment: the api container.                                          *)

EditBegin ==
    /\ edits < MaxEdits
    /\ pbf # Torn
    /\ pbf' = Torn
    /\ src' = IF src = NoSource THEN NoSource ELSE Torn
    /\ UNCHANGED <<edits, dirVars, pc, outcome, req, asked, procVars, countVars>>

EditEnd ==
    /\ pbf = Torn
    /\ edits' = edits + 1
    /\ pbf' = edits + 1
    /\ UNCHANGED <<dirVars, src, pc, outcome, req, asked, procVars, countVars>>

Connect(r) ==
    /\ req[r] = "unsent"
    /\ pc # "down"
    /\ req' = [req EXCEPT ![r] = "queued"]
    /\ asked' = [asked EXCEPT ![r] = pbf]
    /\ UNCHANGED <<netVars, dirVars, src, pc, outcome, procVars, countVars>>

-----------------------------------------------------------------------------
(* do_POST / run_rebuild / build_and_swap, step by step.                    *)

BeginRebuild(r) ==
    /\ pc = "idle"
    /\ req[r] = "queued"
    /\ req' = [req EXCEPT ![r] = "running"]
    /\ staging' = Partial
    /\ src' = pbf
    /\ outcome' = "none"
    /\ pc' = "build"
    /\ UNCHANGED <<netVars, tiles, old, asked, procVars, countVars>>

\* An OSError while a leftover staging directory is cleared or the new one is made,
\* before the try block.
StagingFault(r) ==
    /\ pc = "idle"
    /\ req[r] = "queued"
    /\ faults < MaxFaults
    /\ faults' = faults + 1
    /\ req' = [req EXCEPT ![r] = "running"]
    /\ staging' = IF staging = Absent THEN Absent ELSE Partial
    /\ outcome' = "failed"
    /\ pc' = "reply"
    /\ UNCHANGED <<netVars, tiles, old, src, asked, procVars, exits, stops>>

BuildTiles ==
    /\ pc = "build"
    /\ staging' = src
    /\ src' = NoSource
    /\ pc' = "retire"
    /\ UNCHANGED <<netVars, tiles, old, outcome, req, asked, procVars, countVars>>

\* Non-zero exit of valhalla_build_tiles, or a staging directory without *.gph.
BuildFails ==
    /\ pc = "build"
    /\ src' = NoSource
    /\ outcome' = "failed"
    /\ pc' = "except"
    /\ UNCHANGED <<netVars, dirVars, req, asked, procVars, countVars>>

DeletedInstead == IF tiles = Absent THEN old ELSE Absent

\* What tiles_old holds once the live tiles, if there are any, have been renamed.
SetAside == IF tiles = Absent THEN old ELSE tiles

\* os.replace of a directory fails when its target is a non-empty directory.
RetireLive ==
    /\ pc = "retire"
    /\ old = Absent \/ tiles = Absent
    /\ old' = SetAside
    /\ tiles' = Absent
    /\ pc' = "install"
    /\ UNCHANGED <<netVars, staging, src, outcome, req, asked, procVars, countVars>>

RetireBlocked ==
    /\ pc = "retire"
    /\ old # Absent /\ tiles # Absent
    /\ outcome' = "failed"
    /\ pc' = "except"
    /\ UNCHANGED <<netVars, dirVars, src, req, asked, procVars, countVars>>

InstallStaging ==
    /\ pc = "install"
    /\ tiles' = staging
    /\ staging' = Absent
    /\ pc' = "purge"
    /\ UNCHANGED <<netVars, old, src, outcome, req, asked, procVars, countVars>>

PurgeOld ==
    /\ pc = "purge"
    /\ old' = Absent
    /\ outcome' = "ok"
    /\ pc' = "cleanup"
    /\ UNCHANGED <<netVars, tiles, staging, src, req, asked, procVars, countVars>>

\* An OSError from either rename, or from rmtree, which may have removed a part.
SwapFault ==
    /\ pc \in {"retire", "install", "purge"}
    /\ faults < MaxFaults
    /\ pc = "purge" => old # Absent
    /\ old' = IF pc = "purge" THEN Partial ELSE old
    /\ faults' = faults + 1
    /\ outcome' = "failed"
    /\ pc' = "except"
    /\ UNCHANGED <<netVars, tiles, staging, src, req, asked, procVars, exits, stops>>

NeverRestore == FALSE

MustRestore == old # Absent /\ tiles = Absent

RestoreOld ==
    /\ pc = "except"
    /\ IF MustRestore
       THEN tiles' = old /\ old' = Absent
       ELSE UNCHANGED <<tiles, old>>
    /\ pc' = "cleanup"
    /\ UNCHANGED <<netVars, staging, src, outcome, req, asked, procVars, countVars>>

\* The rename back may fail in its turn.
RestoreFault ==
    /\ pc = "except"
    /\ MustRestore
    /\ faults < MaxFaults
    /\ faults' = faults + 1
    /\ pc' = "cleanup"
    /\ UNCHANGED <<netVars, dirVars, src, outcome, req, asked, procVars, exits, stops>>

ReplyWithoutRestart == "reply"

\* run_rebuild: an exception is answered at once, success restarts the service.
AfterBuildAndSwap == IF outcome = "ok" THEN "restart" ELSE "reply"

RemoveStaging ==
    /\ pc = "cleanup"
    /\ staging' = Absent
    /\ pc' = AfterBuildAndSwap
    /\ UNCHANGED <<netVars, tiles, old, src, outcome, req, asked, procVars, countVars>>

\* What an rmtree of the staging directory leaves when it does not get to its end.
HalfRemoved == IF staging = Absent THEN {Absent} ELSE {staging, Partial}

\* An OSError of the finally clause, from its rmtree or from the unlink of the staging
\* configuration before it: even a swap that succeeded is then answered with a failure.
CleanupFault ==
    /\ pc = "cleanup"
    /\ faults < MaxFaults
    /\ faults' = faults + 1
    /\ staging' \in HalfRemoved
    /\ outcome' = "failed"
    /\ pc' = "reply"
    /\ UNCHANGED <<netVars, tiles, old, src, req, asked, procVars, exits, stops>>

ReapBlindly == alive - 1

\* _valhalla_proc may have died already: poll() says so, nothing is terminated.
Reap == IF alive > 0 THEN alive - 1 ELSE 0

\* restart_valhalla: terminate (kill after 15 s) and reap the old process ...
StopValhalla ==
    /\ pc = "restart"
    /\ alive' = Reap
    /\ pc' = "spawn"
    /\ UNCHANGED <<netVars, dirVars, src, outcome, req, asked, cache, countVars>>

\* ... and, still under _valhalla_lock, start its successor.
SpawnValhalla ==
    /\ pc = "spawn"
    /\ alive' = alive + 1
    /\ cache' = {}
    /\ pc' = "reply"
    /\ UNCHANGED <<netVars, dirVars, src, outcome, req, asked, countVars>>

Respond ==
    /\ pc = "reply"
    /\ Finish(outcome)
    /\ pc' = "idle"
    /\ outcome' = "none"
    /\ UNCHANGED <<netVars, dirVars, src, asked, procVars, countVars>>

MainThread ==
    \/ \E r \in Requests : BeginRebuild(r) \/ StagingFault(r)
    \/ BuildTiles \/ BuildFails
    \/ RetireLive \/ RetireBlocked \/ InstallStaging \/ PurgeOld \/ SwapFault
    \/ RestoreOld \/ RestoreFault \/ RemoveStaging \/ CleanupFault
    \/ StopValhalla \/ SpawnValhalla \/ Respond

-----------------------------------------------------------------------------
(* valhalla_service, the watcher thread, and the container's life.          *)

\* valhalla_service loads tiles lazily from the live directory and keeps them.
ServeRoute ==
    /\ alive > 0
    /\ tiles \in Graph
    /\ cache' = cache \cup {tiles}
    /\ UNCHANGED <<netVars, dirVars, src, pc, outcome, req, asked, alive, countVars>>

ValhallaExits ==
    /\ exits < MaxExits
    /\ alive > 0
    /\ alive' = alive - 1
    /\ exits' = exits + 1
    /\ UNCHANGED <<netVars, dirVars, src, pc, outcome, req, asked, cache, stops, faults>>

WatcherIgnoresLock == FALSE

\* The main thread is between the end of one valhalla_service and the start of
\* the next.
ValhallaLockHeld == pc = "spawn"

\* watch_valhalla: every 2 s, under _valhalla_lock .
WatchValhalla ==
    /\ pc # "down"
    /\ ~ValhallaLockHeld
    /\ alive = 0
    /\ alive' = 1
    /\ cache' = {}
    /\ UNCHANGED <<netVars, dirVars, src, pc, outcome, req, asked, countVars>>

Stop ==
    /\ pc # "down"
    /\ stops < MaxStops
    /\ stops' = stops + 1
    /\ pc' = "down"
    /\ alive' = 0
    /\ cache' = {}
    /\ src' = NoSource
    /\ outcome' = "none"
    /\ req' = [r \in Requests |-> IF req[r] \in {"queued", "running"}
                                  THEN "lost" ELSE req[r]]
    /\ UNCHANGED <<netVars, tiles, asked, exits, faults>>

\* SIGTERM: SystemExit unwinds build_and_swap through its finally clause but
\* not through `except Exception'; rmtree(tiles_old) may be cut short, and so may the
\* finally clause itself, when the signal finds the main thread in it.
HandleShutdown ==
    /\ Stop
    /\ staging' \in (CASE pc = "cleanup" -> HalfRemoved
                       [] pc \in InTry \ {"cleanup"} -> {Absent}
                       [] OTHER -> {staging})
    /\ old' \in (IF pc = "purge" /\ old # Absent THEN {old, Partial} ELSE {old})

\* SIGKILL, or the host going down: nothing unwinds.
Kill ==
    /\ Stop
    /\ staging' \in (IF pc = "cleanup" THEN HalfRemoved ELSE {staging})
    /\ old' \in (IF pc = "purge" /\ old # Absent THEN {old, Partial} ELSE {old})

\* The container starts again: bootstrap_tiles.sh skips everything when the live
\* directory holds tiles; otherwise it converts the original GeoJSON again and
\* overwrites the network PBF (not while the api container is writing it, which is
\* not modelled). Then rebuild_server.py starts valhalla_service.
ContainerStart ==
    /\ pc = "down"
    /\ tiles \in Graph \/ pbf # Torn
    /\ IF tiles \in Graph
       THEN UNCHANGED <<pbf, tiles>>
       ELSE pbf' = 0 /\ tiles' = 0
    /\ pc' = "idle"
    /\ alive' = 1
    /\ UNCHANGED <<edits, staging, old, src, outcome, req, asked, cache, countVars>>

-----------------------------------------------------------------------------
Next ==
    \/ EditBegin \/ EditEnd
    \/ \E r \in Requests : Connect(r)
    \/ MainThread
    \/ ServeRoute \/ ValhallaExits \/ WatchValhalla
    \/ HandleShutdown \/ Kill \/ ContainerStart

Spec == Init /\ [][Next]_vars

\* The main thread runs, valhalla_build_tiles ends (one way or the other), and
\* the watcher wakes up every two seconds.
FairSpec == Spec /\ WF_vars(MainThread) /\ WF_vars(WatchValhalla)

-----------------------------------------------------------------------------
(* Correctness.                                                            *)

\* However a rebuild ends and whenever the container stops, a complete tile set
\* stays on disk: the live one, or else the one set aside in tiles_old.
GraphNeverLost == tiles \in Graph \/ (tiles = Absent /\ old \in Graph)

\* restart_valhalla and watch_valhalla never leave two valhalla_service
\* processes competing for the port (_valhalla_lock).
OneValhalla == alive <= 1

\* valhalla_service caches tiles it has read. Between rebuilds, unless a file
\* system error broke one, its cache holds no tile of a graph that is no longer
\* the live one: every swap is followed by a restart before the next request.
ServesLiveGraph ==
    pc \in {"idle", "build", "retire"} /\ faults = 0 => cache \subseteq {tiles}

\* A rebuild answered 200 means that the graph now live was built from a network
\* at least as new as the one on disk when the request was sent, even when the
\* request waited in the backlog behind another one.
OkIsFresh ==
    [][\A r \in Requests :
          req'[r] = "ok" /\ req[r] # "ok" /\ tiles # Torn /\ asked[r] # Torn
            => tiles \in Nat /\ tiles >= asked[r]]_vars

\* Routing comes back after every swap, failed swap and crash of the service, unless
\* two file system errors hit: a rename of the swap and the one meant to undo it.
RoutingComesBack == []<>(faults < 2 => alive > 0 /\ tiles \in Graph)

-----------------------------------------------------------------------------
(* What the documentation says and the code does not do.                    *)

\* README.md: data is prepared on the first startup only, "subsequent starts skip
\* cached data"; a later start keeps the network PBF with the edits made to it.
StartsKeepNetwork == [][pc = "down" /\ pc' = "idle" => pbf' = pbf]_vars

-----------------------------------------------------------------------------
(* Refinement of TileStore (without container stops: MaxStops = 0).         *)

\* The routing graph, wherever the swap has put it for the moment.
LogicalGraph == IF tiles = Absent THEN old ELSE tiles

ReadSoFar ==
    CASE pc = "build" -> src
      [] pc \in {"retire", "install"} -> staging
      [] OTHER -> NoSource

Installed == pc \in {"purge", "cleanup", "restart", "spawn", "reply"}

AbstractFate(r) ==
    IF req[r] # "running" THEN req[r]
    ELSE IF outcome = "failed" THEN "failed"
    ELSE IF Installed THEN "published" ELSE "running"

Store == INSTANCE TileStore
            WITH graph <- LogicalGraph, src <- ReadSoFar,
                 answer <- [r \in Requests |-> AbstractFate(r)]

\* Seen from outside, build_and_swap replaces one routing graph by another in a
\* single step, only on behalf of the one request being served, and an "ok"
\* always stands for a published graph.
ImplementsStore == Store!Spec

\* Nor does any failure, process exit or edit keep the server from getting on with
\* the request it serves and then with the next: TileStore's fairness, on which
\* WayCrud relies; every request that reaches the server gets its answer.
ImplementsFairStore == Store!FairSpec
=============================================================================

# Wayfinding: TLA+ models and proofs

This directory holds a formal model of the Wayfinding system: TLA+ modules translated from its
Python source, TLC configurations that model-check them, and proofs checked by TLAPS.
`PROJECT.json` maps every definition to the lines it models and lists runs, mutants, findings,
hazards and theorems. Paths below are relative to the repository.

Run a configuration with `tlc -config X.cfg M.tla`, a proof module with `tlapm M.tla`.

## 1. The system

Wayfinding routes pedestrians over the sidewalk network of south-western Pennsylvania. Two
containers share the directory `data/valhalla`; a third one is PostgreSQL.

| component | source | state it keeps | operations |
|---|---|---|---|
| rebuild server (PID 1 of the valhalla container) | `engines/valhalla_engine/rebuild_server.py` | `_valhalla_proc`, `_valhalla_lock`, `_rebuild_lock`, the listen backlog | `POST /rebuild`, `start_valhalla`, `restart_valhalla`, `watch_valhalla`, SIGTERM |
| tile builder | `engines/valhalla_engine/tile_builder.py` | `tiles`, `tiles_staging`, `tiles_old` on disk | `build_and_swap`, `build`, `build_many` |
| bootstrap | `scripts/bootstrap_tiles.{sh,py}` | GeoJSON, registry, network PBF, first tiles | once per container start |
| way administration | `wayfinder/http/tile_reloading.py`, `wayfinder/domain/way_crud_service.py` | `_rebuild_lock`, `_rebuild_status`, the network PBF | add, update, delete, bulk upsert, rebuild, status |
| node registry | `wayfinder/domain/node_registry.py`, `geojson_to_osm_service.py` | SQLite: nodes, ways, counters | `convert_features` and the calls it makes |
| demand log | `wayfinder/application/invalid_route_pipeline.py`, `integrations/logger/postgres_backend.py` | `failed_route_attempts`, `demand_summary` | `log_failed_route`, `rebuild_demand_summary`, `purge_old_attempts`, three queries |
| routing | `wayfinder/http/routes.py`, `controllers/valhalla_controller.py`, `domain/routing_service.py` | the lazily created controller | `POST /valhalla/route` |
| geohashing | `domain/geohashing_service.py` | none | encode, decode, neighbors |
| web client | `spcwayfinding/src/*.tsx` | React state: end points, route, steps, flags | search, map clicks, settings, admin page |
| costing | `valhalla_custom/pedestriancost.cc` | the incline limit of a request | edge filter and cost |

**How they interact.** An admin's write operation is answered 202 and queued as a background task
of the api container. The task takes `_rebuild_lock`, converts its feature with the node registry,
rewrites the network PBF in place with osmium, and posts `/rebuild` to the valhalla container. That
one serves requests one at a time: it builds into `tiles_staging`, renames `tiles` to `tiles_old`
and `tiles_staging` to `tiles`, removes `tiles_old`, and restarts `valhalla_service`. A route
request goes api -> `valhalla_service`; when that finds no route the api logs the attempt in the
demand database before it answers. The web client polls the status and applies answers of
overlapping requests to its state.

**What is hard, and what makes it correct.**

* *Rebuild server*: threads (main, watcher), a child process with a cache of tiles, renames that
  can fail, stops at any point. Correct when a complete graph always stays on disk, one service
  runs, it serves the live graph, and a 200 stands for a graph as new as the request.
* *Way administration*: jobs in concurrent threads, a lock tried without waiting, failing external
  commands, timeouts that leave a request at the server, restarts that lose memory but not disk.
  Correct when jobs exclude each other, no update is lost, the status tells the truth.
* *Node registry*: two processes on one SQLite file, batches committed late, a rebuild that deletes the
  file. Correct when IDs are unique, stable until such a rebuild, and every OSM file agrees with the
  registry.
* *Demand log*: concurrent transactions at READ COMMITTED on shared rows. Correct when the counts
  are those of the raw log.
* *Bootstrap*: crashes between steps whose results are recognised by existence only.
  Correct when a server never comes up on part of the network, one interruption does little harm,
  a rebuild that is asked for heals everything, and edits survive a start.
* *Routing*: first requests race to initialise the controller; a failed route is logged before it is
  answered, in a database that may be down. Correct when the log, the counts and the answers
  agree, and every request is answered.
* *Geohashing*: an attempt is found again by its cell and the eight cells around a spot. Correct
  when cells are those of a grid and neighbors reaches exactly the adjacent ones.
* *Client*: answers out of order, state read before an await and used after it. Correct when the
  route, its directions, the end points and the settings on display belong together.

## 2. Modules

```
TileStore  <-- INSTANCE --  TileRebuild     TileStore  <-- INSTANCE --  WayCrud
DemandLog  <-- EXTENDS --  RouteRequest     Bootstrap   NodeRegistry   MapClient   Geohash

<X>Proofs  EXTENDS <X> for TLAPS, for every <X> but DemandLog (RouteRequestProofs does)
MC<X>      EXTENDS <X> for TLC, for every <X> but DemandLog (RouteRequest runs it)
```

**TileStore** is the abstract valhalla container: a network PBF (`pbf`: a version, or `Torn` while
osmium overwrites it), what the running build has read (`src`), the one routing graph (`graph`) and
the fate of every request (`answer`). `Publish` is the whole swap, in one step.

**TileRebuild** is the container in detail. `pc` is the main thread of `rebuild_server.py`
(`http.server.HTTPServer` is single-threaded, so there is only one): `build`, `retire`
(tiles -> tiles_old), `install` (tiles_staging -> tiles), `purge`, the `except` and `finally` clauses
(`except`, `cleanup`), `restart` and `spawn` (the two halves of `restart_valhalla`), `reply`.
`tiles`, `staging`, `old` are the directories: `Absent`, `Partial`, or the version of the PBF the
graph was built from. `SwapFault`, `StagingFault`, `RestoreFault`, `CleanupFault` are OSErrors (the
last one also of the unlinking of the staging configuration: then a swap that has succeeded is
answered 500, without a restart);
`HandleShutdown` (SIGTERM: SystemExit runs `finally` but not `except Exception`) and `Kill` stop
the container, in the middle of the `finally` clause too; `ContainerStart` is `bootstrap_tiles.sh` as far as it concerns a later start. A
configuration or a PBF that does not exist (tile_builder.py:106-109) is refused before anything is
touched, which `StagingFault` covers.

**WayCrud** is the api side: `phase` is where each job is, from `accepted` through `_run_locked` and
the steps of `WayCRUDService` to `done`, `failed`, `dropped` or `lost`. Reading the PBF and
writing it back are separate steps, and so are truncating and filling it; `draft` is the network a
job is about to write. The ways in `Anonymous` are those of features without OBJECTID: the api takes
them, and `convert_features` merges but does not register them. The rebuild server is `TileStore`, so the composition is checked against
the promise, and `TileRebuild` is shown to keep the promise.

**NodeRegistry** has the committed tables and counters, the one open write transaction SQLite
allows (`writer`, `txNode`, `txWay`) and, per conversion, what it loaded and what it allocated.
Python's `sqlite3` opens a transaction at the first UPDATE and `close()` rolls it back. `Clear` is the
beginning of a bootstrap with `--rebuild`, which deletes the registry and the OSM files and makes a new
registry; a conversion of the api that has the deleted one open is `detached`: what it does there
concerns nobody any more, and `EndDetached` ends it. The history variable `met` says whether conversions
of the two containers have overlapped since the registry was made.

**DemandLog** has the two tables, the row locks (`holder`, `pending`) and what each statement sees
(`seen`). A maintenance run (`Maintainers`) is a rebuild, or a purge (a transaction of its own) followed
by its own rebuild.

**RouteRequest** puts `POST /valhalla/route` on top of it. `at` is where the start-up hook and the
handler of each request are: `find`, `create`, `look`, `define` are the queries of `create_database`
and `create_schema`, each in a transaction of its own, so that two threads that initialise the
controller interleave between them; `ask` is the call of Valhalla, whose answer `ErrorCode` and
`IsLogged` classify; a request with fewer than two locations fails before that
(`TooFewLocations`); `log` is the transaction of `DemandLog`, after which the client is answered.
`boot` says whether the start-up hook of the router runs (it depends on the FastAPI version whether
it does beside the lifespan of the app) and whether an earlier api has left a database.

**Bootstrap** is the start of the valhalla container from an empty directory up to the rebuild
server: `pc` is the next step of `bootstrap_tiles.sh` or of the `bootstrap_tiles.py` it runs once or
twice (`pass`). Files are written in two steps, cut in between to `Torn` (or to `Stub`, when even the
head is missing that `_geojson_is_valid` looks at); directories are removed and tiles built file by
file. `CutShort` is a kill, or a failure of the step, at any point; the operator may then `Start`
again in any mode, as often as he likes. `REBUILD_ALL` (which `docker-compose.yaml` does not pass
through, so it takes a container started otherwise on the same bind mount) has `Wiped` end the start:
`rm -rf` empties the directory, cannot remove the mount point itself, and `set -e` does the rest. `Stop`
ends a server that is up, and may catch its rebuild between the two renames, which leaves no tiles; what
else a server does to the tiles is left to `TileRebuild`. `setBack` is history: the plain start has
tiles to build again after such a stop or a wipe.

**Geohash** has `encode`, `decode` and `neighbors` as functions over integer coordinates (a cell is
`Unit` long on both axes, a power of two of them make up the map) and the two operations that depend on
them: storing an attempt, and `get_attempts_near`. The loops over the bits are recursive functions:
`Bisection` has the ranges after each bit of a spot, `Retraced` those after each bit of a geohash.

**MapClient** is `Map.tsx`: an action is a handler up to its next `await`, or the continuation of one
when its answer comes; `tasks` is what is awaited, with the values the continuation keeps from the
render it was made in. `overlapped` is history: the user has acted while an answer was awaited, and not
yet acted once more after waiting. The incline limit goes through four layers: slider (`InclineState`),
`callValhalla` (`Sent`), `routes.py` (`Kept`), and the engine (`EngineLimit`).

**Abstractions.** Contents of ways, tags, elevations, paths and messages are left out; a way is in
the network in the version of the job that wrote it. A bulk upsert is a job about one way. A feature
whose geometry cannot be used, which the conversion skips (an update with one deletes the way and
reports that it is done), is not among the jobs. The two assignments to `_rebuild_status` in
`_run_locked` are one step with the lock operation next to them. The short registry transaction of
`_verify_object_id` is one step. `CREATE TABLE IF NOT EXISTS` of the registry is part of the initial
state. What SQLite makes of a file that is deleted while it is open is taken to be a database of
nobody else's; that a conversion detached in this way still writes its OSM file, with IDs of the old
registry, is one reason why `OsmAgreesWhenApart` stops at conversions that have met. `WayCrud` and a
bootstrap that clears its files are not composed. In `Geohash` the square root of two in the steps
of `neighbors` is 181/128; what counts is that it lies between 1 and 3/2 cells. In `Bootstrap` the
object ids come in whole chunks, and two areas with a tile each stand for the map. In `MapClient` an
effect runs in the step of the state change it follows; a click's address is not modelled, only that
it is awaited.

## 3. Runs

`CHECK_DEADLOCK FALSE` is set in every configuration: each model has a finite supply of requests,
jobs, conversions or attempts, and stops when they are used up, as the system does when nobody asks
for anything. That nothing gets stuck before is what the liveness properties are for.

| run | expects | what it shows |
|---|---|---|
| `TileStore_promise` | pass | consistency of the promise itself: one request at a time, graphs never go back |
| `TileRebuild_safety` | pass | a graph always stays on disk, one `valhalla_service`, its cache is live, a 200 is fresh; with stops and restarts of the container |
| `TileRebuild_live` | pass | `TileRebuild` implements `TileStore`, with its fairness; routing always comes back unless two file system errors meet |
| `TileRebuild_reset` | violation | a stop between the renames makes the next start overwrite the edited network (README.md:148) |
| `WayCrud_jobs` | pass | mutual exclusion, lock release, no lost update, registry covers the ways with an OBJECTID, status and completion tell the truth, every accepted job ends |
| `WayCrud_dropped` | violation | an accepted operation that meets a running one is thrown away (ADMIN.md:115, 121) |
| `NodeRegistry_convert` | pass | conversions of the api and of a bootstrap at once, which may delete the registry first: IDs unique, and fixed but for that deletion; all files agree with the registry until conversions of the two have overlapped; every conversion ends |
| `RouteRequest_answers` | pass | `attempt_count` is exact under concurrent requests, maintenance and a fault of the database; answers agree with the log; racing initialisations leave tables; every request is answered (no deadlock) |
| `Bootstrap_starts` | pass | any number of starts, two of them cut short anywhere: what is served, what one interruption can do, that a start with `REBUILD_TILES` heals, that edits are kept (but after a wipe or a stop in the middle of a swap), that starts succeed |
| `Geohash_near` | pass | geohashes are the cells of a grid; a search near a spot finds the adjacent cells exactly, at odd lengths |
| `MapClient_display` | pass | the route on display belongs to end points and settings, if the user waits, and again from his first action after waiting; directions belong to the route; loading ends |
| `MapClient_directions` | violation | a page that says it has searched has no directions, and goes down (Left-Sidebar.tsx:616) |

Further things met while modelling, which the models show but no run of their own checks.

*Valhalla container.* Routing is out between the renames and during the restart of
`valhalla_service` (ADMIN.md:75 says it "stays live"). A stop while `tiles_old` is removed leaves it
non-empty, and every later rebuild fails at the rename onto it. A kill during the first tile build
leaves a partial graph; the next plain start takes it for whole, but fetches elevation and so builds
again (`GraphComplete`), unless elevation was there already. One `.hgt` file counts as all of the
elevation, so a download that was cut short and flattened is never completed. A torn `valhalla.json`
or GeoJSON makes every plain start fail until `REBUILD_TILES` is set (`StartsSucceed` excludes them
and shows the way out). Chunks that ArcGIS answers with an error body and status 200 are missing for
good (`lost` in `ServedWhole`). When a rebuild is cut short while it clears, and the next start while it
fetches elevation, the server comes up without a network PBF, and every way operation fails until the
next rebuild (the exception in `ServedWhole`; four starts are needed to meet it). A start with
`REBUILD_ALL` deletes everything and then fails (bootstrap_tiles.sh:16 on the mount point of
docker-compose.yaml:42); the next plain start builds everything anew.

*Api.* A restart clears an error from the status, and the page then says the graph is up to date
(`Admin.tsx:204`). A feature without OBJECTID is taken by `POST /ways/` and `/ways/bulk` (only the unused
`_extract_object_id`, tile_reloading.py:25-30, would refuse it), merged under an anonymous way id and never
registered: a way of the network that nobody can look up, update or delete (ADMIN.md:61 has ways removed by
their OBJECTID), which `RegistryCoversNetwork` leaves out. An update whose insert fails has deleted the way (ADMIN.md:51). A batch of the way
counter that commits nothing rolls the counter back (`geojson_to_osm_service.py:255`), so a feature
without OBJECTID may get the ID of an earlier one, though not when both conversions committed the
counter (`WayIdsUnique`). A bootstrap and the api at once can give one coordinate two IDs
(node_registry.py:4-6 says the opposite); `OsmAgreesWhenApart` is what remains true. A rebuild that is
asked for at a start deletes the registry (bootstrap_tiles.py:178-186) and with it every ID, also while
the api converts; `NodeIdsNeverChange` names it as the one exception. The loser of a
race to define the tables answers 500, once (`StartupSafe` says when).

*Demand log.* `first_seen` and `last_seen` follow the order of the commits and not of the attempts
(ADMIN.md:96); `unique_users` counts a user again after another one, and a rebuild gives another
number (schema_creator_service.py:92-93); a purge beside another maintenance run may leave a row for a
cell whose attempts are gone; a search whose first pass fails asks twice, so the failed route is logged
twice.

*Geohash.* With an even precision (8 is the default of `encode`; the pipeline uses 9) `neighbors` steps
over the adjacent rows of latitude. It does not wrap at the antimeridian.

*Map.* With overlapping actions the route on display may belong to other end points or settings: answers are
applied as they come, `clearRoute` gives nothing up, two quick clicks both set the start. It stays so,
however long the user waits, until he acts once more (`RouteOnDisplay`). The limit
is one of downhill slopes as well (README.md:95 says uphill).

**Bounds.** Two rebuild requests are enough for one to wait in the backlog behind the other (an
answer to the wrong one, a stale build, a left-over of the first met by the second); two rewrites
give three versions of the network; two faults let a fault meet the handling of another; one stop
and one crash, since each leaves the state from which a second one starts. Two jobs race for
the lock in `WayCrud_jobs` (one works while the other is dropped, or runs after a timed-out one whose
request is still queued; the proofs cover any number of jobs), and with two ways that have an OBJECTID
and one that has none a job meets ways of either kind other than its own. Conversions run on a chain of two ways that share a coordinate, one with an
OBJECTID and one without: two conversions of the api and one of the bootstrap, which may delete the
registry before, between or during the others. Two requests
between two cells give every pattern of shared rows, and one maintenance run and one fault meet both;
Valhalla's response is one of each class `ErrorCode` tells apart. Bootstrap needs no bound on starts; two
interruptions let one start stumble over what two others have left, two chunks over two areas let a
lost or partial network be seen in the tiles or not. Spots of `Geohash` are the edges of cells, all
cells for one letter, those at the rims and in the middle of either axis for two and three. Three actions
on the map reach a route from a search, a second one from new settings, and a clear between. Bounds are
constants named `Max...`; a bound that is reached only disables the environment's action, never
the program's (for the one bound a program's step meets, `JobsAreNotBarred` proves it).

**Fairness.** `TileRebuild`: weak fairness of the main thread (`valhalla_build_tiles` is
assumed to end, one way or the other) and of the watcher (a loop with a 2 s sleep). The container
is assumed to be started again only in safety runs: `docker-compose.yaml` has no restart policy, so
the liveness runs have no stops. `WayCrud`: weak fairness of every job thread and of the server as a
whole, which is exactly `TileStore!FairSpec`, implemented by `TileRebuild` (`ImplementsFairStore`).
`urlopen`'s timeout is never forced: liveness does not depend on it. `NodeRegistry`: every conversion
takes its next step; `Abandon` covers the "database is locked" error after five seconds.
`RouteRequest`: every request goes on by itself (the call of Valhalla has a timeout of 30 s; row
locks are released by a commit or a rollback); no request, maintenance run or start-up is made to
begin. `Bootstrap`: the container takes its next step (tools end, requests have timeouts and a
bounded number of retries); nobody is made to start it. `MapClient`: some task is answered, for a
browser's request ends or fails; the user does as he likes. Nothing is said of which task, and
nothing need be, as only finitely many are awaited.

## 4. Proofs

TLAPS proves safety for any number of requests, jobs, conversions, attempts, ways, chunks and areas, and
any bounds, and for geohashes of any length: every invariant and every action property a passing run
checks.
The assumptions are the `ASSUME`s of the modules: markers differ from versions, names of one kind from
those of another, bounds are naturals, `Ways` is not empty, features have coordinates and chunks have
areas, a registry's coordinates and features are finitely many, `_ensure_database_ready` tries more than
once, spots lie on the map and the length of a cell is even (so that its centre is an integer). Those about the counts of the demand log have a hypothesis of their own (below), and so has
`JobsAreNotBarred`: there are finitely many jobs.

* **TileStoreProofs**: `TypeCorrect`, `OneByOne`, `NeverGoesBack`. Inductive invariant: types,
  `ServedOneByOne`, and that `graph`, `src` and `pbf`, unless torn, are ordered versions not above
  `edits`.
* **TileRebuildProofs**: `TypeCorrect`, `GraphSafe`, `SingleValhalla`, `CacheIsLive`, `OkMeansFresh`.
  None of these is inductive: what a directory holds depends on where the main thread is, so the
  inductive invariant says, step by step, what the directories hold (`Directories`), which processes run
  (`Processes`), what is known of the outcome (`Outcomes`), what is cached (`Caches`), who is being
  served (`Serving`) and how old builds and graphs may be (`Freshness`). `Refinement`: if the container
  is never stopped (`MaxStops = 0`), every behaviour of `TileRebuild` is one of `TileStore`, under the
  mapping at the end of `TileRebuild`. The graph is `tiles`, or `tiles_old` between the renames, so
  `RetireLive` is a stutter and `InstallStaging` is `Publish`. With stops it is false: `ContainerStart`
  may replace the network.
* **WayCrudProofs**: `TypeCorrect`, `JobsExclude`, `LockReleased`, `RegistryCovers`, `NoUpdateLost`,
  `DoneIsServed`, `UpToDateIsTrue`, `BuildsReadWhole`, `JobsAreNotBarred`. The argument rests on `Mutex`
  (the lock is held exactly by the job that works); hence what a job read is still the network when it
  writes, and every way with an OBJECTID that it writes is registered (`Drafts`), a build made while a job waits is a build of the current PBF (`Waiting`), what the
  last job left stays true until the next one (`Current`), and without failures every request at the
  server has its job waiting for it (`Clean`). `JobsAreNotBarred` is about the composition: the guards
  of the actions of `TileStore` that jobs take, the bound on rewrites included, hold whenever a job gets
  to them, so they take no behaviour from the api (`Budget`: no more rewrites than jobs are past).
* **NodeRegistryProofs**: `TypeCorrect`, `NodesAreDistinct`, `NodesAreFixed`, `FilesAgree`,
  `WaysAreDistinct`, `WriterIsNotBarred`. SQLite's one write transaction owns the node counter it has read (`Owner`), so the
  IDs it gives out are distinct and above all committed ones (`Numbered`). `NodesAreFixed` has
  one exception, a bootstrap that deletes the registry, at its beginning and with all the files.
  `OsmAgreesWhenApart` needs more: that the api's lock and the single bootstrap leave at most one
  conversion of each kind, and two of different kinds only where they have met (`Apart`), so that until
  they do the nodes a conversion loaded are those of the registry until it has written its file
  (`Current`). Way IDs need the case that a commit comes late:
  IDs of the open transaction lie between the two counters, those of committed ones below and apart from
  each other (`WaysApart`). `WriterIsNotBarred` is the part of `EveryConversionEnds` that is about safety:
  who finds the registry locked waits for a conversion that waits for nothing, and whose numbering
  exists, whatever it converts (`NumberingExists`).
* **RouteRequestProofs**, first about the demand log: `TablesTyped`, `NoRouteIsMissing`,
  `CountersAreExact`, `OneMaintainer`, `CountersMend`, `RequestsNeverCircle`. `AttemptCountExact` speaks of
  committed rows only; the invariants say what the pending rows are. A request holds rows its attempt counts
  in, each at the committed count plus one (`Logging`). `NoRouteIsMissing` has no hypothesis: however
  requests, rebuilds and purges overlap or fail, no count is too low. For a maintenance run fills the rows it
  holds from a view of the log that only purges can overtake, and a row it does not hold it can insert only
  where there is none, which is where there are no attempts (`Floor`). Counts may be too high, though:
  nothing in the api keeps two admins from starting a purge and a rebuild at once, and then a row may be left
  whose attempts are gone, as TLC finds with a second maintainer. `CountersAreExact` therefore assumes
  that no maintenance run overlaps a purge (`PurgesAlone`), which needs no saying where there is only one
  (`OneMaintainer`); rebuilds may overlap each other as they like. Then the rows a maintenance run does not
  hold are exact from when its DELETE has passed them, and if one of them is still to be filled the insert finds
  it there and fails (`Maintaining`). It does not matter what the run started on, and so `CountersMend`:
  after a purge whose rebuild has failed, the next rebuild that commits makes every count exact, and only
  another purge can undo that. A purge and the rebuild after it are two transactions, and what requests
  commit between them is in what the rebuild starts on. The sums are lemmas on finite sets: one more attempt, one more in the count;
  `Earliest`, `Latest` and `DistinctUsers` are well defined. `RequestsNeverCircle`:
  no set of requests waits for each other's rows, since an origin's row is locked first and nobody who
  holds a destination's waits (`InOrder`); this is the part of `EveryRequestAnswered` that is about
  safety. TLC has checked `Floor` and `Accounts` with two and three maintainers.
  Then about the requests: `StartsSafely`, `AnswersAreLogged`, `RoutesTyped`, and the theorems on the
  demand log once more, beside them (`CountersAreExactOnline`, `NoRouteIsMissingOnline`,
  `CountersMendOnline`, `RequestsNeverCircleOnline`). The invariant says what of the database is there at
  each query of an initialisation, and that a request initialises only where no hook has run (`Boots`),
  that without faults nobody creates the database twice (`Tried`), and how request, transaction and answer
  go together (`Logs`). Every step is one of the demand log or leaves its tables alone, so `Floor`, `Ledger`
  and `InOrder` carry over.
* **BootstrapProofs**: `TypeCorrect`, `WholeIsServed`, `RebuildsHeal`, `GraphIsComplete`,
  `EditsAreKept`. Files outlive starts, so the invariant says what they may hold whenever a start ends:
  every network lacks lost chunks only (`Networks`), the PBF is torn only while there are no tiles
  (`Cleared`), tiles come with what they were built from unless a removal was cut short (`Usable`); and,
  step by step, what a start with `REBUILD_TILES` has made of its download (`Healing`). A second invariant (`Serving`) adds
  what depends on where starts were cut short: without a cut in a build or a removal every tile has its
  elevation (`Complete`), after one cut alone the tiles are all there or are about to be built again
  (`Mended`), and without cuts a plain start never comes to a clearing or a conversion once the api may
  have edited the PBF, unless a wipe or a stop between the renames has set it back (`Calm`).
* **MapClientProofs**: `DisplayIsTrue`, `LoadingHasReason`. While the user waits for answers, and again from
  the first action he takes on a page that awaits nothing, all that is awaited comes from
  one action and asks with the end points and settings on display (`InStep`); when nothing is awaited,
  the route on display is the one asked for last (`Settled`). That a limit passes unchanged through
  slider, request, endpoint and engine is a lemma of its own (`LimitArrives`). `LoadingHasReason`: the page
  never says that it is loading with nothing left to await, the part of `LoadingEnds` that is about safety.
* **GeohashProofs**: `CellsFormTheGrid`, `NearbyCellsAreFound`, for every precision. The library's induction
  theorems cannot be instantiated here, but every set of naturals having a least element can be proved from
  its facts on well-founded relations; hence induction over sets (`Induction`), and that a loop computes a
  function at all (`Recursion`, `BisectionIsTheLoop`). Every coordinate has a cell, the outermost one where
  it lies off the map; the range that is left after each bit begins and ends with cells and holds the
  coordinate's, and after the last bit it is that cell (`BisectionCloses`, `BisectionEnds`). The bits come
  back from the letters, so `decode` retraces the ranges (`DecodeRetraces`) and ends in the centre
  (`DecodeIsTheCentre`); hence equal geohashes are equal cells (`HashIsTheCell`). From a centre, `neighbors`
  steps 181/128 cells on either axis at odd precisions, two rows and one column at even ones (`OddSteps`,
  `EvenSteps`), and so a search reaches the adjacent cells or, of the rows, the next but one (`SearchReaches`).

The inductive invariants were first checked by TLC, on the bounds of the safety runs.

**Model-checked only**, and why:

* liveness, which rests on fairness and so on ENABLED: `RoutingComesBack`, `EveryJobEnds`,
  `EveryConversionEnds`, `EveryRequestAnswered`, `StartsSucceed`, `LoadingEnds`, and the refinement with
  fairness, `ImplementsFairStore`;
* the three violations, which are counterexamples.

## 5. Not modelled, and why

* `build_many` and the merge helpers of the tile builder, the methods of `TileBuildPipeline` and
  `AdminTileController`, `GeohasherSplittingPipeline`: no running container reaches them. The bootstrap
  makes a `TileBuildPipeline` only to call the `build` of its tile builder.
* Tags, elevation interpolation, XML and JSON layout, messages: data no property is about.
* Demand queries other than `get_attempts_near`, geocoding, the admin page: they pass on what they are
  given. The SQLite backend: not deployed. `count_routes.py`: a one-off script.
* Of the web client: suggestions while typing, layers, layout.
* Vendored code (Valhalla apart from when its incline limit applies, `node_modules`).

## 6. Plan

Done: the modules above, and the proofs of all their safety and action properties. What is left:

1. For the liveness properties that have none yet the facts about guards they rest on, as
   `JobsAreNotBarred`, `RequestsNeverCircle`, `WriterIsNotBarred` and `LoadingHasReason` are: those of the
   bootstrap's steps and of the main thread of the rebuild server.
2. What `first_seen` and `last_seen` still promise, given that they follow the commits.
3. The liveness properties themselves, which need a prover for ENABLED.

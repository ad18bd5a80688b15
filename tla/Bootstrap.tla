------------------------------ MODULE Bootstrap ------------------------------
(***************************************************************************)
(* The start of the valhalla container, from an empty data directory to the *)
(* rebuild server: bootstrap_tiles.sh, the bootstrap_tiles.py it runs once   *)
(* or twice, flatten_elevation.py and ValhallaTileBuilder.build. The data    *)
(* directory is a volume: it outlives the container. bootstrap_tiles.sh runs *)
(* under set -e and the service has no restart policy, so a step that fails  *)
(* ends the container and the operator starts it again. A start may end      *)
(* between any two writes of any file.                                       *)
(***************************************************************************)
EXTENDS Naturals, FiniteSets

CONSTANTS
    Chunks,      \* chunks of 200 object ids of the ArcGIS layer
    Areas,       \* squares that have a graph tile and an elevation file
    Spans,       \* Spans[c]: the areas the features of chunk c lie in
    MaxCuts,     \* bound: starts that are killed or whose step fails
    MaxLost,     \* bound: chunks answered without "features"
    Absent,      \* no such file
    Stub,        \* a file cut before the head that _geojson_is_valid reads
    Torn         \* a file cut after it

ASSUME SpansAssumption ==
    /\ Spans \in [Chunks -> (SUBSET Areas) \ {{}}]
    /\ Areas = UNION {Spans[c] : c \in Chunks}
    /\ Chunks # {}
ASSUME BoundsAssumption == {MaxCuts, MaxLost} \subseteq Nat
ASSUME FilesAssumption ==
    /\ Absent # Stub /\ Absent # Torn /\ Stub # Torn
    /\ "whole" \notin {Absent, Torn}
    /\ \A s \in SUBSET Chunks : s \notin {Absent, Stub, Torn}

VARIABLES
    config,     \* valhalla.json: Absent, Torn or "whole"
    geojson,    \* custom_sidewalks.geojson: the chunks in it
    pbf,        \* network.osm.pbf: the chunks in it
    edited,     \* network.osm.pbf holds an edit of the api container
    net,        \* the chunks the tiles were built from
    tiles,      \* the areas that have a .gph file
    elevated,   \* the areas whose .gph file was built with elevation
    nested,     \* .hgt files in subdirectories of elevation_data
    flat,       \* .hgt files in elevation_data itself
    pc,         \* next step of the container
    mode,       \* "plain", "tiles" (REBUILD_TILES) or "all" (REBUILD_ALL)
    pass,       \* first or second run of bootstrap_tiles.py
    got,        \* chunks downloaded with features
    answered,   \* chunks whose request is over
    api,        \* the api container runs: it waits for the first healthy start
    cuts,       \* what the bound counts
    lost,       \* history: chunks ever answered without features
    cutIn,      \* history: steps in which a start has been cut short, each
                \* with whether elevation_data held a .hgt file then
    setBack     \* history: a wipe has emptied the directory, or the rebuild
                \* server was stopped while it had no live tiles, and no start
                \* has found tiles since

netFiles  == <<geojson, pbf, edited>>
tileFiles == <<net, tiles, elevated>>
hgtFiles  == <<nested, flat>>
download  == <<got, answered>>
history   == <<cuts, lost, cutIn, setBack>>
vars == <<config, netFiles, tileFiles, hgtFiles, pc, mode, pass, download, api,
          history>>

Step == {"wipe", "unelevate", "config", "dump", "check", "clear", "reconfig",
         "redump", "json", "chunks", "save", "saving", "convert", "sort",
         "build", "flatten", "look", "fetch", "reflatten", "untile"}

TypeOK ==
    /\ config \in {Absent, Torn, "whole"}
    /\ geojson \in (SUBSET Chunks) \cup {Absent, Stub, Torn}
    /\ pbf \in (SUBSET Chunks) \cup {Absent, Torn}
    /\ edited \in BOOLEAN
    /\ net \subseteq Chunks /\ elevated \subseteq tiles /\ tiles \subseteq Areas
    /\ nested \subseteq Areas /\ flat \subseteq Areas
    /\ pc \in Step \cup {"down", "failed", "up"}
    /\ mode \in {"plain", "tiles", "all"} /\ pass \in {1, 2}
    /\ got \subseteq answered /\ answered \subseteq Chunks
    /\ cuts \in Nat /\ lost \subseteq Chunks
    /\ api \in BOOLEAN /\ setBack \in BOOLEAN /\ cutIn \subseteq Step \X BOOLEAN

\* The areas a network has tiles in.
Covers(chunks) == UNION {Spans[c] : c \in chunks}

\* A checkout: data/valhalla is empty.
Init ==
    /\ config = Absent /\ geojson = Absent /\ pbf = Absent /\ edited = FALSE
    /\ net = {} /\ tiles = {} /\ elevated = {}
    /\ nested = {} /\ flat = {}
    /\ pc = "down" /\ mode = "plain" /\ pass = 1
    /\ got = {} /\ answered = {} /\ api = FALSE
    /\ cuts = 0 /\ lost = {} /\ cutIn = {} /\ setBack = FALSE

Goto(step) == pc' = step
Unchanged(others) == UNCHANGED <<mode, pass, api, cuts, cutIn, setBack, others>>

-----------------------------------------------------------------------------
(* bootstrap_tiles.sh before it runs Python.                                *)

Start(m) ==
    /\ pc \in {"down", "failed"}
    /\ Goto(CASE m = "all" -> "wipe" [] m = "tiles" -> "unelevate"
              [] m = "plain" -> "config")
    /\ mode' = m /\ pass' = 1
    /\ got' = {} /\ answered' = {}
    /\ setBack' = (setBack /\ tiles = {})
    /\ UNCHANGED <<config, netFiles, tileFiles, hgtFiles, api, cuts, lost, cutIn>>

RemoveTileOnly(a) == tiles' = tiles \ {a} /\ UNCHANGED <<net, elevated>>

\* One file at a time goes, in the order of the directory.
RemoveTile(a) ==
    /\ tiles' = tiles \ {a} /\ elevated' = elevated \ {a} /\ UNCHANGED net

RemoveHgt(a) ==
    \/ nested' = nested \ {a} /\ UNCHANGED flat
    \/ flat' = flat \ {a} /\ UNCHANGED nested

\* rm -rf "$DATA_DIR": nothing in it is spared.
Wipe ==
    /\ pc = "wipe" /\ UNCHANGED pc
    /\ \/ /\ config # Absent /\ config' = Absent
          /\ UNCHANGED <<netFiles, tileFiles, hgtFiles>>
       \/ /\ geojson # Absent /\ geojson' = Absent
          /\ UNCHANGED <<config, pbf, edited, tileFiles, hgtFiles>>
       \/ /\ pbf # Absent /\ pbf' = Absent /\ edited' = FALSE
          /\ UNCHANGED <<config, geojson, tileFiles, hgtFiles>>
       \/ /\ \E a \in tiles : RemoveTile(a)
          /\ UNCHANGED <<config, netFiles, hgtFiles>>
       \/ /\ \E a \in nested \cup flat : RemoveHgt(a) /\ ~UNCHANGED hgtFiles
          /\ UNCHANGED <<config, netFiles, tileFiles>>
    /\ Unchanged(<<download, lost>>)

\* The directory itself is the mount point of a volume (docker-compose.yaml): its
\* removal fails with EBUSY, and set -e ends the start.
Wiped ==
    /\ pc = "wipe" /\ Goto("failed")
    /\ config = Absent /\ geojson = Absent /\ pbf = Absent
    /\ tiles \cup nested \cup flat = {}
    /\ setBack' = TRUE
    /\ UNCHANGED <<config, netFiles, tileFiles, hgtFiles, download, mode, pass, api, cuts,
                   lost, cutIn>>

RemovalSkipped == TRUE
ElevationRemoved == nested \cup flat = {}

\* rm -rf "$ELEVATION_DIR" under REBUILD_TILES.
Unelevate ==
    /\ pc = "unelevate"
    /\ \/ /\ \E a \in nested \cup flat : RemoveHgt(a) /\ ~UNCHANGED hgtFiles
          /\ UNCHANGED pc
       \/ ElevationRemoved /\ Goto("config") /\ UNCHANGED hgtFiles
    /\ Unchanged(<<config, netFiles, tileFiles, download, lost>>)

-----------------------------------------------------------------------------
(* bootstrap_tiles.py: configuration and clearing.                          *)

Rebuilding == mode # "plain" /\ pass = 1

\* A configuration that is there, torn or not, is kept.
KeepConfig ==
    /\ pc = "config" /\ config # Absent /\ Goto("check")
    /\ Unchanged(<<config, netFiles, tileFiles, hgtFiles, download, lost>>)

\* open(config_path, "w") truncates the file, json.dump fills it.
OpenConfig ==
    /\ \/ pc = "config" /\ config = Absent /\ Goto("dump")
       \/ pc = "reconfig" /\ Goto("redump")
    /\ config' = Torn
    /\ Unchanged(<<netFiles, tileFiles, hgtFiles, download, lost>>)

DumpConfig ==
    /\ \/ pc = "dump" /\ Goto("check")
       \/ pc = "redump" /\ Goto("json")
    /\ config' = "whole"
    /\ Unchanged(<<netFiles, tileFiles, hgtFiles, download, lost>>)

AfterPython == IF pass = 1 THEN "flatten" ELSE "up"

TilesFirst == IF tiles # {} THEN AfterPython ELSE IF Rebuilding THEN "clear" ELSE "json"
TilesNotAsked == IF Rebuilding THEN "clear" ELSE "json"

\* Any .gph file counts as a finished bootstrap.
AfterCheck == IF Rebuilding THEN "clear" ELSE IF tiles # {} THEN AfterPython ELSE "json"

CheckTiles ==
    /\ pc = "check" /\ Goto(AfterCheck)
    /\ Unchanged(<<config, netFiles, tileFiles, hgtFiles, download, lost>>)

ConfigAsItIs == "json"
AfterClear == "reconfig"

\* _clear_valhalla_data spares the configuration and the GeoJSON.
Clear ==
    /\ pc = "clear"
    /\ \/ /\ pbf # Absent /\ pbf' = Absent /\ edited' = FALSE /\ UNCHANGED pc
          /\ UNCHANGED <<tileFiles, hgtFiles>>
       \/ /\ \E a \in tiles : RemoveTile(a)
          /\ UNCHANGED <<pc, pbf, edited, hgtFiles>>
       \/ /\ \E a \in nested \cup flat : RemoveHgt(a) /\ ~UNCHANGED hgtFiles
          /\ UNCHANGED <<pc, pbf, edited, tileFiles>>
       \/ /\ pbf = Absent /\ tiles \cup nested \cup flat = {} /\ Goto(AfterClear)
          /\ UNCHANGED <<pbf, edited, tileFiles, hgtFiles>>
    /\ Unchanged(<<config, geojson, download, lost>>)

-----------------------------------------------------------------------------
(* bootstrap_tiles.py: the GeoJSON, the network PBF and the tiles.          *)

HeadIsValid == geojson \notin {Absent, Stub}

\* generate_json without force: what the head of the file promises is loaded.
LoadGeojson ==
    /\ pc = "json" /\ ~Rebuilding /\ HeadIsValid /\ geojson # Torn
    /\ Goto("convert")
    /\ Unchanged(<<config, netFiles, tileFiles, hgtFiles, download, lost>>)

\* _load_existing_geojson answers None, data["features"] raises.
LoadTornGeojson ==
    /\ pc = "json" /\ ~Rebuilding /\ geojson = Torn
    /\ Goto("failed")
    /\ Unchanged(<<config, netFiles, tileFiles, hgtFiles, download, lost>>)

FetchObjectIds ==
    /\ pc = "json" /\ (Rebuilding \/ ~HeadIsValid)
    /\ Goto("chunks") /\ got' = {} /\ answered' = {}
    /\ Unchanged(<<config, netFiles, tileFiles, hgtFiles, lost>>)

\* The pool's requests end in any order.
FetchChunk(c) ==
    /\ pc = "chunks" /\ c \notin answered /\ UNCHANGED pc
    /\ answered' = answered \cup {c} /\ got' = got \cup {c}
    /\ Unchanged(<<config, netFiles, tileFiles, hgtFiles, lost>>)

\* A JSON body without "features" (ArcGIS reports errors so, with status
\* 200) passes for a chunk without features.
FetchEmptyChunk(c) ==
    /\ pc = "chunks" /\ c \notin answered /\ UNCHANGED pc
    /\ Cardinality(lost \cup {c}) <= MaxLost
    /\ answered' = answered \cup {c} /\ lost' = lost \cup {c}
    /\ Unchanged(<<config, netFiles, tileFiles, hgtFiles, got>>)

AnyAnswered == answered # {}
AllAnswered == answered = Chunks

Downloaded ==
    /\ pc = "chunks" /\ AllAnswered /\ Goto("save")
    /\ Unchanged(<<config, netFiles, tileFiles, hgtFiles, download, lost>>)

\* write_text: truncate, then write block by block.
OpenGeojson ==
    /\ pc = "save" /\ Goto("saving") /\ geojson' = Stub
    /\ Unchanged(<<config, pbf, edited, tileFiles, hgtFiles, download, lost>>)

WriteGeojson ==
    /\ pc = "saving"
    /\ \/ geojson = Stub /\ geojson' = Torn /\ UNCHANGED pc
       \/ geojson = Torn /\ geojson' = got /\ Goto("convert")
    /\ Unchanged(<<config, pbf, edited, tileFiles, hgtFiles, download, lost>>)

\* The conversion (module NodeRegistry) writes network.osm; osmium sort then
\* overwrites the PBF with it.
Convert ==
    /\ pc = "convert" /\ Goto("sort") /\ pbf' = Torn /\ edited' = FALSE
    /\ Unchanged(<<config, geojson, tileFiles, hgtFiles, download, lost>>)

Sort ==
    /\ pc = "sort" /\ pbf' = geojson
    /\ Goto(IF tiles # {} THEN AfterPython ELSE "build")
    /\ Unchanged(<<config, geojson, edited, tileFiles, hgtFiles, download, lost>>)

\* valhalla_build_tiles writes the .gph files one by one, each with the
\* elevation it finds.
BuildTile(a) ==
    /\ pc = "build" /\ config = "whole" /\ UNCHANGED pc
    /\ a \in Covers(pbf) \ tiles
    /\ tiles' = tiles \cup {a} /\ net' = pbf
    /\ elevated' = elevated \cup ({a} \cap flat)
    /\ Unchanged(<<config, netFiles, hgtFiles, download, lost>>)

Built ==
    /\ pc = "build" /\ config = "whole"
    /\ Covers(pbf) = tiles /\ tiles # {}
    /\ Goto(AfterPython)
    /\ Unchanged(<<config, netFiles, tileFiles, hgtFiles, download, lost>>)

\* A torn configuration stops the tool; a build without a tile raises.
BuildFails ==
    /\ pc = "build" /\ (config # "whole" \/ Covers(pbf) = {})
    /\ Goto("failed")
    /\ Unchanged(<<config, netFiles, tileFiles, hgtFiles, download, lost>>)

-----------------------------------------------------------------------------
(* bootstrap_tiles.sh after the first run of bootstrap_tiles.py.            *)

\* flatten_elevation: a file that is there already is left where it is.
Flatten ==
    /\ pc \in {"flatten", "reflatten"}
    /\ \/ /\ \E a \in nested \ flat : nested' = nested \ {a} /\ flat' = flat \cup {a}
          /\ UNCHANGED pc
       \/ /\ nested \subseteq flat /\ UNCHANGED hgtFiles
          /\ Goto(IF pc = "flatten" THEN "look" ELSE "untile")
    /\ Unchanged(<<config, netFiles, tileFiles, download, lost>>)

\* Any .hgt file counts as the whole elevation.
LookForElevation ==
    /\ pc = "look" /\ Goto(IF flat = {} THEN "fetch" ELSE "up")
    /\ Unchanged(<<config, netFiles, tileFiles, hgtFiles, download, lost>>)

\* valhalla_build_elevation --from-tiles: the areas that have a tile.
FetchElevation ==
    /\ pc = "fetch" /\ config = "whole"
    /\ \/ \E a \in tiles \ nested : nested' = nested \cup {a} /\ UNCHANGED <<pc, flat>>
       \/ tiles \subseteq nested /\ Goto("reflatten") /\ UNCHANGED hgtFiles
    /\ Unchanged(<<config, netFiles, tileFiles, download, lost>>)

FetchElevationFails ==
    /\ pc = "fetch" /\ config # "whole" /\ Goto("failed")
    /\ Unchanged(<<config, netFiles, tileFiles, hgtFiles, download, lost>>)

TilesRemoved == tiles = {}

\* rm -rf "$TILES_DIR", then bootstrap_tiles.py without --rebuild.
Untile ==
    /\ pc = "untile"
    /\ \/ (\E a \in tiles : RemoveTile(a)) /\ UNCHANGED <<pc, pass>>
       \/ TilesRemoved /\ pass' = 2 /\ Goto("config") /\ UNCHANGED tileFiles
    /\ UNCHANGED <<config, netFiles, hgtFiles, download, api, mode, history>>

-----------------------------------------------------------------------------
(* Environment.                                                             *)

\* The container is killed, or a command that bootstrap_tiles.sh or
\* bootstrap_tiles.py runs fails (a download after its retries, a tool, the
\* disk): the files stay as the step has left them.
CutShort ==
    /\ pc \in Step /\ cuts < MaxCuts
    /\ Goto("down") /\ cuts' = cuts + 1 /\ cutIn' = cutIn \cup {<<pc, flat # {}>>}
    /\ UNCHANGED <<config, netFiles, tileFiles, hgtFiles, mode, pass, download, api,
                   lost, setBack>>

\* docker compose starts the api once the service is healthy; it stays up
\* when only the valhalla container is started again.
ApiStarts ==
    /\ pc = "up" /\ ~api /\ api' = TRUE
    /\ UNCHANGED <<config, netFiles, tileFiles, hgtFiles, pc, mode, pass, download, history>>

\* A way operation of the api (module WayCrud) rewrites the network PBF.
ApiEdits ==
    /\ api /\ pbf \notin {Absent, Torn} /\ ~edited /\ edited' = TRUE
    /\ UNCHANGED <<config, geojson, pbf, tileFiles, hgtFiles, pc, mode, pass, download,
                   api, history>>

\* The container is stopped. The rebuild server may just have moved the live tiles
\* away for a request of the api, and not yet the new ones in (module TileRebuild).
Stop ==
    /\ pc = "up" /\ Goto("down")
    /\ \/ UNCHANGED <<tileFiles, setBack>>
       \/ api /\ tiles' = {} /\ elevated' = {} /\ setBack' = TRUE /\ UNCHANGED net
    /\ UNCHANGED <<config, netFiles, hgtFiles, download, mode, pass, api, cuts, lost, cutIn>>

Container ==
    \/ Wipe \/ Wiped \/ Unelevate
    \/ KeepConfig \/ OpenConfig \/ DumpConfig \/ CheckTiles \/ Clear
    \/ LoadGeojson \/ LoadTornGeojson \/ FetchObjectIds
    \/ \E c \in Chunks : FetchChunk(c) \/ FetchEmptyChunk(c)
    \/ Downloaded \/ OpenGeojson \/ WriteGeojson \/ Convert \/ Sort
    \/ \E a \in Areas : BuildTile(a)
    \/ Built \/ BuildFails
    \/ Flatten \/ LookForElevation \/ FetchElevation \/ FetchElevationFails
    \/ Untile

Environment ==
    \/ \E m \in {"plain", "tiles", "all"} : Start(m)
    \/ CutShort \/ ApiStarts \/ ApiEdits \/ Stop

Next == Container \/ Environment

\* A step of the container that is not cut short ends: the tools and the
\* requests, which have time-outs and a bounded number of retries, do.
Spec == Init /\ [][Next]_vars /\ WF_vars(Container)

-----------------------------------------------------------------------------
(* Properties.                                                              *)

\* The steps a start may be cut short in without a trace in the graph.
SafeToCut == {"config", "dump", "check", "reconfig", "redump",
              "json", "chunks", "save", "saving", "convert", "sort", "flatten", "look"}

\* bootstrap_tiles.sh: a server comes up on a graph with every tile, every tile
\* built with elevation, unless an earlier start was cut short while it built tiles,
\* fetched elevation or removed what it had. And although any .gph file counts as a
\* finished bootstrap (bootstrap_tiles.py:220), one interruption alone leaves a partial
\* graph in service only if it hits beside elevation files: in the build with
\* elevation, while the tiles are removed before it, or in a wipe. After any other,
\* the step that looks for elevation has the graph built again.
GraphComplete ==
    pc = "up" =>
        /\ cutIn \subseteq SafeToCut \X BOOLEAN => tiles = Covers(net) /\ elevated = tiles
        /\ cuts = 1 /\ cutIn \cap ({"build", "untile", "wipe"} \X {TRUE}) = {}
              => tiles = Covers(net)

\* A start with REBUILD_TILES that reaches the server has put everything right,
\* whatever earlier starts have left on the volume. (With REBUILD_ALL none does: see
\* StartsSucceed.)
RebuildHeals ==
    (pc = "up" /\ mode = "tiles")
        => /\ config = "whole" /\ geojson = got /\ net = got
           /\ tiles = Covers(got) /\ elevated = tiles

\* The steps that starts have been cut short in.
CutSteps == {c[1] : c \in cutIn}

\* bootstrap_tiles.py, main: whatever was killed or has failed, and however often, a
\* server never comes up on a graph built from part of the network, except for chunks
\* that were answered without features. And it and the api find a whole configuration
\* and a whole network PBF, unless the wipe of a REBUILD_ALL start was cut short, or
\* both the clearing of one rebuild and the fetching of elevation after it.
ServedWhole ==
    pc = "up" =>
        /\ Chunks \ net \subseteq lost
        /\ "wipe" \notin CutSteps => config = "whole"
        /\ pbf \in {Absent, Torn} => \/ "wipe" \in CutSteps
                                     \/ /\ "clear" \in CutSteps
                                        /\ CutSteps \cap {"fetch", "reflatten", "untile"} # {}

\* Starting the container again does not undo the edits the api has made in
\* the network PBF, unless a rebuild is asked for, a start was cut short, the
\* network was empty (nothing but chunks without features), or the start had to build
\* the tiles again after a wipe or after a stop of the rebuild server between the
\* renames of its swap: that such a stop does undo them is TileRebuild's
\* StartsKeepNetwork.
EditsKept ==
    [][edited /\ ~edited' =>
          mode' # "plain" \/ cuts > 0 \/ lost = Chunks \/ setBack]_vars

\* A start over files that are not torn, and any start with REBUILD_TILES, reaches
\* the rebuild server unless it is cut short itself: none fails by what another has
\* left, but for a network without features. One with REBUILD_ALL fails once it has
\* wiped the directory; the plain start after it is among those that succeed.
Startable ==
    /\ lost # Chunks
    /\ pc \in {"unelevate", "config"} /\ pass = 1
    /\ mode = "tiles" \/ (config # Torn /\ geojson # Torn)
StartsSucceed == Startable ~> pc \in {"up", "down"} \/ lost = Chunks
=============================================================================

---------------------------- MODULE BootstrapProofs ----------------------------
(***************************************************************************)
(* Safety of the starts of the valhalla container, for any chunks and areas *)
(* and any number of starts, interruptions and lost chunks. The network of   *)
(* every file is complete but for lost chunks (Networks); a network PBF is   *)
(* only torn while there are no tiles (Cleared), so tiles mean a whole PBF   *)
(* and configuration unless a removal was cut short (Usable); and a rebuild  *)
(* carries what it has downloaded through all its steps (Healing).          *)
(***************************************************************************)
EXTENDS Bootstrap, TLAPS

\* The steps between the check for tiles and the build, and those after it.
Making  == {"json", "chunks", "save", "saving", "convert", "sort"}
Fetching == {"flatten", "look", "fetch", "reflatten"}

\* Which steps the second run of bootstrap_tiles.py and the modes have.
Paths ==
    /\ pass = 2 => pc \in Making \cup {"config", "dump", "check", "build", "up", "down", "failed"}
    /\ pc = "wipe" => mode = "all"
    /\ pc \in {"unelevate", "clear", "reconfig", "redump"} => mode # "plain"

\* What is downloaded, saved, converted and built lacks lost chunks only.
Networks ==
    /\ answered \ got \subseteq lost
    /\ pc \in {"save", "saving"} => answered = Chunks
    /\ geojson \in SUBSET Chunks => Chunks \ geojson \subseteq lost
    /\ pbf \in SUBSET Chunks => Chunks \ pbf \subseteq lost
    /\ tiles # {} => Chunks \ net \subseteq lost
    /\ pc \in {"convert", "sort"} => geojson \in SUBSET Chunks
    /\ pc = "build" => pbf \in SUBSET Chunks

\* Where there are no tiles, no elevation, and where there are tiles.
Cleared ==
    /\ pc \in Making \cup {"reconfig", "redump"} => tiles = {}
    /\ pass = 2 /\ pc \in {"config", "dump", "check"} => tiles = {}
    /\ pc \in Fetching \cup {"up"} => tiles # {}
    /\ mode # "plain" /\ pass = 1
           /\ pc \in Making \cup {"config", "dump", "check", "clear", "reconfig", "redump",
                                  "build", "flatten", "look"}
       => nested \cup flat = {}

\* When tiles can be trusted to come with what they were built from.
Usable ==
    "wipe" \notin CutSteps /\ pc # "wipe" /\ tiles # {} =>
        /\ config = "whole"
        /\ "clear" \notin CutSteps /\ pc # "clear" => pbf \in SUBSET Chunks
        /\ /\ CutSteps \cap {"fetch", "reflatten", "untile"} = {}
           /\ pc \notin {"fetch", "reflatten", "untile"}
           /\ pc = "up" \/ nested \cup flat # {}
           => pbf \in SUBSET Chunks

\* A rebuild, from the download to the server.
Healing ==
    mode # "plain" =>
        /\ pc \in Making \cup Fetching \cup {"build", "untile", "up"} => config = "whole"
        /\ pc \in Fetching \cup {"convert", "sort", "build", "untile", "up"} => geojson = got
        /\ pass = 2 /\ pc \in {"config", "dump", "check", "json", "chunks", "save", "saving"}
               => config = "whole" /\ geojson = got /\ pc \notin {"dump", "chunks", "save", "saving"}
        /\ pc = "build" => pbf = got /\ (tiles # {} => net = got)
        /\ pc \in Fetching => tiles = Covers(got)
        /\ pc = "reflatten" => Covers(got) \subseteq nested \cup flat
        /\ pc = "untile" => Covers(got) \subseteq flat
        /\ pass = 2 /\ pc \in Making \cup {"config", "dump", "check", "build"}
               => Covers(got) \subseteq flat
        /\ pass = 2 /\ pc = "build" => elevated = tiles
        /\ pc = "up" => net = got /\ tiles = Covers(got) /\ elevated = tiles

IInv == TypeOK /\ Paths /\ Networks /\ Cleared /\ Usable /\ Healing

-----------------------------------------------------------------------------
(* What further holds of the graph and its elevation.                       *)

NoUnsafeCut == cutIn \subseteq SafeToCut \X BOOLEAN
OneCutAside == cuts <= 1 /\ cutIn \cap ({"build", "untile", "wipe"} \X {TRUE}) = {}

\* In any case: elevation files are in one place, they are fetched where there are none,
\* and tiles that are being built belong to the PBF.
Placed ==
    /\ nested \cap flat = {}
    /\ pc = "look" => nested \subseteq flat
    /\ pc = "fetch" => flat = {} /\ (config # "whole" => nested = {})
    /\ pc = "build" /\ tiles # {} => config = "whole" /\ net = pbf /\ tiles \subseteq Covers(pbf)
    /\ cuts = 0 => cutIn = {}

\* Unless a start was cut short in an unsafe step, elevation lies flat, it is that of
\* the network saved as GeoJSON, and the graph is that of this network, too, and has
\* the elevation if there is one.
Complete ==
    NoUnsafeCut =>
        /\ pc \notin {"fetch", "reflatten"} => nested = {}
        /\ flat # {} /\ pc \notin {"wipe", "unelevate", "reflatten"} =>
               geojson \in SUBSET Chunks /\ Covers(geojson) \subseteq flat
        /\ tiles # {} /\ pc \notin {"wipe", "clear", "build", "untile"} =>
               geojson \in SUBSET Chunks /\ net = geojson /\ tiles = Covers(net)
        /\ flat # {} /\ pc \notin {"wipe", "unelevate", "clear", "reflatten", "untile"} =>
               elevated = tiles
        /\ pc = "build" => pbf = geojson
        /\ pc = "reflatten" => tiles \subseteq nested \cup flat
        /\ pc \in {"untile", "up"} => flat # {}
        /\ pass = 2 /\ pc \notin {"down", "failed"} => flat # {}
        /\ pc \in {"chunks", "save", "saving"} => flat = {}

\* After one start that was cut short beside no elevation, the graph is complete, or
\* there is no elevation, so that the next start builds it again.
Mended ==
    OneCutAside =>
        /\ pc \notin {"wipe", "build", "untile", "fetch", "reflatten"} =>
               tiles = {} \/ tiles = Covers(net) \/ nested \cup flat = {}
        /\ pc = "up" => tiles = Covers(net)

\* While no start is cut short, none fails but for an empty network and after a wipe, and
\* once the api runs every plain start finds what it needs, unless it is set back.
Calm ==
    /\ edited => api
    /\ cuts = 0 /\ lost # Chunks =>
        /\ pc = "failed" => setBack /\ tiles = {}
        /\ config = Torn => pc \in {"dump", "redump"}
        /\ config = Absent => pc \in {"down", "failed", "wipe", "unelevate", "config"}
        /\ geojson \in {Stub, Torn} => pc = "saving"
        /\ api /\ pc = "down" => \/ tiles # {} /\ flat # {} /\ config = "whole"
                                 \/ tiles = {} /\ setBack
        /\ api /\ mode = "plain" /\ pc \notin {"down", "failed", "up"} /\ ~setBack =>
               /\ pass = 1 /\ pc \in {"config", "check", "flatten", "look"}
               /\ tiles # {} /\ flat # {} /\ config = "whole"

Serving == Placed /\ Complete /\ Mended /\ Calm

-----------------------------------------------------------------------------
\* An empty data directory satisfies the inductive invariant.
LEMMA InitIInv == Init => IInv
  <1> SUFFICES ASSUME Init PROVE IInv
    OBVIOUS
  <1> USE FilesAssumption DEF Init
  <1>1. TypeOK
    BY DEF TypeOK
  <1>2. Paths /\ Networks
    BY DEF Paths, Networks
  <1>3. Cleared /\ Usable /\ Healing
    BY DEF Cleared, Usable, Healing, Making, Fetching
  <1> QED BY <1>1, <1>2, <1>3 DEF IInv

\* A start that is cut short is remembered with its step.
LEMMA CutIsRemembered ==
    ASSUME TypeOK, CutShort
    PROVE  CutSteps' = CutSteps \cup {pc} /\ cutIn' \subseteq Step \X BOOLEAN
  <1>1. cutIn' = cutIn \cup {<<pc, flat # {}>>} /\ pc \in Step
    BY DEF CutShort
  <1>2. (flat # {}) \in BOOLEAN
    OBVIOUS
  <1>3. cutIn' \subseteq Step \X BOOLEAN
    <2>1. cutIn \subseteq Step \X BOOLEAN
      BY DEF TypeOK
    <2>2. <<pc, flat # {}>> \in Step \X BOOLEAN
      BY <1>1, <1>2
    <2> QED BY <1>1, <2>1, <2>2
  <1>4. ASSUME NEW c \in cutIn' PROVE c[1] \in CutSteps \cup {pc}
    BY <1>1 DEF CutSteps
  <1>5. ASSUME NEW s \in CutSteps PROVE s \in CutSteps'
    BY <1>1 DEF CutSteps
  <1>6. pc \in CutSteps'
    <2>1. <<pc, flat # {}>> \in cutIn' /\ <<pc, flat # {}>>[1] = pc
      BY <1>1
    <2> QED BY <2>1 DEF CutSteps
  <1> QED BY <1>3, <1>4, <1>5, <1>6 DEF CutSteps

\* Every step keeps the inductive invariant.
LEMMA NextIInv == IInv /\ [Next]_vars => IInv'
  <1> SUFFICES ASSUME IInv, [Next]_vars PROVE IInv'
    OBVIOUS
  <1> USE FilesAssumption
      DEF Goto, Unchanged, netFiles, tileFiles, hgtFiles, download, history, Step
  <1>0. CASE UNCHANGED vars
    BY <1>0 DEF vars, IInv, TypeOK, Paths, Networks, Cleared, Usable, Healing, CutSteps, Covers
  <1>1. CASE Wipe
    <2>1. TypeOK'
      BY <1>1 DEF Wipe, RemoveTile, RemoveHgt, hgtFiles, IInv, TypeOK, Paths, Making
    <2>2. Paths' /\ Networks' /\ Cleared' /\ Usable' /\ Healing'
      BY <1>1 DEF Wipe, RemoveTile, RemoveHgt, hgtFiles, IInv, Paths, Networks, Cleared, Usable,
         Healing, Making, Fetching, CutSteps
    <2> QED BY <2>1, <2>2 DEF IInv
  <1>2. CASE Wiped
    <2>1. TypeOK'
      BY <1>2 DEF Wiped, IInv, TypeOK
    <2>2. Healing'
      BY <1>2 DEF Wiped, IInv, TypeOK, Paths, Healing, Making, Fetching
    <2>3. Paths' /\ Networks' /\ Cleared' /\ Usable'
      BY <1>2 DEF Wiped, IInv, Paths, Networks, Cleared, Usable, Making, Fetching, CutSteps
    <2> QED BY <2>1, <2>2, <2>3 DEF IInv
  <1>3. CASE Unelevate
    <2>1. TypeOK'
      BY <1>3 DEF Unelevate, RemoveHgt, ElevationRemoved, IInv, TypeOK
    <2>2. Cleared'
      BY <1>3 DEF Unelevate, RemoveHgt, ElevationRemoved, IInv, TypeOK, Paths, Cleared, Making,
         Fetching
    <2>3. Healing'
      BY <1>3 DEF Unelevate, RemoveHgt, ElevationRemoved, IInv, TypeOK, Paths, Healing, Making,
         Fetching
    <2>4. Paths' /\ Networks' /\ Usable'
      BY <1>3 DEF Unelevate, RemoveHgt, ElevationRemoved, IInv, Paths, Networks, Usable, Making,
         CutSteps
    <2> QED BY <2>1, <2>2, <2>3, <2>4 DEF IInv
  <1>4. CASE KeepConfig
    <2>1. TypeOK'
      BY <1>4 DEF KeepConfig, IInv, TypeOK
    <2>2. Paths' /\ Networks' /\ Cleared' /\ Usable' /\ Healing'
      BY <1>4 DEF KeepConfig, IInv, Paths, Networks, Cleared, Usable, Healing, Making, Fetching,
         CutSteps
    <2> QED BY <2>1, <2>2 DEF IInv
  <1>5. CASE OpenConfig
    <2>1. TypeOK'
      BY <1>5 DEF OpenConfig, IInv, TypeOK
    <2>2. Usable'
      BY <1>5 DEF OpenConfig, IInv, TypeOK, Cleared, Usable, Making, Fetching, CutSteps
    <2>3. Paths' /\ Networks' /\ Cleared' /\ Healing'
      BY <1>5 DEF OpenConfig, IInv, Paths, Networks, Cleared, Healing, Making, Fetching
    <2> QED BY <2>1, <2>2, <2>3 DEF IInv
  <1>6. CASE DumpConfig
    <2>1. TypeOK'
      BY <1>6 DEF DumpConfig, IInv, TypeOK
    <2>2. Healing'
      BY <1>6 DEF DumpConfig, IInv, TypeOK, Paths, Healing, Making, Fetching
    <2>3. Paths' /\ Networks' /\ Cleared' /\ Usable'
      BY <1>6 DEF DumpConfig, IInv, Paths, Networks, Cleared, Usable, Making, Fetching, CutSteps
    <2> QED BY <2>1, <2>2, <2>3 DEF IInv
  <1>7. CASE CheckTiles
    <2>1. TypeOK'
      BY <1>7 DEF CheckTiles, AfterCheck, AfterPython, Rebuilding, IInv, TypeOK
    <2>2. Usable'
      BY <1>7 DEF CheckTiles, AfterCheck, AfterPython, Rebuilding, IInv, TypeOK, Cleared, Usable,
         Making, Fetching, CutSteps
    <2>3. Healing'
      BY <1>7 DEF CheckTiles, AfterCheck, AfterPython, Rebuilding, IInv, TypeOK, Cleared,
         Healing, Making, Fetching
    <2>4. Paths' /\ Networks' /\ Cleared'
      BY <1>7 DEF CheckTiles, AfterCheck, AfterPython, Rebuilding, IInv, Paths, Networks,
         Cleared, Making, Fetching
    <2> QED BY <2>1, <2>2, <2>3, <2>4 DEF IInv
  <1>8. CASE Clear
    <2>1. TypeOK'
      <3>1. TypeOK /\ UNCHANGED <<config, geojson, net, mode, pass, got, answered, api, history>>
        BY <1>8 DEF Clear, RemoveTile, IInv
      <3>2. pc' \in {pc, "reconfig"} /\ pbf' \in {pbf, Absent} /\ edited' \in {edited, FALSE}
        BY <1>8 DEF Clear, AfterClear
      <3>3. tiles' \subseteq tiles /\ elevated' \subseteq tiles'
        BY <1>8, <3>1 DEF Clear, RemoveTile, TypeOK
      <3>4. nested' \subseteq nested /\ flat' \subseteq flat
        BY <1>8 DEF Clear, RemoveHgt
      <3>5. pc' \in Step /\ edited' \in BOOLEAN /\ pbf' \in (SUBSET Chunks) \cup {Absent, Torn}
        BY <1>8, <3>1, <3>2 DEF Clear, TypeOK
      <3>6. setBack' \in BOOLEAN /\ api' \in BOOLEAN
        BY <3>1, Zenon DEF TypeOK
      <3>7. /\ tiles' \subseteq Areas /\ nested' \subseteq Areas /\ flat' \subseteq Areas
            /\ elevated' \subseteq tiles'
        BY <3>1, <3>3, <3>4 DEF TypeOK
      <3> QED BY <3>1, <3>5, <3>6, <3>7 DEF TypeOK
    <2>2. Usable'
      BY <1>8 DEF Clear, RemoveTile, RemoveHgt, AfterClear, IInv, TypeOK, Paths, Cleared, Usable,
         Making, Fetching, CutSteps
    <2>3. Paths' /\ Networks' /\ Cleared' /\ Healing'
      BY <1>8 DEF Clear, RemoveTile, RemoveHgt, AfterClear, IInv, Paths, Networks, Cleared,
         Healing, Making, Fetching
    <2> QED BY <2>1, <2>2, <2>3 DEF IInv
  <1>9. CASE LoadGeojson
    <2>1. TypeOK'
      BY <1>9 DEF LoadGeojson, HeadIsValid, Rebuilding, IInv, TypeOK
    <2>2. Networks'
      BY <1>9 DEF LoadGeojson, HeadIsValid, Rebuilding, IInv, TypeOK, Networks
    <2>3. Healing'
      BY <1>9 DEF LoadGeojson, HeadIsValid, Rebuilding, IInv, TypeOK, Healing, Making, Fetching
    <2>4. Paths' /\ Cleared' /\ Usable'
      BY <1>9 DEF LoadGeojson, HeadIsValid, Rebuilding, IInv, Paths, Cleared, Usable, Making,
         Fetching, CutSteps
    <2> QED BY <2>1, <2>2, <2>3, <2>4 DEF IInv
  <1>10. CASE LoadTornGeojson
    <2>1. TypeOK'
      BY <1>10 DEF LoadTornGeojson, Rebuilding, IInv, TypeOK
    <2>2. Paths' /\ Networks' /\ Cleared' /\ Usable' /\ Healing'
      BY <1>10 DEF LoadTornGeojson, Rebuilding, IInv, Paths, Networks, Cleared, Usable, Healing,
         Making, Fetching, CutSteps
    <2> QED BY <2>1, <2>2 DEF IInv
  <1>11. CASE FetchObjectIds
    <2>1. TypeOK'
      BY <1>11 DEF FetchObjectIds, HeadIsValid, Rebuilding, IInv, TypeOK
    <2>2. Healing'
      BY <1>11 DEF FetchObjectIds, HeadIsValid, Rebuilding, IInv, TypeOK, Healing, Making,
         Fetching
    <2>3. Paths' /\ Networks' /\ Cleared' /\ Usable'
      BY <1>11 DEF FetchObjectIds, HeadIsValid, Rebuilding, IInv, Paths, Networks, Cleared,
         Usable, Making, Fetching, CutSteps
    <2> QED BY <2>1, <2>2, <2>3 DEF IInv
  <1>12. ASSUME NEW c \in Chunks, FetchChunk(c) PROVE IInv'
    <2>1. TypeOK'
      BY <1>12 DEF FetchChunk, IInv, TypeOK
    <2>2. Paths' /\ Networks' /\ Cleared' /\ Usable' /\ Healing'
      BY <1>12 DEF FetchChunk, IInv, Paths, Networks, Cleared, Usable, Healing, Making, Fetching,
         CutSteps
    <2> QED BY <2>1, <2>2 DEF IInv
  <1>13. ASSUME NEW c \in Chunks, FetchEmptyChunk(c) PROVE IInv'
    <2>1. TypeOK'
      BY <1>13 DEF FetchEmptyChunk, IInv, TypeOK
    <2>2. Paths' /\ Networks' /\ Cleared' /\ Usable' /\ Healing'
      BY <1>13 DEF FetchEmptyChunk, IInv, Paths, Networks, Cleared, Usable, Healing, Making,
         Fetching, CutSteps
    <2> QED BY <2>1, <2>2 DEF IInv
  <1>14. CASE Downloaded
    <2>1. TypeOK'
      BY <1>14 DEF Downloaded, AllAnswered, IInv, TypeOK
    <2>2. Paths' /\ Networks' /\ Cleared' /\ Usable' /\ Healing'
      BY <1>14 DEF Downloaded, AllAnswered, IInv, Paths, Networks, Cleared, Usable, Healing,
         Making, Fetching, CutSteps
    <2> QED BY <2>1, <2>2 DEF IInv
  <1>15. CASE OpenGeojson
    <2>1. TypeOK'
      BY <1>15 DEF OpenGeojson, IInv, TypeOK
    <2>2. Paths' /\ Networks' /\ Cleared' /\ Usable' /\ Healing'
      BY <1>15 DEF OpenGeojson, IInv, Paths, Networks, Cleared, Usable, Healing, Making,
         Fetching, CutSteps
    <2> QED BY <2>1, <2>2 DEF IInv
  <1>16. CASE WriteGeojson
    <2>1. TypeOK'
      BY <1>16 DEF WriteGeojson, IInv, TypeOK
    <2>2. Networks'
      BY <1>16 DEF WriteGeojson, IInv, TypeOK, Networks
    <2>3. Paths' /\ Cleared' /\ Usable' /\ Healing'
      BY <1>16 DEF WriteGeojson, IInv, Paths, Cleared, Usable, Healing, Making, Fetching, CutSteps
    <2> QED BY <2>1, <2>2, <2>3 DEF IInv
  <1>17. CASE Convert
    <2>1. TypeOK'
      BY <1>17 DEF Convert, IInv, TypeOK
    <2>2. Usable'
      BY <1>17 DEF Convert, IInv, TypeOK, Cleared, Usable, Making, Fetching, CutSteps
    <2>3. Paths' /\ Networks' /\ Cleared' /\ Healing'
      BY <1>17 DEF Convert, IInv, Paths, Networks, Cleared, Healing, Making, Fetching
    <2> QED BY <2>1, <2>2, <2>3 DEF IInv
  <1>18. CASE Sort
    <2>1. TypeOK'
      BY <1>18 DEF Sort, AfterPython, IInv, TypeOK, Networks
    <2>2. Usable'
      BY <1>18 DEF Sort, AfterPython, IInv, TypeOK, Cleared, Usable, Making, Fetching, CutSteps
    <2>3. Healing'
      BY <1>18 DEF Sort, AfterPython, IInv, TypeOK, Cleared, Healing, Making, Fetching
    <2>4. Paths' /\ Networks' /\ Cleared'
      BY <1>18 DEF Sort, AfterPython, IInv, Paths, Networks, Cleared, Making, Fetching
    <2> QED BY <2>1, <2>2, <2>3, <2>4 DEF IInv
  <1>19. ASSUME NEW a \in Areas, BuildTile(a) PROVE IInv'
    <2>1. TypeOK'
      BY <1>19 DEF BuildTile, IInv, TypeOK, Networks
    <2>2. Usable'
      BY <1>19 DEF BuildTile, IInv, TypeOK, Networks, Usable, CutSteps
    <2>3. Paths' /\ Networks' /\ Cleared' /\ Healing'
      BY <1>19 DEF BuildTile, IInv, Paths, Networks, Cleared, Healing, Making, Fetching
    <2> QED BY <2>1, <2>2, <2>3 DEF IInv
  <1>20. CASE Built
    <2>1. TypeOK'
      BY <1>20 DEF Built, AfterPython, IInv, TypeOK
    <2>2. Usable'
      BY <1>20 DEF Built, AfterPython, IInv, TypeOK, Networks, Usable, CutSteps
    <2>3. Healing'
      BY <1>20 DEF Built, AfterPython, IInv, TypeOK, Healing, Making, Fetching
    <2>4. Paths' /\ Networks' /\ Cleared'
      BY <1>20 DEF Built, AfterPython, IInv, Paths, Networks, Cleared, Making, Fetching
    <2> QED BY <2>1, <2>2, <2>3, <2>4 DEF IInv
  <1>21. CASE BuildFails
    <2>1. TypeOK'
      BY <1>21 DEF BuildFails, IInv, TypeOK
    <2>2. Paths' /\ Networks' /\ Cleared' /\ Usable' /\ Healing'
      BY <1>21 DEF BuildFails, IInv, Paths, Networks, Cleared, Usable, Healing, Making, Fetching,
         CutSteps
    <2> QED BY <2>1, <2>2 DEF IInv
  <1>22. CASE Flatten
    <2>1. TypeOK'
      BY <1>22 DEF Flatten, IInv, TypeOK
    <2>2. Paths' /\ Networks' /\ Cleared' /\ Usable' /\ Healing'
      BY <1>22 DEF Flatten, IInv, Paths, Networks, Cleared, Usable, Healing, Making, Fetching,
         CutSteps
    <2> QED BY <2>1, <2>2 DEF IInv
  <1>23. CASE LookForElevation
    <2>1. TypeOK'
      BY <1>23 DEF LookForElevation, IInv, TypeOK
    <2>2. Healing'
      BY <1>23 DEF LookForElevation, IInv, TypeOK, Paths, Cleared, Healing, Making, Fetching
    <2>3. Paths' /\ Networks' /\ Cleared' /\ Usable'
      BY <1>23 DEF LookForElevation, IInv, Paths, Networks, Cleared, Usable, Making, Fetching,
         CutSteps
    <2> QED BY <2>1, <2>2, <2>3 DEF IInv
  <1>24. CASE FetchElevation
    <2>1. TypeOK'
      BY <1>24 DEF FetchElevation, IInv, TypeOK
    <2>2. Paths' /\ Networks' /\ Cleared' /\ Usable' /\ Healing'
      BY <1>24 DEF FetchElevation, IInv, Paths, Networks, Cleared, Usable, Healing, Making,
         Fetching, CutSteps
    <2> QED BY <2>1, <2>2 DEF IInv
  <1>25. CASE FetchElevationFails
    <2>1. TypeOK'
      BY <1>25 DEF FetchElevationFails, IInv, TypeOK
    <2>2. Paths' /\ Networks' /\ Cleared' /\ Usable' /\ Healing'
      BY <1>25 DEF FetchElevationFails, IInv, Paths, Networks, Cleared, Usable, Healing, Making,
         Fetching, CutSteps
    <2> QED BY <2>1, <2>2 DEF IInv
  <1>26. CASE Untile
    <2>1. TypeOK'
      BY <1>26 DEF Untile, RemoveTile, TilesRemoved, IInv, TypeOK
    <2>2. Paths' /\ Networks' /\ Cleared' /\ Usable' /\ Healing'
      BY <1>26 DEF Untile, RemoveTile, TilesRemoved, IInv, Paths, Networks, Cleared, Usable,
         Healing, Making, Fetching, CutSteps
    <2> QED BY <2>1, <2>2 DEF IInv
  <1>27. ASSUME NEW m \in {"plain", "tiles", "all"}, Start(m) PROVE IInv'
    <2>1. TypeOK'
      BY <1>27 DEF Start, IInv, TypeOK
    <2>2. Paths' /\ Networks' /\ Cleared' /\ Usable' /\ Healing'
      BY <1>27 DEF Start, IInv, Paths, Networks, Cleared, Usable, Healing, Making, Fetching,
         CutSteps
    <2> QED BY <2>1, <2>2 DEF IInv
  <1>28. CASE CutShort
    <2>1. TypeOK'
      BY <1>28, CutIsRemembered DEF CutShort, IInv, TypeOK, Paths, Networks, Cleared, Usable,
         Healing, Making, Fetching
    <2>2. Paths' /\ Networks' /\ Cleared' /\ Usable' /\ Healing'
      BY <1>28, CutIsRemembered DEF CutShort, IInv, Paths, Networks, Cleared, Usable, Healing,
         Making, Fetching
    <2> QED BY <2>1, <2>2 DEF IInv
  <1>29. CASE ApiStarts
    <2>1. TypeOK'
      BY <1>29 DEF ApiStarts, IInv, TypeOK
    <2>2. Paths' /\ Networks' /\ Cleared' /\ Usable' /\ Healing'
      BY <1>29 DEF ApiStarts, IInv, Paths, Networks, Cleared, Usable, Healing, Making, Fetching,
         CutSteps
    <2> QED BY <2>1, <2>2 DEF IInv
  <1>30. CASE ApiEdits
    <2>1. TypeOK'
      BY <1>30 DEF ApiEdits, IInv, TypeOK
    <2>2. Paths' /\ Networks' /\ Cleared' /\ Usable' /\ Healing'
      BY <1>30 DEF ApiEdits, IInv, Paths, Networks, Cleared, Usable, Healing, Making, Fetching,
         CutSteps
    <2> QED BY <2>1, <2>2 DEF IInv
  <1>31. CASE Stop
    <2>1. TypeOK'
      BY <1>31 DEF Stop, IInv, TypeOK
    <2>2. Paths' /\ Networks' /\ Cleared' /\ Usable' /\ Healing'
      BY <1>31 DEF Stop, IInv, Paths, Networks, Cleared, Usable, Healing, Making, Fetching,
         CutSteps
    <2> QED BY <2>1, <2>2 DEF IInv
  <1> QED
    BY <1>0, <1>1, <1>2, <1>3, <1>4, <1>5, <1>6, <1>7, <1>8, <1>9, <1>10, <1>11, <1>12, <1>13,
       <1>14, <1>15, <1>16, <1>17, <1>18, <1>19, <1>20, <1>21, <1>22, <1>23, <1>24, <1>25,
       <1>26, <1>27, <1>28, <1>29, <1>30, <1>31
       DEF Next, Container, Environment

LEMMA Inductive == Spec => []IInv
  BY InitIInv, NextIInv, PTL DEF Spec

\* A cut is remembered with whether there was elevation: what the properties allow.
LEMMA CutIsAllowed ==
    ASSUME TypeOK, Placed, CutShort
    PROVE  /\ NoUnsafeCut' => NoUnsafeCut /\ pc \in SafeToCut
           /\ OneCutAside' => cuts = 0 /\ NoUnsafeCut
                              /\ (pc \in {"build", "untile", "wipe"} => flat = {})
           /\ cuts' # 0
  <1>1. cutIn' = cutIn \cup {<<pc, flat # {}>>} /\ cuts' = cuts + 1 /\ cuts \in Nat
    BY DEF CutShort, TypeOK
  <1>2. ASSUME OneCutAside', pc \in {"build", "untile", "wipe"}, flat # {} PROVE FALSE
    <2>1. <<pc, flat # {}>> \in cutIn' /\ <<pc, flat # {}>> \in {"build", "untile", "wipe"} \X {TRUE}
      BY <1>1, <1>2
    <2> QED BY <1>2, <2>1 DEF OneCutAside
  <1>3. NoUnsafeCut' => NoUnsafeCut /\ pc \in SafeToCut
    <2>1. ASSUME NoUnsafeCut' PROVE pc \in SafeToCut
      <3>1. <<pc, flat # {}>> \in SafeToCut \X BOOLEAN
        BY <1>1, <2>1 DEF NoUnsafeCut
      <3> QED BY <3>1
    <2> QED BY <1>1, <2>1 DEF NoUnsafeCut
  <1>4. OneCutAside' => cuts = 0
    BY <1>1 DEF OneCutAside
  <1>5. cuts = 0 => NoUnsafeCut
    BY DEF Placed, NoUnsafeCut
  <1> QED BY <1>1, <1>2, <1>3, <1>4, <1>5

\* Every step keeps the elevation where it belongs.
LEMMA PlacedKept ==
    ASSUME IInv, Placed, [Next]_vars
    PROVE  Placed'
  <1> USE FilesAssumption
      DEF Goto, Unchanged, netFiles, tileFiles, hgtFiles, download, history, Step
  <1>0. TypeOK /\ Paths /\ Networks /\ Cleared /\ Usable
    BY DEF IInv
  <1>1. CASE Wipe \/ Wiped
    BY <1>0, <1>1 DEF Wipe, Wiped, RemoveHgt, Placed
  <1>2. CASE Unelevate
    BY <1>0, <1>2 DEF Unelevate, RemoveHgt, Placed
  <1>3. CASE KeepConfig \/ OpenConfig \/ DumpConfig
    BY <1>0, <1>3 DEF KeepConfig, OpenConfig, DumpConfig, Placed
  <1>4. CASE CheckTiles
    BY <1>0, <1>4 DEF CheckTiles, AfterCheck, AfterPython, Placed
  <1>5. CASE Clear
    BY <1>0, <1>5 DEF Clear, RemoveHgt, Placed
  <1>6. CASE LoadGeojson \/ LoadTornGeojson \/ FetchObjectIds
    BY <1>0, <1>6 DEF LoadGeojson, LoadTornGeojson, FetchObjectIds, Placed
  <1>7. CASE \E c \in Chunks : FetchChunk(c) \/ FetchEmptyChunk(c)
    BY <1>0, <1>7 DEF FetchChunk, FetchEmptyChunk, Placed
  <1>8. CASE Downloaded \/ OpenGeojson \/ WriteGeojson
    BY <1>0, <1>8 DEF Downloaded, OpenGeojson, WriteGeojson, Placed
  <1>9. CASE Convert \/ Sort
    BY <1>0, <1>9 DEF Convert, Sort, AfterPython, Placed
  <1>10. CASE \E a \in Areas : BuildTile(a)
    BY <1>0, <1>10 DEF BuildTile, Placed
  <1>11. CASE Built \/ BuildFails
    BY <1>0, <1>11 DEF Built, BuildFails, AfterPython, Placed
  <1>12. CASE Flatten
    BY <1>0, <1>12 DEF Flatten, Placed
  <1>13. CASE LookForElevation \/ FetchElevation \/ FetchElevationFails
    BY <1>0, <1>13 DEF LookForElevation, FetchElevation, FetchElevationFails, Placed
  <1>14. CASE Untile
    BY <1>0, <1>14 DEF Untile, Placed
  <1>15. CASE \E m \in {"plain", "tiles", "all"} : Start(m)
    BY <1>0, <1>15 DEF Start, Placed
  <1>16. CASE CutShort
    BY <1>0, <1>16, CutIsAllowed DEF CutShort, Placed
  <1>17. CASE ApiStarts \/ ApiEdits \/ Stop
    BY <1>0, <1>17 DEF ApiStarts, ApiEdits, Stop, Placed
  <1>18. CASE UNCHANGED vars
    BY <1>18 DEF vars, Placed
  <1> QED
    BY <1>1, <1>2, <1>3, <1>4, <1>5, <1>6, <1>7, <1>8, <1>9, <1>10, <1>11, <1>12, <1>13,
       <1>14, <1>15, <1>16, <1>17, <1>18 DEF Next, Container, Environment

\* ... the graph and its elevation complete, unless it is cut short where it must not.
LEMMA CompleteKept ==
    ASSUME IInv, Placed, Complete, [Next]_vars
    PROVE  Complete'
  <1> USE FilesAssumption
      DEF Goto, Unchanged, netFiles, tileFiles, hgtFiles, download, history, Step
  <1>0. TypeOK /\ Paths /\ Networks /\ Cleared /\ Usable
    BY DEF IInv
  <1>1. CASE Wipe \/ Wiped
    BY <1>0, <1>1 DEF Wipe, Wiped, RemoveHgt, Complete, NoUnsafeCut, Paths, Making
  <1>2. CASE Unelevate
    BY <1>0, <1>2 DEF Unelevate, RemoveHgt, ElevationRemoved, Complete, NoUnsafeCut, Paths,
       Making
  <1>3. CASE KeepConfig \/ OpenConfig \/ DumpConfig
    BY <1>0, <1>3 DEF KeepConfig, OpenConfig, DumpConfig, Complete, NoUnsafeCut
  <1>4. CASE CheckTiles
    BY <1>0, <1>4 DEF CheckTiles, AfterCheck, AfterPython, Complete, NoUnsafeCut, TypeOK
  <1>5. CASE Clear
    BY <1>0, <1>5 DEF Clear, AfterClear, Complete, TypeOK, Paths, Cleared, Making
  <1>6. CASE LoadGeojson \/ LoadTornGeojson \/ FetchObjectIds
    BY <1>0, <1>6 DEF LoadGeojson, LoadTornGeojson, FetchObjectIds, HeadIsValid, Rebuilding,
       Complete, NoUnsafeCut, Cleared, Making
  <1>7. CASE \E c \in Chunks : FetchChunk(c) \/ FetchEmptyChunk(c)
    BY <1>0, <1>7 DEF FetchChunk, FetchEmptyChunk, Complete, NoUnsafeCut
  <1>8. CASE Downloaded \/ OpenGeojson \/ WriteGeojson
    BY <1>0, <1>8 DEF Downloaded, OpenGeojson, WriteGeojson, Complete, NoUnsafeCut, Cleared,
       Making
  <1>9. CASE Convert \/ Sort
    BY <1>0, <1>9 DEF Convert, Sort, AfterPython, Complete, NoUnsafeCut, TypeOK
  <1>10. CASE \E a \in Areas : BuildTile(a)
    BY <1>0, <1>10 DEF BuildTile, Complete, NoUnsafeCut
  <1>11. CASE Built \/ BuildFails
    BY <1>0, <1>11 DEF Built, BuildFails, AfterPython, Placed, Complete, NoUnsafeCut, TypeOK
  <1>12. CASE Flatten
    BY <1>0, <1>12 DEF Flatten, Placed, Complete, NoUnsafeCut, Cleared, Fetching
  <1>13. CASE LookForElevation \/ FetchElevation \/ FetchElevationFails
    BY <1>0, <1>13 DEF LookForElevation, FetchElevation, FetchElevationFails, Placed,
       Complete, NoUnsafeCut
  <1>14. CASE Untile
    BY <1>0, <1>14 DEF Untile, RemoveTile, TilesRemoved, Placed, Complete, NoUnsafeCut,
       TypeOK, Paths, Networks, Cleared, Usable, Making, Fetching
  <1>15. CASE \E m \in {"plain", "tiles", "all"} : Start(m)
    BY <1>0, <1>15 DEF Start, Complete, NoUnsafeCut
  <1>16. CASE CutShort
    <2> SUFFICES ASSUME NoUnsafeCut' PROVE Complete'
      BY DEF Complete
    <2>1. NoUnsafeCut /\ pc \in SafeToCut
      BY <1>0, <1>16, CutIsAllowed
    <2> QED
      BY <1>0, <1>16, <2>1 DEF CutShort, SafeToCut, Complete
  <1>17. CASE ApiStarts \/ ApiEdits \/ Stop
    <2>1. CASE ApiStarts \/ ApiEdits
      BY <1>0, <2>1 DEF ApiStarts, ApiEdits, Complete, NoUnsafeCut
    <2>2. CASE Stop /\ UNCHANGED <<tiles, elevated>>
      BY <1>0, <2>2 DEF Stop, Complete, NoUnsafeCut
    <2>3. CASE Stop /\ tiles' = {} /\ elevated' = {}
      BY <1>0, <2>3 DEF Stop, Complete, NoUnsafeCut
    <2> QED BY <1>17, <2>1, <2>2, <2>3 DEF Stop
  <1>18. CASE UNCHANGED vars
    BY <1>18 DEF vars, Complete, NoUnsafeCut
  <1> QED
    BY <1>1, <1>2, <1>3, <1>4, <1>5, <1>6, <1>7, <1>8, <1>9, <1>10, <1>11, <1>12, <1>13,
       <1>14, <1>15, <1>16, <1>17, <1>18 DEF Next, Container, Environment

\* ... the graph complete or about to be built again.
LEMMA MendedKept ==
    ASSUME IInv, Placed, Complete, Mended, [Next]_vars
    PROVE  Mended'
  <1> USE FilesAssumption
      DEF Goto, Unchanged, netFiles, tileFiles, hgtFiles, download, history, Step
  <1>0. TypeOK /\ Paths /\ Networks /\ Cleared /\ Usable
    BY DEF IInv
  <1>1. CASE Wipe \/ Wiped
    BY <1>0, <1>1 DEF Wipe, Wiped, Mended
  <1>2. CASE Unelevate
    BY <1>0, <1>2 DEF Unelevate, RemoveHgt, ElevationRemoved, Placed, Mended, OneCutAside,
       TypeOK, Paths, Networks, Cleared, Usable, Making, Fetching
  <1>3. CASE KeepConfig \/ OpenConfig \/ DumpConfig
    BY <1>0, <1>3 DEF KeepConfig, OpenConfig, DumpConfig, Placed, Mended, OneCutAside, TypeOK,
       Paths, Networks, Cleared, Usable, Making, Fetching
  <1>4. CASE CheckTiles
    BY <1>0, <1>4 DEF CheckTiles, AfterCheck, AfterPython, Rebuilding, Placed, Mended,
       OneCutAside, TypeOK, Paths, Networks, Cleared, Usable, Making, Fetching
  <1>5. CASE Clear
    BY <1>0, <1>5 DEF Clear, AfterClear, Mended, TypeOK, Paths, Cleared
  <1>6. CASE LoadGeojson \/ LoadTornGeojson \/ FetchObjectIds
    BY <1>0, <1>6 DEF LoadGeojson, LoadTornGeojson, FetchObjectIds, Mended, Cleared, Making
  <1>7. CASE \E c \in Chunks : FetchChunk(c) \/ FetchEmptyChunk(c)
    BY <1>0, <1>7 DEF FetchChunk, FetchEmptyChunk, Mended, Cleared, Making
  <1>8. CASE Downloaded \/ OpenGeojson \/ WriteGeojson
    BY <1>0, <1>8 DEF Downloaded, OpenGeojson, WriteGeojson, Mended, Cleared, Making
  <1>9. CASE Convert \/ Sort
    BY <1>0, <1>9 DEF Convert, Sort, Mended, Cleared, Making
  <1>10. CASE \E a \in Areas : BuildTile(a)
    BY <1>0, <1>10 DEF BuildTile, Mended
  <1>11. CASE Built \/ BuildFails
    BY <1>0, <1>11 DEF Built, BuildFails, Placed, Mended
  <1>12. CASE Flatten
    BY <1>0, <1>12 DEF Flatten, Placed, Mended, OneCutAside, TypeOK, Paths, Networks, Cleared,
       Usable, Making, Fetching
  <1>13. CASE LookForElevation \/ FetchElevation \/ FetchElevationFails
    BY <1>0, <1>13 DEF LookForElevation, FetchElevation, FetchElevationFails, Placed, Mended,
       OneCutAside, TypeOK, Paths, Networks, Cleared, Usable, Making, Fetching
  <1>14. CASE Untile
    BY <1>0, <1>14 DEF Untile, TilesRemoved, Mended
  <1>15. CASE \E m \in {"plain", "tiles", "all"} : Start(m)
    BY <1>0, <1>15 DEF Start, Placed, Mended, OneCutAside, TypeOK, Paths, Networks, Cleared,
       Usable, Making, Fetching
  <1>16. CASE CutShort
    <2> SUFFICES ASSUME OneCutAside' PROVE Mended'
      BY DEF Mended
    <2>1. /\ cuts = 0 /\ NoUnsafeCut
          /\ pc \in {"build", "untile", "wipe"} => flat = {}
      BY <1>0, <1>16, CutIsAllowed
    <2>2. CASE pc = "clear"
      <3>1. nested \cup flat = {}
        BY <1>0, <2>2 DEF TypeOK, Paths, Cleared, Making
      <3> QED BY <1>16, <3>1 DEF CutShort, Mended
    <2>3. CASE pc \in {"build", "untile", "wipe"}
      BY <1>16, <2>1, <2>3 DEF CutShort, Complete, Mended
    <2>4. CASE pc \notin {"clear", "build", "untile", "wipe"}
      <3>1. tiles = {} \/ tiles = Covers(net)
        BY <2>1, <2>4 DEF Complete
      <3> QED BY <1>16, <3>1 DEF CutShort, Mended
    <2> QED BY <2>2, <2>3, <2>4
  <1>17. CASE ApiStarts \/ ApiEdits \/ Stop
    BY <1>0, <1>17 DEF ApiStarts, ApiEdits, Stop, Placed, Mended, OneCutAside, TypeOK, Paths,
       Networks, Cleared, Usable, Making, Fetching
  <1>18. CASE UNCHANGED vars
    BY <1>18 DEF vars, Placed, Mended, OneCutAside, Making, Fetching
  <1> QED
    BY <1>1, <1>2, <1>3, <1>4, <1>5, <1>6, <1>7, <1>8, <1>9, <1>10, <1>11, <1>12, <1>13,
       <1>14, <1>15, <1>16, <1>17, <1>18 DEF Next, Container, Environment

\* ... and a plain start without anything to make.
LEMMA CalmKept ==
    ASSUME IInv, Placed, Complete, Calm, [Next]_vars
    PROVE  Calm'
  <1> USE FilesAssumption
      DEF Goto, Unchanged, netFiles, tileFiles, hgtFiles, download, history, Step
  <1>0. TypeOK /\ Paths /\ Networks /\ Cleared /\ Usable
    BY DEF IInv
  <1>1. CASE Wipe \/ Wiped
    BY <1>0, <1>1 DEF Wipe, Wiped, Calm
  <1>2. CASE Unelevate
    BY <1>0, <1>2 DEF Unelevate, Calm
  <1>3. CASE KeepConfig \/ OpenConfig \/ DumpConfig
    BY <1>0, <1>3 DEF KeepConfig, OpenConfig, DumpConfig, Calm
  <1>4. CASE CheckTiles
    BY <1>0, <1>4 DEF CheckTiles, AfterCheck, AfterPython, Rebuilding, Calm
  <1>5. CASE Clear
    BY <1>0, <1>5 DEF Clear, AfterClear, Calm
  <1>6. CASE LoadGeojson \/ LoadTornGeojson \/ FetchObjectIds
    BY <1>0, <1>6 DEF LoadGeojson, LoadTornGeojson, FetchObjectIds, Calm
  <1>7. CASE \E c \in Chunks : FetchChunk(c) \/ FetchEmptyChunk(c)
    BY <1>0, <1>7 DEF FetchChunk, FetchEmptyChunk, Calm
  <1>8. CASE Downloaded \/ OpenGeojson \/ WriteGeojson
    BY <1>0, <1>8 DEF Downloaded, OpenGeojson, WriteGeojson, Calm, TypeOK
  <1>9. CASE Convert \/ Sort
    BY <1>0, <1>9 DEF Convert, Sort, AfterPython, Calm
  <1>10. CASE \E a \in Areas : BuildTile(a)
    BY <1>0, <1>10 DEF BuildTile, Calm
  <1>11. CASE Built \/ BuildFails
    <2>1. pc = "build" /\ lost # Chunks => Covers(pbf) # {}
      <3> SUFFICES ASSUME pc = "build", lost # Chunks PROVE Covers(pbf) # {}
        OBVIOUS
      <3>1. PICK c \in Chunks : c \notin lost
        BY <1>0 DEF TypeOK
      <3>2. c \in pbf
        BY <1>0, <3>1 DEF Networks
      <3>3. PICK a \in Areas : a \in Spans[c]
        BY SpansAssumption
      <3> QED BY <3>2, <3>3 DEF Covers
    <2> QED
      BY <1>0, <1>11, <2>1 DEF Built, BuildFails, AfterPython, Calm, TypeOK
  <1>12. CASE Flatten
    BY <1>0, <1>12 DEF Flatten, Calm
  <1>13. CASE LookForElevation \/ FetchElevation \/ FetchElevationFails
    BY <1>0, <1>13 DEF LookForElevation, FetchElevation, FetchElevationFails, Calm, TypeOK
  <1>14. CASE Untile
    BY <1>0, <1>14 DEF Untile, Calm
  <1>15. CASE \E m \in {"plain", "tiles", "all"} : Start(m)
    <2>1. PICK m \in {"plain", "tiles", "all"} : Start(m)
      BY <1>15
    <2>2. /\ pc \in {"down", "failed"} /\ pc' \in {"wipe", "unelevate", "config"} /\ pass' = 1
          /\ m = "plain" <=> pc' = "config"
          /\ mode' = m /\ UNCHANGED <<config, geojson, edited, api, cuts, lost, tiles, flat>>
      BY <2>1 DEF Start
    <2>3. ~setBack' => ~setBack \/ tiles # {}
      BY <2>1, Zenon DEF Start
    <2> HIDE DEF Goto
    <2> QED BY <2>2, <2>3 DEF Calm
  <1>16. CASE CutShort
    BY <1>0, <1>16, CutIsAllowed DEF CutShort, Calm
  <1>17. CASE ApiStarts \/ ApiEdits \/ Stop
    BY <1>0, <1>17 DEF ApiStarts, ApiEdits, Stop, Placed, Complete, NoUnsafeCut, Calm, TypeOK,
       Cleared
  <1>18. CASE UNCHANGED vars
    BY <1>18 DEF vars, Calm
  <1> QED
    BY <1>1, <1>2, <1>3, <1>4, <1>5, <1>6, <1>7, <1>8, <1>9, <1>10, <1>11, <1>12, <1>13,
       <1>14, <1>15, <1>16, <1>17, <1>18 DEF Next, Container, Environment

\* An empty data directory, and every step from there.
LEMMA ServingInductive == Spec => [](IInv /\ Serving)
  <1>1. Init => Serving
    BY FilesAssumption DEF Init, Serving, Placed, Complete, Mended, Calm
  <1>2. IInv /\ Serving /\ [Next]_vars => Serving'
    BY PlacedKept, CompleteKept, MendedKept, CalmKept DEF Serving
  <1> QED BY <1>1, <1>2, InitIInv, NextIInv, PTL DEF Spec

-----------------------------------------------------------------------------
\* The data directory and the progress of a start are well typed.
THEOREM TypeCorrect == Spec => []TypeOK
  <1>1. IInv => TypeOK
    BY DEF IInv
  <1> QED BY <1>1, Inductive, PTL

\* bootstrap_tiles.py, main: wherever any number of starts have been cut short, the
\* server that comes up has a graph of the whole network but for lost chunks, and
\* it has a whole configuration and a whole PBF but where a removal was cut short.
THEOREM WholeIsServed == Spec => []ServedWhole
  <1>1. IInv => ServedWhole
    BY FilesAssumption DEF IInv, Networks, Cleared, Usable, ServedWhole
  <1> QED BY <1>1, Inductive, PTL

\* bootstrap_tiles.sh with REBUILD_TILES: a start that reaches the
\* server has replaced everything by what it has downloaded.
THEOREM RebuildsHeal == Spec => []RebuildHeals
  <1>1. IInv => RebuildHeals
    BY DEF IInv, Healing, RebuildHeals
  <1> QED BY <1>1, Inductive, PTL

\* bootstrap_tiles.sh and bootstrap_tiles.py: the graph that is served has all tiles,
\* and each its elevation, unless a start was cut short in one of a few steps; and one
\* cut alone leaves all tiles, except in a removal or a build beside elevation files.
THEOREM GraphIsComplete == Spec => []GraphComplete
  <1>1. IInv /\ Serving => GraphComplete
    <2>0. cuts = 1 => cuts <= 1
      OBVIOUS
    <2> SUFFICES ASSUME IInv, Serving, pc = "up"
                 PROVE  /\ NoUnsafeCut => tiles = Covers(net) /\ elevated = tiles
                        /\ OneCutAside => tiles = Covers(net)
      BY <2>0, Zenon DEF GraphComplete, NoUnsafeCut, OneCutAside
    <2>1. tiles # {}
      BY DEF IInv, Cleared
    <2> QED BY <2>1 DEF Serving, Complete, Mended
  <1> QED BY <1>1, ServingInductive, PTL

\* bootstrap_tiles.py: only a rebuild, a cut, an empty network, or tiles that a wipe or a
\* stop in the middle of a swap has left missing, have the PBF converted again once the api
\* may have edited it.
THEOREM EditsAreKept == Spec => EditsKept
  <1>1. IInv /\ Serving /\ [Next]_vars =>
           [edited /\ ~edited' => mode' # "plain" \/ cuts > 0 \/ lost = Chunks \/ setBack]_vars
    <2> SUFFICES ASSUME IInv, Serving, [Next]_vars, edited, ~edited', mode' = "plain",
                        cuts = 0, lost # Chunks, ~setBack
                 PROVE  FALSE
      BY DEF IInv, TypeOK
    <2>1. Wipe \/ Clear \/ Convert
      BY DEF Next, Container, Environment, vars, netFiles, Unchanged, Wipe, Wiped, Unelevate,
         KeepConfig, OpenConfig, DumpConfig, CheckTiles, Clear, LoadGeojson, LoadTornGeojson,
         FetchObjectIds, FetchChunk, FetchEmptyChunk, Downloaded, OpenGeojson, WriteGeojson,
         Convert, Sort, BuildTile, Built, BuildFails, Flatten, LookForElevation,
         FetchElevation, FetchElevationFails, Untile, Start, CutShort, ApiStarts, ApiEdits,
         Stop
    <2>2. mode = "plain" /\ pc \in {"wipe", "clear", "convert"}
      BY <2>1 DEF Wipe, Clear, Convert, Unchanged
    <2> QED BY <2>2 DEF Serving, Calm
  <1> QED BY <1>1, ServingInductive, PTL DEF Spec, EditsKept
=============================================================================

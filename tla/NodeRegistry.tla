----------------------------- MODULE NodeRegistry -----------------------------
(***************************************************************************)
(* The SQLite node registry and the conversions that use it:                *)
(* GeoJSONToOSMService.convert_features, run by the api container for every  *)
(* add, update and bulk upsert (one at a time, under _rebuild_lock) and by   *)
(* the valhalla container's bootstrap (no lock in common with the api).      *)
(*                                                                         *)
(* SQLite lets one connection hold a write transaction; Python's sqlite3     *)
(* opens one at the first UPDATE or INSERT and keeps it until commit(), and  *)
(* a connection that wants to write meanwhile gets "database is locked"      *)
(* after five seconds. Closing a connection rolls back what it has not       *)
(* committed.                                                              *)
(*                                                                         *)
(* A bootstrap that is asked for a rebuild deletes the database file first.  *)
(* An api conversion that has it open goes on with a file nobody else will    *)
(* ever open; that its journal has the name of the new database's is left    *)
(* out.                                                                    *)
(***************************************************************************)
EXTENDS Naturals, FiniteSets

CONSTANTS
    ApiConversions,   \* conversions by the api container, each run once
    BootConversions,  \* conversions by the valhalla container, each run once
    Coords,           \* coordinates, rounded to 7 decimals
    Features,         \* GeoJSON features with a geometry
    CoordsOf,         \* the coordinates of each feature
    OidOf,            \* the OBJECTID of each feature, or NoOid
    NoOid,            \* the feature has no OBJECTID
    Nobody            \* no connection holds a write transaction

Conversions == ApiConversions \cup BootConversions

ASSUME FeaturesAssumption == CoordsOf \in [Features -> (SUBSET Coords) \ {{}}]
ASSUME FiniteAssumption == IsFiniteSet(Coords) /\ IsFiniteSet(Features)
ASSUME NobodyAssumption == Nobody \notin Conversions

VARIABLES
    nodes,      \* committed: coordinate -> node ID, 0 when there is none
    nextNode,   \* committed: counter next_node_id
    nextWay,    \* committed: counter next_way_id
    ways,       \* committed: OBJECTIDs of the ways table
    writer,     \* the conversion whose connection has a write transaction open
    txNode, txWay,   \* the counters as that transaction sees them
    pc,         \* where each conversion is
    batch,      \* the features it converts
    mem,        \* the nodes it loaded into memory
    first,      \* the node ID next_node_id() returned to it
    fresh,      \* the IDs it gives to coordinates it did not find
    wayId,      \* the OSM way IDs it gives to features without OBJECTID
    osmNodes,   \* <<coordinate, node ID>> written to OSM files with this database
    osmWays,    \* [by, feature, id, kept] likewise, for features without OBJECTID;
                \* kept: the way counter was committed past the ID
    met         \* conversions of both containers have been in progress at once
                \* since this database was made

dbVars == <<nodes, nextNode, nextWay, ways>>
txVars == <<writer, txNode, txWay>>
localVars == <<batch, mem, first, fresh, wayId>>
osmVars == <<osmNodes, osmWays>>
vars == <<nodes, nextNode, nextWay, ways, writer, txNode, txWay, pc, batch, mem,
          first, fresh, wayId, osmNodes, osmWays, met>>

\* "cleared": the bootstrap has deleted the database; "detached": the file that the
\* conversion has open is deleted.
Label == {"new", "cleared", "load", "allocate", "convert", "flush", "register",
          "write", "detached", "done", "failed"}
Ids == [Coords -> Nat]
None == [c \in Coords |-> 0]

TypeOK ==
    /\ nodes \in Ids
    /\ nextNode \in Nat \ {0} /\ nextWay \in Nat \ {0}
    /\ ways \subseteq {OidOf[f] : f \in Features}
    /\ writer \in Conversions \cup {Nobody}
    /\ txNode \in Nat /\ txWay \in Nat
    /\ pc \in [Conversions -> Label]
    /\ batch \in [Conversions -> SUBSET Features]
    /\ mem \in [Conversions -> Ids]
    /\ first \in [Conversions -> Nat]
    /\ fresh \in [Conversions -> Ids]
    /\ wayId \in [Conversions -> [Features -> Nat]]
    /\ osmNodes \subseteq Coords \X Nat
    /\ osmWays \subseteq [by : Conversions, feature : Features, id : Nat, kept : BOOLEAN]
    /\ met \in BOOLEAN

\* The database NodeRegistry._bootstrap creates.
Init ==
    /\ nodes = None
    /\ nextNode = 1 /\ nextWay = 1
    /\ ways = {}
    /\ writer = Nobody /\ txNode = 0 /\ txWay = 0
    /\ pc = [k \in Conversions |-> "new"]
    /\ batch = [k \in Conversions |-> {}]
    /\ mem = [k \in Conversions |-> None]
    /\ first = [k \in Conversions |-> 0]
    /\ fresh = [k \in Conversions |-> None]
    /\ wayId = [k \in Conversions |-> [f \in Features |-> 0]]
    /\ osmNodes = {} /\ osmWays = {}
    /\ met = FALSE

Goto(k, label) == pc' = [pc EXCEPT ![k] = label]
InProgress(k) == pc[k] \notin {"new", "done", "failed"}
CoordsIn(B) == UNION {CoordsOf[f] : f \in B}
Anonymous(B) == {f \in B : OidOf[f] = NoOid}
Found(k) == {c \in Coords : mem[k][c] # 0}
Fresh(k) == {c \in Coords : fresh[k][c] # 0}

\* Distinct consecutive IDs from lo on for the members of S, 0 elsewhere.
Numberings(S, T, lo) ==
    {g \in [T -> {0} \cup lo..(lo + Cardinality(S))] :
        /\ \A x \in T : g[x] = 0 <=> x \notin S
        /\ \A x, y \in S : g[x] = g[y] => x = y
        /\ \A x \in S : g[x] < lo + Cardinality(S)}

Release == writer' = Nobody /\ txNode' = 0 /\ txWay' = 0

\* What convert_features holds in its local variables is gone when it is left.
Forget(k) ==
    /\ batch' = [batch EXCEPT ![k] = {}]
    /\ mem' = [mem EXCEPT ![k] = None]
    /\ first' = [first EXCEPT ![k] = 0]
    /\ fresh' = [fresh EXCEPT ![k] = None]
    /\ wayId' = [wayId EXCEPT ![k] = [f \in Features |-> 0]]

-----------------------------------------------------------------------------
AlwaysAlone(k) == TRUE

\* The lock of the api's jobs; the bootstrap is a single process.
Alone(k) == \A m \in Conversions \ {k} :
               InProgress(m) => (m \in ApiConversions) # (k \in ApiConversions)

\* A conversion of the other container is in progress.
Meets(k) == \E m \in Conversions \ {k} :
               InProgress(m) /\ (m \in ApiConversions) # (k \in ApiConversions)

\* bootstrap --rebuild: _clear_valhalla_data deletes the database with the network
\* and everything else that was made from it. What a conversion in progress commits
\* later is lost with the file, and so is what it has in its transaction.
Clear(k) ==
    /\ k \in BootConversions
    /\ pc[k] = "new"
    /\ Alone(k)
    /\ nodes' = None /\ nextNode' = 1 /\ nextWay' = 1 /\ ways' = {}
    /\ Release
    /\ pc' = [m \in Conversions |-> IF m = k THEN "cleared"
                                   ELSE IF InProgress(m) THEN "detached" ELSE pc[m]]
    /\ batch' = [m \in Conversions |-> {}]
    /\ mem' = [m \in Conversions |-> None]
    /\ first' = [m \in Conversions |-> 0]
    /\ fresh' = [m \in Conversions |-> None]
    /\ wayId' = [m \in Conversions |-> [f \in Features |-> 0]]
    /\ osmNodes' = {} /\ osmWays' = {}
    /\ met' = Meets(k)

\* It ends on the deleted file.
EndDetached(k) ==
    /\ pc[k] = "detached"
    /\ Goto(k, "done")
    /\ UNCHANGED <<dbVars, txVars, localVars, osmVars, met>>

\* NodeRegistry(path): _bootstrap's INSERT OR IGNORE needs the write lock briefly.
Open(k) ==
    /\ pc[k] \in {"new", "cleared"}
    /\ Alone(k)
    /\ writer = Nobody
    /\ \E B \in (SUBSET Features) \ {{}} : batch' = [batch EXCEPT ![k] = B]
    /\ Goto(k, "load")
    /\ met' = (met \/ Meets(k))
    /\ UNCHANGED <<dbVars, txVars, mem, first, fresh, wayId, osmVars>>

LoadIntoMemory(k) ==
    /\ pc[k] = "load"
    /\ mem' = [mem EXCEPT ![k] = nodes]
    /\ Goto(k, "allocate")
    /\ UNCHANGED <<dbVars, txVars, batch, first, fresh, wayId, osmVars, met>>

\* UPDATE counters ... RETURNING: opens the write transaction.
NextNodeId(k) ==
    /\ pc[k] = "allocate"
    /\ writer = Nobody
    /\ writer' = k
    /\ txNode' = nextNode + 1
    /\ txWay' = nextWay
    /\ first' = [first EXCEPT ![k] = nextNode]
    /\ Goto(k, "convert")
    /\ UNCHANGED <<dbVars, batch, mem, fresh, wayId, osmVars, met>>

\* The loop over the features: _get_or_create for every coordinate, and
\* _next_id("next_way_id"), in the open transaction, for every feature without
\* OBJECTID.
ConvertFeatures(k) ==
    /\ pc[k] = "convert"
    /\ LET missing == CoordsIn(batch[k]) \ Found(k)
           unnamed == Anonymous(batch[k])
       IN /\ \E g \in Numberings(missing, Coords, first[k]) :
                fresh' = [fresh EXCEPT ![k] = g]
          /\ \E g \in Numberings(unnamed, Features, txWay) :
                wayId' = [wayId EXCEPT ![k] = g]
          /\ txWay' = txWay + Cardinality(unnamed)
    /\ Goto(k, "flush")
    /\ UNCHANGED <<dbVars, writer, txNode, batch, mem, first, osmVars, met>>

InsertOrReplace(k) == [c \in Coords |-> IF fresh[k][c] # 0 THEN fresh[k][c] ELSE nodes[c]]

\* INSERT OR IGNORE: a coordinate keeps the ID it has.
InsertOrIgnore(k) == [c \in Coords |-> IF nodes[c] = 0 THEN fresh[k][c] ELSE nodes[c]]

CounterUnchanged(k) == txNode

CounterFromBatch(k) == Cardinality(Fresh(k)) - 1

\* UPDATE counters SET value = next_id, past every ID given out.
CounterAfter(k) == first[k] + Cardinality(Fresh(k))

CounterNotWritten(k) == nextWay

\* A commit makes every change of the transaction permanent, the way counter's too.
WayCounterAfter(k) == IF writer = k THEN txWay ELSE nextWay

FlushNodes(k) ==
    /\ pc[k] = "flush"
    /\ IF Fresh(k) = {}
       THEN UNCHANGED <<dbVars, txVars>>
       ELSE /\ nodes' = InsertOrIgnore(k)
            /\ nextNode' = CounterAfter(k)
            /\ nextWay' = WayCounterAfter(k)
            /\ Release
            /\ UNCHANGED ways
    /\ Goto(k, "register")
    /\ UNCHANGED <<localVars, osmVars, met>>

\* bulk_register_ways, in the transaction still open or in one of its own; both
\* end with a commit.
RegisterWays(k) ==
    /\ pc[k] = "register"
    /\ IF batch[k] = Anonymous(batch[k])
       THEN UNCHANGED <<dbVars, txVars>>
       ELSE /\ writer \in {k, Nobody}
            /\ ways' = ways \cup {OidOf[f] : f \in batch[k] \ Anonymous(batch[k])}
            /\ nextNode' = IF writer = k THEN txNode ELSE nextNode
            /\ nextWay' = WayCounterAfter(k)
            /\ Release
            /\ UNCHANGED nodes
    /\ Goto(k, "write")
    /\ UNCHANGED <<localVars, osmVars, met>>

NodeOf(k, c) == IF mem[k][c] # 0 THEN mem[k][c] ELSE fresh[k][c]

StillOpen(k) == writer

\* close() rolls back and releases the write lock.
Closed(k) == IF writer = k THEN Nobody ELSE writer

\* The OSM file, then NodeRegistry.__exit__: close().
WriteOsm(k) ==
    /\ pc[k] = "write"
    /\ osmNodes' = osmNodes \cup {<<c, NodeOf(k, c)>> : c \in CoordsIn(batch[k])}
    /\ osmWays' = osmWays \cup
          {[by |-> k, feature |-> f, id |-> wayId[k][f], kept |-> writer # k] :
              f \in Anonymous(batch[k])}
    /\ writer' = Closed(k)
    /\ Forget(k)
    /\ Goto(k, "done")
    /\ UNCHANGED <<dbVars, txNode, txWay, met>>

\* "database is locked", any other exception, or the end of the process.
Abandon(k) ==
    /\ InProgress(k)
    /\ writer' = Closed(k)
    /\ Forget(k)
    /\ Goto(k, "failed")
    /\ UNCHANGED <<dbVars, txNode, txWay, osmVars, met>>

Step(k) == \/ Clear(k) \/ EndDetached(k)
           \/ Open(k) \/ LoadIntoMemory(k) \/ NextNodeId(k) \/ ConvertFeatures(k)
           \/ FlushNodes(k) \/ RegisterWays(k) \/ WriteOsm(k) \/ Abandon(k)

Next == \E k \in Conversions : Step(k)

Spec == Init /\ [][Next]_vars

\* Threads are scheduled; a conversion that waits for the lock gets an answer.
FairSpec == Spec /\ \A k \in Conversions : WF_vars(Step(k))

-----------------------------------------------------------------------------
(* Correctness.                                                            *)

\* No two coordinates have the same node ID, and the committed counter is past
\* every ID in use: whatever is rolled back, an ID is never given out twice.
NodeIdsUnique ==
    /\ \A c, d \in Coords : nodes[c] = nodes[d] /\ nodes[c] # 0 => c = d
    /\ \A c \in Coords : nodes[c] < nextNode

\* "Node IDs are assigned once and never change" (node_registry.py), also when
\* two containers convert at the same time - but for a rebuild, which deletes the
\* registry at its beginning and only then, with every file that has the IDs.
NodeIdsNeverChange ==
    [][\/ \A c \in Coords : nodes[c] # 0 => nodes'[c] = nodes[c]
       \/ /\ \E k \in BootConversions : pc[k] = "new" /\ pc'[k] = "cleared"
          /\ osmNodes' = {} /\ osmWays' = {}]_vars

\* "Any two ways sharing an endpoint coordinate always get the same OSM node ID"
\* (node_registry.py): every node that was ever written to an OSM file is in the
\* registry under that ID, so all files agree on every coordinate. It is true of the
\* api's conversions, which _rebuild_lock keeps apart, and of the bootstraps', however
\* many of them are abandoned, as long as none of the one has overlapped with one of
\* the other since the registry was made.
OsmAgreesWhenApart == ~met => \A e \in osmNodes : nodes[e[1]] = e[2]

\* A feature without OBJECTID gets a way ID no other such feature has, provided its
\* conversion commits the counter at all: one that creates no node and registers no
\* way leaves the counter to the rollback of close().
WayIdsUnique ==
    \A e, g \in osmWays : e.kept /\ g.kept /\ e.id = g.id
                            => e.by = g.by /\ e.feature = g.feature

\* A conversion never leaves the registry locked behind it.
EveryConversionEnds ==
    \A k \in Conversions : pc[k] = "load" ~> pc[k] \in {"done", "failed"} /\ writer # k

=============================================================================

------------------------------ MODULE TileStore ------------------------------
(***************************************************************************)
(* What the valhalla container promises to the rest of the system, with    *)
(* everything inside it hidden: there is one routing graph, rebuild         *)
(* requests are served one at a time, a request that is answered "ok" has   *)
(* published a graph built from the network PBF as it was read after the    *)
(* request was taken up, and nothing else ever replaces the graph.          *)
(*                                                                         *)
(* TileRebuild implements this specification (its directories, its process  *)
(* and its failure handling are the detail); WayCrud uses it as its view of *)
(* the rebuild server.                                                      *)
(***************************************************************************)
EXTENDS Naturals

CONSTANTS
    Requests,   \* POST /rebuild calls, each used once
    MaxEdits,   \* bound: number of times the network PBF is rewritten
    Torn,       \* content that mixes two versions of the network PBF
    NoSource    \* nothing is being read

ASSUME MarkersAssumption == /\ Torn \notin Nat
                            /\ NoSource \notin Nat
                            /\ Torn # NoSource
ASSUME MaxEditsAssumption == MaxEdits \in Nat

VARIABLES
    pbf,        \* content of network.osm.pbf: a version, or Torn while being written
    edits,      \* number of completed rewrites: the latest version
    src,        \* what the running build has read of the PBF so far
    graph,      \* version of the PBF the routing graph was built from
    answer      \* fate of each request

storeVars == <<pbf, edits, src, graph, answer>>

Graph == Nat \cup {Torn}
Phase == {"unsent", "queued", "running", "published", "ok", "failed"}

TypeOK ==
    /\ pbf \in Graph
    /\ edits \in Nat
    /\ src \in Graph \cup {NoSource}
    /\ graph \in Graph
    /\ answer \in [Requests -> Phase]

Init ==
    /\ pbf = 0
    /\ edits = 0
    /\ src = NoSource
    /\ graph = 0
    /\ answer = [r \in Requests |-> "unsent"]

NeverBusy == FALSE

BusyWithBacklog == \E r \in Requests : answer[r] \in {"queued", "running", "published"}

\* A request is being served; the others wait in the listen backlog.
Busy == \E r \in Requests : answer[r] \in {"running", "published"}

-----------------------------------------------------------------------------
(* `osmium sort -o NETWORK_PBF --overwrite' truncates the file, then fills  *)
(* it. A build that is reading meanwhile may see parts of both versions.    *)

EditBegin ==
    /\ edits < MaxEdits
    /\ pbf # Torn
    /\ pbf' = Torn
    /\ src' \in (IF src = NoSource THEN {NoSource} ELSE {src, Torn})
    /\ UNCHANGED <<edits, graph, answer>>

\* A rewrite that may end with the network of the first start in place again.
EditOrReset ==
    /\ pbf = Torn
    /\ edits' = edits + 1
    /\ pbf' \in {0, edits + 1}
    /\ UNCHANGED <<src, graph, answer>>

EditEnd ==
    /\ pbf = Torn
    /\ edits' = edits + 1
    /\ pbf' = edits + 1
    /\ UNCHANGED <<src, graph, answer>>

Connect(r) ==
    /\ answer[r] = "unsent"
    /\ answer' = [answer EXCEPT ![r] = "queued"]
    /\ UNCHANGED <<pbf, edits, src, graph>>

Begin(r) ==
    /\ answer[r] = "queued"
    /\ ~Busy
    /\ answer' = [answer EXCEPT ![r] = "running"]
    /\ src' = pbf
    /\ UNCHANGED <<pbf, edits, graph>>

\* What the finished build has read.
Built == src

Publish(r) ==
    /\ answer[r] = "running"
    /\ answer' = [answer EXCEPT ![r] = "published"]
    /\ graph' = Built
    /\ src' = NoSource
    /\ UNCHANGED <<pbf, edits>>

Succeed(r) ==
    /\ answer[r] = "published"
    /\ answer' = [answer EXCEPT ![r] = "ok"]
    /\ UNCHANGED <<pbf, edits, src, graph>>

Fail(r) ==
    /\ answer[r] \in {"running", "published"}
    /\ answer' = [answer EXCEPT ![r] = "failed"]
    /\ src' = NoSource
    /\ UNCHANGED <<pbf, edits, graph>>

\* A request can also fail before anything is read for it.
Refuse(r) ==
    /\ answer[r] = "queued"
    /\ ~Busy
    /\ answer' = [answer EXCEPT ![r] = "failed"]
    /\ UNCHANGED <<pbf, edits, src, graph>>

Serve(r) == Begin(r) \/ Refuse(r) \/ Publish(r) \/ Succeed(r) \/ Fail(r)

Next ==
    \/ EditBegin
    \/ EditEnd
    \/ \E r \in Requests : Connect(r) \/ Serve(r)

Spec == Init /\ [][Next]_storeVars

\* The server always gets on with the request it has taken up, and takes up
\* the next one when it is free.
FairSpec == Spec /\ WF_storeVars(\E r \in Requests : Serve(r))

-----------------------------------------------------------------------------
(* What follows for whoever relies on the container.                        *)

\* Requests are served one by one, and the network is read by a build exactly
\* while a request runs that has not published its graph yet.
ServedOneByOne ==
    /\ \A r, s \in Requests : {answer[r], answer[s]} \subseteq {"running", "published"}
                              => r = s
    /\ src # NoSource <=> \E r \in Requests : answer[r] = "running"

\* Routing never falls back to an older network: a graph that replaces another
\* was built from a network at least as new (unless one of them was torn).
GraphNeverGoesBack ==
    [][{graph, graph'} \subseteq Nat => graph' >= graph]_storeVars
=============================================================================

--------------------------- MODULE TileStoreProofs ---------------------------
(* Theorems about TileStore, for any number of requests and edits. *)
EXTENDS TileStore, TLAPS

\* What the code's serial server and the version counter maintain together: an
\* intact network file carries the latest version, and what is being read or
\* routed on is never newer than it nor older than the graph it will replace.
VersionsOrdered ==
    /\ pbf # Torn => pbf = edits
    /\ graph # Torn => graph <= edits
    /\ src \in Nat => src <= edits /\ (graph # Torn => graph <= src)

IInv == TypeOK /\ ServedOneByOne /\ VersionsOrdered

\* The initial states satisfy the inductive invariant.
LEMMA InitIInv == Init => IInv
BY MarkersAssumption DEF Init, IInv, TypeOK, ServedOneByOne, VersionsOrdered, Graph, Phase

\* Every step of the network writer and of the server preserves it.
LEMMA NextIInv == IInv /\ [Next]_storeVars => IInv'
<1> SUFFICES ASSUME IInv, [Next]_storeVars PROVE IInv'
  OBVIOUS
<1> USE MarkersAssumption DEF IInv, TypeOK, VersionsOrdered, Graph, Phase
<1>1. CASE EditBegin
  BY <1>1 DEF EditBegin, ServedOneByOne
<1>2. CASE EditEnd
  BY <1>2 DEF EditEnd, ServedOneByOne
<1>3. ASSUME NEW r \in Requests, Connect(r) PROVE IInv'
  <2>1. TypeOK' /\ VersionsOrdered'
    BY <1>3 DEF Connect
  <2>2. \A s \in Requests : answer'[s] \in {"running", "published"}
                              <=> answer[s] \in {"running", "published"}
    BY <1>3 DEF Connect
  <2>3. \A s \in Requests : answer'[s] = "running" <=> answer[s] = "running"
    BY <1>3 DEF Connect
  <2>4. ServedOneByOne'
    BY <1>3, <2>2, <2>3 DEF Connect, ServedOneByOne
  <2> QED BY <2>1, <2>4
<1>4. ASSUME NEW r \in Requests, Begin(r) PROVE IInv'
  <2>1. TypeOK' /\ VersionsOrdered'
    BY <1>4 DEF Begin
  <2>2. ServedOneByOne'
    BY <1>4 DEF Begin, Busy, ServedOneByOne
  <2> QED BY <2>1, <2>2
<1>5. ASSUME NEW r \in Requests, Publish(r) PROVE IInv'
  <2>1. src # NoSource
    BY <1>5 DEF Publish, ServedOneByOne
  <2>2. TypeOK' /\ VersionsOrdered'
    BY <1>5, <2>1 DEF Publish, Built
  <2>3. ServedOneByOne'
    BY <1>5 DEF Publish, ServedOneByOne
  <2> QED BY <2>2, <2>3
<1>6. ASSUME NEW r \in Requests, Succeed(r) PROVE IInv'
  <2>1. TypeOK' /\ VersionsOrdered'
    BY <1>6 DEF Succeed
  <2>2. ServedOneByOne'
    BY <1>6 DEF Succeed, ServedOneByOne
  <2> QED BY <2>1, <2>2
<1>7. ASSUME NEW r \in Requests, Fail(r) PROVE IInv'
  <2>1. TypeOK' /\ VersionsOrdered'
    BY <1>7 DEF Fail
  <2>2. ServedOneByOne'
    BY <1>7 DEF Fail, ServedOneByOne
  <2> QED BY <2>1, <2>2
<1>8. ASSUME NEW r \in Requests, Refuse(r) PROVE IInv'
  <2>1. TypeOK' /\ VersionsOrdered'
    BY <1>8 DEF Refuse
  <2>2. ServedOneByOne'
    BY <1>8 DEF Refuse, ServedOneByOne
  <2> QED BY <2>1, <2>2
<1>9. CASE UNCHANGED storeVars
  BY <1>9 DEF storeVars, ServedOneByOne
<1> QED BY <1>1, <1>2, <1>3, <1>4, <1>5, <1>6, <1>7, <1>8, <1>9 DEF Next, Serve

\* The inductive invariant holds throughout.
LEMMA IInvHolds == Spec => []IInv
<1> QED BY InitIInv, NextIInv, PTL DEF Spec

\* Type correctness of the abstract container.
THEOREM TypeCorrect == Spec => []TypeOK
BY IInvHolds, PTL DEF IInv

\* However many requests wait in the backlog, one is served at a time, and the
\* network is read exactly while it runs.
THEOREM OneByOne == Spec => []ServedOneByOne
BY IInvHolds, PTL DEF IInv

\* No step of the writer or the server makes routing fall back to an older network.
LEMMA StepGoesForward ==
    ASSUME IInv, [Next]_storeVars
    PROVE  {graph, graph'} \subseteq Nat => graph' >= graph
<1> USE MarkersAssumption DEF IInv, TypeOK, VersionsOrdered, Graph
<1>1. ASSUME NEW r \in Requests, Publish(r)
      PROVE {graph, graph'} \subseteq Nat => graph' >= graph
  BY <1>1 DEF Publish, Built
<1>2. ASSUME graph' = graph
      PROVE {graph, graph'} \subseteq Nat => graph' >= graph
  BY <1>2
<1> QED BY <1>1, <1>2 DEF Next, Serve, EditBegin, EditEnd, Connect, Begin, Succeed,
                          Refuse, Fail, storeVars

\* Routing never falls back to an older network, for any number of edits.
THEOREM NeverGoesBack == Spec => GraphNeverGoesBack
<1>1. IInv /\ [Next]_storeVars
        => [{graph, graph'} \subseteq Nat => graph' >= graph]_storeVars
  BY StepGoesForward
<1> QED BY <1>1, IInvHolds, PTL DEF Spec, GraphNeverGoesBack
=============================================================================

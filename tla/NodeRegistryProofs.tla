-------------------------- MODULE NodeRegistryProofs --------------------------
(***************************************************************************)
(* Safety of the node registry, for any number of conversions, coordinates  *)
(* and features. SQLite's one write transaction owns the counters it has     *)
(* read (Owner), so the IDs a conversion gives out lie above all that are    *)
(* committed (Numbered, WaysApart); and while the two containers do not meet, *)
(* the only conversion in progress sees the nodes as they are (Current). A    *)
(* rebuild makes a new database and leaves nobody working on the old one that *)
(* the invariants are about.                                                *)
(***************************************************************************)
EXTENDS NodeRegistry, FiniteSetTheorems, TLAPS

\* A conversion holds the write transaction only on the way from its first UPDATE to
\* its end, and for sure until it flushes.
Owner ==
    /\ \A k \in Conversions :
          /\ writer = k => pc[k] \in {"convert", "flush", "register", "write"}
          /\ pc[k] \in {"convert", "flush"} => writer = k /\ first[k] = nextNode
    /\ writer # Nobody => txNode = nextNode + 1 /\ txWay >= nextWay

\* The IDs given to new coordinates are distinct and start at the counter.
Numbered ==
    \A k \in Conversions : pc[k] = "flush" =>
        /\ \A c \in Coords :
              fresh[k][c] # 0 => /\ fresh[k][c] >= first[k]
                                 /\ fresh[k][c] < first[k] + Cardinality(Fresh(k))
        /\ \A c, d \in Coords : fresh[k][c] = fresh[k][d] /\ fresh[k][c] # 0 => c = d

\* The lock of the api and the single bootstrap: two conversions in progress are of
\* different containers, which have met.
Apart ==
    \A k, m \in Conversions : k # m /\ InProgress(k) /\ InProgress(m)
        => met /\ (k \in ApiConversions) # (m \in ApiConversions)

\* Whatever a conversion is about to write has an ID, and while the containers have
\* not met, it is the one in the registry.
Current ==
    /\ \A e \in osmNodes : e[2] # 0
    /\ \A k \in Conversions :
          pc[k] \in {"flush", "register", "write"} =>
              \A c \in CoordsIn(batch[k]) : NodeOf(k, c) # 0
    /\ ~met => \A k \in Conversions :
          /\ pc[k] \in {"allocate", "convert", "flush"} => mem[k] = nodes
          /\ pc[k] \in {"register", "write"} =>
                \A c \in CoordsIn(batch[k]) : NodeOf(k, c) = nodes[c]

\* The transaction that counted its way IDs has been committed.
Counted(k) == pc[k] \in {"register", "write"} /\ writer # k

\* Way IDs in use lie below the committed counter; those of the open transaction lie
\* between the two counters, and so apart from all that were committed before.
KeptBelow == \A e \in osmWays : e.kept => e.id < nextWay
Distinct(k) ==
    pc[k] \in {"flush", "register", "write"} =>
        \A f, g \in Anonymous(batch[k]) : wayId[k][f] = wayId[k][g] => f = g
Uncommitted(k) ==
    pc[k] \in {"flush", "register", "write"} /\ writer = k =>
        \A f \in Anonymous(batch[k]) : wayId[k][f] >= nextWay /\ wayId[k][f] < txWay
Committed(k) ==
    Counted(k) => \A f \in Anonymous(batch[k]) :
        /\ wayId[k][f] < nextWay
        /\ \A e \in osmWays : e.kept => e.id # wayId[k][f]
Disjoint(k, m) ==
    k # m /\ Counted(k) /\ Counted(m) =>
        \A f \in Anonymous(batch[k]), g \in Anonymous(batch[m]) : wayId[k][f] # wayId[m][g]

WaysApart ==
    /\ KeptBelow
    /\ \A k \in Conversions : Distinct(k) /\ Uncommitted(k) /\ Committed(k)
    /\ \A k, m \in Conversions : Disjoint(k, m)

IInv == /\ TypeOK /\ Owner /\ Numbered /\ Apart /\ Current /\ WaysApart
        /\ NodeIdsUnique /\ OsmAgreesWhenApart /\ WayIdsUnique

-----------------------------------------------------------------------------
\* A new database and conversions that have not begun satisfy the invariant.
LEMMA InitIInv == Init => IInv
  <1> SUFFICES ASSUME Init PROVE IInv
    OBVIOUS
  <1> USE DEF Init
  <1>1. TypeOK
    <2>1. met \in BOOLEAN
      BY Zenon
    <2> QED BY <2>1 DEF TypeOK, Ids, None, Label
  <1>2. Owner /\ Numbered /\ Apart /\ Current /\ WaysApart
    BY NobodyAssumption DEF Owner, Numbered, Apart, InProgress, Current, WaysApart, KeptBelow,
       Distinct, Uncommitted, Committed, Disjoint, Counted
  <1>3. NodeIdsUnique /\ OsmAgreesWhenApart /\ WayIdsUnique
    BY DEF NodeIdsUnique, OsmAgreesWhenApart, WayIdsUnique, None
  <1> QED BY <1>1, <1>2, <1>3 DEF IInv

\* The coordinates and features that get IDs are finitely many.
LEMMA FewNeedIds ==
    ASSUME TypeOK, NEW k \in Conversions
    PROVE  /\ CoordsIn(batch[k]) \subseteq Coords
           /\ IsFiniteSet(CoordsIn(batch[k]) \ Found(k))
           /\ Anonymous(batch[k]) \subseteq Features
           /\ IsFiniteSet(Anonymous(batch[k]))
           /\ Fresh(k) \subseteq Coords /\ Cardinality(Fresh(k)) \in Nat
           /\ \A f \in Anonymous(batch[k]) : wayId[k][f] \in Nat
  <1>1. batch[k] \subseteq Features
    BY DEF TypeOK
  <1>2. CoordsIn(batch[k]) \subseteq Coords
    BY <1>1, FeaturesAssumption DEF CoordsIn
  <1>3. IsFiniteSet(CoordsIn(batch[k]) \ Found(k))
    BY <1>2, FiniteAssumption, FS_Subset
  <1>4. Anonymous(batch[k]) \subseteq Features
    BY <1>1 DEF Anonymous
  <1>5. IsFiniteSet(Anonymous(batch[k]))
    BY <1>4, FiniteAssumption, FS_Subset
  <1>6. Fresh(k) \subseteq Coords
    BY DEF Fresh
  <1>7. Cardinality(Fresh(k)) \in Nat
    BY <1>6, FiniteAssumption, FS_Subset, FS_CardinalityType
  <1>8. \A f \in Features : wayId[k][f] \in Nat
    BY DEF TypeOK
  <1> QED BY <1>2, <1>3, <1>4, <1>5, <1>6, <1>7, <1>8

\* What a numbering of S from lo on is good for.
LEMMA NumberingsNumber ==
    ASSUME NEW T, NEW S \in SUBSET T, IsFiniteSet(S),
           NEW lo \in Nat \ {0}, NEW g \in Numberings(S, T, lo)
    PROVE  /\ g \in [T -> Nat]
           /\ Cardinality(S) \in Nat
           /\ \A x \in T : g[x] # 0 => g[x] >= lo /\ g[x] < lo + Cardinality(S)
  <1>1. Cardinality(S) \in Nat
    BY FS_CardinalityType
  <1>2. g \in [T -> {0} \cup lo..(lo + Cardinality(S))]
    BY DEF Numberings
  <1>3. g \in [T -> Nat]
    BY <1>1, <1>2
  <1>4. /\ \A x \in T : g[x] = 0 <=> x \notin S
        /\ \A x \in S : g[x] < lo + Cardinality(S)
    BY DEF Numberings
  <1> QED BY <1>1, <1>2, <1>3, <1>4

\* A step that lets the conversions about to flush alone keeps their numbers.
LEMMA NumberedStays ==
    ASSUME Numbered,
           \A k \in Conversions : pc'[k] = "flush" =>
               pc[k] = "flush" /\ fresh'[k] = fresh[k] /\ first'[k] = first[k]
    PROVE  Numbered'
  <1> SUFFICES ASSUME NEW k \in Conversions, pc'[k] = "flush" PROVE Numbered!(k)'
    BY DEF Numbered
  <1>1. Fresh(k)' = Fresh(k)
    BY DEF Fresh
  <1> QED BY <1>1 DEF Numbered

\* What a conversion has forgotten is well typed.
LEMMA ForgetTypes ==
    ASSUME TypeOK, NEW k \in Conversions, Forget(k)
    PROVE  /\ batch' \in [Conversions -> SUBSET Features]
           /\ mem' \in [Conversions -> Ids] /\ fresh' \in [Conversions -> Ids]
           /\ first' \in [Conversions -> Nat]
           /\ wayId' \in [Conversions -> [Features -> Nat]]
  <1>1. None \in Ids /\ [f \in Features |-> 0] \in [Features -> Nat]
    BY DEF None, Ids
  <1> QED BY <1>1 DEF TypeOK, Forget

-----------------------------------------------------------------------------
\* A rebuild begins with a new registry, which nobody works on.
LEMMA ClearStep ==
    ASSUME IInv, NEW k \in Conversions, Clear(k)
    PROVE  IInv'
  <1> USE NobodyAssumption DEF IInv, Clear, Release
  <1>a. /\ \A m \in Conversions : pc'[m] \in {"cleared", "detached", "new", "done", "failed"}
        /\ \A m \in Conversions : InProgress(m)' => m = k \/ InProgress(m)
        /\ pc' \in [Conversions -> Label]
    BY DEF TypeOK, Label, InProgress
  <1>b. nodes' = [c \in Coords |-> 0] /\ osmNodes' = {} /\ osmWays' = {} /\ writer' = Nobody
    BY DEF None
  <1>c. met' \in BOOLEAN
    BY Zenon DEF Meets
  <1>1. TypeOK'
    BY <1>a, <1>c DEF TypeOK, Ids, None
  <1>2. Owner'
    BY <1>a, <1>b DEF Owner
  <1>3. Numbered'
    BY <1>a DEF Numbered
  <1>4. Apart'
    <2> SUFFICES ASSUME NEW i \in Conversions, NEW j \in Conversions, i # j,
                        InProgress(i)', InProgress(j)'
                 PROVE  met' /\ (i \in ApiConversions) # (j \in ApiConversions)
      BY DEF Apart
    <2>1. CASE i = k \/ j = k
      BY <1>a, <2>1 DEF Alone, Meets
    <2>2. CASE i # k /\ j # k
      <3>1. InProgress(i) /\ InProgress(j)
        BY <1>a, <2>2
      <3>2. /\ (i \in ApiConversions) # (k \in ApiConversions)
            /\ (j \in ApiConversions) # (k \in ApiConversions)
        BY <2>2, <3>1 DEF Alone
      <3>3. (i \in ApiConversions) # (j \in ApiConversions)
        BY <3>1 DEF Apart
      <3> QED BY <3>2, <3>3
    <2> QED BY <2>1, <2>2
  <1>5. Current'
    BY <1>a, <1>b DEF Current
  <1>6. WaysApart'
    BY <1>a, <1>b DEF WaysApart, KeptBelow, Distinct, Uncommitted, Committed, Disjoint, Counted
  <1>7. NodeIdsUnique' /\ OsmAgreesWhenApart' /\ WayIdsUnique'
    BY <1>b DEF NodeIdsUnique, OsmAgreesWhenApart, WayIdsUnique
  <1> HIDE DEF Clear, Release
  <1> QED BY <1>1, <1>2, <1>3, <1>4, <1>5, <1>6, <1>7

\* A conversion whose database is deleted ends.
LEMMA EndDetachedStep ==
    ASSUME IInv, NEW k \in Conversions, EndDetached(k)
    PROVE  IInv'
  <1> USE NobodyAssumption DEF IInv, EndDetached, Goto, InProgress, Label, dbVars, txVars,
          localVars, osmVars
  <1>1. TypeOK'
    BY DEF TypeOK
  <1>2. Owner'
    BY DEF Owner
  <1>3. Numbered'
    BY NumberedStays
  <1>4. Apart'
    BY DEF Apart
  <1>5. Current'
    BY DEF Current, NodeOf
  <1>6. WaysApart'
    BY DEF WaysApart, KeptBelow, Distinct, Uncommitted, Committed, Disjoint, Counted
  <1>7. NodeIdsUnique' /\ OsmAgreesWhenApart' /\ WayIdsUnique'
    BY DEF NodeIdsUnique, OsmAgreesWhenApart, WayIdsUnique
  <1> QED BY <1>1, <1>2, <1>3, <1>4, <1>5, <1>6, <1>7

\* A conversion begins when nothing of its side is in progress.
LEMMA OpenStep ==
    ASSUME IInv, NEW k \in Conversions, Open(k)
    PROVE  IInv'
  <1> USE NobodyAssumption DEF IInv, Open, Goto, InProgress, Label, dbVars, txVars, localVars,
          osmVars
  <1>1. TypeOK'
    <2>1. met' \in BOOLEAN
      BY Zenon DEF Open, TypeOK, Meets
    <2> QED BY <2>1 DEF TypeOK
  <1>2. Owner'
    BY DEF Owner
  <1>3. Numbered'
    BY NumberedStays
  <1>4. Apart'
    BY DEF TypeOK, Apart, Alone, Meets
  <1>5. Current'
    <2>1. ~met' => ~met
      BY Zenon
    <2>2. \A m \in Conversions : \A c : NodeOf(m, c)' = NodeOf(m, c)
      BY DEF NodeOf
    <2>3. \A m \in Conversions : pc'[m] \in {"allocate", "convert", "flush", "register", "write"} =>
                                    pc'[m] = pc[m] /\ batch'[m] = batch[m]
      BY DEF TypeOK
    <2>4. UNCHANGED <<nodes, mem, osmNodes>>
      OBVIOUS
    <2> HIDE DEF Open
    <2> QED BY <2>1, <2>2, <2>3, <2>4 DEF Current
  <1>6. WaysApart'
    BY DEF WaysApart, KeptBelow, Distinct, Uncommitted, Committed, Disjoint, Counted
  <1>7. NodeIdsUnique'
    BY DEF NodeIdsUnique
  <1>8. OsmAgreesWhenApart'
    BY DEF OsmAgreesWhenApart
  <1>9. WayIdsUnique'
    BY DEF WayIdsUnique
  <1> QED BY <1>1, <1>2, <1>3, <1>4, <1>5, <1>6, <1>7, <1>8, <1>9

\* It loads what is committed.
LEMMA LoadIntoMemoryStep ==
    ASSUME IInv, NEW k \in Conversions, LoadIntoMemory(k)
    PROVE  IInv'
  <1> USE NobodyAssumption DEF IInv, LoadIntoMemory, Goto, InProgress, Label, dbVars, txVars,
          localVars, osmVars
  <1>1. TypeOK'
    BY DEF TypeOK
  <1>2. Owner'
    BY DEF Owner
  <1>3. Numbered'
    BY NumberedStays
  <1>4. Apart'
    BY DEF Apart
  <1>5. Current'
    BY DEF TypeOK, Current, NodeOf
  <1>6. WaysApart'
    BY DEF WaysApart, KeptBelow, Distinct, Uncommitted, Committed, Disjoint, Counted
  <1>7. NodeIdsUnique'
    BY DEF NodeIdsUnique
  <1>8. OsmAgreesWhenApart'
    BY DEF OsmAgreesWhenApart
  <1>9. WayIdsUnique'
    BY DEF WayIdsUnique
  <1> QED BY <1>1, <1>2, <1>3, <1>4, <1>5, <1>6, <1>7, <1>8, <1>9

\* Its first UPDATE opens the write transaction.
LEMMA NextNodeIdStep ==
    ASSUME IInv, NEW k \in Conversions, NextNodeId(k)
    PROVE  IInv'
  <1> USE NobodyAssumption DEF IInv, NextNodeId, Goto, InProgress, Label, dbVars, txVars,
          localVars, osmVars
  <1>1. TypeOK'
    BY DEF TypeOK
  <1>2. Owner'
    BY DEF TypeOK, Owner
  <1>3. Numbered'
    BY NumberedStays
  <1>4. Apart'
    BY DEF Apart
  <1>5. Current'
    BY DEF Current, NodeOf
  <1>6. WaysApart'
    <2>1. \A m \in Conversions : pc[m] # "flush"
      BY DEF Owner
    <2>2. ASSUME NEW m \in Conversions, Counted(m)' PROVE Counted(m) /\ m # k
      BY <2>2 DEF Counted
    <2>3. ASSUME NEW m \in Conversions PROVE Uncommitted(m)'
      BY <2>1 DEF Uncommitted
    <2>4. KeptBelow' /\ \A m \in Conversions : Distinct(m)' 
      BY <2>1 DEF WaysApart, KeptBelow, Distinct
    <2>5. \A m \in Conversions : Committed(m)'
      BY <2>2 DEF WaysApart, Committed
    <2>6. \A m, n \in Conversions : Disjoint(m, n)'
      BY <2>2 DEF WaysApart, Disjoint
    <2> QED BY <2>3, <2>4, <2>5, <2>6 DEF WaysApart
  <1>7. NodeIdsUnique'
    BY DEF NodeIdsUnique
  <1>8. OsmAgreesWhenApart'
    BY DEF OsmAgreesWhenApart
  <1>9. WayIdsUnique'
    BY DEF WayIdsUnique
  <1> QED BY <1>1, <1>2, <1>3, <1>4, <1>5, <1>6, <1>7, <1>8, <1>9

\* It gives out IDs.
LEMMA ConvertFeaturesStep ==
    ASSUME IInv, NEW k \in Conversions, ConvertFeatures(k)
    PROVE  IInv'
  <1> USE NobodyAssumption DEF IInv, ConvertFeatures, Goto, InProgress, Label, dbVars, txVars,
          localVars, osmVars
  <1> DEFINE missing == CoordsIn(batch[k]) \ Found(k)
             unnamed == Anonymous(batch[k])
  <1>a. PICK g \in Numberings(missing, Coords, first[k]) : fresh' = [fresh EXCEPT ![k] = g]
    OBVIOUS
  <1>b. PICK h \in Numberings(unnamed, Features, txWay) : wayId' = [wayId EXCEPT ![k] = h]
    OBVIOUS
  <1>c. /\ writer = k /\ writer' = k /\ first[k] = nextNode /\ first[k] \in Nat \ {0}
        /\ txWay \in Nat \ {0} /\ nextWay \in Nat \ {0} /\ txWay >= nextWay
        /\ txWay' = txWay + Cardinality(unnamed)
        /\ UNCHANGED <<nodes, nextNode, nextWay, ways, txNode, batch, mem, first, osmNodes, osmWays, met>>
        /\ pc' = [pc EXCEPT ![k] = "flush"]
    BY DEF TypeOK, Owner
  <1>d. /\ g \in [Coords -> Nat]
        /\ \A c \in Coords : c \in missing <=> g[c] # 0
        /\ \A c \in Coords : g[c] # 0 => g[c] >= first[k] /\ g[c] < first[k] + Cardinality(missing)
        /\ \A c, d \in Coords : g[c] = g[d] /\ g[c] # 0 => c = d
    <2>1. missing \in SUBSET Coords /\ IsFiniteSet(missing)
      BY FewNeedIds
    <2>2. g \in Numberings(missing, Coords, first[k])
      BY <1>a
    <2> HIDE DEF missing
    <2>3. first[k] \in Nat \ {0} /\ txWay \in Nat \ {0}
      BY <1>c
    <2>4. g \in [Coords -> Nat] /\ Cardinality(missing) \in Nat
      BY <2>1, <2>2, <2>3, NumberingsNumber
    <2>5. \A c \in Coords : g[c] # 0 => g[c] >= first[k] /\ g[c] < first[k] + Cardinality(missing)
      BY <2>1, <2>2, <2>3, NumberingsNumber
    <2>6. /\ \A c \in Coords : g[c] = 0 <=> c \notin missing
          /\ \A c, d \in missing : g[c] = g[d] => c = d
      BY <2>2 DEF Numberings
    <2> QED BY <2>4, <2>5, <2>6
  <1>e. /\ h \in [Features -> Nat] /\ Cardinality(unnamed) \in Nat
        /\ \A f \in Features : f \in unnamed <=> h[f] # 0
        /\ \A f \in Features : h[f] # 0 => h[f] >= txWay /\ h[f] < txWay + Cardinality(unnamed)
        /\ \A f, e \in Features : h[f] = h[e] /\ h[f] # 0 => f = e
    <2>1. unnamed \in SUBSET Features /\ IsFiniteSet(unnamed)
      BY FewNeedIds
    <2>2. h \in Numberings(unnamed, Features, txWay)
      BY <1>b
    <2> HIDE DEF unnamed
    <2>3. first[k] \in Nat \ {0} /\ txWay \in Nat \ {0}
      BY <1>c
    <2>4. h \in [Features -> Nat] /\ Cardinality(unnamed) \in Nat
      BY <2>1, <2>2, <2>3, NumberingsNumber
    <2>5. \A f \in Features : h[f] # 0 => h[f] >= txWay /\ h[f] < txWay + Cardinality(unnamed)
      BY <2>1, <2>2, <2>3, NumberingsNumber
    <2>6. /\ \A f \in Features : h[f] = 0 <=> f \notin unnamed
          /\ \A f, e \in unnamed : h[f] = h[e] => f = e
      BY <2>2 DEF Numberings
    <2> QED BY <2>4, <2>5, <2>6
  <1>f. /\ fresh'[k] = g /\ wayId'[k] = h
        /\ \A m \in Conversions \ {k} : /\ fresh'[m] = fresh[m] /\ wayId'[m] = wayId[m]
                                        /\ pc'[m] = pc[m]
    BY <1>a, <1>b, <1>c DEF TypeOK
  <1>1. TypeOK'
    BY <1>a, <1>b, <1>c, <1>d, <1>e DEF TypeOK, Ids
  <1>2. Owner'
    BY <1>c, <1>e DEF Owner
  <1>3. Numbered'
    <2> SUFFICES ASSUME NEW m \in Conversions, pc'[m] = "flush" PROVE Numbered!(m)'
      BY DEF Numbered
    <2>1. CASE m = k
      <3>1. Fresh(k)' = missing
        <4>1. \A c \in Coords : c \in missing <=> fresh'[k][c] # 0
          BY <1>d, <1>f
        <4>2. missing \subseteq Coords
          BY FewNeedIds
        <4> HIDE DEF missing
        <4> QED BY <4>1, <4>2 DEF Fresh
      <3> QED BY <2>1, <3>1, <1>c, <1>d, <1>f
    <2>2. CASE m # k
      <3>1. Fresh(m)' = Fresh(m)
        BY <2>2, <1>f DEF Fresh
      <3> QED BY <2>2, <3>1, <1>c, <1>f DEF Numbered
    <2> QED BY <2>1, <2>2
  <1>4. Apart'
    BY DEF Apart
  <1>5. Current'
    <2>1. \A c \in CoordsIn(batch[k]) : NodeOf(k, c)' # 0
      BY <1>c, <1>d, <1>f, FewNeedIds DEF NodeOf, Found
    <2>2. \A m \in Conversions \ {k} : \A c : NodeOf(m, c)' = NodeOf(m, c)
      BY <1>c, <1>f DEF NodeOf
    <2>3. CoordsIn(batch'[k]) = CoordsIn(batch[k])
      BY <1>c
    <2> QED BY <1>c, <2>1, <2>2 DEF Current
  <1>6. WaysApart'
    <2>1. Distinct(k)' /\ Uncommitted(k)' /\ Committed(k)'
      <3>1. Anonymous(batch'[k]) = unnamed /\ unnamed \subseteq Features
        BY <1>c, FewNeedIds
      <3>2. Distinct(k)'
        BY <1>e, <1>f, <3>1 DEF Distinct
      <3>3. Uncommitted(k)'
        BY <1>c, <1>e, <1>f, <3>1 DEF Uncommitted
      <3>4. Committed(k)'
        BY <1>c DEF Committed, Counted
      <3> QED BY <3>2, <3>3, <3>4
    <2>2. ASSUME NEW m \in Conversions \ {k}
          PROVE  Distinct(m)' /\ Uncommitted(m)' /\ Committed(m)'
      BY <1>c, <1>f DEF WaysApart, Distinct, Uncommitted, Committed, Counted
    <2>3. ASSUME NEW m \in Conversions, NEW n \in Conversions PROVE Disjoint(m, n)'
      BY <1>c, <1>f DEF WaysApart, Disjoint, Counted
    <2>4. KeptBelow'
      BY <1>c DEF WaysApart, KeptBelow
    <2> QED BY <2>1, <2>2, <2>3, <2>4 DEF WaysApart
  <1>7. NodeIdsUnique'
    BY DEF NodeIdsUnique
  <1>8. OsmAgreesWhenApart'
    BY DEF OsmAgreesWhenApart
  <1>9. WayIdsUnique'
    BY DEF WayIdsUnique
  <1> QED BY <1>1, <1>2, <1>3, <1>4, <1>5, <1>6, <1>7, <1>8, <1>9

\* It writes its nodes and the counter.
LEMMA FlushNodesStep ==
    ASSUME IInv, NEW k \in Conversions, FlushNodes(k)
    PROVE  IInv'
  <1> USE NobodyAssumption DEF IInv, FlushNodes, Goto, InProgress, Label, dbVars, txVars,
          localVars, osmVars
  <1> USE DEF Release
  <1>a. /\ writer = k /\ first[k] = nextNode /\ nextNode \in Nat \ {0}
        /\ txWay \in Nat /\ nextWay \in Nat \ {0} /\ txWay >= nextWay
        /\ Fresh(k) \subseteq Coords /\ Cardinality(Fresh(k)) \in Nat
        /\ fresh[k] \in [Coords -> Nat] /\ nodes \in [Coords -> Nat]
    BY FewNeedIds DEF TypeOK, Owner, Ids
  <1>b. /\ pc[k] = "flush" /\ pc' = [pc EXCEPT ![k] = "register"]
        /\ UNCHANGED <<batch, mem, first, fresh, wayId, osmNodes, osmWays, ways, met>>
    OBVIOUS
  <1>c. \/ /\ Fresh(k) = {} /\ UNCHANGED <<nodes, nextNode, nextWay, writer, txNode, txWay>>
        \/ /\ nodes' = [c \in Coords |-> IF nodes[c] = 0 THEN fresh[k][c] ELSE nodes[c]]
           /\ nextNode' = first[k] + Cardinality(Fresh(k)) /\ nextWay' = txWay
           /\ writer' = Nobody /\ txNode' = 0 /\ txWay' = 0
    BY <1>a DEF InsertOrIgnore, CounterAfter, WayCounterAfter
  <1>d. /\ \A c \in Coords : fresh[k][c] # 0 => /\ fresh[k][c] >= nextNode
                                              /\ fresh[k][c] < nextNode + Cardinality(Fresh(k))
        /\ \A c, d \in Coords : fresh[k][c] = fresh[k][d] /\ fresh[k][c] # 0 => c = d
    BY <1>a DEF Numbered
  <1>e. nextWay' \in Nat \ {0} /\ nextWay' >= nextWay /\ nextNode' \in Nat \ {0} /\ nextNode' >= nextNode
    BY <1>a, <1>c
  <1>f. nodes' \in [Coords -> Nat] /\ \A c \in Coords : nodes[c] # 0 => nodes'[c] = nodes[c]
    BY <1>a, <1>c
  <1>g. \A c \in Coords : nodes'[c] # 0 => nodes'[c] = nodes[c] \/ nodes'[c] = fresh[k][c]
    BY <1>a, <1>c
  <1> HIDE DEF FlushNodes
  <1>1. TypeOK'
    BY <1>a, <1>b, <1>c, <1>e, <1>f DEF TypeOK, Ids
  <1>2. Owner'
    BY <1>a, <1>b, <1>c DEF TypeOK, Owner
  <1>3. Numbered'
    BY <1>b, NumberedStays
  <1>4. Apart'
    BY <1>b DEF Apart
  <1>5. Current'
    <2>1. \A m \in Conversions : \A c : NodeOf(m, c)' = NodeOf(m, c)
      BY <1>b DEF NodeOf
    <2>2. ASSUME NEW m \in Conversions, pc'[m] \in {"flush", "register", "write"}
          PROVE  \A c \in CoordsIn(batch'[m]) : NodeOf(m, c)' # 0
      BY <1>b, <2>1, <2>2 DEF Current
    <2>3. ASSUME ~met'
          PROVE  /\ \A m \in Conversions \ {k} : pc[m] \in {"new", "done", "failed"}
                 /\ mem[k] = nodes
      BY <1>b, <2>3 DEF Current, Apart
    <2>4. ASSUME mem[k] = nodes, NEW c \in CoordsIn(batch[k])
          PROVE  NodeOf(k, c) = nodes'[c]
      <3>1. c \in Coords /\ NodeOf(k, c) # 0
        BY <1>b, FewNeedIds DEF Current
      <3>2. CASE Fresh(k) = {} /\ UNCHANGED nodes
        BY <1>a, <2>4, <3>1, <3>2 DEF NodeOf, Fresh
      <3>3. CASE nodes' = [x \in Coords |-> IF nodes[x] = 0 THEN fresh[k][x] ELSE nodes[x]]
        BY <2>4, <3>1, <3>3 DEF NodeOf
      <3> QED BY <1>c, <3>2, <3>3
    <2> QED BY <1>b, <2>1, <2>2, <2>3, <2>4 DEF Current, TypeOK
  <1>6. WaysApart'
    <2>1. \A m \in Conversions : Anonymous(batch'[m]) = Anonymous(batch[m]) /\ wayId'[m] = wayId[m]
      BY <1>b
    <2>2. \A m \in Conversions : Counted(m)' => m = k \/ Counted(m)
      BY <1>a, <1>b, <1>c DEF Counted
    <2>3. KeptBelow'
      BY <1>a, <1>b, <1>e DEF WaysApart, KeptBelow, TypeOK
    <2>4. ASSUME NEW m \in Conversions PROVE Distinct(m)'
      BY <1>b, <2>1 DEF WaysApart, Distinct
    <2>5. ASSUME NEW m \in Conversions PROVE Uncommitted(m)'
      BY <1>a, <1>b, <1>c, <2>1 DEF WaysApart, Uncommitted
    <2>6. ASSUME NEW m \in Conversions, Counted(m)' PROVE Committed(m)'
      <3>1. CASE Counted(m)
        <4>1. \A f \in Anonymous(batch[m]) : wayId[m][f] \in Nat
          BY FewNeedIds
        <4> QED BY <1>a, <1>b, <1>c, <1>e, <2>1, <3>1, <4>1 DEF WaysApart, Committed
      <3>2. CASE ~Counted(m)
        <4>1. m = k /\ writer = k /\ nextWay' = txWay
          BY <1>a, <1>b, <1>c, <2>2, <2>6, <3>2 DEF Counted
        <4>2. \A f \in Anonymous(batch[k]) : wayId[k][f] >= nextWay /\ wayId[k][f] < txWay
          BY <1>a, <1>b, <4>1 DEF WaysApart, Uncommitted
        <4>3. \A f \in Anonymous(batch[k]) : wayId[k][f] \in Nat
          BY FewNeedIds
        <4> QED BY <1>a, <1>b, <1>c, <2>1, <4>1, <4>2, <4>3 DEF WaysApart, KeptBelow,
                   Committed
      <3> QED BY <3>1, <3>2
    <2>7. ASSUME NEW m \in Conversions, NEW n \in Conversions, m # n, Counted(m)', Counted(n)'
          PROVE  Disjoint(m, n)'
      <3>1. ASSUME NEW i \in Conversions, ~Counted(i), Counted(i)'
            PROVE  /\ i = k
                   /\ \A f \in Anonymous(batch[k]) : wayId[k][f] \in Nat /\ wayId[k][f] >= nextWay
        <4>1. i = k /\ writer = k
          BY <1>a, <1>b, <1>c, <2>2, <3>1
        <4>2. \A f \in Anonymous(batch[k]) : wayId[k][f] \in Nat
          BY FewNeedIds
        <4> QED BY <1>a, <1>b, <4>1, <4>2 DEF WaysApart, Uncommitted
      <3>2. ASSUME NEW i \in Conversions, Counted(i)
            PROVE  \A f \in Anonymous(batch[i]) : wayId[i][f] \in Nat /\ wayId[i][f] < nextWay
        <4>1. \A f \in Anonymous(batch[i]) : wayId[i][f] \in Nat
          BY FewNeedIds
        <4> QED BY <3>2, <4>1 DEF WaysApart, Committed
      <3>3. CASE Counted(m) /\ Counted(n)
        BY <2>1, <3>3 DEF WaysApart, Disjoint
      <3>4. CASE ~Counted(m) \/ ~Counted(n)
        BY <1>a, <1>c, <2>1, <2>7, <3>1, <3>2, <3>4 DEF Disjoint
      <3> QED BY <3>3, <3>4
    <2> QED BY <2>3, <2>4, <2>5, <2>6, <2>7 DEF WaysApart, Committed, Disjoint
  <1>7. NodeIdsUnique'
    BY <1>a, <1>c, <1>d, <1>e, <1>f, <1>g DEF NodeIdsUnique
  <1>8. OsmAgreesWhenApart'
    <2> SUFFICES ASSUME ~met', NEW e \in osmNodes
                 PROVE  nodes'[e[1]] = e[2]
      BY <1>b DEF OsmAgreesWhenApart
    <2>1. ~met
      BY <1>b
    <2>2. e[1] \in Coords /\ e[2] # 0
      BY DEF TypeOK, Current
    <2> QED BY <1>f, <2>1, <2>2 DEF OsmAgreesWhenApart
  <1>9. WayIdsUnique'
    BY <1>b DEF WayIdsUnique
  <1> QED BY <1>1, <1>2, <1>3, <1>4, <1>5, <1>6, <1>7, <1>8, <1>9

\* It registers its ways.
LEMMA RegisterWaysStep ==
    ASSUME IInv, NEW k \in Conversions, RegisterWays(k)
    PROVE  IInv'
  <1> USE NobodyAssumption DEF IInv, RegisterWays, Goto, InProgress, Label, dbVars, txVars,
          localVars, osmVars
  <1> USE DEF Release
  <1>a. /\ pc[k] = "register" /\ pc' = [pc EXCEPT ![k] = "write"]
        /\ UNCHANGED <<nodes, batch, mem, first, fresh, wayId, osmNodes, osmWays, met>>
    OBVIOUS
  <1>b. \/ UNCHANGED <<nextNode, nextWay, ways, writer, txNode, txWay>>
        \/ /\ writer \in {k, Nobody}
           /\ ways' = ways \cup {OidOf[f] : f \in batch[k] \ Anonymous(batch[k])}
           /\ nextNode' = IF writer = k THEN txNode ELSE nextNode
           /\ nextWay' = IF writer = k THEN txWay ELSE nextWay
           /\ writer' = Nobody /\ txNode' = 0 /\ txWay' = 0
    BY DEF WayCounterAfter
  <1>c. /\ txWay \in Nat /\ nextWay \in Nat \ {0} /\ nextNode \in Nat \ {0} /\ nodes \in [Coords -> Nat]
        /\ writer = k => txWay >= nextWay /\ txNode = nextNode + 1
    BY DEF TypeOK, Owner, Ids
  <1>d. nextWay' \in Nat \ {0} /\ nextWay' >= nextWay /\ nextNode' \in Nat \ {0} /\ nextNode' >= nextNode
    BY <1>b, <1>c
  <1>e. ways' \subseteq {OidOf[f] : f \in Features}
    BY <1>b DEF TypeOK
  <1> HIDE DEF RegisterWays
  <1>1. TypeOK'
    BY <1>a, <1>b, <1>c, <1>d, <1>e DEF TypeOK
  <1>2. Owner'
    BY <1>a, <1>b, <1>c DEF Owner
  <1>3. Numbered'
    BY <1>a, NumberedStays
  <1>4. Apart'
    BY <1>a DEF Apart
  <1>5. Current'
    <2>1. \A m \in Conversions : \A c : NodeOf(m, c)' = NodeOf(m, c)
      BY <1>a DEF NodeOf
    <2> QED BY <1>a, <2>1 DEF Current
  <1>6. WaysApart'
    <2>1. \A m \in Conversions : Anonymous(batch'[m]) = Anonymous(batch[m]) /\ wayId'[m] = wayId[m]
      BY <1>a
    <2>2. \A m \in Conversions : Counted(m)' => m = k \/ Counted(m)
      BY <1>a, <1>b DEF Counted
    <2>3. KeptBelow'
      BY <1>a, <1>c, <1>d DEF WaysApart, KeptBelow, TypeOK
    <2>4. ASSUME NEW m \in Conversions PROVE Distinct(m)'
      BY <1>a, <2>1 DEF WaysApart, Distinct
    <2>5. ASSUME NEW m \in Conversions PROVE Uncommitted(m)'
      BY <1>a, <1>b, <1>c, <2>1 DEF WaysApart, Uncommitted
    <2>6. ASSUME NEW m \in Conversions, Counted(m)' PROVE Committed(m)'
      <3>1. CASE Counted(m)
        <4>1. \A f \in Anonymous(batch[m]) : wayId[m][f] \in Nat
          BY FewNeedIds
        <4> QED BY <1>a, <1>b, <1>c, <1>d, <2>1, <3>1, <4>1 DEF WaysApart, Committed
      <3>2. CASE ~Counted(m)
        <4>1. m = k /\ writer = k /\ nextWay' = txWay
          BY <1>a, <1>b, <1>c, <2>2, <2>6, <3>2 DEF Counted
        <4>2. \A f \in Anonymous(batch[k]) : wayId[k][f] >= nextWay /\ wayId[k][f] < txWay
          BY <1>a, <1>b, <4>1 DEF WaysApart, Uncommitted
        <4>3. \A f \in Anonymous(batch[k]) : wayId[k][f] \in Nat
          BY FewNeedIds
        <4> QED BY <1>a, <1>b, <1>c, <2>1, <4>1, <4>2, <4>3 DEF WaysApart, KeptBelow,
                   Committed
      <3> QED BY <3>1, <3>2
    <2>7. ASSUME NEW m \in Conversions, NEW n \in Conversions, m # n, Counted(m)', Counted(n)'
          PROVE  Disjoint(m, n)'
      <3>1. ASSUME NEW i \in Conversions, ~Counted(i), Counted(i)'
            PROVE  /\ i = k
                   /\ \A f \in Anonymous(batch[k]) : wayId[k][f] \in Nat /\ wayId[k][f] >= nextWay
        <4>1. i = k /\ writer = k
          BY <1>a, <1>b, <1>c, <2>2, <3>1 DEF Counted
        <4>2. \A f \in Anonymous(batch[k]) : wayId[k][f] \in Nat
          BY FewNeedIds
        <4> QED BY <1>a, <1>b, <4>1, <4>2 DEF WaysApart, Uncommitted
      <3>2. ASSUME NEW i \in Conversions, Counted(i)
            PROVE  \A f \in Anonymous(batch[i]) : wayId[i][f] \in Nat /\ wayId[i][f] < nextWay
        <4>1. \A f \in Anonymous(batch[i]) : wayId[i][f] \in Nat
          BY FewNeedIds
        <4> QED BY <3>2, <4>1 DEF WaysApart, Committed
      <3>3. CASE Counted(m) /\ Counted(n)
        BY <2>1, <3>3 DEF WaysApart, Disjoint
      <3>4. CASE ~Counted(m) \/ ~Counted(n)
        BY <1>a, <1>c, <2>1, <2>7, <3>1, <3>2, <3>4 DEF Disjoint
      <3> QED BY <3>3, <3>4
    <2> QED BY <2>3, <2>4, <2>5, <2>6, <2>7 DEF WaysApart, Committed, Disjoint
  <1>7. NodeIdsUnique'
    BY <1>a, <1>c, <1>d DEF NodeIdsUnique
  <1>8. OsmAgreesWhenApart'
    BY <1>a DEF OsmAgreesWhenApart
  <1>9. WayIdsUnique'
    BY <1>a DEF WayIdsUnique
  <1> QED BY <1>1, <1>2, <1>3, <1>4, <1>5, <1>6, <1>7, <1>8, <1>9

\* It writes its OSM file and closes the connection.
LEMMA WriteOsmStep ==
    ASSUME IInv, NEW k \in Conversions, WriteOsm(k)
    PROVE  IInv'
  <1> USE NobodyAssumption DEF IInv, WriteOsm, Goto, InProgress, Label, dbVars, txVars,
          localVars, osmVars
  <1> DEFINE nodesOut == {<<c, NodeOf(k, c)>> : c \in CoordsIn(batch[k])}
             waysOut == {[by |-> k, feature |-> f, id |-> wayId[k][f], kept |-> writer # k] :
                            f \in Anonymous(batch[k])}
  <1>a. /\ pc[k] = "write" /\ pc' = [pc EXCEPT ![k] = "done"]
        /\ osmNodes' = osmNodes \cup nodesOut /\ osmWays' = osmWays \cup waysOut
        /\ writer' = IF writer = k THEN Nobody ELSE writer
        /\ UNCHANGED <<nodes, nextNode, nextWay, ways, txNode, txWay, met>>
        /\ Forget(k)
    BY DEF Closed
  <1>b. batch[k] \subseteq Features /\ CoordsIn(batch[k]) \subseteq Coords
        /\ Anonymous(batch[k]) \subseteq Features
    BY FewNeedIds DEF TypeOK
  <1>c. /\ wayId[k] \in [Features -> Nat]
        /\ mem[k] \in [Coords -> Nat] /\ fresh[k] \in [Coords -> Nat]
    BY DEF TypeOK, Ids
  <1>d. nodesOut \subseteq Coords \X Nat
    BY <1>b, <1>c DEF NodeOf
  <1>e. waysOut \subseteq [by : Conversions, feature : Features, id : Nat, kept : BOOLEAN]
    <2>1. (writer # k) \in BOOLEAN
      OBVIOUS
    <2>2. ASSUME NEW f \in Anonymous(batch[k])
          PROVE  [by |-> k, feature |-> f, id |-> wayId[k][f], kept |-> writer # k]
                    \in [by : Conversions, feature : Features, id : Nat, kept : BOOLEAN]
      BY <1>b, <1>c, <2>1
    <2> QED BY <2>2
  <1>f. \A m \in Conversions \ {k} : Anonymous(batch'[m]) = Anonymous(batch[m])
                                    /\ wayId'[m] = wayId[m] /\ pc'[m] = pc[m]
    BY <1>a DEF Forget
  <1>g. Counted(k)' = FALSE /\ \A m \in Conversions \ {k} : Counted(m)' = Counted(m)
    BY <1>a, <1>f DEF Counted, TypeOK
  <1>h. \A e \in waysOut : e.kept => Counted(k) /\ e.by = k /\ e.feature \in Anonymous(batch[k])
                                   /\ e.id = wayId[k][e.feature]
    <2>1. writer # k => Counted(k)
      BY <1>a DEF Counted
    <2>2. ASSUME NEW e \in waysOut, e.kept
          PROVE  \E f \in Anonymous(batch[k]) :
                    e = [by |-> k, feature |-> f, id |-> wayId[k][f], kept |-> writer # k]
      OBVIOUS
    <2>3. ASSUME NEW e \in waysOut, e.kept
          PROVE  Counted(k) /\ e.by = k /\ e.feature \in Anonymous(batch[k])
                 /\ e.id = wayId[k][e.feature]
      <3>1. PICK f \in Anonymous(batch[k]) :
                e = [by |-> k, feature |-> f, id |-> wayId[k][f], kept |-> writer # k]
        BY <2>2, <2>3
      <3>2. e.by = k /\ e.feature = f /\ e.id = wayId[k][f] /\ e.kept = (writer # k)
        BY <3>1
      <3>3. Counted(k)
        BY <2>1, <2>3, <3>2
      <3> QED BY <3>2, <3>3
    <2> QED BY <2>3
  <1> HIDE DEF WriteOsm, nodesOut, waysOut
  <1>1. TypeOK'
    <2>1. osmNodes' \subseteq Coords \X Nat
      BY <1>a, <1>d DEF TypeOK
    <2>2. osmWays' \subseteq [by : Conversions, feature : Features, id : Nat, kept : BOOLEAN]
      BY <1>a, <1>e DEF TypeOK
    <2> QED BY <1>a, <2>1, <2>2, ForgetTypes DEF TypeOK
  <1>2. Owner'
    BY <1>a DEF Owner, Forget
  <1>3. Numbered'
    BY <1>a, NumberedStays DEF Forget
  <1>4. Apart'
    BY <1>a DEF Apart
  <1>5. Current'
    <2>1. \A e \in osmNodes' : e[2] # 0
      BY <1>a DEF Current, nodesOut
    <2>2. \A m \in Conversions \ {k} : \A c : NodeOf(m, c)' = NodeOf(m, c)
      BY <1>a DEF NodeOf, Forget
    <2> QED BY <1>a, <1>f, <2>1, <2>2 DEF Current, Forget, TypeOK
  <1>6. WaysApart'
    <2>1. KeptBelow'
      BY <1>a, <1>h DEF WaysApart, KeptBelow, Committed
    <2>2. ASSUME NEW m \in Conversions PROVE Distinct(m)' /\ Uncommitted(m)'
      BY <1>a, <1>f DEF WaysApart, Distinct, Uncommitted, TypeOK
    <2>3. ASSUME NEW m \in Conversions, Counted(m)' PROVE Committed(m)'
      <3>1. m # k /\ Counted(m)
        BY <1>g, <2>3
      <3>2. \A e \in waysOut, f \in Anonymous(batch[m]) : e.kept => e.id # wayId[m][f]
        BY <1>h, <3>1 DEF WaysApart, Disjoint
      <3> QED BY <1>a, <1>f, <3>1, <3>2 DEF WaysApart, Committed
    <2>4. ASSUME NEW m \in Conversions, NEW n \in Conversions PROVE Disjoint(m, n)'
      BY <1>f, <1>g DEF WaysApart, Disjoint
    <2> QED BY <2>1, <2>2, <2>3, <2>4 DEF WaysApart, Committed
  <1>7. NodeIdsUnique'
    BY <1>a DEF NodeIdsUnique
  <1>8. OsmAgreesWhenApart'
    <2>1. ASSUME ~met, NEW e \in nodesOut
          PROVE  nodes[e[1]] = e[2]
      BY <1>a, <2>1 DEF Current, nodesOut
    <2> QED BY <1>a, <2>1 DEF OsmAgreesWhenApart
  <1>9. WayIdsUnique'
    <2>1. \A e, g \in waysOut : e.kept /\ g.kept /\ e.id = g.id => e.by = g.by /\ e.feature = g.feature
      BY <1>a, <1>h DEF WaysApart, Distinct
    <2>2. \A e \in waysOut, g \in osmWays : e.kept /\ g.kept => e.id # g.id
      BY <1>h DEF WaysApart, Committed
    <2> QED BY <1>a, <2>1, <2>2 DEF WayIdsUnique
  <1> QED BY <1>1, <1>2, <1>3, <1>4, <1>5, <1>6, <1>7, <1>8, <1>9

\* It is given up.
LEMMA AbandonStep ==
    ASSUME IInv, NEW k \in Conversions, Abandon(k)
    PROVE  IInv'
  <1> USE NobodyAssumption DEF IInv, Abandon, Goto, InProgress, Label, dbVars, txVars,
          localVars, osmVars
  <1>a. /\ pc[k] \notin {"new", "done", "failed"} /\ pc' = [pc EXCEPT ![k] = "failed"]
        /\ writer' = IF writer = k THEN Nobody ELSE writer
        /\ UNCHANGED <<nodes, nextNode, nextWay, ways, txNode, txWay, osmNodes, osmWays, met>>
        /\ Forget(k)
    BY DEF Closed
  <1>b. \A m \in Conversions \ {k} : Anonymous(batch'[m]) = Anonymous(batch[m])
                                    /\ wayId'[m] = wayId[m] /\ pc'[m] = pc[m]
    BY <1>a DEF Forget
  <1> HIDE DEF Abandon
  <1>1. TypeOK'
    BY <1>a, ForgetTypes DEF TypeOK
  <1>2. Owner'
    BY <1>a DEF TypeOK, Owner, Forget
  <1>3. Numbered'
    BY <1>a, NumberedStays DEF TypeOK, Forget
  <1>4. Apart'
    BY <1>a DEF Apart
  <1>5. Current'
    <2>1. \A m \in Conversions \ {k} : \A c : NodeOf(m, c)' = NodeOf(m, c)
      BY <1>a DEF NodeOf, Forget
    <2> QED BY <1>a, <1>b, <2>1 DEF Current, Forget, TypeOK
  <1>6. WaysApart'
    <2>1. \A m \in Conversions : Counted(m)' => m # k /\ Counted(m)
      BY <1>a, <1>b DEF Counted, TypeOK
    <2>2. KeptBelow' /\ \A m \in Conversions : Distinct(m)' /\ Uncommitted(m)'
      BY <1>a, <1>b DEF WaysApart, KeptBelow, Distinct, Uncommitted, TypeOK
    <2>3. \A m \in Conversions : Committed(m)'
      BY <1>a, <1>b, <2>1 DEF WaysApart, Committed
    <2>4. \A m, n \in Conversions : Disjoint(m, n)'
      BY <1>b, <2>1 DEF WaysApart, Disjoint
    <2> QED BY <2>2, <2>3, <2>4 DEF WaysApart
  <1>7. NodeIdsUnique'
    BY <1>a DEF NodeIdsUnique
  <1>8. OsmAgreesWhenApart'
    BY <1>a DEF OsmAgreesWhenApart
  <1>9. WayIdsUnique'
    BY <1>a DEF WayIdsUnique
  <1> QED BY <1>1, <1>2, <1>3, <1>4, <1>5, <1>6, <1>7, <1>8, <1>9

-----------------------------------------------------------------------------
\* Every step keeps the inductive invariant.
LEMMA NextIInv == IInv /\ [Next]_vars => IInv'
  <1> SUFFICES ASSUME IInv, [Next]_vars PROVE IInv'
    OBVIOUS
  <1>1. CASE Next
    BY <1>1, ClearStep, EndDetachedStep, OpenStep, LoadIntoMemoryStep, NextNodeIdStep, ConvertFeaturesStep,
       FlushNodesStep, RegisterWaysStep, WriteOsmStep, AbandonStep DEF Next, Step
  <1>2. CASE UNCHANGED vars
    <2>1. \A k \in Conversions : /\ Fresh(k)' = Fresh(k)
                                 /\ \A c : NodeOf(k, c)' = NodeOf(k, c)
      BY <1>2 DEF vars, Fresh, NodeOf
    <2>2. /\ TypeOK' /\ Owner' /\ Numbered' /\ Apart' /\ Current'
          /\ NodeIdsUnique' /\ OsmAgreesWhenApart' /\ WayIdsUnique'
      BY <1>2, <2>1 DEF vars, IInv, TypeOK, Owner, Numbered, Apart, InProgress, Current,
         NodeIdsUnique, OsmAgreesWhenApart, WayIdsUnique
    <2>3. WaysApart'
      BY <1>2 DEF vars, IInv, WaysApart, KeptBelow, Distinct, Uncommitted, Committed,
         Disjoint, Counted
    <2> QED BY <2>2, <2>3 DEF IInv
  <1> QED BY <1>1, <1>2

LEMMA Inductive == Spec => []IInv
  BY InitIInv, NextIInv, PTL DEF Spec

-----------------------------------------------------------------------------
(* Waiting for the write transaction.                                        *)

\* There are as many numbers from lo on as the members of a finite set need.
LEMMA NumberingExists ==
    ASSUME NEW S, NEW T, S \subseteq T, IsFiniteSet(S), NEW lo \in Nat \ {0}
    PROVE  Numberings(S, T, lo) # {}
  <1> DEFINE n == Cardinality(S)
  <1>1. n \in Nat /\ ExistsBijection(1..n, S)
    BY FS_CardinalityType
  <1>2. PICK f \in Bijection(1..n, S) : TRUE
    BY <1>1 DEF ExistsBijection
  <1>3. /\ f \in [1..n -> S] /\ \A x \in S : \E i \in 1..n : f[i] = x
    BY <1>2 DEF Bijection, Surjection, Injection
  <1> HIDE DEF n
  <1> DEFINE place(x) == CHOOSE i \in 1..n : f[i] = x
             g == [x \in T |-> IF x \in S THEN lo + place(x) - 1 ELSE 0]
  <1>4. \A x \in S : place(x) \in 1..n /\ f[place(x)] = x
    BY <1>3
  <1> HIDE DEF place
  <1>5. \A x \in S : lo + place(x) - 1 \in lo..(lo + n) /\ lo + place(x) - 1 < lo + n
    BY <1>1, <1>4
  <1>6. g \in [T -> {0} \cup lo..(lo + n)]
    BY <1>5
  <1>7. \A x \in T : g[x] = 0 <=> x \notin S
    BY <1>5
  <1>8. ASSUME NEW x \in S, NEW y \in S, g[x] = g[y] PROVE x = y
    <2>1. lo + place(x) - 1 = lo + place(y) - 1
      BY <1>8
    <2>2. place(x) = place(y)
      BY <1>1, <1>4, <2>1
    <2> QED BY <1>4, <2>2
  <1>9. \A x \in S : g[x] < lo + n
    BY <1>5
  <1>10. g \in Numberings(S, T, lo)
    BY <1>6, <1>7, <1>8, <1>9 DEF Numberings, n
  <1> QED BY <1>10

\* The steps that open a write transaction, and the last one, which may.
Waits(k) ==
    /\ writer \notin {k, Nobody}
    /\ pc[k] = "allocate" \/ (pc[k] = "register" /\ batch[k] # Anonymous(batch[k]))

\* Whoever has the write transaction goes on to its end: it waits for nobody, does not
\* open a second one, and always finds numbers for what it converts.
WriterGoesOn ==
    /\ writer # Nobody => InProgress(writer) /\ pc[writer] \notin {"load", "allocate"}
                           /\ ~ Waits(writer)
    /\ \A k \in Conversions : pc[k] = "convert" =>
          /\ writer = k
          /\ Numberings(CoordsIn(batch[k]) \ Found(k), Coords, first[k]) # {}
          /\ Numberings(Anonymous(batch[k]), Features, txWay) # {}

-----------------------------------------------------------------------------
\* The registry and the progress of the conversions are well typed.
THEOREM TypeCorrect == Spec => []TypeOK
  <1>1. IInv => TypeOK
    BY DEF IInv
  <1> QED BY <1>1, Inductive, PTL

\* node_registry.py, next_node_id and flush_nodes: whatever is rolled back or abandoned,
\* no two coordinates get one ID, and the counter is past every ID in use.
THEOREM NodesAreDistinct == Spec => []NodeIdsUnique
  <1>1. IInv => NodeIdsUnique
    BY DEF IInv
  <1> QED BY <1>1, Inductive, PTL

\* "Node IDs are assigned once and never change" (node_registry.py), whichever containers
\* convert at the same time, unless a rebuild deletes them all with the files made of them.
THEOREM NodesAreFixed == Spec => NodeIdsNeverChange
  <1>1. ASSUME IInv, [Next]_vars
        PROVE  [\/ \A c \in Coords : nodes[c] # 0 => nodes'[c] = nodes[c]
                \/ /\ \E k \in BootConversions : pc[k] = "new" /\ pc'[k] = "cleared"
                   /\ osmNodes' = {} /\ osmWays' = {}]_vars
    <2>1. ASSUME NEW k \in Conversions, FlushNodes(k)
          PROVE  \A c \in Coords : nodes[c] # 0 => nodes'[c] = nodes[c]
      BY <2>1 DEF FlushNodes, InsertOrIgnore, dbVars
    <2>2. ASSUME NEW k \in Conversions, Clear(k)
          PROVE  /\ k \in BootConversions /\ pc[k] = "new" /\ pc'[k] = "cleared"
                 /\ osmNodes' = {} /\ osmWays' = {}
      BY <2>2 DEF Clear
    <2>3. ASSUME NEW k \in Conversions, Step(k), ~FlushNodes(k), ~Clear(k)
          PROVE  nodes' = nodes
      BY <2>3 DEF Step, EndDetached, Open, LoadIntoMemory, NextNodeId, ConvertFeatures, RegisterWays,
         WriteOsm, Abandon, dbVars
    <2> QED BY <1>1, <2>1, <2>2, <2>3 DEF Next, vars
  <1> QED BY <1>1, Inductive, PTL DEF Spec, NodeIdsNeverChange

\* All OSM files made with the registry agree with it on every coordinate, however many
\* conversions are abandoned, as long as none of the api has overlapped with one of the
\* bootstrap.
THEOREM FilesAgree == Spec => []OsmAgreesWhenApart
  <1>1. IInv => OsmAgreesWhenApart
    BY DEF IInv
  <1> QED BY <1>1, Inductive, PTL

\* geojson_to_osm_service.py, _next_id: features without OBJECTID get way IDs of their
\* own, among conversions that commit the counter.
THEOREM WaysAreDistinct == Spec => []WayIdsUnique
  <1>1. IInv => WayIdsUnique
    BY DEF IInv
  <1> QED BY <1>1, Inductive, PTL

\* geojson_to_osm_service.py, convert_features: conversions that find the registry locked
\* wait for one that waits for nothing and has its next step before it, so that they
\* never wait for each other; the part of EveryConversionEnds that is about safety.
THEOREM WriterIsNotBarred == Spec => []WriterGoesOn
  <1>1. ASSUME IInv PROVE WriterGoesOn
    <2> USE <1>1
    <2>1. TypeOK /\ Owner
      BY DEF IInv
    <2>2. ASSUME writer # Nobody
          PROVE  InProgress(writer) /\ pc[writer] \notin {"load", "allocate"} /\ ~ Waits(writer)
      BY <2>1, <2>2 DEF Owner, TypeOK, InProgress, Waits
    <2>3. ASSUME NEW k \in Conversions, pc[k] = "convert"
          PROVE  /\ writer = k
                 /\ Numberings(CoordsIn(batch[k]) \ Found(k), Coords, first[k]) # {}
                 /\ Numberings(Anonymous(batch[k]), Features, txWay) # {}
      <3>1. /\ writer = k /\ first[k] = nextNode /\ nextNode \in Nat \ {0}
            /\ txWay >= nextWay /\ nextWay \in Nat \ {0} /\ txWay \in Nat
        BY <2>1, <2>3, NobodyAssumption DEF Owner, TypeOK
      <3>2. first[k] \in Nat \ {0} /\ txWay \in Nat \ {0}
        BY <3>1
      <3> DEFINE missing == CoordsIn(batch[k]) \ Found(k)
                 unnamed == Anonymous(batch[k])
      <3>3. /\ missing \subseteq Coords /\ IsFiniteSet(missing)
            /\ unnamed \subseteq Features /\ IsFiniteSet(unnamed)
        BY <2>1, FewNeedIds
      <3> HIDE DEF missing, unnamed
      <3>4. Numberings(missing, Coords, first[k]) # {} /\ Numberings(unnamed, Features, txWay) # {}
        BY <3>2, <3>3, NumberingExists
      <3> QED BY <3>1, <3>4 DEF missing, unnamed
    <2> QED BY <2>2, <2>3 DEF WriterGoesOn
  <1> QED BY <1>1, Inductive, PTL
=============================================================================

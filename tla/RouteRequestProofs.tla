-------------------------- MODULE RouteRequestProofs --------------------------
(***************************************************************************)
(* The counters of demand_summary, for any number of requests and of cells,  *)
(* under any interleaving of the transactions and any failures of them.      *)
(*                                                                         *)
(* A request's transaction has locked exactly the rows it counts in when it   *)
(* commits, and each as it was committed last plus one (Logging): its commit  *)
(* keeps every exact row exact. A maintenance run fills the rows it holds      *)
(* with no less than the log has, so that no row ever counts too few (Floor), *)
(* whatever overlaps. More is true while no run overlaps a purge (Accounts):   *)
(* whatever row a run has not taken is exact once its DELETE has passed it,    *)
(* and whatever row it has taken nobody else can count in, so that what its    *)
(* statements saw there is still the truth when it commits (Maintaining). A    *)
(* run that overlaps a purge may find rows whose attempts are gone.            *)
(*                                                                         *)
(* Then the route requests around those transactions, for any responses of   *)
(* Valhalla. Two arguments: a request that initialises runs without the hook *)
(* and finds what those before it have left (Boots, Tried), and an attempt's *)
(* transaction runs only behind a response that is logged, and ends before   *)
(* the answer (Logs).                                                       *)
(***************************************************************************)
EXTENDS RouteRequest, FiniteSetTheorems, NaturalsInduction, WellFoundedInduction, TLAPS

Running(t) == pc[t] \notin {"new", "done", "failed"}
Locking(t) == Running(t) /\ pc[t] # "purged"

\* The hypothesis: no maintenance run overlaps a purge. Rebuilds may overlap each other.
PurgesAlone ==
    \A m, n \in Maintainers : m \in dirty /\ Running(m) /\ Running(n) => m = n

\* The types, the finiteness of what is counted and the range of what is grouped.
DemandTyped ==
    /\ TypeOK
    /\ IsFiniteSet(logged)
    /\ \A t \in Transactions : IsFiniteSet(seen[t])
    /\ \A a \in Attempts : info[a].ts <= clock
    /\ \A m \in Maintainers : pc[m] \in {"fillOrigin", "fillDest"} =>
          \A k \in todo[m] : \E a \in seen[m] : CountsIn(a, k)

\* Only a transaction that runs has rows locked, and which ones a request has.
Locks ==
    /\ \A k \in Keys : holder[k] # Nobody => Locking(holder[k])
    /\ \A n \in dirty : Running(n) \/ pc[n] = "failed"
    /\ \A m \in Maintainers : pc[m] \notin {"origin", "originLock", "dest", "destLock", "commit"}

Logging(a) ==
    /\ pc[a] \notin {"delete", "fillOrigin", "fillDest"}
    /\ a \in logged => pc[a] = "done"
    /\ pc[a] \in {"dest", "destLock", "commit"} => holder[<<info[a].origin, "origin">>] = a
    /\ pc[a] = "commit" => holder[<<info[a].dest, "destination">>] = a
    /\ \A k \in Keys : holder[k] = a =>
          CountsIn(a, k) /\ pending[k].count = summary[k].count + 1

Exact(k) == summary[k].count = Cardinality(AttemptsIn(k))

\* Whatever overlaps or fails, no row counts too few.
AtLeast == \A k \in Keys : Cardinality(AttemptsIn(k)) <= summary[k].count

\* Nor will a row that a maintenance run holds, once its type is being filled: what the
\* statement saw is no less than the log, from which others may purge meanwhile.
Enough(k) == Cardinality(AttemptsIn(k)) <= pending[k].count
Kept(m, k) == AttemptsIn(k) \subseteq seen[m] /\ (k \notin todo[m] => Enough(k))
Holding(m) ==
    \A k \in Keys :
        /\ holder[k] = m
        /\ pc[m] = "fillDest" \/ (pc[m] = "fillOrigin" /\ k[2] = "origin")
        => Kept(m, k)

\* What needs no hypothesis.
Floor == /\ DemandTyped /\ Locks /\ (\A a \in Attempts : Logging(a))
         /\ AtLeast /\ (\A m \in Maintainers : Holding(m))

\* What the pending row of a maintenance run is when its type has been filled.
Filled(k) == pending[k].count = Cardinality(AttemptsIn(k))
Emptied(k) == pending[k].count = 0

\* A row of the type that is being filled: what the statement saw is still so.
Filling(m, k) == /\ {a \in seen[m] : CountsIn(a, k)} = AttemptsIn(k)
                 /\ k \notin todo[m] => Filled(k)

Taken(m, k) ==
    /\ pc[m] = "delete" => Emptied(k) /\ k \notin todo[m]
    /\ pc[m] = "fillOrigin" => IF k[2] = "origin" THEN Filling(m, k)
                               ELSE Emptied(k) /\ k \notin todo[m]
    /\ pc[m] = "fillDest" => IF k[2] = "origin" THEN Filled(k) /\ k \notin todo[m]
                             ELSE Filling(m, k)

Untouched(m, k) ==
    /\ pc[m] = "delete" => k \in todo[m] \/ Exact(k)
    /\ pc[m] \in {"fillOrigin", "fillDest"} =>
          Exact(k) /\ (k \in todo[m] => summary[k].count > 0)

Maintaining(m) ==
    \A k \in Keys : IF holder[k] = m THEN Taken(m, k) ELSE Untouched(m, k)

AllExact == \A k \in Keys : Exact(k)

Accounts == AttemptCountExact /\ \A m \in Maintainers : Maintaining(m)

Ledger == Floor /\ Accounts

-----------------------------------------------------------------------------
(* What the operators of DemandLog return.                                  *)

\* The image of a finite set of attempts is finite: the users can be counted.
LEMMA UsersAreCounted ==
    ASSUME NEW S, IsFiniteSet(S)
    PROVE  DistinctUsers(S) \in Nat
  <1> DEFINE U == {info[a].user : a \in S}
             f == [a \in S |-> info[a].user]
  <1>1. f \in Surjection(S, U)
    BY DEF Surjection
  <1>2. IsFiniteSet(U)
    BY <1>1, FS_Surjection
  <1>3. IsFiniteSet(U \ {NoUser})
    BY <1>2, FS_RemoveElement
  <1> QED BY <1>3, FS_CardinalityType DEF DistinctUsers

\* A set of natural numbers has a least element.
LEMMA LeastOf ==
    ASSUME NEW T, T \subseteq Nat, T # {}
    PROVE  \E x \in T : \A y \in T : x <= y
  <1>1. PICK x \in T : \A y \in T : ~ (<<y, x>> \in OpToRel(<, Nat))
    BY NatLessThanWellFounded, WFMin
  <1>2. \A y \in Nat : y < x => <<y, x>> \in OpToRel(<, Nat)
    BY <1>1, Z3 DEF OpToRel
  <1>3. \A y \in T : ~ (y < x)
    BY <1>1, <1>2
  <1>4. ASSUME NEW y \in T PROVE x <= y
    <2>1. x \in Nat /\ y \in Nat /\ ~ (y < x)
      BY <1>3
    <2> QED BY <2>1
  <1> QED BY <1>4

\* MIN(ts) of a group is one of its timestamps.
LEMMA EarliestIsOne ==
    ASSUME NEW S, S # {}, \A a \in S : info[a].ts \in Nat
    PROVE  Earliest(S) \in Nat
  <1> DEFINE T == {info[a].ts : a \in S}
  <1>1. PICK t \in T : \A y \in T : t <= y
    BY LeastOf
  <1>2. \A a \in S : t <= info[a].ts
    BY <1>1
  <1>3. Earliest(S) \in T
    BY <1>1, <1>2 DEF Earliest
  <1> QED BY <1>3

\* So is MAX(ts), as no timestamp lies in the future.
LEMMA LatestIsOne ==
    ASSUME NEW S, S # {}, \A a \in S : info[a].ts \in Nat /\ info[a].ts <= clock,
           clock \in Nat
    PROVE  Latest(S) \in Nat
  <1> DEFINE T == {clock - info[a].ts : a \in S}
  <1>1. T \subseteq Nat /\ T # {}
    OBVIOUS
  <1>2. PICK d \in T : \A y \in T : d <= y
    BY <1>1, LeastOf
  <1>3. PICK b \in S : d = clock - info[b].ts
    OBVIOUS
  <1>4. ASSUME NEW a \in S PROVE info[b].ts >= info[a].ts
    <2>1. d <= clock - info[a].ts
      BY <1>2
    <2> QED BY <2>1, <1>3
  <1>5. Latest(S) \in {info[a].ts : a \in S}
    BY <1>4 DEF Latest
  <1> QED BY <1>5

\* GROUP BY geohash, of a group that is not empty.
LEMMA GroupedIsRow ==
    ASSUME NEW S, S # {}, IsFiniteSet(S), clock \in Nat,
           \A a \in S : info[a].ts \in Nat /\ info[a].ts <= clock
    PROVE  Grouped(S) \in Row
  <1>1. /\ Cardinality(S) \in Nat /\ DistinctUsers(S) \in Nat
        /\ Earliest(S) \in Nat /\ Latest(S) \in Nat
    BY FS_CardinalityType, UsersAreCounted, EarliestIsOne, LatestIsOne
  <1> QED BY <1>1 DEF Grouped, Row

-----------------------------------------------------------------------------
(* The types.                                                               *)

\* No operation changes what an attempt is about.
LEMMA RoutesFixed ==
    ASSUME DemandTyped, [Next]_vars
    PROVE  /\ \A a \in Attempts : info'[a].origin = info[a].origin /\ info'[a].dest = info[a].dest
           /\ \A a \in Attempts, k \in Keys : CountsIn(a, k)' <=> CountsIn(a, k)
  <1>1. \A a \in Attempts : info'[a].origin = info[a].origin /\ info'[a].dest = info[a].dest
    BY DEF DemandTyped, TypeOK, Next, vars, LogStep, StartAttempt, BeginUpsert, Upsert,
       Commit, Abort, MaintenanceStep, StartRebuild, Purge, DeleteRow, BeginFill, FillRow,
       FillConflict
  <1> QED BY <1>1 DEF CountsIn

\* The requests keep them.
LEMMA LogTyped ==
    ASSUME DemandTyped, NEW a \in Attempts, StartAttempt(a) \/ BeginUpsert(a) \/ Upsert(a)
    PROVE  DemandTyped'
  <1> USE NamesAssumption DEF Transactions, Label, Goto
  <1>0. TypeOK /\ a \in Transactions /\ (\A m \in Maintainers : m # a)
    BY DEF DemandTyped
  <1>1. CASE StartAttempt(a)
    <2>1. TypeOK'
      <3>1. info' \in [Attempts -> [origin : Cells, dest : Cells,
                                    user : Users \cup {NoUser}, ts : Nat]]
        <4>1. /\ info' = [info EXCEPT ![a].ts = clock] /\ clock \in Nat
              /\ info \in [Attempts -> [origin : Cells, dest : Cells,
                                        user : Users \cup {NoUser}, ts : Nat]]
          BY <1>0, <1>1 DEF TypeOK, StartAttempt
        <4> HIDE DEF Label, Transactions
        <4> QED BY <4>1
      <3>2. pc' \in [Transactions -> Label] /\ clock' \in Nat
        BY <1>0, <1>1 DEF TypeOK, StartAttempt
      <3> QED BY <1>0, <1>1, <3>1, <3>2 DEF TypeOK, StartAttempt
    <2>2. \A b \in Attempts : info'[b].ts <= clock'
      BY <1>0, <1>1 DEF DemandTyped, TypeOK, StartAttempt
    <2>3. \A b \in Attempts, k \in Keys : CountsIn(b, k)' <=> CountsIn(b, k)
      BY <1>1, RoutesFixed DEF Next, LogStep
    <2> QED BY <1>0, <1>1, <2>1, <2>2, <2>3 DEF DemandTyped, TypeOK, StartAttempt
  <1>2. CASE BeginUpsert(a)
    <2>1. IsFiniteSet(logged \cup {a})
      BY FS_AddElement DEF DemandTyped
    <2>2. TypeOK'
      BY <1>0, <1>2 DEF TypeOK, BeginUpsert
    <2>3. \A t \in Transactions : IsFiniteSet(seen'[t])
      BY <1>0, <1>2, <2>1 DEF DemandTyped, BeginUpsert
    <2>4. \A m \in Maintainers : pc'[m] = pc[m] /\ seen'[m] = seen[m] /\ todo'[m] = todo[m]
      BY <1>0, <1>2 DEF BeginUpsert
    <2>5. \A b \in Attempts, k \in Keys : CountsIn(b, k)' <=> CountsIn(b, k)
      BY <1>2, RoutesFixed DEF Next, LogStep
    <2>6. \A m \in Maintainers : pc'[m] \in {"fillOrigin", "fillDest"} =>
             \A k \in todo'[m] : \E b \in seen'[m] : CountsIn(b, k)'
      BY <1>0, <2>4, <2>5 DEF DemandTyped, TypeOK
    <2>7. UNCHANGED <<info, logged, clock>>
      BY <1>2 DEF BeginUpsert
    <2> QED BY <2>2, <2>3, <2>6, <2>7 DEF DemandTyped
  <1>3. CASE Upsert(a)
    <2> PICK k \in RowsToUpsert(a) :
          /\ holder' = [holder EXCEPT ![k] = a]
          /\ pending' = [pending EXCEPT ![k] =
                            IF summary[k].count = 0 THEN Inserted(a) ELSE Updated(a, k)]
      BY <1>3 DEF Upsert
    <2>1. k \in Keys
      BY <1>0 DEF RowsToUpsert, Keys, TypeOK
    <2>2. Inserted(a) \in Row
      BY <1>0 DEF Inserted, Row, TypeOK
    <2>3. Updated(a, k) \in Row
      <3> DEFINE S == {x \in seen[a] : k[1] \in {info[x].origin, info[x].dest}}
      <3>1. IsFiniteSet(S)
        BY <1>0, FS_Subset DEF DemandTyped
      <3>2. DistinctUsers(S) \in Nat
        BY <3>1, UsersAreCounted
      <3>3. summary[k] \in Row /\ info[a].ts \in Nat
        BY <1>0, <2>1 DEF TypeOK
      <3> QED BY <3>2, <3>3 DEF Updated, CountPlusOne, Row
    <2>4. TypeOK'
      BY <1>0, <1>3, <2>1, <2>2, <2>3 DEF TypeOK, Upsert
    <2>5. \A m \in Maintainers : pc'[m] = pc[m]
      BY <1>0, <1>3 DEF Upsert
    <2>6. UNCHANGED <<info, logged, clock, seen, todo>>
      BY <1>3 DEF Upsert
    <2> QED BY <2>4, <2>5, <2>6 DEF DemandTyped, CountsIn
  <1> QED BY <1>1, <1>2, <1>3

\* A maintenance run keeps them.
LEMMA MaintenanceTyped ==
    ASSUME DemandTyped, NEW m \in Maintainers,
           \/ StartRebuild(m) \/ Purge(m) \/ DeleteRow(m)
           \/ BeginFill(m) \/ FillRow(m) \/ FillConflict(m)
    PROVE  DemandTyped'
  <1> USE NamesAssumption DEF Transactions, Label, Goto
  <1>0. TypeOK /\ m \in Transactions
    BY DEF DemandTyped
  <1>1. CASE StartRebuild(m)
    <2>1. TypeOK'
      BY <1>0, <1>1 DEF TypeOK, StartRebuild
    <2> QED BY <1>0, <1>1, <2>1 DEF DemandTyped, StartRebuild, CountsIn
  <1>2. CASE Purge(m)
    <2>1. TypeOK'
      BY <1>0, <1>2 DEF TypeOK, Purge
    <2>2. IsFiniteSet(logged')
      <3>1. logged' \in SUBSET logged
        BY <1>2 DEF Purge
      <3> QED BY <3>1, FS_Subset DEF DemandTyped
    <2> QED BY <1>0, <1>2, <2>1, <2>2 DEF DemandTyped, Purge, CountsIn
  <1>3. CASE DeleteRow(m)
    <2>1. NoRow \in Row
      BY DEF NoRow, Row
    <2>2. TypeOK'
      BY <1>0, <1>3, <2>1 DEF TypeOK, DeleteRow
    <2> QED BY <1>0, <1>3, <2>2 DEF DemandTyped, DeleteRow, CountsIn
  <1>4. CASE BeginFill(m)
    <2>1. TypeOK'
      BY <1>0, <1>4 DEF TypeOK, BeginFill
    <2>2. \A k \in todo'[m] : \E a \in seen'[m] : CountsIn(a, k)'
      BY <1>0, <1>4 DEF TypeOK, BeginFill, CountsIn
    <2>3. \A n \in Maintainers \ {m} : pc'[n] = pc[n] /\ seen'[n] = seen[n] /\ todo'[n] = todo[n]
      BY <1>0, <1>4 DEF BeginFill
    <2>4. \A n \in Maintainers : pc'[n] \in {"fillOrigin", "fillDest"} =>
             \A k \in todo'[n] : \E a \in seen'[n] : CountsIn(a, k)'
      BY <1>4, <2>2, <2>3 DEF DemandTyped, BeginFill, CountsIn
    <2>5. \A t \in Transactions : IsFiniteSet(seen'[t])
      BY <1>0, <1>4 DEF DemandTyped, BeginFill
    <2> QED BY <1>4, <2>1, <2>4, <2>5 DEF DemandTyped, BeginFill
  <1>5. CASE FillRow(m)
    <2> PICK k \in todo[m] :
          /\ holder' = [holder EXCEPT ![k] = m]
          /\ pending' = [pending EXCEPT ![k] = Grouped({a \in seen[m] : CountsIn(a, k)})]
          /\ todo' = [todo EXCEPT ![m] = @ \ {k}]
      BY <1>5 DEF FillRow
    <2> DEFINE S == {a \in seen[m] : CountsIn(a, k)}
    <2>1. k \in Keys
      BY <1>0 DEF TypeOK
    <2>2. S # {} /\ IsFiniteSet(S) /\ S \subseteq Attempts
      <3>1. S # {}
        BY <1>5 DEF DemandTyped, FillRow
      <3>2. IsFiniteSet(S)
        BY <1>0, FS_Subset DEF DemandTyped
      <3> QED BY <1>0, <3>1, <3>2 DEF TypeOK
    <2>3. clock \in Nat /\ \A a \in S : info[a].ts \in Nat /\ info[a].ts <= clock
      BY <1>0, <2>2 DEF DemandTyped, TypeOK
    <2>4. Grouped(S) \in Row
      BY <2>2, <2>3, GroupedIsRow
    <2>5. TypeOK'
      BY <1>0, <1>5, <2>1, <2>4 DEF TypeOK, FillRow
    <2> QED BY <1>0, <1>5, <2>5 DEF DemandTyped, FillRow, CountsIn
  <1>6. CASE FillConflict(m)
    <2>1. TypeOK'
      BY <1>0, <1>6 DEF TypeOK, FillConflict, Unlocked
    <2> QED BY <1>0, <1>6, <2>1 DEF DemandTyped, FillConflict, CountsIn
  <1> QED BY <1>1, <1>2, <1>3, <1>4, <1>5, <1>6

\* The end of a transaction keeps them.
LEMMA EndTyped ==
    ASSUME DemandTyped, NEW t \in Transactions, Commit(t) \/ Abort(t)
    PROVE  DemandTyped'
  <1> USE NamesAssumption DEF Transactions, Label, Goto
  <1>0. TypeOK
    BY DEF DemandTyped
  <1>1. CASE Commit(t)
    <2>1. TypeOK'
      <3>1. summary' \in [Keys -> Row] /\ holder' \in [Keys -> Transactions \cup {Nobody}]
        BY <1>0, <1>1 DEF TypeOK, Commit, Unlocked
      <3>2. todo' \in [Maintainers -> SUBSET Keys]
        BY <1>0, <1>1 DEF TypeOK, Commit, StillToDelete
      <3> QED BY <1>0, <1>1, <3>1, <3>2 DEF TypeOK, Commit
    <2>2. IsFiniteSet(logged')
      BY <1>1, FS_AddElement DEF DemandTyped, Commit
    <2>3. \A n \in Maintainers : /\ todo'[n] \subseteq todo[n]
                                 /\ pc'[n] \in {"fillOrigin", "fillDest"} => pc'[n] = pc[n]
      BY <1>0, <1>1 DEF Commit, StillToDelete
    <2>4. UNCHANGED <<info, seen, clock>>
      BY <1>1 DEF Commit
    <2> QED BY <2>1, <2>2, <2>3, <2>4 DEF DemandTyped, CountsIn
  <1>2. CASE Abort(t)
    <2>1. TypeOK'
      BY <1>0, <1>2 DEF TypeOK, Abort, Unlocked
    <2> QED BY <1>0, <1>2, <2>1 DEF DemandTyped, Abort, CountsIn
  <1> QED BY <1>1, <1>2

\* Every step of the database keeps the types.
LEMMA NextTyped == DemandTyped /\ [Next]_vars => DemandTyped'
  <1> SUFFICES ASSUME DemandTyped, [Next]_vars PROVE DemandTyped'
    OBVIOUS
  <1>1. CASE UNCHANGED vars
    BY <1>1 DEF vars, DemandTyped, TypeOK, CountsIn
  <1>2. CASE Next
    BY <1>2, LogTyped, MaintenanceTyped, EndTyped DEF Next, LogStep, MaintenanceStep,
       Transactions
  <1> QED BY <1>1, <1>2

-----------------------------------------------------------------------------
(* The locks, and what a request's transaction knows of its rows.           *)

\* A step of log_failed_route before its commit.
LEMMA LogLocks ==
    ASSUME DemandTyped, Locks, \A b \in Attempts : Logging(b),
           NEW a \in Attempts, StartAttempt(a) \/ BeginUpsert(a) \/ Upsert(a)
    PROVE  Locks' /\ \A b \in Attempts : Logging(b)'
  <1> USE NamesAssumption DEF Transactions, Label, Goto, Running, Locking
  <1>0. TypeOK /\ a \in Transactions /\ (\A m \in Maintainers : m # a)
    BY DEF DemandTyped
  <1>1. \A b \in Attempts, k \in Keys : CountsIn(b, k)' <=> CountsIn(b, k)
    BY RoutesFixed DEF Next, LogStep
  <1>2. \A b \in Attempts : info'[b].origin = info[b].origin /\ info'[b].dest = info[b].dest
    BY RoutesFixed DEF Next, LogStep
  <1>3. \A t \in Transactions \ {a} : pc'[t] = pc[t]
    BY <1>0 DEF TypeOK, StartAttempt, BeginUpsert, Upsert
  <1>4. UNCHANGED <<logged, summary, dirty>>
    BY DEF StartAttempt, BeginUpsert, Upsert
  <1>5. Locking(a)' /\ ~ (pc[a] \in {"done", "failed", "commit"})
    BY <1>0 DEF TypeOK, StartAttempt, BeginUpsert, Upsert
  <1>6. CASE StartAttempt(a) \/ BeginUpsert(a)
    <2>1. UNCHANGED <<holder, pending>>
      BY <1>6 DEF StartAttempt, BeginUpsert
    <2>2. Locks'
      BY <1>0, <1>3, <1>4, <1>5, <2>1 DEF Locks, TypeOK
    <2>3. ASSUME NEW b \in Attempts PROVE Logging(b)'
      <3>1. \A k \in Keys : holder'[k] = b =>
               CountsIn(b, k)' /\ pending'[k].count = summary'[k].count + 1
        BY <1>1, <1>4, <2>1 DEF Logging
      <3>2. CASE b # a
        BY <1>2, <1>3, <1>4, <2>1, <3>1, <3>2 DEF Logging
      <3>3. CASE b = a
        BY <1>0, <1>2, <1>4, <1>6, <2>1, <3>1, <3>3 DEF Logging, StartAttempt, BeginUpsert,
           TypeOK
      <3> QED BY <3>2, <3>3
    <2> QED BY <2>2, <2>3
  <1>7. CASE Upsert(a)
    <2> PICK k \in RowsToUpsert(a) :
          /\ holder[k] = Nobody
          /\ holder' = [holder EXCEPT ![k] = a]
          /\ pending' = [pending EXCEPT ![k] =
                            IF summary[k].count = 0 THEN Inserted(a) ELSE Updated(a, k)]
      BY <1>7 DEF Upsert
    <2>1. k \in Keys /\ CountsIn(a, k)
      BY <1>0 DEF RowsToUpsert, Keys, TypeOK, CountsIn
    <2>2. /\ holder'[k] = a /\ pending'[k].count = summary[k].count + 1
          /\ \A j \in Keys \ {k} : holder'[j] = holder[j] /\ pending'[j] = pending[j]
      BY <1>0, <2>1 DEF TypeOK, Inserted, Updated, CountPlusOne
    <2>3. Locks'
      <3>1. ASSUME NEW j \in Keys, holder'[j] # Nobody PROVE Locking(holder[j])'
        <4>1. holder[j] \in Transactions \cup {Nobody}
          BY <1>0 DEF TypeOK
        <4>2. CASE j = k
          BY <1>5, <2>2, <4>2
        <4>3. CASE j # k
          BY <1>3, <1>5, <2>2, <3>1, <4>1, <4>3 DEF Locks
        <4> QED BY <4>2, <4>3
      <3>2. \A n \in dirty : n # a
        BY <1>0 DEF TypeOK
      <3> QED BY <1>0, <1>3, <1>4, <3>1, <3>2 DEF Locks, TypeOK
    <2>4. ASSUME NEW b \in Attempts PROVE Logging(b)'
      <3>1. \A j \in Keys : holder'[j] = b =>
               CountsIn(b, j)' /\ pending'[j].count = summary'[j].count + 1
        <4> SUFFICES ASSUME NEW j \in Keys, holder'[j] = b
                     PROVE  CountsIn(b, j)' /\ pending'[j].count = summary'[j].count + 1
          OBVIOUS
        <4>1. CASE j = k
          BY <1>1, <1>4, <2>1, <2>2, <4>1
        <4>2. CASE j # k
          BY <1>1, <1>4, <2>2, <4>2 DEF Logging
        <4> QED BY <4>1, <4>2
      <3>2. \A j \in Keys : holder[j] = b => holder'[j] = b
        BY <2>1, <2>2
      <3>3. <<info[b].origin, "origin">> \in Keys /\ <<info[b].dest, "destination">> \in Keys
        BY <1>0 DEF Keys, TypeOK
      <3>4. CASE b # a
        BY <1>2, <1>3, <1>4, <3>1, <3>2, <3>3, <3>4 DEF Logging
      <3>5. CASE b = a
        <4>1. CASE pc[a] = "originLock"
          BY <1>0, <1>2, <1>4, <1>7, <2>2, <3>1, <3>2, <3>3, <3>5, <4>1 DEF Logging, Upsert,
             RowsToUpsert, TypeOK
        <4>2. CASE pc[a] = "destLock"
          BY <1>0, <1>2, <1>4, <1>7, <2>2, <3>1, <3>2, <3>3, <3>5, <4>2 DEF Logging, Upsert,
             RowsToUpsert, TypeOK
        <4> QED BY <1>7, <4>1, <4>2 DEF Upsert
      <3> QED BY <3>4, <3>5
    <2> QED BY <2>3, <2>4
  <1> QED BY <1>6, <1>7

\* A step of a maintenance run before its commit.
LEMMA MaintenanceLocks ==
    ASSUME DemandTyped, Locks, \A b \in Attempts : Logging(b), NEW m \in Maintainers,
           \/ StartRebuild(m) \/ Purge(m) \/ DeleteRow(m)
           \/ BeginFill(m) \/ FillRow(m) \/ FillConflict(m)
    PROVE  Locks' /\ \A b \in Attempts : Logging(b)'
  <1> USE NamesAssumption DEF Transactions, Label, Goto
  <1>0. TypeOK /\ m \in Transactions /\ (\A a \in Attempts : m # a)
    BY DEF DemandTyped
  <1>1. /\ \A t \in Transactions \ {m} : pc'[t] = pc[t]
        /\ pc'[m] \in {"purged", "delete", "fillOrigin", "fillDest", "failed"}
        /\ pc'[m] = "purged" => pc[m] = "new" /\ holder' = holder
        /\ logged' \subseteq logged /\ info' = info /\ summary' = summary
        /\ dirty' \subseteq dirty \cup {m}
    BY <1>0 DEF TypeOK, StartRebuild, Purge, DeleteRow, BeginFill, FillRow,
       FillConflict
  <1>2. ASSUME NEW k \in Keys
        PROVE  /\ holder'[k] # holder[k] =>
                     holder[k] \in {m, Nobody} /\ holder'[k] \in {m, Nobody}
               /\ holder[k] \notin {m, Nobody} => pending'[k] = pending[k]
               /\ pc'[m] = "failed" => holder'[k] # m
               /\ holder'[k] = m \/ pc'[m] = "failed" \/ holder'[k] = holder[k]
    <2>1. CASE StartRebuild(m) \/ Purge(m) \/ BeginFill(m)
      BY <1>0, <2>1 DEF TypeOK, StartRebuild, Purge, BeginFill
    <2>2. CASE DeleteRow(m)
      BY <1>0, <2>2 DEF DeleteRow
    <2>3. CASE FillRow(m)
      <3> PICK j \in todo[m] :
            /\ holder[j] \in {m, Nobody}
            /\ holder' = [holder EXCEPT ![j] = m]
            /\ pending' = [pending EXCEPT ![j] = Grouped({a \in seen[m] : CountsIn(a, j)})]
        BY <2>3 DEF FillRow
      <3> QED BY <1>0, <2>3 DEF FillRow
    <2>4. CASE FillConflict(m)
      BY <1>0, <2>4 DEF TypeOK, FillConflict, Unlocked
    <2> QED BY <2>1, <2>2, <2>3, <2>4
  <1>3. Locks'
    BY <1>0, <1>1, <1>2 DEF Locks, TypeOK, Running, Locking
  <1>4. ASSUME NEW b \in Attempts PROVE Logging(b)'
    <2>1. <<info[b].origin, "origin">> \in Keys /\ <<info[b].dest, "destination">> \in Keys
      BY <1>0 DEF Keys, TypeOK
    <2>2. pc'[b] = pc[b] /\ b # Nobody
      BY <1>0, <1>1
    <2>3. \A k \in Keys : (holder'[k] = b <=> holder[k] = b)
                         /\ (holder[k] = b => pending'[k] = pending[k])
      BY <1>0, <1>2, <2>2
    <2> QED BY <1>1, <2>1, <2>2, <2>3 DEF Logging, CountsIn
  <1> QED BY <1>3, <1>4

\* The end of a transaction.
LEMMA EndLocks ==
    ASSUME DemandTyped, Locks, \A b \in Attempts : Logging(b),
           NEW t \in Transactions, Commit(t) \/ Abort(t)
    PROVE  Locks' /\ \A b \in Attempts : Logging(b)'
  <1> USE NamesAssumption DEF Transactions, Label, Goto
  <1>0. TypeOK
    BY DEF DemandTyped
  <1>1. /\ \A u \in Transactions \ {t} : pc'[u] = pc[u]
        /\ pc'[t] \in {"done", "failed"} /\ Running(t) /\ info' = info /\ pending' = pending
        /\ pc'[t] = "done" => logged' \subseteq logged \cup {t} /\ dirty' = dirty \ {t}
        /\ pc'[t] = "failed" => logged' = logged /\ dirty' = dirty
    BY <1>0 DEF TypeOK, Commit, Abort, ReadyToCommit, Running
  <1>2. \A k \in Keys : /\ holder'[k] = IF holder[k] = t THEN Nobody ELSE holder[k]
                        /\ holder[k] # t => summary'[k] = summary[k]
    BY <1>0 DEF Commit, Abort, Unlocked
  <1>3. Locks'
    <2>1. ASSUME NEW k \in Keys, holder'[k] # Nobody PROVE Locking(holder[k])'
      <3>1. holder'[k] = holder[k] /\ holder[k] # t /\ holder[k] \in Transactions
        BY <1>0, <1>2, <2>1 DEF TypeOK
      <3> QED BY <1>1, <2>1, <3>1 DEF Locks, Running, Locking
    <2> QED BY <1>0, <1>1, <2>1 DEF Locks, TypeOK, Running
  <1>4. ASSUME NEW b \in Attempts PROVE Logging(b)'
    <2>1. <<info[b].origin, "origin">> \in Keys /\ <<info[b].dest, "destination">> \in Keys
      BY <1>0 DEF Keys, TypeOK
    <2> QED BY <1>0, <1>1, <1>2, <2>1 DEF Logging, CountsIn, Running
  <1> QED BY <1>3, <1>4

-----------------------------------------------------------------------------
(* The counters.                                                            *)

\* The attempts of a cell can be counted.
LEMMA Countable ==
    ASSUME DemandTyped, NEW k \in Keys
    PROVE  /\ IsFiniteSet(AttemptsIn(k))
           /\ Cardinality(AttemptsIn(k)) \in Nat
           /\ Cardinality(AttemptsIn(k)) = 0 <=> AttemptsIn(k) = {}
  <1>1. IsFiniteSet(AttemptsIn(k))
    BY FS_Subset DEF DemandTyped, AttemptsIn
  <1> QED BY <1>1, FS_CardinalityType, FS_EmptySet

\* The commit of log_failed_route adds the attempt to the rows it counts in, which
\* are those it has locked, and one to their counters.
LEMMA CommitCounts ==
    ASSUME DemandTyped, NEW a \in Attempts, Logging(a), Commit(a), NEW k \in Keys
    PROVE  /\ Exact(k) => Exact(k)'
           /\ Cardinality(AttemptsIn(k)) <= summary[k].count
                => Cardinality(AttemptsIn(k)') <= summary'[k].count
           /\ holder[k] # a => AttemptsIn(k)' = AttemptsIn(k) /\ summary'[k] = summary[k]
           /\ summary[k].count > 0 => summary'[k].count > 0
  <1>0. TypeOK /\ a \in Transactions
    BY DEF DemandTyped, Transactions
  <1>1. /\ pc[a] = "commit" /\ a \notin logged /\ logged' = logged \cup {a}
        /\ summary'[k] = IF holder[k] = a THEN pending[k] ELSE summary[k]
    BY <1>0 DEF Commit, ReadyToCommit, Logging
  <1>2. \A b \in Attempts : CountsIn(b, k)' <=> CountsIn(b, k)
    BY RoutesFixed DEF Next, LogStep
  <1>3. holder[k] = a <=> CountsIn(a, k)
    BY <1>1 DEF Logging, CountsIn
  <1>4. logged \subseteq Attempts /\ summary[k].count \in Nat
    BY <1>0 DEF TypeOK, Row
  <1>5. CASE holder[k] = a
    <2>1. AttemptsIn(k)' = AttemptsIn(k) \cup {a} /\ a \notin AttemptsIn(k)
      BY <1>1, <1>2, <1>3, <1>4, <1>5 DEF AttemptsIn
    <2>2. Cardinality(AttemptsIn(k)') = Cardinality(AttemptsIn(k)) + 1
      BY <2>1, Countable, FS_AddElement
    <2>3. summary'[k].count = summary[k].count + 1
      BY <1>1, <1>5 DEF Logging
    <2> QED BY <1>4, <1>5, <2>2, <2>3, Countable DEF Exact
  <1>6. CASE holder[k] # a
    <2>1. AttemptsIn(k)' = AttemptsIn(k)
      BY <1>1, <1>2, <1>3, <1>4, <1>6 DEF AttemptsIn
    <2> QED BY <1>1, <1>6, <2>1 DEF Exact
  <1> QED BY <1>5, <1>6

\* A maintenance run is where it was as long as the committed tables, its statement and
\* its rows are left alone.
LEMMA MaintainingFramed ==
    ASSUME TypeOK, NEW m \in Maintainers, Maintaining(m), UNCHANGED <<logged, summary>>,
           \A a \in Attempts, k \in Keys : CountsIn(a, k)' <=> CountsIn(a, k),
           pc'[m] = pc[m], seen'[m] = seen[m], todo'[m] = todo[m],
           \A k \in Keys :
               (holder'[k] = m <=> holder[k] = m) /\ (holder[k] = m => pending'[k] = pending[k])
    PROVE  Maintaining(m)'
  <1> SUFFICES ASSUME NEW k \in Keys
               PROVE  (IF holder[k] = m THEN Taken(m, k) ELSE Untouched(m, k))'
    BY DEF Maintaining
  <1>1. AttemptsIn(k)' = AttemptsIn(k)
    BY DEF TypeOK, AttemptsIn
  <1>2. {a \in seen[m] : CountsIn(a, k)}' = {a \in seen[m] : CountsIn(a, k)}
    BY DEF TypeOK, Transactions
  <1>3. CASE holder[k] = m
    <2>1. Taken(m, k)
      BY <1>3 DEF Maintaining
    <2>2. Taken(m, k)'
      BY <1>1, <1>2, <1>3, <2>1 DEF Taken, Emptied, Filled, Filling
    <2> QED BY <1>3, <2>2
  <1>4. CASE holder[k] # m
    <2>1. Untouched(m, k)
      BY <1>4 DEF Maintaining
    <2>2. Untouched(m, k)'
      BY <1>1, <2>1 DEF Untouched, Exact
    <2> QED BY <1>4, <2>2
  <1> QED BY <1>3, <1>4

\* What leaves the committed tables and the rows of the maintenance runs alone keeps
\* the accounts.
LEMMA AccountsFramed ==
    ASSUME DemandTyped, Accounts, UNCHANGED <<logged, summary, dirty, todo>>,
           \A a \in Attempts, k \in Keys : CountsIn(a, k)' <=> CountsIn(a, k),
           \A m \in Maintainers : pc'[m] = pc[m] /\ seen'[m] = seen[m],
           \A m \in Maintainers, k \in Keys :
               (holder'[k] = m <=> holder[k] = m) /\ (holder[k] = m => pending'[k] = pending[k])
    PROVE  Accounts'
  <1>0. TypeOK
    BY DEF DemandTyped
  <1>1. \A k \in Keys : AttemptsIn(k)' = AttemptsIn(k)
    BY <1>0 DEF TypeOK, AttemptsIn
  <1>3. AttemptCountExact => AttemptCountExact'
    BY <1>1 DEF AttemptCountExact
  <1>4. \A m \in Maintainers : Maintaining(m) => Maintaining(m)'
    BY <1>0, MaintainingFramed
  <1> QED BY <1>3, <1>4 DEF Accounts

-----------------------------------------------------------------------------
(* No count is too low.                                                      *)

\* What is taken from the log is taken from the attempts of the cells.
LEMMA LogShrinks ==
    ASSUME DemandTyped, [Next]_vars, logged' \subseteq logged, NEW k \in Keys
    PROVE  /\ AttemptsIn(k)' \subseteq AttemptsIn(k)
           /\ Cardinality(AttemptsIn(k)') \in Nat
           /\ Cardinality(AttemptsIn(k)') <= Cardinality(AttemptsIn(k))
  <1>1. AttemptsIn(k)' \subseteq AttemptsIn(k)
    BY RoutesFixed DEF DemandTyped, TypeOK, AttemptsIn
  <1>2. IsFiniteSet(AttemptsIn(k))
    BY Countable
  <1>3. /\ IsFiniteSet(AttemptsIn(k)')
        /\ Cardinality(AttemptsIn(k)') <= Cardinality(AttemptsIn(k))
    BY <1>1, <1>2, FS_Subset
  <1> QED BY <1>1, <1>3, FS_CardinalityType

\* A maintenance run holds enough as long as the log does not grow where it holds rows,
\* and its rows and its statement are left alone.
LEMMA HoldingFramed ==
    ASSUME DemandTyped, [Next]_vars, NEW m \in Maintainers, Holding(m),
           pc'[m] = pc[m], seen'[m] = seen[m],
           pc[m] \in {"fillOrigin", "fillDest"} => todo'[m] = todo[m],
           \A k \in Keys : holder'[k] = m =>
               /\ holder[k] = m /\ pending'[k] = pending[k]
               /\ logged' \subseteq logged \/ AttemptsIn(k)' = AttemptsIn(k)
    PROVE  Holding(m)'
  <1> SUFFICES ASSUME NEW k \in Keys, holder'[k] = m,
                      pc[m] = "fillDest" \/ (pc[m] = "fillOrigin" /\ k[2] = "origin")
               PROVE  Kept(m, k)'
    BY DEF Holding
  <1>1. Kept(m, k) /\ pending'[k] = pending[k] /\ todo'[m] = todo[m]
    BY DEF Holding
  <1>2. /\ AttemptsIn(k)' \subseteq AttemptsIn(k)
        /\ Cardinality(AttemptsIn(k)') <= Cardinality(AttemptsIn(k))
    <2>1. CASE logged' \subseteq logged
      BY <2>1, LogShrinks
    <2>2. CASE AttemptsIn(k)' = AttemptsIn(k)
      <3>1. Cardinality(AttemptsIn(k)) \in Nat
        BY Countable
      <3> QED BY <2>2, <3>1
    <2> QED BY <2>1, <2>2
  <1>3. Enough(k) => Enough(k)'
    <2>1. /\ Cardinality(AttemptsIn(k)) \in Nat /\ Cardinality(AttemptsIn(k)') \in Nat
          /\ pending[k].count \in Nat
      <3>1. IsFiniteSet(logged')
        BY NextTyped DEF DemandTyped
      <3>2. Cardinality(AttemptsIn(k)') \in Nat
        BY <3>1, FS_Subset, FS_CardinalityType DEF AttemptsIn
      <3> QED BY <3>2, Countable DEF DemandTyped, TypeOK, Row
    <2> QED BY <1>1, <1>2, <2>1 DEF Enough
  <1> QED BY <1>1, <1>2, <1>3 DEF Kept

\* A request leaves enough: it adds to the rows it holds itself.
LEMMA RequestFloor ==
    ASSUME Floor, NEW a \in Attempts, LogStep(a) \/ Abort(a)
    PROVE  AtLeast' /\ \A m \in Maintainers : Holding(m)'
  <1>0. /\ DemandTyped /\ TypeOK /\ a \in Transactions /\ a # Nobody
        /\ Logging(a) /\ (\A m \in Maintainers : m # a /\ m \in Transactions)
    BY NamesAssumption DEF Floor, DemandTyped, Transactions
  <1>1. Next
    BY <1>0 DEF Next
  <1>2. ASSUME NEW m \in Maintainers
        PROVE  /\ pc'[m] = pc[m] /\ seen'[m] = seen[m] /\ todo'[m] = todo[m]
               /\ \A k \in Keys : holder'[k] = m => holder[k] = m /\ pending'[k] = pending[k]
    <2>1. CASE StartAttempt(a) \/ BeginUpsert(a)
      BY <1>0, <2>1 DEF TypeOK, StartAttempt, BeginUpsert, Goto
    <2>2. CASE Upsert(a)
      BY <1>0, <2>2 DEF TypeOK, Upsert, Goto
    <2>3. CASE Commit(a)
      BY <1>0, <2>3, NamesAssumption DEF TypeOK, Commit, StillToDelete, Unlocked, Goto,
         Transactions
    <2>4. CASE Abort(a)
      BY <1>0, <2>4, NamesAssumption DEF TypeOK, Abort, Unlocked, Goto, Transactions
    <2> QED BY <2>1, <2>2, <2>3, <2>4 DEF LogStep
  <1>3. CASE Commit(a)
    <2>1. \A k \in Keys : holder[k] # a => AttemptsIn(k)' = AttemptsIn(k)
      BY <1>0, <1>3, CommitCounts
    <2>2. \A m \in Maintainers : Holding(m)'
      BY <1>0, <1>1, <1>2, <2>1, HoldingFramed DEF Floor
    <2>3. AtLeast'
      BY <1>0, <1>3, CommitCounts DEF Floor, AtLeast
    <2> QED BY <2>2, <2>3
  <1>4. CASE ~ Commit(a)
    <2>1. logged' = logged /\ summary' = summary
      BY <1>4 DEF LogStep, StartAttempt, BeginUpsert, Upsert, Abort
    <2>2. \A m \in Maintainers : Holding(m)'
      BY <1>0, <1>1, <1>2, <2>1, HoldingFramed DEF Floor
    <2>3. \A k \in Keys : AttemptsIn(k)' = AttemptsIn(k)
      BY <1>0, <1>1, <2>1, RoutesFixed DEF TypeOK, AttemptsIn
    <2> QED BY <2>1, <2>2, <2>3 DEF Floor, AtLeast
  <1> QED BY <1>3, <1>4

\* So does a maintenance run, for what it takes it fills with all that is in the log.
LEMMA MaintenanceFloor ==
    ASSUME Floor, NEW m \in Maintainers, MaintenanceStep(m) \/ Abort(m)
    PROVE  AtLeast' /\ \A n \in Maintainers : Holding(n)'
  <1> USE DEF Goto
  <1>0. /\ DemandTyped /\ TypeOK /\ m \in Transactions /\ m \notin Attempts /\ m # Nobody
        /\ AtLeast /\ Holding(m) /\ Locks
    BY NamesAssumption DEF Floor, DemandTyped, Transactions
  <1>1. Next
    BY <1>0 DEF Next
  <1>2. ASSUME NEW k \in Keys
        PROVE  /\ Cardinality(AttemptsIn(k)) \in Nat
               /\ Cardinality(AttemptsIn(k)) = 0 => AttemptsIn(k) = {}
               /\ summary[k].count \in Nat /\ pending[k].count \in Nat
    <2>1. summary[k] \in Row /\ pending[k] \in Row
      BY <1>0 DEF TypeOK
    <2> QED BY <1>0, <2>1, Countable DEF Row
  <1>3. logged' \subseteq logged
    BY <1>0 DEF MaintenanceStep, StartRebuild, Purge, DeleteRow, BeginFill,
       FillRow, FillConflict, Commit, Abort
  <1>4. ASSUME NEW n \in Maintainers \ {m} PROVE Holding(n)'
    <2>0. n \in Transactions /\ n # Nobody /\ n # m
      BY NamesAssumption DEF Transactions
    <2>1. /\ pc'[n] = pc[n] /\ seen'[n] = seen[n]
          /\ pc[n] # "delete" => todo'[n] = todo[n]
      BY <1>0, <2>0 DEF TypeOK, MaintenanceStep, StartRebuild, Purge, DeleteRow,
         BeginFill, FillRow, FillConflict, Commit, StillToDelete, Abort
    <2>2. \A k \in Keys : holder'[k] = n => holder[k] = n /\ pending'[k] = pending[k]
      <3>1. CASE StartRebuild(m) \/ Purge(m) \/ BeginFill(m)
        BY <3>1 DEF StartRebuild, Purge, BeginFill
      <3>2. CASE DeleteRow(m) \/ FillRow(m)
        BY <1>0, <2>0, <3>2 DEF TypeOK, DeleteRow, FillRow
      <3>3. CASE FillConflict(m) \/ Commit(m) \/ Abort(m)
        BY <1>0, <2>0, <3>3 DEF TypeOK, FillConflict, Commit, Abort, Unlocked
      <3> QED BY <3>1, <3>2, <3>3 DEF MaintenanceStep
    <2> QED BY <1>0, <1>1, <1>3, <2>1, <2>2, HoldingFramed DEF Floor
  <1>5. ASSUME summary' = summary PROVE AtLeast'
    <2> SUFFICES ASSUME NEW k \in Keys PROVE Cardinality(AttemptsIn(k)') <= summary[k].count
      BY <1>5 DEF AtLeast
    <2>1. /\ Cardinality(AttemptsIn(k)') \in Nat
          /\ Cardinality(AttemptsIn(k)') <= Cardinality(AttemptsIn(k))
      BY <1>0, <1>1, <1>3, LogShrinks
    <2>2. Cardinality(AttemptsIn(k)) <= summary[k].count
      BY <1>0 DEF AtLeast
    <2>3. Cardinality(AttemptsIn(k)) \in Nat /\ summary[k].count \in Nat
      BY <1>2
    <2> QED BY <2>1, <2>2, <2>3
  <1>6. CASE pc'[m] \notin {"fillOrigin", "fillDest"} /\ ~ Commit(m)
    <2>1. summary' = summary
      BY <1>6 DEF MaintenanceStep, StartRebuild, Purge, DeleteRow, BeginFill, FillRow,
         FillConflict, Abort
    <2> QED BY <1>4, <1>5, <1>6, <2>1 DEF Holding
  <1>7. CASE BeginFill(m)
    <2> DEFINE type == IF pc[m] = "delete" THEN "origin" ELSE "destination"
    <2>1. /\ UNCHANGED <<logged, summary, holder, pending>>
          /\ pc[m] \in {"delete", "fillOrigin"} /\ todo[m] = {} /\ seen'[m] = logged
          /\ pc'[m] = IF pc[m] = "delete" THEN "fillOrigin" ELSE "fillDest"
          /\ todo'[m] = {k \in Keys : k[2] = type /\ \E a \in logged : CountsIn(a, k)}
      BY <1>0, <1>7 DEF TypeOK, BeginFill
    <2>2. ASSUME NEW k \in Keys
          PROVE  AttemptsIn(k)' = AttemptsIn(k) /\ AttemptsIn(k) \subseteq logged
      BY <1>0, <1>1, <2>1, RoutesFixed DEF TypeOK, AttemptsIn
    <2>3. ASSUME NEW k \in Keys, holder[k] = m, k[2] = type, k \notin todo'[m] PROVE Enough(k)'
      <3>1. AttemptsIn(k) = {}
        BY <2>1, <2>3 DEF AttemptsIn
      <3>2. Cardinality(AttemptsIn(k)) = 0
        BY <3>1, FS_EmptySet
      <3>3. pending[k].count \in Nat
        BY <1>2
      <3> QED BY <2>1, <2>2, <3>2, <3>3 DEF Enough
    <2>4. ASSUME NEW k \in Keys, holder[k] = m, k[2] = "origin", pc[m] = "fillOrigin"
          PROVE  Enough(k)'
      <3>1. Enough(k)
        BY <1>0, <2>1, <2>4 DEF Holding, Kept
      <3> QED BY <2>1, <2>2, <3>1 DEF Enough
    <2>5. Holding(m)'
      <3> SUFFICES ASSUME NEW k \in Keys, holder[k] = m,
                          pc'[m] = "fillDest" \/ (pc'[m] = "fillOrigin" /\ k[2] = "origin")
                   PROVE  Kept(m, k)'
        BY <2>1 DEF Holding
      <3>1. k[2] \in {"origin", "destination"}
        BY DEF Keys
      <3>2. k \notin todo'[m] => Enough(k)'
        BY <2>1, <2>3, <2>4, <3>1
      <3> QED BY <2>1, <2>2, <3>2 DEF Kept
    <2> QED BY <1>4, <1>5, <2>1, <2>5
  <1>8. CASE FillRow(m)
    <2> PICK k \in todo[m] :
          /\ holder[k] \in {m, Nobody} /\ ~ RowExists(m, k)
          /\ holder' = [holder EXCEPT ![k] = m]
          /\ pending' = [pending EXCEPT ![k] = Grouped({a \in seen[m] : CountsIn(a, k)})]
          /\ todo' = [todo EXCEPT ![m] = @ \ {k}]
      BY <1>8 DEF FillRow
    <2>1. UNCHANGED <<logged, summary, pc, seen>> /\ k \in Keys
      BY <1>0, <1>8 DEF TypeOK, FillRow
    <2>2. \A j \in Keys : AttemptsIn(j)' = AttemptsIn(j)
      BY <1>0, <1>1, <2>1, RoutesFixed DEF TypeOK, AttemptsIn
    <2>3. /\ holder'[k] = m /\ todo'[m] = todo[m] \ {k}
          /\ pending'[k].count = Cardinality({a \in seen[m] : CountsIn(a, k)})
          /\ \A j \in Keys \ {k} : holder'[j] = holder[j] /\ pending'[j] = pending[j]
      BY <1>0, <2>1 DEF TypeOK, Grouped
    <2>4. ASSUME pc[m] = "fillDest" \/ (pc[m] = "fillOrigin" /\ k[2] = "origin")
          PROVE  Kept(m, k)'
      <3>1. AttemptsIn(k) \subseteq {a \in seen[m] : CountsIn(a, k)}
        <4>1. CASE holder[k] = m
          BY <1>0, <2>1, <2>4, <4>1 DEF Holding, Kept, AttemptsIn
        <4>2. CASE holder[k] = Nobody
          <5>1. /\ summary[k].count \in Nat /\ Cardinality(AttemptsIn(k)) \in Nat
                /\ Cardinality(AttemptsIn(k)) <= summary[k].count
            BY <1>0, <1>2, <2>1 DEF AtLeast
          <5>2. ~ (summary[k].count > 0)
            BY <4>2 DEF RowExists
          <5>3. Cardinality(AttemptsIn(k)) = 0
            BY <5>1, <5>2
          <5>4. AttemptsIn(k) = {}
            BY <1>2, <2>1, <5>3
          <5> QED BY <5>4
        <4> QED BY <4>1, <4>2
      <3>2. IsFiniteSet({a \in seen[m] : CountsIn(a, k)})
        BY <1>0, FS_Subset DEF DemandTyped
      <3>3. Cardinality(AttemptsIn(k)) <= Cardinality({a \in seen[m] : CountsIn(a, k)})
        BY <3>1, <3>2, FS_Subset
      <3> QED BY <2>1, <2>2, <2>3, <3>1, <3>3 DEF Kept, Enough
    <2>5. Holding(m)'
      <3> SUFFICES ASSUME NEW j \in Keys, holder'[j] = m,
                          pc[m] = "fillDest" \/ (pc[m] = "fillOrigin" /\ j[2] = "origin")
                   PROVE  Kept(m, j)'
        BY <2>1 DEF Holding
      <3>1. CASE j = k
        BY <2>4, <3>1
      <3>2. CASE j # k
        <4>1. Kept(m, j)
          BY <1>0, <2>3, <3>2 DEF Holding
        <4> QED BY <2>1, <2>2, <2>3, <3>2, <4>1 DEF Kept, Enough
      <3> QED BY <3>1, <3>2
    <2> QED BY <1>4, <1>5, <2>1, <2>5
  <1>9. CASE Commit(m)
    <2>1. /\ pc[m] = "fillDest" /\ todo[m] = {} /\ logged' = logged /\ pc'[m] = "done"
          /\ \A k \in Keys : summary'[k] = IF holder[k] = m THEN pending[k] ELSE summary[k]
      BY <1>0, <1>9 DEF TypeOK, Commit, ReadyToCommit, Locks
    <2>2. \A k \in Keys : AttemptsIn(k)' = AttemptsIn(k)
      BY <1>0, <1>1, <2>1, RoutesFixed DEF TypeOK, AttemptsIn
    <2>3. \A k \in Keys : holder[k] = m => Enough(k)
      BY <1>0, <2>1 DEF Holding, Kept
    <2>4. AtLeast'
      BY <1>0, <2>1, <2>2, <2>3 DEF AtLeast, Enough
    <2> QED BY <1>4, <2>1, <2>4 DEF Holding
  <1>10. pc'[m] \notin {"fillOrigin", "fillDest"} \/ BeginFill(m) \/ FillRow(m)
    BY <1>0 DEF TypeOK, MaintenanceStep, StartRebuild, Purge, DeleteRow,
       FillConflict, Commit, Abort
  <1> QED BY <1>6, <1>7, <1>8, <1>9, <1>10

-----------------------------------------------------------------------------
\* A request keeps them, its commit by counting where it has locked.
LEMMA RequestAccounts ==
    ASSUME DemandTyped, Locks, \A b \in Attempts : Logging(b), Accounts,
           NEW a \in Attempts, LogStep(a) \/ Abort(a)
    PROVE  Accounts'
  <1>0. TypeOK /\ a \in Transactions /\ a # Nobody /\ (\A m \in Maintainers : m # a)
    BY NamesAssumption DEF DemandTyped, Transactions
  <1>1. \A b \in Attempts, k \in Keys : CountsIn(b, k)' <=> CountsIn(b, k)
    BY <1>0, RoutesFixed DEF Next
  <1>2. \A m \in Maintainers : pc'[m] = pc[m] /\ seen'[m] = seen[m]
    BY <1>0 DEF TypeOK, Transactions, LogStep, StartAttempt, BeginUpsert, Upsert, Commit,
       Abort, Goto
  <1>3. CASE StartAttempt(a) \/ BeginUpsert(a)
    BY <1>1, <1>2, <1>3, AccountsFramed DEF StartAttempt, BeginUpsert
  <1>4. CASE Upsert(a)
    <2>1. \A m \in Maintainers, k \in Keys :
             (holder'[k] = m <=> holder[k] = m) /\ (holder[k] = m => pending'[k] = pending[k])
      BY <1>0, <1>4, NamesAssumption DEF Upsert, Transactions
    <2> QED BY <1>1, <1>2, <1>4, <2>1, AccountsFramed DEF Upsert
  <1>5. CASE Abort(a)
    <2>1. \A m \in Maintainers, k \in Keys :
             (holder'[k] = m <=> holder[k] = m) /\ (holder[k] = m => pending'[k] = pending[k])
      BY <1>0, <1>5, NamesAssumption DEF Abort, Unlocked, Transactions
    <2> QED BY <1>1, <1>2, <1>5, <2>1, AccountsFramed DEF Abort
  <1>6. CASE Commit(a)
    <2>1. /\ UNCHANGED <<seen, pending>> /\ dirty' = dirty
          /\ \A m \in Maintainers : todo'[m] = todo[m]
          /\ \A m \in Maintainers, k \in Keys : holder'[k] = m <=> holder[k] = m
      BY <1>0, <1>6, NamesAssumption DEF TypeOK, Commit, StillToDelete, Unlocked, Transactions
    <2>3. AttemptCountExact => AttemptCountExact'
      BY <1>6, <2>1, CommitCounts DEF AttemptCountExact, Exact
    <2>4. ASSUME NEW m \in Maintainers, Maintaining(m) PROVE Maintaining(m)'
      <3> SUFFICES ASSUME NEW k \in Keys
                   PROVE  (IF holder[k] = m THEN Taken(m, k) ELSE Untouched(m, k))'
        BY DEF Maintaining
      <3>1. {b \in seen[m] : CountsIn(b, k)}' = {b \in seen[m] : CountsIn(b, k)}
        BY <1>0, <1>1, <2>1 DEF TypeOK, Transactions
      <3>2. /\ Exact(k) => Exact(k)'
            /\ holder[k] # a => AttemptsIn(k)' = AttemptsIn(k)
            /\ summary[k].count > 0 => summary'[k].count > 0
        BY <1>6, CommitCounts
      <3>3. CASE holder[k] = m
        <4>1. Taken(m, k)
          BY <2>4, <3>3 DEF Maintaining
        <4>2. AttemptsIn(k)' = AttemptsIn(k)
          BY <1>0, <3>2, <3>3
        <4>3. Taken(m, k)'
          BY <1>2, <2>1, <3>1, <4>1, <4>2 DEF Taken, Emptied, Filled, Filling
        <4> QED BY <2>1, <3>3, <4>3
      <3>4. CASE holder[k] # m
        <4>1. Untouched(m, k)
          BY <2>4, <3>4 DEF Maintaining
        <4>2. Untouched(m, k)'
          BY <1>2, <2>1, <3>2, <4>1 DEF Untouched
        <4> QED BY <2>1, <3>4, <4>2
      <3> QED BY <3>3, <3>4
    <2> QED BY <2>3, <2>4 DEF Accounts
  <1> QED BY <1>3, <1>4, <1>5, <1>6 DEF LogStep

\* A maintenance run that commits leaves every row exact: those it has taken hold what
\* it has grouped, and the others were.
LEMMA CommitMends ==
    ASSUME DemandTyped, Locks, NEW m \in Maintainers, Maintaining(m), Commit(m)
    PROVE  AllExact'
  <1> SUFFICES ASSUME NEW k \in Keys PROVE summary'[k].count = Cardinality(AttemptsIn(k)')
    BY DEF AllExact, Exact
  <1>0. TypeOK /\ m \notin Attempts
    BY NamesAssumption DEF DemandTyped
  <1>1. /\ pc[m] = "fillDest" /\ todo[m] = {} /\ logged' = logged
        /\ summary'[k] = IF holder[k] = m THEN pending[k] ELSE summary[k]
    BY <1>0 DEF TypeOK, Commit, ReadyToCommit, Locks
  <1>2. AttemptsIn(k)' = AttemptsIn(k)
    BY <1>0, <1>1, RoutesFixed DEF TypeOK, AttemptsIn, Next, MaintenanceStep
  <1>3. CASE holder[k] = m
    <2>1. Taken(m, k)
      BY <1>3 DEF Maintaining
    <2> QED BY <1>1, <1>2, <1>3, <2>1 DEF Taken, Filled, Filling
  <1>4. CASE holder[k] # m
    <2>1. Untouched(m, k)
      BY <1>4 DEF Maintaining
    <2> QED BY <1>1, <1>2, <1>4, <2>1 DEF Untouched, Exact
  <1> QED BY <1>3, <1>4

\* A maintenance run keeps them: whatever it starts on, it takes every row that may be
\* off, and leaves an exact table, to the others too.
LEMMA MaintenanceAccounts ==
    ASSUME DemandTyped, Locks, AtLeast, Accounts, PurgesAlone, PurgesAlone',
           NEW m \in Maintainers, MaintenanceStep(m) \/ Abort(m)
    PROVE  Accounts'
  <1>0. TypeOK /\ m \in Transactions /\ m # Nobody /\ m \notin Attempts
    BY NamesAssumption DEF DemandTyped, Transactions
  <1> USE DEF Goto
  <1>1. /\ \A n \in Maintainers \ {m} : pc'[n] = pc[n] /\ (n \in dirty => n \in dirty')
        /\ Running(m) \/ Running(m)'
    BY <1>0 DEF TypeOK, Transactions, Running, MaintenanceStep, StartRebuild, Purge,
       DeleteRow, BeginFill, FillRow, FillConflict, Commit, ReadyToCommit, Abort
  <1>2. Purge(m) => \A n \in Maintainers \ {m} : ~ Running(n)
    BY <1>0, <1>1 DEF PurgesAlone, Running, Purge
  <1>5. AttemptCountExact /\ \A n \in Maintainers : Maintaining(n)
    BY DEF Accounts
  <1>7. ~ Locking(m) => \A k \in Keys : holder[k] # m
    BY <1>0 DEF Locks
  <1>8. \A a \in Attempts, k \in Keys : CountsIn(a, k)' <=> CountsIn(a, k)
    BY <1>0, RoutesFixed DEF Next
  <1>9. \A k \in Keys : logged' = logged => AttemptsIn(k)' = AttemptsIn(k)
    BY <1>0, <1>8 DEF TypeOK, AttemptsIn
  <1>10. UNCHANGED <<logged, summary, dirty>> => AttemptCountExact'
    BY <1>5, <1>9 DEF AttemptCountExact
  <1>11. \A k \in Keys : k[2] \in {"origin", "destination"} /\ summary[k].count \in Nat
    BY <1>0 DEF TypeOK, Keys, Row
  <1>20. \A k \in Keys : summary[k].count = 0 => AttemptsIn(k) = {}
    BY Countable DEF AtLeast
  <1>3. ASSUME NEW n \in Maintainers \ {m},
               \/ StartRebuild(m) \/ DeleteRow(m) \/ BeginFill(m) \/ FillRow(m)
               \/ FillConflict(m) \/ Abort(m)
        PROVE  Maintaining(n)'
    <2>1. /\ UNCHANGED <<logged, summary>>
          /\ pc'[n] = pc[n] /\ seen'[n] = seen[n] /\ todo'[n] = todo[n]
      BY <1>0, <1>3 DEF TypeOK, Transactions, StartRebuild, DeleteRow, BeginFill,
         FillRow, FillConflict, Abort
    <2>2. \A k \in Keys :
             (holder'[k] = n <=> holder[k] = n) /\ (holder[k] = n => pending'[k] = pending[k])
      <3>1. n # Nobody /\ n # m /\ holder \in [Keys -> Transactions \cup {Nobody}]
            /\ pending \in [Keys -> Row] /\ todo[m] \subseteq Keys
        BY <1>0, NamesAssumption DEF TypeOK, Transactions
      <3>2. CASE StartRebuild(m) \/ BeginFill(m)
        BY <3>2 DEF StartRebuild, BeginFill
      <3>3. CASE DeleteRow(m)
        BY <3>1, <3>3 DEF DeleteRow
      <3>4. CASE FillRow(m)
        BY <3>1, <3>4 DEF FillRow
      <3>5. CASE FillConflict(m) \/ Abort(m)
        BY <3>1, <3>5 DEF FillConflict, Abort, Unlocked
      <3> QED BY <1>3, <3>2, <3>3, <3>4, <3>5
    <2> QED BY <1>0, <1>5, <1>8, <2>1, <2>2, MaintainingFramed
  <1>12. CASE StartRebuild(m)
    <2>1. /\ UNCHANGED <<logged, summary, holder, dirty>> /\ pc'[m] = "delete"
          /\ todo'[m] = {k \in Keys : summary[k].count > 0} /\ ~ Locking(m)
      BY <1>0, <1>12 DEF TypeOK, StartRebuild, Running, Locking
    <2>2. \A k \in Keys : k \notin todo'[m] => Exact(k)'
      <3> SUFFICES ASSUME NEW k \in Keys, k \notin todo'[m] PROVE Exact(k)'
        OBVIOUS
      <3>1. summary[k].count = 0
        BY <1>11, <2>1
      <3>2. AttemptsIn(k)' = {} /\ summary' = summary
        BY <1>9, <1>20, <2>1, <3>1
      <3> QED BY <3>1, <3>2, FS_EmptySet DEF Exact
    <2>3. Maintaining(m)'
      BY <1>7, <2>1, <2>2 DEF Maintaining, Untouched
    <2> QED BY <1>3, <1>10, <1>12, <2>1, <2>3 DEF Accounts
  <1>13. CASE Purge(m)
    <2>1. pc'[m] = "purged" /\ dirty' = dirty \cup {m}
      BY <1>0, <1>13 DEF TypeOK, Purge
    <2>3. Maintaining(m)'
      BY <2>1 DEF Maintaining, Taken, Untouched
    <2>4. AttemptCountExact'
      BY <2>1 DEF AttemptCountExact
    <2>5. \A n \in Maintainers \ {m} : Maintaining(n)'
      BY <1>1, <1>2, <1>13 DEF Running, Maintaining, Taken, Untouched
    <2> QED BY <2>3, <2>4, <2>5 DEF Accounts
  <1>14. CASE DeleteRow(m)
    <2> PICK k \in todo[m] :
          /\ holder[k] = Nobody
          /\ holder' = [holder EXCEPT ![k] = m]
          /\ pending' = [pending EXCEPT ![k] = NoRow]
          /\ todo' = [todo EXCEPT ![m] = @ \ {k}]
      BY <1>14 DEF DeleteRow
    <2>1. UNCHANGED <<logged, summary, dirty, pc>> /\ pc[m] = "delete" /\ k \in Keys
      BY <1>0, <1>14 DEF TypeOK, DeleteRow
    <2>2. /\ holder'[k] = m /\ pending'[k].count = 0 /\ todo'[m] = todo[m] \ {k}
          /\ \A j \in Keys \ {k} : holder'[j] = holder[j] /\ pending'[j] = pending[j]
      BY <1>0, <2>1 DEF TypeOK, NoRow
    <2>3. Maintaining(m)'
      <3> SUFFICES ASSUME NEW j \in Keys
                   PROVE  (IF holder[j] = m THEN Taken(m, j) ELSE Untouched(m, j))'
        BY DEF Maintaining
      <3>1. CASE j = k
        BY <2>1, <2>2, <3>1 DEF Taken, Emptied
      <3>2. CASE j # k
        BY <1>5, <1>9, <2>1, <2>2, <3>2 DEF Maintaining, Taken, Untouched, Emptied, Exact
      <3> QED BY <3>1, <3>2
    <2> QED BY <1>3, <1>10, <1>14, <2>1, <2>3 DEF Accounts
  <1>15. CASE BeginFill(m)
    <2> DEFINE type == IF pc[m] = "delete" THEN "origin" ELSE "destination"
    <2>1. /\ UNCHANGED <<logged, summary, dirty, holder, pending>>
          /\ pc[m] \in {"delete", "fillOrigin"} /\ todo[m] = {} /\ seen'[m] = logged
          /\ pc'[m] = IF pc[m] = "delete" THEN "fillOrigin" ELSE "fillDest"
          /\ todo'[m] = {k \in Keys : k[2] = type /\ \E a \in logged : CountsIn(a, k)}
      BY <1>0, <1>15 DEF TypeOK, BeginFill
    <2>2. ASSUME NEW k \in Keys
          PROVE  /\ {a \in seen[m] : CountsIn(a, k)}' = AttemptsIn(k)'
                 /\ k \in todo'[m] <=> k[2] = type /\ Cardinality(AttemptsIn(k)) > 0
      <3>1. {a \in seen[m] : CountsIn(a, k)}' = AttemptsIn(k)'
        BY <2>1 DEF AttemptsIn
      <3>2. k \in todo'[m] <=> k[2] = type /\ AttemptsIn(k) # {}
        BY <2>1 DEF AttemptsIn
      <3>3. AttemptsIn(k) # {} <=> Cardinality(AttemptsIn(k)) > 0
        BY Countable
      <3> QED BY <3>1, <3>2, <3>3
    <2>3. Maintaining(m)'
      <3> SUFFICES ASSUME NEW k \in Keys
                   PROVE  (IF holder[k] = m THEN Taken(m, k) ELSE Untouched(m, k))'
        BY DEF Maintaining
      <3> HIDE DEF type
      <3>1. CASE holder[k] = m
        <4>1. Taken(m, k)
          BY <1>5, <3>1 DEF Maintaining
        <4>2. Cardinality(AttemptsIn(k)) \in Nat /\ AttemptsIn(k)' = AttemptsIn(k)
          BY <1>9, <2>1, Countable
        <4>3. k \notin todo'[m] /\ k[2] = type => Cardinality(AttemptsIn(k)) = 0
          BY <2>2, <4>2
        <4>4. Emptied(k) /\ k[2] = type => Filling(m, k)'
          BY <2>1, <2>2, <4>2, <4>3 DEF Filling, Filled, Emptied
        <4>5. CASE pc[m] = "delete"
          <5>1. Emptied(k) /\ Emptied(k)'
            BY <2>1, <4>1, <4>5 DEF Taken, Emptied
          <5> QED BY <1>11, <2>1, <2>2, <3>1, <4>4, <4>5, <5>1 DEF Taken, type
        <4>6. CASE pc[m] = "fillOrigin"
          <5>1. k[2] # "origin" => Emptied(k)
            BY <4>1, <4>6 DEF Taken
          <5>2. k[2] = "origin" => Filled(k)'
            BY <2>1, <4>1, <4>2, <4>6 DEF Taken, Filling, Filled
          <5> QED BY <1>11, <2>1, <2>2, <3>1, <4>4, <4>6, <5>1, <5>2 DEF Taken, type
        <4> QED BY <2>1, <3>1, <4>5, <4>6
      <3>2. CASE holder[k] # m
        <4>1. Exact(k)
          BY <1>5, <2>1, <3>2 DEF Maintaining, Untouched
        <4> QED BY <1>9, <2>1, <2>2, <3>2, <4>1 DEF Untouched, Exact
      <3> QED BY <3>1, <3>2
    <2> QED BY <1>3, <1>10, <1>15, <2>1, <2>3 DEF Accounts
  <1>16. CASE FillRow(m)
    <2> PICK k \in todo[m] :
          /\ holder[k] \in {m, Nobody} /\ ~ RowExists(m, k)
          /\ holder' = [holder EXCEPT ![k] = m]
          /\ pending' = [pending EXCEPT ![k] = Grouped({a \in seen[m] : CountsIn(a, k)})]
          /\ todo' = [todo EXCEPT ![m] = @ \ {k}]
      BY <1>16 DEF FillRow
    <2>1. /\ UNCHANGED <<logged, summary, dirty, pc, seen>>
          /\ pc[m] \in {"fillOrigin", "fillDest"} /\ k \in Keys
      BY <1>0, <1>16 DEF TypeOK, FillRow
    <2>2. holder[k] = m
      BY <1>5, <2>1 DEF RowExists, Maintaining, Untouched
    <2>3. Taken(m, k)
      BY <1>5, <2>1, <2>2 DEF Maintaining
    <2>4. /\ holder' = holder /\ todo'[m] = todo[m] \ {k}
          /\ pending'[k].count = Cardinality({a \in seen[m] : CountsIn(a, k)})
          /\ \A j \in Keys \ {k} : pending'[j] = pending[j]
      BY <1>0, <2>1, <2>2 DEF TypeOK, Grouped
    <2>5. \A j \in Keys : {a \in seen[m] : CountsIn(a, j)}' = {a \in seen[m] : CountsIn(a, j)}
      BY <1>0, <1>8, <2>1 DEF TypeOK
    <2>6. Maintaining(m)'
      <3> SUFFICES ASSUME NEW j \in Keys
                   PROVE  (IF holder[j] = m THEN Taken(m, j) ELSE Untouched(m, j))'
        BY DEF Maintaining
      <3>1. CASE j = k
        <4>1. Filling(m, k) /\ Filling(m, k)'
          BY <1>9, <2>1, <2>3, <2>4, <2>5 DEF Taken, Filling, Filled
        <4> QED BY <2>1, <2>2, <2>3, <2>4, <3>1, <4>1 DEF Taken
      <3>2. CASE j # k /\ holder[j] = m
        <4>1. Taken(m, j)
          BY <1>5, <3>2 DEF Maintaining
        <4> QED BY <1>9, <2>1, <2>4, <2>5, <3>2, <4>1 DEF Taken, Emptied, Filled, Filling
      <3>3. CASE j # k /\ holder[j] # m
        <4>1. Untouched(m, j)
          BY <1>5, <3>3 DEF Maintaining
        <4> QED BY <1>9, <2>1, <2>4, <3>3, <4>1 DEF Untouched, Exact
      <3> QED BY <3>1, <3>2, <3>3
    <2> QED BY <1>3, <1>10, <1>16, <2>1, <2>6 DEF Accounts
  <1>17. CASE FillConflict(m) \/ Abort(m)
    <2>1. UNCHANGED <<logged, summary, dirty>> /\ pc'[m] = "failed"
      BY <1>0, <1>17 DEF TypeOK, FillConflict, Abort
    <2>2. Maintaining(m)'
      BY <2>1 DEF Maintaining, Taken, Untouched
    <2> QED BY <1>3, <1>10, <1>17, <2>1, <2>2 DEF Accounts
  <1>18. CASE Commit(m)
    <2>1. /\ pc[m] = "fillDest" /\ todo[m] = {} /\ logged' = logged /\ pc'[m] = "done"
          /\ \A k \in Keys : summary'[k] = IF holder[k] = m THEN pending[k] ELSE summary[k]
          /\ UNCHANGED <<pending, seen>>
          /\ \A n \in Maintainers : todo'[n] = StillToDelete(n, m)
      BY <1>0, <1>18, NamesAssumption DEF TypeOK, Commit, ReadyToCommit, Locks
    <2>2. ASSUME NEW k \in Keys PROVE summary'[k].count = Cardinality(AttemptsIn(k))
      BY <1>5, <1>9, <1>18, <2>1, CommitMends DEF AllExact, Exact
    <2>3. AttemptCountExact'
      BY <1>9, <2>1, <2>2 DEF AttemptCountExact
    <2>4. Maintaining(m)'
      BY <2>1 DEF Maintaining, Taken, Untouched
    <2>5. ASSUME NEW n \in Maintainers \ {m} PROVE Maintaining(n)'
      <3> SUFFICES ASSUME NEW k \in Keys
                   PROVE  (IF holder[k] = n THEN Taken(n, k) ELSE Untouched(n, k))'
        BY DEF Maintaining
      <3>1. /\ holder'[k] = n <=> holder[k] = n
            /\ holder[k] # m => (k \in todo'[n] <=> k \in todo[n])
            /\ pc[n] # "delete" => todo'[n] = todo[n]
        BY <1>0, <1>18, <2>1, NamesAssumption DEF Commit, Unlocked, StillToDelete,
           Transactions
      <3>2. /\ AttemptsIn(k)' = AttemptsIn(k) /\ pc'[n] = pc[n]
            /\ {a \in seen[n] : CountsIn(a, k)}' = {a \in seen[n] : CountsIn(a, k)}
        BY <1>0, <1>1, <1>8, <1>9, <2>1 DEF TypeOK, Transactions
      <3>3. CASE holder[k] = n
        <4>1. Taken(n, k)
          BY <1>5, <3>3 DEF Maintaining
        <4>2. Taken(n, k)'
          BY <2>1, <3>1, <3>2, <3>3, <4>1 DEF Taken, Emptied, Filled, Filling
        <4> QED BY <3>1, <3>3, <4>2
      <3>4. CASE holder[k] # n
        <4>1. Untouched(n, k)
          BY <1>5, <3>4 DEF Maintaining
        <4>2. Exact(k)'
          BY <2>2, <3>2 DEF Exact
        <4>3. pc[n] # "delete" /\ k \in todo'[n] /\ Exact(k) /\ summary[k].count > 0
                => summary'[k].count > 0
          BY <3>2, <4>2 DEF Exact
        <4>4. Untouched(n, k)'
          BY <3>1, <3>2, <4>1, <4>2, <4>3 DEF Untouched
        <4> QED BY <3>1, <3>4, <4>4
      <3> QED BY <3>3, <3>4
    <2> QED BY <2>3, <2>4, <2>5 DEF Accounts
  <1> QED BY <1>12, <1>13, <1>14, <1>15, <1>16, <1>17, <1>18 DEF MaintenanceStep

-----------------------------------------------------------------------------
\* The empty tables satisfy the invariant.
LEMMA InitLedger == Init => Ledger
  <1> SUFFICES ASSUME Init PROVE Ledger
    OBVIOUS
  <1> USE NamesAssumption DEF Init, Transactions
  <1>1. TypeOK
    <2>1. info \in [Attempts -> [origin : Cells, dest : Cells,
                                 user : Users \cup {NoUser}, ts : Nat]]
      OBVIOUS
    <2>2. summary \in [Keys -> Row] /\ pending \in [Keys -> Row]
      BY DEF NoRow, Row
    <2> QED BY <2>1, <2>2 DEF TypeOK, Label
  <1>2. DemandTyped
    BY <1>1, FS_EmptySet DEF DemandTyped
  <1>3. Locks /\ \A a \in Attempts : Logging(a)
    BY DEF Locks, Logging
  <1>4. AtLeast /\ AttemptCountExact
    <2>1. \A k \in Keys : AttemptsIn(k) = {}
      BY DEF AttemptsIn
    <2>2. \A k \in Keys : summary[k].count = 0 /\ Cardinality(AttemptsIn(k)) = 0
      BY <2>1, FS_EmptySet DEF NoRow
    <2> QED BY <2>2 DEF AtLeast, AttemptCountExact
  <1>5. \A m \in Maintainers : Maintaining(m)
    BY DEF Maintaining, Untouched
  <1>6. \A m \in Maintainers : Holding(m)
    BY DEF Holding
  <1> QED BY <1>2, <1>3, <1>4, <1>5, <1>6 DEF Ledger, Floor, Accounts

\* Every step of the database leaves enough in every row.
LEMMA NextFloor == Floor /\ Next => Floor'
  <1> SUFFICES ASSUME Floor, Next PROVE Floor'
    OBVIOUS
  <1>1. DemandTyped /\ Locks /\ (\A a \in Attempts : Logging(a))
    BY DEF Floor
  <1>2. DemandTyped'
    BY <1>1, NextTyped
  <1>3. Locks' /\ \A a \in Attempts : Logging(a)'
    BY <1>1, LogLocks, MaintenanceLocks, EndLocks DEF Next, LogStep, MaintenanceStep,
       Transactions
  <1>4. AtLeast' /\ \A m \in Maintainers : Holding(m)'
    BY RequestFloor, MaintenanceFloor DEF Next, Transactions
  <1> QED BY <1>2, <1>3, <1>4 DEF Floor

\* ... and keeps the invariant while no maintenance run overlaps a purge.
LEMMA NextLedger == Ledger /\ PurgesAlone /\ PurgesAlone' /\ Next => Ledger'
  <1> SUFFICES ASSUME Ledger, PurgesAlone, PurgesAlone', Next PROVE Ledger'
    OBVIOUS
  <1>1. Floor'
    BY NextFloor DEF Ledger
  <1>2. Accounts'
    BY RequestAccounts, MaintenanceAccounts DEF Ledger, Floor, Next, Transactions
  <1> QED BY <1>1, <1>2 DEF Ledger

\* Nor does it matter when the database fails without a transaction of these.
LEMMA IdleLedger ==
    ASSUME UNCHANGED <<info, logged, summary, holder, pending, pc, seen, todo, dirty, clock>>,
           aborts' \in Nat
    PROVE  /\ DemandTyped => DemandTyped'
           /\ Floor => Floor'
           /\ Ledger => Ledger'
  <1>1. DemandTyped => DemandTyped'
    BY DEF DemandTyped, TypeOK, CountsIn
  <1>2. Locks => Locks'
    BY DEF Locks, Running, Locking
  <1>3. \A a \in Attempts : Logging(a) => Logging(a)'
    BY DEF Logging, CountsIn
  <1>4. DemandTyped /\ Accounts => Accounts'
    BY AccountsFramed DEF CountsIn
  <1>5. \A k \in Keys : AttemptsIn(k)' = AttemptsIn(k)
    BY DEF AttemptsIn, CountsIn
  <1>6. AtLeast => AtLeast'
    BY <1>5 DEF AtLeast
  <1>7. \A m \in Maintainers : Holding(m) => Holding(m)'
    BY <1>5 DEF Holding, Kept, Enough
  <1> QED BY <1>1, <1>2, <1>3, <1>4, <1>6, <1>7 DEF Ledger, Floor

\* ... nor when nothing happens.
LEMMA StepLedger == Ledger /\ PurgesAlone /\ PurgesAlone' /\ [Next]_vars => Ledger'
  <1>1. TypeOK /\ UNCHANGED vars => aborts' \in Nat
    BY DEF TypeOK, vars
  <1>2. Ledger /\ UNCHANGED vars => Ledger'
    BY <1>1, IdleLedger DEF vars, Ledger, Floor, DemandTyped
  <1> QED BY <1>2, NextLedger

-----------------------------------------------------------------------------
\* Only a commit and a purge change what is counted; a request's commit keeps it exact.
LEMMA OnlyCommitsCount ==
    ASSUME Ledger, AllExact, [Next]_vars,
           \A m \in Maintainers : ~ Purge(m) /\ ~ Commit(m)
    PROVE  AllExact'
  <1>0. DemandTyped /\ TypeOK /\ \A a \in Attempts : Logging(a)
    BY DEF Ledger, Floor, DemandTyped
  <1>1. CASE \E a \in Attempts : Commit(a)
    BY <1>0, <1>1, CommitCounts DEF AllExact
  <1>2. CASE \A a \in Attempts : ~ Commit(a)
    <2>1. UNCHANGED <<logged, summary>>
      BY <1>2 DEF Next, vars, LogStep, StartAttempt, BeginUpsert, Upsert, MaintenanceStep,
         StartRebuild, DeleteRow, BeginFill, FillRow, FillConflict, Abort
    <2>2. \A k \in Keys : AttemptsIn(k)' = AttemptsIn(k)
      BY <1>0, <2>1, RoutesFixed DEF TypeOK, AttemptsIn
    <2> QED BY <2>1, <2>2 DEF AllExact, Exact
  <1> QED BY <1>1, <1>2

\* Every maintenance run that commits leaves every counter exact ...
RebuildMends == \A m \in Maintainers : Commit(m) => AllExact'

\* ... and nothing but a purge makes them anything else.
OnlyPurgesUnsettle == AllExact /\ (\A m \in Maintainers : ~ Purge(m)) => AllExact'

\* Both follow from the invariant.
LEMMA LedgerMends == Ledger /\ [Next]_vars => RebuildMends /\ OnlyPurgesUnsettle
  <1> SUFFICES ASSUME Ledger, [Next]_vars PROVE RebuildMends /\ OnlyPurgesUnsettle
    OBVIOUS
  <1>1. RebuildMends
    BY CommitMends DEF RebuildMends, Ledger, Floor, Accounts
  <1> QED BY <1>1, OnlyCommitsCount DEF RebuildMends, OnlyPurgesUnsettle

-----------------------------------------------------------------------------
(* Waiting for rows.                                                        *)

\* The row a request waits for, and the requests that wait for one.
Awaited(a) == IF pc[a] = "originLock" THEN <<info[a].origin, "origin">>
              ELSE <<info[a].dest, "destination">>
Waits(a) == pc[a] \in {"originLock", "destLock"}

\* Requests that wait for each other's rows, and for nothing else.
Circle(W) == \A a \in W : Waits(a) /\ holder[Awaited(a)] \in W

NoCircle == \A W \in SUBSET Attempts : Circle(W) => W = {}

\* A request has its origin's row from its first upsert on, and its destination's when
\* it has nothing left but to commit.
Ordered(a, k) ==
    \/ k = <<info[a].origin, "origin">> /\ pc[a] \in {"dest", "destLock", "commit"}
    \/ k = <<info[a].dest, "destination">> /\ pc[a] = "commit"

InOrder == \A a \in Attempts, k \in Keys : holder[k] = a => Ordered(a, k)

\* Every step keeps to the order, whatever maintenance runs do.
LEMMA NextInOrder == TypeOK /\ InOrder /\ [Next]_vars => InOrder'
  <1> SUFFICES ASSUME TypeOK, InOrder, [Next]_vars, NEW a \in Attempts, NEW k \in Keys,
                      holder'[k] = a
               PROVE  Ordered(a, k)'
    BY DEF InOrder
  <1> USE NamesAssumption DEF Transactions
  <1>0. /\ pc \in [Transactions -> Label] /\ holder \in [Keys -> Transactions \cup {Nobody}]
        /\ info \in [Attempts -> [origin : Cells, dest : Cells,
                                  user : Users \cup {NoUser}, ts : Nat]]
    BY DEF TypeOK
  <1>1. ASSUME NEW t \in Transactions, holder' = Unlocked(t),
               \A u \in Transactions : u # t => pc'[u] = pc[u], info' = info
        PROVE  Ordered(a, k)'
    <2>1. holder[k] = a /\ a # t
      BY <1>0, <1>1 DEF Unlocked
    <2> QED BY <1>1, <2>1 DEF InOrder, Ordered
  <1>2. ASSUME NEW b \in Attempts, StartAttempt(b) \/ BeginUpsert(b) PROVE Ordered(a, k)'
    BY <1>0, <1>2 DEF StartAttempt, BeginUpsert, Goto, InOrder, Ordered
  <1>3. ASSUME NEW b \in Attempts, Upsert(b) PROVE Ordered(a, k)'
    BY <1>0, <1>3 DEF Upsert, RowsToUpsert, Goto, InOrder, Ordered
  <1>4. ASSUME NEW m \in Maintainers, MaintenanceStep(m) PROVE Ordered(a, k)'
    <2>1. a # m
      OBVIOUS
    <2>2. CASE StartRebuild(m) \/ Purge(m) \/ BeginFill(m)
      BY <1>0, <2>1, <2>2 DEF StartRebuild, Purge, BeginFill, Goto, InOrder,
         Ordered
    <2>3. CASE DeleteRow(m) \/ FillRow(m)
      BY <1>0, <2>1, <2>3 DEF DeleteRow, FillRow, InOrder, Ordered
    <2>4. CASE FillConflict(m)
      BY <1>0, <1>1, <2>4 DEF FillConflict, Goto
    <2>5. CASE Commit(m)
      BY <1>0, <1>1, <2>5 DEF Commit, Goto
    <2> QED BY <1>4, <2>2, <2>3, <2>4, <2>5 DEF MaintenanceStep
  <1>5. ASSUME NEW t \in Transactions, Commit(t) \/ Abort(t) PROVE Ordered(a, k)'
    BY <1>0, <1>1, <1>5 DEF Commit, Abort, Goto
  <1>6. CASE UNCHANGED vars
    BY <1>6 DEF vars, InOrder, Ordered
  <1> QED BY <1>2, <1>3, <1>4, <1>5, <1>6 DEF Next, LogStep

\* Whoever holds a destination's row waits for none, and whoever holds an origin's row
\* waits for a destination's.
LEMMA OrderMakesNoCircle == TypeOK /\ InOrder => NoCircle
  <1> SUFFICES ASSUME TypeOK, InOrder, NEW W \in SUBSET Attempts, Circle(W), NEW a \in W
               PROVE  FALSE
    BY DEF NoCircle
  <1>1. ASSUME NEW b \in W PROVE pc[b] # "destLock"
    <2> SUFFICES ASSUME pc[b] = "destLock" PROVE FALSE
      OBVIOUS
    <2>1. /\ Awaited(b) = <<info[b].dest, "destination">> /\ Awaited(b) \in Keys
          /\ holder[Awaited(b)] \in W
      BY DEF Circle, Awaited, Keys, TypeOK
    <2>2. pc[holder[Awaited(b)]] = "commit"
      BY <2>1 DEF InOrder, Ordered
    <2> QED BY <2>1, <2>2 DEF Circle, Waits
  <1>2. /\ pc[a] = "originLock" /\ Awaited(a) = <<info[a].origin, "origin">>
        /\ Awaited(a) \in Keys /\ holder[Awaited(a)] \in W
    BY <1>1 DEF Circle, Waits, Awaited, Keys, TypeOK
  <1>3. pc[holder[Awaited(a)]] \in {"dest", "destLock", "commit"}
    BY <1>2 DEF InOrder, Ordered
  <1> QED BY <1>1, <1>2, <1>3 DEF Circle, Waits

-----------------------------------------------------------------------------
\* schema_creator_service.py: the columns of the two tables, whatever fails or
\* overlaps.
THEOREM TablesTyped == Spec => []TypeOK
  <1>1. Init => DemandTyped
    BY InitLedger DEF Ledger, Floor
  <1>2. DemandTyped => TypeOK
    BY DEF DemandTyped
  <1> QED BY <1>1, <1>2, NextTyped, PTL DEF Spec

\* invalid_route_pipeline.py: no failed route that is in the log is missing from the two
\* counters it belongs to, however many requests, rebuilds and purges overlap, and
\* whichever of them fail: what is off is never too low.
THEOREM NoRouteIsMissing == Spec => []AtLeast
  <1>1. Init => Floor
    BY InitLedger DEF Ledger
  <1>2. Floor /\ [Next]_vars => Floor'
    <2>1. Floor /\ UNCHANGED vars => Floor'
      BY IdleLedger DEF vars, Floor, DemandTyped, TypeOK
    <2> QED BY <2>1, NextFloor
  <1>3. Floor => AtLeast
    BY DEF Floor
  <1> QED BY <1>1, <1>2, <1>3, PTL DEF Spec

\* invalid_route_pipeline.py, _upsert_demand_summary and rebuild_demand_summary: a
\* committed counter of demand_summary is the number of its attempts, for any number
\* of requests at once, with and without a maintenance run, and whatever transactions
\* fail - as long as a purge has no other maintenance run beside it until its rebuild ends.
THEOREM CountersAreExact == Spec /\ []PurgesAlone => []AttemptCountExact
  <1>1. Ledger => AttemptCountExact
    BY DEF Ledger, Accounts
  <1> QED BY <1>1, StepLedger, InitLedger, PTL DEF Spec

\* schema_creator_service.py says that the rows can be fully rebuilt at any time: a
\* rebuild that commits leaves every counter exact, even those that an earlier purge
\* has left behind whose rebuild failed, and from then on they stay exact until the
\* next purge - under the same condition.
THEOREM CountersMend ==
    Spec /\ []PurgesAlone => [][RebuildMends /\ OnlyPurgesUnsettle]_vars
  <1> QED BY LedgerMends, StepLedger, InitLedger, PTL DEF Spec

\* ... and so, without more ado, where there is only one to run.
THEOREM OneMaintainer ==
    ASSUME \A m, n \in Maintainers : m = n
    PROVE  Spec => []AttemptCountExact
  <1>1. PurgesAlone
    BY DEF PurgesAlone
  <1> QED BY <1>1, CountersAreExact, PTL

\* invalid_route_pipeline.py, log_failed_route: requests lock the origin's row before
\* the destination's, so that no requests ever wait for each other in a circle,
\* however many there are, and whatever maintenance runs beside them.
THEOREM RequestsNeverCircle == Spec => []NoCircle
  <1>1. Init => InOrder
    BY NamesAssumption DEF Init, InOrder, Transactions
  <1> QED BY <1>1, NextInOrder, OrderMakesNoCircle, TablesTyped, PTL DEF Spec

-----------------------------------------------------------------------------
(* The route requests.                                                      *)

\* As much of the types as the arguments need.
Typed ==
    /\ pc \in [Transactions -> Label]
    /\ logged \subseteq Attempts
    /\ aborts \in Nat
    /\ boot \in [hook : BOOLEAN, kept : BOOLEAN]
    /\ database \in BOOLEAN /\ tables \in BOOLEAN /\ controller \in BOOLEAN
    /\ at \in [Initialisers -> Stage]
    /\ tries \in [Initialisers -> 0..MaxTries]
    /\ response \in [Attempts -> Responses \cup {Unreachable}]
    /\ answer \in [Attempts -> Answer]

Initialising == {"find", "create", "look", "define"}

\* What is known of the database where the start-up and the handlers are.
Boots ==
    /\ controller => tables
    /\ boot.kept => database /\ tables
    /\ \A i \in Initialisers : /\ at[i] \in {"look", "define"} => database
                               /\ at[i] = "define" => ~boot.kept
    /\ at[Startup] \in Initialising \cup {"boot", "serving", "exited"}
    /\ at[Startup] # "serving" => \A a \in Attempts : at[a] = "new"
    /\ boot.hook /\ at[Startup] = "serving" => controller
    /\ \A a \in Attempts : at[a] \in Initialising => ~boot.hook

\* Without faults nobody creates the database twice.
Tried ==
    aborts = 0 => \A i \in Initialisers : /\ tries[i] > 0 => database
                                          /\ at[i] = "create" => tries[i] = 0

\* How far a request, its transaction and its answer are.
Logs ==
    \A a \in Attempts :
        /\ at[a] \notin {"log", "answered"} => pc[a] = "new"
        /\ at[a] # "answered" => answer[a] = "none"
        /\ at[a] = "log" => response[a] # Unreachable
        /\ pc[a] # "new" => /\ response[a] # Unreachable
                           /\ answer[a] \notin {"ok", "unlogged", "invalid"}
        /\ answer[a] = "logged" => pc[a] = "done"
        /\ pc[a] = "done" => a \in logged \/ \E m \in Maintainers : pc[m] # "new"
        /\ a \in logged => pc[a] = "done"
        /\ aborts = 0 => pc[a] # "failed"

IInv == Typed /\ Boots /\ Tried /\ Logs /\ StartupSafe

-----------------------------------------------------------------------------
\* What a step of log_failed_route does to the labels and to the log.
LEMMA LogKeeps ==
    ASSUME Typed, NEW a \in Attempts, LogStep(a)
    PROVE  /\ pc' \in [Transactions -> Label]
           /\ \A t \in Transactions \ {a} : pc'[t] = pc[t]
           /\ pc[a] # "done" /\ pc'[a] \notin {"new", "failed"}
           /\ pc'[a] = "done" => logged' = logged \cup {a}
           /\ pc'[a] # "done" => logged' = logged
           /\ aborts' = aborts
  BY NamesAssumption
     DEF LogStep, StartAttempt, BeginUpsert, Upsert, Commit, ReadyToCommit, Goto, Typed,
         Transactions, Label

\* What a step of a maintenance run does to them.
LEMMA MaintenanceKeeps ==
    ASSUME Typed, NEW m \in Maintainers, MaintenanceStep(m)
    PROVE  /\ pc' \in [Transactions -> Label]
           /\ \A t \in Transactions \ {m} : pc'[t] = pc[t]
           /\ pc'[m] # "new"
           /\ logged' \subseteq logged
           /\ aborts' = aborts
  <1> USE NamesAssumption DEF Typed, Transactions, Label, Goto
  <1>1. CASE StartRebuild(m)  BY <1>1 DEF StartRebuild
  <1>2. CASE Purge(m)         BY <1>2 DEF Purge
  <1>3. CASE DeleteRow(m)     BY <1>3 DEF DeleteRow
  <1>4. CASE BeginFill(m)     BY <1>4 DEF BeginFill
  <1>5. CASE FillRow(m)       BY <1>5 DEF FillRow
  <1>6. CASE FillConflict(m)  BY <1>6 DEF FillConflict
  <1>7. CASE Commit(m)        BY <1>7 DEF Commit
  <1> QED BY <1>1, <1>2, <1>3, <1>4, <1>5, <1>6, <1>7 DEF MaintenanceStep

\* What a failing transaction does to them.
LEMMA AbortKeeps ==
    ASSUME Typed, NEW t \in Transactions, Abort(t)
    PROVE  /\ pc' \in [Transactions -> Label]
           /\ \A u \in Transactions \ {t} : pc'[u] = pc[u]
           /\ pc[t] \notin {"new", "done"} /\ pc'[t] = "failed"
           /\ logged' = logged
           /\ aborts' > 0 /\ aborts' \in Nat
  BY DEF Abort, Goto, Typed, Transactions, Label

-----------------------------------------------------------------------------
\* The api before it starts satisfies the inductive invariant.
LEMMA InitIInv == RouteInit => IInv
  <1> SUFFICES ASSUME RouteInit PROVE IInv
    OBVIOUS
  <1> USE DEF RouteInit, Init
  <1>1. Typed
    <2>1. tries \in [Initialisers -> 0..MaxTries]
      BY RouteAssumption
    <2>2. /\ pc \in [Transactions -> Label] /\ logged \subseteq Attempts /\ aborts \in Nat
          /\ answer \in [Attempts -> Answer]
          /\ response \in [Attempts -> Responses \cup {Unreachable}]
      BY DEF Label, Answer
    <2>3. at \in [Initialisers -> Stage]
      BY DEF Stage
    <2>4. /\ boot \in [hook : BOOLEAN, kept : BOOLEAN]
          /\ database \in BOOLEAN /\ tables \in BOOLEAN /\ controller \in BOOLEAN
      OBVIOUS
    <2> QED BY <2>1, <2>2, <2>3, <2>4 DEF Typed
  <1>2. Boots
    BY NamesAssumption, RouteAssumption DEF Boots, Initialisers, Initialising, Transactions
  <1>3. Tried
    BY DEF Tried
  <1>4. Logs
    BY NamesAssumption, RouteAssumption DEF Logs, Initialisers, Transactions
  <1>5. StartupSafe
    BY DEF StartupSafe
  <1> QED BY <1>1, <1>2, <1>3, <1>4, <1>5 DEF IInv

\* Steps of the transactions.
LEMMA TransactionStep ==
    ASSUME IInv,
           \/ \E a \in Attempts : Log(a)
           \/ \E m \in Maintainers : MaintenanceStep(m) /\ UNCHANGED apiVars
           \/ \E t \in Transactions : Abort(t) /\ UNCHANGED apiVars
    PROVE  IInv'
  <1> USE DEF IInv, Boots, Tried, StartupSafe, apiVars
  <1>1. CASE \E a \in Attempts : Log(a)
    <2> PICK a \in Attempts : at[a] = "log" /\ LogStep(a) /\ UNCHANGED apiVars
      BY <1>1 DEF Log
    <2>1. Typed'
      BY LogKeeps DEF Typed
    <2>2. Logs'
      <3> SUFFICES ASSUME NEW b \in Attempts PROVE Logs!(b)'
        BY DEF Logs
      <3>1. CASE b = a
        BY <3>1, LogKeeps DEF Logs
      <3>2. CASE b # a
        BY <3>2, LogKeeps, NamesAssumption DEF Logs, Typed, Transactions
      <3> QED BY <3>1, <3>2
    <2> QED BY <2>1, <2>2, LogKeeps
  <1>2. CASE \E m \in Maintainers : MaintenanceStep(m) /\ UNCHANGED apiVars
    <2> PICK m \in Maintainers : MaintenanceStep(m) /\ UNCHANGED apiVars
      BY <1>2
    <2>1. Typed'
      BY MaintenanceKeeps DEF Typed
    <2>2. Logs'
      BY MaintenanceKeeps, NamesAssumption DEF Logs, Typed, Transactions
    <2> QED BY <2>1, <2>2, MaintenanceKeeps
  <1>3. CASE \E t \in Transactions : Abort(t) /\ UNCHANGED apiVars
    <2> PICK t \in Transactions : Abort(t) /\ UNCHANGED apiVars
      BY <1>3
    <2>1. Typed'
      BY AbortKeeps DEF Typed
    <2>2. Logs'
      BY AbortKeeps, NamesAssumption DEF Logs, Typed, Transactions
    <2> QED BY <2>1, <2>2, AbortKeeps DEF Typed
  <1> QED BY <1>1, <1>2, <1>3

\* The steps that initialise, of the hook or of a request.
LEMMA InitialiseKeeps ==
    ASSUME IInv, NEW i \in Initialisers, InitialiseStep(i) \/ DatabaseDown(i)
    PROVE  IInv'
  <1> USE NamesAssumption, RouteAssumption
      DEF Typed, Initialisers, Transactions, Stage, Answer, GoOn, Say, Fail
  <1>1. Typed /\ Boots /\ Tried /\ Logs /\ StartupSafe
    BY DEF IInv
  <1>2. /\ UNCHANGED <<pc, logged, boot, response>>
        /\ aborts' \in Nat /\ (aborts' = 0 => aborts = 0)
        /\ (database => database') /\ (tables => tables') /\ (controller => controller')
        /\ at[i] \in Initialising
    BY <1>1 DEF InitialiseStep, FindDatabase, CreateDatabase, LookForTables, DefineTables,
                DatabaseDown, Initialising, Initialised, vars
  <1>3. i \in Attempts => answer[i] = "none" /\ pc[i] = "new"
    BY <1>1, <1>2 DEF Logs, Initialising
  <1>4. CASE FindDatabase(i)
    BY <1>1, <1>2, <1>3, <1>4 DEF FindDatabase, IInv, Boots, Tried, Logs, StartupSafe,
         Initialising
  <1>5. CASE CreateDatabase(i)
    BY <1>1, <1>2, <1>3, <1>5 DEF CreateDatabase, TryAgain, IInv, Boots, Tried, Logs,
       StartupSafe, Initialising
  <1>6. CASE LookForTables(i)
    <2>1. Typed'
      BY <1>1, <1>2, <1>3, <1>6 DEF LookForTables, Initialised
    <2>2. Boots'
      BY <1>1, <1>2, <1>3, <1>6 DEF Boots, Initialising, LookForTables, Initialised
    <2>3. Tried'
      BY <1>1, <1>2, <1>3, <1>6 DEF Tried, Boots, Initialising, LookForTables, Initialised
    <2>4. Logs'
      BY <1>1, <1>2, <1>3, <1>6 DEF Logs, Initialising, LookForTables, Initialised
    <2>5. StartupSafe'
      BY <1>1, <1>2, <1>3, <1>6 DEF StartupSafe, Boots, Tried, Initialising, LookForTables,
         Initialised
    <2> QED BY <2>1, <2>2, <2>3, <2>4, <2>5 DEF IInv
  <1>7. CASE DefineTables(i)
    <2>1. Typed'
      BY <1>1, <1>2, <1>3, <1>7 DEF DefineTables, Initialised
    <2>2. Boots'
      BY <1>1, <1>2, <1>3, <1>7 DEF Boots, Initialising, DefineTables, Initialised
    <2>3. Tried'
      BY <1>1, <1>2, <1>3, <1>7 DEF Tried, Boots, Initialising, DefineTables, Initialised
    <2>4. Logs'
      BY <1>1, <1>2, <1>3, <1>7 DEF Logs, Initialising, DefineTables, Initialised
    <2>5. StartupSafe'
      BY <1>1, <1>2, <1>3, <1>7 DEF StartupSafe, Boots, Tried, Initialising, DefineTables,
         Initialised
    <2> QED BY <2>1, <2>2, <2>3, <2>4, <2>5 DEF IInv
  <1>8. CASE DatabaseDown(i)
    <2>1. Typed'
      BY <1>1, <1>2, <1>3, <1>8 DEF DatabaseDown, TryAgain, GiveUp
    <2>2. Boots'
      BY <1>1, <1>2, <1>3, <1>8 DEF Boots, Initialising, DatabaseDown, TryAgain, GiveUp
    <2>3. Tried'
      BY <1>1, <1>2, <1>3, <1>8 DEF Tried, Boots, Initialising, DatabaseDown, TryAgain, GiveUp
    <2>4. Logs'
      BY <1>1, <1>2, <1>3, <1>8 DEF Logs, Initialising, DatabaseDown, TryAgain, GiveUp
    <2>5. StartupSafe'
      BY <1>1, <1>2, <1>3, <1>8 DEF StartupSafe, Boots, Tried, Initialising, DatabaseDown,
         TryAgain, GiveUp
    <2> QED BY <2>1, <2>2, <2>3, <2>4, <2>5 DEF IInv
  <1> QED BY <1>4, <1>5, <1>6, <1>7, <1>8 DEF InitialiseStep

\* The other steps of the api: none touches a transaction.
LEMMA RequestKeeps ==
    ASSUME IInv,
           \/ Lifespan \/ DemandQuery
           \/ \E a \in Attempts : \/ Receive(a) \/ TooFewLocations(a)
                                  \/ AskValhalla(a) \/ AnswerLogged(a)
    PROVE  IInv'
  <1> USE NamesAssumption, RouteAssumption
      DEF Typed, Initialisers, Transactions, Stage, Answer, GoOn, Say, vars
  <1>1. Typed /\ Boots /\ Tried /\ Logs /\ StartupSafe
    BY DEF IInv
  <1>2. CASE Lifespan
    BY <1>1, <1>2 DEF Lifespan, IInv, Boots, Tried, Logs, StartupSafe, Initialising
  <1>3. CASE DemandQuery
    BY <1>1, <1>3 DEF DemandQuery, IInv, Boots, Tried, Logs, StartupSafe, Initialising
  <1>4. ASSUME NEW a \in Attempts, Receive(a) PROVE IInv'
    BY <1>1, <1>4 DEF Receive, IInv, Boots, Tried, Logs, StartupSafe, Initialising
  <1>7. ASSUME NEW a \in Attempts, TooFewLocations(a) PROVE IInv'
    BY <1>1, <1>7
       DEF TooFewLocations, IInv, Boots, Tried, Logs, StartupSafe, Initialising
  <1>5. ASSUME NEW a \in Attempts, AskValhalla(a) PROVE IInv'
    <2> PICK r \in Responses :
          /\ response' = [response EXCEPT ![a] = r]
          /\ \/ Say(a, "ok")
             \/ IsLogged(r) /\ GoOn(a, "log") /\ UNCHANGED answer
             \/ Say(a, "unlogged")
      BY <1>5 DEF AskValhalla
    <2>1. /\ at[a] = "ask"
          /\ UNCHANGED <<vars, boot, database, tables, controller, tries>>
      BY <1>5 DEF AskValhalla
    <2>2. IsLogged(r) => r # Unreachable
      BY DEF IsLogged, ErrorCode
    <2>3. Typed'
      BY <1>1, <2>1
    <2>4. Boots'
      BY <1>1, <2>1 DEF Boots, Initialising
    <2>5. Tried'
      BY <1>1, <2>1 DEF Tried
    <2>6. Logs'
      BY <1>1, <2>1, <2>2 DEF Logs
    <2>7. StartupSafe'
      BY <1>1, <2>1 DEF StartupSafe
    <2> QED BY <2>3, <2>4, <2>5, <2>6, <2>7 DEF IInv
  <1>6. ASSUME NEW a \in Attempts, AnswerLogged(a) PROVE IInv'
    <2>1. Typed'
      BY <1>1, <1>6 DEF AnswerLogged
    <2>2. Boots'
      BY <1>1, <1>6 DEF AnswerLogged, Boots, Initialising
    <2>3. Tried'
      BY <1>1, <1>6 DEF AnswerLogged, Tried
    <2>4. Logs'
      BY <1>1, <1>6 DEF AnswerLogged, Logs
    <2>5. StartupSafe'
      BY <1>1, <1>6 DEF AnswerLogged, StartupSafe, Logs
    <2> QED BY <2>1, <2>2, <2>3, <2>4, <2>5 DEF IInv
  <1> QED BY <1>2, <1>3, <1>4, <1>5, <1>6, <1>7

\* Every step keeps the inductive invariant.
LEMMA NextIInv == IInv /\ [RouteNext]_routeVars => IInv'
  <1> SUFFICES ASSUME IInv, [RouteNext]_routeVars PROVE IInv'
    OBVIOUS
  <1>1. CASE UNCHANGED routeVars
    BY <1>1 DEF routeVars, vars, apiVars, IInv, Typed, Boots, Tried, Logs, StartupSafe
  <1>2. CASE RouteNext
    BY <1>2, TransactionStep, InitialiseKeeps, RequestKeeps
       DEF RouteNext, RequestStep, Initialisers
  <1> QED BY <1>1, <1>2

LEMMA Inductive == RouteSpec => []IInv
  BY InitIInv, NextIInv, PTL DEF RouteSpec

-----------------------------------------------------------------------------
(* The demand database underneath.                                          *)

\* A step of the api is one of the database, leaves it alone, or finds it down.
LEMMA StepOfTheDatabase ==
    ASSUME [RouteNext]_routeVars
    PROVE  \/ Next \/ UNCHANGED vars
           \/ /\ UNCHANGED <<info, logged, summary, holder, pending, pc, seen, todo, dirty,
                             clock>>
              /\ aborts' = aborts + 1
  BY DEF RouteNext, routeVars, Lifespan, DemandQuery, InitialiseStep, FindDatabase,
         CreateDatabase, LookForTables, DefineTables, DatabaseDown, Receive, RequestStep,
         TooFewLocations, AskValhalla, AnswerLogged, Log, Next, Transactions

\* Whatever the api does, the rows keep their types.
LEMMA RouteKeepsTyped == DemandTyped /\ [RouteNext]_routeVars => DemandTyped'
  <1>1. DemandTyped => aborts \in Nat
    BY DEF DemandTyped, TypeOK
  <1> QED BY <1>1, StepOfTheDatabase, NextTyped, IdleLedger

\* ... and the counters stay right.
LEMMA RouteKeepsLedger ==
    Ledger /\ PurgesAlone /\ PurgesAlone' /\ [RouteNext]_routeVars => Ledger'
  <1>1. Ledger => aborts \in Nat
    BY DEF Ledger, Floor, DemandTyped, TypeOK
  <1>2. UNCHANGED vars =>
            /\ UNCHANGED <<info, logged, summary, holder, pending, pc, seen, todo, dirty, clock>>
            /\ aborts' = aborts
    BY DEF vars
  <1> QED BY <1>1, <1>2, StepOfTheDatabase, NextLedger, IdleLedger

\* ... or are mended.
LEMMA RouteMends == Ledger /\ [RouteNext]_routeVars => RebuildMends /\ OnlyPurgesUnsettle
  <1> SUFFICES ASSUME Ledger, [RouteNext]_routeVars
               PROVE  RebuildMends /\ OnlyPurgesUnsettle
    OBVIOUS
  <1>1. CASE [Next]_vars
    BY <1>1, LedgerMends
  <1>2. CASE UNCHANGED <<info, logged, summary, pc>>
    <2>1. TypeOK
      BY DEF Ledger, Floor, DemandTyped
    <2>2. \A k \in Keys : AttemptsIn(k)' = AttemptsIn(k)
      BY <1>2 DEF AttemptsIn, CountsIn
    <2>3. \A m \in Maintainers : ~ Commit(m)
      BY <1>2, <2>1 DEF TypeOK, Transactions, Commit, ReadyToCommit, Goto
    <2> QED BY <1>2, <2>2, <2>3 DEF RebuildMends, OnlyPurgesUnsettle, AllExact, Exact
  <1> QED BY <1>1, <1>2, StepOfTheDatabase

-----------------------------------------------------------------------------
\* routes.py, _initialize_route_controller: whoever finds a controller finds tables,
\* and without faults no request fails because others initialise too, but for the
\* loser of a race for the tables in an api that found no database and ran no hook.
THEOREM StartsSafely == RouteSpec => []StartupSafe
  <1>1. IInv => StartupSafe
    BY DEF IInv
  <1> QED BY <1>1, Inductive, PTL

\* valhalla_controller.py, get_route: what a client is told of a failed route is what
\* the log says.
THEOREM AnswersAreLogged == RouteSpec => []AnswersMatchLog
  <1>1. IInv => AnswersMatchLog
    BY DEF IInv, Typed, Logs, AnswersMatchLog
  <1> QED BY <1>1, Inductive, PTL

\* The types of the api and of the rows it writes.
THEOREM RoutesTyped == RouteSpec => []RouteTypeOK
  <1>1. RouteInit => DemandTyped
    BY InitLedger DEF RouteInit, Ledger, Floor
  <1>2. IInv /\ DemandTyped => RouteTypeOK
    BY DEF IInv, Typed, DemandTyped, RouteTypeOK
  <1> QED BY <1>1, <1>2, RouteKeepsTyped, Inductive, PTL DEF RouteSpec

\* invalid_route_pipeline.py, under the requests that call it: whatever overlaps or fails,
\* no counter is too low.
THEOREM NoRouteIsMissingOnline == RouteSpec => []AtLeast
  <1>1. RouteInit => Floor
    BY InitLedger DEF RouteInit, Ledger
  <1>2. Floor /\ [RouteNext]_routeVars => Floor'
    <2>1. Floor => aborts \in Nat
      BY DEF Floor, DemandTyped, TypeOK
    <2>2. UNCHANGED vars =>
              /\ UNCHANGED <<info, logged, summary, holder, pending, pc, seen, todo, dirty,
                             clock>>
              /\ aborts' = aborts
      BY DEF vars
    <2> QED BY <2>1, <2>2, StepOfTheDatabase, NextFloor, IdleLedger
  <1>3. Floor => AtLeast
    BY DEF Floor
  <1> QED BY <1>1, <1>2, <1>3, PTL DEF RouteSpec

\* invalid_route_pipeline.py, under the requests that call it: the counters are exact
\* while the api starts, fails and answers, as long as a purge is alone with its rebuild.
THEOREM CountersAreExactOnline == RouteSpec /\ []PurgesAlone => []AttemptCountExact
  <1>1. RouteInit => Ledger
    BY InitLedger DEF RouteInit
  <1>2. Ledger => AttemptCountExact
    BY DEF Ledger, Accounts
  <1> QED BY <1>1, <1>2, RouteKeepsLedger, PTL DEF RouteSpec

\* rebuild_demand_summary, beside the requests of the api: a rebuild that commits mends
\* whatever a failed one left, and only a purge can put the counters off again.
THEOREM CountersMendOnline ==
    RouteSpec /\ []PurgesAlone => [][RebuildMends /\ OnlyPurgesUnsettle]_routeVars
  <1>1. RouteInit => Ledger
    BY InitLedger DEF RouteInit
  <1> QED BY <1>1, RouteMends, RouteKeepsLedger, PTL DEF RouteSpec

\* log_failed_route, as the requests of the api call it: no requests ever wait for
\* each other's rows in a circle, while others initialise, fail or repeat.
THEOREM RequestsNeverCircleOnline == RouteSpec => []NoCircle
  <1>1. DemandTyped /\ InOrder /\ [RouteNext]_routeVars => InOrder'
    <2>1. DemandTyped => TypeOK
      BY DEF DemandTyped
    <2>2. UNCHANGED <<info, holder, pc>> /\ InOrder => InOrder'
      BY DEF InOrder, Ordered
    <2> QED BY <2>1, <2>2, StepOfTheDatabase, NextInOrder DEF vars
  <1>2. RouteInit => DemandTyped /\ InOrder
    BY InitLedger, NamesAssumption DEF RouteInit, Init, Ledger, Floor, InOrder, Transactions
  <1>3. DemandTyped /\ InOrder => NoCircle
    BY OrderMakesNoCircle DEF DemandTyped
  <1> QED BY <1>1, <1>2, <1>3, RouteKeepsTyped, PTL DEF RouteSpec
=============================================================================

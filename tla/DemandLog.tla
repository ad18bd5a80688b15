------------------------------- MODULE DemandLog -------------------------------
(***************************************************************************)
(* The demand database: log_failed_route, which stores a failed attempt and  *)
(* counts it in two rows of demand_summary in one transaction, and the       *)
(* maintenance operations rebuild_demand_summary and purge_old_attempts.     *)
(*                                                                         *)
(* Transactions run at PostgreSQL's READ COMMITTED: a statement sees what    *)
(* was committed when it began (and its own transaction's changes); writing  *)
(* a row of demand_summary waits for the transaction that has it locked and  *)
(* then works on the row that one committed.                                *)
(***************************************************************************)
EXTENDS Naturals, FiniteSets

CONSTANTS
    Attempts,     \* failed routes to be logged, each by a request of its own
    Maintainers,  \* runs of rebuild_demand_summary or purge_old_attempts
    Cells,        \* geohashes
    Users,        \* user ids
    NoUser,       \* user_id NULL
    Asked,        \* what the requests may be about: [origin, dest, user] of each
    MaxAborts,    \* bound: transactions that fail (deadlock victim, lost connection)
    Nobody        \* the row is not locked

Transactions == Attempts \cup Maintainers

ASSUME NamesAssumption == /\ Attempts \cap Maintainers = {}
                          /\ Nobody \notin Transactions
                          /\ NoUser \notin Users
                          /\ Asked \subseteq [Attempts -> [origin : Cells, dest : Cells,
                                                          user : Users \cup {NoUser}]]
                          /\ MaxAborts \in Nat

VARIABLES
    info,       \* the attempt's columns: [origin, dest, user, ts]
    logged,     \* committed rows of failed_route_attempts
    summary,    \* committed rows of demand_summary (count 0: no row)
    holder,     \* the transaction that has the row locked
    pending,    \* the row as that transaction has left it
    pc,         \* where each transaction is
    seen,       \* the attempts its current statement sees
    todo,       \* the rows a maintainer's current statement has yet to treat
    dirty,      \* maintainers that have purged and not yet rebuilt
    clock,      \* time.time()
    aborts      \* what the bound counts

vars == <<info, logged, summary, holder, pending, pc, seen, todo, dirty, clock, aborts>>

Keys == Cells \X {"origin", "destination"}
Row  == [count : Nat, users : Nat, first : Nat, last : Nat]
NoRow == [count |-> 0, users |-> 0, first |-> 0, last |-> 0]
Label == {"new", "origin", "originLock", "dest", "destLock", "purged", "delete",
          "fillOrigin", "fillDest", "commit", "done", "failed"}

TypeOK ==
    /\ info \in [Attempts -> [origin : Cells, dest : Cells,
                              user : Users \cup {NoUser}, ts : Nat]]
    /\ logged \subseteq Attempts
    /\ summary \in [Keys -> Row]
    /\ holder \in [Keys -> Transactions \cup {Nobody}]
    /\ pending \in [Keys -> Row]
    /\ pc \in [Transactions -> Label]
    /\ seen \in [Transactions -> SUBSET Attempts]
    /\ todo \in [Maintainers -> SUBSET Keys]
    /\ dirty \subseteq Maintainers
    /\ clock \in Nat /\ aborts \in Nat

Init ==
    /\ \E q \in Asked :
          info = [a \in Attempts |-> [origin |-> q[a].origin, dest |-> q[a].dest,
                                     user |-> q[a].user, ts |-> 0]]
    /\ logged = {}
    /\ summary = [k \in Keys |-> NoRow]
    /\ holder = [k \in Keys |-> Nobody]
    /\ pending = [k \in Keys |-> NoRow]
    /\ pc = [t \in Transactions |-> "new"]
    /\ seen = [t \in Transactions |-> {}]
    /\ todo = [m \in Maintainers |-> {}]
    /\ dirty = {} /\ clock = 1 /\ aborts = 0

Goto(t, label) == pc' = [pc EXCEPT ![t] = label]

\* Does an attempt count in a row?
CountsIn(a, k) == k \in {<<info[a].origin, "origin">>, <<info[a].dest, "destination">>}
UsersLessNull(S) == Cardinality({info[a].user : a \in S} \ {NoUser}) - 1

\* COUNT(DISTINCT user_id) does not count NULL.
DistinctUsers(S) == Cardinality({info[a].user : a \in S} \ {NoUser})

Unlocked(t) == [k \in Keys |-> IF holder[k] = t THEN Nobody ELSE holder[k]]

-----------------------------------------------------------------------------
(* log_failed_route.                                                        *)

\* ts = time.time(), then INSERT INTO failed_route_attempts, which nobody else sees
\* before the commit.
StartAttempt(a) ==
    /\ pc[a] = "new"
    /\ info' = [info EXCEPT ![a].ts = clock]
    /\ clock' = clock + 1
    /\ Goto(a, "origin")
    /\ UNCHANGED <<logged, summary, holder, pending, seen, todo, dirty, aborts>>

EitherRow(a) == {<<info[a].origin, "origin">>, <<info[a].dest, "destination">>}

\* The origin's row first, then the destination's.
RowsToUpsert(a) == IF pc[a] \in {"origin", "originLock"}
                   THEN {<<info[a].origin, "origin">>}
                   ELSE {<<info[a].dest, "destination">>}

\* An upsert begins: this is what its subquery will see.
BeginUpsert(a) ==
    /\ pc[a] \in {"origin", "dest"}
    /\ seen' = [seen EXCEPT ![a] = logged \cup {a}]
    /\ Goto(a, IF pc[a] = "origin" THEN "originLock" ELSE "destLock")
    /\ UNCHANGED <<info, logged, summary, holder, pending, todo, dirty, clock, aborts>>

CountFromSnapshot(a, k) == Cardinality({x \in seen[a] : CountsIn(x, k)})

\* attempt_count = demand_summary.attempt_count + 1, on the locked row.
CountPlusOne(a, k) == summary[k].count + 1

Inserted(a) == [count |-> 1, users |-> 1, first |-> info[a].ts, last |-> info[a].ts]

\* unique_users counts the users seen at either end of an attempt in this cell.
Updated(a, k) ==
    [count |-> CountPlusOne(a, k),
     users |-> DistinctUsers({x \in seen[a] : k[1] \in {info[x].origin, info[x].dest}}),
     first |-> summary[k].first,
     last  |-> info[a].ts]

\* ON CONFLICT DO UPDATE, once nobody else has the row locked.
Upsert(a) ==
    /\ pc[a] \in {"originLock", "destLock"}
    /\ \E k \in RowsToUpsert(a) :
          /\ holder[k] = Nobody
          /\ holder' = [holder EXCEPT ![k] = a]
          /\ pending' = [pending EXCEPT ![k] =
                            IF summary[k].count = 0 THEN Inserted(a) ELSE Updated(a, k)]
    /\ Goto(a, IF pc[a] = "originLock" THEN "dest" ELSE "commit")
    /\ UNCHANGED <<info, logged, summary, seen, todo, dirty, clock, aborts>>

-----------------------------------------------------------------------------
(* rebuild_demand_summary and purge_old_attempts.                           *)

\* The purge is a transaction of its own; the rebuild that follows is another.
Purge(m) ==
    /\ pc[m] = "new"
    /\ \E cutoff \in 1..clock : logged' = {a \in logged : info[a].ts >= cutoff}
    /\ dirty' = dirty \cup {m}
    /\ Goto(m, "purged")
    /\ UNCHANGED <<info, summary, holder, pending, seen, todo, clock, aborts>>

\* The DELETE of a rebuild, alone or after a purge, begins: these rows it will delete.
StartRebuild(m) ==
    /\ pc[m] \in {"new", "purged"}
    /\ todo' = [todo EXCEPT ![m] = {k \in Keys : summary[k].count > 0}]
    /\ Goto(m, "delete")
    /\ UNCHANGED <<info, logged, summary, holder, pending, seen, dirty, clock, aborts>>

\* DELETE FROM demand_summary, row by row in no particular order.
DeleteRow(m) ==
    /\ pc[m] = "delete"
    /\ \E k \in todo[m] :
          /\ holder[k] = Nobody
          /\ holder' = [holder EXCEPT ![k] = m]
          /\ pending' = [pending EXCEPT ![k] = NoRow]
          /\ todo' = [todo EXCEPT ![m] = @ \ {k}]
    /\ UNCHANGED <<info, logged, summary, pc, seen, dirty, clock, aborts>>

\* INSERT ... SELECT ... GROUP BY: one statement for the origins, one for the
\* destinations, each with its own view of the attempts.
BeginFill(m) ==
    /\ pc[m] \in {"delete", "fillOrigin"}
    /\ todo[m] = {}
    /\ seen' = [seen EXCEPT ![m] = logged]
    /\ LET type == IF pc[m] = "delete" THEN "origin" ELSE "destination"
       IN todo' = [todo EXCEPT ![m] =
                      {k \in Keys : k[2] = type /\ \E a \in logged : CountsIn(a, k)}]
    /\ Goto(m, IF pc[m] = "delete" THEN "fillOrigin" ELSE "fillDest")
    /\ UNCHANGED <<info, logged, summary, holder, pending, dirty, clock, aborts>>

Earliest(S) == CHOOSE t \in {info[a].ts : a \in S} : \A a \in S : t <= info[a].ts
Latest(S) == CHOOSE t \in {info[a].ts : a \in S} : \A a \in S : t >= info[a].ts

Grouped(S) == [count |-> Cardinality(S), users |-> DistinctUsers(S),
               first |-> Earliest(S), last |-> Latest(S)]

RowExists(m, k) == holder[k] = Nobody /\ summary[k].count > 0

FillRow(m) ==
    /\ pc[m] \in {"fillOrigin", "fillDest"}
    /\ \E k \in todo[m] :
          /\ holder[k] \in {m, Nobody}
          /\ ~RowExists(m, k)
          /\ holder' = [holder EXCEPT ![k] = m]
          /\ pending' = [pending EXCEPT ![k] = Grouped({a \in seen[m] : CountsIn(a, k)})]
          /\ todo' = [todo EXCEPT ![m] = @ \ {k}]
    /\ UNCHANGED <<info, logged, summary, pc, seen, dirty, clock, aborts>>

\* A plain INSERT of a key that has been committed meanwhile: unique violation.
FillConflict(m) ==
    /\ pc[m] \in {"fillOrigin", "fillDest"}
    /\ \E k \in todo[m] : RowExists(m, k)
    /\ holder' = Unlocked(m)
    /\ Goto(m, "failed")
    /\ UNCHANGED <<info, logged, summary, pending, seen, todo, dirty, clock, aborts>>

-----------------------------------------------------------------------------
ReadyToCommit(t) == pc[t] = "commit" \/ (pc[t] = "fillDest" /\ todo[t] = {})

\* A DELETE that has waited finds the rows gone that the other transaction deleted
\* (what that one inserted since is none of the rows it set out to delete).
StillToDelete(n, t) == IF t \in Maintainers /\ pc[n] = "delete"
                       THEN {k \in todo[n] : holder[k] # t} ELSE todo[n]

\* The end of `with self.db.connection()': commit ...
Commit(t) ==
    /\ ReadyToCommit(t)
    /\ summary' = [k \in Keys |-> IF holder[k] = t THEN pending[k] ELSE summary[k]]
    /\ holder' = Unlocked(t)
    /\ logged' = IF t \in Attempts THEN logged \cup {t} ELSE logged
    /\ dirty' = dirty \ {t}
    /\ todo' = [n \in Maintainers |-> StillToDelete(n, t)]
    /\ Goto(t, "done")
    /\ UNCHANGED <<info, pending, seen, clock, aborts>>

\* ... or rollback.
Abort(t) ==
    /\ pc[t] \notin {"new", "done", "failed"}
    /\ aborts < MaxAborts
    /\ aborts' = aborts + 1
    /\ holder' = Unlocked(t)
    /\ Goto(t, "failed")
    /\ UNCHANGED <<info, logged, summary, pending, seen, todo, dirty, clock>>

LogStep(a) == StartAttempt(a) \/ BeginUpsert(a) \/ Upsert(a) \/ Commit(a)
MaintenanceStep(m) == \/ StartRebuild(m) \/ Purge(m) \/ DeleteRow(m)
                      \/ BeginFill(m) \/ FillRow(m) \/ FillConflict(m) \/ Commit(m)

Next == \/ \E a \in Attempts : LogStep(a)
        \/ \E m \in Maintainers : MaintenanceStep(m)
        \/ \E t \in Transactions : Abort(t)

Spec == Init /\ [][Next]_vars

-----------------------------------------------------------------------------
(* Correctness.                                                            *)

AttemptsIn(k) == {a \in logged : CountsIn(a, k)}

\* attempt_count is exactly the number of logged attempts from (to) the cell:
\* concurrent requests lose no increment, and a rebuild that overlaps with them
\* neither misses nor doubles any. Only between a purge and its rebuild may the
\* table be off. The rows "can be fully rebuilt from failed_route_attempts at any
\* time" (schema_creator_service.py) - which holds unless a run overlaps a purge.
AttemptCountExact ==
    dirty = {} => \A k \in Keys : summary[k].count = Cardinality(AttemptsIn(k))
=============================================================================

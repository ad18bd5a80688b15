------------------------------- MODULE WayCrud -------------------------------
(***************************************************************************)
(* The way administration of the api container: the /ways handlers of       *)
(* tile_reloading.py, the background jobs they queue, the lock and status    *)
(* those jobs share, and the steps of WayCRUDService on the node registry    *)
(* and on the canonical network PBF. The rebuild server is seen through      *)
(* TileStore, the abstract specification that TileRebuild implements.        *)
(*                                                                         *)
(* A handler answers 202 first; its job then runs in a thread of its own, so *)
(* several accepted jobs race for _rebuild_lock. A job is identified with    *)
(* the one POST /rebuild it may send.                                        *)
(***************************************************************************)
EXTENDS Naturals, FiniteSets

CONSTANTS
    Jobs,         \* write operations submitted to the API, each used once
    Ways,         \* ways, by OBJECTID or anonymous
    Anonymous,    \* the ids next_way_id gives to features without OBJECTID
    Known,        \* the ways of the bootstrapped network
    MaxFails,     \* bound: osmium failures and unreachable rebuild servers
    MaxTimeouts,  \* bound: rebuild requests that outlast urlopen's timeout
    MaxCrashes,   \* bound: restarts of the api process
    Base,         \* the bootstrapped version of a way
    NoWay,        \* the way is not in the network
    Torn, NoSource  \* see TileStore

ASSUME NetworkAssumption == /\ Known \cup Anonymous \subseteq Ways /\ Ways # {}
                            /\ Base # NoWay
                            /\ {Base, NoWay} \cap Jobs = {}
ASSUME MarkersAssumption == /\ {Torn, NoSource} \cap Nat = {}
                            /\ Torn # NoSource
ASSUME BoundsAssumption ==
    MaxFails \in Nat /\ MaxTimeouts \in Nat /\ MaxCrashes \in Nat

VARIABLES
    pbf, edits, src, graph, answer,   \* TileStore
    net,        \* the ways in the last completely written network PBF
    registered, \* the ways table of the node registry
    op,         \* what each job is: [kind, way]
    phase,      \* where each job is
    draft,      \* the network each job has prepared to write
    lock,       \* _rebuild_lock is held
    status,     \* _rebuild_status: [running, last_error]
    fails, timeouts, crashes   \* what the bounds count

\* A job rewrites the PBF at most twice, so the store's bound never binds.
Store == INSTANCE TileStore WITH Requests <- Jobs,
                                 MaxEdits <- 2 * Cardinality(Jobs)

storeVars == <<pbf, edits, src, graph, answer>>
countVars == <<fails, timeouts, crashes>>
vars == <<pbf, edits, src, graph, answer, net, registered, op, phase, draft,
          lock, status, fails, timeouts, crashes>>

Network == [Ways -> Jobs \cup {Base, NoWay}]
Kind    == {"add", "update", "delete", "rebuild"}
\* "remove" and "merge" read the PBF, "rewrite1" and "rewrite2" are about to
\* overwrite it, "writing1" and "writing2" are overwriting it.
Active  == {"remove", "rewrite1", "writing1", "convert", "merge", "rewrite2",
            "writing2", "send", "wait", "raise"}
Phase   == {"new", "accepted", "dropped", "done", "failed", "lost"} \cup Active

TypeOK ==
    /\ Store!TypeOK
    /\ net \in Network
    /\ registered \subseteq Ways
    /\ op \in [Jobs -> [kind : Kind, way : Ways]]
    /\ phase \in [Jobs -> Phase]
    /\ draft \in [Jobs -> Network]
    /\ lock \in BOOLEAN
    /\ status \in [running : BOOLEAN, last_error : BOOLEAN]
    /\ fails \in Nat /\ timeouts \in Nat /\ crashes \in Nat

Idle == [running |-> FALSE, last_error |-> FALSE]
Bootstrapped == [w \in Ways |-> IF w \in Known THEN Base ELSE NoWay]

Init ==
    /\ Store!Init
    /\ net = Bootstrapped
    /\ registered = Known \ Anonymous
    /\ op = [j \in Jobs |-> [kind |-> "rebuild", way |-> CHOOSE w \in Ways : TRUE]]
    /\ phase = [j \in Jobs |-> "new"]
    /\ draft = [j \in Jobs |-> Bootstrapped]
    /\ lock = FALSE
    /\ status = Idle
    /\ fails = 0 /\ timeouts = 0 /\ crashes = 0

Goto(j, p) == phase' = [phase EXCEPT ![j] = p]

-----------------------------------------------------------------------------
(* The handlers: verify the OBJECTID where they do, queue the job, say 202.  *)
(* Nothing verifies that the feature of an add has one: _extract_object_id is *)
(* never called. For a feature without, w stands for the way ID that its      *)
(* conversion will draw, which NodeRegistry is about; it may be one drawn     *)
(* before.                                                                 *)

Accept(j, kind, w) ==
    /\ phase[j] = "new"
    /\ op' = [op EXCEPT ![j] = [kind |-> kind, way |-> w]]
    /\ Goto(j, "accepted")
    /\ UNCHANGED <<storeVars, net, registered, draft, lock, status, countVars>>

\* POST /ways/ and POST /ways/bulk.
AddWay(j, w) == Accept(j, "add", w)

\* _verify_object_id: 404 unless the registry knows the way.
UpdateWay(j, w) == w \in registered /\ Accept(j, "update", w)

DeleteWay(j, w) == w \in registered /\ Accept(j, "delete", w)

RebuildTiles(j) == Accept(j, "rebuild", op[j].way)

Submit(j) == \/ \E w \in Ways : AddWay(j, w) \/ UpdateWay(j, w) \/ DeleteWay(j, w)
             \/ RebuildTiles(j)

-----------------------------------------------------------------------------
(* _run_locked: a job that does not get the lock at once raises an exception *)
(* that nobody sees, the 202 being long sent.                                *)

AlwaysFree == TRUE

LockFree == ~lock

FirstStep(j) == CASE op[j].kind = "add" -> "convert"
                  [] op[j].kind \in {"update", "delete"} -> "remove"
                  [] OTHER -> "send"

Acquire(j) ==
    /\ phase[j] = "accepted"
    /\ LockFree
    /\ lock' = TRUE
    /\ status' = [running |-> TRUE, last_error |-> FALSE]
    /\ Goto(j, FirstStep(j))
    /\ UNCHANGED <<storeVars, net, registered, op, draft, countVars>>

Drop(j) ==
    /\ phase[j] = "accepted"
    /\ ~LockFree
    /\ Goto(j, "dropped")
    /\ UNCHANGED <<storeVars, net, registered, op, draft, lock, status, countVars>>

AnswerIgnored(j) == TRUE

\* _rebuild_tiles returns normally only when the server has answered 200.
Answered(j) == answer[j] = "ok"

\* The finally clause, after normal completion ...
Complete(j) ==
    /\ phase[j] = "wait"
    /\ Answered(j)
    /\ lock' = FALSE
    /\ status' = Idle
    /\ Goto(j, "done")
    /\ UNCHANGED <<storeVars, net, registered, op, draft, countVars>>

NotReleased == lock

\* The lock is released in the finally clause, on the exceptional path too.
Unlocked == FALSE

ErrorForgotten == Idle

ErrorOnly == [last_error |-> TRUE]

ErrorKept == [running |-> FALSE, last_error |-> TRUE]

\* ... and after an exception, which is recorded first.
Abort(j) ==
    /\ phase[j] = "raise"
    /\ lock' = Unlocked
    /\ status' = ErrorKept
    /\ Goto(j, "failed")
    /\ UNCHANGED <<storeVars, net, registered, op, draft, countVars>>

-----------------------------------------------------------------------------
(* WayCRUDService.                                                          *)

\* osmium removeid: read the PBF without the way. It fails on a broken PBF.
ReadWithoutWay(j) ==
    /\ phase[j] = "remove"
    /\ IF pbf = Torn
       THEN Goto(j, "raise") /\ UNCHANGED draft
       ELSE /\ draft' = [draft EXCEPT ![j] = [net EXCEPT ![op[j].way] = NoWay]]
            /\ Goto(j, "rewrite1")
    /\ UNCHANGED <<storeVars, net, registered, op, lock, status, countVars>>

RegisterNothing(w) == registered

\* convert_features commits the way to the registry before the PBF is touched, if
\* the feature has an OBJECTID.
Register(w) == registered \cup ({w} \ Anonymous)

Convert(j) ==
    /\ phase[j] = "convert"
    /\ registered' = Register(op[j].way)
    /\ Goto(j, "merge")
    /\ UNCHANGED <<storeVars, net, op, draft, lock, status, countVars>>

\* osmium merge: the network with the job's feature ("the last file wins").
MergeWay(j) ==
    /\ phase[j] = "merge"
    /\ IF pbf = Torn
       THEN Goto(j, "raise") /\ UNCHANGED draft
       ELSE /\ draft' = [draft EXCEPT ![j] = [net EXCEPT ![op[j].way] = j]]
            /\ Goto(j, "rewrite2")
    /\ UNCHANGED <<storeVars, net, registered, op, lock, status, countVars>>

\* osmium sort -o NETWORK_PBF --overwrite: truncate ...
StartRewrite(j) ==
    /\ phase[j] \in {"rewrite1", "rewrite2"}
    /\ Store!EditBegin
    /\ Goto(j, IF phase[j] = "rewrite1" THEN "writing1" ELSE "writing2")
    /\ UNCHANGED <<net, registered, op, draft, lock, status, countVars>>

\* ... and write. update goes on to insert the new version.
EndRewrite(j) ==
    /\ phase[j] \in {"writing1", "writing2"}
    /\ Store!EditEnd
    /\ net' = draft[j]
    /\ Goto(j, IF phase[j] = "writing1" /\ op[j].kind = "update"
               THEN "convert" ELSE "send")
    /\ UNCHANGED <<registered, op, draft, lock, status, countVars>>

\* urlopen(POST /rebuild, timeout=600).
SendRebuild(j) ==
    /\ phase[j] = "send"
    /\ Store!Connect(j)
    /\ Goto(j, "wait")
    /\ UNCHANGED <<net, registered, op, draft, lock, status, countVars>>

RebuildFailed(j) ==
    /\ phase[j] = "wait"
    /\ answer[j] = "failed"
    /\ Goto(j, "raise")
    /\ UNCHANGED <<storeVars, net, registered, op, draft, lock, status, countVars>>

\* The request stays with the server, which will serve it all the same.
RebuildTimesOut(j) ==
    /\ phase[j] = "wait"
    /\ answer[j] \notin {"ok", "failed"}
    /\ timeouts < MaxTimeouts
    /\ timeouts' = timeouts + 1
    /\ Goto(j, "raise")
    /\ UNCHANGED <<storeVars, net, registered, op, draft, lock, status, fails, crashes>>

\* An osmium command exits non-zero (an overwrite that fails leaves a truncated
\* PBF behind), or the rebuild server cannot be reached.
StepFails(j) ==
    /\ phase[j] \in Active \ {"wait", "raise"}
    /\ fails < MaxFails
    /\ fails' = fails + 1
    /\ Goto(j, "raise")
    /\ UNCHANGED <<storeVars, net, registered, op, draft, lock, status, timeouts, crashes>>

JobStep(j) ==
    \/ Acquire(j) \/ Drop(j) \/ Complete(j) \/ Abort(j)
    \/ ReadWithoutWay(j) \/ Convert(j) \/ MergeWay(j)
    \/ StartRewrite(j) \/ EndRewrite(j)
    \/ SendRebuild(j) \/ RebuildFailed(j) \/ RebuildTimesOut(j) \/ StepFails(j)

-----------------------------------------------------------------------------
\* The api process dies and starts again: jobs, lock and status are in memory.
ApiRestart ==
    /\ crashes < MaxCrashes
    /\ crashes' = crashes + 1
    /\ phase' = [j \in Jobs |-> IF phase[j] \in Active \cup {"accepted"}
                                THEN "lost" ELSE phase[j]]
    /\ lock' = FALSE
    /\ status' = Idle
    /\ UNCHANGED <<storeVars, net, registered, op, draft, fails, timeouts>>

\* The rebuild server, as TileStore promises it.
Server(j) ==
    /\ Store!Serve(j)
    /\ UNCHANGED <<net, registered, op, phase, draft, lock, status, countVars>>

Next ==
    \/ \E j \in Jobs : Submit(j) \/ JobStep(j) \/ Server(j)
    \/ ApiRestart

Spec == Init /\ [][Next]_vars

\* Job threads are scheduled and osmium ends; the server serves (TileStore's
\* fairness, implemented by TileRebuild).
FairSpec == /\ Spec
            /\ \A j \in Jobs : WF_vars(JobStep(j))
            /\ WF_vars(\E j \in Jobs : Server(j))

-----------------------------------------------------------------------------
(* Correctness.                                                            *)

Running == {j \in Jobs : phase[j] \in Active}

\* _rebuild_lock: at most one job works on the PBF at a time, and the lock is held
\* exactly while one does - no path leaves it held behind a finished job.
OneJob == \A j \in Jobs : phase[j] \in Active =>
             lock /\ \A k \in Jobs \ {j} : phase[k] \notin Active

LockHasOwner == lock => Running # {}

\* The admin page shows "Tiles up to date" when the status has neither a running
\* job nor an error. As long as the api process has not restarted, the routing
\* graph then is the one built from the network PBF as it is on disk, whatever
\* failed or timed out before.
UpToDate == ~status.running /\ ~status.last_error => graph = pbf

UpToDateMeansCurrent == crashes = 0 => UpToDate

\* Also after restarts of the api: a job that completes leaves the routing graph
\* built from the network PBF on disk, even with requests of timed-out or lost
\* jobs still queued at the rebuild server.
DoneMeansServed ==
    [][\A j \in Jobs : phase[j] # "done" /\ phase'[j] = "done" => graph = pbf]_vars

\* Every rewrite of the canonical PBF changes the one way its job is about: no
\* job writes back a network it read before another job's change.
NoLostUpdate ==
    [][\A w \in Ways : net'[w] # net[w] =>
          \E j \in Jobs : /\ phase[j] \in {"writing1", "writing2"}
                         /\ phase'[j] # phase[j]
                         /\ op[j].way = w]_vars

\* A way of the network that has an OBJECTID is always in the registry, so that the
\* admin can look it up, update it and delete it: convert_features registers it
\* before the merge, whatever fails or restarts in between, and no other job's write
\* undoes it. A way without OBJECTID is in the network and never in the registry:
\* nobody checks that a new feature has one, as _extract_object_id would.
RegistryCoversNetwork == \A w \in Ways \ Anonymous : net[w] # NoWay => w \in registered

\* The lock also keeps builds and rewrites apart: unless a request has timed out,
\* a rewrite has failed midway or the api has restarted, no build ever reads a
\* network PBF that is being overwritten.
BuildsReadWholeNetwork ==
    timeouts + fails + crashes = 0 => Torn \notin {src, graph}

\* Every accepted job comes to an end.
EveryJobEnds ==
    \A j \in Jobs : phase[j] = "accepted"
                      ~> phase[j] \in {"dropped", "done", "failed", "lost"}

-----------------------------------------------------------------------------
(* What the documentation says and the code does not do.                    *)

\* ADMIN.md: "Every write operation triggers a background tile rebuild", and a
\* conflicting one is refused with 409; no accepted operation is thrown away.
AcceptedIsRun == \A j \in Jobs : phase[j] # "dropped"
=============================================================================

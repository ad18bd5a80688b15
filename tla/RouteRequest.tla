----------------------------- MODULE RouteRequest -----------------------------
(***************************************************************************)
(* POST /valhalla/route on top of the demand database of DemandLog: the    *)
(* initialisation of the route controller (by the start-up hook of the     *)
(* router, or by the first requests in their own threads), the call of     *)
(* Valhalla, the classification of its answer, and the logging of a failed *)
(* route before the client is answered.                                    *)
(***************************************************************************)
EXTENDS DemandLog

CONSTANTS
    Responses,    \* what a call of Valhalla may come back with
    NoNumber,     \* a body without "error_code": <digits>
    Unreachable,  \* no usable response: refused, timed out after 30 s, not JSON
    Startup,      \* the start-up of the api, which initialises like a request
    MaxTries      \* bound: rounds of _ensure_database_ready (10 in the code)

Initialisers == Attempts \cup {Startup}
Words == {"no path", "no route", "no suitable", "origin", "destination"}
Trip  == [ok : {TRUE}, length : Nat, time : Nat]
Error == [ok : {FALSE}, code : Nat \cup {NoNumber}, says : SUBSET Words]

ASSUME RouteAssumption == /\ Responses \subseteq Trip \cup Error \cup {Unreachable}
                          /\ Startup \notin Transactions
                          /\ MaxTries \in Nat \ {0, 1}

VARIABLES
    boot,       \* [hook, kept]: does the start-up hook run, does the database exist
    database,   \* does the database exist?
    tables,     \* do its tables?
    controller, \* route_controller is not None
    at,         \* where the start-up and the handler of each request are
    tries,      \* rounds of _ensure_database_ready so far
    response,   \* what Valhalla has answered
    answer      \* what the client has been answered

apiVars == <<boot, database, tables, controller, at, tries, response, answer>>
routeVars == <<vars, apiVars>>

Stage == {"boot", "new", "find", "create", "look", "define", "ask", "log",
          "serving", "exited", "answered"}
Answer == {"none", "ok", "logged", "unlogged", "invalid", "error"}

RouteTypeOK ==
    /\ TypeOK
    /\ boot \in [hook : BOOLEAN, kept : BOOLEAN]
    /\ database \in BOOLEAN /\ tables \in BOOLEAN /\ controller \in BOOLEAN
    /\ at \in [Initialisers -> Stage]
    /\ tries \in [Initialisers -> 0..MaxTries]
    /\ response \in [Attempts -> Responses \cup {Unreachable}]
    /\ answer \in [Attempts -> Answer]

RouteInit ==
    /\ Init
    /\ boot \in [hook : BOOLEAN, kept : BOOLEAN]
    /\ database = boot.kept /\ tables = boot.kept
    /\ controller = FALSE
    /\ at = [i \in Initialisers |-> IF i = Startup THEN "boot" ELSE "new"]
    /\ tries = [i \in Initialisers |-> 0]
    /\ response = [a \in Attempts |-> Unreachable]
    /\ answer = [a \in Attempts |-> "none"]

GoOn(i, stage) == at' = [at EXCEPT ![i] = stage]
Say(a, what) == answer' = [answer EXCEPT ![a] = what] /\ GoOn(a, "answered")

-----------------------------------------------------------------------------
(* _initialize_route_controller.                                            *)

\* An exception ends the api when the hook raises it, and the request with a 500
\* when its handler does.
Fail(i) == IF i = Startup THEN GoOn(i, "exited") /\ UNCHANGED answer
                          ELSE Say(i, "error")

Initialised(i) ==
    /\ controller' = TRUE
    /\ GoOn(i, IF i = Startup THEN "serving" ELSE "ask")

\* SELECT 1 FROM pg_database.
FindDatabase(i) ==
    /\ at[i] = "find"
    /\ GoOn(i, IF database THEN "look" ELSE "create")
    /\ UNCHANGED <<vars, boot, database, tables, controller, tries, response, answer>>

GiveUp(i) == Fail(i) /\ UNCHANGED tries

\* Whatever create_database raises, it is tried again after two seconds.
TryAgain(i) ==
    IF tries[i] + 1 < MaxTries
    THEN tries' = [tries EXCEPT ![i] = @ + 1] /\ GoOn(i, "find") /\ UNCHANGED answer
    ELSE Fail(i) /\ UNCHANGED tries

\* CREATE DATABASE fails when another thread has been faster.
CreateDatabase(i) ==
    /\ at[i] = "create"
    /\ database' = TRUE
    /\ IF database THEN TryAgain(i) ELSE GoOn(i, "look") /\ UNCHANGED <<tries, answer>>
    /\ UNCHANGED <<vars, boot, tables, controller, response>>

\* CREATE TABLE IF NOT EXISTS looks first: nothing to do if the tables are there ...
LookForTables(i) ==
    /\ at[i] = "look"
    /\ IF tables THEN Initialised(i) ELSE GoOn(i, "define") /\ UNCHANGED controller
    /\ UNCHANGED <<vars, boot, database, tables, tries, response, answer>>

\* ... and else defines them, in one implicit transaction; a thread that does so
\* meanwhile makes it fail with a unique violation in the catalogue.
DefineTables(i) ==
    /\ at[i] = "define"
    /\ tables' = TRUE
    /\ IF tables THEN Fail(i) /\ UNCHANGED controller
                 ELSE Initialised(i) /\ UNCHANGED answer
    /\ UNCHANGED <<vars, boot, database, tries, response>>

\* The database server does not answer.
DatabaseDown(i) ==
    /\ aborts < MaxAborts
    /\ aborts' = aborts + 1
    /\ \/ at[i] \in {"find", "create"} /\ TryAgain(i)
       \/ at[i] \in {"look", "define"} /\ GiveUp(i)
    /\ UNCHANGED <<info, logged, summary, holder, pending, pc, seen, todo, dirty, clock,
                   boot, database, tables, controller, response>>

\* The lifespan of the app creates the database too, once, and ignores a failure;
\* whether the hook of the included router runs after it is FastAPI's affair.
Lifespan ==
    /\ at[Startup] = "boot"
    /\ database' \in {TRUE, database}
    /\ GoOn(Startup, IF boot.hook THEN "find" ELSE "serving")
    /\ UNCHANGED <<vars, boot, tables, controller, tries, response, answer>>

\* A query of the /demand endpoints creates a database that does not exist, and
\* no tables in it.
DemandQuery ==
    /\ at[Startup] = "serving"
    /\ ~database /\ database' = TRUE
    /\ UNCHANGED <<vars, boot, tables, controller, at, tries, response, answer>>

InitialiseStep(i) == \/ FindDatabase(i) \/ CreateDatabase(i)
                     \/ LookForTables(i) \/ DefineTables(i)

-----------------------------------------------------------------------------
(* The request.                                                             *)

Receive(a) ==
    /\ at[Startup] = "serving"
    /\ at[a] = "new"
    /\ GoOn(a, IF controller THEN "ask" ELSE "find")
    /\ UNCHANGED <<vars, boot, database, tables, controller, tries, response, answer>>

\* locations[0] or [1] of a request that has fewer than two raises: a 500 of its own
\* kind, with Valhalla not asked and nothing logged.
TooFewLocations(a) ==
    /\ at[a] = "ask"
    /\ Say(a, "invalid")
    /\ UNCHANGED <<vars, boot, database, tables, controller, tries, response>>

\* _parse_error_code.
ParsedCode(body) ==
    CASE body.code # NoNumber -> body.code
      [] body.says \cap {"no path", "no route"} # {} -> 442
      [] {"no suitable", "origin"} \subseteq body.says -> 171
      [] {"no suitable", "destination"} \subseteq body.says -> 170
      [] OTHER -> 0 - 1

Degenerate(trip) == trip.length = 0 \/ trip.time = 0

\* The error code of request_route, if it is not a success.
Succeeds(r) == r \in Trip /\ ~Degenerate(r)
ErrorCode(r) == IF r = Unreachable THEN 0 - 3
                ELSE IF r \in Trip THEN 443 ELSE ParsedCode(r)

LogsAnything(r) == ~Succeeds(r)

\* Negative codes are about the engine, not about the network.
IsLogged(r) == ~Succeeds(r) /\ ErrorCode(r) >= 0

AskValhalla(a) ==
    /\ at[a] = "ask"
    /\ \E r \in Responses :
          /\ response' = [response EXCEPT ![a] = r]
          /\ CASE Succeeds(r) -> Say(a, "ok")
               [] IsLogged(r) -> GoOn(a, "log") /\ UNCHANGED answer
               [] OTHER -> Say(a, "unlogged")
    /\ UNCHANGED <<vars, boot, database, tables, controller, tries>>

\* log_failed_route has returned, or raised.
AnswerLogged(a) ==
    /\ at[a] = "log"
    /\ \/ pc[a] = "done" /\ Say(a, "logged")
       \/ pc[a] = "failed" /\ Say(a, "error")
    /\ UNCHANGED <<vars, boot, database, tables, controller, tries, response>>

Log(a) == at[a] = "log" /\ LogStep(a) /\ UNCHANGED apiVars

RequestStep(a) == \/ InitialiseStep(a) \/ TooFewLocations(a) \/ AskValhalla(a)
                  \/ Log(a) \/ AnswerLogged(a)

RouteNext ==
    \/ Lifespan \/ DemandQuery
    \/ InitialiseStep(Startup)
    \/ \E i \in Initialisers : DatabaseDown(i)
    \/ \E a \in Attempts : Receive(a) \/ RequestStep(a)
    \/ \E m \in Maintainers : MaintenanceStep(m) /\ UNCHANGED apiVars
    \/ \E t \in Transactions : Abort(t) /\ UNCHANGED apiVars

\* Every step of a handler is a call that returns or times out.
RouteSpec == /\ RouteInit /\ [][RouteNext]_routeVars
             /\ \A a \in Attempts : WF_routeVars(RequestStep(a))

-----------------------------------------------------------------------------
(* Correctness.                                                            *)

\* A client is told of a logged attempt only when it is in the log (until a purge
\* takes it), and nothing else gets there: not a route that was found, not a request
\* that could not be read, and not an answer that says nothing about the network,
\* like a Valhalla that is down.
AnswersMatchLog ==
    /\ \A a \in Attempts :
          answer[a] = "logged" => a \in logged \/ \E m \in Maintainers : pc[m] # "new"
    /\ \A a \in logged : /\ response[a] # Unreachable
                         /\ answer[a] \notin {"ok", "unlogged", "invalid"}

\* Whoever finds a controller finds tables to log to. And although requests race
\* to initialise it, without a fault of the database none that can be read is answered
\* 500, except where neither the hook has run nor an earlier api left a database: then
\* the loser of the race for the tables, whose winner has made them.
StartupSafe ==
    /\ controller => tables
    /\ aborts = 0 => \A a \in Attempts :
          answer[a] = "error" => tables /\ ~boot.hook /\ ~boot.kept

\* Without maintenance every request that is received is answered: the transactions
\* lock their rows in the fixed order origin, destination and never wait in a circle,
\* initialisation ends, and one that fails lets the others go on.
EveryRequestAnswered ==
    [](\A m \in Maintainers : pc[m] = "new") =>
        \A a \in Attempts : at[a] \in {"find", "ask"} ~> at[a] = "answered"
=============================================================================

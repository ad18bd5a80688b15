------------------------------- MODULE MapClient -------------------------------
(***************************************************************************)
(* The map page (Map.tsx with its two side bars) and the way of its incline *)
(* limit through the api to the engine. A handler runs alone up to its next *)
(* await; what it awaits is a task, and tasks are answered in any order     *)
(* while the user goes on. The effect on the end points runs with the       *)
(* render that follows a handler, and is part of its step.                  *)
(***************************************************************************)
EXTENDS Naturals

CONSTANTS
    Places,     \* what geocoding and clicks yield
    Sliders,    \* positions of the incline slider, 1..30
    None,       \* null
    MaxActions  \* bound: actions of the user

ASSUME MapAssumption == /\ None \notin Places
                        /\ Sliders \subseteq 1..30 /\ 30 \in Sliders
                        /\ MaxActions \in Nat

VARIABLES
    start, end,       \* startPoint, endPoint
    avoid, slider,    \* settings on display, applied: avoidStaircases, maxIncline
    shown, steps,     \* routePolyline and steps: the route they are of
    searched, loading, error,
    tasks,            \* what is awaited
    acted,            \* actions so far
    overlapped        \* has the user acted while something was awaited, and not
                      \* begun anew since on a page that awaits nothing?

points == <<start, end>>
settings == <<avoid, slider>>
display == <<shown, steps, searched>>
history == <<acted, overlapped>>
vars == <<points, settings, display, loading, error, tasks, history>>

Init ==
    /\ start = None /\ end = None
    /\ avoid = FALSE /\ slider = 30
    /\ shown = None /\ steps = None /\ searched = FALSE
    /\ loading = FALSE /\ error = FALSE
    /\ tasks = {} /\ acted = 0 /\ overlapped = FALSE

\* The list of directions renders steps!.map when searched: without steps that
\* throws, no error boundary catches it, and React takes the page down.
PageIsUp == ~(searched /\ steps = None)

-----------------------------------------------------------------------------
(* The incline limit, from the slider to the engine.                         *)

\* handleApply: the ceiling means no limit.
InclineState(position) == IF position >= 30 THEN None ELSE position

\* callValhalla.
Sent(incline) == IF incline # None /\ incline > 0 THEN incline ELSE None

\* The handler of POST /valhalla/route drops what is no limit.
Kept(incline) ==
    IF incline = None \/ incline <= 0 \/ incline >= 30 THEN None ELSE incline

\* _build_route_payload hands costing_options on, and PedestrianCost limits the
\* slope when the field is there at all.
EngineLimit(incline) == Kept(Sent(incline))

-----------------------------------------------------------------------------
(* Requests of a route.                                                     *)

Fetch(n, by, from, to, avoids, incline) ==
    [n |-> n, kind |-> "fetch", by |-> by, from |-> from, to |-> to,
     avoids |-> avoids, incline |-> incline, pass |-> 1]

\* useEffect on [startPoint, endPoint], with the settings of that render.
Effect(n, from, to) == IF from # None /\ to # None
                       THEN {Fetch(n, "effect", from, to, avoid, InclineState(slider))}
                       ELSE {}

Await(t, others) == tasks' = (tasks \ {t}) \cup others

\* The engine's answer keeps the limit; whether it climbs stairs is the network's.
RouteOf(t, stairs) == [from |-> t.from, to |-> t.to,
                       limit |-> EngineLimit(t.incline), stairs |-> stairs]

ApplyRouteData(route) ==
    /\ shown' = route /\ steps' = route /\ searched' = TRUE
    /\ UNCHANGED error

FetchEnds(t) == loading' = FALSE /\ Await(t, {}) /\ UNCHANGED <<points, settings, history>>

\* "Routing error" clears the route and leaves the steps.
NoRoute(t) ==
    /\ t.pass = 1
    /\ error' = TRUE /\ shown' = None
    /\ FetchEnds(t)
    /\ UNCHANGED <<steps, searched>>

RouteFound(t) ==
    \E stairs \in BOOLEAN :
        /\ ~(t.avoids /\ stairs)
        /\ ApplyRouteData(RouteOf(t, stairs))
        /\ FetchEnds(t)

\* A route with stairs to be avoided is asked for again, without those stairs.
AskAgain(t) ==
    /\ t.pass = 1 /\ t.avoids
    /\ Await(t, {[t EXCEPT !.pass = 2]})
    /\ UNCHANGED <<points, settings, display, loading, error, history>>

\* No answer, or still stairs: "No staircase-free route found".
NoStairFreeRoute(t) ==
    /\ t.pass = 2
    /\ error' = TRUE /\ shown' = None /\ steps' = None
    /\ FetchEnds(t)
    /\ UNCHANGED searched

FetchThrows(t) ==
    /\ error' = TRUE
    /\ FetchEnds(t)
    /\ UNCHANGED display

FetchAnswered(t) == \/ NoRoute(t) \/ RouteFound(t) \/ AskAgain(t)
                    \/ NoStairFreeRoute(t) \/ FetchThrows(t)

-----------------------------------------------------------------------------
(* Handlers of the user's actions.                                          *)

\* Every action but a change of the settings without two end points empties the map or
\* asks for something: on a page that awaits nothing, the user begins anew.
Act(anew) == /\ acted < MaxActions /\ PageIsUp
             /\ acted' = acted + 1
             /\ overlapped' = (tasks # {} \/ (overlapped /\ ~anew))

HandleSearch ==
    /\ Act(TRUE)
    /\ loading' = TRUE /\ error' = FALSE
    /\ tasks' = tasks \cup {[n |-> acted, kind |-> "search", from |-> None, asks |-> "from",
                             avoids |-> avoid, incline |-> InclineState(slider)]}
    /\ UNCHANGED <<points, settings, display>>

GeocodedFrom(t) ==
    /\ t.asks = "from"
    /\ \E p \in Places \cup {None} : Await(t, {[t EXCEPT !.asks = "to", !.from = p]})
    /\ UNCHANGED <<points, settings, display, loading, error, history>>

\* Both found: set the end points, fetch with the settings of the search, and let
\* the effect fetch as well.
GeocodedTo(t) ==
    /\ t.asks = "to" /\ t.from # None
    /\ \E p \in Places :
          /\ start' = t.from /\ end' = p
          /\ Await(t, {Fetch(t.n, "search", t.from, p, t.avoids, t.incline)}
                      \cup Effect(t.n, t.from, p))
    /\ loading' = TRUE /\ error' = FALSE
    /\ UNCHANGED <<settings, display, history>>

StillLoading == UNCHANGED loading

\* finally: setIsLoading(false).
Finally == loading' = FALSE

\* No matching addresses, or an exception.
TaskFails(t) ==
    /\ error' = TRUE
    /\ Finally
    /\ Await(t, {})
    /\ UNCHANGED <<points, settings, display, history>>

\* A click keeps the end points of the render it happened in.
HandleLocationSelect(p) ==
    /\ Act(TRUE)
    /\ loading' = TRUE /\ error' = FALSE
    /\ tasks' = tasks \cup {[n |-> acted, kind |-> "click", place |-> p,
                             start |-> start, end |-> end]}
    /\ UNCHANGED <<points, settings, display>>

SetsStart(t) == t.start = None \/ t.end # None

\* The first and the third click set the start ...
StartSelected(t) ==
    /\ SetsStart(t)
    /\ start' = t.place /\ end' = None
    /\ shown' = None /\ steps' = None /\ searched' = FALSE
    /\ error' = IF t.start = None THEN error ELSE FALSE
    /\ loading' = FALSE
    /\ Await(t, {})
    /\ UNCHANGED <<settings, history>>

\* ... and the second one the end.
EndSelected(t) ==
    /\ ~SetsStart(t)
    /\ end' = t.place
    /\ loading' = (start # None)
    /\ error' = IF start # None THEN FALSE ELSE error
    /\ Await(t, Effect(t.n, start, t.place))
    /\ UNCHANGED <<start, settings, display, history>>

WithOldSettings(avoids, position) ==
    Fetch(acted, "apply", start, end, avoid, InclineState(slider))

\* fetchRoute with the new settings, which the state does not have yet.
WithNewSettings(avoids, position) ==
    Fetch(acted, "apply", start, end, avoids, InclineState(position))

HandleApplySettings(avoids, position) ==
    /\ Act(start # None /\ end # None)
    /\ avoid' = avoids /\ slider' = position
    /\ IF start # None /\ end # None
       THEN /\ tasks' = tasks \cup {WithNewSettings(avoids, position)}
            /\ loading' = TRUE /\ error' = FALSE
       ELSE UNCHANGED <<tasks, loading, error>>
    /\ UNCHANGED <<points, display>>

\* Nothing that is awaited is given up.
ClearRoute ==
    /\ Act(TRUE)
    /\ start # None \/ end # None
    /\ start' = None /\ end' = None
    /\ shown' = None /\ steps' = None /\ searched' = FALSE /\ error' = FALSE
    /\ UNCHANGED <<settings, loading, tasks>>

-----------------------------------------------------------------------------
UserActs ==
    \/ HandleSearch \/ ClearRoute
    \/ \E p \in Places : HandleLocationSelect(p)
    \/ \E a \in BOOLEAN, s \in Sliders : HandleApplySettings(a, s)

Answered(t) ==
    CASE t.kind = "search" -> GeocodedFrom(t) \/ GeocodedTo(t) \/ TaskFails(t)
      [] t.kind = "click" -> StartSelected(t) \/ EndSelected(t) \/ TaskFails(t)
      [] t.kind = "fetch" -> FetchAnswered(t)

TaskAnswered == PageIsUp /\ \E t \in tasks : Answered(t)

Next == UserActs \/ TaskAnswered

\* A request of the browser is answered or fails.
Spec == Init /\ [][Next]_vars /\ WF_vars(TaskAnswered)

-----------------------------------------------------------------------------
(* Correctness.                                                            *)

\* When all is answered and no error is told, the route on display is the one between
\* the end points on display, within the limit of the slider and without stairs that
\* were to be avoided - unless the user's last actions have overlapped with answers:
\* whatever such actions have left on display, a route between other points, with other
\* settings or one that has come back after it was cleared, is gone when the user waits
\* and then acts once more. Of a route there always are the directions, too.
RouteOnDisplay ==
    shown # None =>
        /\ steps = shown
        /\ tasks = {} /\ ~error /\ ~overlapped =>
              /\ shown.from = start /\ shown.to = end
              /\ shown.limit = IF slider = 30 THEN None ELSE slider
              /\ avoid => ~shown.stairs

\* "Finding route..." goes away, whatever fails.
LoadingEnds == loading ~> ~loading \/ ~PageIsUp

-----------------------------------------------------------------------------
(* What the source asserts and the page does not keep.                      *)

\* Left-Sidebar.tsx: `steps!' - once searched there are steps.
SearchedHasSteps == searched => steps # None
=============================================================================

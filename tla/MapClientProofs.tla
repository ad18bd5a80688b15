---------------------------- MODULE MapClientProofs ----------------------------
(***************************************************************************)
(* The route on display, for any places and any number of actions. While     *)
(* the user waits, and again from the first action on a page that awaits     *)
(* nothing, everything that is awaited comes from one action and asks with   *)
(* the end points and the settings that are on display (InStep); and with    *)
(* nothing left to await, the route on display is the one that was asked for *)
(* last (Settled).                                                          *)
(***************************************************************************)
EXTENDS MapClient, TLAPS

Point == Places \cup {None}
Incline == {InclineState(s) : s \in Sliders}
SearchTask == [n : Nat, kind : {"search"}, from : Point, asks : {"from", "to"},
               avoids : BOOLEAN, incline : Incline]
ClickTask == [n : Nat, kind : {"click"}, place : Places, start : Point, end : Point]
FetchTask == [n : Nat, kind : {"fetch"}, by : {"effect", "search", "apply"},
              from : Places, to : Places, avoids : BOOLEAN, incline : Incline, pass : {1, 2}]

Typed ==
    /\ start \in Point /\ end \in Point
    /\ avoid \in BOOLEAN /\ slider \in Sliders
    /\ error \in BOOLEAN /\ overlapped \in BOOLEAN /\ acted \in Nat
    /\ tasks \subseteq SearchTask \cup ClickTask \cup FetchTask

\* Does a task ask with the settings on display, and a fetch for the route between
\* the points on display?
WithSettings(t) == t.avoids = avoid /\ t.incline = InclineState(slider)
BetweenPoints(t) == t.from = start /\ t.to = end

InStep ==
    \A t \in tasks :
        /\ t.kind = "search" => tasks = {t} /\ WithSettings(t)
        /\ t.kind = "click" => tasks = {t} /\ t.start = start /\ t.end = end
        /\ t.kind = "fetch" => BetweenPoints(t) /\ WithSettings(t)

Shows(route) ==
    /\ route.from = start /\ route.to = end
    /\ route.limit = IF slider = 30 THEN None ELSE slider
    /\ avoid => ~route.stairs

Settled == tasks = {} /\ ~error /\ shown # None =>
               start # None /\ end # None /\ Shows(shown)

IInv == /\ Typed
        /\ shown # None => steps = shown
        /\ ~overlapped => InStep /\ Settled

-----------------------------------------------------------------------------
(* What the operators of MapClient return.                                  *)

\* The handler, callValhalla and the endpoint agree on the limit: the slider's ceiling
\* is none, any other position arrives as it is.
LEMMA LimitArrives ==
    ASSUME NEW s \in Sliders
    PROVE  EngineLimit(InclineState(s)) = IF s = 30 THEN None ELSE s
  <1>1. s \in 1..30
    BY MapAssumption
  <1> QED BY <1>1 DEF EngineLimit, InclineState, Sent, Kept

\* An effect fetches between the two points, with the settings on display.
LEMMA EffectFetches ==
    ASSUME Typed, NEW n \in Nat, NEW from \in Point, NEW to \in Point
    PROVE  \A t \in Effect(n, from, to) :
              /\ t \in FetchTask /\ t.kind = "fetch"
              /\ t.from = from /\ t.to = to /\ WithSettings(t)
  BY DEF Effect, Fetch, FetchTask, Typed, Point, Incline, WithSettings

\* The answer to a fetch that asks for what is on display shows it.
LEMMA AnswerShows ==
    ASSUME Typed, NEW t \in FetchTask, BetweenPoints(t), WithSettings(t),
           NEW stairs \in BOOLEAN, ~(t.avoids /\ stairs)
    PROVE  Shows(RouteOf(t, stairs)) /\ start # None /\ end # None
  BY LimitArrives, MapAssumption DEF Typed, FetchTask, BetweenPoints, WithSettings, Shows,
     RouteOf

-----------------------------------------------------------------------------
\* The empty map satisfies the inductive invariant.
LEMMA InitIInv == Init => IInv
  <1> SUFFICES ASSUME Init PROVE IInv
    OBVIOUS
  <1>1. Typed
    BY MapAssumption DEF Init, Typed, Point
  <1>2. InStep /\ Settled /\ shown = None
    BY DEF Init, InStep, Settled
  <1> QED BY <1>1, <1>2 DEF IInv

\* An action of the user: nothing is awaited, or the user has not waited.
LEMMA UserKeeps ==
    ASSUME IInv, UserActs
    PROVE  IInv'
  <1> USE DEF points, settings, display
  <1>0. /\ Typed /\ (shown # None => steps = shown)
        /\ acted' \in Nat /\ overlapped' \in BOOLEAN
        /\ ~overlapped' => tasks = {}
    <2>1. Act(TRUE) \/ Act(start # None /\ end # None)
      BY DEF UserActs, HandleSearch, ClearRoute, HandleLocationSelect, HandleApplySettings
    <2>2. Typed /\ (shown # None => steps = shown)
      BY DEF IInv
    <2>3. acted \in Nat /\ overlapped \in BOOLEAN
      BY <2>2 DEF Typed
    <2>4. /\ acted' = acted + 1
          /\ \E anew \in BOOLEAN : overlapped' = (tasks # {} \/ (overlapped /\ ~anew))
      <3>1. (start # None /\ end # None) \in BOOLEAN /\ TRUE \in BOOLEAN
        OBVIOUS
      <3> QED BY <2>1, <3>1, Zenon DEF Act
    <2>5. overlapped' \in BOOLEAN
      BY <2>4
    <2>6. acted' \in Nat
      BY <2>3, <2>4
    <2>7. ~overlapped' => tasks = {}
      BY <2>4, Zenon
    <2> QED BY <2>2, <2>5, <2>6, <2>7
  <1>1. CASE HandleSearch
    <2> DEFINE t == [n |-> acted, kind |-> "search", from |-> None, asks |-> "from",
                     avoids |-> avoid, incline |-> InclineState(slider)]
    <2>1. t \in SearchTask /\ t.kind = "search" /\ WithSettings(t)
      BY <1>0 DEF SearchTask, Typed, Point, Incline, WithSettings
    <2>2. /\ tasks' = tasks \cup {t} /\ error' = FALSE
          /\ UNCHANGED <<start, end, avoid, slider, shown, steps>>
      BY <1>1 DEF HandleSearch
    <2> HIDE DEF t
    <2>3. Typed'
      BY <1>0, <2>1, <2>2 DEF Typed
    <2>4. ~overlapped' => InStep' /\ Settled'
      BY <1>0, <2>1, <2>2 DEF InStep, Settled, WithSettings
    <2> QED BY <1>0, <2>2, <2>3, <2>4 DEF IInv
  <1>2. CASE ClearRoute
    <2>1. Typed'
      BY <1>0, <1>2 DEF ClearRoute, Typed, Point
    <2> QED BY <1>0, <1>2, <2>1 DEF ClearRoute, IInv, InStep, Settled
  <1>3. ASSUME NEW p \in Places, HandleLocationSelect(p) PROVE IInv'
    <2> DEFINE t == [n |-> acted, kind |-> "click", place |-> p, start |-> start, end |-> end]
    <2>1. t \in ClickTask /\ t.kind = "click" /\ t.start = start /\ t.end = end
      BY <1>0 DEF ClickTask, Typed
    <2>2. /\ tasks' = tasks \cup {t} /\ error' = FALSE
          /\ UNCHANGED <<start, end, avoid, slider, shown, steps>>
      BY <1>3 DEF HandleLocationSelect
    <2> HIDE DEF t
    <2>3. Typed'
      BY <1>0, <2>1, <2>2 DEF Typed
    <2>4. ~overlapped' => InStep' /\ Settled'
      BY <1>0, <2>1, <2>2 DEF InStep, Settled
    <2> QED BY <1>0, <2>2, <2>3, <2>4 DEF IInv
  <1>4. ASSUME NEW a \in BOOLEAN, NEW s \in Sliders, HandleApplySettings(a, s) PROVE IInv'
    <2>1. avoid' = a /\ slider' = s /\ UNCHANGED <<start, end, shown, steps>>
      BY <1>4 DEF HandleApplySettings
    <2>2. CASE start # None /\ end # None
      <3> DEFINE t == WithNewSettings(a, s)
      <3>1. /\ t \in FetchTask /\ t.kind = "fetch" /\ t.from = start /\ t.to = end
            /\ t.avoids = a /\ t.incline = InclineState(s)
        BY <1>0, <2>2 DEF WithNewSettings, Fetch, FetchTask, Typed, Point, Incline
      <3>2. tasks' = tasks \cup {t} /\ error' = FALSE
        BY <1>4, <2>2 DEF HandleApplySettings
      <3> HIDE DEF t
      <3>3. Typed'
        BY <1>0, <2>1, <3>1, <3>2 DEF Typed
      <3>4. InclineState(slider)' = InclineState(s)
        BY <2>1
      <3>5. ~overlapped' => InStep' /\ Settled'
        BY <1>0, <2>1, <3>1, <3>2, <3>4 DEF InStep, Settled, WithSettings, BetweenPoints
      <3> QED BY <1>0, <2>1, <3>3, <3>5 DEF IInv
    <2>3. CASE ~(start # None /\ end # None)
      <3>1. UNCHANGED <<tasks, error>>
        BY <1>4, <2>3 DEF HandleApplySettings
      <3>2. Typed'
        BY <1>0, <2>1, <3>1 DEF Typed
      <3>3. ~overlapped' => ~overlapped /\ Settled
        BY <1>4, <2>3, Zenon DEF HandleApplySettings, Act, IInv
      <3> QED BY <1>0, <2>1, <2>3, <3>1, <3>2, <3>3 DEF IInv, InStep, Settled
    <2> QED BY <2>2, <2>3
  <1> QED BY <1>1, <1>2, <1>3, <1>4 DEF UserActs

-----------------------------------------------------------------------------
\* A fetch that is answered.
LEMMA FetchKeeps ==
    ASSUME IInv, NEW t \in tasks, t.kind = "fetch", FetchAnswered(t)
    PROVE  IInv'
  <1> USE DEF points, settings, display, history, FetchEnds, Await
  <1>0. Typed /\ (shown # None => steps = shown) /\ (~overlapped => InStep /\ Settled)
    BY DEF IInv
  <1>1. t \in FetchTask
    BY <1>0 DEF Typed, SearchTask, ClickTask
  <1>2. CASE NoRoute(t) \/ NoStairFreeRoute(t) \/ FetchThrows(t)
    <2>1. /\ error' = TRUE /\ tasks' = tasks \ {t}
          /\ UNCHANGED <<start, end, avoid, slider, acted, overlapped>>
          /\ shown' # None => shown' = shown /\ steps' = steps
      BY <1>2 DEF NoRoute, NoStairFreeRoute, FetchThrows
    <2>2. Typed'
      BY <1>0, <2>1 DEF Typed
    <2>3. ~overlapped' => InStep' /\ Settled'
      BY <1>0, <2>1 DEF InStep, Settled, WithSettings, BetweenPoints
    <2> QED BY <1>0, <2>1, <2>2, <2>3 DEF IInv
  <1>3. CASE RouteFound(t)
    <2> PICK stairs \in BOOLEAN :
          ~(t.avoids /\ stairs) /\ ApplyRouteData(RouteOf(t, stairs)) /\ FetchEnds(t)
      BY <1>3 DEF RouteFound
    <2>1. /\ shown' = RouteOf(t, stairs) /\ steps' = shown' /\ tasks' = tasks \ {t}
          /\ UNCHANGED <<start, end, avoid, slider, error, acted, overlapped>>
      BY DEF ApplyRouteData
    <2>2. Typed'
      BY <1>0, <2>1 DEF Typed
    <2>3. ~overlapped => Shows(RouteOf(t, stairs)) /\ start # None /\ end # None
      BY <1>0, <1>1, AnswerShows DEF InStep
    <2>4. ~overlapped' => InStep' /\ Settled'
      BY <1>0, <2>1, <2>3 DEF InStep, Settled, Shows, WithSettings, BetweenPoints
    <2> QED BY <2>1, <2>2, <2>4 DEF IInv
  <1>4. CASE AskAgain(t)
    <2> DEFINE u == [t EXCEPT !.pass = 2]
    <2>1. u \in FetchTask /\ u.kind = "fetch" /\ u.from = t.from /\ u.to = t.to
          /\ u.avoids = t.avoids /\ u.incline = t.incline
      BY <1>1 DEF FetchTask
    <2>2. /\ tasks' = (tasks \ {t}) \cup {u}
          /\ UNCHANGED <<start, end, avoid, slider, shown, steps, error, acted, overlapped>>
      BY <1>4 DEF AskAgain
    <2> HIDE DEF u
    <2>3. Typed'
      BY <1>0, <2>1, <2>2 DEF Typed
    <2>4. ~overlapped' => InStep' /\ Settled'
      <3>1. ASSUME ~overlapped, NEW v \in tasks \ {t}
            PROVE  v.kind \notin {"search", "click"}
        BY <1>0, <3>1 DEF InStep
      <3> QED BY <1>0, <2>1, <2>2, <3>1 DEF InStep, Settled, WithSettings, BetweenPoints
    <2> QED BY <1>0, <2>2, <2>3, <2>4 DEF IInv
  <1> QED BY <1>2, <1>3, <1>4 DEF FetchAnswered

\* A search, step by step.
LEMMA SearchKeeps ==
    ASSUME IInv, NEW t \in tasks, t.kind = "search",
           GeocodedFrom(t) \/ GeocodedTo(t) \/ TaskFails(t)
    PROVE  IInv'
  <1> USE DEF points, settings, display, history, Await
  <1>0. /\ Typed /\ (shown # None => steps = shown)
        /\ ~overlapped => tasks = {t} /\ WithSettings(t)
    BY DEF IInv, InStep
  <1>1. t \in SearchTask
    BY <1>0 DEF Typed, FetchTask, ClickTask
  <1>2. CASE GeocodedFrom(t)
    <2> PICK p \in Point : tasks' = (tasks \ {t}) \cup {[t EXCEPT !.asks = "to", !.from = p]}
      BY <1>2 DEF GeocodedFrom, Point
    <2> DEFINE u == [t EXCEPT !.asks = "to", !.from = p]
    <2>1. /\ u \in SearchTask /\ u.kind = "search"
          /\ u.avoids = t.avoids /\ u.incline = t.incline
      BY <1>1 DEF SearchTask
    <2>2. UNCHANGED <<start, end, avoid, slider, shown, steps, error, acted, overlapped>>
      BY <1>2 DEF GeocodedFrom
    <2>3. tasks' = (tasks \ {t}) \cup {u}
      OBVIOUS
    <2> HIDE DEF u
    <2>4. Typed'
      BY <1>0, <2>1, <2>2, <2>3 DEF Typed
    <2>5. ~overlapped' => InStep' /\ Settled'
      BY <1>0, <2>1, <2>2, <2>3 DEF InStep, Settled, WithSettings
    <2> QED BY <1>0, <2>2, <2>4, <2>5 DEF IInv
  <1>3. CASE GeocodedTo(t)
    <2> PICK p \in Places :
          /\ start' = t.from /\ end' = p
          /\ tasks' = (tasks \ {t}) \cup {Fetch(t.n, "search", t.from, p, t.avoids, t.incline)}
                                    \cup Effect(t.n, t.from, p)
      BY <1>3 DEF GeocodedTo
    <2> DEFINE u == Fetch(t.n, "search", t.from, p, t.avoids, t.incline)
    <2>1. /\ t.from \in Places /\ p \in Point /\ t.from # None /\ t.n \in Nat
          /\ error' = FALSE /\ UNCHANGED <<avoid, slider, shown, steps, acted, overlapped>>
      BY <1>1, <1>3 DEF GeocodedTo, SearchTask, Point
    <2>2. /\ u \in FetchTask /\ u.kind = "fetch" /\ u.from = t.from /\ u.to = p
          /\ u.avoids = t.avoids /\ u.incline = t.incline
      BY <1>1, <2>1 DEF Fetch, FetchTask, SearchTask
    <2>3. \A v \in Effect(t.n, t.from, p) :
             /\ v \in FetchTask /\ v.kind = "fetch"
             /\ v.from = t.from /\ v.to = p /\ WithSettings(v)
      BY <1>0, <2>1, EffectFetches DEF Point
    <2>4. \A v \in tasks' : v = u \/ v \in Effect(t.n, t.from, p) \/ v \in tasks \ {t}
      OBVIOUS
    <2>5. tasks' # {}
      OBVIOUS
    <2> HIDE DEF u
    <2>6. Typed'
      BY <1>0, <2>1, <2>2, <2>3, <2>4 DEF Typed, Point
    <2>7. ~overlapped' => InStep'
      <3> SUFFICES ASSUME ~overlapped, NEW v \in tasks'
                   PROVE  v.kind = "fetch" /\ (BetweenPoints(v) /\ WithSettings(v))'
        BY <2>1 DEF InStep
      <3>1. v = u \/ v \in Effect(t.n, t.from, p)
        BY <1>0, <2>4
      <3>2. WithSettings(v) /\ v.from = t.from /\ v.to = p /\ v.kind = "fetch"
        BY <1>0, <2>2, <2>3, <3>1 DEF WithSettings
      <3> QED BY <2>1, <3>2 DEF WithSettings, BetweenPoints
    <2> QED BY <1>0, <2>1, <2>5, <2>6, <2>7 DEF IInv, Settled
  <1>4. CASE TaskFails(t)
    <2>1. /\ error' = TRUE /\ tasks' = tasks \ {t}
          /\ UNCHANGED <<start, end, avoid, slider, shown, steps, acted, overlapped>>
      BY <1>4 DEF TaskFails
    <2>2. Typed'
      BY <1>0, <2>1 DEF Typed
    <2> QED BY <1>0, <2>1, <2>2 DEF IInv, InStep, Settled
  <1> QED BY <1>2, <1>3, <1>4

\* A click that has been geocoded.
LEMMA ClickKeeps ==
    ASSUME IInv, NEW t \in tasks, t.kind = "click",
           StartSelected(t) \/ EndSelected(t) \/ TaskFails(t)
    PROVE  IInv'
  <1> USE DEF points, settings, display, history, Await
  <1>0. /\ Typed /\ (shown # None => steps = shown)
        /\ ~overlapped => tasks = {t} /\ t.start = start /\ t.end = end
    BY DEF IInv, InStep
  <1>1. t \in ClickTask
    BY <1>0 DEF Typed, FetchTask, SearchTask
  <1>2. t.place \in Places /\ t.place \in Point /\ t.n \in Nat
    BY <1>1 DEF ClickTask, Point
  <1>3. CASE StartSelected(t)
    <2>1. /\ start' = t.place /\ end' = None /\ shown' = None /\ error' \in BOOLEAN
          /\ tasks' = tasks \ {t} /\ UNCHANGED <<avoid, slider, acted, overlapped>>
      BY <1>0, <1>3 DEF StartSelected, Typed
    <2>2. Typed'
      BY <1>0, <1>2, <2>1 DEF Typed, Point
    <2> QED BY <1>0, <2>1, <2>2 DEF IInv, InStep, Settled
  <1>4. CASE EndSelected(t)
    <2>1. /\ end' = t.place /\ error' \in BOOLEAN
          /\ tasks' = (tasks \ {t}) \cup Effect(t.n, start, t.place)
          /\ UNCHANGED <<start, avoid, slider, shown, steps, acted, overlapped>>
      BY <1>0, <1>4 DEF EndSelected, Typed
    <2>2. \A v \in Effect(t.n, start, t.place) :
             /\ v \in FetchTask /\ v.kind = "fetch"
             /\ v.from = start /\ v.to = t.place /\ WithSettings(v)
      BY <1>0, <1>2, EffectFetches DEF Typed
    <2>3. ~overlapped => tasks' = Effect(t.n, start, t.place) /\ tasks' # {}
      <3>1. ~overlapped => start # None
        BY <1>0, <1>4 DEF EndSelected, SetsStart
      <3> QED BY <1>0, <1>2, <2>1, <3>1, MapAssumption DEF Effect
    <2>4. Typed'
      BY <1>0, <1>2, <2>1, <2>2 DEF Typed
    <2>5. ~overlapped' => InStep'
      BY <2>1, <2>2, <2>3 DEF InStep, WithSettings, BetweenPoints
    <2> QED BY <1>0, <2>1, <2>3, <2>4, <2>5 DEF IInv, Settled
  <1>5. CASE TaskFails(t)
    <2>1. /\ error' = TRUE /\ tasks' = tasks \ {t}
          /\ UNCHANGED <<start, end, avoid, slider, shown, steps, acted, overlapped>>
      BY <1>5 DEF TaskFails
    <2>2. Typed'
      BY <1>0, <2>1 DEF Typed
    <2> QED BY <1>0, <2>1, <2>2 DEF IInv, InStep, Settled
  <1> QED BY <1>3, <1>4, <1>5

\* Every step keeps the inductive invariant.
LEMMA NextIInv == IInv /\ [Next]_vars => IInv'
  <1> SUFFICES ASSUME IInv, [Next]_vars PROVE IInv'
    OBVIOUS
  <1>1. CASE UserActs
    BY <1>1, UserKeeps
  <1>2. CASE TaskAnswered
    <2> PICK t \in tasks : Answered(t)
      BY <1>2 DEF TaskAnswered
    <2>1. t.kind \in {"search", "click", "fetch"}
      BY DEF IInv, Typed, SearchTask, ClickTask, FetchTask
    <2> QED BY <2>1, SearchKeeps, ClickKeeps, FetchKeeps DEF Answered
  <1>3. CASE UNCHANGED vars
    BY <1>3 DEF vars, points, settings, display, history, IInv, Typed, InStep, Settled, Shows,
       WithSettings, BetweenPoints
  <1> QED BY <1>1, <1>2, <1>3 DEF Next

-----------------------------------------------------------------------------
\* Map.tsx: with everything answered and no error, the route on display is the one
\* between the points on display with the settings on display, unless the user's last
\* actions have overlapped with answers - and always it is the one of the directions.
THEOREM DisplayIsTrue == Spec => []RouteOnDisplay
  <1>1. IInv => RouteOnDisplay
    BY DEF IInv, Settled, Shows, RouteOnDisplay
  <1> QED BY <1>1, InitIInv, NextIInv, PTL DEF Spec

-----------------------------------------------------------------------------
\* While a route is said to be looked for, something is awaited.
LoadingIsAwaited == loading \in BOOLEAN /\ (loading => tasks # {})

\* Map.tsx: "Finding route..." is never on display with nothing left to await, however
\* actions and answers overlap, whatever fails; the part of LoadingEnds that is about
\* safety.
THEOREM LoadingHasReason == Spec => []LoadingIsAwaited
  <1>1. Init => LoadingIsAwaited
    BY DEF Init, LoadingIsAwaited
  <1>2. IInv /\ LoadingIsAwaited /\ [Next]_vars => LoadingIsAwaited'
    <2> SUFFICES ASSUME IInv, LoadingIsAwaited, [Next]_vars PROVE LoadingIsAwaited'
      OBVIOUS
    <2> USE DEF LoadingIsAwaited
    <2>1. CASE UNCHANGED vars
      BY <2>1 DEF vars
    <2>2. CASE UserActs
      BY <2>2 DEF UserActs, HandleSearch, ClearRoute, HandleLocationSelect, HandleApplySettings
    <2>3. ASSUME NEW t \in tasks, Answered(t) PROVE LoadingIsAwaited'
      <3>0. /\ t.kind \in {"search", "click", "fetch"}
            /\ t.kind = "click" => t.place # None
        BY MapAssumption DEF IInv, Typed, SearchTask, ClickTask, FetchTask
      <3>1. CASE FetchAnswered(t)
        BY <3>1 DEF FetchAnswered, NoRoute, RouteFound, AskAgain, NoStairFreeRoute,
           FetchThrows, FetchEnds, Await
      <3>2. CASE GeocodedFrom(t)
        BY <3>2 DEF GeocodedFrom, Await
      <3>3. CASE GeocodedTo(t)
        BY <3>3 DEF GeocodedTo, Await
      <3>4. CASE TaskFails(t) \/ StartSelected(t)
        BY <3>4 DEF TaskFails, Finally, StartSelected
      <3>5. CASE t.kind = "click" /\ EndSelected(t)
        <4>1. start # None => Effect(t.n, start, t.place) # {}
          BY <3>0, <3>5 DEF Effect
        <4> QED BY <3>5, <4>1 DEF EndSelected, Await
      <3> QED BY <2>3, <3>0, <3>1, <3>2, <3>3, <3>4, <3>5 DEF Answered
    <2> QED BY <2>1, <2>2, <2>3 DEF Next, TaskAnswered
  <1> QED BY <1>1, <1>2, InitIInv, NextIInv, PTL DEF Spec
=============================================================================

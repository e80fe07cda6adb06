-------------------------------- MODULE TwinGo --------------------------------
(***************************************************************************)
(* twin_go: drives the vehicle of the twin along a route of the routes     *)
(* file, through the AD API: clear the route, set this one, engage, and    *)
(* wait until the route reads ARRIVED.                                     *)
(*                                                                         *)
(* The planner answers a request before it acts on it, and publishes its   *)
(* route state on a latched topic of depth one: twin_go sees the latest    *)
(* value, late, and does not see every value.  An operator may set a route *)
(* of his own at the screen, before twin_go has set one and after it has   *)
(* ended; no such route is driven to its end while twin_go prepares.       *)
(***************************************************************************)
EXTENDS Naturals

VARIABLES
    go,         \* where twin_go is, or how it has ended
    seen,       \* seen["route"]
    route,      \* the planner's route state
    goal,       \* whose goal the route has
    clearing,   \* a clear that the planner has not acted on
    sets,       \* the operator's routes so far, for the bound
    arrived     \* whose goal the vehicle stands at

twin == <<go, seen, route, goal, clearing, sets, arrived>>

RouteStates == {"UNSET", "SET", "ARRIVED"}
Ended == {"arrived", "goal set", "gave up"}
MaxSets == 2

\* The twin has driven before, or not; its last route may stand.
TwinInit ==
    /\ go = "localizing" /\ seen = "nothing"
    /\ route \in RouteStates
    /\ goal = (IF route = "UNSET" THEN "nobody" ELSE "earlier")
    /\ arrived = (IF route = "ARRIVED" THEN "earlier" ELSE "nobody")
    /\ clearing = FALSE /\ sets = 0

Goes(from, to) ==
    /\ go = from /\ go' = to
    /\ UNCHANGED <<seen, sets, arrived>>

WaitLocalized == Goes("localizing", "clearing") /\ UNCHANGED <<route, goal, clearing>>

CallClear ==
    /\ Goes("clearing", "clear wait")
    /\ clearing' = (route # "UNSET")
    /\ UNCHANGED <<route, goal>>

\* Variant for the mutation runs: the route is set as soon as the clear was answered.
MaySetAtOnce(view) == TRUE

MaySet(view) == view = "UNSET"

WaitCleared ==
    /\ MaySet(seen)
    /\ Goes("clear wait", "setting") /\ UNCHANGED <<route, goal, clearing>>

\* The planner refuses a route while it has one.
CallSet ==
    IF route = "UNSET"
    THEN Goes("setting", "engaging") /\ route' = "SET" /\ goal' = "own" /\ UNCHANGED clearing
    ELSE Goes("setting", "gave up") /\ UNCHANGED <<route, goal, clearing>>

NoEngage == Goes("engaging", "goal set") /\ UNCHANGED <<route, goal, clearing>>

Engage == Goes("engaging", "driving") /\ UNCHANGED <<route, goal, clearing>>

SeesArrival ==
    /\ seen = "ARRIVED"
    /\ Goes("driving", "arrived") /\ UNCHANGED <<route, goal, clearing>>

\* Every wait and every call has its limit.
GiveUp ==
    /\ go \notin Ended
    /\ Goes(go, "gave up") /\ UNCHANGED <<route, goal, clearing>>

-----------------------------------------------------------------------------
(* The rest of the stack.                                                  *)

See ==
    /\ go \notin Ended
    /\ seen' = route
    /\ UNCHANGED <<go, route, goal, clearing, sets, arrived>>

TakesClear ==
    /\ clearing
    /\ clearing' = FALSE /\ route' = "UNSET" /\ goal' = "nobody"
    /\ UNCHANGED <<go, seen, sets, arrived>>

\* The earlier drive comes to its end, or twin_go's does.
Arrives ==
    /\ route = "SET" /\ goal # "operator" /\ (goal = "own" => go # "engaging")
    /\ route' = "ARRIVED" /\ arrived' = goal
    /\ UNCHANGED <<go, seen, goal, clearing, sets>>

OperatorSets ==
    /\ route = "UNSET" /\ sets < MaxSets /\ go \notin {"engaging", "driving"}
    /\ route' = "SET" /\ goal' = "operator" /\ sets' = sets + 1
    /\ UNCHANGED <<go, seen, clearing, arrived>>

TwinNext ==
    \/ WaitLocalized \/ CallClear \/ WaitCleared \/ CallSet \/ NoEngage \/ Engage
    \/ SeesArrival \/ GiveUp
    \/ See \/ TakesClear \/ Arrives \/ OperatorSets

TwinSpec == TwinInit /\ [][TwinNext]_twin

\* An arrival that is reported is one at the goal that twin_go was asked for,
\* whatever route stood before, however late the planner clears it and however
\* late its state is seen.
ArrivesAtOwnGoal == go = "arrived" => arrived = "own"
=============================================================================

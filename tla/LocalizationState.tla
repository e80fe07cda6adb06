-------------------------- MODULE LocalizationState --------------------------
(***************************************************************************)
(* The localization state machine of the ArUco localizer                    *)
(* (golfcart_aruco_localizer/src/health.cpp): how long the vehicle may run  *)
(* without a fix it can trust, and when it must ask for a minimal-risk      *)
(* manoeuvre (MRM).  The node calls update() once per solve window.         *)
(*                                                                         *)
(* Clock readings enter only as differences: a window is given the step d   *)
(* between its reading of the ROS clock and the reading of the window       *)
(* before it.  d is negative when the clock jumped back.                    *)
(***************************************************************************)
EXTENDS Integers

CONSTANTS
  MinBoardsNominal,     \* min_boards_nominal
  MinSpread,            \* min_normal_spread_deg
  Grace,                \* grace_s
  DegradedBudget,       \* degraded_budget_s
  DeadReckoningBudget,  \* dead_reckoning_budget_s
  ClockSteps,           \* differences between two readings of the clock
  BoardCounts,          \* numbers of sightings a solve may use
  Spreads               \* normal spreads a solve may report

ASSUME ThresholdsAssumption ==
  /\ MinBoardsNominal \in Nat
  /\ MinSpread \in Nat

ASSUME BudgetsAssumption ==
  /\ Grace \in Nat
  /\ DegradedBudget \in Nat
  /\ DeadReckoningBudget \in Nat

ASSUME InputsAssumption ==
  /\ ClockSteps \subseteq Int
  /\ BoardCounts \subseteq Nat
  /\ Spreads \subseteq Nat

VARIABLES
  state,        \* state_
  since_good,   \* since_good_s_
  have_time,    \* have_time_
  report,       \* what the last update() returned
  age           \* history: clock time since the window the budget counts from

vars == <<state, since_good, have_time, report, age>>

States == {"Uninitialized", "Nominal", "Degraded", "DeadReckoning", "Fault"}

Reasons == {"none", "latched", "integrity", "nominal", "waiting", "held",
            "one_board", "too_alike", "no_boards", "expired"}

\* WindowOutcome{}: what the node passes for every window without a fix.
NoFix == [solved |-> FALSE, boards_used |-> 0, spread |-> 0,
          integrity_failed |-> FALSE]

Fixes == [solved : {TRUE}, boards_used : BoardCounts, spread : Spreads,
          integrity_failed : BOOLEAN]

Outcomes == Fixes \cup {NoFix}

\* Variant for the mutation runs: a backward clock jump is charged as it is.
Unclamped(d) == d

Max0(d) == IF d > 0 THEN d ELSE 0

\* A fix from enough boards whose normals differ enough to constrain heading.
IsNominal(o) ==
  /\ o.solved
  /\ o.boards_used >= MinBoardsNominal
  /\ o.spread >= MinSpread

\* Variant: last_time_s_ is stored before the difference is taken.
ChargedAfterStore(d) == 0

\* The time update() charges to a window.
Charged(d) == IF have_time THEN Max0(d) ELSE 0

Report(s, elapsed, budget, mrm, why) ==
  report' = [state |-> s, elapsed |-> elapsed, budget |-> budget,
             request_mrm |-> mrm, reason |-> why]

\* The age of the fix after a step of the clock.  It is kept from falling
\* below -1, which only ever makes a fix look older than it is.
Older(d) == IF age + d < -1 THEN -1 ELSE age + d

-------------------------------------------------------------------------------
(* The branches of update(), in the order the code takes them. *)

\* Variant: the stop is requested in the window that latches the fault only.
StayLatchedQuietly ==
  /\ state = "Fault"
  /\ Report("Fault", 0, 0, FALSE, "latched")
  /\ UNCHANGED <<state, since_good, age>>

StayLatched ==
  /\ state = "Fault"
  /\ Report("Fault", 0, 0, TRUE, "latched")
  /\ UNCHANGED <<state, since_good, age>>

FailIntegrity(o) ==
  /\ state # "Fault"
  /\ o.integrity_failed
  /\ state' = "Fault"
  /\ Report("Fault", 0, 0, TRUE, "integrity")
  /\ UNCHANGED <<since_good, age>>

\* Variant: a good fix clears a fault.
RecoverFromFault(o) ==
  /\ ~o.integrity_failed
  /\ IsNominal(o)
  /\ state' = "Nominal"
  /\ since_good' = 0
  /\ Report("Nominal", 0, 0, FALSE, "nominal")
  /\ age' = 0

Recover(o) ==
  /\ state # "Fault"
  /\ ~o.integrity_failed
  /\ IsNominal(o)
  /\ state' = "Nominal"
  /\ since_good' = 0
  /\ Report("Nominal", 0, 0, FALSE, "nominal")
  /\ age' = 0

AwaitFirstFix(o) ==
  /\ state = "Uninitialized"
  /\ ~o.integrity_failed
  /\ ~o.solved
  /\ Report("Uninitialized", 0, 0, FALSE, "waiting")
  /\ UNCHANGED <<state, since_good, age>>

\* What is left once the earlier branches have returned.
NotTrusted(o) ==
  /\ state # "Fault"
  /\ ~o.integrity_failed
  /\ ~IsNominal(o)
  /\ state = "Uninitialized" => o.solved

\* Variant: the grace is granted to every gap between two windows.
GraceForEachGap(d, o) == ~o.solved /\ Charged(d) <= Grace

WithinGrace(d, o) == ~o.solved /\ since_good + Charged(d) <= Grace

HoldState(d, o) ==
  /\ NotTrusted(o)
  /\ WithinGrace(d, o)
  /\ since_good' = since_good + Charged(d)
  /\ Report(state, since_good', 0, FALSE, "held")
  /\ age' = Older(d)
  /\ UNCHANGED state

BudgetOf(o) == IF o.solved THEN DegradedBudget ELSE DeadReckoningBudget

\* Variant: the budget is compared before this window's time is added.
ExpiredAlready(d, o) == since_good > BudgetOf(o)

Expired(d, o) == since_good + Charged(d) > BudgetOf(o)

Shortfall(o) ==
  IF ~o.solved THEN "no_boards"
  ELSE IF o.boards_used < MinBoardsNominal THEN "one_board"
  ELSE "too_alike"

RunOn(d, o) ==
  /\ NotTrusted(o)
  /\ ~WithinGrace(d, o)
  /\ since_good' = since_good + Charged(d)
  /\ state' = IF Expired(d, o) THEN "Fault"
              ELSE IF o.solved THEN "Degraded" ELSE "DeadReckoning"
  /\ Report(state', since_good', BudgetOf(o), Expired(d, o),
            IF Expired(d, o) THEN "expired" ELSE Shortfall(o))
  /\ age' = IF state = "Uninitialized" THEN 0 ELSE Older(d)

\* LocalizationStateMachine::update
Update(d, o) ==
  /\ \/ StayLatched
     \/ FailIntegrity(o)
     \/ Recover(o)
     \/ AwaitFirstFix(o)
     \/ HoldState(d, o)
     \/ RunOn(d, o)
  /\ have_time' = TRUE

\* LocalizationStateMachine::reset.  The next window is charged no time.
Reset ==
  /\ state' = "Uninitialized"
  /\ since_good' = 0
  /\ have_time' = FALSE
  /\ age' = 0
  /\ UNCHANGED report

-------------------------------------------------------------------------------
Init ==
  /\ state = "Uninitialized"
  /\ since_good = 0
  /\ have_time = FALSE
  /\ report = [state |-> "Uninitialized", elapsed |-> 0, budget |-> 0,
               request_mrm |-> FALSE, reason |-> "none"]
  /\ age = 0

Window == \E d \in ClockSteps, o \in Outcomes : Update(d, o)

Next == Window \/ Reset

Spec == Init /\ [][Next]_vars

\* The window timer is a wall timer and the clock it reads does not stand
\* still for ever: windows whose reading is later than the last keep coming.
\* Nothing is assumed about what the cameras see.
LaterWindow == \E d \in {s \in ClockSteps : s > 0}, o \in Outcomes : Update(d, o)

FairSpec == Spec /\ WF_vars(LaterWindow)

-------------------------------------------------------------------------------
(* Type invariant *)

ReportType == [state : States, elapsed : Nat, budget : Nat,
               request_mrm : BOOLEAN, reason : Reasons]

\* Every variable has its type.
TypeOK ==
  /\ state \in States
  /\ since_good \in Nat
  /\ have_time \in BOOLEAN
  /\ report \in ReportType
  /\ age \in Int

(* Safety *)

MaxOf(a, b) == IF a > b THEN a ELSE b

\* How old the last trusted fix may be in each state.  In Nominal only the
\* grace period for empty windows can have passed; in the other two states the
\* budget of the state, or the grace where that is the longer.
Patience(s) ==
  CASE s = "Nominal"       -> Grace
    [] s = "Degraded"      -> MaxOf(Grace, DegradedBudget)
    [] s = "DeadReckoning" -> MaxOf(Grace, DeadReckoningBudget)
    [] OTHER               -> 0

\* The vehicle is never reported as localized, degraded or dead reckoning on a
\* fix older than that state allows: whatever sequence of fixes, empty windows
\* and clock jumps led here, the clock time since the last trusted fix (or, if
\* there was none, the first fix) is within the budget.  health.cpp:161-222.
TrustBounded ==
  state \in {"Nominal", "Degraded", "DeadReckoning"} => age <= Patience(state)

\* A latched fault keeps requesting the stop, and no state in which the
\* vehicle may go on driving requests one.  health.cpp:138-143, 216-221.
StopIsRequested ==
  /\ state = "Fault" => report.request_mrm /\ report.state = "Fault"
  /\ state \in {"Nominal", "Degraded", "DeadReckoning"} => ~report.request_mrm

(* Action properties *)

\* Fault is left only by the operator's reset, and every window until then asks
\* for the stop again, whatever the boards say.  health.hpp:185-188,
\* health.cpp:138-143.
FaultIsSticky ==
  [][state = "Fault" => Reset \/ (state' = "Fault" /\ report'.request_mrm)]_vars

(* Liveness *)

\* Running without a trusted fix ends: alternating between one-board fixes and
\* empty windows cannot keep the vehicle going for ever, it either localizes
\* again, is stopped, or is reset.
UntrustedEnds ==
  state \in {"Degraded", "DeadReckoning"}
    ~> state \in {"Nominal", "Fault", "Uninitialized"}

-------------------------------------------------------------------------------
(* The promise *)

\* Modes of the promise, from the state of the machine.
ModeOf(s) ==
  CASE s = "Uninitialized" -> "waiting"
    [] s = "Nominal"       -> "localized"
    [] s = "Fault"         -> "stopped"
    [] OTHER               -> "drifting"

Promise == INSTANCE LocalizationPromise WITH
  mode      <- ModeOf(state),
  fixAge    <- age,
  FreshFor  <- Grace,
  UsableFor <- MaxOf(Grace, MaxOf(DegradedBudget, DeadReckoningBudget))

\* The state machine keeps the promise: a pose is driven on only while its fix
\* is young enough, and a stop is withdrawn only by an acknowledgement.
KeepsPromise == Promise!PromiseSpec

-------------------------------------------------------------------------------
(* What the documentation says of the grace period *)

FixReasons == {"nominal", "one_board", "too_alike"}

\* health.hpp:148-153: a window with no detections within the grace period of a
\* window that had a fix is the timer ticking between two frames, and "the
\* previous state is held rather than transitioning".
GraceHoldsState ==
  [][\A d \in ClockSteps :
       /\ report.reason \in FixReasons
       /\ d <= Grace
       /\ Update(d, NoFix)
       => state' = state]_vars
===============================================================================

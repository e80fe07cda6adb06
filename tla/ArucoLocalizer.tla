---------------------------- MODULE ArucoLocalizer ----------------------------
(***************************************************************************)
(* The solve window of the ArUco localizer node                             *)
(* (golfcart_aruco_localizer/src/aruco_localizer_node.cpp): the detections  *)
(* collected since the last tick are solved together, the boards are        *)
(* checked against each other, the state machine is updated, and the status *)
(* and diagnostics are reported.  IntegrityMonitor and LocalizationState    *)
(* are composed here with the node's own state.                             *)
(*                                                                         *)
(* The node runs on one executor thread, so that a window is one step: the  *)
(* detections it swaps out of pending_ are the step's input.  What the flip *)
(* consensus made of them is the input too; FlipConsensus says what that    *)
(* may be: with two sightings or more at least two are members, the others  *)
(* are outliers, and a lone sighting is a member.                           *)
(***************************************************************************)
EXTENDS IntegrityMonitor

CONSTANTS
  Angled,              \* pairs of boards whose normals differ by MinSpread
  MaxWindow,           \* bound: sightings in one window
  MinBoardsNominal, MinSpread, Grace, DegradedBudget, DeadReckoningBudget,
  ClockSteps

ASSUME LocalizerAssumption ==
  /\ MaxWindow \in Nat
  /\ {MinBoardsNominal, MinSpread, Grace, DegradedBudget, DeadReckoningBudget} \subseteq Nat
  /\ ClockSteps \subseteq Int

VARIABLES
  state, since_good, have_time, report, age,   \* state_machine_
  shown                                        \* last_result_

machineVars == <<state, since_good, have_time, report, age>>
localizerVars == <<ladder, flagged, state, since_good, have_time, report, age, shown>>

Machine == INSTANCE LocalizationState WITH
  BoardCounts <- 1..MaxWindow,
  Spreads     <- {0, MinSpread}

\* Sightings of each board, as the consensus counted them.
Bags == [Board -> 0..MaxNotes]

Total(bag) ==
  LET of(n) == n * Cardinality({b \in Board : bag[b] = n})
  IN of(1) + of(2)

Support(bag) == {b \in Board : bag[b] > 0}

\* What the flip consensus may make of a window.
Windows ==
  {w \in [members : Bags, outliers : Bags] :
     LET sightings == Total(w.members) + Total(w.outliers) IN
       /\ sightings <= MaxWindow
       /\ \A b \in Board : w.members[b] + w.outliers[b] <= MaxNotes
       /\ Total(w.members) >= IF sightings >= 2 THEN 2 ELSE 1}

\* normalSpreadDeg: the widest angle between the normals of two members.
Spread(boards) ==
  IF \E pair \in Angled : pair \subseteq boards THEN MinSpread ELSE 0

\* A solve of a window: the boards sighted, those thrown out, and the result.
\* boards counts the members' sightings, and not the boards.
SolveOf(w, v) ==
  [sighted  |-> Support(w.members) \cup Support(w.outliers),
   outliers |-> w.outliers,
   boards   |-> Total(w.members),
   spread   |-> Spread(Support(w.members)),
   verdict  |-> v]

\* The boards solved with are the members in front of the camera at the
\* solution; there is at least one.
Solves ==
  {SolveOf(p[1], p[2]) :
     p \in {q \in Windows \X Verdicts :
             q[2].solved # {} /\ q[2].solved \subseteq Support(q[1].members)}}

\* solveAndPublish: position and heading, or position with the prior's heading.
Dof(boards) == IF boards >= 2 THEN 6 ELSE 3

\* What the status shows before the first fix: a default SolveResult.
NothingShown ==
  [dof |-> 0, boards |-> 0, spread |-> 0, solved |-> {}]

\* report: what the status shows of a fix, until the next one.
StatusOf(s) ==
  [dof |-> Dof(s.boards), boards |-> s.boards, spread |-> s.spread,
   solved |-> s.verdict.solved]

-------------------------------------------------------------------------------
(* processWindow *)

\* Variant for the mutation runs: the status is zeroed with the window.
WindowZeroed(d) ==
  /\ Machine!Update(d, Machine!NoFix)
  /\ shown' = NothingShown
  /\ UNCHANGED monitorVars

\* A window without a fix: no detections, none that passes the gates or is not
\* flagged, no consensus, or a solve that fails.  The monitor hears nothing.
WindowWithoutFix(d) ==
  /\ Machine!Update(d, Machine!NoFix)
  /\ UNCHANGED <<monitorVars, shown>>

\* Variant: the monitor is asked before it has judged the window.
OutcomeBeforeJudging(s) ==
  [solved           |-> TRUE,
   boards_used      |-> s.boards,
   spread           |-> s.spread,
   integrity_failed |-> IsolationFailed(flagged)]

\* What a solve means for the state machine.  A flagged board is no failure;
\* being unable to isolate the fault is.
OutcomeOf(s) ==
  [solved           |-> TRUE,
   boards_used      |-> s.boards,
   spread           |-> s.spread,
   integrity_failed |-> IsolationFailed(flagged')]

WindowWithFix(d, s) ==
  /\ Judge(s.outliers, s.verdict)
  /\ Machine!Update(d, OutcomeOf(s))
  /\ shown' = StatusOf(s)

\* Boards already excluded by integrity monitoring stay out.
TakesPart(b) == b \notin flagged

Fix(d) ==
  \E s \in Solves :
    /\ \A b \in s.sighted : TakesPart(b)
    /\ WindowWithFix(d, s)

ProcessWindow == \E d \in ClockSteps : WindowWithoutFix(d) \/ Fix(d)

LocalizerInit ==
  /\ MonitorInit
  /\ Machine!Init
  /\ shown = NothingShown

LocalizerSpec == LocalizerInit /\ [][ProcessWindow]_localizerVars

\* diagnose: the level Autoware's diagnostics hear of.
Level ==
  CASE report.request_mrm \/ report.state = "Fault"                       -> "ERROR"
    [] report.state \in {"Degraded", "DeadReckoning", "Uninitialized"}    -> "WARN"
    [] OTHER                                                              -> "OK"
-------------------------------------------------------------------------------
(* Invariants *)

Shown == [dof : {0, 3, 6}, boards : 0..MaxWindow, spread : {0, MinSpread},
          solved : SUBSET Board]

\* Type invariant.
LocalizerTypeOK ==
  /\ MonitorTypeOK
  /\ Machine!TypeOK
  /\ shown \in Shown

\* Once more boards are flagged than single faults can explain, the vehicle is
\* stopped, in the very window that flags the last of them and whatever windows
\* come after it.  health.cpp:33-40, 74-77; aruco_localizer_node.cpp:448-457.
IsolationFailureStops == IsolationFailed(flagged) => state = "Fault"

\* The fix that is shown is one the state machine takes for nominal.
ShownIsNominal == shown.boards >= MinBoardsNominal /\ shown.spread >= MinSpread

\* The status never contradicts itself: OK is reported only with the numbers of
\* a fix that justify it, and degraded with those of a fix that do not, also
\* through windows without a fix.  aruco_localizer_node.cpp:670-719.
StatusDescribesFix ==
  /\ Level = "OK" => state = "Nominal" /\ shown.solved # {} /\ ShownIsNominal
  /\ state = "Degraded" => shown.solved # {} /\ ~ShownIsNominal

(* Action property *)

\* The boards that got a strike in a window for their residual, and not for
\* being thrown out: their notes did not change.
StruckForResidual ==
  {b \in shown'.solved :
     ladder'[b].seen = ladder[b].seen /\ ladder'[b].strikes > ladder[b].strikes}

\* A fault common to the boards is never taken for a fault of the boards: those
\* that get a strike for their residual are outnumbered by those that agree, in
\* every solve.  health.hpp:90-97.
OnlyAMinorityIsStruck ==
  [][StruckForResidual # {} =>
       2 * Cardinality(StruckForResidual) < Cardinality(shown'.solved)]_localizerVars
===============================================================================

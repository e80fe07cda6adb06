--------------------------- MODULE IntegrityMonitor ---------------------------
(***************************************************************************)
(* The integrity monitor (golfcart_aruco_localizer/src/health.cpp): boards  *)
(* are checked against each other, and a board that keeps disagreeing with  *)
(* its neighbours climbs a ladder of strikes until it is flagged and left   *)
(* out of the solve.                                                        *)
(*                                                                         *)
(* One solve reaches the monitor as a note for every sighting the flip      *)
(* consensus threw out (noteConsensusOutlier) followed by one update() with *)
(* the residuals of the boards that went into the solve.  The moving        *)
(* average of a board's ratio is abstracted: it can only withhold a strike  *)
(* from a board whose residual is excessive in this solve, so the boards    *)
(* struck are any subset of those.                                          *)
(***************************************************************************)
EXTENDS Integers, FiniteSets

CONSTANTS
  Board,        \* board ids
  FlagCount,    \* flag_count
  FlagRatio,    \* flag_ratio
  Floor,        \* median_floor_px
  Margin,       \* flag_margin_px
  MaxExcluded,  \* max_excluded
  Residuals     \* residuals a solve may report, in the unit of Floor

ASSUME MonitorAssumption ==
  /\ IsFiniteSet(Board)
  /\ FlagCount \in Nat \ {0}
  /\ FlagRatio \in Nat \ {0}
  /\ Floor \in Nat
  /\ Margin \in Nat
  /\ MaxExcluded \in Nat
  /\ Residuals \subseteq Nat

VARIABLES
  ladder,   \* strikes_ and seen_ of every board
  flagged   \* flagged_, in no particular order

monitorVars == <<ladder, flagged>>

\* A window holds at most this many sightings of one board that were thrown
\* out: two cameras see it, or one camera delivers two frames.
MaxNotes == 2

\* seen_ is counted up to here.  Beyond it a note never raises the strikes of a
\* board that is not flagged yet, so that a higher count makes no difference.
SeenCap == 2 * FlagCount + 1

Rung == [strikes : Nat, seen : 0..SeenCap]

NewRung == [strikes |-> 0, seen |-> 0]

\* Variant for the mutation runs: a decay without a floor.
DecayedBelowZero(n) == n - 1

Decayed(n) == IF n > 0 THEN n - 1 ELSE 0

-------------------------------------------------------------------------------
(* Notes of the flip consensus *)

SeenAgain(n) == IF n < SeenCap THEN n + 1 ELSE n

\* noteConsensusOutlier: a strike, taken back from a board whose strikes are
\* fewer than half of its notes.
NoteOnce(r) ==
  LET strikes == r.strikes + 1
      seen    == SeenAgain(r.seen)
  IN [strikes |-> IF 2 * strikes < seen THEN Decayed(strikes) ELSE strikes,
      seen    |-> seen]

Noted(r, notes) ==
  CASE notes = 0 -> r
    [] notes = 1 -> NoteOnce(r)
    [] OTHER     -> NoteOnce(NoteOnce(r))

LadderAfterNotes(out) == [b \in Board |-> Noted(ladder[b], out[b])]

\* Variant: one strike more than the count is needed.
FlaggedBeyondCount(out) ==
  flagged \cup {b \in Board : out[b] > 0 /\ Noted(ladder[b], out[b]).strikes > FlagCount}

FlaggedAfterNotes(out) ==
  flagged \cup {b \in Board : out[b] > 0 /\ Noted(ladder[b], out[b]).strikes >= FlagCount}

-------------------------------------------------------------------------------
(* Residuals of the solve: a function from the boards solved with *)

\* How many boards fit at least as well as residual level r.
AtMost(residual, r) == Cardinality({b \in DOMAIN residual : residual[b] <= r})

\* Variant: of two boards, the better one is taken for the middle.
HalfOrMore(n, size) == 2 * n >= size

MoreThanHalf(n, size) == 2 * n > size

\* The entry at index size / 2 of the sorted residuals: the smallest one that
\* more than size / 2 boards do not exceed.
IsMedian(residual, m) ==
  LET size == Cardinality(DOMAIN residual) IN
    /\ \E b \in DOMAIN residual : residual[b] = m
    /\ MoreThanHalf(AtMost(residual, m), size)
    /\ \A b \in DOMAIN residual :
         MoreThanHalf(AtMost(residual, residual[b]), size) => m <= residual[b]

Reference(median) == IF median > Floor THEN median ELSE Floor

\* Many times the median, and a real number of pixels above it.
Excessive(residual) ==
  {b \in DOMAIN residual :
     \E m \in Residuals :
       /\ IsMedian(residual, m)
       /\ residual[b] > FlagRatio * Reference(m)
       /\ residual[b] - m > Margin}

\* What judging the residuals of a solve may come to: which boards were solved
\* with, and which of them get a strike.
Verdicts ==
  {v \in [solved : SUBSET Board, struck : SUBSET Board] :
     \E residual \in [v.solved -> Residuals] : v.struck \subseteq Excessive(residual)}

CrossChecked(solved) == Cardinality(solved) >= 2

\* The ladder and the flags once the residuals have been judged.
LadderAfterSolve(before, v) ==
  [b \in Board |->
     IF CrossChecked(v.solved) /\ b \in v.solved
     THEN [before[b] EXCEPT !.strikes = IF b \in v.struck THEN @ + 1 ELSE Decayed(@)]
     ELSE before[b]]

FlaggedAfterSolve(before, v) ==
  before \cup {b \in v.solved :
                 CrossChecked(v.solved) /\ ladder'[b].strikes >= FlagCount}

-------------------------------------------------------------------------------
(* One solve, and the operations *)

\* solveAndPublish: note every outlier, then update() with the residuals.
Judge(out, v) ==
  /\ ladder' = LadderAfterSolve(LadderAfterNotes(out), v)
  /\ flagged' = FlaggedAfterSolve(FlaggedAfterNotes(out), v)

\* isolation_failed of the report update() returns.
IsolationFailed(flags) == Cardinality(flags) > MaxExcluded

\* clear: somebody has been out to fix the board.  Its notes stay counted.
Clear(b) ==
  /\ ladder' = [ladder EXCEPT ![b].strikes = 0]
  /\ flagged' = flagged \ {b}

MonitorInit ==
  /\ ladder = [b \in Board |-> NewRung]
  /\ flagged = {}

\* Boards flagged already take no part.
Solve ==
  \E out \in [Board -> 0..MaxNotes], v \in Verdicts :
    /\ v.solved # {}
    /\ \A b \in flagged : out[b] = 0 /\ b \notin v.solved
    /\ Judge(out, v)

MonitorNext == Solve \/ \E b \in Board : Clear(b)

MonitorSpec == MonitorInit /\ [][MonitorNext]_monitorVars

-------------------------------------------------------------------------------
(* Invariants *)

\* Type invariant.
MonitorTypeOK ==
  /\ ladder \in [Board -> Rung]
  /\ flagged \subseteq Board

\* A board is flagged as soon as its strikes reach the count, whichever of the
\* two paths gave the last one.  health.cpp:71-74, 98-100.
FlaggedOnCount == \A b \in Board \ flagged : ladder[b].strikes < FlagCount
===============================================================================

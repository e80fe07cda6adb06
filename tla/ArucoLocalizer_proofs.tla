------------------------- MODULE ArucoLocalizer_proofs -------------------------
(* Proofs about the solve window, for every map, every window size and every *)
(* value of the thresholds.                                                  *)
EXTENDS ArucoLocalizer, FiniteSetTheorems, TLAPS

-------------------------------------------------------------------------------
(* Lemmas about the judgement of residuals *)

\* The boards whose residual is excessive are outnumbered by those at or below
\* the median, of which there are more than half.
LEMMA ExcessiveIsMinority ==
  ASSUME NEW S \in SUBSET Board, NEW residual \in [S -> Residuals],
         Excessive(residual) # {}
  PROVE  /\ IsFiniteSet(Excessive(residual))
         /\ 2 * Cardinality(Excessive(residual)) < Cardinality(S)
<1> DEFINE E == Excessive(residual)
<1>1. PICK b \in E : TRUE
  OBVIOUS
<1>2. PICK m \in Residuals : IsMedian(residual, m) /\ residual[b] - m > Margin
  BY <1>1 DEF Excessive
<1> DEFINE Good == {c \in S : residual[c] <= m}
<1>3. IsFiniteSet(S) /\ Cardinality(S) \in Nat
  BY MonitorAssumption, FS_Subset, FS_CardinalityType
<1>4. E \subseteq S /\ Good \subseteq S
  BY DEF Excessive
<1>5. /\ IsFiniteSet(E) /\ Cardinality(E) \in Nat
      /\ IsFiniteSet(Good) /\ Cardinality(Good) \in Nat
  BY <1>3, <1>4, FS_Subset, FS_CardinalityType
<1>6. 2 * Cardinality(Good) > Cardinality(S)
  BY <1>2 DEF IsMedian, AtMost, MoreThanHalf
<1>7. E \cap Good = {}
  <2> SUFFICES ASSUME NEW c \in E, c \in Good PROVE FALSE
    OBVIOUS
  <2>1. PICK n \in Residuals : IsMedian(residual, n) /\ residual[c] - n > Margin
    BY DEF Excessive
  <2>2. n = m
    <3>1. m <= n /\ n <= m
      BY <1>2, <2>1 DEF IsMedian
    <3> QED
      BY <3>1, MonitorAssumption
  <2>3. residual[c] \in Nat /\ m \in Nat /\ Margin \in Nat
    BY <1>4, MonitorAssumption
  <2> QED
    BY <2>1, <2>2, <2>3
<1>8. Cardinality(E \cup Good) = Cardinality(E) + Cardinality(Good)
  <2>1. Cardinality(E \cap Good) = 0
    BY <1>7, FS_EmptySet
  <2>2. Cardinality(E \cup Good)
          = Cardinality(E) + Cardinality(Good) - Cardinality(E \cap Good)
    BY <1>5, FS_Union
  <2> HIDE DEF E, Good
  <2> QED
    BY <1>5, <2>1, <2>2
<1>9. Cardinality(E \cup Good) <= Cardinality(S)
  BY <1>3, <1>4, FS_Subset
<1> HIDE DEF E, Good
<1>10. 2 * Cardinality(E) < Cardinality(S)
  BY <1>3, <1>5, <1>6, <1>8, <1>9
<1> QED
  BY <1>5, <1>10 DEF E

\* So are the boards that a verdict strikes.
LEMMA StruckIsMinority ==
  ASSUME NEW v \in Verdicts, NEW T \in SUBSET v.struck, T # {}
  PROVE  2 * Cardinality(T) < Cardinality(v.solved)
<1>1. v.solved \in SUBSET Board
  BY DEF Verdicts
<1>2. PICK residual \in [v.solved -> Residuals] : v.struck \subseteq Excessive(residual)
  BY DEF Verdicts
<1>3. /\ IsFiniteSet(Excessive(residual))
      /\ 2 * Cardinality(Excessive(residual)) < Cardinality(v.solved)
  BY <1>1, <1>2, ExcessiveIsMinority
<1>4. /\ IsFiniteSet(T)
      /\ Cardinality(T) <= Cardinality(Excessive(residual))
  BY <1>2, <1>3, FS_Subset
<1>5. Cardinality(T) \in Nat /\ Cardinality(Excessive(residual)) \in Nat
      /\ Cardinality(v.solved) \in Nat
  BY <1>1, <1>3, <1>4, MonitorAssumption, FS_Subset, FS_CardinalityType
<1> QED
  BY <1>3, <1>4, <1>5

-------------------------------------------------------------------------------
(* The stop after too many exclusions *)

\* A fault stays, and a window whose outcome says that the integrity check has
\* failed leaves the machine in it.
LEMMA FaultOrFailure ==
  ASSUME NEW d, NEW o, Machine!Update(d, o),
         state = "Fault" \/ (o.integrity_failed /\ o.solved)
  PROVE  state' = "Fault"
  BY DEF Machine!Update, Machine!StayLatched, Machine!FailIntegrity, Machine!Recover,
         Machine!AwaitFirstFix, Machine!HoldState, Machine!RunOn, Machine!NotTrusted

\* Once more boards are flagged than may be excluded, the vehicle is stopped and
\* stays stopped.
THEOREM IsolationStops == LocalizerSpec => []IsolationFailureStops
<1>1. LocalizerInit => IsolationFailureStops
  BY FS_EmptySet, MonitorAssumption
  DEF LocalizerInit, MonitorInit, IsolationFailureStops, IsolationFailed
<1>2. IsolationFailureStops /\ [ProcessWindow]_localizerVars => IsolationFailureStops'
  <2> SUFFICES ASSUME IsolationFailureStops, [ProcessWindow]_localizerVars,
                      IsolationFailed(flagged')
               PROVE  state' = "Fault"
    BY DEF IsolationFailureStops, IsolationFailed
  <2>1. CASE \E d \in ClockSteps : WindowWithoutFix(d)
    <3>1. state = "Fault"
      BY <2>1 DEF WindowWithoutFix, monitorVars, IsolationFailureStops
    <3> QED
      BY <2>1, <3>1, FaultOrFailure DEF WindowWithoutFix
  <2>2. CASE \E d \in ClockSteps : Fix(d)
    <3>1. PICK d \in ClockSteps, s \in Solves : Machine!Update(d, OutcomeOf(s))
      BY <2>2 DEF Fix, WindowWithFix, StatusOf
    <3>2. OutcomeOf(s).integrity_failed /\ OutcomeOf(s).solved
      BY DEF OutcomeOf
    <3> QED
      BY <3>1, <3>2, FaultOrFailure
  <2>3. CASE UNCHANGED localizerVars
    BY <2>3 DEF localizerVars, IsolationFailureStops
  <2> QED
    BY <2>1, <2>2, <2>3 DEF ProcessWindow
<1> QED
  BY <1>1, <1>2, PTL DEF LocalizerSpec

-------------------------------------------------------------------------------
(* Lemmas about the ladder *)

\* A note keeps a board's record well typed.
LEMMA NoteType ==
  ASSUME NEW r \in Rung
  PROVE  NoteOnce(r) \in Rung
<1>1. FlagCount \in Nat /\ r.strikes \in Nat /\ r.seen \in 0..SeenCap /\ SeenCap \in Nat
  BY MonitorAssumption DEF Rung, SeenCap
<1>2. SeenAgain(r.seen) \in 0..SeenCap
  BY <1>1 DEF SeenAgain
<1>3. Decayed(r.strikes + 1) \in Nat
  BY <1>1 DEF Decayed
<1> QED
  BY <1>1, <1>2, <1>3 DEF NoteOnce, Rung

\* The count of notes never falls.  Where it stays, it is at its bound, and a
\* board that is not flagged gains nothing by the note.
LEMMA NoteAtCap ==
  ASSUME NEW r \in Rung
  PROVE  /\ r.seen <= NoteOnce(r).seen
         /\ NoteOnce(r).seen = r.seen /\ r.strikes < FlagCount
              => NoteOnce(r).strikes = r.strikes
<1>1. FlagCount \in Nat /\ r.strikes \in Nat /\ r.seen \in 0..SeenCap /\ SeenCap \in Nat
  BY MonitorAssumption DEF Rung, SeenCap
<1>2. r.seen <= SeenAgain(r.seen) /\ (SeenAgain(r.seen) = r.seen => r.seen = SeenCap)
  BY <1>1 DEF SeenAgain
<1>3. NoteOnce(r).seen = SeenAgain(r.seen)
  BY DEF NoteOnce
<1>4. ASSUME r.seen = SeenCap, SeenAgain(r.seen) = r.seen, r.strikes < FlagCount
      PROVE  NoteOnce(r).strikes = r.strikes
  <2>1. 2 * (r.strikes + 1) < SeenAgain(r.seen)
    BY <1>1, <1>4 DEF SeenCap
  <2>2. NoteOnce(r).strikes = Decayed(r.strikes + 1)
    BY <2>1 DEF NoteOnce
  <2> QED
    BY <1>1, <2>2 DEF Decayed
<1> QED
  BY <1>2, <1>3, <1>4

\* The same of all the notes of a window.
LEMMA NotedType ==
  ASSUME NEW r \in Rung, NEW notes \in 0..MaxNotes
  PROVE  Noted(r, notes) \in Rung
  BY NoteType DEF Noted

LEMMA NotedAtCap ==
  ASSUME NEW r \in Rung, NEW notes \in 0..MaxNotes,
         r.strikes < FlagCount, Noted(r, notes).seen = r.seen
  PROVE  Noted(r, notes).strikes = r.strikes
<1>1. CASE notes = 0
  BY <1>1 DEF Noted
<1>2. CASE notes = 1
  BY <1>2, NoteAtCap DEF Noted
<1>3. CASE notes = 2
  <2> DEFINE once == NoteOnce(r)
  <2>1. once \in Rung /\ r.seen <= once.seen
    BY NoteType, NoteAtCap
  <2>2. Noted(r, notes) = NoteOnce(once)
    BY <1>3 DEF Noted
  <2>3. once.seen <= NoteOnce(once).seen
    BY <2>1, NoteAtCap
  <2>4. once.seen = r.seen
    <3>1. r.seen \in Int /\ once.seen \in Int
      BY <2>1, MonitorAssumption DEF Rung, SeenCap
    <3> QED
      BY <2>1, <2>2, <2>3, <3>1
  <2>5. once.strikes = r.strikes
    BY <2>4, NoteAtCap
  <2> QED
    BY <2>1, <2>2, <2>4, <2>5, NoteAtCap
<1> QED
  BY <1>1, <1>2, <1>3 DEF MaxNotes

-------------------------------------------------------------------------------
(* The monitor's invariant *)

MonitorInv == MonitorTypeOK /\ FlaggedOnCount

\* What a solve of the localizer hands to the monitor.
LEMMA SolveTypes ==
  ASSUME NEW s \in Solves
  PROVE  /\ s.outliers \in Bags
         /\ s.verdict \in Verdicts
         /\ s.verdict.solved \in SUBSET s.sighted
         /\ s.verdict.solved # {}
         /\ s.sighted \in SUBSET Board
         /\ \A b \in Board : s.outliers[b] > 0 => b \in s.sighted
<1>1. PICK w \in Windows, v \in Verdicts :
        /\ s = SolveOf(w, v)
        /\ v.solved # {} /\ v.solved \subseteq Support(w.members)
  BY DEF Solves
<1>2. w.members \in Bags /\ w.outliers \in Bags
  BY DEF Windows
<1> QED
  BY <1>1, <1>2 DEF SolveOf, Support

\* A board is flagged as soon as its strikes reach the count: every solve keeps
\* the monitor's invariant.
LEMMA JudgeInv ==
  ASSUME MonitorInv, NEW out \in Bags, NEW v \in Verdicts, Judge(out, v)
  PROVE  MonitorInv'
<1>1. ladder \in [Board -> Rung] /\ flagged \subseteq Board
  BY DEF MonitorInv, MonitorTypeOK
<1>2. v.solved \subseteq Board
  BY DEF Verdicts
<1>3. LadderAfterNotes(out) \in [Board -> Rung]
  BY <1>1, NotedType DEF LadderAfterNotes, Bags
<1>4. ladder' = LadderAfterSolve(LadderAfterNotes(out), v)
  BY DEF Judge
<1>5. flagged' = FlaggedAfterSolve(FlaggedAfterNotes(out), v)
  BY DEF Judge
<1>6. ladder' \in [Board -> Rung]
  <2> DEFINE before == LadderAfterNotes(out)
  <2>1. \A b \in Board : before[b] \in Rung
    BY <1>3
  <2>2. \A r \in Rung, n \in Nat : [r EXCEPT !.strikes = n] \in Rung
    BY DEF Rung
  <2>3. \A b \in Board : before[b].strikes + 1 \in Nat /\ Decayed(before[b].strikes) \in Nat
    BY <2>1 DEF Rung, Decayed
  <2> HIDE DEF before
  <2> QED
    BY <1>4, <2>1, <2>2, <2>3 DEF LadderAfterSolve, before
<1>7. flagged' \subseteq Board
  BY <1>1, <1>2, <1>5 DEF FlaggedAfterSolve, FlaggedAfterNotes
<1>8. ASSUME NEW b \in Board \ flagged'
      PROVE  ladder'[b].strikes < FlagCount
  <2>1. b \notin FlaggedAfterNotes(out)
    BY <1>5 DEF FlaggedAfterSolve
  <2>2. Noted(ladder[b], out[b]).strikes < FlagCount
    <3>1. Noted(ladder[b], out[b]) \in Rung /\ FlagCount \in Nat /\ out[b] \in 0..MaxNotes
      BY <1>1, NotedType, MonitorAssumption DEF Bags
    <3>2. CASE out[b] = 0
      BY <2>1, <3>2 DEF Noted, MonitorInv, FlaggedOnCount, FlaggedAfterNotes
    <3>3. CASE out[b] > 0
      BY <2>1, <3>1, <3>3 DEF FlaggedAfterNotes, Rung
    <3> QED
      BY <3>1, <3>2, <3>3 DEF MaxNotes
  <2>3. CASE CrossChecked(v.solved) /\ b \in v.solved
    BY <1>5, <1>6, <2>3, MonitorAssumption DEF FlaggedAfterSolve, Rung
  <2>4. CASE ~(CrossChecked(v.solved) /\ b \in v.solved)
    BY <1>4, <2>2, <2>4 DEF LadderAfterSolve, LadderAfterNotes
  <2> QED
    BY <2>3, <2>4
<1> QED
  BY <1>6, <1>7, <1>8 DEF MonitorInv, MonitorTypeOK, FlaggedOnCount

LEMMA MonitorInvHolds == LocalizerSpec => []MonitorInv
<1>1. LocalizerInit => MonitorInv
  BY MonitorAssumption
  DEF LocalizerInit, MonitorInit, MonitorInv, MonitorTypeOK, FlaggedOnCount,
      NewRung, Rung, SeenCap
<1>2. MonitorInv /\ [ProcessWindow]_localizerVars => MonitorInv'
  <2> SUFFICES ASSUME MonitorInv, [ProcessWindow]_localizerVars PROVE MonitorInv'
    OBVIOUS
  <2>1. CASE \E d \in ClockSteps : Fix(d)
    BY <2>1, SolveTypes, JudgeInv DEF Fix, WindowWithFix, StatusOf
  <2>2. CASE UNCHANGED <<ladder, flagged>>
    BY <2>2 DEF MonitorInv, MonitorTypeOK, FlaggedOnCount
  <2> QED
    BY <2>1, <2>2 DEF ProcessWindow, WindowWithoutFix, monitorVars, localizerVars
<1> QED
  BY <1>1, <1>2, PTL DEF LocalizerSpec

\* A board is flagged as soon as its strikes reach the count, whichever of the
\* two paths gave the last one.
THEOREM FlaggedInTime == LocalizerSpec => []FlaggedOnCount
<1>1. MonitorInv => FlaggedOnCount
  BY DEF MonitorInv
<1> QED
  BY <1>1, MonitorInvHolds, PTL

-------------------------------------------------------------------------------
(* What is shown, and what the state machine is given *)

LEMMA TotalType ==
  ASSUME NEW bag \in Bags
  PROVE  Total(bag) \in Nat
<1> DEFINE Of(n) == {b \in Board : bag[b] = n}
<1>1. Cardinality(Of(1)) \in Nat /\ Cardinality(Of(2)) \in Nat
  BY MonitorAssumption, FS_Subset, FS_CardinalityType
<1> QED
  BY <1>1 DEF Total

\* A solve counts at least one sighting and no more than a window holds.
LEMMA SolveResult ==
  ASSUME NEW s \in Solves
  PROVE  /\ s.boards \in 1..MaxWindow
         /\ s.spread \in {0, MinSpread}
<1>1. PICK w \in Windows, v \in Verdicts : s = SolveOf(w, v)
  BY DEF Solves
<1>2. Total(w.members) \in Nat /\ Total(w.outliers) \in Nat
  BY TotalType DEF Windows
<1>3. /\ Total(w.members) + Total(w.outliers) <= MaxWindow
      /\ Total(w.members) >= 1
  BY <1>2 DEF Windows
<1>4. Total(w.members) \in 1..MaxWindow
  BY <1>2, <1>3, LocalizerAssumption
<1> QED
  BY <1>1, <1>4 DEF SolveOf, Spread

LEMMA ShownHolds == LocalizerSpec => [](shown \in Shown)
<1>1. LocalizerInit => shown \in Shown
  BY LocalizerAssumption DEF LocalizerInit, NothingShown, Shown
<1>2. shown \in Shown /\ [ProcessWindow]_localizerVars => (shown \in Shown)'
  <2> SUFFICES ASSUME shown \in Shown, [ProcessWindow]_localizerVars
               PROVE  shown' \in Shown
    OBVIOUS
  <2>1. CASE \E d \in ClockSteps : Fix(d)
    <3>1. PICK d \in ClockSteps, s \in Solves : WindowWithFix(d, s)
      BY <2>1 DEF Fix
    <3>2. s.boards \in 1..MaxWindow /\ s.spread \in {0, MinSpread}
      BY SolveResult
    <3>3. s.verdict.solved \in SUBSET Board
      BY SolveTypes
    <3> QED
      BY <3>1, <3>2, <3>3 DEF WindowWithFix, StatusOf, Shown, Dof
  <2>2. CASE UNCHANGED shown
    BY <2>2
  <2> QED
    BY <2>1, <2>2 DEF ProcessWindow, WindowWithoutFix, localizerVars
<1> QED
  BY <1>1, <1>2, PTL DEF LocalizerSpec

-------------------------------------------------------------------------------
(* Strikes for residuals *)

\* A board that gains a strike although its notes stay the same was struck by
\* the verdict on the solve.
LEMMA GainIsVerdict ==
  ASSUME MonitorInv, NEW out \in Bags, NEW v \in Verdicts, Judge(out, v),
         NEW b \in v.solved, b \notin flagged,
         ladder'[b].seen = ladder[b].seen,
         ladder'[b].strikes > ladder[b].strikes
  PROVE  b \in v.struck
<1>1. b \in Board /\ ladder[b] \in Rung /\ out[b] \in 0..MaxNotes
  BY DEF Verdicts, MonitorInv, MonitorTypeOK, Bags
<1> DEFINE noted == Noted(ladder[b], out[b])
<1>2. noted \in Rung
  BY <1>1, NotedType
<1>3. ladder'[b] = IF CrossChecked(v.solved)
                   THEN [noted EXCEPT !.strikes = IF b \in v.struck THEN @ + 1 ELSE Decayed(@)]
                   ELSE noted
  BY <1>1 DEF Judge, LadderAfterSolve, LadderAfterNotes
<1>4. noted.seen = ladder[b].seen
  BY <1>2, <1>3 DEF Rung
<1>5. ladder[b].strikes < FlagCount
  BY <1>1 DEF MonitorInv, FlaggedOnCount
<1>6. noted.strikes = ladder[b].strikes
  BY <1>1, <1>4, <1>5, NotedAtCap
<1>7. ladder[b].strikes \in Nat
  BY <1>1 DEF Rung
<1>8. ASSUME b \notin v.struck PROVE ladder'[b].strikes <= ladder[b].strikes
  BY <1>2, <1>3, <1>6, <1>7, <1>8 DEF Decayed, Rung
<1>9. ladder'[b].strikes \in Int
  BY <1>2, <1>3, <1>6, <1>7 DEF Rung, Decayed
<1> QED
  BY <1>7, <1>8, <1>9

\* In every solve the boards that get a strike for their residual are
\* outnumbered by those that agree.
THEOREM MinorityStruck == LocalizerSpec => OnlyAMinorityIsStruck
<1> DEFINE Outnumbered ==
      StruckForResidual # {}
        => 2 * Cardinality(StruckForResidual) < Cardinality(shown'.solved)
<1>1. MonitorInv /\ (shown \in Shown)' /\ [ProcessWindow]_localizerVars
        => [Outnumbered]_localizerVars
  <2> SUFFICES ASSUME MonitorInv, shown' \in Shown, ProcessWindow, StruckForResidual # {}
               PROVE  2 * Cardinality(StruckForResidual) < Cardinality(shown'.solved)
    OBVIOUS
  <2>1. \A b \in StruckForResidual : ladder' # ladder
    <3> SUFFICES ASSUME NEW b \in StruckForResidual, ladder' = ladder PROVE FALSE
      OBVIOUS
    <3>1. ladder[b].strikes > ladder[b].strikes /\ b \in Board
      BY DEF StruckForResidual, Shown
    <3> QED
      BY <3>1 DEF MonitorInv, MonitorTypeOK, Rung
  <2>2. PICK d \in ClockSteps, s \in Solves :
          /\ \A b \in s.sighted : TakesPart(b)
          /\ WindowWithFix(d, s)
    BY <2>1 DEF ProcessWindow, WindowWithoutFix, monitorVars, Fix
  <2>3. Judge(s.outliers, s.verdict) /\ shown'.solved = s.verdict.solved
    BY <2>2 DEF WindowWithFix, StatusOf
  <2>4. StruckForResidual \subseteq s.verdict.struck
    <3> SUFFICES ASSUME NEW b \in StruckForResidual PROVE b \in s.verdict.struck
      OBVIOUS
    <3>1. b \in s.verdict.solved /\ b \notin flagged
      BY <2>2, <2>3, SolveTypes DEF StruckForResidual, TakesPart
    <3> QED
      BY <2>3, <3>1, SolveTypes, GainIsVerdict DEF StruckForResidual
  <2> QED
    BY <2>3, <2>4, SolveTypes, StruckIsMinority
<1> QED
  BY <1>1, MonitorInvHolds, ShownHolds, PTL DEF LocalizerSpec, OnlyAMinorityIsStruck

-------------------------------------------------------------------------------
(* The state machine within the localizer *)

MachineProofs == INSTANCE LocalizationState_proofs WITH
  BoardCounts <- 1..MaxWindow,
  Spreads     <- {0, MinSpread}

\* Windows of the localizer are windows of the state machine.
LEMMA WindowIsUpdate ==
  [ProcessWindow]_localizerVars => [Machine!Next]_machineVars
<1> SUFFICES ASSUME [ProcessWindow]_localizerVars
             PROVE  Machine!Window \/ UNCHANGED machineVars
  BY DEF Machine!Next
<1>1. CASE \E d \in ClockSteps : WindowWithoutFix(d)
  BY <1>1 DEF WindowWithoutFix, Machine!Window, Machine!Outcomes
<1>2. CASE \E d \in ClockSteps : Fix(d)
  <2>1. PICK d \in ClockSteps, s \in Solves : Machine!Update(d, OutcomeOf(s))
    BY <1>2 DEF Fix, WindowWithFix, StatusOf
  <2>2. OutcomeOf(s) \in Machine!Fixes
    BY SolveResult DEF OutcomeOf, Machine!Fixes, IsolationFailed
  <2> QED
    BY <2>1, <2>2 DEF Machine!Window, Machine!Outcomes
<1>3. CASE UNCHANGED localizerVars
  BY <1>3 DEF localizerVars, machineVars
<1> QED
  BY <1>1, <1>2, <1>3 DEF ProcessWindow

\* The localizer drives the state machine as LocalizationState says.
THEOREM ImplementsMachine == LocalizerSpec => Machine!Spec
<1>1. LocalizerInit => Machine!Init
  BY DEF LocalizerInit
<1> QED
  BY <1>1, WindowIsUpdate, PTL DEF LocalizerSpec, Machine!Spec, Machine!vars, machineVars

\* The proofs speak of the same machine.
LEMMA SameMachine == Machine!Spec => MachineProofs!Spec
<1>1. Machine!Init => MachineProofs!Init
  BY DEF Machine!Init, MachineProofs!Init
<1>2. [Machine!Next]_(Machine!vars) => [MachineProofs!Next]_(MachineProofs!vars)
  BY Zenon
  DEF Machine!States, MachineProofs!States, Machine!Reasons,
      MachineProofs!Reasons, Machine!NoFix, MachineProofs!NoFix,
      Machine!Fixes, MachineProofs!Fixes, Machine!Outcomes,
      MachineProofs!Outcomes, Machine!Max0, MachineProofs!Max0,
      Machine!IsNominal, MachineProofs!IsNominal, Machine!Charged,
      MachineProofs!Charged, Machine!Report, MachineProofs!Report,
      Machine!Older, MachineProofs!Older, Machine!StayLatched,
      MachineProofs!StayLatched, Machine!FailIntegrity,
      MachineProofs!FailIntegrity, Machine!Recover, MachineProofs!Recover,
      Machine!AwaitFirstFix, MachineProofs!AwaitFirstFix, Machine!NotTrusted,
      MachineProofs!NotTrusted, Machine!WithinGrace,
      MachineProofs!WithinGrace, Machine!HoldState, MachineProofs!HoldState,
      Machine!BudgetOf, MachineProofs!BudgetOf, Machine!Expired,
      MachineProofs!Expired, Machine!Shortfall, MachineProofs!Shortfall,
      Machine!RunOn, MachineProofs!RunOn, Machine!Update,
      MachineProofs!Update, Machine!Reset, MachineProofs!Reset, Machine!Init,
      MachineProofs!Init, Machine!Window, MachineProofs!Window, Machine!Next,
      MachineProofs!Next, Machine!vars, MachineProofs!vars
<1> QED
  BY <1>1, <1>2, PTL DEF Machine!Spec, MachineProofs!Spec

LEMMA MachineInvHolds == LocalizerSpec => []MachineProofs!IInv
<1>1. MachineProofs!Spec => []MachineProofs!IInv
  BY MachineProofs!InvariantHolds, LocalizerAssumption
<1> QED
  BY <1>1, ImplementsMachine, SameMachine, PTL

\* Every variable of the localizer has its type.
THEOREM LocalizerTypeCorrect == LocalizerSpec => []LocalizerTypeOK
<1>1. MonitorInv => MonitorTypeOK
  BY DEF MonitorInv
<1>2. MachineProofs!IInv => Machine!TypeOK
  BY DEF MachineProofs!IInv, MachineProofs!TypeOK, Machine!TypeOK,
         MachineProofs!States, Machine!States, MachineProofs!Reasons, Machine!Reasons,
         MachineProofs!ReportType, Machine!ReportType
<1> QED
  BY <1>1, <1>2, MonitorInvHolds, MachineInvHolds, ShownHolds, PTL DEF LocalizerTypeOK

-------------------------------------------------------------------------------
(* The status *)

\* Where the states that speak of a fix come from.
LEMMA StateFromOutcome ==
  ASSUME NEW d, NEW o, Machine!Update(d, o)
  PROVE  /\ report'.state = state'
         /\ state' = "Nominal" =>
              \/ o.solved /\ Machine!IsNominal(o)
              \/ state = "Nominal" /\ ~o.solved
         /\ state' = "Degraded" =>
              \/ o.solved /\ ~Machine!IsNominal(o)
              \/ state = "Degraded" /\ ~o.solved
<1> USE DEF Machine!Report
<1>1. CASE Machine!StayLatched
  BY <1>1 DEF Machine!StayLatched
<1>2. CASE Machine!FailIntegrity(o)
  BY <1>2 DEF Machine!FailIntegrity
<1>3. CASE Machine!Recover(o)
  BY <1>3 DEF Machine!Recover, Machine!IsNominal
<1>4. CASE Machine!AwaitFirstFix(o)
  BY <1>4 DEF Machine!AwaitFirstFix
<1>5. CASE Machine!HoldState(d, o)
  BY <1>5 DEF Machine!HoldState, Machine!WithinGrace
<1>6. CASE Machine!RunOn(d, o)
  BY <1>6 DEF Machine!RunOn, Machine!NotTrusted
<1> QED
  BY <1>1, <1>2, <1>3, <1>4, <1>5, <1>6 DEF Machine!Update

StatusInv ==
  /\ report.state = state
  /\ state = "Nominal" => shown.solved # {} /\ ShownIsNominal
  /\ state = "Degraded" => shown.solved # {} /\ ~ShownIsNominal

\* The level and the state always come with numbers that agree with them.
THEOREM StatusIsConsistent == LocalizerSpec => []StatusDescribesFix
<1>1. LocalizerInit => StatusInv
  BY DEF LocalizerInit, Machine!Init, StatusInv
<1>2. StatusInv /\ [ProcessWindow]_localizerVars => StatusInv'
  <2> SUFFICES ASSUME StatusInv, [ProcessWindow]_localizerVars PROVE StatusInv'
    OBVIOUS
  <2>1. CASE \E d \in ClockSteps : WindowWithoutFix(d)
    BY <2>1, StateFromOutcome
    DEF WindowWithoutFix, Machine!NoFix, StatusInv, ShownIsNominal
  <2>2. CASE \E d \in ClockSteps : Fix(d)
    <3>1. PICK d \in ClockSteps, s \in Solves : WindowWithFix(d, s)
      BY <2>2 DEF Fix
    <3>2. /\ Machine!Update(d, OutcomeOf(s))
          /\ shown'.solved # {}
          /\ OutcomeOf(s).solved
          /\ Machine!IsNominal(OutcomeOf(s)) <=> ShownIsNominal'
      BY <3>1, SolveTypes
      DEF WindowWithFix, StatusOf, OutcomeOf, Machine!IsNominal, ShownIsNominal
    <3> QED
      BY <3>2, StateFromOutcome DEF StatusInv
  <2>3. CASE UNCHANGED localizerVars
    BY <2>3 DEF localizerVars, StatusInv, ShownIsNominal
  <2> QED
    BY <2>1, <2>2, <2>3 DEF ProcessWindow
<1>3. StatusInv /\ Machine!TypeOK => StatusDescribesFix
  BY DEF StatusInv, StatusDescribesFix, Level, Machine!TypeOK, Machine!States
<1>4. LocalizerTypeOK => Machine!TypeOK
  BY DEF LocalizerTypeOK
<1> QED
  BY <1>1, <1>2, <1>3, <1>4, LocalizerTypeCorrect, PTL DEF LocalizerSpec

\* Within the localizer, too, the fix the vehicle runs on is never older than
\* its state allows.
THEOREM LocalizerTrustIsBounded == LocalizerSpec => []MachineProofs!TrustBounded
<1>1. MachineProofs!Spec => []MachineProofs!TrustBounded
  BY MachineProofs!TrustIsBounded, LocalizerAssumption
<1> QED
  BY <1>1, ImplementsMachine, SameMachine, PTL
===============================================================================

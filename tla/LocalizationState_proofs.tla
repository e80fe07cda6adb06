----------------------- MODULE LocalizationState_proofs -----------------------
(* Proofs about the localization state machine, for every value of the       *)
(* budgets and every set of clock steps and fixes.                           *)
EXTENDS LocalizationState, TLAPS

(***************************************************************************)
(* The inductive invariant.  The code compares since_good with the budgets, *)
(* and TrustBounded speaks of the age of the fix: the two are tied together *)
(* by the fact that the clock charged is never less than the clock passed,  *)
(* which in turn needs that the first reading, which is charged nothing,    *)
(* can only be taken while there is no fix yet.                             *)
(***************************************************************************)
ClockRead == state # "Uninitialized" => have_time

AgeCharged == state \in {"Nominal", "Degraded", "DeadReckoning"} => age <= since_good

ChargeBounded ==
  /\ state = "Nominal" => since_good <= Grace
  /\ state = "Degraded" => since_good <= MaxOf(Grace, DegradedBudget)
  /\ state = "DeadReckoning" => since_good <= MaxOf(Grace, DeadReckoningBudget)

IInv == TypeOK /\ ClockRead /\ AgeCharged /\ ChargeBounded /\ StopIsRequested

-------------------------------------------------------------------------------
(* Lemmas about the operators *)

\* What a window is charged is a natural number, and no less than the clock
\* moved once there has been a reading.
LEMMA ChargedBounds ==
  ASSUME NEW d \in Int, have_time \in BOOLEAN
  PROVE  Charged(d) \in Nat /\ (have_time => d <= Charged(d))
  BY DEF Charged, Max0

\* The age of a fix moves with the clock.
LEMMA OlderBounds ==
  ASSUME NEW d \in Int, age \in Int
  PROVE  Older(d) \in Int /\ (Older(d) = age + d \/ Older(d) = -1)
  BY DEF Older

\* The outcomes the node passes have the fields update() reads.
LEMMA OutcomeTypes ==
  ASSUME NEW o \in Outcomes
  PROVE  /\ o.solved \in BOOLEAN
         /\ o.integrity_failed \in BOOLEAN
         /\ o.boards_used \in Int
         /\ o.spread \in Int
         /\ o.integrity_failed => o.solved
<1>1. CASE o \in Fixes
  <2>1. PICK n \in BoardCounts, s \in Spreads, f \in BOOLEAN :
          o = [solved |-> TRUE, boards_used |-> n, spread |-> s, integrity_failed |-> f]
    BY <1>1 DEF Fixes
  <2> QED
    BY <2>1, InputsAssumption
<1>2. CASE o = NoFix
  BY <1>2 DEF NoFix
<1> QED
  BY <1>1, <1>2 DEF Outcomes

-------------------------------------------------------------------------------
(* Every step preserves the invariant *)

LEMMA InitInv == Init => IInv
<1> SUFFICES ASSUME Init PROVE IInv
  OBVIOUS
<1>1. TypeOK
  <2>1. have_time \in BOOLEAN
    BY DEF Init
  <2>2. report \in ReportType
    BY DEF Init, ReportType, States, Reasons
  <2>3. state \in States /\ since_good \in Nat /\ age \in Int
    BY DEF Init, States
  <2> QED
    BY <2>1, <2>2, <2>3 DEF TypeOK
<1>2. ClockRead
  BY DEF Init, ClockRead
<1>3. AgeCharged /\ ChargeBounded
  BY DEF Init, AgeCharged, ChargeBounded
<1>4. StopIsRequested
  BY DEF Init, StopIsRequested
<1> QED
  BY <1>1, <1>2, <1>3, <1>4 DEF IInv

LEMMA WindowInv ==
  ASSUME IInv, NEW d \in ClockSteps, NEW o \in Outcomes, Update(d, o)
  PROVE  IInv'
<1> d \in Int
  BY InputsAssumption
<1>1. TypeOK /\ ClockRead /\ AgeCharged /\ ChargeBounded /\ StopIsRequested
  BY DEF IInv
<1>2. have_time'
  BY DEF Update
<1>3. Charged(d) \in Nat /\ (have_time => d <= Charged(d))
  BY <1>1, ChargedBounds DEF TypeOK
<1>4. Older(d) \in Int /\ (Older(d) = age + d \/ Older(d) = -1)
  BY <1>1, OlderBounds DEF TypeOK
<1> USE DEF States, Reasons, ReportType, Report
<1>5. CASE StayLatched
  BY <1>1, <1>2, <1>5
  DEF StayLatched, IInv, TypeOK, ClockRead, AgeCharged, ChargeBounded, StopIsRequested
<1>6. CASE FailIntegrity(o)
  BY <1>1, <1>2, <1>6
  DEF FailIntegrity, IInv, TypeOK, ClockRead, AgeCharged, ChargeBounded, StopIsRequested
<1>7. CASE Recover(o)
  BY <1>1, <1>2, <1>7, BudgetsAssumption
  DEF Recover, IInv, TypeOK, ClockRead, AgeCharged, ChargeBounded, StopIsRequested, MaxOf
<1>8. CASE AwaitFirstFix(o)
  BY <1>1, <1>2, <1>8
  DEF AwaitFirstFix, IInv, TypeOK, ClockRead, AgeCharged, ChargeBounded, StopIsRequested
<1>9. CASE HoldState(d, o)
  <2>1. /\ since_good' = since_good + Charged(d)
        /\ since_good' <= Grace
        /\ age' = Older(d)
        /\ state' = state
        /\ report' = [state |-> state, elapsed |-> since_good', budget |-> 0,
                      request_mrm |-> FALSE, reason |-> "held"]
        /\ state # "Fault" /\ state # "Uninitialized"
    BY <1>9 DEF HoldState, NotTrusted, WithinGrace
  <2>2. have_time
    BY <1>1, <2>1 DEF ClockRead
  <2>3. since_good' \in Nat
    BY <1>1, <1>3, <2>1 DEF TypeOK
  <2>4. TypeOK'
    BY <1>1, <1>2, <1>4, <2>1, <2>3 DEF TypeOK
  <2>5. AgeCharged'
    BY <1>1, <1>3, <1>4, <2>1, <2>2, <2>3 DEF AgeCharged, TypeOK
  <2>6. ChargeBounded'
    BY <2>1, <2>3, BudgetsAssumption DEF ChargeBounded, MaxOf
  <2> QED
    BY <1>2, <2>1, <2>4, <2>5, <2>6 DEF IInv, ClockRead, StopIsRequested
<1>10. CASE RunOn(d, o)
  <2>1. /\ since_good' = since_good + Charged(d)
        /\ state' = IF Expired(d, o) THEN "Fault"
                    ELSE IF o.solved THEN "Degraded" ELSE "DeadReckoning"
        /\ report' = [state |-> state', elapsed |-> since_good', budget |-> BudgetOf(o),
                      request_mrm |-> Expired(d, o),
                      reason |-> IF Expired(d, o) THEN "expired" ELSE Shortfall(o)]
        /\ age' = IF state = "Uninitialized" THEN 0 ELSE Older(d)
        /\ state # "Fault"
    BY <1>10 DEF RunOn, NotTrusted
  <2>2. since_good' \in Nat
    BY <1>1, <1>3, <2>1 DEF TypeOK
  <2>3. BudgetOf(o) \in Nat
    BY BudgetsAssumption DEF BudgetOf
  <2>4. Shortfall(o) \in Reasons /\ Expired(d, o) \in BOOLEAN
    BY DEF Shortfall, Expired
  <2>5. TypeOK'
    BY <1>1, <1>2, <1>4, <2>1, <2>2, <2>3, <2>4 DEF TypeOK
  <2>6. AgeCharged'
    <3>1. CASE state = "Uninitialized"
      BY <2>1, <2>2, <3>1 DEF AgeCharged
    <3>2. CASE state # "Uninitialized"
      <4>1. have_time /\ age <= since_good
        BY <1>1, <2>1, <3>2 DEF ClockRead, AgeCharged, TypeOK
      <4> QED
        BY <1>1, <1>3, <1>4, <2>1, <2>2, <3>2, <4>1 DEF AgeCharged, TypeOK
    <3> QED
      BY <3>1, <3>2
  <2>7. ChargeBounded'
    BY <2>1, <2>2, <2>3, BudgetsAssumption
    DEF ChargeBounded, MaxOf, Expired, BudgetOf
  <2>8. StopIsRequested'
    BY <2>1 DEF StopIsRequested
  <2> QED
    BY <1>2, <2>5, <2>6, <2>7, <2>8 DEF IInv, ClockRead
<1> QED
  BY <1>5, <1>6, <1>7, <1>8, <1>9, <1>10 DEF Update

LEMMA ResetInv == IInv /\ Reset => IInv'
<1> SUFFICES ASSUME IInv, Reset PROVE IInv'
  OBVIOUS
<1>1. TypeOK'
  <2>1. have_time' \in BOOLEAN
    BY DEF Reset
  <2>2. report' \in ReportType
    BY DEF Reset, IInv, TypeOK
  <2>3. state' \in States /\ since_good' \in Nat /\ age' \in Int
    BY DEF Reset, States
  <2> QED
    BY <2>1, <2>2, <2>3 DEF TypeOK
<1>2. ClockRead'
  BY DEF Reset, ClockRead
<1>3. AgeCharged' /\ ChargeBounded'
  BY DEF Reset, AgeCharged, ChargeBounded
<1>4. StopIsRequested'
  BY DEF Reset, StopIsRequested
<1> QED
  BY <1>1, <1>2, <1>3, <1>4 DEF IInv

LEMMA NextInv == IInv /\ [Next]_vars => IInv'
<1> SUFFICES ASSUME IInv, [Next]_vars PROVE IInv'
  OBVIOUS
<1>1. CASE Window
  BY <1>1, WindowInv DEF Window
<1>2. CASE Reset
  BY <1>2, ResetInv
<1>3. CASE UNCHANGED vars
  BY <1>3
  DEF vars, IInv, TypeOK, ClockRead, AgeCharged, ChargeBounded, StopIsRequested
<1> QED
  BY <1>1, <1>2, <1>3 DEF Next

LEMMA InvariantHolds == Spec => []IInv
  BY InitInv, NextInv, PTL DEF Spec

-------------------------------------------------------------------------------
(* The invariants the runs check *)

\* Every variable has its type, for every value of the thresholds and budgets.
THEOREM TypeCorrect == Spec => []TypeOK
<1>1. IInv => TypeOK
  BY DEF IInv
<1> QED
  BY <1>1, InvariantHolds, PTL

\* The fix the vehicle runs on is never older than its state allows: the
\* budgets hold for the clock time since the fix, and not only for the sum that
\* the code compares with them.
THEOREM TrustIsBounded == Spec => []TrustBounded
<1>1. IInv => TrustBounded
  BY BudgetsAssumption
  DEF IInv, TypeOK, AgeCharged, ChargeBounded, TrustBounded, Patience, MaxOf
<1> QED
  BY <1>1, InvariantHolds, PTL

\* A latched fault requests the stop, and a state to drive on in does not.
THEOREM StopRequested == Spec => []StopIsRequested
<1>1. IInv => StopIsRequested
  BY DEF IInv
<1> QED
  BY <1>1, InvariantHolds, PTL

-------------------------------------------------------------------------------
(* What a step may never do *)

\* A window finds the fault latched, leaves it latched and asks for the stop,
\* whatever it brings.
LEMMA UpdateKeepsFault ==
  ASSUME NEW d, NEW o, Update(d, o), state = "Fault"
  PROVE  state' = "Fault" /\ report'.request_mrm
  BY DEF Update, StayLatched, FailIntegrity, Recover, AwaitFirstFix, HoldState,
         RunOn, NotTrusted, Report

\* Fault is left by an explicit reset only, and asks for the stop until then.
THEOREM FaultSticks == Spec => FaultIsSticky
<1>1. [Next]_vars
        => [state = "Fault" => Reset \/ (state' = "Fault" /\ report'.request_mrm)]_vars
  BY UpdateKeepsFault DEF Next, Window
<1> QED
  BY <1>1, PTL DEF Spec, FaultIsSticky

-------------------------------------------------------------------------------
(* The promise is kept *)

LEMMA InitPromise == Init => Promise!PromiseInit
  BY DEF Init, Promise!PromiseInit, ModeOf

LEMMA WindowPromise ==
  ASSUME IInv, IInv', NEW d \in ClockSteps, NEW o \in Outcomes, Update(d, o)
  PROVE  Promise!PromiseNext \/ UNCHANGED Promise!pvars
<1> USE DEF ModeOf
<1>1. TypeOK /\ TypeOK' /\ TrustBounded'
  BY BudgetsAssumption
  DEF IInv, TypeOK, AgeCharged, ChargeBounded, TrustBounded, Patience, MaxOf
<1>2. CASE StayLatched
  BY <1>2 DEF StayLatched, Promise!pvars
<1>3. CASE FailIntegrity(o)
  BY <1>1, <1>3 DEF FailIntegrity, TypeOK, Promise!PromiseNext, Promise!Stop
<1>4. CASE Recover(o)
  BY <1>1, <1>4 DEF Recover, TypeOK, States, Promise!PromiseNext, Promise!Localize
<1>5. CASE AwaitFirstFix(o)
  BY <1>5 DEF AwaitFirstFix, Promise!pvars
<1>6. CASE HoldState(d, o)
  <2>1. state \in {"Nominal", "Degraded", "DeadReckoning"} /\ state' = state
    BY <1>1, <1>6 DEF HoldState, NotTrusted, WithinGrace, TypeOK, States
  <2>2. Promise!GoOn
    BY <1>1, <2>1, BudgetsAssumption
    DEF Promise!GoOn, Promise!Driving, TypeOK, TrustBounded, Patience, MaxOf
  <2> QED
    BY <2>2 DEF Promise!PromiseNext
<1>7. CASE RunOn(d, o)
  <2>1. /\ state # "Fault"
        /\ state' \in {"Fault", "Degraded", "DeadReckoning"}
        /\ state = "Uninitialized" => age' = 0
    BY <1>7 DEF RunOn, NotTrusted
  <2>2. CASE state' = "Fault"
    BY <1>1, <2>2 DEF TypeOK, Promise!PromiseNext, Promise!Stop
  <2>3. CASE state' # "Fault" /\ state = "Uninitialized"
    BY <2>1, <2>3 DEF Promise!PromiseNext, Promise!StartDrifting
  <2>4. CASE state' # "Fault" /\ state # "Uninitialized"
    <3>1. Promise!GoOn
      BY <1>1, <2>1, <2>4, BudgetsAssumption
      DEF Promise!GoOn, Promise!Driving, TypeOK, States, TrustBounded, Patience, MaxOf
    <3> QED
      BY <3>1 DEF Promise!PromiseNext
  <2> QED
    BY <2>2, <2>3, <2>4
<1> QED
  BY <1>2, <1>3, <1>4, <1>5, <1>6, <1>7 DEF Update

\* The state machine implements the promise: a pose is driven on only while its
\* fix is young enough, and a stop is withdrawn only by an acknowledgement.
THEOREM PromiseKept == Spec => KeepsPromise
<1>1. IInv /\ IInv' /\ [Next]_vars => [Promise!PromiseNext]_(Promise!pvars)
  <2> SUFFICES ASSUME IInv, IInv', [Next]_vars
               PROVE  Promise!PromiseNext \/ UNCHANGED Promise!pvars
    OBVIOUS
  <2>1. CASE Window
    BY <2>1, WindowPromise DEF Window
  <2>2. CASE Reset
    BY <2>2 DEF Reset, ModeOf, Promise!PromiseNext, Promise!Acknowledge
  <2>3. CASE UNCHANGED vars
    BY <2>3 DEF vars, ModeOf, Promise!pvars
  <2> QED
    BY <2>1, <2>2, <2>3 DEF Next
<1> QED
  BY <1>1, InitPromise, InvariantHolds, PTL DEF Spec, KeepsPromise, Promise!PromiseSpec
===============================================================================

------------------------------- MODULE ColdStart -------------------------------
(***************************************************************************)
(* Cold start of the pose estimate (maybeInitialize,                        *)
(* golfcart_aruco_localizer/src/aruco_localizer_node.cpp): the localizer    *)
(* offers the filter an initial pose once several solves agree, and offers  *)
(* it again at a cooldown until odometry comes back from the filter.        *)
(*                                                                         *)
(* External, from how the node uses them: pose_initializer, which answers   *)
(* /localization/initialize, and the EKF, which publishes odometry while it *)
(* is active.  Either may start late, reject or lose a request, or restart. *)
(* Time is counted in windows; positions are points on a line.              *)
(***************************************************************************)
EXTENDS Integers, Sequences

CONSTANTS
  Consecutive,  \* initialization.consecutive_solves
  Cooldown,     \* initialization.republish_cooldown, in windows
  Radius,       \* initialization.agreement_radius
  MaxSpeed,     \* init_max_speed_, per window
  Places,       \* positions a solve may report
  Home,         \* where the vehicle stands once things have settled
  AgeCap        \* bound: samples are not told apart beyond this age

ASSUME ColdStartAssumption ==
  /\ Consecutive \in Nat \ {0}
  /\ Cooldown \in Nat
  /\ Radius \in Nat
  /\ MaxSpeed \in Nat
  /\ Places \subseteq Int
  /\ Home \in Places
  /\ AgeCap \in Nat \ {0}

\* A sample of the age AgeCap agrees with every other, as older ones would.
ASSUME AgeCapAssumption ==
  \A p, q \in Places : p - q <= Radius + MaxSpeed * AgeCap

VARIABLES
  initialized,  \* initialized_
  since_sent,   \* windows since last_init_publish_
  agreeing,     \* init_agreeing_: position and age of every sample
  odom,         \* latest_odom_ has a value
  in_a_row,     \* history: solves in a row that passed the gates
  service,      \* external: pose_initializer is up
  request,      \* external: a request is on its way to it
  filter,       \* external: the EKF is active
  settled       \* external: from here on nothing restarts or fails

nodeVars == <<initialized, since_sent, agreeing, odom, in_a_row>>
outsideVars == <<service, request, filter, settled>>
coldVars == <<nodeVars, outsideVars>>

\* Nothing has been sent since the node started: longer ago than any cooldown.
Never == Cooldown + 1

Aged(n, cap) == IF n < cap THEN n + 1 ELSE n

\* The age of the last publication a window later.
SentAge == IF since_sent = Never THEN Never ELSE Aged(since_sent, Cooldown)

\* The samples a window later.
AgedSamples ==
  [i \in DOMAIN agreeing |->
     [place |-> agreeing[i].place, age |-> Aged(agreeing[i].age, AgeCap)]]

\* Variant for the mutation runs: the oldest sample is not dropped.
PushedUnbounded(p) == Append(AgedSamples, [place |-> p, age |-> 0])

\* The deque with a new sample, at most Consecutive long.
Pushed(p) ==
  LET all == Append(AgedSamples, [place |-> p, age |-> 0])
  IN IF Len(all) > Consecutive THEN Tail(all) ELSE all

PlaceSum(samples) ==
  LET sum[i \in 0..Len(samples)] == IF i = 0 THEN 0 ELSE sum[i - 1] + samples[i].place
  IN sum[Len(samples)]

\* Every sample is within the allowance of the mean, which grows with the time
\* the samples span.
Agree(samples) ==
  LET n       == Len(samples)
      allowed == Radius + MaxSpeed * (samples[1].age - samples[n].age)
      spread(i) == n * samples[i].place - PlaceSum(samples)
  IN \A i \in 1..n : spread(i) <= n * allowed /\ -spread(i) <= n * allowed

-------------------------------------------------------------------------------
(* maybeInitialize, called for every window with a fix *)

\* Variant: the flag is latched by the first publication.
ReturnsOnceSent == initialized

\* The first two returns: the filter is tracking, or the pose has just been
\* sent and its odometry may still come.
Returns ==
  /\ initialized
  /\ odom \/ SentAge < Cooldown

Skip ==
  /\ Returns
  /\ since_sent' = SentAge
  /\ agreeing' = AgedSamples
  /\ UNCHANGED <<initialized, request>>

\* Variant: samples survive a solve that fails the gates.
FailGatesKeeping ==
  /\ ~Returns
  /\ initialized' = FALSE
  /\ since_sent' = SentAge
  /\ agreeing' = AgedSamples
  /\ UNCHANGED request

\* Too few close boards, too little spread, or ill-conditioned.
FailGates ==
  /\ ~Returns
  /\ initialized' = FALSE
  /\ since_sent' = SentAge
  /\ agreeing' = <<>>
  /\ UNCHANGED request

MaySend(p) ==
  /\ Len(Pushed(p)) >= Consecutive
  /\ Agree(Pushed(p))
  /\ SentAge >= Cooldown

Collect(p) ==
  /\ ~Returns
  /\ ~MaySend(p)
  /\ initialized' = FALSE
  /\ since_sent' = SentAge
  /\ agreeing' = Pushed(p)
  /\ UNCHANGED request

\* Without the service the pose is published all the same, and nothing acts
\* on it.
SendInitialPose(p) ==
  /\ ~Returns
  /\ MaySend(p)
  /\ initialized' = TRUE
  /\ since_sent' = 0
  /\ agreeing' = Pushed(p)
  /\ request' = (request \/ service)

(* Windows *)

GoodSolve(p) ==
  /\ settled => p = Home
  /\ Skip \/ Collect(p) \/ SendInitialPose(p)
  /\ in_a_row' = Aged(in_a_row, Consecutive)
  /\ UNCHANGED <<odom, service, filter, settled>>

PoorSolve ==
  /\ ~settled
  /\ Skip \/ FailGates
  /\ in_a_row' = 0
  /\ UNCHANGED <<odom, service, filter, settled>>

\* A window without a fix: time passes.
NoSolve ==
  /\ since_sent' = SentAge
  /\ agreeing' = AgedSamples
  /\ UNCHANGED <<initialized, odom, in_a_row, outsideVars>>

\* The odometry subscription.  latest_odom_ is never cleared again.
ReceiveOdometry ==
  /\ filter
  /\ odom' = TRUE
  /\ UNCHANGED <<initialized, since_sent, agreeing, in_a_row, outsideVars>>

NodeInit ==
  /\ initialized = FALSE
  /\ since_sent = Never
  /\ agreeing = <<>>
  /\ odom = FALSE
  /\ in_a_row = 0

RestartLocalizer ==
  /\ ~settled
  /\ initialized' = FALSE
  /\ since_sent' = Never
  /\ agreeing' = <<>>
  /\ odom' = FALSE
  /\ in_a_row' = 0
  /\ UNCHANGED outsideVars

-------------------------------------------------------------------------------
(* pose_initializer and the EKF *)

\* The pose reaches the filter, which becomes active.
Accept ==
  /\ request
  /\ service
  /\ request' = FALSE
  /\ filter' = TRUE
  /\ UNCHANGED <<nodeVars, service, settled>>

\* Rejected, or handed on while the filter was not listening.
Reject ==
  /\ ~settled
  /\ request
  /\ request' = FALSE
  /\ UNCHANGED <<nodeVars, service, filter, settled>>

ServiceComes ==
  /\ ~service
  /\ service' = TRUE
  /\ UNCHANGED <<nodeVars, request, filter, settled>>

ServiceGoes ==
  /\ ~settled
  /\ service
  /\ service' = FALSE
  /\ request' = FALSE
  /\ UNCHANGED <<nodeVars, filter, settled>>

FilterRestarts ==
  /\ ~settled
  /\ filter
  /\ filter' = FALSE
  /\ UNCHANGED <<nodeVars, service, request, settled>>

Settle ==
  /\ ~settled
  /\ settled' = TRUE
  /\ UNCHANGED <<nodeVars, service, request, filter>>

OutsideInit == service = FALSE /\ request = FALSE /\ filter = FALSE /\ settled = FALSE

Outside == Accept \/ Reject \/ ServiceComes \/ ServiceGoes \/ FilterRestarts \/ Settle

-------------------------------------------------------------------------------
ColdInit == NodeInit /\ OutsideInit

Solves == \E p \in Places : GoodSolve(p)

ColdNext ==
  \/ Solves \/ PoorSolve \/ NoSolve
  \/ ReceiveOdometry
  \/ RestartLocalizer
  \/ Outside

\* The window timer and the odometry subscription are served by an executor that
\* is never blocked; once things have settled, boards are in view.  That things
\* settle is not assumed.
ColdSpec ==
  /\ ColdInit /\ [][ColdNext]_coldVars
  /\ WF_coldVars(settled /\ Solves)
  /\ WF_coldVars(ReceiveOdometry)
  /\ WF_coldVars(settled /\ ServiceComes)
  /\ WF_coldVars(Accept)

-------------------------------------------------------------------------------
(* Properties *)

Flags == {initialized, odom, service, request, filter, settled} \subseteq BOOLEAN

\* Type invariant: flags, ages and samples.
ColdTypeOK ==
  /\ Flags
  /\ since_sent \in 0..Never
  /\ agreeing \in Seq([place : Places, age : 0..AgeCap])
  /\ Len(agreeing) <= Consecutive
  /\ in_a_row \in 0..Consecutive

Sends == \E p \in Places : SendInitialPose(p)

\* "Several in a row landing in the same place is much harder to fake"
\* (aruco_localizer_node.cpp:573-575): the pose is sent only when the last
\* consecutive_solves solves all passed the gates.
EveryPoseIsConfirmed == [][Sends => in_a_row' = Consecutive]_coldVars

\* The first pose of a cold start is confirmed that way, whatever poor solves,
\* empty windows and restarts came before it.
FirstPoseIsConfirmed ==
  [][Sends /\ since_sent = Never => in_a_row' = Consecutive]_coldVars

\* The filter is gone, and the localizer still takes the odometry it once
\* heard for evidence that the pose landed.
StaleEvidence == odom /\ ~filter

\* Once pose_initializer stays up and boards stay in view, the filter becomes
\* active and the localizer hears of it, whatever was lost, rejected or
\* restarted before: the pose is offered until it lands.
\* aruco_localizer_node.cpp:492-516.
ColdStartCompletes == settled /\ ~StaleEvidence ~> filter /\ odom
===============================================================================

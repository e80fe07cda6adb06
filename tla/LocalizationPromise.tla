------------------------- MODULE LocalizationPromise -------------------------
(***************************************************************************)
(* What the localization state machine promises the rest of the vehicle,    *)
(* without saying how windows are judged: a pose is usable only while the   *)
(* fix behind it is young enough, and once it is not, the vehicle is told   *)
(* to stop and stays told until somebody acknowledges it.                   *)
(***************************************************************************)
EXTENDS Integers

CONSTANTS
  FreshFor,   \* how old a fix may be and still count as localized
  UsableFor   \* how old a fix may be and still be driven on

VARIABLES
  mode,   \* "waiting", "localized", "drifting" or "stopped"
  fixAge  \* age of the fix being driven on

pvars == <<mode, fixAge>>

Driving == {"localized", "drifting"}

PromiseInit == mode = "waiting" /\ fixAge = 0

\* A trusted fix.
Localize == mode # "stopped" /\ mode' = "localized" /\ fixAge' = 0

\* The first fix there is, not good enough to be trusted but better than none.
StartDrifting == mode = "waiting" /\ mode' = "drifting" /\ fixAge' = 0

\* Going on with the fix there is.  Only a trusted fix makes the vehicle
\* localized again.
GoOn ==
  /\ mode \in Driving
  /\ mode' \in {mode, "drifting"}
  /\ fixAge' \in Int
  /\ fixAge' <= IF mode' = "localized" THEN FreshFor ELSE UsableFor

Stop == mode' = "stopped" /\ fixAge' \in Int

Acknowledge == mode' = "waiting" /\ fixAge' = 0

PromiseNext == Localize \/ StartDrifting \/ GoOn \/ Stop \/ Acknowledge

PromiseSpec == PromiseInit /\ [][PromiseNext]_pvars
===============================================================================

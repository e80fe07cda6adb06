--------------------------- MODULE KeyboardControl ---------------------------
(***************************************************************************)
(* keyboard_control: the Tk thread turns keys into a commanded speed,      *)
(* steering angle and gear, and may move the output to other topics; the   *)
(* executor thread publishes what is commanded at every timer tick.  The   *)
(* two share their attributes without a lock.                              *)
(*                                                                         *)
(* The executor reads computed values only, and a key changes one of them, *)
(* so a key is one step.  A tick is not: it reads the gear twice and       *)
(* publishes twice, and looks a publisher up before it publishes with it;  *)
(* create_publishers takes four steps to replace two publishers.           *)
(***************************************************************************)
EXTENDS Integers

CONSTANTS StepSpeed, MaxSpeed,      \* speed_step_ms, max_speed_ms
          StepSteer, MaxSteer,      \* steering_step_deg, max_steer_deg
          Topics, Direct,           \* pairs of output topics; the preset
          MaxKeys                   \* bound on what the operator does

Destroyed == "destroyed"

ASSUME KeyboardAssumption ==
    /\ StepSpeed \in Nat \ {0} /\ StepSteer \in Nat \ {0}
    /\ MaxSpeed \in Nat /\ MaxSteer \in Nat
    /\ Direct \in Topics /\ Destroyed \notin Topics
    /\ MaxKeys \in Nat

VARIABLES
    speed_steps, steering_steps, gear_type,     \* what the operator commands
    topics,         \* where to: control_cmd_topic and gear_cmd_topic
    pubs,           \* pub_control_cmd and pub_gear_cmd: a topic, or destroyed
    gui,            \* where the Tk thread is
    tick,           \* where the executor is, and the message it is filling
    wire,           \* the last command on each topic
    due,            \* how far a tick begun since the last change has come
    disturbed,      \* topics were changed, or the tool left, during the last tick
    keys            \* what the operator has done so far, for the bound

vars == <<speed_steps, steering_steps, gear_type, topics, pubs, gui, tick, wire,
          due, disturbed, keys>>
commanded == <<speed_steps, steering_steps, gear_type>>

Gears == {"DRIVE", "REVERSE", "PARK"}
Limited(low, x, high) == IF x < low THEN low ELSE IF x > high THEN high ELSE x
Size(x) == IF x < 0 THEN -x ELSE x

max_speed_steps == MaxSpeed \div StepSpeed
max_steer_steps == MaxSteer \div StepSteer

\* calculate_values
TargetVelocity == Limited(-MaxSpeed, StepSpeed * speed_steps, MaxSpeed)
SteeringAngle == Limited(-MaxSteer, StepSteer * steering_steps, MaxSteer)

Signed(velocity, gear) == IF gear = "REVERSE" THEN -velocity ELSE velocity

\* Variant for the mutation runs: the acceleration is not limited.
FreeAcceleration(target, current) == target - Size(current)

\* Half a metre per second squared is the unit.
Acceleration(target, current) == Limited(-2, target - Size(current), 2)

Idle == [at |-> "idle", velocity |-> 0, angle |-> 0, acceleration |-> 0,
         gear |-> "none", pub |-> Destroyed]
Silent == [velocity |-> 0, angle |-> 0, gear |-> "none"]

Init ==
    /\ speed_steps = 0 /\ steering_steps = 0
    /\ gear_type = "DRIVE"
    /\ topics = Direct
    /\ pubs = [control |-> Direct, gear |-> Direct]
    /\ gui = "idle"
    /\ tick = Idle
    /\ wire = [t \in Topics |-> Silent]
    /\ due = "none"
    /\ disturbed = FALSE
    /\ keys = 0

-----------------------------------------------------------------------------
(* The Tk thread.                                                          *)

Operates ==
    /\ gui = "idle"
    /\ keys < MaxKeys
    /\ keys' = keys + 1
    /\ due' = "none"

KeySpeed(steps) ==
    /\ Operates
    /\ speed_steps' = steps
    /\ UNCHANGED <<steering_steps, gear_type, topics, pubs, gui, tick, wire,
                   disturbed>>

KeySteer(steps) ==
    /\ Operates
    /\ steering_steps' = steps
    /\ UNCHANGED <<speed_steps, gear_type, topics, pubs, gui, tick, wire,
                   disturbed>>

KeyGear(gear) ==
    /\ Operates
    /\ gear_type' = gear
    /\ UNCHANGED <<speed_steps, steering_steps, topics, pubs, gui, tick, wire,
                   disturbed>>

ProcessKey ==
    \/ KeySpeed(Limited(-max_speed_steps, speed_steps + 1, max_speed_steps))    \* Up
    \/ KeySpeed(Limited(-max_speed_steps, speed_steps - 1, max_speed_steps))    \* Down
    \/ KeySpeed(0)                                                              \* space
    \/ KeySteer(Limited(-max_steer_steps, steering_steps + 1, max_steer_steps)) \* Left
    \/ KeySteer(Limited(-max_steer_steps, steering_steps - 1, max_steer_steps)) \* Right
    \/ KeySteer(0)                                                              \* Return
    \/ \E gear \in Gears : KeyGear(gear)                                        \* x, c, v

\* A publisher is destroyed under a tick that has looked it up.
Loses(at) == tick' = IF tick.at = at THEN [tick EXCEPT !.pub = Destroyed] ELSE tick

\* Choosing the preset, or applying custom topics, none of them empty.  The
\* publishers in use are destroyed before new ones exist.
SetTopics(t) ==
    /\ Operates
    /\ topics' = t
    /\ pubs' = [pubs EXCEPT !.control = Destroyed]
    /\ Loses("send control")
    /\ gui' = "destroy gear"
    /\ disturbed' = TRUE
    /\ UNCHANGED wire /\ UNCHANGED commanded

Replace(from, to, next) ==
    /\ gui = from
    /\ pubs' = next
    /\ gui' = to
    /\ UNCHANGED <<topics, wire, due, disturbed, keys>> /\ UNCHANGED commanded

DestroyGear ==
    /\ Replace("destroy gear", "create control", [pubs EXCEPT !.gear = Destroyed])
    /\ Loses("send gear")

CreateControl(to) ==
    /\ Replace("create control", to, [pubs EXCEPT !.control = topics])
    /\ UNCHANGED tick

CreateGear(t) ==
    /\ Replace("create gear", "idle", [pubs EXCEPT !.gear = t])
    /\ UNCHANGED tick

\* Variant for the mutation runs: the gear publisher is always made anew on the preset.
CreateGearOnPreset == DestroyGear \/ CreateControl("create gear") \/ CreateGear(Direct)

\* Variant for the mutation runs: only the control publisher is made anew.
CreateControlOnly == DestroyGear \/ CreateControl("idle")

CreatePublishers == DestroyGear \/ CreateControl("create gear") \/ CreateGear(topics)

\* quit() shuts ROS down under the executor; no stop is published.
Quit ==
    /\ gui = "idle"
    /\ gui' = "gone"
    /\ disturbed' = TRUE
    /\ UNCHANGED <<topics, pubs, tick, wire, due, keys>> /\ UNCHANGED commanded

-----------------------------------------------------------------------------
(* The executor thread: publish_cmd.                                       *)

Ticks(from, next) ==
    /\ tick.at = from
    /\ tick' = next
    /\ UNCHANGED <<topics, pubs, gui, keys>> /\ UNCHANGED commanded

TickBegin ==
    /\ gui # "gone"
    /\ Ticks("idle", [at |-> "sign", velocity |-> TargetVelocity, angle |-> SteeringAngle,
                      acceleration |-> 0, gear |-> "none", pub |-> Destroyed])
    /\ due' = IF due = "none" THEN "begun" ELSE due
    /\ disturbed' = (gui # "idle")
    /\ UNCHANGED wire

\* The gear is read after the speed; the speed is read again for the
\* acceleration, and compared with the speed last reported.
TickSign(current) ==
    /\ Ticks("sign", [tick EXCEPT !.at = "control",
                        !.velocity = Signed(tick.velocity, gear_type),
                        !.acceleration = Acceleration(TargetVelocity, current)])
    /\ UNCHANGED <<wire, due, disturbed>>

TickControl ==
    /\ Ticks("control", [tick EXCEPT !.at = "send control", !.pub = pubs.control])
    /\ UNCHANGED <<wire, due, disturbed>>

\* A publisher that is destroyed by then, or whose context is shut down, raises,
\* and the exception ends rclpy.spin and its thread.
CanPublish == tick.pub # Destroyed /\ gui # "gone"

Send(at, next, sent) ==
    /\ IF CanPublish
       THEN /\ Ticks(at, [tick EXCEPT !.at = next, !.pub = Destroyed])
            /\ wire' = [wire EXCEPT ![tick.pub] = sent]
       ELSE /\ Ticks(at, [tick EXCEPT !.at = "dead"])
            /\ UNCHANGED wire
    /\ UNCHANGED disturbed

\* Variant for the mutation runs: the message goes out without its steering angle.
SendControlStraight ==
    /\ Send("send control", "gear", [wire[tick.pub] EXCEPT !.velocity = tick.velocity])
    /\ UNCHANGED due

SendControl ==
    /\ Send("send control", "gear",
            [wire[tick.pub] EXCEPT !.velocity = tick.velocity, !.angle = tick.angle])
    /\ UNCHANGED due

TickGear ==
    /\ Ticks("gear", [tick EXCEPT !.at = "load gear", !.gear = gear_type])
    /\ UNCHANGED <<wire, due, disturbed>>

TickLoadGear ==
    /\ Ticks("load gear", [tick EXCEPT !.at = "send gear", !.pub = pubs.gear])
    /\ UNCHANGED <<wire, due, disturbed>>

SendGear ==
    /\ Send("send gear", "idle", [wire[tick.pub] EXCEPT !.gear = tick.gear])
    /\ due' = IF CanPublish /\ due = "begun" THEN "done" ELSE due

Speeds == -MaxSpeed..MaxSpeed
Tick ==
    \/ TickBegin
    \/ \E current \in Speeds : TickSign(current)
    \/ TickControl \/ SendControl
    \/ TickGear \/ TickLoadGear \/ SendGear

Next == ProcessKey \/ (\E t \in Topics : SetTopics(t)) \/ CreatePublishers \/ Quit \/ Tick

\* The timer ticks, and a handler that has begun comes to its end; nobody has
\* to press a key.
Fairness == WF_vars(Tick) /\ WF_vars(CreatePublishers)

Spec == Init /\ [][Next]_vars /\ Fairness

-----------------------------------------------------------------------------
KeyboardTypeOK ==
    /\ speed_steps \in -max_speed_steps..max_speed_steps
    /\ steering_steps \in -max_steer_steps..max_steer_steps
    /\ gear_type \in Gears
    /\ topics \in Topics
    /\ pubs \in [control : Topics \cup {Destroyed}, gear : Topics \cup {Destroyed}]
    /\ gui \in {"idle", "destroy gear", "create control", "create gear", "gone"}
    /\ tick \in [at : {"idle", "sign", "control", "send control", "gear", "load gear",
                       "send gear", "dead"},
                 velocity : Speeds, angle : -MaxSteer..MaxSteer, acceleration : -2..2,
                 gear : Gears \cup {"none"}, pub : Topics \cup {Destroyed}]
    /\ wire \in [Topics -> [velocity : Speeds, angle : -MaxSteer..MaxSteer,
                            gear : Gears \cup {"none"}]]
    /\ due \in {"none", "begun", "done"}
    /\ disturbed \in BOOLEAN
    /\ keys \in 0..MaxKeys

Commanded == [velocity |-> Signed(TargetVelocity, gear_type),
              angle |-> SteeringAngle, gear |-> gear_type]

\* One tick behind the operator: once a tick has begun after the last key or
\* change of topics, and has published, the topics that are selected carry
\* exactly what is commanded, and no message of an older tick comes after it.
\* So Space is on the wire within two timer periods, whatever was being filled.
OneTickBehind == due = "done" => wire[topics] = Commanded

\* The thread that publishes dies only of a tick during which the operator
\* changed the topics or left: one that begins when the publishers stand, and
\* that no change overlaps, finds both of them and publishes, whatever changes
\* and keys came before.  (A tick that has looked a publisher up may die of it
\* after the change is complete.)
DiesOnlyDisturbed == tick.at = "dead" => disturbed

\* When the operator has stopped pressing keys, the vehicle is told what is
\* commanded for good, unless publishing has ended.
ObeyedInTheEnd == <>[](tick.at = "dead" \/ gui = "gone" \/ wire[topics] = Commanded)
=============================================================================

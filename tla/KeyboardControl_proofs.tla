----------------------- MODULE KeyboardControl_proofs -----------------------
(***************************************************************************)
(* What is proved of KeyboardControl, for every step, limit, set of topics *)
(* and number of keys.                                                     *)
(*                                                                         *)
(* The message being filled agrees with what is commanded from the moment  *)
(* a tick has begun after the last change (Fresh), and it is published on  *)
(* the topics selected because a publisher that exists is on them          *)
(* (OnTopic), and so is one that such a tick has looked up and that still  *)
(* exists (Held).                                                          *)
(***************************************************************************)
EXTENDS KeyboardControl, TLAPS

Carried(velocity, angle) == velocity = Commanded.velocity /\ angle = SteeringAngle

Ats == {"idle", "sign", "control", "send control", "gear", "load gear", "send gear", "dead"}
Messages == [at : Ats, velocity : Speeds, angle : -MaxSteer..MaxSteer, acceleration : -2..2,
             gear : Gears \cup {"none"}, pub : Topics \cup {Destroyed}]
Commands == [velocity : Speeds, angle : -MaxSteer..MaxSteer, gear : Gears \cup {"none"}]

Fresh ==
    due # "none" =>
        /\ tick.at = "sign" => tick.velocity = TargetVelocity /\ tick.angle = SteeringAngle
        /\ tick.at \in {"control", "send control"} => Carried(tick.velocity, tick.angle)
        /\ tick.at \in {"gear", "load gear", "send gear"} =>
                Carried(wire[topics].velocity, wire[topics].angle)
        /\ tick.at \in {"load gear", "send gear"} => tick.gear = gear_type
        /\ due = "begun" => tick.at # "idle"

OnTopic ==
    /\ pubs.control \in {Destroyed, topics}
    /\ gui # "destroy gear" => pubs.gear \in {Destroyed, topics}
    /\ gui = "destroy gear" => pubs.control = Destroyed
    /\ gui = "idle" => pubs.control # Destroyed /\ pubs.gear # Destroyed
    /\ gui = "create gear" => pubs.control # Destroyed

\* A tick begun after the change has published nothing while the old gear
\* publisher exists.
NotYetOut ==
    gui = "destroy gear" =>
        /\ due # "done"
        /\ due = "begun" => tick.at \notin {"gear", "load gear", "send gear"}
        /\ (due = "begun" /\ tick.at = "send control") => tick.pub = Destroyed

Held ==
    (due # "none" /\ tick.at \in {"send control", "send gear"}) => tick.pub \in {Destroyed, topics}

\* A tick that nothing has disturbed has found the publishers standing.
Calm ==
    ~disturbed => /\ gui = "idle" /\ tick.at # "dead"
                  /\ tick.at \in {"send control", "send gear"} => tick.pub # Destroyed

IInv == KeyboardTypeOK /\ OnTopic /\ NotYetOut /\ Held /\ Calm /\ Fresh /\ OneTickBehind

\* What is commanded lies within the limits the tool was given.
LEMMA StepCounts == max_speed_steps \in Nat /\ max_steer_steps \in Nat
  BY KeyboardAssumption DEF max_speed_steps, max_steer_steps

\* A value taken one up or down, or scaled, stays in its range.
LEMMA LimitedRange ==
    ASSUME NEW n \in Nat, NEW x \in Int
    PROVE  Limited(-n, x, n) \in -n..n
  BY DEF Limited

LEMMA SymmetricRange ==
    ASSUME NEW n \in Nat
    PROVE  -n..n \subseteq Int /\ 0 \in -n..n
  OBVIOUS

LEMMA LimitsHold ==
    ASSUME KeyboardTypeOK
    PROVE  /\ TargetVelocity \in Speeds
           /\ SteeringAngle \in -MaxSteer..MaxSteer
           /\ Commanded.velocity \in Speeds
<1>1. speed_steps \in Int /\ steering_steps \in Int
  BY StepCounts, SymmetricRange, Zenon DEF KeyboardTypeOK
<1>2. StepSpeed * speed_steps \in Int /\ StepSteer * steering_steps \in Int
  BY <1>1, KeyboardAssumption
<1>3. TargetVelocity \in Speeds
  BY <1>2, KeyboardAssumption, LimitedRange DEF TargetVelocity, Speeds
<1>4. SteeringAngle \in -MaxSteer..MaxSteer
  BY <1>2, KeyboardAssumption, LimitedRange DEF SteeringAngle
<1>5. Commanded.velocity \in Speeds
  BY <1>3, KeyboardAssumption DEF Commanded, Signed, Speeds
<1>. QED
  BY <1>3, <1>4, <1>5

\* The acceleration requested is bounded, whatever is reported.
LEMMA AccelerationBounded ==
    ASSUME NEW t \in Speeds, NEW c \in Speeds
    PROVE  Acceleration(t, c) \in -2..2
  BY KeyboardAssumption DEF Acceleration, Limited, Size, Speeds

LEMMA InitInvariant == Init => IInv
<1> SUFFICES ASSUME Init PROVE IInv
  OBVIOUS
<1>1. Idle \in Messages /\ Idle.at = "idle" /\ Silent \in Commands
  BY KeyboardAssumption DEF Idle, Messages, Ats, Silent, Commands, Speeds
<1>2. KeyboardTypeOK
  <2>1. /\ 0 \in -max_speed_steps..max_speed_steps /\ 0 \in -max_steer_steps..max_steer_steps
        /\ 0 \in 0..MaxKeys
    BY KeyboardAssumption, StepCounts
  <2>2. tick \in Messages /\ wire \in [Topics -> Commands]
    BY <1>1 DEF Init
  <2>. QED
    BY <2>1, <2>2, KeyboardAssumption DEF Init, KeyboardTypeOK, Gears, Messages, Ats, Commands
<1>3. OnTopic
  BY KeyboardAssumption DEF Init, OnTopic
<1>4. NotYetOut /\ Held /\ Calm /\ Fresh /\ OneTickBehind
  BY <1>1 DEF Init, NotYetOut, Held, Calm, Fresh, OneTickBehind
<1>. QED
  BY <1>2, <1>3, <1>4 DEF IInv

-----------------------------------------------------------------------------
(* The Tk thread.                                                          *)

\* A key changes what is commanded, within its range, and nothing else.
LEMMA KeyPressPreserves ==
    ASSUME IInv, Operates, UNCHANGED <<topics, pubs, gui, tick, wire, disturbed>>,
           speed_steps' \in -max_speed_steps..max_speed_steps,
           steering_steps' \in -max_steer_steps..max_steer_steps, gear_type' \in Gears
    PROVE  IInv'
<1>1. due' = "none"
  BY DEF Operates
<1>2. keys' \in 0..MaxKeys
  <2>1. keys \in 0..MaxKeys /\ keys < MaxKeys /\ keys' = keys + 1
    BY Zenon DEF Operates, IInv, KeyboardTypeOK
  <2>. QED
    BY <2>1, KeyboardAssumption
<1>3. KeyboardTypeOK'
  BY <1>1, <1>2, Zenon DEF IInv, KeyboardTypeOK
<1>4. OnTopic' /\ Calm'
  BY DEF IInv, OnTopic, Calm
<1>5. NotYetOut' /\ Held' /\ Fresh' /\ OneTickBehind'
  BY <1>1 DEF NotYetOut, Held, Fresh, OneTickBehind
<1>. QED
  BY <1>3, <1>4, <1>5 DEF IInv

LEMMA KeyPreserves ==
    ASSUME IInv, ProcessKey
    PROVE  IInv'
<1>0. /\ speed_steps \in -max_speed_steps..max_speed_steps
      /\ steering_steps \in -max_steer_steps..max_steer_steps /\ gear_type \in Gears
  BY Zenon DEF IInv, KeyboardTypeOK
<1>1. CASE \E steps \in -max_speed_steps..max_speed_steps : KeySpeed(steps)
  BY <1>0, <1>1, KeyPressPreserves, Zenon DEF KeySpeed
<1>2. CASE \E steps \in -max_steer_steps..max_steer_steps : KeySteer(steps)
  BY <1>0, <1>2, KeyPressPreserves, Zenon DEF KeySteer
<1>3. CASE \E gear \in Gears : KeyGear(gear)
  BY <1>0, <1>3, KeyPressPreserves, Zenon DEF KeyGear
<1>. /\ speed_steps \in Int /\ steering_steps \in Int
     /\ 0 \in -max_speed_steps..max_speed_steps /\ 0 \in -max_steer_steps..max_steer_steps
  BY StepCounts, SymmetricRange, Zenon DEF IInv, KeyboardTypeOK
<1>4. /\ speed_steps + 1 \in Int /\ speed_steps - 1 \in Int
      /\ steering_steps + 1 \in Int /\ steering_steps - 1 \in Int
  OBVIOUS
<1>5. /\ Limited(-max_speed_steps, speed_steps + 1, max_speed_steps)
            \in -max_speed_steps..max_speed_steps
      /\ Limited(-max_speed_steps, speed_steps - 1, max_speed_steps)
            \in -max_speed_steps..max_speed_steps
      /\ Limited(-max_steer_steps, steering_steps + 1, max_steer_steps)
            \in -max_steer_steps..max_steer_steps
      /\ Limited(-max_steer_steps, steering_steps - 1, max_steer_steps)
            \in -max_steer_steps..max_steer_steps
  BY <1>4, StepCounts, LimitedRange
<1>. QED
  BY <1>1, <1>2, <1>3, <1>4, <1>5, Zenon DEF ProcessKey

\* A tick whose publisher is destroyed keeps all else it has.
LEMMA LosesKeeps ==
    ASSUME KeyboardTypeOK, NEW at, Loses(at)
    PROVE  /\ tick' \in Messages
           /\ tick'.at = tick.at /\ tick'.velocity = tick.velocity
           /\ tick'.angle = tick.angle /\ tick'.gear = tick.gear
           /\ tick'.pub = (IF tick.at = at THEN Destroyed ELSE tick.pub)
<1>1. tick \in Messages
  BY DEF KeyboardTypeOK, Messages, Ats
<1>. QED
  BY <1>1 DEF Loses, Messages

LEMMA TopicsPreserve ==
    ASSUME IInv, NEW t \in Topics, SetTopics(t)
    PROVE  IInv'
<1>1. /\ gui = "idle" /\ gui' = "destroy gear"
      /\ pubs' = [pubs EXCEPT !.control = Destroyed]
      /\ topics' = t /\ due' = "none" /\ disturbed' = TRUE
      /\ keys < MaxKeys /\ keys' = keys + 1
      /\ wire' = wire /\ UNCHANGED commanded
  BY DEF SetTopics, Operates
<1>2. KeyboardTypeOK'
  <2>0. keys \in 0..MaxKeys /\ keys < MaxKeys /\ keys' = keys + 1
    BY <1>1, Zenon DEF IInv, KeyboardTypeOK
  <2>1. keys' \in 0..MaxKeys
    BY <2>0, KeyboardAssumption
  <2>2. pubs' \in [control : Topics \cup {Destroyed}, gear : Topics \cup {Destroyed}]
    BY <1>1 DEF IInv, KeyboardTypeOK
  <2>3. tick' \in Messages
    BY LosesKeeps DEF IInv, SetTopics
  <2>. QED
    BY <1>1, <2>1, <2>2, <2>3, Zenon DEF IInv, commanded, KeyboardTypeOK, Messages, Ats
<1>3. OnTopic'
  <2>1. topics' = t
    BY <1>1
  <2>2. pubs'.control = Destroyed /\ pubs'.gear = pubs.gear
    BY <1>1 DEF IInv, KeyboardTypeOK
  <2>. QED
    BY <2>1, <2>2, <1>1 DEF IInv, OnTopic
<1>4. (NotYetOut /\ Held /\ Calm /\ Fresh /\ OneTickBehind)'
  BY <1>1 DEF NotYetOut, Held, Calm, Fresh, OneTickBehind
<1>. QED
  BY <1>2, <1>3, <1>4 DEF IInv

\* Replacing publishers touches neither what is commanded nor the message.
LEMMA ReplacePreserves ==
    ASSUME IInv, CreatePublishers
    PROVE  IInv'
<1>1. UNCHANGED <<topics, wire, due, disturbed, keys>> /\ UNCHANGED commanded
  BY DEF CreatePublishers, DestroyGear, CreateControl, CreateGear, Replace
<1>2. /\ tick' \in Messages
      /\ tick'.at = tick.at /\ tick'.velocity = tick.velocity
      /\ tick'.angle = tick.angle /\ tick'.gear = tick.gear
      /\ tick'.pub \in {Destroyed, tick.pub}
  <2>1. CASE DestroyGear
    BY <2>1, LosesKeeps DEF IInv, DestroyGear
  <2>2. CASE ~DestroyGear
    BY <2>2 DEF IInv, KeyboardTypeOK, CreatePublishers, CreateControl, CreateGear, Messages, Ats
  <2>. QED
    BY <2>1, <2>2
<1>3. /\ gui \in {"destroy gear", "create control", "create gear"}
      /\ gui' \in {"create control", "create gear", "idle"}
      /\ pubs' \in [control : Topics \cup {Destroyed}, gear : Topics \cup {Destroyed}]
  BY DEF IInv, KeyboardTypeOK, CreatePublishers, DestroyGear, CreateControl, CreateGear, Replace
<1>4. KeyboardTypeOK'
  BY <1>1, <1>2, <1>3, Zenon DEF IInv, commanded, KeyboardTypeOK, Messages, Ats
<1>5. OnTopic'
  BY <1>1, KeyboardAssumption
     DEF IInv, CreatePublishers, DestroyGear, CreateControl, CreateGear, Replace,
         KeyboardTypeOK, OnTopic
<1>6. (NotYetOut /\ Held /\ Calm)'
  BY <1>1, <1>2, <1>3 DEF IInv, NotYetOut, Held, Calm
<1>7. (Fresh /\ OneTickBehind)'
  BY <1>1, <1>2
     DEF IInv, commanded, Fresh, OneTickBehind, Carried, Commanded, TargetVelocity, SteeringAngle
<1>. QED
  BY <1>4, <1>5, <1>6, <1>7 DEF IInv

LEMMA QuitPreserves ==
    ASSUME IInv, Quit
    PROVE  IInv'
<1>1. UNCHANGED <<topics, pubs, tick, wire, due, keys>> /\ UNCHANGED commanded
      /\ gui = "idle" /\ gui' = "gone" /\ disturbed' = TRUE
  BY DEF Quit
<1>2. (KeyboardTypeOK /\ OnTopic /\ NotYetOut /\ Held /\ Calm)'
  BY <1>1, StepCounts, KeyboardAssumption
     DEF IInv, commanded, KeyboardTypeOK, OnTopic, NotYetOut, Held, Calm
<1>3. (Fresh /\ OneTickBehind)'
  BY <1>1
     DEF IInv, commanded, Fresh, OneTickBehind, Carried, Commanded, TargetVelocity, SteeringAngle
<1>. QED
  BY <1>2, <1>3 DEF IInv

-----------------------------------------------------------------------------
(* The executor thread.                                                    *)

LEMMA TickKeepsCommand ==
    ASSUME NEW from, NEW next, Ticks(from, next)
    PROVE  /\ UNCHANGED <<topics, pubs, gui, keys>>
           /\ Commanded' = Commanded /\ TargetVelocity' = TargetVelocity
           /\ SteeringAngle' = SteeringAngle
           /\ UNCHANGED commanded
  BY DEF Ticks, commanded, Commanded, TargetVelocity, SteeringAngle

\* What is left to show of a step of the executor once its message, what it
\* leaves on the wire and what is due are known to be well formed.
LEMMA TickType ==
    ASSUME KeyboardTypeOK, NEW from, NEW next, Ticks(from, next), tick' \in Messages,
           wire' \in [Topics -> Commands], due' \in {"none", "begun", "done"},
           disturbed' \in BOOLEAN
    PROVE  KeyboardTypeOK'
<1>1. UNCHANGED <<topics, pubs, gui, keys>> /\ UNCHANGED commanded
  BY DEF Ticks
<1>. QED
  BY <1>1, Zenon DEF commanded, KeyboardTypeOK, Messages, Ats, Commands

LEMMA BeginPreserves ==
    ASSUME IInv, TickBegin
    PROVE  IInv'
<1> DEFINE next == [at |-> "sign", velocity |-> TargetVelocity, angle |-> SteeringAngle,
                    acceleration |-> 0, gear |-> "none", pub |-> Destroyed]
<1>1. /\ UNCHANGED <<topics, pubs, gui, keys, wire>> /\ UNCHANGED commanded
      /\ Commanded' = Commanded /\ TargetVelocity' = TargetVelocity
      /\ SteeringAngle' = SteeringAngle
  BY TickKeepsCommand DEF TickBegin
<1>2. /\ tick.at = "idle" /\ tick' = next /\ Ticks("idle", next)
      /\ due' = IF due = "none" THEN "begun" ELSE due
      /\ disturbed' = (gui # "idle")
  BY DEF TickBegin, Ticks
<1>3. /\ next \in Messages /\ next.at = "sign" /\ next.velocity = TargetVelocity
      /\ next.angle = SteeringAngle
  <2>1. TargetVelocity \in Speeds /\ SteeringAngle \in -MaxSteer..MaxSteer
    BY LimitsHold DEF IInv
  <2>. QED
    BY <2>1 DEF Messages, Ats
<1> HIDE DEF next
<1>4. KeyboardTypeOK'
  <2>1. due' \in {"none", "begun", "done"}
    BY <1>2 DEF IInv, KeyboardTypeOK
  <2>2. wire' \in [Topics -> Commands] /\ KeyboardTypeOK
    BY <1>1 DEF IInv, KeyboardTypeOK, Commands
  <2>3. tick' \in Messages /\ disturbed' \in BOOLEAN
    BY <1>2, <1>3
  <2>. QED
    BY <1>2, <2>1, <2>2, <2>3, TickType
<1>5. (OnTopic /\ NotYetOut /\ Held /\ Calm)'
  BY <1>1, <1>2, <1>3 DEF IInv, OnTopic, NotYetOut, Held, Calm
<1>6. Fresh'
  BY <1>1, <1>2, <1>3 DEF Fresh, Carried
<1>7. OneTickBehind'
  BY <1>1, <1>2 DEF IInv, OneTickBehind, KeyboardTypeOK
<1>. QED
  BY <1>4, <1>5, <1>6, <1>7 DEF IInv

LEMMA SignPreserves ==
    ASSUME IInv, NEW current \in Speeds, TickSign(current)
    PROVE  IInv'
<1> DEFINE next == [tick EXCEPT !.at = "control",
                        !.velocity = Signed(tick.velocity, gear_type),
                        !.acceleration = Acceleration(TargetVelocity, current)]
<1>1. /\ UNCHANGED <<topics, pubs, gui, keys, wire, due, disturbed>> /\ UNCHANGED commanded
      /\ Commanded' = Commanded /\ TargetVelocity' = TargetVelocity
      /\ SteeringAngle' = SteeringAngle
  BY TickKeepsCommand DEF TickSign
<1>2. tick.at = "sign" /\ tick' = next /\ Ticks("sign", next)
  BY DEF TickSign, Ticks
<1>3. /\ Signed(tick.velocity, gear_type) \in Speeds
      /\ Acceleration(TargetVelocity, current) \in -2..2
  <2>1. tick.velocity \in Speeds /\ TargetVelocity \in Speeds
    BY LimitsHold DEF IInv, KeyboardTypeOK
  <2>2. Signed(tick.velocity, gear_type) \in Speeds
    BY <2>1, KeyboardAssumption DEF Signed, Speeds
  <2>. QED
    BY <2>1, <2>2, AccelerationBounded
<1>4. /\ next \in Messages /\ next.at = "control" /\ next.angle = tick.angle
      /\ next.velocity = Signed(tick.velocity, gear_type)
  <2>1. tick \in Messages
    BY DEF IInv, KeyboardTypeOK, Messages, Ats
  <2>. QED
    BY <1>3, <2>1 DEF Messages, Ats
<1> HIDE DEF next
<1>5. KeyboardTypeOK'
  <2>1. /\ wire' \in [Topics -> Commands] /\ KeyboardTypeOK
        /\ due' \in {"none", "begun", "done"} /\ disturbed' \in BOOLEAN
    BY <1>1 DEF IInv, KeyboardTypeOK, Commands
  <2>. QED
    BY <1>2, <1>4, <2>1, TickType
<1>6. (OnTopic /\ NotYetOut /\ Held /\ Calm)'
  BY <1>1, <1>2, <1>4 DEF IInv, OnTopic, NotYetOut, Held, Calm
<1>7. Fresh'
  BY <1>1, <1>2, <1>4 DEF IInv, Fresh, Carried, Commanded
<1>8. OneTickBehind'
  BY <1>1 DEF IInv, OneTickBehind
<1>. QED
  BY <1>5, <1>6, <1>7, <1>8 DEF IInv

\* Looking a publisher up, or reading the gear for its message.
LEMMA LookPreserves ==
    ASSUME IInv, TickControl \/ TickGear \/ TickLoadGear
    PROVE  IInv'
<1>1. /\ UNCHANGED <<topics, pubs, gui, keys, wire, due, disturbed>> /\ UNCHANGED commanded
      /\ Commanded' = Commanded /\ TargetVelocity' = TargetVelocity
      /\ SteeringAngle' = SteeringAngle
  BY TickKeepsCommand DEF TickControl, TickGear, TickLoadGear
<1>2. tick \in Messages /\ pubs \in [control : Topics \cup {Destroyed}, gear : Topics \cup {Destroyed}]
      /\ gear_type \in Gears
  BY DEF IInv, KeyboardTypeOK, Messages, Ats
<1>3. /\ tick' \in Messages /\ tick'.velocity = tick.velocity /\ tick'.angle = tick.angle
      /\ \/ tick.at = "control" /\ tick'.at = "send control" /\ tick'.pub = pubs.control
         \/ tick.at = "gear" /\ tick'.at = "load gear" /\ tick'.gear = gear_type
         \/ /\ tick.at = "load gear" /\ tick'.at = "send gear" /\ tick'.pub = pubs.gear
            /\ tick'.gear = tick.gear
  <2>1. CASE TickControl
    <3>1. tick.at = "control" /\ tick' = [tick EXCEPT !.at = "send control", !.pub = pubs.control]
      BY <2>1 DEF TickControl, Ticks
    <3>. QED
      BY <1>2, <3>1 DEF Messages, Ats
  <2>2. CASE TickGear
    <3>1. tick.at = "gear" /\ tick' = [tick EXCEPT !.at = "load gear", !.gear = gear_type]
      BY <2>2 DEF TickGear, Ticks
    <3>. QED
      BY <1>2, <3>1 DEF Messages, Ats
  <2>3. CASE TickLoadGear
    <3>1. tick.at = "load gear" /\ tick' = [tick EXCEPT !.at = "send gear", !.pub = pubs.gear]
      BY <2>3 DEF TickLoadGear, Ticks
    <3>. QED
      BY <1>2, <3>1 DEF Messages, Ats
  <2>. QED
    BY <2>1, <2>2, <2>3
<1>4. KeyboardTypeOK'
  BY <1>1, <1>3, Zenon DEF IInv, commanded, KeyboardTypeOK, Messages, Ats
<1>5. OnTopic'
  BY <1>1 DEF IInv, OnTopic
<1>6. NotYetOut'
  BY <1>1, <1>3 DEF IInv, OnTopic, NotYetOut
<1>7. Held'
  BY <1>1, <1>3 DEF IInv, KeyboardTypeOK, OnTopic, NotYetOut, Held
<1>8. Calm'
  BY <1>1, <1>3 DEF IInv, OnTopic, Calm
<1>9. Fresh'
  <2>1. SUFFICES ASSUME due # "none" PROVE Fresh'
    BY <1>1 DEF Fresh
  <2>2. CASE tick.at = "control"
    BY <1>1, <1>3, <2>1, <2>2 DEF IInv, Fresh, Carried
  <2>3. CASE tick.at \in {"gear", "load gear"}
    <3>1. Carried(wire[topics].velocity, wire[topics].angle)
      BY <2>1, <2>3 DEF IInv, Fresh
    <3>2. Carried(wire[topics].velocity, wire[topics].angle)'
      BY <1>1, <3>1 DEF Carried
    <3>3. tick'.at = "load gear" => tick'.gear = gear_type'
      BY <1>1, <1>3, <2>3 DEF commanded
    <3>4. tick'.at = "send gear" => tick'.gear = gear_type'
      <4>1. tick.at = "load gear" => tick.gear = gear_type
        BY <2>1 DEF IInv, Fresh
      <4>. QED
        BY <1>1, <1>3, <2>3, <4>1 DEF commanded
    <3>. QED
      BY <1>3, <2>3, <3>2, <3>3, <3>4 DEF Fresh
  <2>. QED
    BY <1>3, <2>2, <2>3
<1>10. OneTickBehind'
  BY <1>1 DEF IInv, OneTickBehind
<1>. QED
  BY <1>4, <1>5, <1>6, <1>7, <1>8, <1>9, <1>10 DEF IInv

\* A tick that raises leaves everything as it was, and was disturbed.
LEMMA DyingPreserves ==
    ASSUME IInv, ~CanPublish, NEW at \in {"send control", "send gear"},
           Ticks(at, [tick EXCEPT !.at = "dead"]), UNCHANGED <<wire, due, disturbed>>
    PROVE  IInv'
<1>1. /\ UNCHANGED <<topics, pubs, gui, keys, wire, due, disturbed>> /\ UNCHANGED commanded
      /\ Commanded' = Commanded
  BY TickKeepsCommand
<1>2. tick' \in Messages /\ tick'.at = "dead" /\ tick.at \in {"send control", "send gear"}
  BY DEF Ticks, IInv, KeyboardTypeOK, Messages, Ats
<1>3. KeyboardTypeOK'
  BY <1>1, <1>2, Zenon DEF IInv, commanded, KeyboardTypeOK, Messages, Ats
<1>4. disturbed
  BY <1>2 DEF IInv, Calm, CanPublish
<1>5. (OnTopic /\ NotYetOut /\ Held /\ Calm /\ Fresh /\ OneTickBehind)'
  BY <1>1, <1>2, <1>4 DEF IInv, OnTopic, NotYetOut, Held, Calm, Fresh, OneTickBehind
<1>. QED
  BY <1>3, <1>5 DEF IInv

LEMMA ControlPreserves ==
    ASSUME IInv, SendControl
    PROVE  IInv'
<1> DEFINE sent == [wire[tick.pub] EXCEPT !.velocity = tick.velocity, !.angle = tick.angle]
<1>1. CASE ~CanPublish
  <2>1. Ticks("send control", [tick EXCEPT !.at = "dead"]) /\ UNCHANGED <<wire, due, disturbed>>
    BY <1>1 DEF SendControl, Send
  <2>. QED
    BY <1>1, <2>1, DyingPreserves
<1>2. CASE CanPublish
  <2>1. /\ Ticks("send control", [tick EXCEPT !.at = "gear", !.pub = Destroyed])
        /\ wire' = [wire EXCEPT ![tick.pub] = sent] /\ UNCHANGED <<due, disturbed>>
    BY <1>2 DEF SendControl, Send
  <2>2. /\ UNCHANGED <<topics, pubs, gui, keys>> /\ UNCHANGED commanded
        /\ Commanded' = Commanded /\ SteeringAngle' = SteeringAngle
        /\ tick.at = "send control"
    BY <2>1, TickKeepsCommand DEF Ticks
  <2>3. /\ tick \in Messages /\ tick.pub \in Topics /\ topics \in Topics
        /\ wire \in [Topics -> Commands]
    BY <1>2 DEF IInv, KeyboardTypeOK, Messages, Ats, Commands, CanPublish
  <2>4. tick' \in Messages /\ tick'.at = "gear"
    BY <2>1, <2>3 DEF Ticks, Messages, Ats
  <2>5. /\ sent \in Commands /\ sent.velocity = tick.velocity /\ sent.angle = tick.angle
        /\ sent.gear = wire[tick.pub].gear
    BY <2>3 DEF Commands, Messages
  <2> HIDE DEF sent
  <2>6. wire' \in [Topics -> Commands] /\ (tick.pub = topics => wire'[topics] = sent)
    BY <2>1, <2>3, <2>5
  <2>7. KeyboardTypeOK'
    <3>1. /\ KeyboardTypeOK /\ due' \in {"none", "begun", "done"} /\ disturbed' \in BOOLEAN
      BY <2>1 DEF IInv, KeyboardTypeOK
    <3>. QED
      BY <2>1, <2>4, <2>6, <3>1, TickType
  <2>8. due # "none" => tick.pub = topics /\ gui # "destroy gear"
    BY <1>2, <2>2 DEF IInv, KeyboardTypeOK, Held, NotYetOut, CanPublish
  <2>9. (OnTopic /\ NotYetOut /\ Held /\ Calm)'
    BY <2>1, <2>2, <2>4, <2>8 DEF IInv, OnTopic, NotYetOut, Held, Calm
  <2>10. Fresh'
    BY <2>1, <2>2, <2>4, <2>5, <2>6, <2>8 DEF IInv, Fresh, Carried
  <2>11. OneTickBehind'
    <3>1. SUFFICES ASSUME due = "done"
                   PROVE  wire'[topics] = Commanded
      BY <2>1, <2>2 DEF OneTickBehind
    <3>2. wire[topics] = Commanded /\ Carried(tick.velocity, tick.angle)
      BY <2>2, <3>1 DEF IInv, OneTickBehind, Fresh
    <3>3. Commanded = [velocity |-> tick.velocity, angle |-> tick.angle, gear |-> gear_type]
      BY <3>2, Zenon DEF Carried, Commanded
    <3>4. wire'[topics] = sent /\ sent.gear = gear_type
      <4>1. wire[topics].gear = gear_type
        BY <3>2 DEF Commanded
      <4>2. tick.pub = topics
        BY <2>8, <3>1
      <4>. QED
        BY <2>5, <2>6, <4>1, <4>2
    <3>5. sent = [velocity |-> tick.velocity, angle |-> tick.angle, gear |-> gear_type]
      BY <2>5, <3>4 DEF Commands
    <3>. QED
      BY <3>3, <3>4, <3>5, Zenon
  <2>. QED
    BY <2>7, <2>9, <2>10, <2>11 DEF IInv
<1>. QED
  BY <1>1, <1>2

LEMMA GearPreserves ==
    ASSUME IInv, SendGear
    PROVE  IInv'
<1> DEFINE sent == [wire[tick.pub] EXCEPT !.gear = tick.gear]
<1>1. CASE ~CanPublish
  <2>1. Ticks("send gear", [tick EXCEPT !.at = "dead"]) /\ UNCHANGED <<wire, due, disturbed>>
    BY <1>1 DEF SendGear, Send
  <2>. QED
    BY <1>1, <2>1, DyingPreserves
<1>2. CASE CanPublish
  <2>1. /\ Ticks("send gear", [tick EXCEPT !.at = "idle", !.pub = Destroyed])
        /\ wire' = [wire EXCEPT ![tick.pub] = sent] /\ disturbed' = disturbed
        /\ due' = IF due = "begun" THEN "done" ELSE due
    BY <1>2 DEF SendGear, Send
  <2>2. /\ UNCHANGED <<topics, pubs, gui, keys>> /\ UNCHANGED commanded
        /\ Commanded' = Commanded /\ SteeringAngle' = SteeringAngle
        /\ tick.at = "send gear"
    BY <2>1, TickKeepsCommand DEF Ticks
  <2>3. /\ tick \in Messages /\ tick.pub \in Topics /\ topics \in Topics
        /\ wire \in [Topics -> Commands]
    BY <1>2 DEF IInv, KeyboardTypeOK, Messages, Ats, Commands, CanPublish
  <2>4. tick' \in Messages /\ tick'.at = "idle"
    BY <2>1, <2>3 DEF Ticks, Messages, Ats
  <2>5. /\ sent \in Commands /\ sent.gear = tick.gear
        /\ sent.velocity = wire[tick.pub].velocity /\ sent.angle = wire[tick.pub].angle
    BY <2>3 DEF Commands, Messages
  <2> HIDE DEF sent
  <2>6. wire' \in [Topics -> Commands] /\ (tick.pub = topics => wire'[topics] = sent)
    BY <2>1, <2>3, <2>5
  <2>7. KeyboardTypeOK'
    <3>1. /\ KeyboardTypeOK /\ due' \in {"none", "begun", "done"} /\ disturbed' \in BOOLEAN
      BY <2>1 DEF IInv, KeyboardTypeOK
    <3>. QED
      BY <2>1, <2>4, <2>6, <3>1, TickType
  <2>8. due # "none" => tick.pub = topics /\ gui # "destroy gear"
    BY <1>2, <2>2 DEF IInv, KeyboardTypeOK, Held, NotYetOut, CanPublish
  <2>9. (OnTopic /\ NotYetOut /\ Held /\ Calm)'
    BY <2>1, <2>2, <2>4, <2>8 DEF IInv, OnTopic, NotYetOut, Held, Calm
  <2>10. Fresh'
    BY <2>1, <2>4 DEF IInv, KeyboardTypeOK, Fresh
  <2>11. OneTickBehind'
    <3>1. SUFFICES ASSUME due # "none"
                   PROVE  wire'[topics] = Commanded
      BY <2>1, <2>2 DEF OneTickBehind
    <3>2. Carried(wire[topics].velocity, wire[topics].angle) /\ tick.gear = gear_type
      BY <2>2, <3>1 DEF IInv, Fresh
    <3>3. wire'[topics] = sent /\ sent.velocity = Commanded.velocity
          /\ sent.angle = SteeringAngle /\ sent.gear = gear_type
      BY <2>5, <2>6, <2>8, <3>1, <3>2 DEF Carried
    <3>4. Commanded = [velocity |-> Commanded.velocity, angle |-> SteeringAngle, gear |-> gear_type]
      BY DEF Commanded
    <3>5. sent = [velocity |-> Commanded.velocity, angle |-> SteeringAngle, gear |-> gear_type]
      BY <2>5, <3>3 DEF Commands
    <3>. QED
      BY <3>3, <3>4, <3>5, Zenon
  <2>. QED
    BY <2>7, <2>9, <2>10, <2>11 DEF IInv
<1>. QED
  BY <1>1, <1>2

LEMMA StutterPreserves ==
    ASSUME IInv, UNCHANGED vars
    PROVE  IInv'
  BY ZenonT(60) DEF vars, IInv, KeyboardTypeOK, OnTopic, NotYetOut, Held, Calm, Fresh,
         OneTickBehind, Carried, Commanded, TargetVelocity, SteeringAngle

-----------------------------------------------------------------------------
LEMMA Invariance == Spec => []IInv
<1>1. IInv /\ [Next]_vars => IInv'
  BY KeyPreserves, TopicsPreserve, ReplacePreserves, QuitPreserves, BeginPreserves,
     SignPreserves, LookPreserves, ControlPreserves, GearPreserves, StutterPreserves, Zenon
     DEF Next, Tick
<1>. QED
  BY InitInvariant, <1>1, PTL DEF Spec

\* Every message and every attribute stays within the limits the tool was
\* given, whatever the keys and wherever the two threads are.
THEOREM KeyboardType == Spec => []KeyboardTypeOK
<1>1. IInv => KeyboardTypeOK
  BY DEF IInv
<1>. QED
  BY Invariance, <1>1, PTL

\* One whole tick after the last key, the topics selected carry what is
\* commanded: the two threads need no lock for that.
THEOREM WireIsOneTickBehind == Spec => []OneTickBehind
<1>1. IInv => OneTickBehind
  BY DEF IInv
<1>. QED
  BY Invariance, <1>1, PTL

\* The publishing thread dies only of a tick that a change of topics, or leaving
\* the tool, has overlapped.
THEOREM PublishingSurvives == Spec => []DiesOnlyDisturbed
<1>1. IInv => DiesOnlyDisturbed
  BY DEF IInv, Calm, DiesOnlyDisturbed
<1>. QED
  BY Invariance, <1>1, PTL
=============================================================================

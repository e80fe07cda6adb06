------------------------------- MODULE CanTools -------------------------------
(***************************************************************************)
(* The CAN scripts of the bench: sweep_speed, sweep_steer and sweep_brake  *)
(* trace a wave on the bus, static_can_test keeps a steady command alive,  *)
(* monitor_can decodes the frames with a layout of its own, vcu_status     *)
(* shows how often each identifier comes.  Values are in units of their    *)
(* field's last bit, times in tenths of a second.                          *)
(***************************************************************************)
EXTENDS Integers, Sequences, FiniteSetsExt, Functions

CanMin(a, b) == IF a < b THEN a ELSE b
CanMax(a, b) == IF a > b THEN a ELSE b
Clip(low, x, high) == CanMax(low, CanMin(x, high))

\* Python's round(): to the nearest, halves to the even neighbour.
RoundHalfEven(num, den) ==
    LET low == num \div den
        rest == 2 * (num - low * den)
    IN  IF rest < den \/ (rest = den /\ low % 2 = 0) THEN low ELSE low + 1

-----------------------------------------------------------------------------
(* Frames: the eight bytes of a payload, as struct lays them out.          *)

Zeros == [i \in 0..7 |-> 0]
HighByte(raw) == (raw % 65536) \div 256
LowByte(raw) == raw % 256
I16(d, i) ==
    LET raw == 256 * d[i] + d[i + 1]
    IN  IF raw >= 32768 THEN raw - 65536 ELSE raw

Gears == <<"Park", "Drive", "Neutral", "Reverse">>
BuildMtr(gear, raw) ==
    [Zeros EXCEPT ![0] = 1 + 2 + 4 + 8 * (gear % 4), ![4] = HighByte(raw), ![5] = LowByte(raw)]
BuildEps(raw) == [Zeros EXCEPT ![0] = 1 + 2, ![1] = HighByte(raw), ![2] = LowByte(raw)]
BuildBrk(raw) == [Zeros EXCEPT ![0] = 1 + 4, ![2] = raw]
BuildVehicle(gear, rolling) ==
    [Zeros EXCEPT ![0] = 1 + 2, ![1] = IF gear = 3 THEN 4 ELSE 0, ![6] = rolling % 256]

Build(kind, num, den) ==
    LET raw == RoundHalfEven(num, den)
    IN  CASE kind = "speed" -> BuildMtr(1, Clip(-32768, raw, 32767))
          [] kind = "steer" -> BuildEps(Clip(-32768, raw, 32767))
          [] kind = "brake" -> BuildBrk(Clip(0, raw, 255))

\* monitor_can's decoders of the four commands.
BrakeModes == <<"Invalid", "Stroke", "Pressure">>
SteerModes == <<"Invalid", "FrontWheel", "OppositePhase", "InPhase">>
VehicleModes == <<"Init", "Running", "Reserved", "Reserved2">>

DecodeMtr(d) ==
    [enabled |-> d[0] % 2 = 1, value |-> I16(d, 4), gear |-> Gears[((d[0] \div 8) % 4) + 1],
     mode |-> IF (d[0] \div 4) % 2 = 1 THEN "Speed" ELSE "Pedal"]
DecodeEps(d) ==
    [enabled |-> d[0] % 2 = 1, value |-> I16(d, 1), mode |-> SteerModes[((d[0] \div 2) % 4) + 1]]
DecodeBrk(d) ==
    [enabled |-> d[0] % 2 = 1, value |-> d[2], mode |-> BrakeModes[CanMin((d[0] \div 2) % 4, 2) + 1]]
DecodeVehicle(d) ==
    [enabled |-> d[0] % 2 = 1, value |-> d[6], mode |-> VehicleModes[((d[0] \div 2) % 4) + 1],
     estop |-> (d[0] \div 16) % 2 = 1]

Decode(kind, d) ==
    CASE kind = "speed" -> DecodeMtr(d)
      [] kind = "steer" -> DecodeEps(d)
      [] kind = "brake" -> DecodeBrk(d)
      [] kind = "vehicle" -> DecodeVehicle(d)

-----------------------------------------------------------------------------
(* The waves.  halves is twice duration / period, so that a duration that  *)
(* is no whole number of periods is an odd one: int() cuts the last half.  *)

\* Variant for the mutation runs: the falling half starts from the top again.
TriangleJumping(max, i, halves) ==
    LET phase == 8 * i
    IN  IF phase < halves THEN max * phase
        ELSE IF phase < 2 * halves THEN max * (2 * halves - phase)
        ELSE IF phase < 3 * halves THEN -max * (3 * halves - phase)
        ELSE -max * (4 * halves - phase)

\* Numerator over halves of what is asked for at sample i: 0, max, 0, -max, 0.
Triangle(max, i, halves) ==
    LET phase == 8 * i
    IN  IF phase < halves THEN max * phase
        ELSE IF phase < 2 * halves THEN max * (2 * halves - phase)
        ELSE IF phase < 3 * halves THEN -max * (phase - 2 * halves)
        ELSE -max * (4 * halves - phase)

\* 0, max, 0
Ramp(max, i, halves) ==
    LET phase == 4 * i
    IN  CanMax(0, max * (IF phase < halves THEN phase ELSE 2 * halves - phase))

\* The frames of a sweep that is interrupted after `sent' of them, or is not.
Trace(halves, sent) == 1..CanMin(sent, halves \div 2)

SweepSpeed(max, halves, sent) ==
    [k \in Trace(halves, sent) |-> Build("speed", Triangle(max, k - 1, halves), halves)]
SweepSteer(max, halves, sent) ==
    [k \in Trace(halves, sent) |-> Build("steer", Triangle(max, k - 1, halves), halves)]
SweepBrake(max, halves, sent) ==
    [k \in Trace(halves, sent) |-> Build("brake", Ramp(max, k - 1, halves), halves)]

Sweep(kind, max, halves, sent) ==
    CASE kind = "speed" -> SweepSpeed(max, halves, sent)
      [] kind = "steer" -> SweepSteer(max, halves, sent)
      [] kind = "brake" -> SweepBrake(max, halves, sent)

\* static_can_test: four frames a tick, as they are on the bus at tick k; the
\* rolling counter is the byte by which the VCU knows that the sender lives.
HeartbeatFrames(gear, speed, rolling) ==
    [speed |-> BuildMtr(gear, Clip(-32768, speed, 32767)), brake |-> BuildBrk(0),
     steer |-> BuildEps(0), vehicle |-> BuildVehicle(gear, rolling)]

Heartbeat(gear, speed, ticks) ==
    [k \in 1..ticks |-> HeartbeatFrames(gear, speed, (k - 1) % 256)]

-----------------------------------------------------------------------------
(* vcu_status.  What comes from the bus, or from candump over ssh, is a    *)
(* frame, or something else: text that is no frame, an error frame, a      *)
(* second without any, the end of candump.                                 *)

\* The two readers.  candump may end; the local bus is read for ever.  What is
\* heard are those of the lines that are frames, at their places.
Heard(lines) == Restrict(lines, {k \in DOMAIN lines : lines[k].form = "frame"})

ReaderCandump(lines) ==
    [heard |-> Heard(lines), error |-> \E k \in DOMAIN lines : lines[k].form = "end"]
ReaderPythonCan(lines) == [heard |-> Heard(lines), error |-> FALSE]
Reader(remote, lines) == IF remote THEN ReaderCandump(lines) ELSE ReaderPythonCan(lines)

RATE_WINDOW == 20
VCU_IDS == {"brake", "motor", "eps", "vehicle"}
ADS_IDS == {"c_eps", "c_brake", "c_motor", "c_vehicle"}
KnownIds == VCU_IDS \cup ADS_IDS

\* State.stamps of an identifier, and frames; a frame that does not decode
\* counts as one that does.
StampsOf(heard, id) == Restrict(heard, {k \in DOMAIN heard : heard[k].id = id})
FirstOf(stamps) == stamps[Min(DOMAIN stamps)]
LatestOf(stamps) == stamps[Max(DOMAIN stamps)]
DecodedFrames(heard) == Cardinality({k \in DOMAIN heard : heard[k].id \in KnownIds})

Recent(stamps, now) == Cardinality({k \in DOMAIN stamps : now - stamps[k].at <= RATE_WINDOW})
\* Variant for the mutation runs: the window is taken for full from the start.
FullSpan(stamps, now) == RATE_WINDOW

Span(stamps, now) ==
    CanMax(2, IF Cardinality(DOMAIN stamps) > 1
              THEN CanMin(RATE_WINDOW, now - FirstOf(stamps).at) ELSE RATE_WINDOW)

\* Frames in ten seconds, as a fraction: Recent over Span.
Rate(stamps, now) ==
    IF DOMAIN stamps = {} THEN [num |-> 0, den |-> 1]
    ELSE [num |-> Recent(stamps, now), den |-> Span(stamps, now)]

\* render's first two notes.
SilenceNotes(heard, now) ==
    {who \in {"vcu", "ads"} :
        \A id \in IF who = "vcu" THEN VCU_IDS ELSE ADS_IDS : Rate(StampsOf(heard, id), now).num = 0}

\* The signs that a frame of an identifier bears, for the last one that came,
\* however long ago.
LastSigns(heard, id) ==
    LET stamps == StampsOf(heard, id)
    IN  IF DOMAIN stamps = {} THEN {} ELSE LatestOf(stamps).signs

\* All zero, as nothing at all is.
AllZero(heard, id) == DOMAIN StampsOf(heard, id) = {} \/ "zeros" \in LastSigns(heard, id)

\* render's notes.
Notes(heard, now) ==
    LET note(name, holds) == IF holds THEN {name} ELSE {}
    IN  SilenceNotes(heard, now)
        \cup note("zeros", /\ DOMAIN StampsOf(heard, "vehicle") # {}
                          /\ AllZero(heard, "vehicle") /\ AllZero(heard, "motor"))
        \cup note("manual", "manual" \in LastSigns(heard, "eps"))
        \cup note("left lost", /\ "left" \in LastSigns(heard, "c_eps")
                              /\ "enable" \in LastSigns(heard, "c_eps")
                              /\ "straight" \in LastSigns(heard, "eps"))
        \cup note("pressed", "pressed" \in LastSigns(heard, "vehicle"))

\* main: a snapshot fails when nothing came; the live view ends, failing, when
\* the reader says that it has ended.
ExitCode(reader, snapshot) ==
    IF snapshot THEN IF DecodedFrames(reader.heard) > 0 THEN 0 ELSE 1
    ELSE IF reader.error THEN 1 ELSE 0

-----------------------------------------------------------------------------
(* monitor_can, on the same lines: what it keeps of an identifier, and the *)
(* colour it gives it and its fields.  Every frame of this module has the  *)
(* bytes that its decoder reads.  One that is shorter raises in the        *)
(* decoder (monitor_can.py:242) and ends the script: that is left out.     *)

FrameState(heard, id) ==
    LET stamps == StampsOf(heard, id)
        before == Restrict(stamps, DOMAIN stamps \ {Max(DOMAIN stamps)})
    IN  [count |-> Cardinality(DOMAIN stamps),
         last_seen |-> IF DOMAIN stamps = {} THEN 0 ELSE LatestOf(stamps).at,
         changed |-> DOMAIN stamps # {} /\
                        (DOMAIN before = {} \/ LatestOf(stamps).data # LatestOf(before).data)]

Colour(state, now) ==
    IF state.count = 0 \/ now - state.last_seen >= 50 THEN "dim"
    ELSE IF now - state.last_seen < 10 THEN "green" ELSE "yellow"
=============================================================================

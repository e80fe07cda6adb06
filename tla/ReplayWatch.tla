------------------------------ MODULE ReplayWatch ------------------------------
(***************************************************************************)
(* The scripts that watch a replay and say how it went.  A stream is what  *)
(* a topic carries: since when it is advertised, whether its publisher is  *)
(* reliable and latches, and its messages in order, each with the time it  *)
(* is sent at.  Times are tenths of a second from the start of the script, *)
(* distances tenths of a metre, so that a speed is in metres per second.   *)
(***************************************************************************)
EXTENDS Integers, Sequences, FiniteSetsExt

None == -1

\* The numbers of a set in their order.
InOrder(S) ==
    LET rank == [k \in S |-> Cardinality({j \in S : j <= k})]
    IN  [n \in 1..Cardinality(S) |-> CHOOSE k \in S : rank[k] = n]

\* What a subscription that exists from `since' gets before `until': a latched
\* stream gives it the last message from before.
Got(stream, latched, since, until) ==
    LET sent == stream.sent
        before == {k \in DOMAIN sent : sent[k].at < since}
        kept == IF latched /\ stream.latched /\ before # {} THEN {Max(before)} ELSE {}
        live == {k \in DOMAIN sent : since <= sent[k].at /\ sent[k].at < until}
        order == InOrder(IF since >= until THEN {} ELSE kept \cup live)
    IN  [n \in DOMAIN order |-> sent[order[n]]]

\* sorted(): the indices in the order of their keys, equal keys as they were.
Ranked(key) ==
    LET rank == [i \in DOMAIN key |->
            Cardinality({j \in DOMAIN key : key[j] < key[i] \/ (key[j] = key[i] /\ j <= i)})]
    IN  [n \in 1..Cardinality(DOMAIN key) |-> CHOOSE i \in DOMAIN key : rank[i] = n]

-----------------------------------------------------------------------------
(* wait_for_message and check_ndt_activated                                *)

\* A publisher that offers less than the subscription asks for is never heard.
WaitForMessage(stream, args) ==
    LET matches == /\ args.reliable \/ args.latched => stream.reliable
                   /\ args.latched => stream.latched
    IN  IF stream.up >= args.timeout THEN "not advertised"
        ELSE IF matches /\ Got(stream, args.latched, stream.up, args.timeout) # <<>>
        THEN "heard" ELSE "no message"

\* A report is the set of the matcher's statuses in one diagnostics message,
\* under those of the keys that say whether it is active.
STATUS_KEYS == {"scan_matching_status", "trigger_node_service_status"}

CheckNdtActivated(reports, timeout) ==
    IF \E k \in DOMAIN reports :
            /\ reports[k].at < timeout
            /\ \E key \in STATUS_KEYS \cap DOMAIN reports[k].value : reports[k].value[key] = "true"
    THEN 0 ELSE 1

-----------------------------------------------------------------------------
(* indoor_sim_record_events, indoor_loop_report                            *)

SCAN == 10
SubscribedAt(stream) == SCAN * ((stream.up + SCAN - 1) \div SCAN)

\* The recorder asks for what the publisher offers.
Received(stream, seconds) == Got(stream, TRUE, SubscribedAt(stream), seconds)

\* The clock as it was last heard; None is null in the file.
SimAt(heard, at) ==
    LET before == {k \in DOMAIN heard : heard[k].at <= at}
    IN  IF before = {} THEN None ELSE heard[Max(before)].value

Recorded(stream, clock, seconds) ==
    LET got == Received(stream, seconds)
        ticks == Received(clock, seconds)
    IN  [n \in DOMAIN got |->
            [n |-> n, value |-> got[n].value, sim |-> SimAt(ticks, Max({got[n].at, SubscribedAt(stream)}))]]

GAP_S == 3
JUMP_MPS == 3
NVTL_GATE == 13
MAX_ITER == 30

\* Variant for the mutation runs: a pose from before the clock counts as one at 0.
PosesAtZero(events) == [k \in DOMAIN events |-> [events[k] EXCEPT !.sim = Max({0, @})]]

\* summarise: the poses that have a time, in its order.
Poses(events) ==
    LET order == Ranked([k \in {i \in DOMAIN events : events[i].sim # None} |-> events[k].sim])
    IN  [n \in DOMAIN order |-> events[order[n]]]

Steps(poses) == 1..Len(poses) - 1
StepTime(poses, k) == poses[k + 1].sim - poses[k].sim
StepLength(poses, k) ==
    LET d == poses[k + 1].value - poses[k].value IN IF d < 0 THEN -d ELSE d

LoopReport(pose, nvtl, iterations, board) ==
    LET poses == Poses(pose)
        gaps == {k \in Steps(poses) : StepTime(poses, k) > GAP_S}
    IN  [poses |-> Len(poses),
         boards |-> Len(board),
         gaps |-> Cardinality(gaps),
         longest |-> Max({0} \cup {StepTime(poses, k) : k \in gaps}),
         jumps |-> {poses[k + 1].sim : k \in {j \in Steps(poses) :
                        /\ StepTime(poses, j) > 0
                        /\ StepLength(poses, j) > JUMP_MPS * StepTime(poses, j)}},
         below_gate |-> Cardinality({k \in DOMAIN nvtl : nvtl[k].value < NVTL_GATE}),
         at_cap |-> Cardinality({k \in DOMAIN iterations : iterations[k].value >= MAX_ITER})]

-----------------------------------------------------------------------------
(* ndt_timeseries                                                          *)

\* The value a signal had last; it stands until the next one comes.
Held(stream, at) ==
    LET before == {k \in DOMAIN stream.sent : stream.sent[k].at <= at}
    IN  IF before = {} THEN None ELSE stream.sent[Max(before)].value

\* A node's time: what the sim clock showed last, and 0 until it is heard.
SimNow(clock, at) == Max({0, Held(clock, at)})

\* A row for each odometry, dated since the first of them.
Timeline(odometry, nvtl, iterations, clock, seconds) ==
    LET heard == Got(odometry, FALSE, 0, seconds)
    IN  [k \in DOMAIN heard |->
            [t |-> SimNow(clock, heard[k].at) - SimNow(clock, heard[1].at), speed |-> heard[k].value,
             nvtl |-> Held(nvtl, heard[k].at), iters |-> Held(iterations, heard[k].at)]]

First(rows, those) == IF those = {} THEN None ELSE rows[Min(those)].t

\* Half a metre per second is between 0 and 1.
Timeseries(rows) ==
    [motion |-> First(rows, {k \in DOMAIN rows : rows[k].speed > 0}),
     cap |-> First(rows, {k \in DOMAIN rows : rows[k].iters >= MAX_ITER}),
     flat |-> First(rows, {k \in DOMAIN rows :
                  rows[k].t > 50 /\ rows[k].iters = 0 /\ rows[k].nvtl = 0})]

-----------------------------------------------------------------------------
(* check_imu_velocity: what the vehicle reports, over what NDT saw.  The    *)
(* poses are in the order of their stamps, as the script sorts them.       *)

\* Mean of a report between two times, as [sum, n].
Mean(messages, from, to) ==
    LET inside == {k \in DOMAIN messages : from <= messages[k].at /\ messages[k].at <= to}
        sum[k \in 0..Len(messages)] ==
            IF k = 0 THEN 0 ELSE sum[k - 1] + IF k \in inside THEN messages[k].value ELSE 0
    IN  [sum |-> sum[Len(messages)], n |-> Cardinality(inside)]

\* The pairs of poses a scale is taken from: one to four tenths apart, the cart
\* moving by both accounts.  A yaw rate is compared in the same pairs.
Moving(poses, velocity, imu) ==
    {k \in 1..Len(poses) - 1 :
        LET dt == poses[k + 1].at - poses[k].at
            moved == poses[k + 1].value - poses[k].value
            reported == Mean(velocity, poses[k].at, poses[k + 1].at)
        IN  /\ dt \in 1..4
            /\ reported.n > 0 /\ Mean(imu, poses[k].at, poses[k + 1].at).n > 0
            /\ reported.sum > reported.n
            /\ moved > dt \/ moved < -dt}

\* Reported over seen, in percent: cut down, where the script rounds.
Ratio(poses, velocity, k) ==
    LET reported == Mean(velocity, poses[k].at, poses[k + 1].at)
        moved == poses[k + 1].value - poses[k].value
    IN  (100 * reported.sum * (poses[k + 1].at - poses[k].at))
            \div (reported.n * (IF moved < 0 THEN -moved ELSE moved))

Median(values) ==
    LET order == Ranked(values)
        n == Len(order)
    IN  (values[order[(n + 1) \div 2]] + values[order[n \div 2 + 1]]) \div 2

CheckImuVelocity(poses, velocity, imu) ==
    LET ratios == [k \in Moving(poses, velocity, imu) |-> Ratio(poses, velocity, k)]
    IN  IF imu = <<>> \/ velocity = <<>> \/ Len(poses) < 20 THEN [exit |-> 1, scale |-> None]
        ELSE [exit |-> 0,
              scale |-> IF Cardinality(DOMAIN ratios) > 30 THEN Median(ratios) ELSE None]
=============================================================================

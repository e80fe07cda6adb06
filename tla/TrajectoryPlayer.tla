--------------------------- MODULE TrajectoryPlayer ---------------------------
(***************************************************************************)
(* trajectory_player: plays a list of waypoints on the control topic, open *)
(* loop.  Times are whole; a speed or an angle between two waypoints is    *)
(* exact, as num / den.  What the player sends is a function of the        *)
(* waypoints and of the clock readings its timer callbacks take, which may *)
(* be late, and may go back when the clock is set.                         *)
(***************************************************************************)
EXTENDS Integers, Sequences, FiniteSets

Point(time, speed, angle) == [time |-> time, speed |-> speed, angle |-> angle]

\* from_yaml_file: the points of a file; <<>> where it raises, which the node
\* takes as it takes a file without points.
FromYaml(data) ==
    IF \/ "waypoints" \notin DOMAIN data
       \/ \E k \in DOMAIN data.waypoints :
                ~({"time", "speed"} \subseteq DOMAIN data.waypoints[k])
    THEN <<>>
    ELSE [k \in DOMAIN data.waypoints |->
            LET point == data.waypoints[k]
            IN  Point(point.time, point.speed,
                      IF "steering_angle" \in DOMAIN point THEN point.steering_angle ELSE 0)]

\* Variant for the mutation runs: the waypoints are played as the file has them.
AsInFile(points) == points

\* sorted() is stable: waypoints of one time keep the order of the file.
SortedByTime(points) ==
    LET before(i) == {j \in DOMAIN points :
            \/ points[j].time < points[i].time
            \/ points[j].time = points[i].time /\ j <= i}
    IN  [k \in DOMAIN points |->
            points[CHOOSE i \in DOMAIN points : Cardinality(before(i)) = k]]

Duration(waypoints) == waypoints[Len(waypoints)].time

\* bisect_left: how many waypoints come before the time.
BisectLeft(waypoints, time) ==
    Cardinality({i \in DOMAIN waypoints : waypoints[i].time < time})

Clamped(waypoints, time) ==
    LET atMost == IF time < Duration(waypoints) THEN time ELSE Duration(waypoints)
    IN  IF atMost < 0 THEN 0 ELSE atMost

At(point) == [speed |-> point.speed, angle |-> point.angle, den |-> 1]

Between(from, to, time) ==
    LET dt == to.time - from.time
        at(a, b) == a * dt + (time - from.time) * (b - a)
    IN  [speed |-> at(from.speed, to.speed), angle |-> at(from.angle, to.angle), den |-> dt]

GetTarget(waypoints, elapsed) ==
    LET time == Clamped(waypoints, elapsed)
        idx == BisectLeft(waypoints, time)
    IN  IF idx = 0 THEN At(waypoints[1])
        ELSE IF idx >= Len(waypoints) THEN At(waypoints[Len(waypoints)])
        ELSE Between(waypoints[idx], waypoints[idx + 1], time)

GetAcceleration(waypoints, elapsed) ==
    LET idx == BisectLeft(waypoints, elapsed)
    IN  IF elapsed <= waypoints[1].time \/ elapsed >= Duration(waypoints)
        THEN [num |-> 0, den |-> 1]
        ELSE [num |-> waypoints[idx + 1].speed - waypoints[idx].speed,
              den |-> waypoints[idx + 1].time - waypoints[idx].time]

Command(waypoints, elapsed) ==
    [elapsed |-> elapsed, gear |-> "DRIVE",
     target |-> GetTarget(waypoints, elapsed),
     acceleration |-> GetAcceleration(waypoints, elapsed)]

\* The node's life: the first callback only takes the time, the one that finds
\* the time over publishes and raises SystemExit.  A file that does not
\* load is refused before any of it.
Play(data, clock) ==
    LET points == FromYaml(data)
        waypoints == SortedByTime(points)
        elapsed(k) == clock[k + 1] - clock[1]
        over == {k \in 1..Len(clock) - 1 : elapsed(k) >= Duration(waypoints)}
        first == CHOOSE k \in over : \A j \in over : k <= j
        sent == IF over = {} THEN Len(clock) - 1 ELSE first
    IN  IF points = <<>> THEN [sent |-> <<>>, exit |-> "refused"]
        ELSE [sent |-> [k \in 1..sent |-> Command(waypoints, elapsed(k))],
              exit |-> IF over = {} THEN "playing" ELSE "completed"]
=============================================================================

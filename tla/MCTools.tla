-------------------------------- MODULE MCTools --------------------------------
(***************************************************************************)
(* The scripts that keep no state between two calls, checked against what  *)
(* they are for.  A behaviour is one job: the initial state has a script's *)
(* input, the step has its output.  The exception is twin_go, whose        *)
(* behaviour is that of TwinGo.                                            *)
(***************************************************************************)
EXTENDS TrajectoryPlayer, CanTools, LaneTools, MapTools, PoseTools, BagReports,
        LaunchAudit, TwinGo, FovTools, DiagnosticDrill, ReplayWatch, SequencesExt

VARIABLES job, out, done
vars == <<job, out, done, go, seen, route, goal, clearing, sets, arrived>>

TwinIdle ==
    /\ go = "none" /\ seen = "none" /\ route = "none" /\ goal = "none"
    /\ clearing = FALSE /\ sets = 0 /\ arrived = "none"

Does(tool, result) ==
    /\ ~done /\ job.tool = tool
    /\ done' = TRUE /\ out' = result
    /\ UNCHANGED job /\ UNCHANGED twin

Did(tool) == done /\ job.tool = tool

SeqsUpTo(S, n) == UNION {[1..k -> S] : k \in 0..n}
LowerOf(a, b) == IF a < b THEN a ELSE b
Abs(x) == IF x < 0 THEN -x ELSE x

-----------------------------------------------------------------------------
(* trajectory_player                                                       *)

Points == {Point(t, v, v \div 2) : t \in 0..3, v \in {0, 2}}
Clocks == {<<0, 1, 2, 3, 4>>, <<0, 2, 5>>, <<0, 2, 1, 3, 4>>, <<0, 1>>, <<3, 1, 5, 6>>}

\* A trajectory file with these points, or one whose last point lacks a key.
File(points, lacks) ==
    [waypoints |-> [k \in DOMAIN points |->
        [key \in {"time", "speed", "steering_angle"} \ (IF k = Len(points) THEN {lacks} ELSE {}) |->
            CASE key = "time" -> points[k].time [] key = "speed" -> points[k].speed
              [] key = "steering_angle" -> points[k].angle]]]

JobPlay ==
    \/ \E p \in SeqsUpTo(Points, 3), c \in Clocks :
        job = [tool |-> "play", points |-> p, clock |-> c, data |-> File(p, "nothing")]
    \/ \E p \in SeqsUpTo(Points, 2), lacks \in {"waypoints", "time", "speed", "steering_angle"} :
        job = [tool |-> "play", clock |-> <<0, 1, 2, 3, 4>>,
               points |-> IF lacks # "steering_angle" THEN <<>>
                          ELSE [k \in DOMAIN p |-> IF k < Len(p) THEN p[k] ELSE [p[k] EXCEPT !.angle = 0]],
               data |-> IF lacks = "waypoints" THEN <<>> ELSE File(p, lacks)]
PlayResult(j) == Play(j.data, j.clock)
DoPlay == Does("play", PlayResult(job))

TimesOf(p) == {p[k].time : k \in DOMAIN p}

FirstOfTime(p, i) == \A k \in DOMAIN p : p[k].time = p[i].time => i <= k
LastOfTime(p, i) == \A k \in DOMAIN p : p[k].time = p[i].time => k <= i
Adjacent(p, i, j) ==
    /\ p[i].time < p[j].time /\ LastOfTime(p, i) /\ FirstOfTime(p, j)
    /\ \A k \in DOMAIN p : p[k].time <= p[i].time \/ p[k].time >= p[j].time

OnLine(p, i, j, t, c) ==
    LET dt == p[j].time - p[i].time
        on(a, b, x) == x * dt = c.target.den * (a * dt + (t - p[i].time) * (b - a))
    IN  /\ p[i].time < t /\ t <= p[j].time
        /\ on(p[i].speed, p[j].speed, c.target.speed)
        /\ on(p[i].angle, p[j].angle, c.target.angle)
        /\ t = c.elapsed /\ t < Max(TimesOf(p))
            => c.acceleration.num * dt = c.acceleration.den * (p[j].speed - p[i].speed)

OnProfile(p, c) ==
    LET times == TimesOf(p)
        t == Max({0, LowerOf(c.elapsed, Max(times))})
    IN  /\ IF t <= Min(times)
           THEN \E k \in DOMAIN p : /\ p[k].time = Min(times) /\ FirstOfTime(p, k)
                                    /\ c.target = At(p[k])
           ELSE \E i, j \in DOMAIN p : Adjacent(p, i, j) /\ OnLine(p, i, j, t, c)
        /\ c.elapsed <= Min(times) \/ c.elapsed >= Max(times) => c.acceleration.num = 0

Played(points, played) ==
    /\ (played.exit = "refused") = (points = <<>>)
    /\ \A k \in DOMAIN played.sent : OnProfile(points, played.sent[k])
    /\ played.exit = "completed" =>
            LET last == Len(played.sent)
            IN  /\ played.sent[last].elapsed >= Max(TimesOf(points))
                /\ \A k \in 1..last - 1 : played.sent[k].elapsed < Max(TimesOf(points))

\* trajectory_player.  Every command lies on the line between the two waypoints
\* of the file that are next to its time, whatever order the file has them in
\* and whenever the timer fires; outside their times the ends are held without
\* acceleration, and playing ends with a command for the last time.
PlaysTheProfile == Did("play") => Played(job.points, out)

-----------------------------------------------------------------------------
(* The sweeps and the monitor; vcu_status                                  *)

JobSweep ==
    \/ \E k \in {"speed", "steer", "brake"}, m \in {3, 50, 200, 40000}, h \in 2..18, s \in {4, 99} :
        job = [tool |-> "sweep", kind |-> k, max |-> m, halves |-> h, sent |-> s]
    \/ \E gear \in 0..3, speed \in {0, 500, -500, 40000}, ticks \in {2, 258} :
        job = [tool |-> "sweep", kind |-> "heartbeat", gear |-> gear, speed |-> speed, ticks |-> ticks]
SweepResult(j) ==
    IF j.kind = "heartbeat" THEN Heartbeat(j.gear, j.speed, j.ticks)
                         ELSE Sweep(j.kind, j.max, j.halves, j.sent)
DoSweep == Does("sweep", SweepResult(job))

Gentle(kind, max, halves, sent, frames) ==
    LET slope == (IF kind = "brake" THEN 4 ELSE 8) * max
        heard(k) == Decode(kind, frames[k])
        value(k) == heard(k).value
        steps(x, n) == (Abs(x) - 1) * halves <= n * slope
    IN  /\ \A k \in DOMAIN frames :
            /\ heard(k).enabled /\ Abs(value(k)) <= max
            /\ heard(k).mode = CASE kind = "speed" -> "Speed"
                                 [] kind = "steer" -> "FrontWheel"
                                 [] kind = "brake" -> "Pressure"
        /\ frames # <<>> => value(1) = 0
        /\ \A k \in 1..Len(frames) - 1 : steps(value(k + 1) - value(k), 1)
        /\ frames # <<>> /\ Len(frames) < sent => steps(value(Len(frames)), 2)

InField(speed) == Clip(-32768, speed, 32767)
Alive(gear, speed, frames) ==
    LET heard(k, kind) == Decode(kind, frames[k][kind])
    IN  /\ \A k \in DOMAIN frames :
            /\ \A kind \in {"speed", "brake", "steer", "vehicle"} : heard(k, kind).enabled
            /\ heard(k, "speed").gear = Gears[gear + 1]
            /\ heard(k, "speed").value = InField(speed)
            /\ heard(k, "brake").value = 0 /\ heard(k, "steer").value = 0
            /\ heard(k, "vehicle").mode = "Running" /\ ~heard(k, "vehicle").estop
        /\ \A k \in DOMAIN frames, d \in 1..255 : k + d \in DOMAIN frames =>
                heard(k, "vehicle").value # heard(k + d, "vehicle").value

\* sweep_* and static_can_test, as monitor_can reads them back.  Every frame of
\* a sweep enables its actuator in the mode that the sweep is about and asks for
\* no more than the peak; the first asks for nothing, the next never for more
\* than one sample of the wave further on, and a sweep that is not interrupted
\* ends two samples from zero.  The heartbeat asks for the gear and the speed it
\* was given, up to what the field can hold, and for nothing else, and its
\* counter never looks as if the sender had stopped, also where it wraps.
SweepIsGentle ==
    Did("sweep") =>
        IF job.kind = "heartbeat" THEN Alive(job.gear, job.speed, out)
        ELSE Gentle(job.kind, job.max, job.halves, job.sent, out)

Frame(id, at) == [form |-> "frame", id |-> id, at |-> at, data |-> at \div 4, signs |-> {}]
SignedFrame(id, at, signs) == [Frame(id, at) EXCEPT !.signs = signs]
NoFrame(form, at) == [form |-> form, id |-> "motor", at |-> at, data |-> 0, signs |-> {}]
Steady(period, start, n) == [k \in 1..n |-> Frame("motor", start + period * (k - 1))]

\* A cart that wakes: it sends zeros until it hears us, then what it is at.
Signs == {SignedFrame("vehicle", 0, {"zeros"}), SignedFrame("vehicle", 0, {"pressed"}), Frame("vehicle", 0),
          SignedFrame("eps", 0, {"manual", "straight"}), Frame("eps", 0),
          SignedFrame("c_eps", 0, {"left", "enable"}), SignedFrame("c_eps", 0, {"left"}), NoFrame("error frame", 0)}
JobWake == \E woken \in SeqsUpTo(Signs, 4) :
           \E motor \in SeqsUpTo({SignedFrame("motor", 3, {"zeros"}), Frame("motor", 3)}, 1) :
    job = [tool |-> "vcu", period |-> 5, now |-> 4, snapshot |-> TRUE, remote |-> TRUE,
           lines |-> woken \o motor]

\* What comes last on the line after n frames of a steady sender.
Afterwards(remote, at) ==
    {Frame("eps", at), Frame("unknown", at), NoFrame(IF remote THEN "not hex" ELSE "error frame", at)}
Ends(remote, later, at) ==
    IF later = 30 THEN <<NoFrame(IF remote THEN "end" ELSE "nothing", at)>> ELSE <<>>

JobVcu == \E p \in {1, 2, 5}, n \in 0..25, later \in 0..30, snapshot, remote \in BOOLEAN :
          \E other \in Afterwards(remote, p * n) :
    job = [tool |-> "vcu", period |-> p, now |-> p * n + later, snapshot |-> snapshot,
           remote |-> remote, lines |-> Steady(p, 3, n) \o <<other>> \o Ends(remote, later, p * n)]
VcuResult(j) ==
    LET reader == Reader(j.remote, j.lines)
        monitor == FrameState(reader.heard, "motor")
    IN  [rate |-> Rate(StampsOf(reader.heard, "motor"), j.now),
         notes |-> Notes(reader.heard, j.now),
         exit |-> ExitCode(reader, j.snapshot),
         monitor |-> monitor,
         colour |-> Colour(monitor, j.now)]
DoVcu == Does("vcu", VcuResult(job))

FramesOf(lines, id) == {k \in DOMAIN lines : lines[k].form = "frame" /\ lines[k].id = id}
\* The signs of the last frame of an identifier, if there is one.
Final(lines, id) ==
    {lines[k].signs : k \in {i \in FramesOf(lines, id) : \A j \in FramesOf(lines, id) : j <= i}}

IsShown(lines, period, now, snapshot, found) ==
    LET sent == FramesOf(lines, "motor")
        quiet == now - lines[Max(sent)].at
    IN  /\ (Cardinality(sent) >= 2 /\ quiet >= 0 /\ quiet < period)
                => Abs(found.rate.num * period - found.rate.den) <= period
        /\ (sent = {} \/ quiet > RATE_WINDOW) => found.rate.num = 0
        /\ found.rate.num > 0 => "vcu" \notin found.notes
        /\ found.colour = "green" => found.rate.num > 0
        /\ found.colour = "dim" => found.rate.num = 0
        /\ found.monitor.count = Cardinality(sent)
        /\ "zeros" \in found.notes <=>
                /\ Final(lines, "vehicle") # {}
                /\ \A signs \in Final(lines, "vehicle") \cup Final(lines, "motor") : "zeros" \in signs
        /\ "pressed" \in found.notes <=> \E signs \in Final(lines, "vehicle") : "pressed" \in signs
        /\ "left lost" \in found.notes <=>
                /\ \E signs \in Final(lines, "c_eps") : {"left", "enable"} \subseteq signs
                /\ \E signs \in Final(lines, "eps") : "straight" \in signs
        /\ (found.exit = 1) = IF snapshot THEN \A id \in KnownIds : FramesOf(lines, id) = {}
                              ELSE \E k \in DOMAIN lines : lines[k].form = "end"

\* vcu_status and monitor_can, on the same bus.  The rate shown for a steady
\* sender is right to within one frame from its second frame on, also while the
\* window fills, whatever else is on the line; a sender that has been silent for
\* the window shows no rate; a snapshot in which nothing was decoded fails, and
\* so does a live view whose candump has ended; no sender is live on one screen
\* and gone from the other; and a note is of what the cart sent last, so that one
\* that has been heard, released or is steering has no note of the contrary.
RateIsShown == Did("vcu") => IsShown(job.lines, job.period, job.now, job.snapshot, out)

-----------------------------------------------------------------------------
(* Lanes and maps                                                          *)

BELOW == 2
UNIT == 32
\* The places of n + 1 points, one or two apart.
Rising(n) == {at \in [0..n -> 0..2 * n] : at[0] = 0 /\ \A i \in 1..n : at[i] - at[i - 1] \in {1, 2}}
Road(n, at, widths) == [i \in 0..n |-> [at |-> UNIT * at[i], width |-> widths[i]]]
SampledAt(n, at, smoothing) == {Samples([i \in 0..n |-> UNIT * at[i]], smoothing, UNIT)}
JobRoute == \E n \in 3..4, smoothing \in {0, 2} : \E at \in Rising(n) : \E samples \in SampledAt(n, at, smoothing) :
           \E widths \in [0..n -> {1, 2}], pad \in {1, 2, 4}, k \in 1..3 :
    /\ pad \in IF smoothing = 0 THEN {1, 2} ELSE {2, 4}
    /\ job = [tool |-> "route", route |-> Road(n, at, widths), pad |-> UNIT * pad,
              gap |-> UNIT * Max({at[i] - at[i - 1] : i \in 1..n}),
              smoothing |-> smoothing, samples |-> samples, k |-> k]
RouteResult(j) ==
    IF WritesRoute(j.route, BELOW, j.pad)
    THEN Lanelets(j.route, SpeedTags(j.route, BELOW, j.pad), j.samples, j.k) ELSE {}
DoRoute == Does("route", RouteResult(job))

Slowed(road, below, samples, lanes) ==
    \A s \in DOMAIN samples :
        NarrowAt(road, below, samples[s]) =>
            \A lane \in lanes : (lane.from <= s /\ s <= lane.to) => lane.speed = "slow"

\* Smoothing drops the route's points, and with it a sample at each of them.
Enough(pad, gap, smoothing) == pad >= IF smoothing = 0 THEN gap ELSE 2 * gap

\* fit_lane_corridor --slow-below, then centerline_to_lanelet.  Where a straight
\* lane is narrower than the limit no lanelet has the normal speed, wherever the
\* lanelets are cut, provided the padding spans the gap between route points, and
\* two of them when the line is smoothed.
SlowWhereNarrow ==
    (Did("route") /\ Enough(job.pad, job.gap, job.smoothing))
        => Slowed(job.route, BELOW, job.samples, out)

Cells == 0..4
Some(S) == {{}} \cup {{x} : x \in S}

\* Two points of the band in some cells, and a lamp over every one.
CloudOf(band, moved) ==
    {[x |-> Cell * c + d - moved, z |-> 2] : c \in band, d \in {2, 5}}
        \cup {[x |-> Cell * c + 3 - moved, z |-> 9] : c \in Cells}
BoxOf(c) == [x |-> [lo |-> {Cell * c - 1}, hi |-> {Cell * (c + 1)}]]
LineOf(c) == IF c % 2 = 0 THEN [a |-> Cell * c, b |-> Cell * (c + 1)]
             ELSE [a |-> Cell * c + 7, b |-> Cell * c - 1]
Anchor(given, at) == [given |-> given, at |-> at]

\* The line across holds along the whole route.
Along(cells) == {1} \X cells
Station(x, forward, place) == [x |-> x, forward |-> forward, aisle |-> TRUE, place |-> place]
Edits(band, gone, line, box) ==
    [size |-> 5, floor |-> 1, band |-> [lo |-> 0, hi |-> 5],
     remove |-> {BoxOf(c) : c \in gone}, add_line |-> {LineOf(c) : c \in line}, add_cloud |-> {BoxOf(c) : c \in box}]

JobLane == \E band \in SUBSET Cells, gone \in Some(Cells), line \in Some(Cells), box \in Some({1, 2}),
              place \in {17, 20}, width \in {8, 16} :
           \E from, to \in IF line \cup box = {} THEN BOOLEAN ELSE {FALSE} :
    job = [tool |-> "fit", band |-> band, gone |-> gone, line |-> line, pinch |-> {},
           from |-> Anchor(from, 3), to |-> Anchor(to, 11), cloud |-> CloudOf(band, IF from /\ to THEN 8 ELSE 0),
           edits |-> Edits(band, gone, line, box),
           route |-> [k \in 1..3 |-> Station(k - 1, gone # {}, place)],
           fit |-> [width |-> width, min_width |-> 6, margin |-> 4, where |-> {0, 1, 2}, pinch |-> {}, margins |-> <<>>,
                    strip |-> 1, pin |-> 1, cart |-> [rear |-> 2, front |-> 6, half |-> 4]]]

\* The cart passes between two shelves at 9 to 11, which no ray meets from the
\* stations before and after them.
Shelves == {9, 10, 11}
JobPinch == \E forward \in BOOLEAN, places \in [1..3 -> {18, 21}], pad \in {0, 2}, hold \in {{}, {16}},
               width \in {6, 16}, cap \in {{}, {3}}, mask \in {<<>>, <<"low">>, <<"high", "low">>, <<"low", "high">>} :
    LET place(x) == places[IF x < 7 THEN 1 ELSE IF x < 14 THEN 2 ELSE 3]
        override(m) == [where |-> {0, 12, 16}, at_least |-> IF m = "high" THEN {6} ELSE {},
                        at_most |-> IF m = "low" THEN {3} ELSE {}]
        pinch == [lo |-> 8, hi |-> 12, pad |-> pad, hold |-> hold, width |-> 8, ease |-> 6,
                  edge_margin |-> cap, body |-> {[low |-> 8, high |-> 32, margin |-> 2]}]
    IN  job = [tool |-> "fit", band |-> {0, 4}, gone |-> {}, line |-> {}, pinch |-> {pinch},
               from |-> Anchor(FALSE, 0), to |-> Anchor(FALSE, 0), cloud |-> CloudOf({0, 4}, 0),
               edits |-> Edits({0, 4}, {}, {}, {}),
               route |-> [k \in 1..7 |-> LET x == 4 * (IF forward THEN k - 1 ELSE 7 - k)
                                         IN  Station(x, forward, place(x))],
               fit |-> [width |-> width, min_width |-> 6, margin |-> 4, pin |-> 1, where |-> {0, 4, 8, 12, 16, 20},
                        pinch |-> {pinch},
                        margins |-> [k \in DOMAIN mask |-> override(mask[k])], strip |-> 1,
                        cart |-> [rear |-> 2, front |-> 6, half |-> 4]]]

FitResult(j) ==
    LET grid == ObstacleGrid(j.cloud, j.from, j.to, j.edits)
        occ == IF j.pinch = {} THEN Along(grid.occ) ELSE Shelves \X grid.occ
    IN  [occ |-> occ, lanes |-> IF grid.refused THEN {} ELSE RefinedLanes(occ, j.route, j.fit)]
DoFit == Does("fit", FitResult(job))

\* Some part of a cart that stands at the station is between the faces.
InPinch(station, pinch, cart) ==
    \E t \in 0..cart.rear + cart.front - 1 :
        LET x == IF station.forward THEN station.x - cart.rear + t ELSE station.x + cart.rear - 1 - t
        IN  pinch.lo <= x /\ x < pinch.hi

\* The least that any part of the profile lets the margin be.
LeastMargin(fit) ==
    Min({fit.margin} \cup (UNION {fit.margins[k].at_most : k \in DOMAIN fit.margins})
            \cup (UNION {pinch.edge_margin : pinch \in fit.pinch}))

Apart(lane, cell, distance) ==
    Cell * cell >= lane.high + distance \/ Cell * (cell + 1) <= lane.low - distance

FitsIn(lane, pinch, cart) ==
    LET centre == (lane.low + lane.high) \div 2
    IN  /\ lane.high - lane.low <= pinch.width
        /\ \A body \in pinch.body :
            /\ centre - cart.half >= body.low + body.margin
            /\ centre + cart.half <= body.high - body.margin

Clear(lane, occ, fit) ==
    LET beside == CellsBeside(occ, lane.station.x, fit.strip)
        least == LeastMargin(fit) - Step
    IN  /\ CheckPasses(lane, beside, least)
        /\ \A cell \in beside : Apart(lane, cell, least)
        /\ \A pinch \in fit.pinch : InPinch(lane.station, pinch, fit.cart) => FitsIn(lane, pinch, fit.cart)

\* obstacle_grid, fit_lane_corridor refine, check_lane_clearance.  A lane that
\* may be moved and has room keeps its margin, less one step of the ray, to every
\* obstacle of the cloud that was not edited away and to every line that was
\* drawn, in whichever of two frames the cloud came, and the check that measures
\* the lane says so.  Wherever some part of the cart is in a pinch, whichever way it
\* goes, the lane is as narrow as the pinch wants and the cart clears both faces.
FittedLaneIsClear ==
    Did("fit") =>
        /\ job.from.given = job.to.given => out.lanes # {}
        /\ \A lane \in out.lanes : lane.free =>
            /\ Clear(lane, out.occ, job.fit)
            /\ job.pinch = {} =>
                \A cell \in (job.band \ job.gone) \cup job.line : Apart(lane, cell, LeastMargin(job.fit) - Step)

\* A way through places, in a file that lacks node 9.
Ways == {places \in UNION {[1..n -> 0..6] : n \in 1..4} :
            places[1] = 0 /\ \A k \in 2..Len(places) : places[k] - places[k - 1] \in 0..2}
        \cup {<<0, place>> : place \in 0..4}
Relation(subtype, left, right) ==
    [subtype |-> subtype, members |-> <<[role |-> "left", ref |-> left], [role |-> "right", ref |-> right]>>]
Rights(places) ==
    {places, <<places[1], places[Len(places)]>>, <<places[1], 9, places[Len(places)] + 1>>, <<9>>}

TagsMap(places, right, others) ==
    [nodes |-> [k \in 0..8 |-> k],
     ways |-> [w \in {"l", "r", "l2", "r2"} |->
                CASE w = "l" -> places [] w = "r" -> right
                  [] w = "l2" -> <<1, 2, 5>> [] w = "r2" -> <<1, 5>>],
     relations |-> <<Relation("road", "l", "r")>> \o others]
LongWay ==
    [nodes |-> [k \in {0, 60} |-> k], ways |-> [w \in {"l", "r"} |-> <<0, 60>>],
     relations |-> <<Relation("road", "l", "r")>>]

JobTags ==
    \/ \E places \in Ways : \E right \in Rights(places) :
       \E spacing \in 1..5, limit \in {0, 2}, other \in {"road", "crosswalk", "absent"} :
        job = [tool |-> "tags", spacing |-> spacing, limit |-> limit,
               map |-> TagsMap(places, right, IF other = "absent" THEN <<>> ELSE <<Relation(other, "l2", "r2")>>)]
    \/ job = [tool |-> "tags", spacing |-> 1, limit |-> 100, map |-> LongWay]
TagsResult(j) == TagMap(j.map, j.spacing, j.limit)
DoTags == Does("tags", TagsResult(job))

\* Where the lane of a relation begins and ends, if its sides are there.
EndsOf(map, relation) ==
    LET way(k) == map.ways[relation.members[k].ref]
        known(k) == {i \in DOMAIN way(k) : way(k)[i] \in DOMAIN map.nodes}
        first(k) == map.nodes[way(k)[Min(known(k))]]
        last(k) == map.nodes[way(k)[Max(known(k))]]
    IN  IF \/ relation.subtype # "road" \/ known(1) = {} \/ known(2) = {}
           \/ Cardinality(known(1)) + Cardinality(known(2)) = 2
        THEN {} ELSE {<<first(1) + first(2), last(1) + last(2)>>}

\* The stations are the multiples of the spacing along the way, in order, except
\* that there may be two where a segment ends; there are no more than the limit.
Spaced(stations, spacing, limit, ends, length) ==
    LET multiples == IF length = 0 THEN {} ELSE {t \in 0..length : (t % spacing) = 0}
    IN  /\ IF limit = 0 \/ Len(stations) < limit THEN Range(stations) = multiples
           ELSE Len(stations) = limit /\ Range(stations) \subseteq multiples
        /\ stations # <<>> => stations[1] = 0
        /\ \A i \in 1..Len(stations) - 1 :
                \/ stations[i + 1] = stations[i] + spacing
                \/ stations[i + 1] = stations[i] /\ stations[i] \in ends

Boarded(map, spacing, limit, res) ==
    LET lanes == UNION {EndsOf(map, map.relations[i]) : i \in DOMAIN map.relations}
        ends == {Abs(res.path[i] - res.path[1]) : i \in DOMAIN res.path}
        n == Len(res.stations)
        ids == [k \in 1..2 * n |-> IF k <= n THEN res.ids.left[k] ELSE res.ids.right[k - n]]
    IN  /\ res.refused = (lanes = {})
        /\ ~res.refused =>
            /\ <<res.path[1], res.path[Len(res.path)]>> \in lanes
            /\ \A lane \in lanes : lane[2] - lane[1] <= Max(ends)
            /\ Spaced(res.stations, spacing, limit, ends, Max(ends))
            /\ n <= 100 => IsInjective(ids)

\* generate_tag_map.  Boards are set along the longest road lanelet of which the
\* file has both sides, from its beginning to its end, and none if there is no
\* such lanelet.  The stations are the whole multiples of the spacing along it,
\* in order, however its sides are cut into segments; only where a segment ends
\* exactly at a station may there be a second one.  No two of the first hundred
\* pairs of boards share an id.
StationsHoldTheSpacing == Did("tags") => Boarded(job.map, job.spacing, job.limit, out)

ByHand(name) == {Element(<<name, "node", 0, 0>>, 1, {}), Element(<<name, "way", 0, 0>>, 2, {1}),
                 Element(<<name, "area", 0, 0>>, 3, {2})}
Laned(map, name, closed) == AddLane(map, name, 3, closed, {<<0, 1>>, <<1, 2>>})
MapsOf(name) == {{}, ByHand(name)} \cup {Laned(m, name, c) : m \in {{}, ByHand(name)}, c \in BOOLEAN}

Pcd(name, n, kept) == [data |-> "binary", count |-> n, points |-> [k \in 1..kept |-> <<name, k>>]]
PcdsOf(name) == {Pcd(name, 2, 2), Pcd(name, 2, 3), Pcd(name, 2, 1),
                 [Pcd(name, 2, 2) EXCEPT !.data = "ascii"]}

\* A map's directory: without a cloud, with one, or with another next to it.
DirsOf(name) == {<<>>} \cup {<<pcd>> : pcd \in PcdsOf(name)} \cup {<<Pcd(name, 2, 2), Pcd("stray", 2, 2)>>}

JobMerge == \E a \in MapsOf("a"), b \in MapsOf("b"), p, q \in {"MGRS", "local"}, c \in BOOLEAN,
              pcds_a \in DirsOf("a"), pcds_b \in DirsOf("b") :
    job = [tool |-> "merge", closed |-> c,
           a |-> [elements |-> a, projector |-> p, pcds |-> pcds_a],
           b |-> [elements |-> b, projector |-> q, pcds |-> pcds_b]]
MergeResult(j) ==
    LET merged == Merges(j.a, j.b)
    IN  [merged |-> merged, collisions |-> Collisions(j.a.elements, j.b.elements),
         laned |-> IF merged.written THEN Laned(merged.elements, "later", j.closed) ELSE {}]
DoMerge == Does("merge", MergeResult(job))

\* merge_maps, then centerline_to_lanelet.  Both maps are in the merged one with
\* every reference meaning what it meant, and its cloud reads as every point of
\* both clouds, a lane that is added later takes no id of theirs, and of two
\* maps in different frames, or of a map whose cloud is missing or cut off,
\* nothing is written at all.
MergeKeepsBothMaps ==
    Did("merge") =>
        LET whole(map) == /\ map.pcds # <<>> /\ map.pcds[1].data = "binary"
                          /\ Len(map.pcds[1].points) >= 2
            fit == job.a.projector = job.b.projector /\ whole(job.a) /\ whole(job.b)
        IN  /\ out.merged.written = fit
            /\ fit =>
                 /\ KeptIn(job.a.elements, out.merged.elements)
                 /\ KeptIn(job.b.elements, out.merged.elements)
                 /\ KeptIn(out.merged.elements, out.laned)
                 /\ Cardinality(IdsIn(out.laned)) = Cardinality(out.laned)
                 /\ LET read == ReadPcd(FindPcd(out.merged))
                    IN  read.ok /\ Range(read.points) = {"a", "b"} \X {1, 2}

-----------------------------------------------------------------------------
(* Poses                                                                   *)

\* Two maps side by side in one grid, and one without lanelets.
Maps == [m \in {"r01", "r02", "bare"} |->
    IF m = "r01" THEN [path |-> "data/r01", box |-> <<>>,
                       nodes |-> {[x |-> 0, y |-> 2], [x |-> 2, y |-> 0]}]
    ELSE IF m = "r02" THEN [path |-> "data/r02", box |-> <<4, 0, 6, 2>>, nodes |-> {}]
    ELSE [path |-> "data/bare", box |-> <<>>, nodes |-> {}]]

At2(x, y) == [x |-> x, y |-> y]
Listened == {<<>>, <<At2(0, 0), At2(1, 1)>>} \cup
            {<<p>> : p \in {At2(0, 0), At2(3, 1), At2(1, 5), At2(5, 1), At2(5, 7)}}
Captures == [map : DOMAIN Maps \cup {"default"}, name : {"start"}]
CapturedOn == [map : DOMAIN Maps, samples : Listened, loader : {TRUE}, clock : {"none"},
               service : {"no service"}]
Settings == [map : DOMAIN Maps \cup {"default", "r09"}, name : {"start"}, clock : {"auto"}]
SetOn == [map : DOMAIN Maps, samples : {<<>>}, loader : BOOLEAN,
          clock : {"none", "ticking", "stopped"},
          service : {"initialized", "rejected", "no response", "no service"}]

JobPose == \E capture \in Captures, captured_on \in CapturedOn, set \in Settings, set_on \in SetOn :
    job = [tool |-> "pose", capture |-> capture, captured_on |-> captured_on,
           set |-> set, set_on |-> set_on]
PoseResult(j) ==
    LET capture == Capture(<<>>, Maps, j.capture, j.captured_on)
    IN  [capture |-> capture, set |-> SetPose(capture.files, Maps, j.set, j.set_on)]
DoPose == Does("pose", PoseResult(job))

OnMap(map, pose) ==
    LET box == Extent(map)
    IN  \/ box = <<>>
        \/ /\ box[1] - EXTENT_MARGIN <= pose.x /\ pose.x <= box[3] + EXTENT_MARGIN
           /\ box[2] - EXTENT_MARGIN <= pose.y /\ pose.y <= box[4] + EXTENT_MARGIN

PoseBelongs(maps, files, args, stack, set) ==
    (set.sent /\ args.map # "default" /\ stack.loader) =>
        \E m \in DOMAIN maps : /\ maps[m].path = maps[stack.map].path
                               /\ OnMap(maps[m], files[<<args.map, args.name>>])

\* capture_initial_pose, then set_initial_pose with --map, on whatever stacks
\* are running.  A pose that is sent to a stack whose loader answers lies within
\* the extent of a map with the data that the stack has loaded, or that map has
\* no extent, whichever map it was captured on.
PoseBelongsToMap ==
    Did("pose") => PoseBelongs(Maps, out.capture.files, job.set, job.set_on, out.set)

-----------------------------------------------------------------------------
(* Bags                                                                    *)

Detection(b) == [board |-> b, facing |-> 15 * b, range |-> b, incidence |-> 40 * b - 45]
SomeDetections == SeqsUpTo({Detection(1), Detection(3)}, 2)
Times == {<<0, 0, 1, 2>>, <<0, 1, 3, 3>>, <<0, 1, 2, 3>>}

JobBag == \E found \in [1..4 -> SomeDetections], times \in Times, n \in 0..4,
             min_frames \in {1, 2}, window \in {1, 2} :
    job = [tool |-> "bag", min_frames |-> min_frames, window |-> window,
           bag |-> [m \in 1..n |-> [at |-> times[m], detections |-> found[m]]]]
BagResult(j) ==
    [exit |-> Report(j.bag, j.min_frames, j.window, 20),
     sigma |-> CornerSigma(j.bag, j.min_frames), rate |-> DetectionRate(j.bag),
     coverage |-> Coverage(j.bag, j.window, 20)]
DoBag == Does("bag", BagResult(job))

\* The sum of counts.
Total(counts) == Cardinality(UNION {{x} \X (1..counts[x]) : x \in DOMAIN counts})

\* The detections that come in a window, two of which may face apart.
DetectedIn(bag, window, k) ==
    UNION {Range(bag[m].detections) : m \in {i \in DOMAIN bag : bag[i].at \div window = k}}
FacesApart(bag, window, spread, k) ==
    \E d, e \in DetectedIn(bag, window, k) : d.facing - e.facing >= spread

Measured(bag, window, spread, found) ==
    LET all == Cardinality(Detections(bag))
        keys == Windows(bag, window)
        hole(a, b) == {k \in keys : a <= k /\ k <= b}
        holes == {ab \in keys \X keys :
                    \A k \in hole(ab[1], ab[2]) : ~FacesApart(bag, window, spread, k)}
    IN  /\ Total(found.sigma.boards) = all /\ Total(found.rate.by_range) = all
        /\ (found.exit = "failed") <=> (all = 0)
        /\ found.coverage.total = Cardinality(keys) /\ found.coverage.none = 0
        /\ found.coverage.longest = Max({0} \cup {Cardinality(hole(ab[1], ab[2])) : ab \in holes})

\* aruco_bag_report.  All reports speak of the same detections, and among the
\* windows in which something was detected, the longest stretch without a usable
\* constellation is the longest one there is: as many of them as lie between two
\* times without two boards that face apart, from whichever cameras, in one
\* window.  A window that was published and empty is none of them and is counted
\* nowhere, however many messages lie in it: the count of windows with no boards
\* visible is 0 on every bag, where the script's own comment says that it "counts
\* windows that were published and empty".
HoleIsFound == Did("bag") => Measured(job.bag, job.window, 20, out)

SomeTracks == {s \in SeqsUpTo({0, 2, 4, 6, 7}, 5) : \A k \in 1..Len(s) - 1 : s[k] < s[k + 1]}
View(i, clear) == [status |-> IF i % 3 = 0 THEN "ambiguous" ELSE IF i % 3 = 1 THEN "ok" ELSE "none",
            near |-> i % 2 = 0, confident |-> i > 3, rejected |-> ~clear /\ i = 5,
            behind |-> ~clear /\ i = 2, in_range |-> clear \/ i # 3, range |-> i]
Bright(i, near) == [id |-> i, intensity |-> 2, finite |-> TRUE, near |-> near]
ScanAt(time, stamped) ==
    [stamp |-> IF stamped THEN time ELSE 0, received |-> IF stamped THEN time + 2 ELSE time,
     points |-> {Bright(i, i <= time % 3) : i \in 1..3}
                    \cup {[Bright(4, TRUE) EXCEPT !.intensity = 1], [Bright(5, TRUE) EXCEPT !.finite = FALSE]}]

JobScans == \E times \in {<<1, 2, 3, 4, 5, 6, 7>>, <<1, 3, 3, 5, 2, 6>>}, n \in 1..3, mode \in {"raw", "deskew"} :
            \E track \in SomeTracks, gap \in {2, 4} :
            \E stamped, sorted, clear \in BOOLEAN :
    job = [tool |-> "scans", times |-> times, n |-> n, mode |-> mode, gap |-> gap, clear |-> clear,
           bag |-> [poses |-> IF sorted THEN track ELSE Reverse(track),
                   scans |-> [i \in DOMAIN times |-> ScanAt(times[i], stamped \/ i % 2 = 0)]]]
ScansResult(j) ==
    LET rows == Rows(j.bag, j.n, j.mode, j.gap,
                     [intensity_threshold |-> 2, cluster_min_points |-> 2],
                     [i \in DOMAIN j.times |-> View(i, j.clear)])
    IN  [rows |-> rows, table |-> Table(rows, <<0, 2, 4, 6>>)]
DoScans == Does("scans", ScansResult(job))

\* The pose at a time lies between two of the bag that are near and have none
\* between them.
Known(poses, gap, time) == \E a, b \in Range(poses) :
    /\ a < time /\ time <= b /\ b - a <= gap
    /\ \A c \in Range(poses) : c <= a \/ b <= c

\* The points of the scans of a row that the detector could have seen a board by.
Seen(bag, row) ==
    {ip \in UNION {{i} \X bag.scans[i].points : i \in Range(row.scans)} :
        ip[2].near /\ ip[2].finite /\ ip[2].intensity >= 2}

Once(bag, times, n, mode, gap, found) ==
    LET block(b) == [i \in 1..n |-> (b - 1) * n + i]
        known(i) == Known(bag.poses, gap, times[i])
        usable == {b \in 1..Len(times) \div n :
                    known(block(b)[n]) /\ (mode = "deskew" => \A i \in 1..n : known(block(b)[i]))}
    IN  /\ {row.scans : row \in Range(found.rows)} = {block(b) : b \in usable}
        /\ Len(found.rows) = Cardinality(usable)
        /\ found.table[1].batches + found.table[2].batches + found.table[3].batches
                = Cardinality({r \in DOMAIN found.rows : found.rows[r].range < 6})
        /\ \A row \in Range(found.rows) :
                row.outcome = "few_points" => Cardinality(Seen(bag, row)) < 2

\* board_range_report.  The scans fall into batches of the size asked for, each
\* scan into one; a batch is a row of the table exactly if the poses it needs
\* are known, those of its own scans, and a row is counted in one bin; no point
\* that was too dark or not measured excuses a miss.
EveryBatchOnce ==
    Did("scans") => Once(job.bag, job.times, job.n, job.mode, job.gap, out)

-----------------------------------------------------------------------------
(* Launch files                                                            *)

\* A chain of files f0, f1 ..., each including the next and passing "x" on by
\* hand to f1 only; at `reader' one reads it, in one of several ways; below
\* `dark' the package is a variable.
Name(i) == <<"f0", "f1", "f2", "f3", "f4", "f5", "f6">>[i + 1]
Chain(n, reader, way, dark) ==
    [f \in {Name(i) : i \in 0..n} |->
        LET i == CHOOSE k \in 0..n : Name(k) = f
            reads == i = reader
        IN  [vars |-> {"y"} \cup (IF reads /\ way = "var" THEN {"x"} ELSE {}),
             args |-> IF i = 0 THEN {"x"} ELSE {"file"},
             params |-> IF ~reads \/ way = "var" THEN {}
                        ELSE {[named |-> way = "param", from |-> IF way = "param" THEN "p" ELSE "file"]},
             default |-> IF way = "default" THEN [a \in {"file"} |-> "p"] ELSE <<>>,
             includes |-> IF i = n THEN {}
                          ELSE {[target |-> IF i = dark THEN "dynamic" ELSE Name(i + 1),
                                 passed |-> IF i = 0 THEN {"x"} ELSE {}]},
             xml |-> TRUE, parses |-> TRUE, packages |-> {"here", "gone"}]]

Launched(odd, chain) ==
    CASE odd = "no" -> chain
      [] odd = "broken" -> [chain EXCEPT !["f0"].parses = FALSE]
      [] OTHER -> [chain EXCEPT !["f0"].includes = {[target |-> odd, passed |-> {"x"}]}]

JobAudit == \E n \in 1..6, way \in {"var", "param", "default", "undefaulted"} :
    \E reader \in 0..n, dark \in 1..6, odd \in {"no", "broken", "missing", "uninstalled"} :
        job = [tool |-> "audit", n |-> n, reader |-> reader, way |-> way, dark |-> dark, odd |-> odd,
               files |-> Launched(odd, Chain(n, reader, way, dark))]
AuditResult(j) ==
    LET found == Audit(j.files, [p \in {"p"} |-> {"x"}], {"here"}, "f0")
    IN  [found |-> found, exit |-> AuditExit(found)]
DoAudit == Does("audit", AuditResult(job))

\* audit_launch.  An argument that some file below reads is never called a bug,
\* nor one that might be read where the tool cannot look; one that nobody below
\* reads always is, if everything below can be seen.  (Chains of up to five
\* files, the last of them reading in its own text, and no parameter file named
\* by an argument without a default: what lies beyond, the tool takes for seen
\* and not read.)
AuditAccusesNoReader ==
    (/\ Did("audit") /\ job.n <= MAX_DEPTH + 1 /\ job.way # "undefaulted" /\ job.odd = "no"
     /\ job.reader > MAX_DEPTH => job.way = "var") =>
        LET within == job.dark >= job.n
            accused == Finding("BUG", "nobody reads", "x") \in out.found
        IN  /\ accused = (within /\ job.reader = 0)
            /\ accused => out.exit = 1

-----------------------------------------------------------------------------
(* Watching a replay                                                       *)

N == 60
Ticks == 0..N
Sent(up, times, value) ==
    LET order == InOrder(times)
    IN  [up |-> up, reliable |-> TRUE, latched |-> FALSE,
         sent |-> [k \in DOMAIN order |-> [at |-> order[k], value |-> value[order[k]]]]]

\* A cart that is parked until START and drives two metres a second from then
\* on, with NDT active since `up' but for a hole, and a sim clock that starts
\* late, ticks every `period' and shows EPOCH when the scripts start.
START == 12
EPOCH == 1000
PoseTicks(up, hole) == {t \in Ticks : t >= up /\ t \notin 30..29 + hole}
ClockTicks(from, period) == {t \in Ticks : t >= from /\ (t % period) = 0}

PosesOf(up, hole) ==
    Sent(up, PoseTicks(up, hole), [t \in Ticks |-> IF t <= START THEN 0 ELSE 2 * (t - START)])
ClockFrom(from, period) == Sent(from, ClockTicks(from, period), [t \in Ticks |-> EPOCH + t])
Reported(speed) == Sent(0, Ticks, [t \in Ticks |-> IF t < START THEN 0 ELSE speed])
Odometry == Reported(2)
Likelihood(up, hole) == Sent(up, PoseTicks(up, hole), [t \in Ticks |-> 20])
Iterations(up, hole, cap) == Sent(up, PoseTicks(up, hole), [t \in Ticks |-> IF t < cap THEN 5 ELSE 30])
Board == [Sent(2, {2}, [t \in Ticks |-> 0]) EXCEPT !.latched = TRUE]
Statuses(up) ==
    [k \in 1..12 |-> [at |-> 5 * k, value |-> [key \in {"scan_matching_status"} |->
                                                IF 5 * k >= up THEN "true" ELSE "false"]]]

JobReplay == \E up \in {0, 7, 13}, hole \in {0, 3, 6}, from \in {0, 15}, period \in {1, 2},
               reported \in {2, 3, 4}, cap \in {41, N + 1}, timeout \in {5, 8, 20} :
    job = [tool |-> "replay", up |-> up, period |-> period, reported |-> reported, cap |-> cap,
           timeout |-> timeout, seconds |-> 55, pose |-> PosesOf(up, hole),
           clock |-> ClockFrom(from, period), odometry |-> Odometry, velocity |-> Reported(reported),
           nvtl |-> Likelihood(up, hole), iterations |-> Iterations(up, hole, cap),
           board |-> Board, reports |-> Statuses(up)]
ReplayResult(j) ==
    LET events(stream) == Recorded(stream, j.clock, j.seconds)
    IN  [loop |-> LoopReport(events(j.pose), events(j.nvtl), events(j.iterations), events(j.board)),
         series |-> Timeseries(Timeline(j.odometry, j.nvtl, j.iterations, j.clock, j.seconds)),
         scale |-> CheckImuVelocity(j.pose.sent, j.velocity.sent, j.velocity.sent),
         wait |-> WaitForMessage(j.pose, [timeout |-> j.timeout, reliable |-> FALSE, latched |-> FALSE]),
         active |-> CheckNdtActivated(j.reports, j.timeout + 5)]
DoReplay == Does("replay", ReplayResult(job))

\* The loop report counts every pose that came while the recorder and the clock
\* ran, no jump where none was, and a hole as long as it was to within a period of
\* the clock.
LoopMeasured(pose, clock, period, seconds, loop) ==
    LET ticks == {pose.sent[k].at : k \in DOMAIN pose.sent}
        first == Min({t \in SubscribedAt(clock)..seconds : (t % period) = 0})
        heard == {t \in ticks : t >= SubscribedAt(pose) /\ t >= first /\ t < seconds}
        hole == Max({ab[2] - ab[1] : ab \in {ab \in heard \X heard :
                        ab[1] < ab[2] /\ \A t \in heard : t <= ab[1] \/ ab[2] <= t}})
        slack == period - 1
    IN  /\ loop.poses = Cardinality(heard) /\ loop.jumps = {}
        /\ hole > GAP_S + slack => Abs(loop.longest - hole) <= slack
        /\ hole <= GAP_S - slack => loop.gaps = 0

\* How ndt_timeseries dates what was at a time, from odometry that began at
\* another, by a clock first heard at `first' that shows `zero' at 0: from that
\* odometry on, to within a period; at 0 if the clock was not heard yet; and by
\* the clock itself, where it was heard between the two.
Dated(found, at, from, first, period, zero) ==
    /\ first <= from => Abs(found - (at - from)) <= period - 1
    /\ at < first => found = 0
    /\ (from < first /\ first <= at) => found \in zero + at - (period - 1)..zero + at

\* The recorder, the reports made from its file, and the scripts that listen for
\* themselves.  Every pose that came while the recorder and the clock ran is
\* counted, a hole is as long as it was to within a period of the clock, no jump
\* is seen where none was, motion and the iteration cap are found where they
\* began, and dated by the clock as it was heard, a reported speed is off by what
\* it is off, and where wait_for_message heard a pose, the next report says that
\* NDT is active.
ReplayIsMeasured ==
    Did("replay") =>
        LET first == Min({t \in job.clock.up..N : (t % job.period) = 0})
        IN  /\ LoopMeasured(job.pose, job.clock, job.period, job.seconds, out.loop)
            /\ out.loop.boards = 1
            /\ Dated(out.series.motion, START, 0, first, job.period, EPOCH)
            /\ IF job.cap < N THEN Dated(out.series.cap, job.cap, 0, first, job.period, EPOCH)
               ELSE out.series.cap = None
            /\ out.scale.exit = 0 /\ out.scale.scale = 50 * job.reported
            /\ (out.wait = "heard") = (job.up < job.timeout)
            /\ out.wait = "heard" => out.active = 0

Leaves == {"lidar", "can"}
SomeFaults(leaves) == [hits : SUBSET leaves, level : {"ERROR", "WARN", "LOUD"}]
SomeDrills(leaves) ==
    [faults : SeqsUpTo(SomeFaults(leaves), 2), at : {0, 2}, clear_at : {Never, 1, 4},
     list : BOOLEAN, allow_conflict : BOOLEAN]
DrillClocks == {<<0, 1, 2, 3, 4, 5>>, <<1, 3, 2, 4, 3, 5>>, <<0, 3, 1, 3>>, <<2, 1, 5, 1, 3>>}

JobDrill == \E leaves \in {{}, Leaves} : \E args \in SomeDrills(leaves), others \in 0..1, clock \in DrillClocks :
    job = [tool |-> "drill", leaves |-> leaves, args |-> args, others |-> others, clock |-> clock]
DrillResult(j) ==
    [sent |-> Inject(j.leaves, j.args, j.others, j.clock),
     exit |-> Exit(j.leaves, j.args, j.others)]
DoDrill == Does("drill", DrillResult(job))

\* The level a leaf is asked to have while the faults are applied.
AskedLevel(faults, leaf) ==
    LET by == {k \in DOMAIN faults : leaf \in faults[k].hits}
    IN  IF by = {} THEN "OK" ELSE faults[Max(by)].level

\* The last reading up to call k that had come to one of the times of the drill;
\* 0 if there is none.
Decisive(args, clock, k) ==
    Max({0} \cup {j \in 1..k : \/ clock[j] >= args.at
                               \/ args.clear_at # Never /\ clock[j] >= args.clear_at})

\* Whether the faults are on at call k: as that reading says, or from the start
\* if --at is not after it.
OnAt(args, clock, k) ==
    LET j == Decisive(args, clock, k)
    IN  IF j = 0 THEN args.at <= 0 ELSE ~(args.clear_at # Never /\ clock[j] >= args.clear_at)

DrillAsAsked(leaves, args, others, clock, drill) ==
    LET healthy == [leaf \in leaves |-> "OK"]
        asked == [leaf \in leaves |-> AskedLevel(args.faults, leaf)]
    IN  /\ drill.sent # <<>> => /\ \A k \in DOMAIN args.faults : args.faults[k].hits # {}
                                /\ args.allow_conflict \/ others = 0
                                /\ drill.exit = 0 /\ Len(drill.sent) = Len(clock)
        /\ \A k \in DOMAIN drill.sent :
            drill.sent[k] = IF OnAt(args, clock, k) THEN asked ELSE healthy

\* diag_inject.  Each call of its timer publishes, of every leaf, the level of
\* the last pattern that names it, or all of them healthy: which of the two is
\* what the last reading of the clock said that had come to --at or --clear-at.
\* So a clock set back to before both changes nothing, one set back from after
\* --clear-at to between the two applies the faults again (the script's example
\* says "healthy, fault at 5 s, recover at 20 s", and its --clear-at is "to
\* exercise recovery"), and where --clear-at comes before --at nothing is applied
\* but what was at the start.  Nothing is published if a pattern names no leaf or
\* someone else publishes.
DrillIsAsAsked ==
    Did("drill") => DrillAsAsked(job.leaves, job.args, job.others, job.clock, out)

Point3(id, bearing, elevation, range, intensity, ring) ==
    [id |-> id, bearing |-> bearing, elevation |-> elevation, range |-> range,
     intensity |-> intensity, ring |-> ring]
Scan == <<Point3(1, 0, 0, 5, 10, 0), Point3(2, 90, -20, 5, 300, -1), Point3(3, -90, 0, 40, 250, 3),
          Point3(4, -180, 10, 5, 255, 7), Point3(5, 170, 0, 5, 700, 1), Point3(6, -60, 30, 12, 0, 2)>>

JobFov == \E from \in {-180, -90, 0, 170, 300}, to \in {-170, 0, 60, 90, 180, 540},
            range \in {10, 100}, band \in {<<-90, 90>>, <<-15, 20>>}, thin, emit \in BOOLEAN,
            drawn \in {{1, 2, 3, 4, 5, 6}, {2, 3}, {}} :
    job = [tool |-> "fov", drawn |-> [k \in 1..6 |-> k \in drawn],
           args |-> [min_bearing |-> from, max_bearing |-> to, max_range |-> range,
                     min_elevation |-> band[1], max_elevation |-> band[2],
                     thin |-> thin, emit_xyzirc |-> emit]]
FovResult(j) ==
    OnCloud(Scan, j.args, j.drawn)
DoFov == Does("fov", FovResult(job))

\* Where the way round from the first bearing to the second ends.
WayEnd(args) ==
    IF args.max_bearing > args.min_bearing THEN args.max_bearing
    ELSE Min({b \in args.min_bearing + 1..args.min_bearing + 360 : ((b - args.max_bearing) % 360) = 0})

Inside(cloud, args) ==
    {p \in Range(cloud) :
        /\ \E b \in args.min_bearing..WayEnd(args) : ((b - p.bearing) % 360) = 0
        /\ p.range <= args.max_range
        /\ args.min_elevation <= p.elevation /\ p.elevation <= args.max_elevation}

Wedge(cloud, args, shown) ==
    LET inside == {p.id : p \in Inside(cloud, args)}
        ids == {p.id : p \in Range(shown)}
    IN  /\ ids \subseteq inside /\ Cardinality(ids) = Len(shown)
        /\ ~args.thin => ids = inside
        /\ args.emit_xyzirc => \A p \in Range(shown) : p.intensity \in 0..255
        /\ \A p, q \in Range(shown) :
                cloud[p.id].intensity <= cloud[q.id].intensity => p.intensity <= q.intensity

\* fov_restrict.  The points that pass are those met on the way round from the
\* first bearing to the second, also across 180 degrees and for a full circle,
\* within the range and the band; thinning takes some away and adds none; and no
\* point comes out darker than one it outshone.
NarrowViewIsAWedge ==
    Did("fov") => Wedge(Scan, job.args, out)

-----------------------------------------------------------------------------
JobTwin == job = [tool |-> "twin"]
DoTwin == job.tool = "twin" /\ TwinNext /\ UNCHANGED <<job, out, done>>

Init ==
    /\ done = FALSE /\ out = "nothing"
    /\ \/ TwinIdle /\ (\/ JobPlay \/ JobSweep \/ JobVcu \/ JobWake \/ JobRoute \/ JobLane \/ JobPinch \/ JobTags
                       \/ JobMerge \/ JobPose \/ JobBag \/ JobScans \/ JobAudit
                       \/ JobReplay \/ JobDrill \/ JobFov)
       \/ TwinInit /\ JobTwin

Next ==
    \/ DoPlay \/ DoSweep \/ DoVcu \/ DoRoute \/ DoFit \/ DoTags \/ DoMerge \/ DoPose
    \/ DoBag \/ DoScans \/ DoAudit \/ DoReplay \/ DoDrill \/ DoFov \/ DoTwin

Spec == Init /\ [][Next]_vars
=============================================================================

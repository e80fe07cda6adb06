------------------------------- MODULE LaneTools -------------------------------
(***************************************************************************)
(* The scripts that make a lane: obstacle_grid marks cells of a cloud,     *)
(* fit_lane_corridor moves and sizes a lane between them and tags where it *)
(* is to be slow, centerline_to_lanelet cuts it into lanelets,             *)
(* check_lane_clearance measures what came out, and generate_tag_map       *)
(* sets boards along a lane.                                               *)
(*                                                                         *)
(* The geometry is taken apart into two lines.  Along the route a place is *)
(* its arc length.  Across it, at one station, a place is its distance     *)
(* from the edge of the grid, with half a ray step as the unit: the lane   *)
(* is straight there and cells are the squares it passes between.          *)
(***************************************************************************)
EXTENDS Integers, SequencesExt

-----------------------------------------------------------------------------
(* Along: an open route is its points 0..last, each at `at' and `width'     *)
(* wide.  It is straight: smoothing moves its points, not its length.       *)

LastPoint(route) == Max(DOMAIN route)

\* numpy.searchsorted, from the left.
SearchSorted(route, place) == Cardinality({i \in DOMAIN route : route[i].at < place})

Narrow(route, below) == {i \in DOMAIN route : route[i].width < below}

\* Variant for the mutation runs: the normal speed resumes a point early.
SlowZoneShort(route, below, pad) ==
    LET narrow == Narrow(route, below)
    IN  [start |-> SearchSorted(route, route[Min(narrow)].at - pad),
         resume |-> SearchSorted(route, route[Max(narrow)].at + pad) - 1]

\* slow_zone: where the slow limit starts and where the normal one resumes.
SlowZone(route, below, pad) ==
    LET narrow == Narrow(route, below)
    IN  [start |-> SearchSorted(route, route[Min(narrow)].at - pad),
         resume |-> SearchSorted(route, route[Max(narrow)].at + pad) + 1]

\* fit_lane_corridor's main: no file when no point is narrow, or when the zone
\* runs past the last point (the log of its end is an IndexError).
WritesRoute(route, below, pad) ==
    /\ Narrow(route, below) # {}
    /\ SlowZone(route, below, pad).resume <= LastPoint(route)

\* parse_route: a speed holds until the next point that sets one.
SpeedTags(route, below, pad) ==
    LET zone == SlowZone(route, below, pad)
    IN  [i \in {zone.start, zone.resume} |-> IF i = zone.start THEN "slow" ELSE "normal"]

ParsedSpeed(tags, i) ==
    LET set == {j \in DOMAIN tags : j <= i}
    IN  IF set = {} THEN "default" ELSE tags[Max(set)]

\* smooth: one pass of Chaikin's corner cutting over an open line of three points
\* or more, of which only the ends are kept.  A place is a whole number: over
\* multiples of 32, two passes and a halving lose nothing.
Chaikin(line) ==
    LET n == Max(DOMAIN line)
        near(i) == (3 * line[i] + line[i + 1]) \div 4
        far(i) == (line[i] + 3 * line[i + 1]) \div 4
    IN  [j \in 0..(2 * n) - 1 |->
            CASE j = 0 -> line[0]
              [] j = (2 * n) - 1 -> line[n]
              [] j > 0 /\ j < (2 * n) - 1 -> IF (j % 2) = 0 THEN near(j \div 2) ELSE far(j \div 2)]

Smooth(line, smoothing) ==
    LET pass[k \in 0..smoothing] == IF k = 0 THEN line ELSE Chaikin(pass[k - 1])
    IN  pass[smoothing]

\* resample: each segment in equal pieces, as few as make none longer than the step.
Pieces(line, j, step) == (line[j + 1] - line[j] + step - 1) \div step

\* The index of each point of the line among the samples, and the place of a sample.
Indices(line, step) ==
    LET index[j \in DOMAIN line] == IF j = 0 THEN 0 ELSE index[j - 1] + Pieces(line, j - 1, step)
    IN  index

PlaceAt(line, step, index, s) ==
    LET n == Max(DOMAIN line)
        j == Max({i \in DOMAIN line : index[i] <= s})
    IN  IF j = n THEN line[n]
        ELSE line[j] + ((s - index[j]) * (line[j + 1] - line[j])) \div Pieces(line, j, step)

Resample(line, step) ==
    LET index == Indices(line, step)
    IN  [s \in 0..index[Max(DOMAIN line)] |-> PlaceAt(line, step, index, s)]

Samples(line, smoothing, step) == Resample(Smooth(line, smoothing), step)

\* widths_along and speeds_along: the route point at or before the place of a sample.
PointBefore(route, t) == Max({i \in DOMAIN route : route[i].at <= t})

NarrowAt(route, below, t) ==
    LET i == Min({PointBefore(route, t), LastPoint(route) - 1})
        gap == route[i + 1].at - route[i].at
    IN  route[i].width * gap + (t - route[i].at) * (route[i + 1].width - route[i].width)
            < below * gap

SpeedsAlong(route, tags, samples) ==
    [s \in DOMAIN samples |-> ParsedSpeed(tags, PointBefore(route, samples[s]))]

Breaks(speeds) == {t \in DOMAIN speeds \ {0} : speeds[t] # speeds[t - 1]}

\* split_segments: ends of lanelets every k samples, a stub of a tail folded
\* into the lanelet before it, and then an end at every change of speed.
SplitSegments(last, k, breaks) ==
    LET every == {t \in 0..last - 1 : t % k = 0}
        stub == /\ Cardinality(every) > 1
                /\ 2 * (last - Max(every)) < k
        even == (IF stub THEN every \ {Max(every)} ELSE every) \cup {last}
        bounds == even \cup (breaks \cap (1..last - 1))
    IN  {ab \in bounds \X bounds :
            ab[1] < ab[2] /\ \A c \in bounds : c <= ab[1] \/ c >= ab[2]}

\* build_osm: a lanelet takes the speed of its first sample.
Lanelets(route, tags, samples, k) ==
    LET speeds == SpeedsAlong(route, tags, samples)
    IN  {[from |-> seg[1], to |-> seg[2], speed |-> speeds[seg[1]]] :
            seg \in SplitSegments(Max(DOMAIN samples), k, Breaks(speeds))}

-----------------------------------------------------------------------------
(* Across: cells are numbered from 0, Cell wide.                           *)

Cell == 8
Step == 2
Reach == 40
MIN_POINTS == 2

\* A cloud is a set of points; a box bounds some of its coordinates from one
\* side or from both, strictly.
InBox(p, box) ==
    \A axis \in DOMAIN box :
        /\ \A lo \in box[axis].lo : p[axis] > lo
        /\ \A hi \in box[axis].hi : p[axis] < hi

\* line_points: from a on, every half cell, without b.
LinePoints(line) ==
    LET way == IF line.a < line.b THEN 1 ELSE -1
    IN  {line.a + way * t : t \in {u \in 0..(way * (line.b - line.a)) - 1 : u % (Cell \div 2) = 0}}

PointsIn(cell, points) == Cardinality({p \in points : p.x \div Cell = cell})

\* build_grid: a cell is an obstacle if enough points are in it, of the band
\* without what is removed, and of the whole cloud where a box is added; a
\* sample of an added line weighs as much as is enough.
Counted(cell, cloud, edits) ==
    LET band == {p \in cloud : edits.band.lo < p.z - edits.floor /\ p.z - edits.floor < edits.band.hi}
        kept == {p \in band : \A box \in edits.remove : ~InBox(p, box)}
        added == UNION {{box} \X {p \in cloud : InBox(p, box)} : box \in edits.add_cloud}
    IN  PointsIn(cell, kept)
        + Cardinality({bp \in added : bp[2].x \div Cell = cell})
        + MIN_POINTS * Cardinality({x \in UNION {LinePoints(l) : l \in edits.add_line} : x \div Cell = cell})

BuildGrid(cloud, edits) ==
    {cell \in 0..edits.size - 1 : Counted(cell, cloud, edits) >= MIN_POINTS}

\* anchor_transform and main: the edits are written in the frame of the second
\* anchor; two anchors move the cloud there, one alone is refused.
ObstacleGrid(cloud, from, to, edits) ==
    LET moved == {[p EXCEPT !.x = @ + to.at - from.at] : p \in cloud}
    IN  IF from.given # to.given THEN [refused |-> TRUE, occ |-> {}]
        ELSE [refused |-> FALSE, occ |-> BuildGrid(IF from.given THEN moved ELSE cloud, edits)]

\* free_space: the first sample of the ray that lies in an occupied cell.
FreeSpace(occ, place, side) ==
    LET hit == {r \in 0..Reach : r % Step = 0 /\ (place + side * r) \div Cell \in occ}
    IN  IF hit = {} THEN Reach ELSE Min(hit)

\* refine_pass, of a route along x: the normal of a station points to larger
\* places if it goes forward.  A fit has one pinch or none, where the cart, which
\* covers cart.rear behind and cart.front ahead of where it is, passes between
\* two faces.
Side(station) == IF station.forward THEN 1 ELSE -1

\* Variant for the mutation runs: the cart is taken to go forward.
LevelWithForward(station, pinch, cart) ==
    /\ station.aisle
    /\ station.x - cart.rear - pinch.pad < pinch.hi
    /\ station.x + cart.front + pinch.pad > pinch.lo

\* level_with: some part of the cart, or of the padding, is beside the pinch.
LevelWith(station, pinch, cart) ==
    LET back == IF station.forward THEN cart.rear ELSE cart.front
        ahead == IF station.forward THEN cart.front ELSE cart.rear
    IN  /\ station.aisle
        /\ station.x - back - pinch.pad < pinch.hi
        /\ station.x + ahead + pinch.pad > pinch.lo

Level(route, i, fit) == \E pinch \in fit.pinch : LevelWith(route[i], pinch, fit.cart)

\* The pinch's width where the cart is level with it or the lane is held, and
\* back to the lane's with the square of the distance.
EasedWidth(route, i, fit) ==
    LET held == {j \in DOMAIN route :
                    \E pinch \in fit.pinch : LevelWith(route[j], pinch, fit.cart) \/ route[j].x \in pinch.hold}
        away(j) == Max({route[j].x - route[i].x, route[i].x - route[j].x})
        eased(pinch, d) == pinch.width + ((fit.width - pinch.width) * d * d) \div (pinch.ease * pinch.ease)
    IN  IF held = {} THEN fit.width
        ELSE Max({eased(pinch, Min({pinch.ease} \cup {away(j) : j \in held})) : pinch \in fit.pinch})

WidthThere(wanted, left, right, fit) ==
    Max({fit.min_width, Min({wanted, left + right - 2 * fit.margin})})

\* The overrides in order, each from the stretch's own margin or from what the
\* ones before it left, and then the pinch's cap.
EdgeMargin(route, i, fit) ==
    LET raised(mg, o) == IF o.at_least = {} THEN mg ELSE Max(o.at_least \cup {fit.margin})
        after[k \in 0..Len(fit.margins)] ==
            IF k = 0 THEN fit.margin
            ELSE LET o == fit.margins[k]
                 IN  IF route[i].x \in o.where THEN Min({raised(after[k - 1], o)} \cup o.at_most)
                     ELSE after[k - 1]
        caps == UNION {pinch.edge_margin : pinch \in fit.pinch}
        mg == after[Len(fit.margins)]
    IN  IF Level(route, i, fit) THEN Min({mg} \cup caps) ELSE mg

OffsetBounds(left, right, width, margin) ==
    [lo |-> (width \div 2) + margin - right, hi |-> left - (width \div 2) - margin]

\* The body band: beside the pinch both sides of the cart keep off the faces.
InBand(bounds, route, i, fit) ==
    LET bodies == IF Level(route, i, fit) THEN UNION {pinch.body : pinch \in fit.pinch} ELSE {}
        end(face) == Side(route[i]) * (face - route[i].place)
        ends(body) == {end(body.low + fit.cart.half + body.margin), end(body.high - fit.cart.half - body.margin)}
    IN  [lo |-> Max({bounds.lo} \cup {Min(ends(body)) : body \in bodies}),
         hi |-> Min({bounds.hi} \cup {Max(ends(body)) : body \in bodies})]

Feasible(bounds) == bounds.lo <= bounds.hi

\* The stations of the stretch, and those at its ends, which stay where they
\* are; to ask for none of them is to ask for all.
Zone(route, fit) == {j \in DOMAIN route : route[j].x \in fit.where}
Pinned(route, i, fit) ==
    LET zone == Zone(route, fit)
    IN  fit.pin = 0 \/ i < Min(zone) + fit.pin \/ i > Max(zone) - fit.pin

\* What the solver may choose from: where no offset is enough, the middle of
\* what there is.
Offsets(bounds, pinned) ==
    CASE pinned -> {0}
      [] ~pinned /\ Feasible(bounds) -> bounds.lo..bounds.hi
      [] ~pinned /\ ~Feasible(bounds) -> {(bounds.lo + bounds.hi) \div 2}

\* The cells that a ray as wide as a strip along the route may meet.
CellsBeside(occ, x, strip) == {c[2] : c \in {c \in occ : x - strip <= c[1] /\ c[1] <= x + strip}}

\* The lane's edges at a station, for each offset it may get.
LanesAt(occ, route, i, fit) ==
    LET station == route[i]
        beside == CellsBeside(occ, station.x, fit.strip)
        left == FreeSpace(beside, station.place, Side(station))
        right == FreeSpace(beside, station.place, -Side(station))
        width == WidthThere(EasedWidth(route, i, fit), left, right, fit)
        bounds == InBand(OffsetBounds(left, right, width, EdgeMargin(route, i, fit)), route, i, fit)
        pinned == Pinned(route, i, fit)
        centre(d) == station.place + Side(station) * d
    IN  {[station |-> station, low |-> centre(d) - (width \div 2), high |-> centre(d) + (width \div 2),
          free |-> ~pinned /\ Feasible(bounds)] : d \in Offsets(bounds, pinned)}

\* A stretch is one piece of the route.
RefinedLanes(occ, route, fit) ==
    LET zone == Zone(route, fit)
    IN  IF zone # {} /\ zone = Min(zone)..Max(zone)
        THEN UNION {LanesAt(occ, route, i, fit) : i \in zone} ELSE {}

\* check_lane_clearance: a cell is inside by its centre; a cell outside is as
\* far as its square is from the nearer edge.
CellInside(lane, cell) ==
    LET centre == (Cell * cell) + (Cell \div 2)
    IN  lane.low < centre /\ centre < lane.high

SquareToEdge(cell, edge) ==
    Max({0, Max({(Cell * cell) - edge, edge - (Cell * (cell + 1))})})

Clearance(lane, cell) ==
    Min({SquareToEdge(cell, lane.low), SquareToEdge(cell, lane.high)})

CheckPasses(lane, occ, min_clearance) ==
    \A cell \in occ :
        /\ ~CellInside(lane, cell)
        /\ Clearance(lane, cell) > 0 /\ Clearance(lane, cell) >= min_clearance

-----------------------------------------------------------------------------
(* generate_tag_map.  A place is its arc length, in halves, so that the     *)
(* middle of two places is their sum.                                      *)

\* A way's points, of the nodes that the file has.
WayPoints(map, way) ==
    LET refs == map.ways[way]
        known == {i \in DOMAIN refs : refs[i] \in DOMAIN map.nodes}
        nth(k) == CHOOSE i \in known : Cardinality({j \in known : j <= i}) = k
    IN  [k \in 1..Cardinality(known) |-> map.nodes[refs[nth(k)]]]

\* The ways that may be a side of the relation; the last member is taken.
Sides(map, relation, role) ==
    {i \in DOMAIN relation.members :
        /\ relation.members[i].role = role
        /\ relation.members[i].ref \in DOMAIN map.ways
        /\ WayPoints(map, relation.members[i].ref) # <<>>}

IsLane(map, relation) ==
    /\ relation.subtype = "road"
    /\ Sides(map, relation, "left") # {} /\ Sides(map, relation, "right") # {}

\* lane_centrelines: as many samples as the side with more points has.
Centreline(map, relation) ==
    LET side(role) == WayPoints(map, relation.members[Max(Sides(map, relation, role))].ref)
        left == side("left")
        right == side("right")
        n == Max({Len(left), Len(right)})
        sample(points, i) == points[1 + Min({(i * Len(points)) \div n, Len(points) - 1})]
    IN  [k \in 1..n |-> sample(left, k - 1) + sample(right, k - 1)]

\* Each at the place of its relation.
LaneCentrelines(map) ==
    LET line(i) == Centreline(map, map.relations[i])
        lanes == {i \in DOMAIN map.relations : IsLane(map, map.relations[i]) /\ Len(line(i)) >= 2}
    IN  [i \in lanes |-> line(i)]

\* The lengths of a polyline's segments, and their sum.
Segments(path) ==
    [i \in 1..Len(path) - 1 |-> Max({path[i + 1] - path[i], path[i] - path[i + 1]})]
LengthOf(path) ==
    LET along[k \in 0..Len(path) - 1] == IF k = 0 THEN 0 ELSE along[k - 1] + Segments(path)[k]
    IN  along[Len(path) - 1]

\* longest_path: the first of the longest.
LongestPath(centrelines) ==
    LET longest == {i \in DOMAIN centrelines :
                       \A j \in DOMAIN centrelines : LengthOf(centrelines[j]) <= LengthOf(centrelines[i])}
    IN  IF DOMAIN centrelines = {} THEN <<>> ELSE centrelines[Min(longest)]

\* Variant for the mutation runs: what the first station used up is forgotten.
CarriedWhole(segment, first, spacing) == segment % spacing

Carried(segment, first, spacing) == (segment - first) % spacing

\* resample, after k segments; carried is what the last station is behind.
Resampled(lengths, spacing) ==
    LET after[k \in 0..Len(lengths)] ==
            IF k = 0 THEN [carried |-> 0, travelled |-> 0, stations |-> <<>>]
            ELSE LET was == after[k - 1]
                     segment == lengths[k]
                     first == IF was.carried = 0 THEN 0 ELSE spacing - was.carried
                     count == IF segment < first THEN 0 ELSE 1 + (segment - first) \div spacing
                 IN  IF segment = 0 THEN was
                     ELSE [carried |-> Carried(segment, first, spacing),
                           travelled |-> was.travelled + segment,
                           stations |-> was.stations \o
                                [i \in 1..count |-> was.travelled + first + (i - 1) * spacing]]
    IN  after[Len(lengths)]

\* main: boards of a station are one on the left, one on the right.
TagIds(stations) ==
    [left |-> [i \in DOMAIN stations |-> 99 + i], right |-> [i \in DOMAIN stations |-> 199 + i]]

TagMap(map, spacing, limit) ==
    LET path == LongestPath(LaneCentrelines(map))
        all == Resampled(Segments(path), spacing).stations
        stations == IF limit = 0 THEN all ELSE SubSeq(all, 1, Min({limit, Len(all)}))
    IN  IF path = <<>> THEN [refused |-> TRUE]
        ELSE [refused |-> FALSE, path |-> path, stations |-> stations, ids |-> TagIds(stations)]
=============================================================================

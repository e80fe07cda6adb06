------------------------------ MODULE BagReports ------------------------------
(***************************************************************************)
(* What is read off a recorded bag: aruco_bag_report counts the detections *)
(* of a drive and looks for holes in the coverage, board_range_report runs *)
(* the board detector over batches of scans and tabulates the outcome.     *)
(*                                                                         *)
(* A bag of detections is a sequence of messages, one camera's at a time,  *)
(* each with its time and its detections.  A detection has the board, the  *)
(* direction its normal faces (on a line, spread being the difference),    *)
(* its range and its angle of incidence; an angle below zero is a NaN.     *)
(***************************************************************************)
EXTENDS Integers, Sequences, FiniteSetsExt, Functions, TLC

Detections(bag) == UNION {{m} \X DOMAIN bag[m].detections : m \in DOMAIN bag}
DetectionAt(bag, md) == bag[md[1]].detections[md[2]]

\* corner_sigma: frames of every board, and whether its table is finished.  A
\* board of one frame leaves nothing for the second half of the drift.
Frames(bag) ==
    [b \in {DetectionAt(bag, md).board : md \in Detections(bag)} |->
        Cardinality({md \in Detections(bag) : DetectionAt(bag, md).board = b})]

CornerSigma(bag, min_frames) ==
    LET frames == Frames(bag)
        usable == {b \in DOMAIN frames : frames[b] >= min_frames}
    IN  [boards |-> frames, usable |-> usable,
         exit |-> IF frames = <<>> THEN "failed"
                  ELSE IF \E b \in usable : frames[b] = 1 THEN "raised" ELSE "ok"]

\* detection_rate: buckets of a metre and of five degrees.
InBuckets(bucket) ==
    [b \in Range(bucket) |-> Cardinality({md \in DOMAIN bucket : bucket[md] = b})]

DetectionRate(bag) ==
    LET finite == {md \in Detections(bag) : DetectionAt(bag, md).incidence >= 0}
    IN  [by_range |-> InBuckets([md \in Detections(bag) |-> DetectionAt(bag, md).range]),
         by_incidence |-> InBuckets([md \in finite |-> 5 * (DetectionAt(bag, md).incidence \div 5)]),
         exit |-> IF Detections(bag) = {} THEN "failed" ELSE "ok"]

\* coverage: windows across the cameras.  A window exists when a detection has
\* come in it; a message without any leaves no trace.
\* Variant for the mutation runs: every message is a window of its own.
WindowOfMessage(bag, m, window) == m

WindowOf(bag, m, window) == bag[m].at \div window
Windows(bag, window) == {WindowOf(bag, md[1], window) : md \in Detections(bag)}

SeenIn(bag, window, key) == {md \in Detections(bag) : WindowOf(bag, md[1], window) = key}

SpreadOf(bag, seen) ==
    LET facing == {DetectionAt(bag, md).facing : md \in seen}
    IN  Max(facing) - Min(facing)

UsableWindow(bag, window, min_spread, key) ==
    LET seen == SeenIn(bag, window, key)
    IN  Cardinality(seen) >= 2 /\ SpreadOf(bag, seen) >= min_spread

\* The census, window after window.
Coverage(bag, window, min_spread) ==
    LET keys == Windows(bag, window)
        key(i) == CHOOSE k \in keys : Cardinality({j \in keys : j <= k}) = i
        current[i \in 0..Cardinality(keys)] ==
            IF i = 0 \/ UsableWindow(bag, window, min_spread, key(i)) THEN 0
            ELSE current[i - 1] + 1
        with(n) == Cardinality({k \in keys : Cardinality(SeenIn(bag, window, k)) = n})
    IN  [total |-> Cardinality(keys), none |-> with(0), one |-> with(1),
         two_plus |-> Cardinality(keys) - with(0) - with(1),
         well_spread |-> Cardinality({k \in keys : UsableWindow(bag, window, min_spread, k)}),
         longest |-> Max(Range(current)),
         exit |-> IF keys = {} THEN "failed" ELSE "ok"]

\* main, for --report all: a report that raises ends it.
Report(bag, min_frames, window, min_spread) ==
    LET sigma == CornerSigma(bag, min_frames)
        rest == {DetectionRate(bag).exit, Coverage(bag, window, min_spread).exit}
    IN  IF sigma.exit = "raised" THEN "raised"
        ELSE IF "failed" \in {sigma.exit} \cup rest THEN "failed" ELSE "ok"

-----------------------------------------------------------------------------
(* board_range_report.  A bag has poses, each with its time, and scans;    *)
(* views is what the detector makes of a batch that ends with the scan.    *)

\* load_poses refuses a bag without any; the track has them in order of time.
LoadPoses(poses) ==
    LET before(i) == {j \in DOMAIN poses :
            poses[j] < poses[i] \/ (poses[j] = poses[i] /\ j <= i)}
    IN  [refused |-> poses = <<>>,
         track |-> [k \in DOMAIN poses |->
                        poses[CHOOSE i \in DOMAIN poses : Cardinality(before(i)) = k]]]

\* iterate_scans: a scan that was not stamped counts from when it was received.
TimeOf(scan) == IF scan.stamp # 0 THEN scan.stamp ELSE scan.received

\* cloud_arrays: what the detector would gate on, and a NaN, is dropped here.
CloudArrays(scan, min_intensity) ==
    {p \in scan.points : p.intensity >= min_intensity /\ p.finite}

IterateScans(scans, min_intensity) ==
    [i \in DOMAIN scans |-> [at |-> TimeOf(scans[i]), points |-> CloudArrays(scans[i], min_intensity)]]

\* PoseTrack.at: between two poses that are not too far apart in time.
PoseAt(track, max_gap, t) ==
    LET i == Cardinality({k \in DOMAIN track : track[k] < t})
    IN  i > 0 /\ i < Len(track) /\ track[i + 1] - track[i] <= max_gap

Classify(view, retro_near, cluster_min_points) ==
    IF view.status = "ok"
    THEN IF view.near THEN IF view.confident THEN "detected" ELSE "low_conf" ELSE "wrong"
    ELSE IF view.status = "ambiguous" /\ view.near THEN "ambiguous"
    ELSE IF view.rejected THEN "rejected"
    ELSE IF view.behind THEN "behind"
    ELSE IF ~view.in_range THEN "out_of_range"
    ELSE IF retro_near < cluster_min_points THEN "few_points" ELSE "unclustered"

\* Whether the poses that a batch needs are there; deskewing needs each scan's.
PosesThere(scans, batch, mode, track, max_gap) ==
    /\ PoseAt(track, max_gap, scans[batch[Len(batch)]].at)
    /\ mode = "deskew" => \A i \in DOMAIN batch : PoseAt(track, max_gap, scans[batch[i]].at)

\* Variant for the mutation runs: a batch without its poses stays, and slides on.
JoinedSliding(was, i, n, there) ==
    LET batch == Append(was.batch, i)
    IN  IF Len(batch) < n THEN [was EXCEPT !.batch = batch]
        ELSE IF there THEN [batch |-> <<>>, rows |-> Append(was.rows, batch)]
        ELSE [was EXCEPT !.batch = Tail(batch)]

\* One scan of run(): it joins the batch, and a full batch becomes a row or is
\* dropped.
Joined(was, i, n, there) ==
    LET batch == Append(was.batch, i)
    IN  IF Len(batch) < n THEN [was EXCEPT !.batch = batch]
        ELSE IF there THEN [batch |-> <<>>, rows |-> Append(was.rows, batch)]
        ELSE [was EXCEPT !.batch = <<>>]

Batches(scans, n, mode, track, max_gap) ==
    LET after[i \in 0..Len(scans)] ==
            LET was == after[i - 1]
            IN  IF i = 0 THEN [batch |-> <<>>, rows |-> <<>>]
                ELSE Joined(was, i, n, PosesThere(scans, Append(was.batch, i), mode, track, max_gap))
    IN  after[Len(scans)].rows

RetroNear(scans, batch) ==
    Cardinality({ip \in UNION {{i} \X scans[i].points : i \in Range(batch)} : ip[2].near})

\* run: the outcome of every batch.
Rows(bag, n, mode, max_gap, params, views) ==
    LET poses == LoadPoses(bag.poses)
        scans == IterateScans(bag.scans, params.intensity_threshold)
        batches == Batches(scans, n, mode, poses.track, max_gap)
        row(batch) ==
            LET last == batch[Len(batch)]
                near == RetroNear(scans, batch)
            IN  [scans |-> batch, retro_near |-> near, range |-> views[last].range,
                 outcome |-> Classify(views[last], near, params.cluster_min_points)]
    IN  IF poses.refused THEN <<>> ELSE [r \in DOMAIN batches |-> row(batches[r])]

\* table: rows in each half-open bin, and those of them that are detections.
Table(rows, edges) ==
    [i \in 1..Len(edges) - 1 |->
        LET bin == {r \in DOMAIN rows : edges[i] <= rows[r].range /\ rows[r].range < edges[i + 1]}
        IN  [batches |-> Cardinality(bin),
             detected |-> Cardinality({r \in bin : rows[r].outcome = "detected"})]]
=============================================================================

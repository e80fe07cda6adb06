# Verification of the golf cart's own software

TLA+ models, TLC runs and TLAPS proofs for the code of this repository that
decides things: the ArUco localizer of the golf cart, the bridge between its two
hosts, the control tools, the installer, and the scripts that prepare maps, drive
the bench and judge recordings. Autoware and the drivers are used by the
repository and are not part of it.

Run a check in this directory:

    tlc -workers 2 -config MCLocalizationState.cfg MCLocalizationState
    tlc -workers 2 -config MCTools.cfg MCTools
    tlapm LocalizationState_proofs.tla
    tlapm Tools_proofs.tla                     (about fifteen minutes)
    tlapm DriveTools_proofs.tla                (about twenty-five minutes)

`PROJECT.json` lists the runs, the mutants, the source lines of every
definition, the hazards with the properties that guard them, the findings and
the theorems.

## Inventory

The vehicle runs on two machines. The *master* runs Autoware, the wired sensors
and the localizer; the *Orin* runs the ZED X cameras and records them. Paths
below are relative to the repository; `loc/` is
`src/localization/golfcart_aruco_localizer/`.

| component | state it keeps | operations | what is hard | what makes it correct |
|---|---|---|---|---|
| localization state machine (`loc/src/health.cpp:130-231`) | state, time since the last trusted fix, last clock reading | `update(now, outcome)`, `reset()` | one counter serves a grace period and two budgets; the clock may jump; a latched fault | nobody drives on a fix that is too old; a fault stays and keeps asking for the stop; driving without a trusted fix ends |
| integrity monitor (`loc/src/health.cpp:25-115`) | strikes, notes and moving average per board; flagged boards | `update(residuals)`, `noteConsensusOutlier`, `clear` | two paths to one count; ratio and decay interact; the median of few | a persistent fault is flagged, a common fault accuses nobody, what cannot be isolated is reported at once |
| flip consensus (`loc/src/solver.cpp:115-237`) | none (pure) | `resolveFlips` | agreement is not transitive; every board has two candidate poses; ties | never a guess, nothing stronger overlooked, every sighting accounted for |
| pose solver (`loc/src/solver.cpp:240-511`) | none (pure) | `solvePose` | numerical optimisation | out of reach of TLC |
| localizer node (`loc/src/aruco_localizer_node.cpp`) | pending detections, last result, samples of the cold start, last odometry, time of the last initial pose | `onDetections`, `processWindow`, `solveAndPublish`, `maybeInitialize`, `report`, `diagnose` | early returns that must all report; asynchronous request to a service that may be absent; evidence that goes stale | status agrees with state; the first pose is confirmed; the pose is offered until it lands |
| tag map loader (`loc/src/tag_map.cpp`) | none after start | read, validate | malformed maps | rejects instead of guessing; tested by enumeration |
| ArUco detector (`src/localization/golfcart_aruco_detector`) | cached calibration, decode scale | image and CameraInfo callbacks | callbacks of two topics on one cache | the calibration used fits the frame |
| domain bridge (`src/system/golfcart_domain_bridge`) | lanes with time of the last message, service proxies | relay, throttle, proxy a service, shut down | either process may stop and start again, late listeners, two files that may differ | no loop, no lane above its rate, latched values arrive, no answer is invented |
| control tools (`src/vehicle/control_test`) | keys' effect, topics, publishers, elapsed time | GUI events, timer, subscriptions; a trajectory file | Tk thread and executor share fields without a lock; timers are late, the clock is set | the selected topics carry the command; the profile is played as written |
| installer (`setup/golfcart_setup`) | `setup/.state.json`, the selection, the plan | choose, run, record, import markers | two sessions on one file, interrupts, steps edited after they ran | installed means that it ran; a failure is recorded; no step on a failed one |
| CAN scripts (`scripts/can`) | waves, counters, stamps per identifier | sweep, heartbeat, monitor, status | field widths and signs, wrap of the counter, a window that fills | a sweep never jumps; a rate is right; silence is shown |
| lane scripts (`scripts/map`: grid, fit, lanelets, clearance, tags) | files that one writes and the next reads | mark, move, size, cut, measure, place boards | rounding, orientation, extents of the cart, spacing across cuts | the fitted lane keeps its margin; slow where narrow; stations evenly spaced |
| map merge (`scripts/map/merge_maps.py`) | two maps | merge | ids of three origins, clouds that do not fit | nothing is lost, no reference changes its meaning |
| pose scripts (`scripts/localization`: `pose_maps`, `capture_`, `set_initial_pose`) | captured poses per map | capture, list, set | a pose of one map offered to a stack with another | a pose belongs to the loaded map |
| bag reports (`aruco_bag_report.py`, `board_range_report.py`) | counts | read, tabulate | windows across cameras, batches with holes | holes are found; a scan counts once |
| launch audit (`scripts/check/audit_launch.py`) | none | follow arguments | depth, groups, files it cannot see | no argument that is read is called a bug |
| `twin_go` (`src/simulation/golfcart_twin`) | last route state seen | clear, set, engage, wait | answers come before effects, latched state, an operator | arrives at the goal it was given |
| replay watchers (`scripts/rosbag`, `ndt_timeseries.py`, `check_*`) | what was heard | record, report, wait | subscriptions later than messages, a late clock | what the report says did happen |
| `diag_inject`, `fov_restrict` | patterns and times; a wedge | publish levels; cut a cloud | a clock set back; bearings across 180 degrees | the drill asked for; the wedge asked for |
| units and watchdog (`scripts/multi_machine`, `setup/files/systemd`) | active units on two hosts, misses, grace | start, stop, ping | one machine or the link disappears; nobody starts the watchdog | no unit outlives the master for long |
| recording and collection (`scripts/recording`, `scripts/multi_machine/record_collect.sh`) | bags on two hosts, merged bags | record, fetch, pair, merge | interrupted merge, recordings that start meanwhile | what is merged is complete and belongs together |
| simulated detector, launch files, stubs, sphere view, evaluation and plot scripts | little | publish, draw, compute | pure I/O and numbers | not modelled |

How the parts of the localizer interact: detections of all cameras arrive by
subscription and are appended to `pending_`; every 33 ms a *wall* timer swaps
them out and runs one window to its end on the executor's only thread:
quality gates and flagged boards, `resolveFlips`, `solvePose`, the monitor's
`noteConsensusOutlier` and `update`, the pose, `maybeInitialize`, then
`LocalizationStateMachine::update` with a reading of the *ROS* clock, the status
message and the diagnostics. The EKF takes the poses; `pose_initializer` takes
the initial pose and starts the EKF, whose odometry comes back to the node.
Because one thread runs every callback, a window is one step of the models.
What interleaves is the world: fixes, empty windows, clock jumps, lost requests,
restarts of the node, the service and the filter.

Between the hosts, each has its own ROS domain, and a bridge process that has a
node in it and one on the link. The keyboard tool is two threads of one process.
The installer is a process per session around one file that is read once and
written whole. The other scripts run from an input to an output; they interact
through files (a pose, a map, a bag, a recording), and are checked in the order in
which one reads what another wrote.

## Modules

| module | models | state and actions in the code |
|---|---|---|
| `LocalizationState` | the state machine | `state`, `since_good`, `have_time` are `state_`, `since_good_s_`, `have_time_`; `report` is what `update` returned; each branch of `update` is an action (`StayLatched`, `FailIntegrity`, `Recover`, `AwaitFirstFix`, `HoldState`, `RunOn`), `Reset` is `reset()` |
| `LocalizationPromise` | what the machine promises | a specification: localized, drifting or stopped, and the age of the fix driven on |
| `IntegrityMonitor` | the monitor | `ladder[b]` is `strikes_[b]` and `seen_[b]`, `flagged` is `flagged_`; `Judge` is one solve: a note per outlier, then `update`; `Clear` is `clear` |
| `ArucoLocalizer` | one window of the node | extends `IntegrityMonitor`, instantiates `LocalizationState`, adds `shown` (the last fix, which status and diagnostics show); `WindowWithoutFix` is every early return, `WindowWithFix` the whole of a solve |
| `FlipConsensus` | `resolveFlips` | sightings, the relation "one pose explains both", and the answer: `NoSightings`, `LoneSighting`, `Vote` |
| `ColdStart` | `maybeInitialize`, the odometry subscription, restarts | `initialized`, `since_sent`, `agreeing`, `odom` are the node's fields; the service, the request and the filter are external and modelled from how the node uses them |
| `DomainBridge` | both bridge processes | `built`, `offers`: the lanes and proxies each made of its file; `matched`, `queue`: what DDS holds per subscription; `held`: the transient-local history; `sent`: `last_sent`, all of it since the start. `Match` is discovery, `Forward` a lane's callback, `ForwardRequest` and `SendResponse` the two callbacks of a proxy, `Start`, `Stop` the process; authors, callers and the real server are external |
| `KeyboardControl` | `keyboard_control.py` | the fields keep their names; `pubs` are the two publishers, `gui` and `tick` where the two threads are; `ProcessKey`, `SetTopics` + `CreatePublishers` (four steps), `Quit` are the Tk thread, `TickBegin`, `TickSign`, `TickControl`, `SendControl`, `TickGear`, `TickLoadGear`, `SendGear` are `publish_cmd`, split where it reads a shared field, looks a publisher up, or publishes by it; `disturbed` is history |
| `SetupRegistry` | `registry.py`, `model.py`, the selection of `main.py` | the 25 steps as data, profiles, needs, order, `Preselect`, `Select` |
| `Setup` | sessions of the installer | `file` is `.state.json`, `mem[p]` is `State.data` of a session, `sess[p]` its screen, selection and plan, `digest` the fingerprint of each step now, `called` the scripts it calls that no fingerprint covers; `won`, `ended`, `shared`, `raced`, `restored` are history. `run_one` is `Begin` (the fingerprint), `Start` (the child, which runs the text as it is by then: that, and not what is recorded, goes into `won`) and `End`; `Edit`, `Restore`, `EditCalled` may come between any of them |
| `TwinGo` | `twin_go.py` | `go` is the place in `main`, `seen` is `seen["route"]`; `route`, `goal`, `clearing` are the planner's and external |
| `TrajectoryPlayer` | `trajectory_player.py` | loading, sorting, interpolation, end of playback, as functions of the waypoints and the clock readings |
| `CanTools` | `sweep_*`, `static_can_test`, `monitor_can`, `vcu_status` | frames as eight bytes; `Triangle`, `Ramp`, `Heartbeat`; readers, `Rate`, `Notes`, `ExitCode`, `Colour` |
| `LaneTools` | `obstacle_grid`, `fit_lane_corridor`, `centerline_to_lanelet`, `check_lane_clearance`, `generate_tag_map` | cells, band, rays, `WidthThere`, `OffsetBounds`, `Pinned`, `RefinedLanes`, slow zone, cut, clearance, stations |
| `MapTools` | `merge_maps`, ids of `centerline_to_lanelet` | elements, `Renumbered`, clouds, refusals |
| `PoseTools` | `pose_maps`, `capture_initial_pose`, `set_initial_pose` | `Capture`, `CheckExtent`, the set of refusals in their order |
| `BagReports` | `aruco_bag_report`, `board_range_report` | `CornerSigma`, `DetectionRate`, `Coverage`, `Report`; `Joined` is one scan of `run`, `Rows` the table |
| `LaunchAudit` | `audit_launch` | `Follow`, findings, exit code |
| `ReplayWatch` | `wait_for_message`, `check_ndt_activated`, `indoor_sim_record_events`, `indoor_loop_report`, `ndt_timeseries`, `check_imu_velocity` | a stream and what a subscription gets of it (`Got`), then each script's function of that |
| `DiagnosticDrill`, `FovTools` | `diag_inject`, `fov_restrict_node` | `Active`, levels per timer call; `Width`, the wedge, thinning |
| `*_proofs` | | the theorems; `Tools_proofs` has those of the scripts under `MCTools`, `TwinGo` among them |
| `MC*` | | values of the constants for TLC; `MCOutlierStreak` adds a history variable; `MCTools` gives each script its inputs and has the properties of all of them: a behaviour is one job |

Abstractions, each of them named in its module:

* Time. The state machine only uses differences between clock readings: a
  window is given one, negative for a jump back. `age` is a history variable: the clock time
  since the last trusted fix, or the first fix if none was trusted. It is compared
  with the code's counter by the properties and read by no action's guard.
  `ColdStart` counts time in windows.
* Geometry. Two candidates agree or not; boards differ in their normals or not
  (`Angled`); a residual is one of a small set; a position is a point of a line.
* The bridge. A topic and a service at a time: lanes do not wait for one another. A sample is its
  author and the domains it has been in. What a stop interrupts between the two contexts is one step.
* The lane scripts. The plane is taken apart into the arc length along a straight route and the
  distance across it at a station, in half steps of the ray. The least-squares solve is *any* offset
  within the bounds given to it. `centerline_to_lanelet` smooths its line twice unless told otherwise: on a straight route that moves its
  points along it, which is modelled (places are whole numbers, a cut point is rounded down; those of the run are multiples of 32, so that nothing is lost). On a curved route it also shortens the line;
  that, a closed route, and one of two points are left out. Identifiers and the numbers the scripts start at are scaled down in their order.
* CAN frames have the bytes that their decoder reads. A shorter one ends `monitor_can` with an exception (242), which is left out.
* The lanes of the bridge are reliable, as all in `config/link/topics.yaml` are. A best-effort lane (`domain_bridge.cpp:134`) may lose samples on the way,
  and `LatchedArrives` does not hold of it.
* Watchers count time in tenths of a second, CAN scripts in bits of the field and tenths of a
  second; ratios are kept as numerator and denominator, and cut down only where the script rounds.
* The monitor's moving average can only withhold a strike from a board whose
  residual is excessive in this very solve: the boards struck are any subset
  of those. This allows more behaviours than the code.
* `IntegrityMonitor.MaxNotes` and `ArucoLocalizer.MaxWindow` bound the
  sightings in a window, `SeenCap` and `AgeCap` the counters whose higher
  values make no difference (said, and for `AgeCap` assumed, where they are defined).

## Runs

Passing:

* `localization_state` (287 states): `TrustBounded`, `FaultIsSticky` (with the stop request in every window of a fault), the
  refinement `KeepsPromise` and the liveness `UntrustedEnds`. The grace is the time
  unit; the budgets are 5 and 3, in the order of the code's 10 s and 3 s; clock
  steps are -1, 0, 1, 2 and 6: back, none, one grace, more than a grace, and more than every
  budget. One- and two-board fixes with and without spread occur, and integrity failures.
* `aruco_localizer` (171,000 states): monitor, machine and status together, with three
  boards of which two pairs differ in their normals, up to three sightings in a window, two
  strikes to a flag and one board that may be excluded: enough for a board seen twice, for a
  board flagged by either path or both, for a second one that cannot be isolated,
  and for the loss of the spread. `b2` and `b3` are interchangeable. The node never
  calls `reset()` or `clear()`, so neither is a step here.
* `flip_consensus` (65,674 states): all 2^15 symmetric relations on the six candidates of three
  sightings, and the cases of none, one and two. Three sightings are the fewest with a
  majority, a tie of different seeds and an outlier.
* `cold_start` (25,488 states): two places 6 apart that agree only across a long span, three solves in a row,
  a cooldown of four windows; the service may come and go, requests may be lost
  or rejected, node and filter may restart, until things settle.
* `domain_bridge` (78,795 states): three publishers, two of them on one host, a depth of 2, so that a
  sample can be pushed out; a least time of 2 between samples with a clock that reaches it; two stops in all,
  so that either bridge or both restart; one request. Every pair of files that the two bridges accept is an
  initial state, those that disagree too. `LinkIsKept`, and the liveness `LatchedArrives`.
* `keyboard_control` (174,871 states): speed steps of 2 up to 3 (so that the last step is cut), one step of steering,
  two pairs of topics, three operations at any point of a tick or of a change of topics.
  `OneTickBehind`, `DiesOnlyDisturbed`, and the liveness `ObeyedInTheEnd`. A tick may look a publisher up and use it after the change that
  destroyed it is complete: the thread then dies although the topics stand, and `DiesOnlyDisturbed` says that it dies of nothing else.
* `setup` (309,986 states): two steps of the real registry, of which one comes after the other, two
  sessions that may overlap, an edit of one step at any time, also between its fingerprint and its start, that may be undone and made again, an edit of what the other calls,
  a marker to import, the file lost at any time. Sessions are
  interchangeable. `InstalledWasEarned`, `LastRunIsRecorded`, `RunsOnFirmGround`, `MenuResumes`. *Earned* means that a child was started on a text with today's
  fingerprint and succeeded. An edit between fingerprint and start that is undone later defeats the fingerprint; that case (`Undone`) is excluded and stated as such.
* `tools` (386,449 states): each script on every input of the sets named `Job...` in `MCTools`, one job per behaviour;
  `twin_go` alone has more than one step. The sets are chosen around the edges: widths at and beside the
  margin, counters that wrap, windows that fill, clocks that go back or start late, ids that meet,
  files that lack a part, routes smoothed twice and not at all. One property per script or chain of scripts says what it is for.

Deadlock is not checked where the system stops by itself: `flip_consensus` and `tools` end with their
one call, `setup` with the last session allowed, `keyboard_control` when its window is closed,
`domain_bridge` when everything sent has arrived.

Every property is also checked against a plausible bug in the code it guards (a variant defined
next to the operator it replaces), and is violated by it.

Violated, each of them a statement of the repository's own comments (the
`findings` quote them):

* `localization_grace`: an empty window within the grace of a window *with a fix* should hold the
  state. The counter compared with the grace runs since the last *nominal* fix, and from the start if there was none:
  in the run the first fix is of one board, and the empty window right after it turns Degraded into DeadReckoning.
* `outlier_streak`: a board thrown out by `flag_count` solves in a row should be flagged.
  `seen_` counts notes only and never falls, while strikes decay in good windows: after a few
  isolated notes every further note is taken back, for ever.
* `flip_repeated`: a board should not corroborate itself. Sightings are told apart by index, and a
  board in two images of a window is two sightings. In the run these two are all there is, and they make the fix.
* `cold_start_resend`: the pose should rest on several solves in a row. Samples of the previous attempt
  are kept, and solves during the cooldown are not looked at.

## Fairness

* `FairSpec` (state machine): weak fairness of a window whose clock reading is later than the
  last. The window timer is a wall timer on an executor that nothing blocks, and the ROS
  clock does advance. What the cameras see is left free, so that `UntrustedEnds` does not rest on
  fixes coming back.
* `ColdSpec`: weak fairness of odometry being delivered (same executor), of a request
  being served while the service is up, and, *once settled*, of the service coming up and of good
  solves of the standing vehicle. That things settle is not assumed: `ColdStartCompletes` says what follows if they do.
  It excludes `StaleEvidence`, odometry heard from a filter that has since restarted, from which
  the node does not recover.

* `KeyboardControl`: weak fairness of the timer thread and of a change of topics that has begun. Neither
  waits for the other. Nobody has to press a key.
* `DomainBridge`: weak fairness of a subscription finding each publisher that stays, and of a lane taking what is queued
  (one callback after another on the executor of its context). Nothing has to start a bridge that was stopped, and nobody has to
  publish: `LatchedArrives` says what follows if both bridges run for good. Stops are free up to their bound.

The other specifications are used for safety only and state no fairness.

## Proofs

All theorems hold for every value of the constants that satisfies the modules'
assumptions: thresholds, counts and budgets are natural numbers, clock steps are
integers, boards are a finite set.

* `LocalizationState_proofs`. `TrustBounded` is not inductive: it speaks of `age`, while the branches of the code test
  `since_good`. The invariant adds that `age` never exceeds `since_good` (clock jumps back are
  charged as zero, forward ones in full) and that in each driving state `since_good` is within
  what the state allows. `PromiseKept` shows a step of `LocalizationPromise`, or a stutter, for
  every branch.
* `ArucoLocalizer_proofs`. `ImplementsMachine` shows that a window of the node is a step of the state machine, and
  `LocalizerTrustIsBounded` then carries `TrustIsBounded` over, without a second proof.
  `IsolationStops` needs that flags are only ever added and that the outcome is computed from the *new* flags;
  `MinorityStruck` rests on a counting lemma: the boards above the median are fewer than half.
* `Solver_proofs`, of the flip consensus and of the cold start. The result of the consensus is one that a best seed justifies; a consistent
  explanation injects into the cluster of any of its candidates, hence none is larger than the best. `FirstPoseIsConfirmed` needs that until
  something was sent the node is not `initialized`, so that no solve is skipped, and that there are then no more samples than solves in a row.

* `Setup_proofs`, for every registry, number of sessions and edit. `InstalledIsEarned` needs the claim for the memory of
  every open session as well, because a session writes back all it has read. What has run is taken from the text at the start of the child, and what is recorded from the fingerprint before it: that
  they agree, unless the step was edited in between, is a part of the invariant, and so is that a fingerprint left behind is met again only if an edit is undone. `LastRunRecorded` is about sessions
  that do not overlap: it ties the file, the memory of the session and the step it runs. `GroundIsFirm` rests on `ordered()` refusing a plan in which
  a step precedes one it needs, on running the first of what is left, and on stopping at a failure.
* `KeyboardControl_proofs`. `OneTickBehind` is about a tick that has published; the invariant follows one that is under
  way: what it has read is what is commanded until the next key (`Fresh`), and a publisher that exists, or is looked up, is on the selected topics (`OnTopic`).
  `PublishingSurvives` rests on a tick that no change overlaps finding both publishers and keeping the one it has looked up.
* `DomainBridge_proofs`. No file accepted by a bridge goes both ways, hence the lanes that exist form paths that visit a domain once
  (`TopicInv`); consecutive times of a lane are apart (`RateInv`); a response carries the path of its request backwards (`CallInv`).

* `Tools_proofs`, and `DriveTools_proofs` for the lane scripts and the replay watchers, in two layers. The theorems `Any...` are about a script and hold for every input: any leaves, patterns and
  readings of a clock, also one that is set back (`AnyDrillIsAsAsked`), any maps and poses on file (`AnyPoseBelongsToMap`), any peak, rate and
  interrupt (`AnySweepIsGentle`), any gear, speed and number of ticks (`AnyHeartbeatIsAlive`), any cloud and view
  (`AnyViewIsAWedge`), any two finite maps (`AnyMergeKeepsBoth`, `AnyLaneIsApart`), any route (`AnyNarrowIsSlow`), any route with its
  obstacles (`AnyLaneIsClear`), any lanelet map and spacing (`AnyMapIsBoarded`, and `AnyWayIsSpaced` for its stations alone), any files
  (`AnyReaderIsFound`), any waypoints and clock (`AnyProfileIsPlayed`), any bag and size of batch (`AnyBatchOnce`), any bag and
  window (`AnyBagIsMeasured`), any bus with a steady motor (`AnyBusIsShown`), any replay (`AnyLoopIsMeasured` for what is recorded of it and reported,
  `AnyMotionIsFound` for the time series, `AnyScaleIsFound` for the speed reported). The theorems `...InRun` are the run's properties, `Spec => []P`. Their invariant
  is always the same: what the job asks for is such an input, and what a script that has run left is its result (`Ran`); `P` itself is not
  inductive, since it says nothing of a job that is not done. The inputs of a run are finite and small;
  those of the theorems are bounded only by what the scripts assume:
  * a merge: the first map's ids are those of a map that was not merged before (`merge_maps.py:49` adds one fixed offset);
  * a lane: up to four points, because the numbering that the scripts start ways and lanelets at is scaled down;
  * a route: it is straight and open, and the padding spans one of its gaps, or two if the line is smoothed (any number of times); narrow places between points further apart than
    that are the known limit of the padding;
  * a lane that is fitted: the least margin is more than one step of the ray, and there is one pinch at most, which asks for no less than the least width;
  * the boards: each relation has one left and one right way, and no way goes back along the axis that the places are measured on; the stations
    alone (`AnyWayIsSpaced`) are about any way, because only the lengths of its segments enter;
  * a trajectory: not all of it lies before the start (then the player sends the last waypoint and is done at once, on a clock that is not set back);
  * a bus: the motor's frames are a period apart, in the times that the reader takes; only a candump ends;
  * a replay: the poses come in the order of their times and are of a cart no faster than two metres a second (the report takes more than three
    for a jump), at least two of them while recorder and clock run; the clock ticks every one or two tenths from some tick on;
    for the time series, the clock is heard at any time, before or after the motion, and the dates are what it shows;
    for the scale, the cart drives at one pace where it drives, and enough pairs of poses are seen moving;
  * an audit in the run: chains up to the depth that the tool looks; `AnyReaderIsFound` says the same of any graph of includes.

  Where the arguments lie: a sweep is its peak times a wave, the wave moves by at most its slope per sample, and clipping and rounding add
  less than one (`ClipsApart`, `RoundsApart`); what is asked for fits the field, so that the two bytes are read back as it (`ByteTrip`). A view: a
  mask leaves the elements at its positions in their order (`MaskedIsPicked`), and a bearing is in a window that may wrap exactly if it is one of the
  degrees from its start on. A lane gets the first generation of ids beyond every id of the map (`OffsetIsFree`), and within a generation the numbers of points, ways and
  lanelets are apart. Cutting corners moves a point of a straight line by less than the gap to its neighbours in all, however often it is done, so that
  smoothed samples still lie near the route's points (`SamplesFollow`). A slow zone reaches from before the first narrow point to after the last; a lanelet is cut at its ends, so that it is slow as
  a whole or not at all. A ray ends in the first occupied cell, up to a step beyond its face (`RayReaches`); the bounds of an offset leave the
  margin on either side (`BandIs`), whichever way the normal points, and whoever has some part of the cart in a pinch is level with it
  (`BesidePinchIsLevel`), so that the lane is narrow there and its centre in the band of offsets that clear both faces (`FacesAre`). That the clouds of the run
  put each obstacle in the grid in either frame is `GridOfBand`. After each segment of a way the stations are the multiples of the spacing so far, and what
  is carried into the next segment is what is left of the spacing (`LaysOn`); a centreline is sampled from the first nodes of its sides that
  are known to the last (`SamplesAre`), so that it is as long as the lane. An audit finds from each file of a chain on what the rest of it reads, with as many files still to look at as there are.
  Sorting is by rank: the waypoint or pose with k others not after it is the k-th, and `LinedUp` says that this is an order without gaps; a sample then lies between two
  neighbours, and no other lies between them (`PoseAtIs` for the poses of a bag). The batches of a bag are the blocks of n scans, one after the other, whether or
  not a block becomes a row (`ScanJoins`): a batch that is dropped takes all its scans with it. The detections of a bag are the disjoint union of
  their classes (`ClassesAddUp`); the windows are lined up by rank, and at each of them `coverage` has counted back to the last that was usable
  (`CountedBack`), so that its longest count is the longest hole (`LongestIs`). The frames of a steady sender that lie in the last w are its last ones, one more than the whole periods that fit
  (`HowMany`, `RecentAre`); over a window that is still filling that is one frame too many at most, over a full one it is a frame off at most either way (`WindowFull`).

  A subscription gets the messages of a time interval in their order (`GotCarries`). By a clock of period p a pose of time t is stamped t - t % p (`RecordedIs`), so that stamps
  keep the order and sorting them is no change (`PosesAre`); a step between stamps is the pause between the poses to within p - 1 (`StepIsTimed`), hence too short for
  a jump of a slow cart (`StepsAre`), and the longest step is as long as the longest pause (`GapHolds`). What the cart does in the run, pose by pose, is in
  `PosesSent`, `CapIs` and `DrivenMoves`; the 31 pairs of poses that the scale needs are counted by an injection (`DrivenLong`).

  `OwnArrival` of `twin_go` is there too. The planner's state is seen late, so `route` says nothing about `seen`. What does is that the earlier goal, once
  gone, never returns: seeing UNSET proves it (`EarlierIsGone`), and from then on only the own goal is arrived at (`OnlyOwnIsReached`).

The scripts are loops over data. The library's induction theorems take an operator as a parameter and cannot be used; the induction that all proofs
about loops use is `UpTo`, over a *set* of numbers, and it follows from the pigeonhole theorem for finite sets. The values of a loop are a recursive function, `CHOOSE f : f = ...`;
that one exists is `IterationExists` (or is written out, where the number of rounds is fixed), and from then on only its equations are used. `HasMax` and `HasMin`
are about the largest and smallest element of a finite set.

`LocalizerTypeOK`, `StopIsRequested` and `KeyboardTypeOK` are proved and not repeated by a run.

Left to TLC: liveness (`UntrustedEnds`, `ColdStartCompletes`, `ObeyedInTheEnd`, `LatchedArrives`), which no prover installed takes with fairness; and
the four violations. Every other property of a run is a theorem.

## Not modelled

* `solvePose` and `normalSpreadDeg`: numerical. Their results are inputs.
* The quality gates, TF lookups and parameter loading of the node: they decide which
  detections become sightings, and any set of sightings is an input.
* `tag_map.cpp`: a pure function of a file, read once.
* The covariances published with the pose.
* Figures, meshes, samplers, registration of clouds, launch files and stubs: pure computation or output.
* The components listed as not modelled in `PROJECT.json`, each with its reason, and the part left out
  of each that is modelled partly.

## What the models leave to the reader

Seen while reading the code, and outside what the properties claim (each property's comment says where it stops):

* Control. `control_command_service.py:88` sets a field that the message does not have, so that every call raises and nothing is ever
  published. Quitting the keyboard tool publishes no stop (611); after a change of topics the old ones keep their last command.
* Bridge. A rate limit drops the newest sample, so that a latched topic with one may end on an old value; none of
  the topics in `config/link/topics.yaml` has both. The two contexts shut down one after the other (`domain_bridge.cpp:434`).
* Maps. Merging a map that was merged already makes ids collide (`merge_maps.py:49`), and the cloud is written before the lanelets
  are parsed (205-212). A board is placed twice where a segment ends exactly at a station, and ids of boards collide beyond a hundred stations
  (`generate_tag_map.py`). `obstacle_grid` samples lines at half a cell and can pass a corner of one. `pin: 0` pins the whole lane.
* Poses. `capture_initial_pose` takes the map from its argument and never asks the stack which one is loaded: `PoseBelongsToMap` is about where a pose
  that is sent lies, not about where it was captured.
* Reports. `aruco_bag_report --min-frames 1` raises on a board seen once (194-196); its census makes a window only where a detection lies, so that
  "no boards visible" is always zero, against its own comment (323-325), and `HoleIsFound` says so; `board_range_report --csv` without a row raises (357) and takes no pose at exactly the first
  time. `ndt_timeseries` takes 0 for the time until its node hears the sim clock: what moved before is dated 0, and a motion after it by the clock's own reading
  (83, against "everything is stamped on the SIM clock", 40). `indoor_loop_report` sorts poses by time, so that a bag that loops is folded into one (66). `ndt_timeseries` carries on the last value of a
  signal that has ended (232).
* Audit. An argument more than four files deep, or in a parameter file named by an argument without a default, is called a bug.
* Installer. A step edited between its fingerprint and its start, and put back later, reads "installed" although the text of today did not run (`runner.py:36`, 42). A script called inside a shell text (`orin-can0`, `registry.py:401`) may change without the step reading "stale",
  where the comment on `digest()` (`model.py:106-109`) has it that an edited script is noticed: `called` is in the model, and `InstalledWasEarned` promises only what the fingerprint covers. Markers are imported again after the state file was lost (`state.py:39-47`); `rerun` forgets a step before it knows whether it
  will run (`main.py:245`); one step's failure is swallowed with `|| true` (`registry.py:360-365`); `--only` does not pull what a step needs.
* `twin_go` trusts the route state it has seen; `diag_inject` sends every leaf healthy from `--clear-at` on, so that a later `--at` never applies anything;
  a clock set back to between `--at` and `--clear-at` applies the faults again, where the example speaks of "recover" (34, 127): `DrillIsAsAsked` says what it does.
* CAN. A sweep that is interrupted leaves its last setpoint on the bus.

## Plan

Done: `LocalizationState`, `LocalizationPromise`, `IntegrityMonitor`, `ArucoLocalizer`, `FlipConsensus`, `ColdStart`; `DomainBridge`,
`KeyboardControl`, `Setup`, with their theorems; the scripts under `MCTools`.

Left, in this order:

1. `HostUnits`: units on the two hosts, the remote start and stop over ssh, the watchdog with
   misses and startup grace, power loss and link loss. Run: one unit of each kind, two or three misses; no
   unit of the Orin outlives a master that is gone (liveness), a reachable master's
   units are never stopped (safety, to be proved from an invariant on the misses).
2. `BagCollection`: bags on two hosts, pairing, merging with a crash between any two steps, retries. Property: a merged bag that a
   later collect accepts is complete.
3. `DetectorCalibration`: the two callbacks of the detector on one calibration.
4. A composition of `ColdStart` with `ArucoLocalizer`, if its state space allows, so that the gates of the cold start and
   the flags of the monitor are judged in the same window.
5. `toggle_manual_control` of the keyboard tool, with the answer that comes later than the next key.

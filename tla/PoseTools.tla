------------------------------ MODULE PoseTools ------------------------------
(***************************************************************************)
(* Captured poses: capture_initial_pose writes where the running stack     *)
(* says it is, set_initial_pose offers such a pose to a stack, pose_maps   *)
(* knows the maps and their extents.                                       *)
(*                                                                         *)
(* maps says, for every name that has a map.yaml, where its data is, the   *)
(* box it declares and the places of its lanelet nodes; a box that is not  *)
(* there is <<>>.  stack is what the script meets: the map it has loaded,  *)
(* the poses it publishes while the script listens, whether its loader,    *)
(* its clock and its service answer.  files maps a directory (a map, or    *)
(* "default") and a name to the pose; `of' is the map the pose came from,  *)
(* which the file does not hold.                                           *)
(***************************************************************************)
EXTENDS Integers, Sequences, FiniteSetsExt

EXTENT_MARGIN == 1
MAX_DRIFT == 1

known_maps(maps) == DOMAIN maps

Extent(map) ==
    IF map.box # <<>> THEN map.box
    ELSE IF map.nodes = {} THEN <<>>
    ELSE <<Min({n.x : n \in map.nodes}), Min({n.y : n \in map.nodes}),
           Max({n.x : n \in map.nodes}), Max({n.y : n \in map.nodes})>>

Within(low, x, high) == low - EXTENT_MARGIN <= x /\ x <= high + EXTENT_MARGIN

\* Variant for the mutation runs: only one axis is looked at.
CheckExtentAcross(map, at) ==
    LET box == Extent(map)
    IN  box # <<>> => Within(box[1], at.x, box[3])

CheckExtent(map, at) ==
    LET box == Extent(map)
    IN  box # <<>> => Within(box[1], at.x, box[3]) /\ Within(box[2], at.y, box[4])

\* The directory the map loader was given, or "unknown".
LoadedMap(maps, stack) == IF stack.loader THEN maps[stack.map].path ELSE "unknown"

Drifts(samples) ==
    LET spread(S) == Max(S) - Min(S)
        dx == spread({samples[i].x : i \in DOMAIN samples})
        dy == spread({samples[i].y : i \in DOMAIN samples})
    IN  dx * dx + dy * dy > MAX_DRIFT * MAX_DRIFT

\* args.map is "default" where no --map is given.
UnknownMap(maps, args) == args.map # "default" /\ args.map \notin known_maps(maps)
OutsideMap(maps, args, at) == args.map # "default" /\ ~CheckExtent(maps[args.map], at)

\* capture_initial_pose: the files afterwards, and why there is no new one.
Capture(files, maps, args, stack) ==
    LET last == stack.samples[Len(stack.samples)]
        why == IF UnknownMap(maps, args) THEN "unknown map"
               ELSE IF stack.samples = <<>> THEN "no pose"
               ELSE IF Drifts(stack.samples) THEN "moving"
               ELSE IF OutsideMap(maps, args, last) THEN "outside"
               ELSE "captured"
    IN  [why |-> why,
         files |-> IF why # "captured" THEN files
                   ELSE [f \in DOMAIN files \cup {<<args.map, args.name>>} |->
                            IF f = <<args.map, args.name>>
                            THEN [x |-> last.x, y |-> last.y, of |-> stack.map]
                            ELSE files[f]]]

UseSimTime(args, stack) == args.clock = "sim" \/ (args.clock = "auto" /\ stack.clock # "none")

WrongStack(maps, args, stack) ==
    /\ args.map # "default"
    /\ LoadedMap(maps, stack) \notin {"unknown", maps[args.map].path}

\* set_initial_pose: why it ends, and whether the pose was sent.
SetPose(files, maps, args, stack) ==
    LET file == <<args.map, args.name>>
        why == IF UnknownMap(maps, args) THEN "unknown map"
               ELSE IF file \notin DOMAIN files THEN "no file"
               ELSE IF OutsideMap(maps, args, files[file]) THEN "outside"
               ELSE IF WrongStack(maps, args, stack) THEN "wrong stack"
               ELSE IF UseSimTime(args, stack) /\ stack.clock # "ticking" THEN "no clock"
               ELSE stack.service
    IN  [why |-> why, sent |-> why \in {"initialized", "rejected", "no response"}]
=============================================================================

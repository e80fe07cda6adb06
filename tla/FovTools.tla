------------------------------- MODULE FovTools -------------------------------
(***************************************************************************)
(* fov_restrict: a lidar cloud cut to the wedge a narrower sensor would    *)
(* see, optionally written anew in Autoware's layout and thinned.  Angles  *)
(* are whole degrees; a point is its bearing, elevation and distance from  *)
(* the mount, its intensity and its ring (-1 where the layout has none).   *)
(***************************************************************************)
EXTENDS Integers, Sequences

\* Variant for the mutation runs: the difference modulo a full circle.
WidthModulo(args) == (args.max_bearing - args.min_bearing) % 360

\* Full circles are added to a width until it is positive.
Width(args) ==
    LET width == args.max_bearing - args.min_bearing
    IN  IF width > 0 THEN width ELSE 360 - ((-width) % 360)

InWedge(point, args) ==
    /\ (point.bearing - args.min_bearing) % 360 <= Width(args)
    /\ point.range <= args.max_range
    /\ args.min_elevation > -90 \/ args.max_elevation < 90 =>
            args.min_elevation <= point.elevation /\ point.elevation <= args.max_elevation

\* to_xyzirc: the intensity is clipped to a byte, the ring becomes the channel.
ToXyzirc(point) ==
    [point EXCEPT !.intensity = IF @ < 0 THEN 0 ELSE IF @ > 255 THEN 255 ELSE @,
                  !.ring = IF @ = -1 THEN 0 ELSE @]

\* numpy's indexing by a mask: the elements at the positions that it sets.
Masked(seq, mask) ==
    LET upto[k \in 0..Len(seq)] ==
            IF k = 0 THEN <<>>
            ELSE IF k \in mask THEN Append(upto[k - 1], seq[k]) ELSE upto[k - 1]
    IN  upto[Len(seq)]

\* `drawn' says for each survivor whether the generator keeps it.
OnCloud(cloud, args, drawn) ==
    LET kept == Masked(cloud, {k \in DOMAIN cloud : InWedge(cloud[k], args)})
        encoded == [k \in DOMAIN kept |->
                        IF args.emit_xyzirc THEN ToXyzirc(kept[k]) ELSE kept[k]]
    IN  IF args.thin THEN Masked(encoded, {k \in DOMAIN kept : drawn[k]}) ELSE encoded
=============================================================================

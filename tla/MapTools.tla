------------------------------- MODULE MapTools -------------------------------
(***************************************************************************)
(* Identifiers of lanelet maps: merge_maps puts two maps into one file,    *)
(* centerline_to_lanelet adds a lane to a map that has elements already.   *)
(* A map is a set of elements; an element is what it stands for, its id    *)
(* and the ids it refers to.  The numbers the scripts start at are scaled  *)
(* down and keep their order: ids given by hand lie below NODE_ID0, and a  *)
(* generation of ids is ID_OFFSET long.                                    *)
(***************************************************************************)
EXTENDS Integers, Sequences, FiniteSetsExt

ID_OFFSET == 30
NODE_ID0 == 4
WAY_ID0 == 12
REL_ID0 == 20

Element(what, id, refs) == [what |-> what, id |-> id, refs |-> refs]
IdsIn(map) == {e.id : e \in map}

\* Variant for the mutation runs: references keep the number they had.
RenumberedAlone(e) == [e EXCEPT !.id = @ + ID_OFFSET]

\* merge_lanelet2: every id and every reference of the second map.
Renumbered(e) == Element(e.what, e.id + ID_OFFSET, {ref + ID_OFFSET : ref \in e.refs})

MergeLanelet2(a, b) == a \cup {Renumbered(e) : e \in b}

\* What merge_maps calls collisions, of the files as they are read.
Collisions(a, b) == Cardinality(IdsIn(a) \cap IdsIn(b))

\* read_pcd: the points of a binary cloud, if the file has all it announces.
ReadPcd(file) ==
    LET ok == file.data = "binary" /\ Len(file.points) >= file.count
    IN  [ok |-> ok, points |-> IF ok THEN SubSeq(file.points, 1, file.count) ELSE <<>>]

WritePcd(points) == [data |-> "binary", count |-> Len(points), points |-> points]

\* find_pcd: the first of the clouds in a map's directory, by name.
FindPcd(map) == map.pcds[1]

Nothing == [written |-> FALSE]

\* main refuses two maps whose projections differ, and reads both clouds
\* before it writes either file.
Merges(a, b) ==
    LET cloud_a == ReadPcd(FindPcd(a))
        cloud_b == ReadPcd(FindPcd(b))
    IN  IF a.projector # b.projector \/ a.pcds = <<>> \/ b.pcds = <<>> THEN Nothing
        ELSE IF ~cloud_a.ok \/ ~cloud_b.ok THEN Nothing
        ELSE [written |-> TRUE, elements |-> MergeLanelet2(a.elements, b.elements),
              pcds |-> <<WritePcd(cloud_a.points \o cloud_b.points)>>]

\* build_osm: the first generation of ids that nothing of the base reaches.
Reached(base, offset) == \E i \in IdsIn(base) : i >= NODE_ID0 + offset

FreeOffset(base) ==
    Min({g * ID_OFFSET : g \in {h \in 0..1 + Max({0} \cup IdsIn(base)) :
                                    ~Reached(base, h * ID_OFFSET)}})

\* A lane through samples 0..n-1, with one lanelet for each pair of `segments';
\* a closed one ends on the nodes it starts with.
AddLane(base, name, n, closed, segments) ==
    LET offset == FreeOffset(base)
        node(i, side) == NODE_ID0 + offset + side + 2 * (IF closed /\ i = n - 1 THEN 0 ELSE i)
        before(seg) == Cardinality({s \in segments : s[1] < seg[1]})
        way(seg, side) == WAY_ID0 + offset + 2 * before(seg) + side
        sides == {0, 1}
    IN  base
        \cup {Element(<<name, "node", i, side>>, node(i, side), {}) :
                i \in (IF closed THEN 0..n - 2 ELSE 0..n - 1), side \in sides}
        \cup {Element(<<name, "way", seg[1], side>>, way(seg, side),
                       {node(i, side) : i \in seg[1]..seg[2]}) :
                seg \in segments, side \in sides}
        \cup {Element(<<name, "lanelet", seg[1], 0>>, REL_ID0 + offset + before(seg),
                       {way(seg, side) : side \in sides}) : seg \in segments}

\* What a reader of the file makes of a reference: an id that two elements
\* have is the later one's, whichever that is.
Meanings(map, ref) == {e.what : e \in {f \in map : f.id = ref}}

\* Every element of a map is still there, and what it refers to is what it
\* referred to.
KeptIn(before, after) ==
    \A e \in before : \E f \in after :
        /\ f.what = e.what
        /\ {Meanings(after, ref) : ref \in f.refs} = {Meanings(before, ref) : ref \in e.refs}
=============================================================================

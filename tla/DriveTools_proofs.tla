------------------------- MODULE DriveTools_proofs -------------------------
(***************************************************************************)
(* What is proved of the scripts for a drive: along a lane its speed, its  *)
(* room and its boards, then what is watched when the drive is replayed.   *)
(* As in Tools_proofs: for every input first, then of the runs.            *)
(***************************************************************************)
EXTENDS Tools_proofs

-----------------------------------------------------------------------------
(* fit_lane_corridor and centerline_to_lanelet: a route                    *)

\* A road: its points are further and further along, and the first at 0.
IsRoute(road, last) ==
    /\ last \in Nat \ {0} /\ DOMAIN road = 0..last
    /\ \A i \in 0..last : road[i].at \in Int /\ road[i].width \in Int
    /\ road[0].at = 0
    /\ \A i \in 0..last - 1 : road[i].at < road[i + 1].at

\* Later points of a route are further along.
LEMMA RouteRises ==
    ASSUME NEW road, NEW last, IsRoute(road, last), NEW i \in 0..last, NEW j \in 0..last, i < j
    PROVE  road[i].at < road[j].at
<1> DEFINE n == j - i - 1
           T == {k \in Nat : i + 1 + k <= last => road[i].at < road[i + 1 + k].at}
<1>1. n \in Nat /\ i + 1 + n = j
  BY DEF IsRoute
<1>2. 0 \in T
  BY DEF IsRoute
<1>3. ASSUME NEW k \in 0..n - 1, k \in T PROVE k + 1 \in T
  <2>1. k \in Nat /\ i + 1 + k \in 0..last - 1 /\ i + 1 + (k + 1) = (i + 1 + k) + 1
    <3>1. k \in 0..(j - i - 1) - 1 /\ last \in Nat
      BY DEF IsRoute
    <3> QED
      BY <3>1
  <2>2. road[i].at < road[i + 1 + k].at
    BY <1>3, <2>1 DEF IsRoute
  <2>3. road[i + 1 + k].at < road[(i + 1 + k) + 1].at
    BY <2>1 DEF IsRoute
  <2>4. /\ road[i].at \in Int /\ road[i + 1 + k].at \in Int /\ road[(i + 1 + k) + 1].at \in Int
    <3>1. i \in 0..last /\ i + 1 + k \in 0..last /\ (i + 1 + k) + 1 \in 0..last
      BY <2>1 DEF IsRoute
    <3> QED
      BY <3>1 DEF IsRoute
  <2> QED
    BY <2>1, <2>2, <2>3, <2>4
<1>4. n \in T
  <2> HIDE DEF T, n
  <2> QED
    BY <1>1, <1>2, <1>3, UpTo
<1> QED
  BY <1>1, <1>4

\* numpy.searchsorted: a point comes before the place exactly if its index
\* comes before the result.
LEMMA SearchIs ==
    ASSUME NEW road, NEW last, IsRoute(road, last), NEW place \in Int
    PROVE  /\ SearchSorted(road, place) \in 0..last + 1
           /\ \A i \in 0..last : road[i].at < place <=> i < SearchSorted(road, place)
<1> DEFINE B == {i \in DOMAIN road : road[i].at < place}
<1>1. SearchSorted(road, place) = Cardinality(B)
  BY DEF SearchSorted
<1>2. last \in Nat /\ IsFiniteSet(B) /\ B \in SUBSET Int
  <2>1. IsFiniteSet(0..last)
    BY FS_Interval DEF IsRoute
  <2>2. DOMAIN road = 0..last /\ last \in Nat
    BY DEF IsRoute
  <2>3. IsFiniteSet(B)
    BY <2>1, <2>2, FS_Subset
  <2> QED
    BY <2>2, <2>3
<1>3. CASE B = {}
  <2>1. Cardinality(B) = 0
    BY <1>3, FS_EmptySet
  <2>2. \A i \in 0..last : ~(road[i].at < place)
    BY <1>3 DEF IsRoute
  <2> HIDE DEF B
  <2> QED
    BY <1>1, <1>2, <2>1, <2>2
<1>4. CASE B # {}
  <2> DEFINE x == Max(B)
  <2>1. x \in B /\ \A i \in B : i <= x
    <3> HIDE DEF B
    <3> QED
      BY <1>2, <1>4, HasMax
  <2> HIDE DEF x
  <2>2. x \in 0..last /\ road[x].at < place
    BY <2>1 DEF IsRoute
  <2>3. ASSUME NEW i \in 0..last, i < x PROVE road[i].at < place
    <3>1. road[i].at < road[x].at
      BY <2>2, <2>3, RouteRises
    <3>2. road[i].at \in Int /\ road[x].at \in Int
      BY <2>2 DEF IsRoute
    <3> QED
      BY <2>2, <3>1, <3>2
  <2>4. B = 0..x
    <3>1. \A i \in B : i \in 0..last /\ i <= x
      BY <2>1 DEF IsRoute
    <3>2. \A i \in 0..x : i \in 0..last /\ (i = x \/ i < x)
      BY <1>2, <2>2
    <3>3. \A i \in 0..x : i \in DOMAIN road /\ road[i].at < place
      BY <2>2, <2>3, <3>2 DEF IsRoute
    <3> QED
      BY <1>2, <2>2, <3>1, <3>3
  <2>5. Cardinality(0..x) = x + 1
    BY <2>2, FS_Interval
  <2> HIDE DEF B
  <2>6. SearchSorted(road, place) = x + 1
    BY <1>1, <2>4, <2>5
  <2>7. \A i \in 0..last : road[i].at < place <=> i <= x
    <3>1. \A i \in 0..last : road[i].at < place => i \in B
      BY DEF B, IsRoute
    <3>2. \A i \in B : road[i].at < place
      BY DEF B
    <3> QED
      BY <1>2, <2>2, <2>4, <3>1, <3>2
  <2> QED
    BY <1>2, <2>2, <2>6, <2>7
<1> QED
  BY <1>3, <1>4

\* The last point of a route, and the places along it.
LEMMA LastIs ==
    ASSUME NEW road, NEW last, IsRoute(road, last)
    PROVE  LastPoint(road) = last
<1> DEFINE S == 0..last
<1>1. IsFiniteSet(S) /\ S \in SUBSET Int /\ last \in S /\ \A x \in S : x <= last
  BY FS_Interval DEF IsRoute
<1> HIDE DEF S
<1>2. Max(S) \in S /\ \A x \in S : x <= Max(S)
  BY <1>1, HasMax
<1>3. Max(S) = last
  <2> DEFINE m == Max(S)
  <2> HIDE DEF m
  <2>1. m \in Int /\ m <= last /\ last <= m
    BY <1>1, <1>2 DEF m
  <2> QED
    BY <1>1, <2>1 DEF m
<1> QED
  BY <1>3 DEF LastPoint, IsRoute, S

\* The road point at or before a place along the road.
LEMMA BeforeIs ==
    ASSUME NEW road, NEW last, IsRoute(road, last), NEW t \in Nat
    PROVE  /\ PointBefore(road, t) \in 0..last
           /\ road[PointBefore(road, t)].at <= t
           /\ \A j \in 0..last : road[j].at <= t => j <= PointBefore(road, t)
<1> DEFINE B == {i \in DOMAIN road : road[i].at <= t}
<1>1. t \in Int /\ 0 <= t
  BY DEF IsRoute
<1>2. IsFiniteSet(B) /\ B \in SUBSET Int /\ B # {}
  <2>1. IsFiniteSet(0..last) /\ DOMAIN road = 0..last
    BY FS_Interval DEF IsRoute
  <2>2. 0 \in B
    BY <1>1 DEF IsRoute
  <2>3. IsFiniteSet(B)
    BY <2>1, FS_Subset
  <2> QED
    BY <2>1, <2>2, <2>3
<1>3. Max(B) \in B /\ \A x \in B : x <= Max(B)
  <2> HIDE DEF B
  <2> QED
    BY <1>2, HasMax
<1>4. PointBefore(road, t) = Max(B)
  BY DEF PointBefore
<1> HIDE DEF B
<1> DEFINE x == Max(B)
<1> HIDE DEF x
<1>5. x \in B /\ \A y \in B : y <= x
  BY <1>3 DEF x
<1> QED
  BY <1>4, <1>5 DEF B, x, IsRoute

-----------------------------------------------------------------------------
(* The line of a route and its samples.                                    *)

\* A line along a straight lane: its points never go back.
IsPath(line, n) ==
    /\ n \in Nat \ {0} /\ line \in [0..n -> Int]
    /\ \A j \in 0..n - 1 : line[j] <= line[j + 1]

\* A corner is cut between the two points.
LEMMA Quarters ==
    ASSUME NEW p \in Int, NEW q \in Int, p <= q
    PROVE  /\ (3 * p + q) \div 4 \in Int /\ (p + 3 * q) \div 4 \in Int
           /\ p <= (3 * p + q) \div 4
           /\ (3 * p + q) \div 4 <= (p + 3 * q) \div 4
           /\ (p + 3 * q) \div 4 <= q
           /\ p < q => (3 * p + q) \div 4 < q
<1> DEFINE a == (3 * p + q) \div 4
           b == (p + 3 * q) \div 4
<1>1. a \in Int /\ 4 * a <= 3 * p + q /\ 3 * p + q < 4 * a + 4
  <2>1. 3 * p + q \in Int
    OBVIOUS
  <2> QED
    BY <2>1, DivFacts
<1>2. b \in Int /\ 4 * b <= p + 3 * q /\ p + 3 * q < 4 * b + 4
  <2>1. p + 3 * q \in Int
    OBVIOUS
  <2> QED
    BY <2>1, DivFacts
<1> HIDE DEF a, b
<1>3. p <= a /\ a <= b /\ b <= q /\ (p < q => a < q)
  BY <1>1, <1>2
<1> QED
  BY <1>1, <1>2, <1>3 DEF a, b

\* It ends with its last point.
LEMMA LineEnd == ASSUME NEW line, NEW n, IsPath(line, n) PROVE Max(DOMAIN line) = n
<1> DEFINE S == 0..n
<1>1. DOMAIN line = S /\ IsFiniteSet(S) /\ S \in SUBSET Int /\ n \in S /\ \A x \in S : x <= n
  BY FS_Interval DEF IsPath
<1> HIDE DEF S
<1> DEFINE m == Max(S)
<1>2. m \in S /\ \A x \in S : x <= m
  BY <1>1, HasMax
<1> HIDE DEF m
<1>3. m \in Int /\ m <= n /\ n <= m
  BY <1>1, <1>2
<1> QED
  BY <1>1, <1>3 DEF m, IsPath

\* What one pass leaves between two points of the line.
CutBetween(cut, line, j) ==
    /\ line[j] <= cut[2 * j] /\ cut[2 * j] <= cut[2 * j + 1] /\ cut[2 * j + 1] <= line[j + 1]
    /\ line[j] < line[j + 1] => cut[2 * j] < line[j + 1]

\* A pass over a line that ends with the n-th point.
Cut(line, n) ==
    [i \in 0..(2 * n) - 1 |->
        CASE i = 0 -> line[0]
          [] i = (2 * n) - 1 -> line[n]
          [] i > 0 /\ i < (2 * n) - 1 -> IF (i % 2) = 0 THEN (3 * line[i \div 2] + line[(i \div 2) + 1]) \div 4
                                         ELSE (line[i \div 2] + 3 * line[(i \div 2) + 1]) \div 4]

\* smooth: one pass, in these names.
LEMMA ChaikinCuts == ASSUME NEW line, NEW n, IsPath(line, n) PROVE Chaikin(line) = Cut(line, n)
<1>1. Chaikin(line) = Cut(line, Max(DOMAIN line))
  BY DEF Chaikin, Cut
<1>2. Max(DOMAIN line) = n
  BY LineEnd
<1> QED
  BY <1>1, <1>2

\* ... and point by point.
LEMMA CutAt ==
    ASSUME NEW line, NEW n, IsPath(line, n), NEW j \in 0..n - 1
    PROVE  /\ Chaikin(line)[2 * j] = IF j = 0 THEN line[0] ELSE (3 * line[j] + line[j + 1]) \div 4
           /\ Chaikin(line)[2 * j + 1] = IF j = n - 1 THEN line[n] ELSE (line[j] + 3 * line[j + 1]) \div 4
<1> DEFINE Close(i) == (3 * line[i] + line[i + 1]) \div 4
           Far(i) == (line[i] + 3 * line[i + 1]) \div 4
           cut == Cut(line, n)
<1>1. Chaikin(line) = cut
  BY ChaikinCuts
<1>2. n \in Nat \ {0} /\ j \in Nat /\ j <= n - 1
  BY DEF IsPath
<1>0. ASSUME NEW i \in 0..(2 * n) - 1
      PROVE  /\ i = 0 => cut[i] = line[0]
             /\ i = (2 * n) - 1 => cut[i] = line[n]
             /\ (i > 0 /\ i < (2 * n) - 1) => cut[i] = IF (i % 2) = 0 THEN Close(i \div 2) ELSE Far(i \div 2)
  <2>1. n \in Nat \ {0}
    BY DEF IsPath
  <2> QED
    BY <1>0, <2>1 DEF Cut
<1> HIDE DEF Close, Far, cut
<1>3. cut[2 * j] = IF j = 0 THEN line[0] ELSE Close(j)
  <2>1. 2 * j \in 0..(2 * n) - 1 /\ ((2 * j) % 2) = 0 /\ (2 * j) \div 2 = j /\ 2 * j < (2 * n) - 1
    BY <1>2
  <2>2. CASE j = 0
    <3>1. 2 * j = 0
      BY <2>2
    <3> QED
      BY <1>0, <2>1, <2>2, <3>1
  <2>3. CASE j # 0
    <3>1. 2 * j # 0 /\ 2 * j # (2 * n) - 1 /\ 2 * j > 0
      BY <1>2, <2>1, <2>3
    <3> DEFINE i == 2 * j
    <3>2. i \in 0..(2 * n) - 1 /\ i # 0 /\ i # (2 * n) - 1 /\ i > 0 /\ i < (2 * n) - 1 /\ (i % 2) = 0 /\ i \div 2 = j
      BY <2>1, <3>1
    <3> HIDE DEF i
    <3>3. cut[i] = Close(j)
      BY <1>0, <3>2
    <3> QED
      BY <2>3, <3>3 DEF i
  <2> QED
    BY <2>2, <2>3
<1>4. cut[2 * j + 1] = IF j = n - 1 THEN line[n] ELSE Far(j)
  <2> DEFINE i == 2 * j + 1
  <2>1. i \in 0..(2 * n) - 1 /\ (i % 2) = 1 /\ i \div 2 = j /\ i > 0 /\ i # 0
    BY <1>2
  <2>2. i = (2 * n) - 1 <=> j = n - 1
    BY <1>2
  <2>3. j # n - 1 => i < (2 * n) - 1
    BY <1>2
  <2> HIDE DEF i
  <2>4. CASE j = n - 1
    BY <1>0, <2>1, <2>2, <2>4 DEF i
  <2>5. CASE j # n - 1
    <3>1. cut[i] = Far(j)
      BY <1>0, <2>1, <2>2, <2>3, <2>5
    <3> QED
      BY <2>5, <3>1 DEF i
  <2> QED
    BY <2>4, <2>5
<1> QED
  BY <1>1, <1>3, <1>4 DEF Close, Far

\* Two points come between two points of the line.
LEMMA CutIs ==
    ASSUME NEW line, NEW n, IsPath(line, n), NEW j \in 0..n - 1
    PROVE  /\ CutBetween(Chaikin(line), line, j)
           /\ Chaikin(line)[2 * j] \in Int /\ Chaikin(line)[2 * j + 1] \in Int
<1> DEFINE cut == Chaikin(line)
           p == line[j]
           q == line[j + 1]
           near == (3 * p + q) \div 4
           far == (p + 3 * q) \div 4
<1>1. n \in Nat \ {0} /\ j \in 0..n /\ j + 1 \in 0..n /\ p \in Int /\ q \in Int /\ p <= q
  <2>1. n \in Nat \ {0} /\ j \in 0..n /\ j + 1 \in 0..n
    BY DEF IsPath
  <2> QED
    BY <2>1 DEF IsPath
<1>2. near \in Int /\ far \in Int /\ p <= near /\ near <= far /\ far <= q /\ (p < q => near < q)
  BY <1>1, Quarters
<1>3. cut[2 * j] = (IF j = 0 THEN line[0] ELSE near) /\ cut[2 * j + 1] = (IF j = n - 1 THEN line[n] ELSE far)
  BY CutAt
<1>4. cut[2 * j] = p \/ cut[2 * j] = near
  BY <1>3
<1>5. cut[2 * j + 1] = q \/ cut[2 * j + 1] = far
  <2>1. j = n - 1 => j + 1 = n
    BY <1>1
  <2> QED
    BY <1>3, <2>1
<1> HIDE DEF near, far, cut, p, q
<1>6. p <= cut[2 * j] /\ cut[2 * j] <= cut[2 * j + 1] /\ cut[2 * j + 1] <= q /\ (p < q => cut[2 * j] < q)
  BY <1>1, <1>2, <1>4, <1>5
<1>7. cut[2 * j] \in Int /\ cut[2 * j + 1] \in Int
  BY <1>1, <1>2, <1>4, <1>5
<1> QED
  BY <1>6, <1>7 DEF CutBetween, cut, p, q

\* A pass makes a line of a line.
LEMMA CutIsLine ==
    ASSUME NEW line, NEW n, IsPath(line, n)
    PROVE  IsPath(Chaikin(line), (2 * n) - 1)
<1> DEFINE cut == Chaikin(line)
           m == (2 * n) - 1
<1>1. n \in Nat \ {0} /\ m \in Nat \ {0}
  BY DEF IsPath
<1>2. DOMAIN cut = 0..m /\ cut = [i \in 0..m |-> cut[i]]
  <2>1. cut = Cut(line, n)
    BY ChaikinCuts
  <2> QED
    BY <2>1 DEF Cut
<1>3. ASSUME NEW j \in 0..n - 1
      PROVE  CutBetween(cut, line, j) /\ cut[2 * j] \in Int /\ cut[2 * j + 1] \in Int
  BY <1>3, CutIs
<1>4. ASSUME NEW i \in 0..m
      PROVE  \E j \in 0..n - 1 : i = 2 * j \/ i = 2 * j + 1
  <2>1. i \div 2 \in 0..n - 1 /\ (i = 2 * (i \div 2) \/ i = 2 * (i \div 2) + 1)
    BY <1>1, <1>4
  <2> QED
    BY <2>1
<1> HIDE DEF cut
<1>5. \A i \in 0..m : cut[i] \in Int
  <2> TAKE i \in 0..m
  <2>1. PICK j \in 0..n - 1 : i = 2 * j \/ i = 2 * j + 1
    BY <1>4
  <2> QED
    BY <1>3, <2>1
<1>6. ASSUME NEW i \in 0..m - 1 PROVE cut[i] <= cut[i + 1]
  <2>1. i \in 0..m /\ i + 1 \in 0..m
    BY <1>1, <1>6
  <2>2. PICK j \in 0..n - 1 : i = 2 * j \/ i = 2 * j + 1
    BY <1>4, <2>1
  <2>3. CASE i = 2 * j
    BY <1>3, <2>3 DEF CutBetween
  <2>4. CASE i = 2 * j + 1
    <3>1. j + 1 \in 0..n - 1 /\ i + 1 = 2 * (j + 1)
      BY <1>1, <1>6, <2>2, <2>4
    <3>2. cut[i] <= line[j + 1]
      BY <1>3, <2>4 DEF CutBetween
    <3>3. line[j + 1] <= cut[i + 1]
      BY <1>3, <3>1 DEF CutBetween
    <3>4. cut[i] \in Int /\ cut[i + 1] \in Int /\ line[j + 1] \in Int
      <4>1. j + 1 \in 0..n
        BY <1>1, <3>1
      <4> QED
        BY <1>5, <2>1, <4>1 DEF IsPath
    <3> QED
      BY <3>2, <3>3, <3>4
  <2> QED
    BY <2>2, <2>3, <2>4
<1>7. cut \in [0..m -> Int]
  BY <1>2, <1>5
<1> QED
  BY <1>1, <1>6, <1>7 DEF IsPath, cut

-----------------------------------------------------------------------------
(* centerline_to_lanelet: a line that is smoothed                          *)

\* Between two points of a line there are two of the one it is smoothed to, and the
\* first of them is short of the second point.  The ends are the same.
Keeps(line, n, fine, m) ==
    /\ fine[0] = line[0] /\ fine[m] = line[n]
    /\ \A i \in 0..n - 1 : \E j \in 0..m - 1 :
        /\ line[i] <= fine[j] /\ fine[j + 1] <= line[i + 1]
        /\ line[i] < line[i + 1] => fine[j] < line[i + 1]
\* A line is smoothed to another that keeps it.
Smoother(line, n, fine) == \E m \in Nat : IsPath(fine, m) /\ Keeps(line, n, fine, m)
\* All lines.
Lines == UNION {[0..m -> Int] : m \in Nat}

\* A line keeps itself,
LEMMA KeepsSelf == ASSUME NEW line, NEW n, IsPath(line, n) PROVE Smoother(line, n, line)
<1>1. n \in Nat
  BY DEF IsPath
<1>2. Keeps(line, n, line, n)
  <2> SUFFICES ASSUME NEW i \in 0..n - 1
               PROVE  /\ line[i] <= line[i] /\ line[i + 1] <= line[i + 1]
                      /\ line[i] < line[i + 1] => line[i] < line[i + 1]
    BY DEF Keeps
  <2>1. i \in 0..n /\ i + 1 \in 0..n
    BY <1>1
  <2> QED
    BY <2>1 DEF IsPath
<1> QED
  BY <1>1, <1>2 DEF Smoother

\* ... and one pass more keeps it, too.
LEMMA KeepsOn ==
    ASSUME NEW line, NEW n, IsPath(line, n), NEW fine, Smoother(line, n, fine)
    PROVE  Smoother(line, n, Chaikin(fine))
<1>1. PICK m \in Nat : IsPath(fine, m) /\ Keeps(line, n, fine, m)
  BY DEF Smoother
<1> DEFINE cut == Chaikin(fine)
           c == (2 * m) - 1
<1>2. IsPath(cut, c) /\ c \in Nat
  <2>1. IsPath(cut, c)
    BY <1>1, CutIsLine
  <2> QED
    BY <2>1 DEF IsPath
<1>3. ASSUME NEW j \in 0..m - 1 PROVE CutBetween(cut, fine, j)
  BY <1>1, CutIs
<1>6. cut[0] = fine[0] /\ cut[c] = fine[m]
  <2>1. m \in Nat \ {0} /\ 0 \in 0..m - 1 /\ m - 1 \in 0..m - 1
    BY <1>1 DEF IsPath
  <2>2. 2 * 0 = 0 /\ 2 * (m - 1) + 1 = c
    BY <2>1
  <2>3. cut[2 * 0] = fine[0] /\ cut[2 * (m - 1) + 1] = fine[m]
    BY <1>1, <2>1, CutAt
  <2> QED
    BY <2>2, <2>3
<1> HIDE DEF cut
<1>4. ASSUME NEW i \in 0..n - 1
      PROVE  \E k \in 0..c - 1 : /\ line[i] <= cut[k] /\ cut[k + 1] <= line[i + 1]
                                 /\ line[i] < line[i + 1] => cut[k] < line[i + 1]
  <2>1. PICK j \in 0..m - 1 : /\ line[i] <= fine[j] /\ fine[j + 1] <= line[i + 1]
                              /\ line[i] < line[i + 1] => fine[j] < line[i + 1]
    BY <1>1 DEF Keeps
  <2>2. m \in Nat \ {0} /\ j \in 0..m /\ j + 1 \in 0..m /\ n \in Nat \ {0} /\ i \in 0..n /\ i + 1 \in 0..n
    BY <1>1 DEF IsPath
  <2>3. 2 * j \in 0..c - 1 /\ 2 * j \in 0..c /\ 2 * j + 1 \in 0..c
    BY <2>2
  <2>4. fine[j] \in Int /\ fine[j + 1] \in Int /\ line[i] \in Int /\ line[i + 1] \in Int
    BY <1>1, <2>2 DEF IsPath
  <2>5. cut[2 * j] \in Int /\ cut[2 * j + 1] \in Int
    BY <1>2, <2>3 DEF IsPath
  <2>6. /\ fine[j] <= cut[2 * j] /\ cut[2 * j] <= cut[2 * j + 1] /\ cut[2 * j + 1] <= fine[j + 1]
        /\ fine[j] < fine[j + 1] => cut[2 * j] < fine[j + 1]
    BY <1>3 DEF CutBetween
  <2> DEFINE a == cut[2 * j]
             b == cut[2 * j + 1]
             p == fine[j]
             q == fine[j + 1]
             u == line[i]
             v == line[i + 1]
  <2>7. /\ a \in Int /\ b \in Int /\ p \in Int /\ q \in Int /\ u \in Int /\ v \in Int
        /\ u <= p /\ q <= v /\ (u < v => p < v)
        /\ p <= a /\ a <= b /\ b <= q /\ (p < q => a < q)
    BY <2>1, <2>4, <2>5, <2>6
  <2> HIDE DEF a, b, p, q, u, v
  <2>8. u <= a /\ b <= v /\ (u < v => a < v)
    BY <2>7
  <2> QED
    BY <2>3, <2>8 DEF a, b, u, v
<1>5. Keeps(line, n, cut, c)
  BY <1>1, <1>4, <1>6 DEF Keeps
<1> QED
  BY <1>2, <1>5 DEF Smoother, cut

\* smooth: whatever the number of passes, the line is kept; without a pass it stays
\* as it is.
LEMMA IsSmoother ==
    ASSUME NEW line, NEW n, IsPath(line, n), NEW smoothing \in Nat
    PROVE  Smoother(line, n, Smooth(line, smoothing)) /\ (smoothing = 0 => Smooth(line, smoothing) = line)
<1> DEFINE S == {f \in Lines : Smoother(line, n, f)}
           G == [kf \in (1..smoothing) \X S |-> Chaikin(kf[2])]
           Loop(f) == [k \in 0..smoothing |-> IF k = 0 THEN line ELSE Chaikin(f[k - 1])]
           pass == CHOOSE f : f = Loop(f)
<1>1. Smooth(line, smoothing) = pass[smoothing]
  BY Zenon DEF Smooth
<1>2. ASSUME NEW f, Smoother(line, n, f) PROVE f \in Lines
  <2>1. PICK m \in Nat : f \in [0..m -> Int]
    BY <1>2 DEF Smoother, IsPath
  <2> QED
    BY <2>1 DEF Lines
<1>3. line \in S
  BY <1>2, KeepsSelf
<1>4. \A f \in S : Chaikin(f) \in S
  BY <1>2, KeepsOn
<1>5. PICK f \in [0..smoothing -> S] : Iterated(f, smoothing, line, G)
  <2>1. G \in [(1..smoothing) \X S -> S]
    <3> HIDE DEF S
    <3> QED
      BY <1>4
  <2> HIDE DEF G, S
  <2> QED
    BY <1>3, <2>1, IterationExists
<1>6. f = Loop(f)
  <2>1. ASSUME NEW k \in 1..smoothing PROVE f[k] = Chaikin(f[k - 1])
    <3> HIDE DEF S
    <3>1. f[k - 1] \in S
      BY <1>5
    <3>2. <<k, f[k - 1]>> \in (1..smoothing) \X S
      BY <3>1
    <3>3. f[k] = G[<<k, f[k - 1]>>]
      BY <1>5 DEF Iterated
    <3> QED
      BY <3>2, <3>3, Zenon
  <2>2. f[0] = line
    BY <1>5 DEF Iterated
  <2> HIDE DEF S, G
  <2> QED
    BY <1>5, <2>1, <2>2
<1>7. pass = Loop(pass)
  <2> HIDE DEF Loop
  <2> QED
    BY <1>6
<1> HIDE DEF G
<1>8. ASSUME NEW k \in 0..smoothing PROVE pass[k] = IF k = 0 THEN line ELSE Chaikin(pass[k - 1])
  <2> HIDE DEF pass
  <2>1. Loop(pass)[k] = IF k = 0 THEN line ELSE Chaikin(pass[k - 1])
    OBVIOUS
  <2> HIDE DEF Loop
  <2> QED
    BY <1>7, <2>1
<1> HIDE DEF pass, Loop
<1>9. Smoother(line, n, pass[smoothing])
  <2> DEFINE T == {k \in Nat : Smoother(line, n, pass[k])}
  <2>1. 0 \in T
    BY <1>8, KeepsSelf
  <2>2. ASSUME NEW k \in 0..smoothing - 1, k \in T PROVE k + 1 \in T
    <3>1. k + 1 \in 0..smoothing /\ k + 1 # 0 /\ (k + 1) - 1 = k /\ k + 1 \in Nat
      OBVIOUS
    <3>2. pass[k + 1] = Chaikin(pass[k])
      BY <1>8, <3>1
    <3>3. Smoother(line, n, pass[k])
      BY <2>2
    <3>4. Smoother(line, n, Chaikin(pass[k]))
      BY <3>3, KeepsOn
    <3> QED
      BY <3>1, <3>2, <3>4
  <2>3. smoothing \in T
    <3> HIDE DEF T
    <3> QED
      BY <2>1, <2>2, UpTo
  <2> QED
    BY <2>3
<1> QED
  BY <1>1, <1>8, <1>9

-----------------------------------------------------------------------------
(* centerline_to_lanelet: the samples of a line                            *)

\* The length of a line's segment in pieces.
LEMMA PiecesAre ==
    ASSUME NEW line, NEW n, IsPath(line, n), NEW j \in 0..n - 1, NEW step \in Nat \ {0}
    PROVE  /\ Pieces(line, j, step) \in Nat
           /\ line[j] < line[j + 1] => Pieces(line, j, step) > 0
<1> DEFINE len == line[j + 1] - line[j]
           d == (line[j + 1] - line[j] + step - 1) \div step
<1>1. len \in Nat /\ line[j + 1] - line[j] + step - 1 = len + step - 1
      /\ (line[j] < line[j + 1] => len > 0)
  <2>1. n \in Nat \ {0} /\ j \in 0..n /\ j + 1 \in 0..n
    BY DEF IsPath
  <2>2. line[j] \in Int /\ line[j + 1] \in Int /\ line[j] <= line[j + 1]
    BY <2>1 DEF IsPath
  <2> QED
    BY <2>2
<1>2. Pieces(line, j, step) = d
  BY DEF Pieces
<1>3. d = (len + step - 1) \div step
  BY <1>1
<1> HIDE DEF len, d
<1> DEFINE x == len + step - 1
<1>4. x \in Nat
  BY <1>1
<1>5. d \in Int /\ step * d <= len + step - 1 /\ len + step - 1 < step * d + step
  <2>1. d = x \div step
    BY <1>3
  <2> HIDE DEF x
  <2>2. d \in Int /\ step * d <= x /\ x < step * d + step
    BY <1>4, <2>1, DivFacts
  <2> QED
    BY <2>2 DEF x
<1>6. d >= 0
  <2> SUFFICES ASSUME d <= -1 PROVE FALSE
    BY <1>5
  <2>1. step * d <= -step
    BY <1>5
  <2> QED
    BY <1>4, <1>5, <2>1
<1>7. len > 0 => d # 0
  BY <1>1, <1>5
<1> QED
  BY <1>1, <1>2, <1>5, <1>6, <1>7

\* The indices that a line's points have among the samples.
Indexed(line, n, step, index) ==
    /\ DOMAIN index = 0..n /\ index[0] = 0
    /\ \A j \in 0..n : index[j] \in Nat
    /\ \A j \in 0..n - 1 : index[j + 1] = index[j] + Pieces(line, j, step)

\* resample: the indices are such.
LEMMA IndicesAre ==
    ASSUME NEW line, NEW n, IsPath(line, n), NEW step \in Nat \ {0}
    PROVE  Indexed(line, n, step, Indices(line, step))
<1> DEFINE G == [jx \in (1..n) \X Nat |-> jx[2] + Pieces(line, jx[1] - 1, step)]
           Loop(f) == [j \in DOMAIN line |-> IF j = 0 THEN 0 ELSE f[j - 1] + Pieces(line, j - 1, step)]
           index == CHOOSE f : f = Loop(f)
<1>1. Indices(line, step) = index
  BY Zenon DEF Indices
<1>2. n \in Nat \ {0} /\ DOMAIN line = 0..n
  BY DEF IsPath
<1>3. \A j \in 1..n : Pieces(line, j - 1, step) \in Nat
  <2> TAKE j \in 1..n
  <2>1. j - 1 \in 0..n - 1
    BY <1>2
  <2> QED
    BY <2>1, PiecesAre
<1>4. PICK f \in [0..n -> Nat] : Iterated(f, n, 0, G)
  <2>1. G \in [(1..n) \X Nat -> Nat]
    BY <1>3
  <2> HIDE DEF G
  <2> QED
    BY <1>2, <2>1, IterationExists
<1>5. f = Loop(f)
  <2>1. ASSUME NEW j \in 1..n PROVE f[j] = f[j - 1] + Pieces(line, j - 1, step)
    <3>1. j - 1 \in 0..n /\ f[j - 1] \in Nat
      BY <1>2
    <3>2. <<j, f[j - 1]>> \in (1..n) \X Nat
      BY <3>1
    <3>3. f[j] = G[<<j, f[j - 1]>>]
      BY <1>4 DEF Iterated
    <3> QED
      BY <3>2, <3>3, Zenon
  <2>2. f[0] = 0
    BY <1>4 DEF Iterated
  <2> HIDE DEF G
  <2> QED
    BY <1>2, <2>1, <2>2
<1>6. index = Loop(index)
  <2> HIDE DEF Loop
  <2> QED
    BY <1>5
<1> HIDE DEF index, G
<1>7. DOMAIN index = 0..n
  <2>1. DOMAIN Loop(index) = 0..n
    BY <1>2
  <2> HIDE DEF Loop
  <2> QED
    BY <1>6, <2>1
<1>8. ASSUME NEW j \in 0..n PROVE index[j] = IF j = 0 THEN 0 ELSE index[j - 1] + Pieces(line, j - 1, step)
  <2>1. Loop(index)[j] = IF j = 0 THEN 0 ELSE index[j - 1] + Pieces(line, j - 1, step)
    BY <1>2
  <2> HIDE DEF Loop
  <2> QED
    BY <1>6, <2>1
<1>9. index[0] = 0
  BY <1>2, <1>8
<1>10. ASSUME NEW j \in 0..n - 1 PROVE index[j + 1] = index[j] + Pieces(line, j, step)
  <2>1. j + 1 \in 0..n /\ j + 1 # 0 /\ (j + 1) - 1 = j
    BY <1>2
  <2> QED
    BY <1>8, <2>1
<1>11. ASSUME NEW j \in 0..n PROVE index[j] \in Nat
  <2> DEFINE T == {k \in Nat : index[k] \in Nat}
  <2>1. 0 \in T
    BY <1>9
  <2>2. ASSUME NEW k \in 0..j - 1, k \in T PROVE k + 1 \in T
    <3>1. k \in 0..n - 1 /\ k + 1 \in Nat
      BY <1>2
    <3>2. Pieces(line, k, step) \in Nat
      BY <3>1, PiecesAre
    <3> QED
      BY <1>10, <2>2, <3>1, <3>2
  <2>3. j \in T
    <3>1. j \in Nat
      OBVIOUS
    <3> HIDE DEF T
    <3> QED
      BY <2>1, <2>2, <3>1, UpTo
  <2> QED
    BY <2>3
<1> QED
  BY <1>1, <1>7, <1>9, <1>10, <1>11 DEF Indexed

\* The indices never go back, and stay only where the line does.
LEMMA IndicesRise ==
    ASSUME NEW line, NEW n, IsPath(line, n), NEW step \in Nat \ {0}, NEW index, Indexed(line, n, step, index),
           NEW i \in 0..n, NEW j \in 0..n, i <= j
    PROVE  /\ index[i] <= index[j] /\ line[i] <= line[j]
           /\ index[i] = index[j] => line[i] = line[j]
<1> DEFINE Holds(k) == /\ index[i] <= index[i + k] /\ line[i] <= line[i + k]
                       /\ index[i] = index[i + k] => line[i] = line[i + k]
           T == {k \in Nat : i + k <= n => Holds(k)}
           m == j - i
<1>1. n \in Nat \ {0} /\ m \in Nat /\ i + m = j
  BY DEF IsPath
<1>2. \A k \in 0..n : index[k] \in Nat /\ line[k] \in Int
  BY DEF IsPath, Indexed
<1>3. 0 \in T
  BY <1>2
<1>4. ASSUME NEW k \in 0..m - 1, k \in T PROVE k + 1 \in T
  <2> DEFINE h == i + k
  <2>1. h \in 0..n - 1 /\ h \in 0..n /\ h + 1 \in 0..n /\ k + 1 \in Nat /\ i + (k + 1) = h + 1
    BY <1>1
  <2>2. index[i] <= index[h] /\ line[i] <= line[h] /\ (index[i] = index[h] => line[i] = line[h])
    BY <1>4, <2>1
  <2> HIDE DEF h
  <2>3. Pieces(line, h, step) \in Nat /\ (line[h] < line[h + 1] => Pieces(line, h, step) > 0)
    BY <2>1, PiecesAre
  <2>4. index[h + 1] = index[h] + Pieces(line, h, step) /\ line[h] <= line[h + 1]
    BY <2>1 DEF IsPath, Indexed
  <2>5. /\ index[i] \in Nat /\ index[h] \in Nat /\ index[h + 1] \in Nat
        /\ line[i] \in Int /\ line[h] \in Int /\ line[h + 1] \in Int
    BY <1>2, <2>1
  <2>6. index[i] <= index[h + 1] /\ line[i] <= line[h + 1] /\ (index[i] = index[h + 1] => line[i] = line[h + 1])
    BY <2>2, <2>3, <2>4, <2>5
  <2> QED
    BY <2>1, <2>6
<1>5. m \in T
  <2> HIDE DEF T, m
  <2> QED
    BY <1>1, <1>3, <1>4, UpTo
<1> QED
  BY <1>1, <1>5

\* A part of a segment is between nothing and all of it.
LEMMA PartOf ==
    ASSUME NEW len \in Nat, NEW count \in Nat \ {0}, NEW a \in 0..count
    PROVE  (a * len) \div count \in 0..len
<1> DEFINE x == a * len
           d == x \div count
<1>1. x \in Nat /\ x <= count * len
  <2>1. (count - a) * len >= 0 /\ (count - a) * len = count * len - a * len
    OBVIOUS
  <2> QED
    BY <2>1
<1> HIDE DEF x
<1>2. d \in Int /\ count * d <= x /\ x < count * d + count
  BY <1>1, DivFacts
<1> HIDE DEF d
<1>3. d >= 0
  <2> SUFFICES ASSUME d <= -1 PROVE FALSE
    BY <1>2
  <2>1. count * d <= -count
    BY <1>2
  <2> QED
    BY <1>1, <1>2, <2>1
<1>4. d <= len
  <2> SUFFICES ASSUME d >= len + 1 PROVE FALSE
    BY <1>2
  <2>1. count * d >= count * (len + 1) /\ count * (len + 1) = count * len + count
    BY <1>2
  <2> QED
    BY <1>1, <1>2, <2>1
<1> QED
  BY <1>2, <1>3, <1>4 DEF d, x

\* More of something is no less when both are divided.
LEMMA MoreOf ==
    ASSUME NEW x \in Int, NEW y \in Int, x <= y, NEW count \in Nat \ {0}
    PROVE  x \div count <= y \div count
<1> DEFINE c == x \div count
           d == y \div count
<1>1. c \in Int /\ count * c <= x
  BY DivFacts
<1>2. d \in Int /\ y < count * d + count
  BY DivFacts
<1> HIDE DEF c, d
<1>3. c <= d
  <2> SUFFICES ASSUME c >= d + 1 PROVE FALSE
    BY <1>1, <1>2
  <2>1. count * c >= count * (d + 1) /\ count * (d + 1) = count * d + count
    BY <1>1, <1>2
  <2> QED
    BY <1>1, <1>2, <2>1
<1> QED
  BY <1>3 DEF c, d

\* The place of a sample lies on its segment, the j-th.
OnSegment(line, n, index, places, s, j) ==
    /\ index[j] <= s
    /\ j < n => s < index[j + 1]
    /\ places[s] \in Int
    /\ line[j] <= places[s]
    /\ j < n => places[s] <= line[j + 1]
    /\ j = n => places[s] = line[n]

\* Every sample is on a segment.
LEMMA SegmentOf ==
    ASSUME NEW line, NEW n, IsPath(line, n), NEW step \in Nat \ {0}, NEW index, Indexed(line, n, step, index),
           NEW s \in Nat
    PROVE  LET j == Max({i \in DOMAIN line : index[i] <= s})
           IN  j \in 0..n /\ index[j] <= s /\ (j < n => s < index[j + 1])
<1> DEFINE B == {i \in DOMAIN line : index[i] <= s}
           j == Max(B)
<1>1. n \in Nat \ {0} /\ DOMAIN line = 0..n /\ index[0] = 0 /\ \A i \in 0..n : index[i] \in Nat
  BY DEF IsPath, Indexed
<1>2. IsFiniteSet(B) /\ B \in SUBSET Int /\ B # {}
  <2>1. IsFiniteSet(0..n)
    BY <1>1, FS_Interval
  <2>2. 0 \in B
    BY <1>1
  <2>3. IsFiniteSet(B)
    BY <1>1, <2>1, FS_Subset
  <2> QED
    BY <1>1, <2>2, <2>3
<1>3. j \in B /\ \A i \in B : i <= j
  <2> HIDE DEF B
  <2> QED
    BY <1>2, HasMax
<1> HIDE DEF j
<1>4. j \in 0..n /\ index[j] <= s
  BY <1>1, <1>3
<1>5. j < n => s < index[j + 1]
  <2> SUFFICES ASSUME j < n PROVE s < index[j + 1]
    OBVIOUS
  <2>1. j + 1 \in 0..n /\ ~(j + 1 <= j)
    BY <1>1, <1>4
  <2>2. ~(index[j + 1] <= s)
    BY <1>1, <1>3, <2>1
  <2> QED
    BY <1>1, <2>1, <2>2
<1> QED
  BY <1>4, <1>5 DEF j

\* A sample is on its segment, at its part of it.
LEMMA PlaceIs ==
    ASSUME NEW line, NEW n, IsPath(line, n), NEW step \in Nat \ {0}, NEW index, Indexed(line, n, step, index),
           NEW s \in 0..index[n]
    PROVE  \E j \in 0..n :
              /\ OnSegment(line, n, index, [x \in 0..index[n] |-> PlaceAt(line, step, index, x)], s, j)
              /\ j < n => PlaceAt(line, step, index, s)
                            = line[j] + ((s - index[j]) * (line[j + 1] - line[j])) \div Pieces(line, j, step)
<1> DEFINE j == Max({i \in DOMAIN line : index[i] <= s})
           place == PlaceAt(line, step, index, s)
           part == ((s - index[j]) * (line[j + 1] - line[j])) \div Pieces(line, j, step)
           places == [x \in 0..index[n] |-> PlaceAt(line, step, index, x)]
<1>1. n \in Nat \ {0} /\ \A i \in 0..n : index[i] \in Nat /\ line[i] \in Int
  BY DEF IsPath, Indexed
<1>2. s \in Nat
  BY <1>1
<1>3. j \in 0..n /\ index[j] <= s /\ (j < n => s < index[j + 1])
  BY <1>2, SegmentOf
<1>4. place = IF j = n THEN line[n] ELSE line[j] + part
  <2>1. Max(DOMAIN line) = n
    BY LineEnd
  <2> QED
    BY <2>1 DEF PlaceAt
<1>5. places[s] = place
  OBVIOUS
<1> HIDE DEF j, place, places
<1>6. CASE j = n
  <2>1. OnSegment(line, n, index, places, s, j)
    BY <1>1, <1>3, <1>4, <1>5, <1>6 DEF OnSegment
  <2>2. ~(j < n)
    BY <1>1, <1>6
  <2> QED
    BY <1>3, <2>1, <2>2 DEF places
<1>7. CASE j # n
  <2> DEFINE len == line[j + 1] - line[j]
             count == Pieces(line, j, step)
             a == s - index[j]
  <2>1. j \in 0..n - 1 /\ j < n /\ j + 1 \in 0..n
    BY <1>1, <1>3, <1>7
  <2>2. len \in Nat
    BY <1>1, <2>1, <1>3 DEF IsPath
  <2>3. count \in Nat /\ index[j + 1] = index[j] + count
    BY <2>1, PiecesAre DEF Indexed
  <2>4. a \in 0..count /\ count \in Nat \ {0}
    BY <1>1, <1>2, <1>3, <2>1, <2>3
  <2> HIDE DEF len, count, a
  <2>5. (a * len) \div count \in 0..len
    BY <2>2, <2>4, PartOf
  <2>6. part \in 0..len
    BY <2>5 DEF len, count, a
  <2>7. place = line[j] + part
    BY <1>4, <1>7
  <2> HIDE DEF part
  <2>8. place \in Int /\ line[j] <= place /\ place <= line[j + 1]
    <3>1. line[j] \in Int /\ line[j + 1] \in Int /\ len = line[j + 1] - line[j]
      BY <1>1, <1>3, <2>1 DEF len
    <3> QED
      BY <2>2, <2>6, <2>7, <3>1
  <2>9. OnSegment(line, n, index, places, s, j)
    BY <1>3, <1>5, <1>7, <2>1, <2>8 DEF OnSegment
  <2> QED
    BY <1>3, <2>7, <2>9 DEF places, part, place
<1> QED
  BY <1>6, <1>7

\* The samples of a line: they never go back, and at a point's index is the point.
Threaded(line, n, index, places) ==
    /\ index[n] \in Nat /\ DOMAIN places = 0..index[n]
    /\ \A s \in 0..index[n] : places[s] \in Int
    /\ \A j \in 0..n : /\ index[j] \in Nat
                       /\ \A s \in 0..index[n] : /\ s >= index[j] => line[j] <= places[s]
                                                 /\ s <= index[j] => places[s] <= line[j]
    /\ \A s \in 1..index[n] : places[s - 1] <= places[s]

\* resample: what it makes of a line are such samples.
LEMMA SampledIs ==
    ASSUME NEW line, NEW n, IsPath(line, n), NEW step \in Nat \ {0}, NEW index, Indexed(line, n, step, index)
    PROVE  Threaded(line, n, index, [x \in 0..index[n] |-> PlaceAt(line, step, index, x)])
<1> DEFINE places == [x \in 0..index[n] |-> PlaceAt(line, step, index, x)]
<1>1. n \in Nat \ {0} /\ \A i \in 0..n : index[i] \in Nat /\ line[i] \in Int
  BY DEF IsPath, Indexed
<1>2. DOMAIN places = 0..index[n] /\ index[n] \in Nat /\ \A s \in 0..index[n] : places[s] = PlaceAt(line, step, index, s)
  BY <1>1
<1>3. ASSUME NEW s \in 0..index[n]
      PROVE  \E j \in 0..n :
                /\ OnSegment(line, n, index, places, s, j)
                /\ j < n => PlaceAt(line, step, index, s)
                              = line[j] + ((s - index[j]) * (line[j + 1] - line[j])) \div Pieces(line, j, step)
  BY <1>3, PlaceIs
<1> HIDE DEF places
<1>4. ASSUME NEW s \in 0..index[n] PROVE places[s] \in Int
  BY <1>3 DEF OnSegment
<1>5. ASSUME NEW i \in 0..n, NEW j \in 0..n, i <= j
      PROVE  index[i] <= index[j] /\ line[i] <= line[j] /\ (index[i] = index[j] => line[i] = line[j])
  BY <1>5, IndicesRise
<1>6. ASSUME NEW j \in 0..n, NEW s \in 0..index[n], s >= index[j] PROVE line[j] <= places[s]
  <2>1. PICK i \in 0..n : OnSegment(line, n, index, places, s, i)
    BY <1>3
  <2>2. j <= i
    <3> SUFFICES ASSUME i < j PROVE FALSE
      BY <1>1
    <3>1. i + 1 \in 0..n /\ i + 1 <= j /\ i < n
      BY <1>1
    <3>2. index[i + 1] <= index[j]
      BY <1>5, <3>1
    <3>3. s < index[i + 1]
      BY <2>1, <3>1 DEF OnSegment
    <3> QED
      BY <1>1, <1>2, <1>6, <3>1, <3>2, <3>3
  <2>3. line[j] <= line[i]
    BY <1>5, <2>2
  <2>4. line[i] <= places[s] /\ places[s] \in Int
    BY <2>1 DEF OnSegment
  <2> QED
    BY <1>1, <2>3, <2>4
<1>7. ASSUME NEW j \in 0..n, NEW s \in 0..index[n], s <= index[j] PROVE places[s] <= line[j]
  <2>1. PICK i \in 0..n : OnSegment(line, n, index, places, s, i)
    BY <1>3
  <2>2. places[s] \in Int /\ index[i] <= s /\ (i < n => places[s] <= line[i + 1]) /\ (i = n => places[s] = line[n])
    BY <2>1 DEF OnSegment
  <2>3. CASE i < j
    <3>1. i < n /\ i + 1 \in 0..n /\ i + 1 <= j
      BY <1>1, <2>3
    <3>2. line[i + 1] <= line[j]
      BY <1>5, <3>1
    <3> QED
      BY <1>1, <2>2, <3>1, <3>2
  <2>4. CASE j <= i
    <3>1. index[j] <= index[i]
      BY <1>5, <2>4
    <3>2. s = index[i] /\ index[i] = index[j]
      BY <1>1, <1>2, <1>7, <2>2, <3>1
    <3>3. line[j] = line[i]
      BY <1>5, <2>4, <3>2
    <3>4. places[s] <= line[i]
      <4>1. CASE i = n
        BY <1>1, <2>2, <4>1
      <4>2. CASE i # n
        <5>1. i < n /\ i \in 0..n - 1
          BY <1>1, <4>2
        <5>2. PICK h \in 0..n :
                 /\ OnSegment(line, n, index, places, s, h)
                 /\ h < n => PlaceAt(line, step, index, s)
                              = line[h] + ((s - index[h]) * (line[h + 1] - line[h])) \div Pieces(line, h, step)
          BY <1>3
        <5>3. index[h] <= s /\ (h < n => s < index[h + 1]) /\ (h = n => places[s] = line[n])
          BY <5>2 DEF OnSegment
        <5>4. i <= h
          <6> SUFFICES ASSUME h < i PROVE FALSE
            BY <1>1
          <6>1. h < n /\ h + 1 \in 0..n /\ h + 1 <= i
            BY <1>1
          <6>2. index[h + 1] <= index[i]
            BY <1>5, <6>1
          <6> QED
            BY <1>1, <3>2, <5>3, <6>1, <6>2
        <5>5. index[i] <= index[h]
          BY <1>5, <5>4
        <5>6. index[h] = s /\ index[i] = index[h]
          BY <1>1, <3>2, <5>3, <5>5
        <5>7. line[h] = line[i]
          BY <1>5, <5>4, <5>6
        <5>8. places[s] = line[h]
          <6>1. CASE h = n
            BY <5>3, <6>1
          <6>2. CASE h # n
            <7>1. h < n /\ h \in 0..n - 1 /\ h + 1 \in 0..n
              BY <1>1, <6>2
            <7>2. index[h + 1] = index[h] + Pieces(line, h, step) /\ Pieces(line, h, step) \in Nat
              BY <7>1, PiecesAre DEF Indexed
            <7>3. Pieces(line, h, step) \in Nat \ {0}
              BY <1>1, <5>3, <5>6, <7>1, <7>2
            <7> DEFINE len == line[h + 1] - line[h]
                       count == Pieces(line, h, step)
            <7>4. (s - index[h]) * len = 0 /\ line[h] \in Int
              BY <1>1, <5>6, <7>1
            <7>5. 0 \div count = 0
              BY <7>3
            <7>6. places[s] = line[h] + ((s - index[h]) * len) \div count
              BY <1>2, <5>2, <7>1
            <7> HIDE DEF len, count
            <7> QED
              BY <7>4, <7>5, <7>6
          <6> QED
            BY <6>1, <6>2
        <5> QED
          BY <1>1, <5>7, <5>8
      <4> QED
        BY <4>1, <4>2
    <3> QED
      BY <3>3, <3>4
  <2> QED
    BY <2>3, <2>4
<1>8. ASSUME NEW s \in 1..index[n] PROVE places[s - 1] <= places[s]
  <2> DEFINE t == s - 1
  <2>1. t \in 0..index[n] /\ s \in 0..index[n] /\ t + 1 = s /\ t < index[n]
    BY <1>2
  <2> HIDE DEF t
  <2>2. PICK i \in 0..n :
           /\ OnSegment(line, n, index, places, t, i)
           /\ i < n => PlaceAt(line, step, index, t)
                        = line[i] + ((t - index[i]) * (line[i + 1] - line[i])) \div Pieces(line, i, step)
    BY <1>3, <2>1
  <2>3. i < n /\ i \in 0..n - 1 /\ i + 1 \in 0..n
    <3>1. index[i] <= t
      BY <2>2 DEF OnSegment
    <3>2. i # n
      BY <1>1, <2>1, <3>1
    <3> QED
      BY <1>1, <3>2
  <2>4. index[i] <= t /\ t < index[i + 1] /\ places[t] <= line[i + 1]
    BY <2>2, <2>3 DEF OnSegment
  <2>5. CASE s >= index[i + 1]
    <3>1. line[i + 1] <= places[s]
      BY <1>6, <2>1, <2>3, <2>5
    <3>2. line[i + 1] \in Int /\ places[t] \in Int /\ places[s] \in Int
      BY <1>1, <1>4, <2>1, <2>3
    <3>3. places[t] <= places[s]
      BY <2>4, <3>1, <3>2
    <3> QED
      BY <3>3 DEF t
  <2>6. CASE ~(s >= index[i + 1])
    <3>1. PICK j \in 0..n :
             /\ OnSegment(line, n, index, places, s, j)
             /\ j < n => PlaceAt(line, step, index, s)
                          = line[j] + ((s - index[j]) * (line[j + 1] - line[j])) \div Pieces(line, j, step)
      BY <1>3, <2>1
    <3>2. index[j] <= s /\ (j < n => s < index[j + 1]) /\ s < index[i + 1] /\ s >= index[i] /\ s \in Int
      <4>1. index[j] <= s /\ (j < n => s < index[j + 1])
        BY <3>1 DEF OnSegment
      <4>2. index[i + 1] \in Nat /\ s \in Int /\ t \in Int /\ index[i] \in Nat
        BY <1>1, <2>1, <2>3
      <4> QED
        BY <2>1, <2>4, <2>6, <4>1, <4>2
    <3>3. j = i
      <4>1. ~(j < i)
        <5> SUFFICES ASSUME j < i PROVE FALSE
          OBVIOUS
        <5>1. j < n /\ j + 1 \in 0..n /\ j + 1 <= i
          BY <1>1
        <5>2. index[j + 1] <= index[i]
          BY <1>5, <5>1
        <5> QED
          BY <1>1, <3>2, <5>1, <5>2
      <4>2. ~(i < j)
        <5> SUFFICES ASSUME i < j PROVE FALSE
          OBVIOUS
        <5>1. i + 1 <= j
          BY <1>1
        <5>2. index[i + 1] <= index[j]
          BY <1>5, <2>3, <5>1
        <5> QED
          BY <1>1, <2>3, <3>2, <5>2
      <4> QED
        BY <1>1, <4>1, <4>2
    <3> DEFINE len == line[i + 1] - line[i]
               count == Pieces(line, i, step)
               a == (t - index[i]) * len
               b == (s - index[i]) * len
    <3>4. len \in Nat /\ line[i] \in Int /\ index[i] \in Nat
      BY <1>1, <2>3 DEF IsPath
    <3>5. count \in Nat \ {0}
      <4>1. index[i + 1] = index[i] + count /\ count \in Nat
        BY <2>3, PiecesAre DEF Indexed
      <4> QED
        BY <1>1, <2>1, <2>3, <2>4, <4>1
    <3>6. places[t] = line[i] + (a \div count) /\ places[s] = line[i] + (b \div count)
      BY <1>2, <2>1, <2>2, <2>3, <3>1, <3>3
    <3>7. a \in Int /\ b \in Int /\ a <= b
      <4>1. b = a + len
        <5>1. s - index[i] = (t - index[i]) + 1 /\ t - index[i] \in Int
          BY <2>1, <3>4
        <5> QED
          BY <3>4, <5>1
      <4>2. a \in Int
        BY <2>1, <3>4
      <4> HIDE DEF a, b
      <4> QED
        BY <3>4, <4>1, <4>2
    <3> HIDE DEF a, b, count, len
    <3>8. a \div count <= b \div count /\ a \div count \in Int /\ b \div count \in Int
      BY <3>5, <3>7, MoreOf, DivFacts
    <3>9. places[t] <= places[s]
      BY <3>4, <3>6, <3>8
    <3> QED
      BY <3>9 DEF t
  <2> QED
    BY <2>5, <2>6
<1> QED
  BY <1>1, <1>2, <1>4, <1>6, <1>7, <1>8 DEF Threaded, places

-----------------------------------------------------------------------------
(* The slow zone                                                           *)

\* A place between two points is no narrower than the narrower of them, and at
\* a point it is as wide as the point.
LEMMA Narrowed ==
    ASSUME NEW w \in Int, NEW v \in Int, NEW gap \in Nat \ {0}, NEW s \in 0..gap, NEW below \in Int,
           w * gap + s * (v - w) < below * gap
    PROVE  /\ w < below \/ v < below
           /\ s = 0 => w < below
           /\ s = gap => v < below
<1>1. w * gap + s * (v - w) = w * (gap - s) + v * s
  OBVIOUS
<1>2. ASSUME w >= below, v >= below PROVE FALSE
  <2>1. (w - below) * (gap - s) >= 0 /\ (v - below) * s >= 0
    BY <1>2
  <2>2. (w - below) * (gap - s) = w * (gap - s) - below * (gap - s) /\ (v - below) * s = v * s - below * s
    OBVIOUS
  <2>3. below * (gap - s) + below * s = below * gap
    OBVIOUS
  <2> QED
    BY <1>1, <2>1, <2>2, <2>3
<1>3. ASSUME s = 0 PROVE w < below
  <2>1. w * gap < below * gap
    BY <1>3
  <2>2. ASSUME w >= below PROVE FALSE
    <3>1. (w - below) * gap >= 0 /\ (w - below) * gap = w * gap - below * gap
      BY <2>2
    <3> QED
      BY <2>1, <3>1
  <2> QED
    BY <2>2
<1>4. ASSUME s = gap PROVE v < below
  <2>1. v * gap < below * gap
    BY <1>1, <1>4
  <2>2. ASSUME v >= below PROVE FALSE
    <3>1. (v - below) * gap >= 0 /\ (v - below) * gap = v * gap - below * gap
      BY <2>2
    <3> QED
      BY <2>1, <3>1
  <2> QED
    BY <2>2
<1> QED
  BY <1>2, <1>3, <1>4

\* Where a lane is narrow, one of the points around the place is.
Around(road, last, below, t, i) ==
    /\ i \in 0..last - 1
    /\ road[i].at <= t /\ t <= road[i + 1].at
    /\ road[i].width < below \/ road[i + 1].width < below
    /\ t = road[i].at => road[i].width < below

\* A narrow place lies beside a point that is narrow.
LEMMA NarrowLies ==
    ASSUME NEW road, NEW last, IsRoute(road, last), NEW t \in 0..road[last].at, NEW below \in Int,
           NarrowAt(road, below, t)
    PROVE  \E i \in 0..last - 1 : Around(road, last, below, t, i)
<1> DEFINE b == PointBefore(road, t)
           i == Min({b, last - 1})
<1>1. b \in 0..last /\ road[b].at <= t /\ \A j \in 0..last : road[j].at <= t => j <= b
  BY BeforeIs
<1> HIDE DEF b
<1>2. i \in 0..last - 1 /\ i <= b /\ (i = b \/ i = last - 1)
  <2>1. last \in Nat \ {0}
    BY DEF IsRoute
  <2>2. last - 1 \in Int /\ b \in Int
    BY <1>1, <2>1
  <2>3. IsFiniteSet({b, last - 1})
    <3>1. IsFiniteSet({b}) /\ {b, last - 1} = {b} \cup {last - 1}
      BY FS_Singleton
    <3> QED
      BY <3>1, FS_AddElement
  <2>4. i \in {b, last - 1} /\ \A x \in {b, last - 1} : i <= x
    BY <2>2, <2>3, HasMin
  <2> HIDE DEF i
  <2> QED
    BY <1>1, <2>1, <2>2, <2>4
<1>3. road[i].width * (road[i + 1].at - road[i].at) + (t - road[i].at) * (road[i + 1].width - road[i].width)
        < below * (road[i + 1].at - road[i].at)
  BY <1>1, LastIs DEF NarrowAt, b
<1> HIDE DEF i
<1>4. /\ i \in 0..last /\ i + 1 \in 0..last /\ t \in Int
      /\ road[i].at \in Int /\ road[i + 1].at \in Int /\ road[i].width \in Int /\ road[i + 1].width \in Int
  <2>1. last \in Nat \ {0} /\ i \in 0..last /\ i + 1 \in 0..last
    BY <1>2 DEF IsRoute
  <2> QED
    BY <2>1 DEF IsRoute
<1>5. road[i].at <= t
  <2>1. i = b \/ i < b
    BY <1>1, <1>2, <1>4
  <2>2. i < b => road[i].at < road[b].at /\ road[b].at \in Int
    BY <1>1, <1>4, RouteRises DEF IsRoute
  <2> QED
    BY <1>1, <1>4, <2>1, <2>2
<1>6. t <= road[i + 1].at
  <2>1. CASE i = b
    <3>1. ~(road[i + 1].at <= t)
      BY <1>1, <1>4, <2>1
    <3> QED
      BY <1>4, <3>1
  <2>2. CASE i = last - 1
    <3>1. i + 1 = last
      BY <1>4, <2>2 DEF IsRoute
    <3> QED
      BY <1>4, <3>1
  <2> QED
    BY <1>2, <2>1, <2>2
<1>7. road[i].at < road[i + 1].at
  BY <1>2 DEF IsRoute
<1> DEFINE w == road[i].width
           v == road[i + 1].width
           gap == road[i + 1].at - road[i].at
           s == t - road[i].at
<1>8. /\ w \in Int /\ v \in Int /\ gap \in Nat \ {0} /\ s \in 0..gap
      /\ (t = road[i].at <=> s = 0)
  BY <1>4, <1>5, <1>6, <1>7
<1>9. w * gap + s * (v - w) < below * gap
  BY <1>3
<1> HIDE DEF w, v, gap, s
<1>10. (w < below \/ v < below) /\ (s = 0 => w < below)
  BY <1>8, <1>9, Narrowed
<1>11. Around(road, last, below, t, i)
  BY <1>2, <1>5, <1>6, <1>8, <1>10 DEF Around, w, v
<1> QED
  BY <1>2, <1>11

\* The points of a zone that slow_zone finds.
InZone(road, below, pad, p) ==
    SlowZone(road, below, pad).start <= p /\ p < SlowZone(road, below, pad).resume
\* No gap of the route is longer.
Spans(road, last, gap) == \A i \in 0..last - 1 : road[i + 1].at - road[i].at <= gap

\* The slow zone starts before and ends after every narrow point, with padding.
LEMMA ZoneIs ==
    ASSUME NEW road, NEW last, IsRoute(road, last), NEW below \in Int, NEW pad \in Nat,
           NEW n \in 0..last, road[n].width < below
    PROVE  LET narrow == Narrow(road, below)
               zone == SlowZone(road, below, pad)
           IN  /\ zone.start \in 0..last + 1 /\ zone.resume \in 1..last + 2
               /\ \A p \in 0..last : road[n].at - pad <= road[p].at => zone.start <= p
               /\ \A p \in 0..last : road[p].at < road[n].at + pad => p + 1 < zone.resume
<1> DEFINE thin == Narrow(road, below)
           lo == Min(thin)
           hi == Max(thin)
           first == SearchSorted(road, road[lo].at - pad)
           past == SearchSorted(road, road[hi].at + pad)
<1>1. thin \in SUBSET Int /\ IsFiniteSet(thin) /\ n \in thin /\ \A x \in thin : x \in 0..last
  <2>1. IsFiniteSet(0..last) /\ DOMAIN road = 0..last
    BY FS_Interval DEF IsRoute
  <2>2. thin \in SUBSET (0..last)
    BY <2>1 DEF Narrow
  <2>3. IsFiniteSet(thin)
    BY <2>1, <2>2, FS_Subset
  <2> QED
    BY <2>1, <2>2, <2>3 DEF Narrow
<1> HIDE DEF thin
<1>2. lo \in thin /\ hi \in thin /\ lo <= n /\ n <= hi
  <2>1. lo \in thin /\ \A x \in thin : lo <= x
    BY <1>1, HasMin
  <2>2. hi \in thin /\ \A x \in thin : x <= hi
    BY <1>1, HasMax
  <2> HIDE DEF lo, hi
  <2> QED
    BY <1>1, <2>1, <2>2
<1> HIDE DEF lo, hi
<1>3. /\ lo \in 0..last /\ hi \in 0..last
      /\ road[lo].at \in Int /\ road[hi].at \in Int /\ road[n].at \in Int
  BY <1>1, <1>2 DEF IsRoute
<1>4. road[lo].at <= road[n].at /\ road[n].at <= road[hi].at
  <2>1. lo = n \/ lo < n
    BY <1>2, <1>3
  <2>2. hi = n \/ n < hi
    BY <1>2, <1>3
  <2>3. lo < n => road[lo].at < road[n].at
    BY <1>3, RouteRises
  <2>4. n < hi => road[n].at < road[hi].at
    BY <1>3, RouteRises
  <2> QED
    BY <1>3, <2>1, <2>2, <2>3, <2>4
<1>5. /\ first \in 0..last + 1
      /\ \A i \in 0..last : road[i].at < road[lo].at - pad <=> i < first
  <2> DEFINE place == road[lo].at - pad
  <2>1. place \in Int
    BY <1>3
  <2> HIDE DEF place
  <2>2. /\ SearchSorted(road, place) \in 0..last + 1
        /\ \A i \in 0..last : road[i].at < place <=> i < SearchSorted(road, place)
    BY <2>1, SearchIs
  <2> QED
    BY <2>2 DEF place
<1>6. /\ past \in 0..last + 1
      /\ \A i \in 0..last : road[i].at < road[hi].at + pad <=> i < past
  <2> DEFINE place == road[hi].at + pad
  <2>1. place \in Int
    BY <1>3
  <2> HIDE DEF place
  <2>2. /\ SearchSorted(road, place) \in 0..last + 1
        /\ \A i \in 0..last : road[i].at < place <=> i < SearchSorted(road, place)
    BY <2>1, SearchIs
  <2> QED
    BY <2>2 DEF place
<1>7. SlowZone(road, below, pad) = [start |-> first, resume |-> past + 1]
  BY DEF SlowZone, thin, lo, hi
<1> HIDE DEF first, past
<1>8. SlowZone(road, below, pad).start = first /\ SlowZone(road, below, pad).resume = past + 1
  BY <1>7
<1>9. last \in Nat /\ \A p \in 0..last : road[p].at \in Int
  BY DEF IsRoute
<1>10. ASSUME NEW p \in 0..last, road[n].at - pad <= road[p].at PROVE first <= p
  BY <1>3, <1>4, <1>5, <1>9, <1>10
<1>11. ASSUME NEW p \in 0..last, road[p].at < road[n].at + pad PROVE p + 1 < past + 1
  BY <1>3, <1>4, <1>6, <1>9, <1>11
<1>12. past + 1 \in 1..last + 2
  BY <1>6, <1>9
<1> QED
  BY <1>5, <1>8, <1>10, <1>11, <1>12

\* Around a narrow place the zone has the points on both sides, and the one
\* before them when the place is a point or the padding spans two gaps.
LEMMA ZoneCovers ==
    ASSUME NEW road, NEW last, IsRoute(road, last), NEW below \in Int, NEW pad \in Nat, NEW gap \in Nat,
           Spans(road, last, gap), gap <= pad, NEW t \in Int, NEW i, Around(road, last, below, t, i)
    PROVE  /\ InZone(road, below, pad, i)
           /\ InZone(road, below, pad, i + 1)
           /\ (t = road[i].at /\ i > 0) => InZone(road, below, pad, i - 1)
           /\ (2 * gap <= pad /\ i > 0) => InZone(road, below, pad, i - 1)
<1> DEFINE zone == SlowZone(road, below, pad)
<1>1. last \in Nat \ {0} /\ i \in 0..last - 1 /\ i \in 0..last /\ i + 1 \in 0..last
  BY DEF Around, IsRoute
<1>2. /\ road[i].at \in Int /\ road[i + 1].at \in Int /\ road[i].at < road[i + 1].at
      /\ road[i + 1].at - road[i].at <= gap
  BY <1>1 DEF IsRoute, Spans
<1>3. CASE road[i].width < below
  <2>1. /\ zone.start \in 0..last + 1 /\ zone.resume \in 1..last + 2
        /\ \A p \in 0..last : road[i].at - pad <= road[p].at => zone.start <= p
        /\ \A p \in 0..last : road[p].at < road[i].at + pad => p + 1 < zone.resume
    BY <1>1, <1>3, ZoneIs
  <2> HIDE DEF zone
  <2>2. zone.start <= i /\ i + 1 < zone.resume
    BY <1>1, <1>2, <2>1
  <2>3. i > 0 => zone.start <= i - 1
    <3> SUFFICES ASSUME i > 0 PROVE zone.start <= i - 1
      OBVIOUS
    <3>1. i - 1 \in 0..last - 1 /\ i - 1 \in 0..last /\ (i - 1) + 1 = i
      BY <1>1
    <3>2. road[i].at - road[i - 1].at <= gap /\ road[i - 1].at \in Int
      BY <3>1 DEF Spans, IsRoute
    <3> QED
      BY <1>2, <2>1, <3>1, <3>2
  <2> QED
    BY <1>1, <2>1, <2>2, <2>3 DEF InZone, zone
<1>4. CASE ~(road[i].width < below)
  <2>1. road[i + 1].width < below /\ t # road[i].at
    BY <1>4 DEF Around
  <2>2. /\ zone.start \in 0..last + 1 /\ zone.resume \in 1..last + 2
        /\ \A p \in 0..last : road[i + 1].at - pad <= road[p].at => zone.start <= p
        /\ \A p \in 0..last : road[p].at < road[i + 1].at + pad => p + 1 < zone.resume
    BY <1>1, <2>1, ZoneIs
  <2> HIDE DEF zone
  <2>3. zone.start <= i
    BY <1>1, <1>2, <2>2
  <2>4. i + 2 < zone.resume
    BY <1>1, <1>2, <2>2
  <2>5. (2 * gap <= pad /\ i > 0) => zone.start <= i - 1
    <3> SUFFICES ASSUME 2 * gap <= pad, i > 0 PROVE zone.start <= i - 1
      OBVIOUS
    <3>1. i - 1 \in 0..last - 1 /\ i - 1 \in 0..last /\ (i - 1) + 1 = i
      BY <1>1
    <3>2. road[i].at - road[i - 1].at <= gap /\ road[i - 1].at \in Int
      BY <3>1 DEF Spans, IsRoute
    <3> QED
      BY <1>2, <2>2, <3>1, <3>2
  <2> QED
    BY <1>1, <2>1, <2>2, <2>3, <2>4, <2>5 DEF InZone, zone
<1> QED
  BY <1>3, <1>4

-----------------------------------------------------------------------------
(* The samples of a route                                                  *)

\* The line of a route.
PlacesOf(road) == [i \in DOMAIN road |-> road[i].at]

\* It is such a line.
LEMMA PlacesAreLine ==
    ASSUME NEW road, NEW last, IsRoute(road, last)
    PROVE  IsPath(PlacesOf(road), last) /\ \A i \in 0..last : PlacesOf(road)[i] = road[i].at
<1>1. last \in Nat \ {0} /\ DOMAIN road = 0..last
  BY DEF IsRoute
<1>2. \A i \in 0..last : PlacesOf(road)[i] = road[i].at /\ road[i].at \in Int
  BY <1>1 DEF PlacesOf, IsRoute
<1>3. PlacesOf(road) \in [0..last -> Int]
  BY <1>1, <1>2 DEF PlacesOf
<1>4. ASSUME NEW j \in 0..last - 1 PROVE PlacesOf(road)[j] <= PlacesOf(road)[j + 1]
  <2>1. j \in 0..last /\ j + 1 \in 0..last
    BY <1>1
  <2>2. road[j].at < road[j + 1].at
    BY DEF IsRoute
  <2> QED
    BY <1>2, <2>1, <2>2
<1> QED
  BY <1>1, <1>2, <1>3, <1>4 DEF IsPath

\* The samples of a route: from its first point to its last, never back, and when
\* one is past a route point, the one before it is not short of the point before.
Follows(road, last, smoothing, samples, end) ==
    /\ end \in Nat /\ DOMAIN samples = 0..end
    /\ \A s \in 0..end : samples[s] \in 0..road[last].at
    /\ \A s \in 1..end : samples[s - 1] <= samples[s]
    /\ \A s \in 1..end, i \in 0..last - 1 : road[i + 1].at <= samples[s] => road[i].at <= samples[s - 1]
    /\ smoothing = 0 =>
        \A s \in 1..end, i \in 0..last - 1 : road[i].at < samples[s] => road[i].at <= samples[s - 1]

\* centerline_to_lanelet: such are the samples of a route, smoothed or not.
LEMMA SamplesFollow ==
    ASSUME NEW road, NEW last, IsRoute(road, last), NEW smoothing \in Nat, NEW step \in Nat \ {0}
    PROVE  \E end \in Nat : Follows(road, last, smoothing, Samples(PlacesOf(road), smoothing, step), end)
<1> DEFINE line == PlacesOf(road)
           fine == Smooth(line, smoothing)
           samples == Samples(line, smoothing, step)
<1>1. IsPath(line, last) /\ \A i \in 0..last : line[i] = road[i].at
  BY PlacesAreLine
<1> HIDE DEF line
<1>2. Smoother(line, last, fine) /\ (smoothing = 0 => fine = line)
  BY <1>1, IsSmoother
<1>3. samples = Resample(fine, step)
  BY DEF Samples
<1> HIDE DEF fine, samples
<1>4. PICK m \in Nat : IsPath(fine, m) /\ Keeps(line, last, fine, m)
  BY <1>2 DEF Smoother
<1> DEFINE index == Indices(fine, step)
<1>5. Indexed(fine, m, step, index)
  BY <1>4, IndicesAre
<1>6. samples = [x \in 0..index[m] |-> PlaceAt(fine, step, index, x)]
  <2>1. Max(DOMAIN fine) = m
    BY <1>4, LineEnd
  <2> QED
    BY <1>3, <2>1 DEF Resample
<1> HIDE DEF index
<1> DEFINE end == index[m]
<1>7. Threaded(fine, m, index, samples)
  <2>1. Threaded(fine, m, index, [x \in 0..index[m] |-> PlaceAt(fine, step, index, x)])
    BY <1>4, <1>5, SampledIs
  <2> QED
    BY <1>6, <2>1
<1>8. /\ end \in Nat /\ DOMAIN samples = 0..end
      /\ \A s \in 0..end : samples[s] \in Int
      /\ \A s \in 1..end : samples[s - 1] <= samples[s]
  BY <1>7 DEF Threaded
<1>9. ASSUME NEW j \in 0..m, NEW s \in 0..end
      PROVE  index[j] \in Nat /\ (s >= index[j] => fine[j] <= samples[s]) /\ (s <= index[j] => samples[s] <= fine[j])
  BY <1>7 DEF Threaded
<1>10. /\ last \in Nat \ {0} /\ m \in Nat \ {0} /\ index[0] = 0
       /\ \A j \in 0..m : fine[j] \in Int
       /\ \A i \in 0..last : line[i] \in Int
  BY <1>1, <1>4, <1>5 DEF IsPath, Indexed
<1>11. fine[0] = 0 /\ fine[m] = road[last].at /\ road[last].at \in Int
  <2>1. fine[0] = line[0] /\ fine[m] = line[last]
    BY <1>4 DEF Keeps
  <2>2. 0 \in 0..last /\ last \in 0..last /\ road[0].at = 0
    BY <1>10 DEF IsRoute
  <2> QED
    BY <1>1, <1>10, <2>1, <2>2
<1> HIDE DEF end
<1>12. ASSUME NEW s \in 0..end PROVE samples[s] \in 0..road[last].at
  <2>1. 0 \in 0..m /\ m \in 0..m /\ s >= 0 /\ s <= end
    BY <1>8, <1>10
  <2>2. fine[0] <= samples[s] /\ samples[s] <= fine[m]
    BY <1>9, <1>10, <2>1 DEF end
  <2> QED
    BY <1>8, <1>11, <2>2
<1>13. ASSUME NEW s \in 1..end, NEW j \in 0..m, fine[j] < samples[s] PROVE fine[j] <= samples[s - 1]
  <2>1. s \in 0..end /\ s - 1 \in 0..end
    BY <1>8
  <2>2. index[j] \in Nat /\ ~(s <= index[j])
    BY <1>8, <1>9, <1>10, <1>13, <2>1
  <2>3. s - 1 >= index[j]
    BY <2>1, <2>2, <1>8
  <2> QED
    BY <1>9, <2>1, <2>3
<1>14. ASSUME NEW s \in 1..end, NEW i \in 0..last - 1, road[i + 1].at <= samples[s]
       PROVE  road[i].at <= samples[s - 1]
  <2>1. s \in 0..end /\ s - 1 \in 0..end /\ i \in 0..last /\ i + 1 \in 0..last
    BY <1>8, <1>10
  <2>2. line[i] < line[i + 1] /\ line[i] = road[i].at /\ line[i + 1] = road[i + 1].at
    BY <1>1, <2>1 DEF IsRoute
  <2>3. PICK j \in 0..m - 1 : line[i] <= fine[j] /\ (line[i] < line[i + 1] => fine[j] < line[i + 1])
    BY <1>4 DEF Keeps
  <2>4. j \in 0..m /\ fine[j] \in Int /\ line[i] \in Int /\ line[i + 1] \in Int
        /\ samples[s] \in Int /\ samples[s - 1] \in Int
    BY <1>8, <1>10, <2>1
  <2>5. fine[j] < samples[s]
    BY <1>14, <2>2, <2>3, <2>4
  <2>6. fine[j] <= samples[s - 1]
    BY <1>13, <2>4, <2>5
  <2> QED
    BY <2>2, <2>3, <2>4, <2>6
<1>15. ASSUME smoothing = 0, NEW s \in 1..end, NEW i \in 0..last - 1, road[i].at < samples[s]
       PROVE  road[i].at <= samples[s - 1]
  <2>1. m = last
    <3>1. DOMAIN fine = 0..m /\ DOMAIN fine = 0..last
      BY <1>1, <1>2, <1>4, <1>15 DEF IsPath
    <3>2. m \in 0..last /\ last \in 0..m
      BY <1>10, <3>1
    <3> QED
      BY <1>10, <3>2
  <2>2. i \in 0..m /\ fine[i] = road[i].at
    BY <1>1, <1>2, <1>10, <1>15, <2>1
  <2> QED
    BY <1>13, <1>15, <2>2
<1>16. Follows(road, last, smoothing, samples, end)
  BY <1>8, <1>12, <1>14, <1>15 DEF Follows
<1> QED
  BY <1>8, <1>16 DEF samples, line

-----------------------------------------------------------------------------
(* The speed of the lanelets                                               *)

\* A point of the zone has the slow speed: the last tag at or before it is that
\* of the zone's start.
LEMMA ZoneIsSlow ==
    ASSUME NEW road, NEW below, NEW pad, NEW p \in Int,
           SlowZone(road, below, pad).start \in Int, SlowZone(road, below, pad).resume \in Int,
           InZone(road, below, pad, p)
    PROVE  ParsedSpeed(SpeedTags(road, below, pad), p) = "slow"
<1> DEFINE start == SlowZone(road, below, pad).start
           resume == SlowZone(road, below, pad).resume
           tags == SpeedTags(road, below, pad)
           before == {j \in DOMAIN tags : j <= p}
<1>1. /\ start \in Int /\ resume \in Int /\ start <= p /\ p < resume
      /\ tags = [i \in {start, resume} |-> IF i = start THEN "slow" ELSE "normal"]
  BY DEF InZone, SpeedTags
<1>2. ParsedSpeed(tags, p) = IF before = {} THEN "default" ELSE tags[Max(before)]
  BY DEF ParsedSpeed
<1> HIDE DEF start, resume, tags
<1>3. before = {start} /\ tags[start] = "slow"
  BY <1>1
<1>4. Max({start}) = start
  <2>1. IsFiniteSet({start}) /\ {start} \in SUBSET Int
    BY <1>1, FS_Singleton
  <2> QED
    BY <2>1, HasMax
<1> QED
  BY <1>2, <1>3, <1>4 DEF tags

\* From one end of a lanelet to the next the speed is the same.
LEMMA SegmentIsEven ==
    ASSUME NEW last \in Nat, NEW k, NEW speeds, DOMAIN speeds = 0..last,
           NEW ab \in SplitSegments(last, k, Breaks(speeds))
    PROVE  /\ ab[1] \in 0..last /\ ab[2] \in 0..last /\ ab[1] < ab[2]
           /\ \A u \in ab[1]..ab[2] - 1 : speeds[u] = speeds[ab[1]]
<1> DEFINE breaks == Breaks(speeds)
           every == {t \in 0..last - 1 : (t % k) = 0}
           stub == Cardinality(every) > 1 /\ 2 * (last - Max(every)) < k
           even == (IF stub THEN every \ {Max(every)} ELSE every) \cup {last}
           bounds == even \cup (breaks \cap (1..last - 1))
           a == ab[1]
           b == ab[2]
<1>1. ab \in bounds \X bounds /\ a < b /\ \A c \in bounds : c <= a \/ c >= b
  BY DEF SplitSegments
<1>2. bounds \subseteq 0..last
  <2>1. even \subseteq 0..last
    OBVIOUS
  <2>2. \A x \in 1..last - 1 : x \in 0..last
    OBVIOUS
  <2> HIDE DEF even, breaks
  <2>3. ASSUME NEW x \in bounds PROVE x \in even \/ x \in 1..last - 1
    OBVIOUS
  <2> HIDE DEF bounds
  <2> QED
    BY <2>1, <2>2, <2>3
<1>3. a \in 0..last /\ b \in 0..last
  BY <1>1, <1>2
<1>4. \A c \in breaks \cap (1..last - 1) : c <= a \/ c >= b
  BY <1>1
<1> HIDE DEF bounds, even, stub, every
<1>5. ASSUME NEW u \in a + 1..b - 1 PROVE speeds[u] = speeds[u - 1]
  <2>1. u \in 1..last - 1 /\ ~(u <= a) /\ ~(u >= b) /\ u \in DOMAIN speeds \ {0}
    BY <1>3
  <2>2. u \notin breaks
    BY <1>4, <2>1
  <2> QED
    BY <2>1, <2>2 DEF Breaks
<1> HIDE DEF breaks, a, b
<1>6. ASSUME NEW u \in a..b - 1 PROVE speeds[u] = speeds[a]
  <2> DEFINE T == {j \in Nat : a + j < b => speeds[a + j] = speeds[a]}
             n == u - a
  <2>1. n \in Nat /\ a + n = u /\ a + n < b
    BY <1>3
  <2>2. 0 \in T
    BY <1>3
  <2>3. ASSUME NEW j \in 0..n - 1, j \in T PROVE j + 1 \in T
    <3>1. j \in Nat /\ (a + j < b => speeds[a + j] = speeds[a])
      BY <2>3
    <3>2. CASE a + (j + 1) < b
      <4>1. a + (j + 1) \in a + 1..b - 1 /\ (a + (j + 1)) - 1 = a + j /\ a + j < b
        BY <1>3, <3>1, <3>2
      <4>2. speeds[a + (j + 1)] = speeds[(a + (j + 1)) - 1]
        BY <1>5, <4>1
      <4> QED
        BY <3>1, <4>1, <4>2
    <3> QED
      BY <3>1, <3>2
  <2>4. n \in T
    <3> HIDE DEF T, n
    <3> QED
      BY <2>1, <2>2, <2>3, UpTo
  <2> QED
    BY <2>1, <2>4
<1> QED
  BY <1>1, <1>3, <1>6 DEF a, b

\* A place around a narrow one is driven slowly, and one before it, from the point
\* before on, if the narrow place is a point or the padding spans two gaps.
Slows(road, last, gap, pad, t, i, u) ==
    \/ road[i].at <= u /\ u <= t
    \/ /\ i > 0 /\ road[i - 1].at <= u /\ u <= t
       /\ t = road[i].at \/ 2 * gap <= pad

\* The zone makes these places slow.
LEMMA NearNarrowIsSlow ==
    ASSUME NEW road, NEW last, IsRoute(road, last), NEW below \in Int, NEW pad \in Nat, NEW gap \in Nat,
           Spans(road, last, gap), gap <= pad, NEW t \in Int, NEW i, Around(road, last, below, t, i),
           NEW u \in Nat, Slows(road, last, gap, pad, t, i, u)
    PROVE  ParsedSpeed(SpeedTags(road, below, pad), PointBefore(road, u)) = "slow"
<1> DEFINE p == PointBefore(road, u)
           zone == SlowZone(road, below, pad)
<1>1. /\ InZone(road, below, pad, i) /\ InZone(road, below, pad, i + 1)
      /\ (t = road[i].at /\ i > 0) => InZone(road, below, pad, i - 1)
      /\ (2 * gap <= pad /\ i > 0) => InZone(road, below, pad, i - 1)
  BY ZoneCovers
<1>2. /\ last \in Nat \ {0} /\ i \in 0..last - 1 /\ i \in 0..last /\ i + 1 \in 0..last
      /\ road[i].at \in Int /\ road[i + 1].at \in Int /\ t <= road[i + 1].at /\ u \in Int
  <2>1. last \in Nat \ {0} /\ i \in 0..last - 1 /\ i \in 0..last /\ i + 1 \in 0..last
    BY DEF Around, IsRoute
  <2> QED
    BY <2>1 DEF Around, IsRoute
<1>3. p \in 0..last /\ road[p].at <= u /\ \A j \in 0..last : road[j].at <= u => j <= p
  BY BeforeIs
<1>4. zone.start \in Int /\ zone.resume \in Int
  <2>1. PICK n \in 0..last : road[n].width < below
    BY <1>2 DEF Around
  <2>2. zone.start \in 0..last + 1 /\ zone.resume \in 1..last + 2
    BY <2>1, ZoneIs
  <2> HIDE DEF zone
  <2> QED
    BY <2>2
<1> HIDE DEF p
<1>5. p <= i + 1
  <2> SUFFICES ASSUME i + 1 < p PROVE FALSE
    BY <1>2, <1>3
  <2>1. road[i + 1].at < road[p].at /\ road[p].at \in Int
    BY <1>2, <1>3, RouteRises DEF IsRoute
  <2>2. u <= t
    BY DEF Slows
  <2> QED
    BY <1>2, <1>3, <2>1, <2>2
<1>6. CASE road[i].at <= u
  <2>1. i <= p
    BY <1>2, <1>3, <1>6
  <2>2. p = i \/ p = i + 1
    BY <1>2, <1>3, <1>5, <2>1
  <2>3. InZone(road, below, pad, p) /\ p \in Int
    BY <1>1, <1>3, <2>2
  <2>4. ParsedSpeed(SpeedTags(road, below, pad), p) = "slow"
    BY <1>4, <2>3, ZoneIsSlow
  <2> QED
    BY <2>4 DEF p
<1>7. CASE ~(road[i].at <= u)
  <2>1. i > 0 /\ road[i - 1].at <= u /\ (t = road[i].at \/ 2 * gap <= pad)
    BY <1>7 DEF Slows
  <2>2. i - 1 \in 0..last
    BY <1>2, <2>1
  <2>3. i - 1 <= p
    BY <1>3, <2>1, <2>2
  <2>4. p = i - 1 \/ p = i \/ p = i + 1
    BY <1>2, <1>3, <1>5, <2>3
  <2>5. InZone(road, below, pad, p) /\ p \in Int
    BY <1>1, <1>3, <2>1, <2>4
  <2>6. ParsedSpeed(SpeedTags(road, below, pad), p) = "slow"
    BY <1>4, <2>5, ZoneIsSlow
  <2> QED
    BY <2>6 DEF p
<1> QED
  BY <1>6, <1>7

\* What the sample before a narrow one is level with.
LEMMA SampleBeforeSlows ==
    ASSUME NEW road, NEW last, IsRoute(road, last), NEW smoothing \in Nat, NEW samples,
           NEW end \in Nat, Follows(road, last, smoothing, samples, end), NEW s \in 1..end, NEW i
    PROVE  \A below \in Int, gap \in Nat, pad \in Nat :
              (Around(road, last, below, samples[s], i) /\ Enough(pad, gap, smoothing))
                  => Slows(road, last, gap, pad, samples[s], i, samples[s - 1])
<1> SUFFICES ASSUME NEW below \in Int, NEW gap \in Nat, NEW pad \in Nat,
                    Around(road, last, below, samples[s], i), Enough(pad, gap, smoothing)
             PROVE  Slows(road, last, gap, pad, samples[s], i, samples[s - 1])
  OBVIOUS
<1> DEFINE t == samples[s]
           u == samples[s - 1]
<1>1. last \in Nat \ {0} /\ i \in 0..last - 1 /\ i \in 0..last /\ road[i].at <= t
  BY DEF Around, IsRoute
<1>2. s \in 0..end /\ s - 1 \in 0..end
  OBVIOUS
<1>3. /\ t \in 0..road[last].at /\ u \in 0..road[last].at /\ u <= t
      /\ \A k \in 0..last - 1 : road[k + 1].at <= t => road[k].at <= u
      /\ smoothing = 0 => \A k \in 0..last - 1 : road[k].at < t => road[k].at <= u
  BY <1>2 DEF Follows
<1>4. /\ road[i].at \in Int /\ road[last].at \in Int /\ road[0].at = 0
  <2>1. last \in 0..last
    BY <1>1
  <2> QED
    BY <1>1, <2>1 DEF IsRoute
<1>5. t \in Int /\ u \in Int /\ 0 <= u
  BY <1>3, <1>4
<1> HIDE DEF t, u
<1>6. CASE i = 0
  <2>1. road[i].at <= u /\ u <= t
    BY <1>3, <1>4, <1>5, <1>6
  <2> QED
    BY <2>1 DEF Slows, t, u
<1>7. CASE i # 0
  <2>1. i > 0 /\ i - 1 \in 0..last - 1 /\ (i - 1) + 1 = i
    BY <1>1, <1>7
  <2>2. road[i - 1].at <= u
    BY <1>1, <1>3, <2>1
  <2>3. CASE smoothing = 0
    <3>1. road[i].at < t => road[i].at <= u
      BY <1>1, <1>3, <2>3
    <3>2. t = road[i].at \/ road[i].at < t
      BY <1>1, <1>4, <1>5
    <3> QED
      BY <1>3, <2>1, <2>2, <3>1, <3>2 DEF Slows, t, u
  <2>4. CASE smoothing # 0
    <3>1. 2 * gap <= pad
      BY <2>4 DEF Enough
    <3> QED
      BY <1>3, <2>1, <2>2, <3>1 DEF Slows, t, u
  <2> QED
    BY <2>3, <2>4
<1> QED
  BY <1>6, <1>7

\* A route whose gaps the padding spans, and a smoothing of its line.
AskedRoute(road, last, gap, pad, smoothing) ==
    /\ IsRoute(road, last) /\ gap \in Nat /\ pad \in Nat /\ smoothing \in Nat
    /\ Spans(road, last, gap) /\ Enough(pad, gap, smoothing)

\* fit_lane_corridor and centerline_to_lanelet: wherever a straight lane is narrower
\* than the limit it is slow, for every route, limit, smoothing, step and length of
\* lanelet, if the padding spans the gaps of the route, and two of them when its
\* line is smoothed.
THEOREM AnyNarrowIsSlow ==
    ASSUME NEW road, NEW last, NEW gap, NEW pad, NEW smoothing, AskedRoute(road, last, gap, pad, smoothing),
           NEW below \in Int, NEW step \in Nat \ {0}, NEW k
    PROVE  LET samples == Samples([i \in DOMAIN road |-> road[i].at], smoothing, step)
           IN  Slowed(road, below, samples, Lanelets(road, SpeedTags(road, below, pad), samples, k))
<1> DEFINE samples == Samples(PlacesOf(road), smoothing, step)
           speeds == SpeedsAlong(road, SpeedTags(road, below, pad), samples)
           lanes == Lanelets(road, SpeedTags(road, below, pad), samples, k)
<1>1. /\ IsRoute(road, last) /\ gap \in Nat /\ pad \in Nat /\ smoothing \in Nat
      /\ Spans(road, last, gap) /\ Enough(pad, gap, smoothing) /\ gap <= pad
  BY DEF AskedRoute, Enough
<1>2. PICK end \in Nat : Follows(road, last, smoothing, samples, end)
  BY <1>1, SamplesFollow
<1> HIDE DEF samples
<1>3. DOMAIN samples = 0..end /\ (\A s \in 0..end : samples[s] \in 0..road[last].at) /\ road[last].at \in Int
  <2>1. last \in 0..last
    BY <1>1 DEF IsRoute
  <2> QED
    BY <1>1, <1>2, <2>1 DEF Follows, IsRoute
<1>4. Max(DOMAIN samples) = end
  <2> DEFINE S == 0..end
             m == Max(S)
  <2>1. IsFiniteSet(S) /\ S \in SUBSET Int /\ end \in S /\ \A x \in S : x <= end
    BY FS_Interval
  <2> HIDE DEF S
  <2>2. m \in S /\ \A x \in S : x <= m
    BY <2>1, HasMax
  <2> HIDE DEF m
  <2>3. m \in Int /\ m <= end /\ end <= m
    BY <2>1, <2>2
  <2> QED
    BY <1>3, <2>3 DEF m, S
<1> SUFFICES ASSUME NEW s \in 0..end, NarrowAt(road, below, samples[s]), NEW lane \in lanes,
                    lane.from <= s, s <= lane.to
             PROVE  lane.speed = "slow"
  BY <1>3 DEF Slowed, samples, PlacesOf
<1>5. PICK i \in 0..last - 1 : Around(road, last, below, samples[s], i)
  BY <1>1, <1>3, NarrowLies
<1>6. PICK seg \in SplitSegments(end, k, Breaks(speeds)) :
          lane = [from |-> seg[1], to |-> seg[2], speed |-> speeds[seg[1]]]
  BY <1>4 DEF Lanelets
<1>7. DOMAIN speeds = 0..end
      /\ \A u \in 0..end : speeds[u] = ParsedSpeed(SpeedTags(road, below, pad), PointBefore(road, samples[u]))
  BY <1>3 DEF SpeedsAlong
<1> HIDE DEF speeds, lanes
<1>8. ASSUME NEW u \in 0..end, Slows(road, last, gap, pad, samples[s], i, samples[u]) PROVE speeds[u] = "slow"
  <2>1. samples[u] \in Nat /\ samples[s] \in Int
    BY <1>3
  <2>2. ParsedSpeed(SpeedTags(road, below, pad), PointBefore(road, samples[u])) = "slow"
    BY <1>1, <1>5, <1>8, <2>1, NearNarrowIsSlow
  <2> QED
    BY <1>7, <2>2
<1> DEFINE a == seg[1]
           b == seg[2]
<1>9. /\ a \in 0..end /\ b \in 0..end /\ a < b
      /\ \A u \in a..b - 1 : speeds[u] = speeds[a]
  BY <1>6, <1>7, SegmentIsEven
<1>10. lane.from = a /\ lane.to = b /\ lane.speed = speeds[a]
  BY <1>6
<1> HIDE DEF a, b
<1>11. CASE s < b
  <2>1. Slows(road, last, gap, pad, samples[s], i, samples[s])
    BY <1>1, <1>3, <1>5 DEF Slows, Around
  <2>2. speeds[s] = "slow" /\ s \in a..b - 1
    BY <1>8, <1>9, <1>10, <1>11, <2>1
  <2> QED
    BY <1>9, <1>10, <2>2
<1>12. CASE s = b
  <2>1. s - 1 \in a..b - 1 /\ s - 1 \in 0..end /\ s \in 1..end
    BY <1>9, <1>10, <1>12
  <2>2. Slows(road, last, gap, pad, samples[s], i, samples[s - 1])
    BY <1>1, <1>2, <1>5, <2>1, SampleBeforeSlows
  <2>3. speeds[s - 1] = "slow"
    BY <1>8, <2>1, <2>2
  <2> QED
    BY <1>9, <1>10, <2>1, <2>3
<1> QED
  BY <1>9, <1>10, <1>11, <1>12

\* What a route job asks for.
RouteJob == job.tool = "route" =>
    \E last : /\ IsRoute(job.route, last) /\ Spans(job.route, last, job.gap)
              /\ job.gap \in Nat /\ job.pad \in Nat /\ job.smoothing \in Nat
              /\ job.samples = Samples([i \in DOMAIN job.route |-> job.route[i].at], job.smoothing, UNIT)

\* The routes of the jobs.
LEMMA RisingIsRoute ==
    ASSUME NEW n \in 3..4, NEW at \in Rising(n), NEW widths \in [0..n -> {1, 2}]
    PROVE  /\ IsRoute(Road(n, at, widths), n)
           /\ [i \in DOMAIN Road(n, at, widths) |-> Road(n, at, widths)[i].at] = [i \in 0..n |-> UNIT * at[i]]
<1> DEFINE road == Road(n, at, widths)
<1>1. /\ n \in Nat \ {0} /\ at[0] = 0 /\ \A i \in 0..n : at[i] \in Nat
      /\ \A i \in 1..n : at[i] - at[i - 1] \in {1, 2}
  BY DEF Rising
<1>2. DOMAIN road = 0..n /\ \A i \in 0..n : road[i].at = UNIT * at[i] /\ road[i].width = widths[i]
  BY DEF Road
<1>3. \A i \in 0..n : widths[i] \in Int
  OBVIOUS
<1>4. ASSUME NEW i \in 0..n - 1 PROVE i \in 0..n /\ i + 1 \in 0..n /\ UNIT * at[i] < UNIT * at[i + 1]
  <2>1. i + 1 \in 1..n /\ (i + 1) - 1 = i /\ i \in 0..n /\ i + 1 \in 0..n
    BY <1>1
  <2>2. at[i + 1] - at[i] \in {1, 2}
    BY <1>1, <2>1
  <2>3. UNIT * at[i] < UNIT * at[i + 1]
    BY <1>1, <2>1, <2>2 DEF UNIT
  <2> QED
    BY <2>1, <2>3
<1>5. 0 \in 0..n
  BY <1>1
<1> HIDE DEF road
<1>6. /\ \A i \in 0..n : road[i].at \in Int /\ road[i].width \in Int
      /\ road[0].at = 0
      /\ \A i \in 0..n - 1 : road[i].at < road[i + 1].at
  <2>1. \A i \in 0..n : road[i].at \in Int /\ road[i].width \in Int
    BY <1>1, <1>2, <1>3 DEF UNIT
  <2>2. road[0].at = 0
    BY <1>1, <1>2, <1>5 DEF UNIT
  <2>3. ASSUME NEW i \in 0..n - 1 PROVE road[i].at < road[i + 1].at
    BY <1>2, <1>4
  <2> QED
    BY <2>1, <2>2, <2>3
<1>7. IsRoute(road, n)
  BY <1>1, <1>2, <1>6 DEF IsRoute
<1>8. [i \in DOMAIN road |-> road[i].at] = [i \in 0..n |-> UNIT * at[i]]
  BY <1>2
<1> QED
  BY <1>7, <1>8 DEF road

\* The padding spans the gaps of a route if it spans the largest.
LEMMA RisingSpans ==
    ASSUME NEW n \in 3..4, NEW at \in Rising(n), NEW widths \in [0..n -> {1, 2}]
    PROVE  LET most == UNIT * Max({at[i] - at[i - 1] : i \in 1..n})
           IN  most \in Nat /\ Spans(Road(n, at, widths), n, most)
<1> DEFINE gaps == {at[i] - at[i - 1] : i \in 1..n}
           road == Road(n, at, widths)
           most == Max(gaps)
<1>1. n \in Nat \ {0} /\ gaps \subseteq {1, 2}
  <2>1. n \in Nat \ {0}
    OBVIOUS
  <2>2. \A i \in 1..n : at[i] - at[i - 1] \in {1, 2}
    BY Zenon DEF Rising
  <2> QED
    BY <2>1, <2>2, Zenon
<1>2. at[1] - at[1 - 1] \in gaps
  BY <1>1
<1>3. IsFiniteSet({1, 2})
  <2>1. IsFiniteSet({1}) /\ {1, 2} = {1} \cup {2}
    BY FS_Singleton
  <2> QED
    BY <2>1, FS_AddElement
<1>4. ASSUME NEW i \in 0..n - 1
      PROVE  \E g \in gaps : road[i + 1].at - road[i].at = UNIT * g
  <2>1. i + 1 \in 1..n /\ (i + 1) - 1 = i /\ i \in 0..n /\ i + 1 \in 0..n
    BY <1>1
  <2>2. road[i + 1].at = UNIT * at[i + 1] /\ road[i].at = UNIT * at[i]
    BY <2>1 DEF Road
  <2>3. at[i + 1] - at[i] \in gaps
    <3>1. at[i + 1] - at[(i + 1) - 1] \in gaps
      BY <2>1
    <3> QED
      BY <2>1, <3>1
  <2>4. at[i] \in Nat /\ at[i + 1] \in Nat
    BY <2>1 DEF Rising
  <2>5. UNIT * at[i + 1] - UNIT * at[i] = UNIT * (at[i + 1] - at[i])
    BY <2>4 DEF UNIT
  <2> QED
    BY <2>2, <2>3, <2>5
<1> HIDE DEF gaps, road
<1>5. most \in gaps /\ \A x \in gaps : x <= most
  <2>1. IsFiniteSet(gaps)
    BY <1>1, <1>3, FS_Subset
  <2>2. gaps \in SUBSET Int /\ gaps # {}
    BY <1>1, <1>2
  <2> QED
    BY <2>1, <2>2, HasMax
<1> HIDE DEF most
<1>6. most \in {1, 2} /\ UNIT * most \in Nat
  <2>1. most \in {1, 2}
    BY <1>1, <1>5
  <2> QED
    BY <2>1 DEF UNIT
<1>7. ASSUME NEW i \in 0..n - 1 PROVE road[i + 1].at - road[i].at <= UNIT * most
  <2>1. PICK g \in gaps : road[i + 1].at - road[i].at = UNIT * g
    BY <1>4
  <2>2. g \in {1, 2} /\ g <= most
    BY <1>1, <1>5
  <2>3. UNIT * g <= UNIT * most
    BY <1>6, <2>2 DEF UNIT
  <2> QED
    BY <2>1, <2>3
<1> QED
  BY <1>6, <1>7 DEF Spans, road, most, gaps

\* A route job.
RouteOf(n, smoothing, at, samples, widths, pad, k) ==
    job = [tool |-> "route", route |-> Road(n, at, widths), pad |-> UNIT * pad,
           gap |-> UNIT * Max({at[i] - at[i - 1] : i \in 1..n}),
           smoothing |-> smoothing, samples |-> samples, k |-> k]

\* Every route job asks for a route.
LEMMA RouteJobs == JobRoute => job.tool = "route" /\ RouteJob
<1> SUFFICES ASSUME JobRoute PROVE job.tool = "route" /\ RouteJob
  OBVIOUS
<1>a. PICK n \in 3..4, smoothing \in {0, 2} : \E at \in Rising(n) : \E samples \in SampledAt(n, at, smoothing) :
        \E widths \in [0..n -> {1, 2}], pad \in {1, 2, 4}, k \in 1..3 :
        /\ pad \in IF smoothing = 0 THEN {1, 2} ELSE {2, 4}
        /\ RouteOf(n, smoothing, at, samples, widths, pad, k)
  BY Zenon DEF JobRoute, RouteOf
<1>b. PICK at \in Rising(n) : \E samples \in SampledAt(n, at, smoothing) :
        \E widths \in [0..n -> {1, 2}], pad \in {1, 2, 4}, k \in 1..3 :
           RouteOf(n, smoothing, at, samples, widths, pad, k)
  BY <1>a, Zenon
<1>c. PICK samples \in SampledAt(n, at, smoothing) :
        \E widths \in [0..n -> {1, 2}], pad \in {1, 2, 4}, k \in 1..3 :
           RouteOf(n, smoothing, at, samples, widths, pad, k)
  BY <1>b, Zenon
<1>d. PICK widths \in [0..n -> {1, 2}] : \E pad \in {1, 2, 4}, k \in 1..3 :
           RouteOf(n, smoothing, at, samples, widths, pad, k)
  BY <1>c, Zenon
<1> DEFINE most == UNIT * Max({at[i] - at[i - 1] : i \in 1..n})
           road == Road(n, at, widths)
<1>1. PICK pad \in {1, 2, 4} :
        /\ job.tool = "route" /\ job.pad = UNIT * pad /\ job.route = road /\ job.gap = most
        /\ job.smoothing = smoothing /\ job.samples = samples
  BY <1>d DEF RouteOf
<1>2. IsRoute(road, n) /\ [i \in DOMAIN road |-> road[i].at] = [i \in 0..n |-> UNIT * at[i]]
  BY RisingIsRoute
<1>3. most \in Nat /\ Spans(road, n, most)
  BY RisingSpans
<1>4. samples = Samples([i \in 0..n |-> UNIT * at[i]], smoothing, UNIT)
  BY DEF SampledAt
<1>5. UNIT * pad \in Nat /\ smoothing \in Nat
  BY DEF UNIT
<1> HIDE DEF most, road
<1>6. samples = Samples([i \in DOMAIN road |-> road[i].at], smoothing, UNIT)
  BY <1>2, <1>4
<1> QED
  BY <1>1, <1>2, <1>3, <1>5, <1>6 DEF RouteJob

\* fit_lane_corridor and centerline_to_lanelet: every route of the run is slow
\* where it is narrow.
THEOREM RouteInRun == Spec => []SlowWhereNarrow
<1> DEFINE Inv == RouteJob /\ Ran("route", RouteResult(job))
<1>1. Init => Inv
  BY JobsOfOthers, JobsProved, RouteJobs DEF Init, Ran, RouteJob
<1>2. Inv /\ [Next]_vars => Inv'
  BY JobStays, RunsOnce DEF RouteJob
<1>3. Inv => SlowWhereNarrow
  <2> SUFFICES ASSUME Inv, Did("route"), Enough(job.pad, job.gap, job.smoothing)
               PROVE  Slowed(job.route, BELOW, job.samples, out)
    BY DEF SlowWhereNarrow
  <2> DEFINE road == job.route
             pad == job.pad
             gap == job.gap
             smoothing == job.smoothing
             samples == job.samples
             below == BELOW
             k == job.k
  <2>1. out = IF WritesRoute(road, below, pad) THEN Lanelets(road, SpeedTags(road, below, pad), samples, k) ELSE {}
    BY DEF Did, Ran, RouteResult
  <2>2. PICK last : /\ IsRoute(road, last) /\ Spans(road, last, gap)
                    /\ gap \in Nat /\ pad \in Nat /\ smoothing \in Nat
                    /\ samples = Samples([i \in DOMAIN road |-> road[i].at], smoothing, UNIT)
    BY DEF Did, RouteJob
  <2>3. below \in Int /\ UNIT \in Nat \ {0} /\ Enough(pad, gap, smoothing)
    BY DEF BELOW, UNIT
  <2> HIDE DEF road, pad, gap, smoothing, samples, below, k
  <2>4. AskedRoute(road, last, gap, pad, smoothing)
    BY <2>2, <2>3 DEF AskedRoute
  <2>5. Slowed(road, below, samples, Lanelets(road, SpeedTags(road, below, pad), samples, k))
    <3> DEFINE sampled == Samples([i \in DOMAIN road |-> road[i].at], smoothing, UNIT)
    <3>1. Slowed(road, below, sampled, Lanelets(road, SpeedTags(road, below, pad), sampled, k))
      BY <2>3, <2>4, AnyNarrowIsSlow
    <3> HIDE DEF sampled
    <3>2. samples = sampled
      BY <2>2 DEF sampled
    <3> QED
      BY <3>1, <3>2
  <2>6. Slowed(road, below, samples, {})
    BY DEF Slowed
  <2>7. Slowed(road, below, samples, out)
    BY <2>1, <2>5, <2>6
  <2> QED
    BY <2>7 DEF road, samples, below
<1> QED
  BY <1>1, <1>2, <1>3, PTL DEF Spec

-----------------------------------------------------------------------------
(* fit_lane_corridor: the rays                                             *)

\* A ray as it is cut into samples.
LEMMA Cells8 ==
    ASSUME NEW p \in Int, NEW c \in Int
    PROVE  p \div Cell = c <=> 8 * c <= p /\ p <= 8 * c + 7
  BY DEF Cell

\* What a ray that is free so far tells of the cells it meets.
ReachesTo(occ, place, side, free) ==
    /\ free \in 0..Reach /\ (free % Step) = 0
    /\ \A r \in 0..Reach : r < free /\ (r % Step) = 0 => (place + side * r) \div Cell \notin occ
    /\ free = 0 => place \div Cell \in occ

\* The larger and the smaller of two.
LEMMA PairMax ==
    ASSUME NEW x \in Int, NEW y \in Int
    PROVE  /\ Max({x, y}) \in {x, y} /\ Max({x, y}) \in Int /\ x <= Max({x, y}) /\ y <= Max({x, y})
           /\ Min({x, y}) \in {x, y} /\ Min({x, y}) \in Int /\ Min({x, y}) <= x /\ Min({x, y}) <= y
<1> DEFINE two == {x, y}
<1>1. two \in SUBSET Int /\ two # {} /\ x \in two /\ y \in two
  OBVIOUS
<1>2. IsFiniteSet(two)
  <2>1. IsFiniteSet({x}) /\ two = {x} \cup {y}
    BY FS_Singleton
  <2> HIDE DEF two
  <2> QED
    BY <2>1, FS_AddElement
<1>3. Max(two) \in two /\ Min(two) \in two /\ \A z \in two : z <= Max(two) /\ Min(two) <= z
  <2> HIDE DEF two
  <2> QED
    BY <1>1, <1>2, HasMax, HasMin
<1> QED
  BY <1>1, <1>3

\* free_space, of the ray: it ends at the first sample in an occupied cell.
LEMMA RayReaches ==
    ASSUME NEW occ, NEW place \in Int, NEW side \in {-1, 1}
    PROVE  ReachesTo(occ, place, side, FreeSpace(occ, place, side))
<1> DEFINE hit == {r \in 0..Reach : (r % Step) = 0 /\ (place + side * r) \div Cell \in occ}
           free == FreeSpace(occ, place, side)
<1>1. CASE hit = {}
  <2>1. free = Reach
    BY <1>1 DEF FreeSpace
  <2>2. Reach \in 0..Reach /\ (Reach % Step) = 0 /\ Reach # 0
    BY DEF Reach, Step
  <2>3. \A r \in 0..Reach : (r % Step) = 0 => (place + side * r) \div Cell \notin occ
    BY <1>1
  <2> HIDE DEF free, hit
  <2>4. ReachesTo(occ, place, side, free)
    BY <2>1, <2>2, <2>3 DEF ReachesTo
  <2> QED
    BY <2>4 DEF free
<1>2. CASE hit # {}
  <2>1. free = Min(hit)
    BY <1>2 DEF FreeSpace
  <2>2. hit \in SUBSET Int /\ IsFiniteSet(hit)
    <3>1. 0 \in Int /\ Reach \in Int
      BY DEF Reach
    <3>2. IsFiniteSet(0..Reach) /\ hit \in SUBSET (0..Reach)
      BY <3>1, FS_Interval
    <3>3. hit \in SUBSET Int
      BY <3>1, <3>2
    <3> HIDE DEF hit
    <3> QED
      BY <3>2, <3>3, FS_Subset
  <2>3. Min(hit) \in hit /\ \A r \in hit : Min(hit) <= r
    <3> HIDE DEF hit
    <3> QED
      BY <1>2, <2>2, HasMin
  <2>4. free \in hit /\ \A r \in hit : free <= r
    <3> HIDE DEF hit, free
    <3> QED
      BY <2>1, <2>3
  <2>5. free \in 0..Reach /\ free % Step = 0 /\ (place + side * free) \div Cell \in occ
    BY <2>4
  <2>6. ASSUME NEW r \in 0..Reach, r < free, r % Step = 0 PROVE (place + side * r) \div Cell \notin occ
    <3>1. r \notin hit
      <4> HIDE DEF hit, free
      <4> QED
        BY <2>4, <2>5, <2>6 DEF Reach
    <3> QED
      BY <2>6, <3>1
  <2>7. free = 0 => place \div Cell \in occ
    <3>1. free = 0 => place + side * free = place
      <4> HIDE DEF free
      <4> QED
        OBVIOUS
    <3> HIDE DEF free
    <3> QED
      BY <2>5, <3>1
  <2> HIDE DEF free
  <2>8. ReachesTo(occ, place, side, free)
    BY <2>5, <2>6, <2>7 DEF ReachesTo
  <2> QED
    BY <2>8 DEF free
<1> QED
  BY <1>1, <1>2

\* Between the obstacles on either side of a place, the rays tell them apart.
LEMMA RaysAreClear ==
    ASSUME NEW occ \in SUBSET Int, NEW place \in Int, NEW c \in occ,
           FreeSpace(occ, place, 1) + FreeSpace(occ, place, -1) > 0
    PROVE  \/ 8 * c >= place + FreeSpace(occ, place, 1) - 1
           \/ 8 * (c + 1) <= place - FreeSpace(occ, place, -1) + 2
<1> DEFINE up == FreeSpace(occ, place, 1)
           down == FreeSpace(occ, place, -1)
<1>1. /\ up \in 0..40 /\ up % 2 = 0
      /\ \A r \in 0..40 : r < up /\ r % 2 = 0 => (place + r) \div Cell \notin occ
      /\ up = 0 => place \div Cell \in occ
  <2>1. 1 \in {-1, 1} /\ \A r \in 0..40 : place + 1 * r = place + r
    OBVIOUS
  <2> QED
    BY <2>1, RayReaches DEF Reach, Step, ReachesTo
<1>2. /\ down \in 0..40 /\ down % 2 = 0
      /\ \A r \in 0..40 : r < down /\ r % 2 = 0 => (place - r) \div Cell \notin occ
      /\ down = 0 => place \div Cell \in occ
  <2>1. -1 \in {-1, 1} /\ \A r \in 0..40 : place + (-1) * r = place - r
    OBVIOUS
  <2> QED
    BY <2>1, RayReaches DEF Reach, Step, ReachesTo
<1>3. up + down > 0
  OBVIOUS
<1> HIDE DEF up, down
<1>4. c \in Int /\ (8 * c >= place + up - 1 \/ 8 * (c + 1) <= place - down + 2)
  <2> SUFFICES ASSUME 8 * c < place + up - 1, 8 * (c + 1) > place - down + 2 PROVE FALSE
    BY <1>1, <1>2
  <2>1. up > 0 /\ down > 0
    <3>1. place \div Cell \notin occ
      <4>1. up > 0 => (place + 0) \div Cell \notin occ
        BY <1>1
      <4>2. down > 0 => (place - 0) \div Cell \notin occ
        BY <1>2
      <4>3. place + 0 = place /\ place - 0 = place /\ (up > 0 \/ down > 0)
        BY <1>1, <1>2, <1>3
      <4> QED
        BY <4>1, <4>2, <4>3
    <3> QED
      BY <1>1, <1>2, <3>1
  <2>2. CASE place < 8 * c
    <3> DEFINE gap == 8 * c - place
               r == IF gap % 2 = 0 THEN gap ELSE gap + 1
    <3>1. r \in 0..40 /\ r < up /\ r % 2 = 0 /\ 8 * c <= place + r /\ place + r <= 8 * c + 7
      BY <1>1, <2>2
    <3> HIDE DEF r
    <3>2. (place + r) \div Cell = c
      BY <3>1, Cells8
    <3> QED
      BY <1>1, <3>1, <3>2
  <2>3. CASE place >= 8 * c /\ place <= 8 * c + 7
    <3>1. place \div Cell = c /\ place + 0 = place
      BY <2>3, Cells8
    <3>2. (place + 0) \div Cell \notin occ
      BY <1>1, <2>1
    <3> QED
      BY <3>1, <3>2
  <2>4. CASE place > 8 * c + 7
    <3> DEFINE gap == place - 8 * c - 7
               r == IF gap % 2 = 0 THEN gap ELSE gap + 1
    <3>1. r \in 0..40 /\ r < down /\ r % 2 = 0 /\ 8 * c <= place - r /\ place - r <= 8 * c + 7
      BY <1>2, <2>4
    <3> HIDE DEF r
    <3>2. (place - r) \div Cell = c
      BY <3>1, Cells8
    <3> QED
      BY <1>2, <3>1, <3>2
  <2> QED
    BY <2>2, <2>3, <2>4
<1> QED
  BY <1>4 DEF up, down

\* check_lane_clearance passes a lane from which every obstacle is that far.
LEMMA ApartPasses ==
    ASSUME NEW lane, lane.low \in Int, lane.high \in Int, lane.low <= lane.high,
           NEW occ \in SUBSET Int, NEW least \in Nat \ {0}, \A c \in occ : Apart(lane, c, least)
    PROVE  CheckPasses(lane, occ, least)
<1> SUFFICES ASSUME NEW c \in occ
             PROVE  ~CellInside(lane, c) /\ Clearance(lane, c) >= least /\ Clearance(lane, c) > 0
  BY DEF CheckPasses
<1> DEFINE low == lane.low
           high == lane.high
<1>1. low \in Int /\ high \in Int /\ low <= high /\ c \in Int
  OBVIOUS
<1>2. 8 * c >= high + least \/ 8 * (c + 1) <= low - least
  BY DEF Apart, Cell
<1>3. ~CellInside(lane, c)
  <2>1. CellInside(lane, c) <=> low < 8 * c + 4 /\ 8 * c + 4 < high
    <3>1. 8 \div 2 = 4
      OBVIOUS
    <3> QED
      BY <3>1 DEF CellInside, Cell
  <2> HIDE DEF low, high
  <2> QED
    BY <1>1, <1>2, <2>1
<1>4. ASSUME NEW edge \in {low, high} PROVE SquareToEdge(c, edge) \in Int /\ SquareToEdge(c, edge) >= least
  <2>1. edge \in Int /\ 8 * c - edge \in Int /\ edge - 8 * (c + 1) \in Int
    BY <1>1, <1>4
  <2> DEFINE far == Max({8 * c - edge, edge - 8 * (c + 1)})
  <2>2. far \in Int /\ 8 * c - edge <= far /\ edge - 8 * (c + 1) <= far
    BY <2>1, PairMax
  <2>3. SquareToEdge(c, edge) = Max({0, far})
    BY DEF SquareToEdge, Cell
  <2>4. 8 * c - edge >= least \/ edge - 8 * (c + 1) >= least
    <3> HIDE DEF low, high, far
    <3> QED
      BY <1>1, <1>2, <1>4
  <2> HIDE DEF far, low, high
  <2>5. Max({0, far}) \in Int /\ far <= Max({0, far})
    <3>1. 0 \in Int
      OBVIOUS
    <3> QED
      BY <2>2, <3>1, PairMax, Zenon
  <2> QED
    BY <1>1, <2>1, <2>2, <2>3, <2>4, <2>5
<1>5. Clearance(lane, c) \in Int /\ Clearance(lane, c) >= least
  <2> DEFINE x == SquareToEdge(c, low)
             y == SquareToEdge(c, high)
  <2>1. x \in Int /\ y \in Int /\ x >= least /\ y >= least
    BY <1>4
  <2>2. Clearance(lane, c) = Min({x, y})
    BY DEF Clearance
  <2> HIDE DEF x, y
  <2>3. Min({x, y}) \in {x, y}
    BY <2>1, PairMax
  <2> QED
    BY <2>1, <2>2, <2>3
<1> QED
  BY <1>3, <1>5

-----------------------------------------------------------------------------
(* fit_lane_corridor: the margins                                          *)

\* The stations of a route through the aisle, and what a profile has.
RouteStations == [x : Int, forward : BOOLEAN, aisle : {TRUE}, place : Int]

IsPinch(pinch, fit) ==
    /\ pinch.lo \in Int /\ pinch.hi \in Int /\ pinch.pad \in Nat /\ pinch.ease \in Nat \ {0}
    /\ pinch.width \in Int /\ fit.min_width <= pinch.width
    /\ pinch.edge_margin \in SUBSET Int /\ IsFiniteSet(pinch.edge_margin) /\ IsFiniteSet(pinch.body)
    /\ \A body \in pinch.body :
        /\ body.low \in Int /\ body.high \in Int /\ body.margin \in Int
        /\ body.low + fit.cart.half + body.margin <= body.high - fit.cart.half - body.margin

IsMask(o) ==
    /\ o.at_least \in SUBSET Int /\ IsFiniteSet(o.at_least)
    /\ o.at_most \in SUBSET Int /\ IsFiniteSet(o.at_most)

IsFit(fit) ==
    /\ fit.width \in Int /\ fit.min_width \in Nat /\ fit.margin \in Int
    /\ fit.cart.rear \in Nat /\ fit.cart.front \in Nat /\ fit.cart.half \in Nat
    /\ Len(fit.margins) \in Nat /\ DOMAIN fit.margins = 1..Len(fit.margins)
    /\ \A k \in DOMAIN fit.margins : IsMask(fit.margins[k])
    /\ \A pinch \in fit.pinch : IsPinch(pinch, fit) /\ fit.pinch = {pinch}

\* There is one pinch or none.
LEMMA OnePinch == ASSUME NEW fit, IsFit(fit) PROVE IsFiniteSet(fit.pinch)
<1>1. CASE fit.pinch = {}
  BY <1>1, FS_EmptySet
<1>2. CASE fit.pinch # {}
  <2>1. PICK pinch : fit.pinch = {pinch}
    BY <1>2 DEF IsFit
  <2> QED
    BY <2>1, FS_Singleton
<1> QED
  BY <1>1, <1>2

\* The least margin is one that the profile names, and none is less.
LEMMA LeastIs ==
    ASSUME NEW fit, IsFit(fit)
    PROVE  /\ LeastMargin(fit) \in Int /\ LeastMargin(fit) <= fit.margin
           /\ \A k \in DOMAIN fit.margins : \A most \in fit.margins[k].at_most : LeastMargin(fit) <= most
           /\ \A pinch \in fit.pinch : \A most \in pinch.edge_margin : LeastMargin(fit) <= most
           /\ \/ LeastMargin(fit) = fit.margin
              \/ \E k \in DOMAIN fit.margins : LeastMargin(fit) \in fit.margins[k].at_most
              \/ \E pinch \in fit.pinch : LeastMargin(fit) \in pinch.edge_margin
<1> DEFINE masks == {fit.margins[k].at_most : k \in DOMAIN fit.margins}
           caps == {pinch.edge_margin : pinch \in fit.pinch}
           all == {fit.margin} \cup (UNION masks) \cup (UNION caps)
<1>1. IsFiniteSet(UNION masks)
  <2>1. IsFiniteSet(masks)
    <3> DEFINE f == [k \in DOMAIN fit.margins |-> fit.margins[k].at_most]
    <3>1. f \in Surjection(DOMAIN fit.margins, masks)
      BY DEF Surjection
    <3>2. IsFiniteSet(DOMAIN fit.margins)
      <4>1. 1 \in Int /\ Len(fit.margins) \in Int /\ DOMAIN fit.margins = 1..Len(fit.margins)
        BY DEF IsFit
      <4> QED
        BY <4>1, FS_Interval
    <3> HIDE DEF f, masks
    <3> QED
      BY <3>1, <3>2, FS_Surjection
  <2>2. \A S \in masks : IsFiniteSet(S)
    BY DEF IsFit, IsMask
  <2> HIDE DEF masks
  <2> QED
    BY <2>1, <2>2, FS_UNION
<1>2. IsFiniteSet(UNION caps)
  <2>1. IsFiniteSet(caps)
    <3> DEFINE f == [pinch \in fit.pinch |-> pinch.edge_margin]
    <3>1. f \in Surjection(fit.pinch, caps)
      BY DEF Surjection
    <3>2. IsFiniteSet(fit.pinch)
      BY OnePinch
    <3> HIDE DEF f, caps
    <3> QED
      BY <3>1, <3>2, FS_Surjection
  <2>2. \A S \in caps : IsFiniteSet(S)
    BY DEF IsFit, IsPinch
  <2> HIDE DEF caps
  <2> QED
    BY <2>1, <2>2, FS_UNION
<1>3. IsFiniteSet(all)
  <2> HIDE DEF masks, caps
  <2>1. IsFiniteSet({fit.margin})
    BY FS_Singleton
  <2>2. IsFiniteSet({fit.margin} \cup (UNION masks))
    BY <1>1, <2>1, FS_Union
  <2> QED
    BY <1>2, <2>2, FS_Union
<1>4. all \in SUBSET Int /\ all # {}
  <2>1. masks \in SUBSET SUBSET Int
    BY DEF IsFit, IsMask
  <2>2. caps \in SUBSET SUBSET Int
    BY DEF IsFit, IsPinch
  <2>3. fit.margin \in Int
    BY DEF IsFit
  <2> HIDE DEF masks, caps
  <2> QED
    BY <2>1, <2>2, <2>3
<1>5. LeastMargin(fit) = Min(all)
  BY DEF LeastMargin
<1>6. Min(all) \in all /\ \A x \in all : Min(all) <= x
  <2> HIDE DEF all
  <2> QED
    BY <1>3, <1>4, HasMin
<1>7. fit.margin \in all
  OBVIOUS
<1>8. \A k \in DOMAIN fit.margins : \A most \in fit.margins[k].at_most : most \in all
  OBVIOUS
<1>9. \A pinch \in fit.pinch : \A most \in pinch.edge_margin : most \in all
  OBVIOUS
<1>10. \A x \in all :
        \/ x = fit.margin
        \/ \E k \in DOMAIN fit.margins : x \in fit.margins[k].at_most
        \/ \E pinch \in fit.pinch : x \in pinch.edge_margin
  OBVIOUS
<1> HIDE DEF all
<1> QED
  BY <1>4, <1>5, <1>6, <1>7, <1>8, <1>9, <1>10

\* The smallest of one number and some others.
LEMMA WithLeast ==
    ASSUME NEW x \in Int, NEW S \in SUBSET Int, IsFiniteSet(S)
    PROVE  /\ Min({x} \cup S) \in {x} \cup S /\ Min({x} \cup S) \in Int
           /\ Min({x} \cup S) <= x /\ \A y \in S : Min({x} \cup S) <= y
           /\ Max({x} \cup S) \in {x} \cup S /\ Max({x} \cup S) \in Int
           /\ x <= Max({x} \cup S) /\ \A y \in S : y <= Max({x} \cup S)
<1> DEFINE all == {x} \cup S
<1>1. all \in SUBSET Int /\ all # {} /\ x \in all /\ S \subseteq all
  OBVIOUS
<1>2. IsFiniteSet(all)
  <2>1. IsFiniteSet({x})
    BY FS_Singleton
  <2> QED
    BY <2>1, FS_Union
<1>3. Max(all) \in all /\ Min(all) \in all /\ \A z \in all : z <= Max(all) /\ Min(all) <= z
  <2> HIDE DEF all
  <2> QED
    BY <1>1, <1>2, HasMax, HasMin
<1> QED
  BY <1>1, <1>3

\* One override leaves a margin at least what all of them do.
Raised(fit, mg, o) == IF o.at_least = {} THEN mg ELSE Max(o.at_least \cup {fit.margin})
\* One override of the margin.
Overridden(fit, station, mg, o) ==
    IF station.x \in o.where THEN Min({Raised(fit, mg, o)} \cup o.at_most) ELSE mg

\* No override takes the margin below the least.
LEMMA MaskKeeps ==
    ASSUME NEW fit, IsFit(fit), NEW station, NEW k \in DOMAIN fit.margins,
           NEW mg \in Int, LeastMargin(fit) <= mg
    PROVE  /\ Overridden(fit, station, mg, fit.margins[k]) \in Int
           /\ LeastMargin(fit) <= Overridden(fit, station, mg, fit.margins[k])
<1> DEFINE o == fit.margins[k]
           raised == Raised(fit, mg, o)
           least == LeastMargin(fit)
<1>1. IsMask(o) /\ fit.margin \in Int
  BY DEF IsFit
<1>2. least \in Int /\ least <= fit.margin /\ \A most \in o.at_most : least <= most
  BY LeastIs
<1>3. raised \in Int /\ least <= raised
  <2>1. CASE o.at_least = {}
    BY <2>1 DEF Raised
  <2>2. CASE o.at_least # {}
    <3> DEFINE S == o.at_least
    <3>1. S \in SUBSET Int /\ IsFiniteSet(S)
      BY <1>1 DEF IsMask
    <3>2. Max({fit.margin} \cup S) \in Int /\ fit.margin <= Max({fit.margin} \cup S)
      <4> HIDE DEF S
      <4> QED
        BY <1>1, <3>1, WithLeast
    <3>3. raised = Max({fit.margin} \cup S)
      <4>1. S \cup {fit.margin} = {fit.margin} \cup S
        OBVIOUS
      <4> QED
        BY <2>2, <4>1 DEF Raised
    <3> HIDE DEF raised, S, least
    <3> QED
      BY <1>1, <1>2, <3>2, <3>3
  <2> QED
    BY <2>1, <2>2
<1> HIDE DEF raised, least
<1>4. Min({raised} \cup o.at_most) \in Int /\ least <= Min({raised} \cup o.at_most)
  <2> DEFINE S == o.at_most
  <2>1. S \in SUBSET Int /\ IsFiniteSet(S) /\ \A y \in S : least <= y
    BY <1>1, <1>2 DEF IsMask
  <2> HIDE DEF S
  <2>2. Min({raised} \cup S) \in {raised} \cup S /\ Min({raised} \cup S) \in Int
    BY <1>3, <2>1, WithLeast
  <2>3. Min({raised} \cup S) \in Int /\ least <= Min({raised} \cup S)
    BY <1>3, <2>1, <2>2
  <2> QED
    BY <2>3 DEF S
<1> QED
  BY <1>4 DEF raised, least, Overridden

\* refine_pass: wherever a station is, its margin is at least the least.
LEMMA MarginKept ==
    ASSUME NEW fit, IsFit(fit), NEW stations, NEW i
    PROVE  EdgeMargin(stations, i, fit) \in Int /\ LeastMargin(fit) <= EdgeMargin(stations, i, fit)
<1> DEFINE n == Len(fit.margins)
           least == LeastMargin(fit)
           Loop(f) == [k \in 0..n |-> IF k = 0 THEN fit.margin
                                      ELSE Overridden(fit, stations[i], f[k - 1], fit.margins[k])]
           S == {m \in Int : least <= m}
           G == [km \in (1..n) \X S |-> Overridden(fit, stations[i], km[2], fit.margins[km[1]])]
           after == CHOOSE f : f = Loop(f)
<1>1. n \in Nat /\ DOMAIN fit.margins = 1..n /\ fit.margin \in S
  BY LeastIs DEF IsFit
<1>2. \A k \in 1..n, m \in S : Overridden(fit, stations[i], m, fit.margins[k]) \in S
  BY <1>1, MaskKeeps
<1>3. PICK f \in [0..n -> S] : Iterated(f, n, fit.margin, G)
  <2>1. G \in [(1..n) \X S -> S]
    <3> HIDE DEF S
    <3> QED
      BY <1>2
  <2> HIDE DEF G, S, n
  <2> QED
    BY <1>1, <2>1, IterationExists
<1>4. f = Loop(f)
  <2>1. ASSUME NEW k \in 1..n PROVE f[k] = Overridden(fit, stations[i], f[k - 1], fit.margins[k])
    <3> HIDE DEF S, n
    <3>1. f[k - 1] \in S
      BY <1>1, <1>3
    <3>2. <<k, f[k - 1]>> \in (1..n) \X S
      BY <3>1
    <3>3. f[k] = G[<<k, f[k - 1]>>]
      BY <1>3 DEF Iterated
    <3> QED
      BY <3>2, <3>3, Zenon
  <2>2. f[0] = fit.margin
    BY <1>3 DEF Iterated
  <2> HIDE DEF n, S, G
  <2> QED
    BY <1>1, <1>3, <2>1, <2>2
<1>5. after = Loop(after)
  <2> HIDE DEF Loop
  <2> QED
    BY <1>4
<1>6. after[0] = fit.margin
  <2> HIDE DEF after, S, G
  <2>1. Loop(after)[0] = fit.margin
    BY <1>1
  <2> HIDE DEF Loop
  <2> QED
    BY <1>5, <2>1
<1>7. \A k \in 1..n : after[k] = Overridden(fit, stations[i], after[k - 1], fit.margins[k])
  <2> TAKE k \in 1..n
  <2> HIDE DEF after, S, G, n
  <2>1. k # 0 /\ k \in 0..n
    BY <1>1
  <2>2. Loop(after)[k] = Overridden(fit, stations[i], after[k - 1], fit.margins[k])
    BY <2>1
  <2> HIDE DEF Loop
  <2> QED
    BY <1>5, <2>2
<1>8. after[n] \in S
  <2> DEFINE T == {k \in 0..n : after[k] \in S}
  <2> HIDE DEF after, S, G, n, Loop
  <2>1. 0 \in T
    BY <1>1, <1>6
  <2>2. \A k \in 0..n - 1 : k \in T => k + 1 \in T
    <3> TAKE k \in 0..n - 1
    <3>1. k + 1 \in 1..n /\ k + 1 \in 0..n /\ k + 1 - 1 = k
      BY <1>1
    <3>2. after[k + 1] = Overridden(fit, stations[i], after[k + 1 - 1], fit.margins[k + 1])
      BY <1>7, <3>1
    <3> QED
      BY <1>2, <3>1, <3>2
  <2>3. n \in T
    <3> HIDE DEF T
    <3> QED
      BY <1>1, <2>1, <2>2, UpTo
  <2> QED
    BY <2>3
<1> DEFINE caps == UNION {pinch.edge_margin : pinch \in fit.pinch}
           mg == after[n]
<1>9. EdgeMargin(stations, i, fit) = IF Level(stations, i, fit) THEN Min({mg} \cup caps) ELSE mg
  BY DEF EdgeMargin, Overridden, Raised
<1>10. caps \in SUBSET Int /\ IsFiniteSet(caps) /\ \A y \in caps : least <= y
  <2>1. CASE fit.pinch = {}
    BY <2>1, FS_EmptySet
  <2>2. CASE fit.pinch # {}
    <3>1. PICK pinch : fit.pinch = {pinch}
      BY <2>2 DEF IsFit
    <3>2. caps = pinch.edge_margin
      BY <3>1
    <3>3. IsPinch(pinch, fit)
      BY <3>1 DEF IsFit
    <3>4. \A y \in pinch.edge_margin : least <= y
      BY <3>1, LeastIs
    <3> HIDE DEF caps
    <3> QED
      BY <3>2, <3>3, <3>4 DEF IsPinch
  <2> QED
    BY <2>1, <2>2
<1> QED
  <2>1. mg \in Int /\ least <= mg
    BY <1>8
  <2> HIDE DEF mg, caps, least, S, G, Loop
  <2>2. Min({mg} \cup caps) \in {mg} \cup caps /\ Min({mg} \cup caps) \in Int
    BY <1>10, <2>1, WithLeast
  <2>3. EdgeMargin(stations, i, fit) \in Int /\ least <= EdgeMargin(stations, i, fit)
    BY <1>9, <1>10, <2>1, <2>2
  <2> QED
    BY <2>3 DEF least

-----------------------------------------------------------------------------
(* fit_lane_corridor: the width                                            *)

\* Where some part of the cart is in the pinch, either way it goes, the station
\* is level with it.
LEMMA BesidePinchIsLevel ==
    ASSUME NEW fit, IsFit(fit), NEW station \in RouteStations, NEW pinch \in fit.pinch,
           InPinch(station, pinch, fit.cart)
    PROVE  LevelWith(station, pinch, fit.cart)
<1> DEFINE rear == fit.cart.rear
           front == fit.cart.front
           x(t) == IF station.forward THEN station.x - rear + t ELSE station.x + rear - 1 - t
<1>1. rear \in Nat /\ front \in Nat /\ IsPinch(pinch, fit)
  BY DEF IsFit
<1>2. station.x \in Int /\ station.forward \in BOOLEAN /\ station.aisle
  BY DEF RouteStations
<1>3. PICK t \in 0..rear + front - 1 : pinch.lo <= x(t) /\ x(t) < pinch.hi
  BY DEF InPinch
<1>4. pinch.lo \in Int /\ pinch.hi \in Int /\ pinch.pad \in Nat
  BY <1>1 DEF IsPinch
<1>5. CASE station.forward
  <2>1. station.x - rear - pinch.pad < pinch.hi /\ station.x + front + pinch.pad > pinch.lo
    <3> HIDE DEF rear, front
    <3> QED
      BY <1>1, <1>2, <1>3, <1>4, <1>5
  <2> QED
    BY <1>2, <1>5, <2>1 DEF LevelWith
<1>6. CASE ~station.forward
  <2>1. station.x - front - pinch.pad < pinch.hi /\ station.x + rear + pinch.pad > pinch.lo
    <3> HIDE DEF rear, front
    <3> QED
      BY <1>1, <1>2, <1>3, <1>4, <1>6
  <2> QED
    BY <1>2, <1>6, <2>1 DEF LevelWith
<1> QED
  BY <1>5, <1>6

\* The width at a distance from the pinch.
Eased(fit, pinch, d) == pinch.width + ((fit.width - pinch.width) * d * d) \div (pinch.ease * pinch.ease)

\* The square of the distance is nothing at the pinch.
LEMMA EasedAt ==
    ASSUME NEW fit, IsFit(fit), NEW pinch \in fit.pinch, NEW d \in Int
    PROVE  Eased(fit, pinch, d) \in Int /\ (d = 0 => Eased(fit, pinch, d) = pinch.width)
<1> DEFINE e == pinch.ease
           w == pinch.width
           a == (fit.width - w) * d * d
           b == e * e
<1>1. e \in Nat \ {0} /\ w \in Int /\ fit.width \in Int
  BY DEF IsFit, IsPinch
<1>2. a \in Int /\ (d = 0 => a = 0)
  <2> HIDE DEF w
  <2>1. (fit.width - w) * d \in Int
    BY <1>1
  <2> QED
    BY <2>1
<1>3. b \in Nat \ {0}
  <2> HIDE DEF e
  <2>1. e * e \in Nat /\ e * e >= e * 1
    BY <1>1, Ordered
  <2> QED
    BY <1>1, <2>1
<1>4. Eased(fit, pinch, d) = w + a \div b
  BY DEF Eased
<1> HIDE DEF a, b, w
<1>5. a \div b \in Int /\ (a = 0 => a \div b = 0)
  <2>1. a \div b \in Int /\ b * (a \div b) <= a /\ a < b * (a \div b) + b
    BY <1>2, <1>3, DivFacts
  <2>2. a = 0 => a \div b = 0
    <3> DEFINE q == a \div b
    <3> HIDE DEF q
    <3> SUFFICES ASSUME a = 0 PROVE q = 0
      BY DEF q
    <3>1. q \in Int /\ b * q <= 0 /\ 0 < b * q + b
      BY <2>1 DEF q
    <3>2. CASE q >= 1
      <4>1. b * 1 <= b * q
        BY <1>3, <3>1, <3>2, Ordered
      <4> QED
        BY <1>3, <3>1, <4>1
    <3>3. CASE q <= -1
      <4>1. b * q <= b * (-1)
        BY <1>3, <3>1, <3>3, Ordered
      <4>2. b * (-1) = -b
        BY <1>3
      <4>3. b * q \in Int
        BY <1>3, <3>1
      <4> QED
        BY <1>3, <3>1, <4>1, <4>2, <4>3
    <3> QED
      BY <3>1, <3>2, <3>3
  <2> QED
    BY <2>1, <2>2
<1> QED
  BY <1>1, <1>2, <1>4, <1>5 DEF w

\* Level with the pinch, the lane is as wide as the pinch wants.
LEMMA EasedIs ==
    ASSUME NEW fit, IsFit(fit), NEW n \in Nat, NEW stations \in [1..n -> RouteStations], NEW i \in 1..n
    PROVE  /\ EasedWidth(stations, i, fit) \in Int
           /\ Level(stations, i, fit) => \A pinch \in fit.pinch : EasedWidth(stations, i, fit) = pinch.width
<1> DEFINE held == {j \in DOMAIN stations :
                \E pinch \in fit.pinch : LevelWith(stations[j], pinch, fit.cart) \/ stations[j].x \in pinch.hold}
           away(j) == Max({stations[j].x - stations[i].x, stations[i].x - stations[j].x})
           aways == {away(j) : j \in held}
<1>1. DOMAIN stations = 1..n /\ \A j \in 1..n : stations[j].x \in Int
  BY DEF RouteStations
<1>2. CASE held = {}
  <2>1. EasedWidth(stations, i, fit) = fit.width
    BY <1>2 DEF EasedWidth
  <2>2. ~Level(stations, i, fit)
    BY <1>1, <1>2 DEF Level
  <2> QED
    BY <2>1, <2>2 DEF IsFit
<1>3. CASE held # {}
  <2>1. PICK p \in fit.pinch : fit.pinch = {p}
    BY <1>3 DEF IsFit
  <2> DEFINE d == Min({p.ease} \cup aways)
  <2>2. p.ease \in Int /\ p.ease >= 0
    BY <2>1 DEF IsFit, IsPinch
  <2>3. aways \in SUBSET Int /\ IsFiniteSet(aways) /\ \A x \in aways : x >= 0
    <3>1. \A j \in held : away(j) \in Int /\ away(j) >= 0
      <4> TAKE j \in held
      <4> DEFINE x == stations[j].x - stations[i].x
                 y == stations[i].x - stations[j].x
      <4>1. x \in Int /\ y \in Int /\ (x >= 0 \/ y >= 0)
        BY <1>1
      <4>2. Max({x, y}) \in Int /\ x <= Max({x, y}) /\ y <= Max({x, y})
        <5> HIDE DEF x, y
        <5> QED
          BY <4>1, PairMax
      <4> HIDE DEF x, y
      <4>3. Max({x, y}) \in Int /\ Max({x, y}) >= 0
        BY <4>1, <4>2
      <4> QED
        BY <4>3 DEF x, y
    <3>2. IsFiniteSet(held)
      <4>1. 1 \in Int /\ n \in Int /\ held \in SUBSET (1..n)
        BY <1>1
      <4>2. IsFiniteSet(1..n)
        BY <4>1, FS_Interval
      <4> QED
        BY <4>1, <4>2, FS_Subset
    <3>3. IsFiniteSet(aways)
      <4> HIDE DEF away, held
      <4> DEFINE f == [j \in held |-> away(j)]
      <4>1. f \in Surjection(held, aways)
        BY DEF Surjection
      <4> HIDE DEF f, aways
      <4> QED
        BY <3>2, <4>1, FS_Surjection
    <3> HIDE DEF away, held
    <3> QED
      BY <3>1, <3>3
  <2>4. d \in Int /\ d \in {p.ease} \cup aways /\ \A x \in aways : d <= x
    <3> HIDE DEF aways
    <3> QED
      BY <2>2, <2>3, WithLeast
  <2>5. EasedWidth(stations, i, fit) = Eased(fit, p, d)
    <3> DEFINE S == {Eased(fit, pinch, Min({pinch.ease} \cup aways)) : pinch \in fit.pinch}
    <3>1. EasedWidth(stations, i, fit) = Max(S)
      BY <1>3 DEF EasedWidth, Eased
    <3>2. S = {Eased(fit, p, d)}
      BY <2>1
    <3>3. Eased(fit, p, d) \in Int
      <4> HIDE DEF d
      <4> QED
        BY <2>4, EasedAt
    <3> HIDE DEF S, d, held, aways
    <3>4. {Eased(fit, p, d)} = {Eased(fit, p, d), Eased(fit, p, d)}
      OBVIOUS
    <3>5. Max({Eased(fit, p, d), Eased(fit, p, d)}) \in {Eased(fit, p, d), Eased(fit, p, d)}
      BY <3>3, PairMax
    <3> QED
      BY <3>1, <3>2, <3>4, <3>5
  <2>6. Level(stations, i, fit) => d = 0
    <3> SUFFICES ASSUME Level(stations, i, fit) PROVE d = 0
      OBVIOUS
    <3>1. i \in held
      BY <1>1 DEF Level
    <3>2. away(i) = 0
      <4> DEFINE z == stations[i].x - stations[i].x
      <4>1. z = 0
        BY <1>1
      <4>2. 0 \in Int
        OBVIOUS
      <4>3. Max({0, 0}) \in {0, 0}
        BY <4>2, PairMax, Zenon
      <4> QED
        BY <4>1, <4>3
    <3>3. 0 \in aways
      <4> HIDE DEF away, held
      <4> QED
        BY <3>1, <3>2
    <3> HIDE DEF d, aways, away, held
    <3>4. d <= 0
      BY <2>4, <3>3
    <3>5. d >= 0
      BY <2>2, <2>3, <2>4
    <3> QED
      BY <2>4, <3>4, <3>5
  <2> HIDE DEF d, aways, held
  <2>7. Eased(fit, p, d) \in Int /\ (d = 0 => Eased(fit, p, d) = p.width)
    BY <2>4, EasedAt
  <2> QED
    BY <2>1, <2>5, <2>6, <2>7
<1> QED
  BY <1>2, <1>3

\* A lane is no wider than what is wanted, or the least that may be.
LEMMA WidthIs ==
    ASSUME NEW fit, IsFit(fit), NEW wanted \in Int, NEW left \in Int, NEW right \in Int
    PROVE  /\ WidthThere(wanted, left, right, fit) \in Nat
           /\ \A cap \in Int : wanted <= cap /\ fit.min_width <= cap => WidthThere(wanted, left, right, fit) <= cap
<1> DEFINE room == left + right - 2 * fit.margin
           got == Min({wanted, room})
<1>1. room \in Int /\ fit.min_width \in Nat
  BY DEF IsFit
<1>2. got \in Int /\ got <= wanted
  <2> HIDE DEF room
  <2> QED
    BY <1>1, PairMax
<1>3. WidthThere(wanted, left, right, fit) = Max({fit.min_width, got})
  BY DEF WidthThere
<1> HIDE DEF got
<1>4. Max({fit.min_width, got}) \in Int /\ fit.min_width <= Max({fit.min_width, got})
      /\ Max({fit.min_width, got}) \in {fit.min_width, got}
  <2>1. fit.min_width \in Int
    BY <1>1
  <2> QED
    BY <1>2, <2>1, PairMax
<1> DEFINE w == Max({fit.min_width, got})
<1> HIDE DEF w
<1>5. w \in Nat /\ \A cap \in Int : wanted <= cap /\ fit.min_width <= cap => w <= cap
  BY <1>1, <1>2, <1>4 DEF w
<1> QED
  BY <1>3, <1>5 DEF w

-----------------------------------------------------------------------------
(* fit_lane_corridor: the band between the faces                           *)

\* The cart clears both faces of a body with the lane's centre there.
BodyFits(fit, body, centre) ==
    centre - fit.cart.half >= body.low + body.margin /\ centre + fit.cart.half <= body.high - body.margin

\* The centre of a lane with an offset, which counts to the left.
Centre(station, d) == station.place + Side(station) * d

\* Within the band is within the bounds, and clear of the faces where it matters.
BandHolds(fit, stations, i, bounds, band) ==
    /\ band.lo \in Int /\ band.hi \in Int /\ bounds.lo <= band.lo /\ band.hi <= bounds.hi
    /\ Level(stations, i, fit) =>
        \A pinch \in fit.pinch : \A body \in pinch.body : \A d \in Int :
            band.lo <= d /\ d <= band.hi => BodyFits(fit, body, Centre(stations[i], d))

\* The faces bound an offset, whichever way the normal points.
LEMMA EitherSide ==
    ASSUME NEW s \in {1, -1}, NEW place \in Int, NEW a \in Int, NEW b \in Int, a <= b
    PROVE  LET ends == {s * (a - place), s * (b - place)}
           IN  /\ Min(ends) \in Int /\ Max(ends) \in Int
               /\ \A d \in Int : Min(ends) <= d /\ d <= Max(ends) => a <= place + s * d /\ place + s * d <= b
<1> DEFINE x == s * (a - place)
           y == s * (b - place)
<1>1. x \in Int /\ y \in Int
  OBVIOUS
<1>2. (s = 1 => x = a - place /\ y = b - place) /\ (s = -1 => x = place - a /\ y = place - b)
  OBVIOUS
<1> HIDE DEF x, y
<1> DEFINE p == Min({x, y})
           q == Max({x, y})
<1>3. p \in {x, y} /\ p \in Int /\ p <= x /\ p <= y /\ q \in {x, y} /\ q \in Int /\ x <= q /\ y <= q
  BY <1>1, PairMax
<1> HIDE DEF p, q
<1>4. ASSUME NEW d \in Int, p <= d, d <= q PROVE a <= place + s * d /\ place + s * d <= b
  <2>1. (s = 1 => place + s * d = place + d) /\ (s = -1 => place + s * d = place - d)
    OBVIOUS
  <2>2. CASE s = 1
    BY <1>1, <1>2, <1>3, <1>4, <2>1, <2>2
  <2>3. CASE s = -1
    BY <1>1, <1>2, <1>3, <1>4, <2>1, <2>3
  <2> QED
    BY <2>2, <2>3
<1> QED
  BY <1>3, <1>4 DEF p, q, x, y

\* The offsets at which one side of the cart or the other is at a face.
Faces(fit, station, body) ==
    LET end(face) == Side(station) * (face - station.place)
    IN  {end(body.low + fit.cart.half + body.margin), end(body.high - fit.cart.half - body.margin)}
Bodies(fit, stations, i) == IF Level(stations, i, fit) THEN UNION {pinch.body : pinch \in fit.pinch} ELSE {}

\* Between them the cart clears both faces.
LEMMA FacesAre ==
    ASSUME NEW fit, IsFit(fit), NEW station \in RouteStations, NEW pinch \in fit.pinch, NEW body \in pinch.body
    PROVE  /\ Min(Faces(fit, station, body)) \in Int /\ Max(Faces(fit, station, body)) \in Int
           /\ \A d \in Int : Min(Faces(fit, station, body)) <= d /\ d <= Max(Faces(fit, station, body))
                => BodyFits(fit, body, Centre(station, d))
<1> DEFINE s == Side(station)
           place == station.place
           half == fit.cart.half
           a == body.low + half + body.margin
           b == body.high - half - body.margin
<1>1. s \in {1, -1} /\ place \in Int /\ half \in Int
  BY DEF RouteStations, Side, IsFit
<1>2. IsPinch(pinch, fit)
  BY DEF IsFit
<1>3. body.low \in Int /\ body.high \in Int /\ body.margin \in Int /\ a <= b
  BY <1>2 DEF IsPinch
<1>4. a \in Int /\ b \in Int
  BY <1>1, <1>3
<1>5. Faces(fit, station, body) = {s * (a - place), s * (b - place)}
  BY DEF Faces
<1>6. \A c \in Int : a <= c /\ c <= b => BodyFits(fit, body, c)
  <2> TAKE c \in Int
  <2>1. a <= c /\ c <= b => c - half >= body.low + body.margin /\ c + half <= body.high - body.margin
    <3> HIDE DEF half
    <3> QED
      BY <1>1, <1>3
  <2> QED
    BY <2>1 DEF BodyFits
<1>7. \A d \in Int : Centre(station, d) = place + s * d /\ place + s * d \in Int
  BY <1>1 DEF Centre
<1> HIDE DEF a, b, s, place
<1> DEFINE ends == {s * (a - place), s * (b - place)}
<1>8. /\ Min(ends) \in Int /\ Max(ends) \in Int
      /\ \A d \in Int : Min(ends) <= d /\ d <= Max(ends) => a <= place + s * d /\ place + s * d <= b
  BY <1>1, <1>3, <1>4, EitherSide
<1> HIDE DEF ends
<1> QED
  BY <1>5, <1>6, <1>7, <1>8 DEF ends

\* refine_pass, of the band.
LEMMA BandIs ==
    ASSUME NEW fit, IsFit(fit), NEW n \in Nat, NEW stations \in [1..n -> RouteStations], NEW i \in 1..n,
           NEW bounds, bounds.lo \in Int, bounds.hi \in Int
    PROVE  BandHolds(fit, stations, i, bounds, InBand(bounds, stations, i, fit))
<1> DEFINE station == stations[i]
           bodies == Bodies(fit, stations, i)
           least(body) == Min(Faces(fit, station, body))
           most(body) == Max(Faces(fit, station, body))
           los == {least(body) : body \in bodies}
           his == {most(body) : body \in bodies}
           band == InBand(bounds, stations, i, fit)
<1>1. station \in RouteStations
  OBVIOUS
<1>2. IsFiniteSet(bodies)
  <2>1. CASE ~Level(stations, i, fit)
    BY <2>1, FS_EmptySet DEF Bodies
  <2>2. CASE Level(stations, i, fit)
    <3>1. PICK pinch \in fit.pinch : fit.pinch = {pinch} /\ IsPinch(pinch, fit)
      BY <2>2 DEF Level, IsFit
    <3>2. bodies = pinch.body
      BY <2>2, <3>1 DEF Bodies
    <3> QED
      BY <3>1, <3>2 DEF IsPinch
  <2> QED
    BY <2>1, <2>2
<1>3. ASSUME NEW body \in bodies
      PROVE  /\ least(body) \in Int /\ most(body) \in Int
             /\ \A d \in Int : least(body) <= d /\ d <= most(body) => BodyFits(fit, body, Centre(station, d))
  <2>1. PICK pinch \in fit.pinch : body \in pinch.body
    BY <1>3 DEF Bodies
  <2> HIDE DEF station
  <2> QED
    BY <1>1, <2>1, FacesAre
<1>5. los \in SUBSET Int /\ his \in SUBSET Int
  <2> HIDE DEF least, most, bodies
  <2> QED
    BY <1>3
<1>6. IsFiniteSet(los) /\ IsFiniteSet(his)
  <2> HIDE DEF least, most, bodies
  <2> DEFINE f == [body \in bodies |-> least(body)]
             g == [body \in bodies |-> most(body)]
  <2>1. f \in Surjection(bodies, los) /\ g \in Surjection(bodies, his)
    BY DEF Surjection
  <2> HIDE DEF f, g, los, his
  <2> QED
    BY <1>2, <2>1, FS_Surjection
<1>7. band.lo = Max({bounds.lo} \cup los) /\ band.hi = Min({bounds.hi} \cup his)
  <2>1. band = [lo |-> Max({bounds.lo} \cup los), hi |-> Min({bounds.hi} \cup his)]
    BY DEF InBand, Bodies, Faces
  <2> HIDE DEF band, los, his
  <2> QED
    BY <2>1
<1>8. /\ Max({bounds.lo} \cup los) \in Int /\ bounds.lo <= Max({bounds.lo} \cup los)
      /\ \A x \in los : x <= Max({bounds.lo} \cup los)
  <2> HIDE DEF los
  <2> QED
    BY <1>5, <1>6, WithLeast
<1>9. /\ Min({bounds.hi} \cup his) \in Int /\ Min({bounds.hi} \cup his) <= bounds.hi
      /\ \A x \in his : Min({bounds.hi} \cup his) <= x
  <2> HIDE DEF his
  <2> QED
    BY <1>5, <1>6, WithLeast
<1>10. \A body \in bodies : least(body) <= band.lo /\ band.hi <= most(body)
  <2> HIDE DEF least, most, bodies, band
  <2> QED
    BY <1>7, <1>8, <1>9
<1>11. ASSUME Level(stations, i, fit), NEW pinch \in fit.pinch, NEW body \in pinch.body, NEW d \in Int,
              band.lo <= d, d <= band.hi
       PROVE  BodyFits(fit, body, Centre(station, d))
  <2>1. body \in bodies
    BY <1>11 DEF Bodies
  <2>2. least(body) \in Int /\ most(body) \in Int /\ band.lo \in Int /\ band.hi \in Int
    <3> HIDE DEF least, most, bodies, band, los, his, station
    <3> QED
      BY <1>3, <1>7, <1>8, <1>9, <2>1
  <2>3. least(body) <= d /\ d <= most(body)
    <3>1. least(body) <= band.lo /\ band.hi <= most(body)
      BY <1>10, <2>1
    <3> HIDE DEF least, most, bodies, band
    <3> QED
      BY <1>11, <2>2, <3>1
  <2> HIDE DEF least, most, bodies, band, station
  <2> QED
    BY <1>3, <2>1, <2>3
<1> HIDE DEF band, los, his
<1>12. BandHolds(fit, stations, i, bounds, band)
  BY <1>7, <1>8, <1>9, <1>11 DEF BandHolds
<1> QED
  BY <1>12 DEF band

-----------------------------------------------------------------------------
(* fit_lane_corridor: the lanes                                            *)

\* The lane that a station gets with one offset.
LaneOf(station, d, width, free) ==
    [station |-> station, low |-> Centre(station, d) - (width \div 2),
     high |-> Centre(station, d) + (width \div 2), free |-> free]

\* How a lane came about: between the rays, within the bounds, where it may be.
Beside(occ, fit, station) == CellsBeside(occ, station.x, fit.strip)
\* A station's width, the room that the rays leave, and its bounds.
WidthAt(occ, stations, i, fit) ==
    WidthThere(EasedWidth(stations, i, fit),
               FreeSpace(Beside(occ, fit, stations[i]), stations[i].place, Side(stations[i])),
               FreeSpace(Beside(occ, fit, stations[i]), stations[i].place, -Side(stations[i])), fit)
RoomAt(occ, stations, i, fit) ==
    OffsetBounds(FreeSpace(Beside(occ, fit, stations[i]), stations[i].place, Side(stations[i])),
                 FreeSpace(Beside(occ, fit, stations[i]), stations[i].place, -Side(stations[i])),
                 WidthAt(occ, stations, i, fit), EdgeMargin(stations, i, fit))
BoundsAt(occ, stations, i, fit) == InBand(RoomAt(occ, stations, i, fit), stations, i, fit)
Free(occ, stations, i, fit) == ~Pinned(stations, i, fit) /\ Feasible(BoundsAt(occ, stations, i, fit))

\* LanesAt, in these names.
LEMMA LanesAre ==
    ASSUME NEW occ, NEW stations, NEW i, NEW fit
    PROVE  LanesAt(occ, stations, i, fit) =
            {LaneOf(stations[i], d, WidthAt(occ, stations, i, fit), Free(occ, stations, i, fit)) :
                d \in Offsets(BoundsAt(occ, stations, i, fit), Pinned(stations, i, fit))}
  BY Zenon DEF LanesAt, LaneOf, Beside, WidthAt, RoomAt, BoundsAt, Free, Centre

\* The rays of a station: how far it is free upwards and downwards.
Up(occ, fit, station) == FreeSpace(Beside(occ, fit, station), station.place, 1)
Down(occ, fit, station) == FreeSpace(Beside(occ, fit, station), station.place, -1)

\* Left is upwards where the route goes forward, and downwards where it goes back.
LEMMA RaysAre ==
    ASSUME NEW occ \in SUBSET (Int \X Int), NEW fit, NEW station \in RouteStations
    PROVE  /\ Beside(occ, fit, station) \in SUBSET Int
           /\ Up(occ, fit, station) \in Nat /\ Down(occ, fit, station) \in Nat
           /\ Side(station) \in {1, -1} /\ station.place \in Int
           /\ FreeSpace(Beside(occ, fit, station), station.place, Side(station)) \in Int
           /\ FreeSpace(Beside(occ, fit, station), station.place, -Side(station)) \in Int
           /\ Side(station) = 1 =>
                /\ FreeSpace(Beside(occ, fit, station), station.place, Side(station)) = Up(occ, fit, station)
                /\ FreeSpace(Beside(occ, fit, station), station.place, -Side(station)) = Down(occ, fit, station)
           /\ Side(station) = -1 =>
                /\ FreeSpace(Beside(occ, fit, station), station.place, Side(station)) = Down(occ, fit, station)
                /\ FreeSpace(Beside(occ, fit, station), station.place, -Side(station)) = Up(occ, fit, station)
<1> DEFINE beside == Beside(occ, fit, station)
           place == station.place
<1>1. beside \in SUBSET Int
  BY DEF Beside, CellsBeside
<1>2. place \in Int /\ Side(station) \in {1, -1}
  BY DEF RouteStations, Side
<1> HIDE DEF beside, place
<1>3. \A side \in {-1, 1} : FreeSpace(beside, place, side) \in Nat
  <2> TAKE side \in {-1, 1}
  <2>1. ReachesTo(beside, place, side, FreeSpace(beside, place, side))
    BY <1>2, RayReaches
  <2> QED
    BY <2>1 DEF ReachesTo, Reach
<1> DEFINE s == Side(station)
<1>4. s \in {1, -1} /\ (s = 1 => -s = -1) /\ (s = -1 => -s = 1) /\ 1 \in {-1, 1} /\ -1 \in {-1, 1}
  <2>1. s \in {1, -1}
    BY <1>2
  <2> HIDE DEF s
  <2> QED
    BY <2>1
<1>5. FreeSpace(beside, place, s) \in Int /\ FreeSpace(beside, place, -s) \in Int
  <2>1. s \in {-1, 1} /\ -s \in {-1, 1}
    BY <1>4
  <2> HIDE DEF s
  <2> QED
    BY <1>3, <2>1
<1>6. /\ s = 1 => FreeSpace(beside, place, s) = FreeSpace(beside, place, 1)
                  /\ FreeSpace(beside, place, -s) = FreeSpace(beside, place, -1)
      /\ s = -1 => FreeSpace(beside, place, s) = FreeSpace(beside, place, -1)
                  /\ FreeSpace(beside, place, -s) = FreeSpace(beside, place, 1)
  <2> HIDE DEF s
  <2> QED
    BY <1>4, Zenon
<1> QED
  BY <1>1, <1>2, <1>3, <1>4, <1>5, <1>6 DEF Up, Down, beside, place

\* What a lane that may be moved and has room is between.
LiesFree(lane, occ, fit, stations, i, d) ==
    /\ d \in Int /\ lane.station = stations[i] /\ lane.low \in Int /\ lane.high \in Int
    /\ lane.low <= Centre(stations[i], d) /\ lane.low + lane.high = 2 * Centre(stations[i], d)
    /\ Centre(stations[i], d) \in Int
    /\ lane.high - lane.low <= WidthAt(occ, stations, i, fit)
    /\ lane.high <= stations[i].place + Up(occ, fit, stations[i]) - LeastMargin(fit)
    /\ stations[i].place - Down(occ, fit, stations[i]) + LeastMargin(fit) <= lane.low
    /\ Level(stations, i, fit) =>
        \A pinch \in fit.pinch : \A body \in pinch.body : BodyFits(fit, body, Centre(stations[i], d))

\* The sizes of a station are numbers.
LEMMA SizesAre ==
    ASSUME NEW fit, IsFit(fit), NEW n \in Nat, NEW stations \in [1..n -> RouteStations], NEW i \in 1..n,
           NEW occ \in SUBSET (Int \X Int)
    PROVE  /\ WidthAt(occ, stations, i, fit) \in Nat
           /\ RoomAt(occ, stations, i, fit).lo \in Int /\ RoomAt(occ, stations, i, fit).hi \in Int
           /\ BandHolds(fit, stations, i, RoomAt(occ, stations, i, fit), BoundsAt(occ, stations, i, fit))
<1> DEFINE station == stations[i]
           left == FreeSpace(Beside(occ, fit, station), station.place, Side(station))
           right == FreeSpace(Beside(occ, fit, station), station.place, -Side(station))
           width == WidthAt(occ, stations, i, fit)
           margin == EdgeMargin(stations, i, fit)
           room == RoomAt(occ, stations, i, fit)
<1>1. station \in RouteStations
  OBVIOUS
<1>2. left \in Int /\ right \in Int
  BY <1>1, RaysAre
<1>3. EasedWidth(stations, i, fit) \in Int
  BY EasedIs
<1>4. width \in Nat
  <2>1. width = WidthThere(EasedWidth(stations, i, fit), left, right, fit)
    BY DEF WidthAt
  <2> HIDE DEF width, left, right
  <2> QED
    BY <1>2, <1>3, <2>1, WidthIs
<1>5. margin \in Int
  BY MarginKept
<1>6. room = [lo |-> (width \div 2) + margin - right, hi |-> left - (width \div 2) - margin]
  BY DEF RoomAt, OffsetBounds
<1> HIDE DEF left, right, width, margin, room
<1>7. room.lo \in Int /\ room.hi \in Int
  BY <1>2, <1>4, <1>5, <1>6
<1>8. BandHolds(fit, stations, i, room, InBand(room, stations, i, fit))
  BY <1>7, BandIs
<1> QED
  BY <1>4, <1>7, <1>8 DEF width, room, BoundsAt

\* A lane that may be moved is between what the rays found, as far from it as
\* its margin.
LEMMA FreeLaneIsBetween ==
    ASSUME NEW fit, IsFit(fit), NEW n \in Nat, NEW stations \in [1..n -> RouteStations], NEW i \in 1..n,
           NEW occ \in SUBSET (Int \X Int), NEW lane \in LanesAt(occ, stations, i, fit), lane.free
    PROVE  \E d : LiesFree(lane, occ, fit, stations, i, d)
<1> DEFINE station == stations[i]
           left == FreeSpace(Beside(occ, fit, station), station.place, Side(station))
           right == FreeSpace(Beside(occ, fit, station), station.place, -Side(station))
           width == WidthAt(occ, stations, i, fit)
           margin == EdgeMargin(stations, i, fit)
           room == RoomAt(occ, stations, i, fit)
           bounds == BoundsAt(occ, stations, i, fit)
           up == Up(occ, fit, station)
           down == Down(occ, fit, station)
           h == width \div 2
           s == Side(station)
           place == station.place
           least == LeastMargin(fit)
<1>1. station \in RouteStations
  OBVIOUS
<1>2. PICK d \in Offsets(bounds, Pinned(stations, i, fit)) :
        lane = LaneOf(station, d, width, Free(occ, stations, i, fit))
  BY LanesAre
<1> DEFINE c == Centre(station, d)
<1>3. lane.station = station /\ lane.low = c - h /\ lane.high = c + h /\ Free(occ, stations, i, fit)
  BY <1>2 DEF LaneOf
<1>4. /\ width \in Nat /\ room.lo \in Int /\ room.hi \in Int
      /\ BandHolds(fit, stations, i, room, bounds)
  BY SizesAre
<1>5. bounds.lo \in Int /\ bounds.hi \in Int /\ room.lo <= bounds.lo /\ bounds.hi <= room.hi
  BY <1>4 DEF BandHolds
<1>6. d \in Int /\ bounds.lo <= d /\ d <= bounds.hi
  <2>1. ~Pinned(stations, i, fit) /\ Feasible(bounds)
    BY <1>3 DEF Free
  <2>2. d \in bounds.lo..bounds.hi
    <3> HIDE DEF bounds
    <3> QED
      BY <1>2, <2>1 DEF Offsets
  <2> HIDE DEF bounds
  <2> QED
    BY <1>5, <2>2
<1>7. margin \in Int /\ least \in Int /\ least <= margin
  BY MarginKept, LeastIs
<1>8. /\ up \in Nat /\ down \in Nat /\ s \in {1, -1} /\ place \in Int
      /\ s = 1 => left = up /\ right = down
      /\ s = -1 => left = down /\ right = up
  BY <1>1, RaysAre
<1>9. room.lo = h + margin - right /\ room.hi = left - h - margin
  BY DEF RoomAt, OffsetBounds
<1>10. h \in Nat /\ 2 * h <= width
  <2> HIDE DEF width
  <2> QED
    BY <1>4
<1>11. c \in Int /\ (s = 1 => c = place + d) /\ (s = -1 => c = place - d)
  <2>1. c = place + s * d
    BY DEF Centre
  <2> HIDE DEF c, place, s
  <2> QED
    BY <1>6, <1>8, <2>1
<1>12. ASSUME Level(stations, i, fit), NEW pinch \in fit.pinch, NEW body \in pinch.body
       PROVE  BodyFits(fit, body, c)
  <2> HIDE DEF room, bounds
  <2> QED
    BY <1>4, <1>6, <1>12 DEF BandHolds
<1>13. c + h <= place + up - least /\ place - down + least <= c - h
  <2> HIDE DEF left, right, width, margin, room, bounds, up, down, h, s, place, least, c
  <2>1. h + margin - right <= d /\ d <= left - h - margin
    BY <1>5, <1>6, <1>4, <1>9
  <2>2. CASE s = 1
    BY <1>6, <1>7, <1>8, <1>10, <1>11, <2>1, <2>2
  <2>3. CASE s = -1
    BY <1>6, <1>7, <1>8, <1>10, <1>11, <2>1, <2>3
  <2> QED
    BY <1>8, <2>2, <2>3
<1>14. /\ lane.low \in Int /\ lane.high \in Int /\ lane.low <= c /\ lane.low + lane.high = 2 * c
       /\ lane.high - lane.low <= width
  <2> HIDE DEF left, right, width, margin, room, bounds, up, down, h, s, place, least, c
  <2> QED
    BY <1>3, <1>4, <1>10, <1>11
<1>15. lane.high <= place + up - least /\ place - down + least <= lane.low
  <2> HIDE DEF left, right, width, margin, room, bounds, up, down, h, s, place, least, c
  <2> QED
    BY <1>3, <1>13
<1>16. LiesFree(lane, occ, fit, stations, i, d)
  <2> HIDE DEF left, right, margin, room, bounds, h, s
  <2> QED
    BY <1>3, <1>6, <1>11, <1>12, <1>14, <1>15 DEF LiesFree
<1> QED
  BY <1>16

\* Such a lane is clear of every cell, although a ray goes by steps and a cell
\* has a width, and fits between the faces.
LEMMA BetweenIsClear ==
    ASSUME NEW fit, IsFit(fit), Step < LeastMargin(fit),
           NEW n \in Nat, NEW stations \in [1..n -> RouteStations], NEW i \in 1..n,
           NEW occ \in SUBSET (Int \X Int), NEW lane, NEW d, LiesFree(lane, occ, fit, stations, i, d)
    PROVE  Clear(lane, occ, fit)
<1> DEFINE station == stations[i]
           beside == Beside(occ, fit, station)
           least == LeastMargin(fit)
           up == Up(occ, fit, station)
           down == Down(occ, fit, station)
           place == station.place
           c == Centre(station, d)
<1>1. station \in RouteStations
  OBVIOUS
<1>2. beside \in SUBSET Int /\ up \in Nat /\ down \in Nat /\ place \in Int
  BY <1>1, RaysAre
<1>3. least \in Int /\ least - 2 \in Nat \ {0}
  BY LeastIs DEF Step
<1>4. /\ lane.low \in Int /\ lane.high \in Int /\ lane.low <= c /\ lane.low + lane.high = 2 * c /\ c \in Int
      /\ lane.high <= place + up - least /\ place - down + least <= lane.low
  BY DEF LiesFree
<1>5. ASSUME NEW cell \in beside PROVE Apart(lane, cell, least - 2)
  <2>1. up + down > 0
    <3> HIDE DEF up, down, place, c, least
    <3> QED
      BY <1>2, <1>3, <1>4
  <2>2. 8 * cell >= place + up - 1 \/ 8 * (cell + 1) <= place - down + 2
    BY <1>2, <2>1, RaysAreClear DEF Up, Down
  <2>3. 8 * cell >= lane.high + (least - 2) \/ 8 * (cell + 1) <= lane.low - (least - 2)
    <3>1. cell \in Int
      BY <1>2, <1>5
    <3> HIDE DEF up, down, place, c, least, beside
    <3>2. CASE 8 * cell >= place + up - 1
      BY <1>2, <1>3, <1>4, <3>1, <3>2
    <3>3. CASE 8 * (cell + 1) <= place - down + 2
      BY <1>2, <1>3, <1>4, <3>1, <3>3
    <3> QED
      BY <2>2, <3>2, <3>3, Zenon
  <2> QED
    BY <2>3 DEF Apart, Cell
<1>6. CheckPasses(lane, beside, least - 2)
  <2>1. lane.low <= lane.high
    <3> HIDE DEF c
    <3> QED
      BY <1>4
  <2> HIDE DEF least, beside
  <2> QED
    BY <1>2, <1>3, <1>4, <1>5, <2>1, ApartPasses
<1>7. ASSUME NEW pinch \in fit.pinch, InPinch(lane.station, pinch, fit.cart) PROVE FitsIn(lane, pinch, fit.cart)
  <2>1. LevelWith(station, pinch, fit.cart)
    BY <1>1, <1>7, BesidePinchIsLevel DEF LiesFree
  <2>2. Level(stations, i, fit)
    BY <2>1 DEF Level
  <2>3. \A body \in pinch.body : BodyFits(fit, body, c)
    BY <2>2 DEF LiesFree
  <2>4. (lane.low + lane.high) \div 2 = c
    <3>1. (2 * c) \div 2 = c
      <4> HIDE DEF c
      <4> QED
        BY <1>4
    <3> QED
      BY <1>4, <3>1
  <2>5. lane.high - lane.low <= pinch.width
    <3> DEFINE wanted == EasedWidth(stations, i, fit)
               left == FreeSpace(beside, place, Side(station))
               right == FreeSpace(beside, place, -Side(station))
               width == WidthAt(occ, stations, i, fit)
    <3>1. wanted = pinch.width
      BY <2>2, EasedIs
    <3>2. pinch.width \in Int /\ fit.min_width <= pinch.width
      BY DEF IsFit, IsPinch
    <3>3. left \in Int /\ right \in Int
      BY <1>1, RaysAre
    <3>4. width = WidthThere(wanted, left, right, fit)
      BY DEF WidthAt
    <3>5. width \in Nat /\ lane.high - lane.low <= width
      BY SizesAre DEF LiesFree
    <3> HIDE DEF wanted, left, right, width
    <3>6. width <= pinch.width
      <4> DEFINE cap == pinch.width
      <4>1. cap \in Int /\ wanted \in Int /\ wanted <= cap /\ fit.min_width <= cap
        BY <3>1, <3>2
      <4> HIDE DEF cap
      <4>2. WidthThere(wanted, left, right, fit) <= cap
        BY <3>3, <4>1, WidthIs
      <4> QED
        BY <3>4, <4>2 DEF cap
    <3> QED
      BY <1>4, <3>2, <3>5, <3>6
  <2> QED
    BY <2>3, <2>4, <2>5 DEF FitsIn, BodyFits
<1> QED
  BY <1>5, <1>6, <1>7 DEF Clear, Beside, LiesFree, Step

\* fit_lane_corridor refine: whatever obstacles there are ...
THEOREM AnyLaneIsClear ==
    ASSUME NEW fit, IsFit(fit), Step < LeastMargin(fit),
           NEW n \in Nat, NEW stations \in [1..n -> RouteStations],
           NEW occ \in SUBSET (Int \X Int), NEW lane \in RefinedLanes(occ, stations, fit), lane.free
    PROVE  Clear(lane, occ, fit)
<1>1. PICK i \in Zone(stations, fit) : lane \in LanesAt(occ, stations, i, fit)
  BY DEF RefinedLanes
<1>2. i \in 1..n
  BY DEF Zone
<1>3. PICK d : LiesFree(lane, occ, fit, stations, i, d)
  BY <1>1, <1>2, FreeLaneIsBetween
<1> QED
  BY <1>2, <1>3, BetweenIsClear

\* A stretch in one piece gets a lane.
LEMMA LanesThere ==
    ASSUME NEW fit, IsFit(fit), NEW n \in Nat, NEW stations \in [1..n -> RouteStations],
           NEW occ \in SUBSET (Int \X Int), NEW a \in 1..n, NEW b \in a..n, Zone(stations, fit) = a..b
    PROVE  RefinedLanes(occ, stations, fit) # {}
<1>1. /\ a..b \in SUBSET Int /\ a..b # {} /\ IsFiniteSet(a..b)
      /\ a \in a..b /\ b \in a..b /\ \A x \in a..b : a <= x /\ x <= b
  <2>1. a \in Int /\ b \in Int
    OBVIOUS
  <2>2. IsFiniteSet(a..b)
    BY <2>1, FS_Interval
  <2>3. a <= b
    OBVIOUS
  <2>4. a..b \in SUBSET Int /\ \A x \in a..b : a <= x /\ x <= b
    BY <2>1
  <2>5. a \in a..b /\ b \in a..b
    BY <2>1, <2>3
  <2> QED
    BY <2>2, <2>4, <2>5, Zenon
<1>2. Min(a..b) = a /\ Max(a..b) = b
  <2> DEFINE S == a..b
  <2>1. S \in SUBSET Int /\ S # {} /\ IsFiniteSet(S) /\ a \in S /\ b \in S /\ \A x \in S : a <= x /\ x <= b
    BY <1>1
  <2> HIDE DEF S
  <2>2. Min(S) \in S /\ Max(S) \in S /\ Min(S) <= a /\ b <= Max(S)
    BY <2>1, HasMin, HasMax
  <2>3. Min(S) \in Int /\ Max(S) \in Int /\ a \in Int /\ b \in Int /\ a <= Min(S) /\ Max(S) <= b
    BY <2>1, <2>2
  <2>4. Min(S) = a /\ Max(S) = b
    BY <2>2, <2>3
  <2> QED
    BY <2>4 DEF S
<1>3. a \in 1..n
  OBVIOUS
<1> DEFINE bounds == BoundsAt(occ, stations, a, fit)
           pinned == Pinned(stations, a, fit)
<1>4. bounds.lo \in Int /\ bounds.hi \in Int
  BY <1>3, SizesAre DEF BandHolds
<1>5. Offsets(bounds, pinned) # {}
  <2> HIDE DEF bounds, pinned
  <2>1. pinned \in BOOLEAN
    BY DEF pinned, Pinned
  <2>2. CASE pinned
    BY <2>2 DEF Offsets
  <2>3. CASE ~pinned /\ Feasible(bounds)
    <3>1. bounds.lo \in bounds.lo..bounds.hi
      BY <1>4, <2>3 DEF Feasible
    <3> QED
      BY <2>3, <3>1 DEF Offsets
  <2>4. CASE ~pinned /\ ~Feasible(bounds)
    BY <2>4 DEF Offsets
  <2> QED
    BY <2>1, <2>2, <2>3, <2>4
<1>6. LanesAt(occ, stations, a, fit) # {}
  <2> HIDE DEF bounds, pinned
  <2>1. LanesAt(occ, stations, a, fit) = {LaneOf(stations[a], d, WidthAt(occ, stations, a, fit),
                Free(occ, stations, a, fit)) : d \in Offsets(bounds, pinned)}
    BY LanesAre DEF bounds, pinned
  <2> QED
    BY <1>5, <2>1
<1> DEFINE zone == Zone(stations, fit)
<1>7. a \in zone /\ zone = Min(zone)..Max(zone) /\ zone # {}
  BY <1>1, <1>2
<1>8. RefinedLanes(occ, stations, fit) = UNION {LanesAt(occ, stations, i, fit) : i \in zone}
  BY <1>7 DEF RefinedLanes
<1> HIDE DEF zone
<1> QED
  BY <1>6, <1>7, <1>8

-----------------------------------------------------------------------------
(* obstacle_grid                                                           *)

\* Who has two different elements has two at least.
LEMMA TwoAreTwo ==
    ASSUME NEW S, IsFiniteSet(S), NEW x \in S, NEW y \in S, x # y
    PROVE  2 <= Cardinality(S)
<1>1. IsFiniteSet({x, y}) /\ Cardinality({x, y}) = 2
  <2>1. IsFiniteSet({x}) /\ Cardinality({x}) = 1
    BY FS_Singleton
  <2>2. IsFiniteSet({x} \cup {y}) /\ Cardinality({x} \cup {y}) = Cardinality({x}) + 1
    BY <2>1, FS_AddElement
  <2>3. {x} \cup {y} = {x, y}
    OBVIOUS
  <2> QED
    BY <2>1, <2>2, <2>3
<1>2. Cardinality({x, y}) <= Cardinality(S)
  <2>1. {x, y} \in SUBSET S
    OBVIOUS
  <2> QED
    BY <2>1, FS_Subset
<1> QED
  BY <1>1, <1>2

\* Who has an element has one at least.
LEMMA OneIsOne ==
    ASSUME NEW S, IsFiniteSet(S), NEW x \in S PROVE 1 <= Cardinality(S)
<1>1. Cardinality(S) \in Nat
  BY FS_CardinalityType
<1>2. Cardinality(S) # 0
  BY FS_EmptySet
<1> QED
  BY <1>1, <1>2

\* A line that is to be drawn, and its samples.
IsLine(line) == line.a \in Int /\ line.b \in Int /\ line.a # line.b

\* line_points: they are finitely many, and the first is where the line starts.
LEMMA LineStarts ==
    ASSUME NEW line, IsLine(line)
    PROVE  line.a \in LinePoints(line) /\ IsFiniteSet(LinePoints(line))
<1> DEFINE way == IF line.a < line.b THEN 1 ELSE -1
           last == (way * (line.b - line.a)) - 1
           samples == {u \in 0..last : u % (Cell \div 2) = 0}
<1>1. last \in Nat
  BY DEF IsLine
<1>2. 0 \in samples
  <2>1. 0 \in 0..last
    <3> HIDE DEF last
    <3> QED
      BY <1>1
  <2>2. 0 % (Cell \div 2) = 0
    BY DEF Cell
  <2> QED
    BY <2>1, <2>2
<1>3. IsFiniteSet(samples)
  <2>1. IsFiniteSet(0..last)
    <3> HIDE DEF last
    <3>1. 0 \in Int /\ last \in Int
      BY <1>1
    <3> QED
      BY <3>1, FS_Interval
  <2>2. samples \in SUBSET (0..last)
    OBVIOUS
  <2> QED
    BY <2>1, <2>2, FS_Subset
<1> DEFINE points == {line.a + way * t : t \in samples}
           f == [t \in samples |-> line.a + way * t]
<1>4. LinePoints(line) = points
  BY Zenon DEF LinePoints
<1>5. f \in Surjection(samples, points)
  <2> HIDE DEF samples
  <2> QED
    BY DEF Surjection
<1>6. IsFiniteSet(points)
  <2> HIDE DEF f, points, samples
  <2> QED
    BY <1>3, <1>5, FS_Surjection
<1>7. line.a + way * 0 = line.a
  BY DEF IsLine
<1>8. line.a \in points
  <2> HIDE DEF way, samples
  <2> QED
    BY <1>2, <1>7
<1> QED
  BY <1>4, <1>6, <1>8

\* build_grid: the points that count, the samples of the lines, and the points
\* that a box brings back.
Kept(cloud, edits) ==
    {p \in cloud : /\ edits.band.lo < p.z - edits.floor /\ p.z - edits.floor < edits.band.hi
                   /\ \A box \in edits.remove : ~InBox(p, box)}
Drawn(edits) == UNION {LinePoints(line) : line \in edits.add_line}
Added(cloud, edits) == UNION {{box} \X {p \in cloud : InBox(p, box)} : box \in edits.add_cloud}

\* Edits that may be applied.
IsEdits(edits) ==
    /\ edits.size \in Int /\ IsFiniteSet(edits.add_cloud) /\ IsFiniteSet(edits.add_line)
    /\ \A line \in edits.add_line : IsLine(line)

\* There are finitely many samples of lines.
LEMMA DrawnIsFinite == ASSUME NEW edits, IsEdits(edits) PROVE IsFiniteSet(Drawn(edits))
<1> DEFINE lines == edits.add_line
           pieces == {LinePoints(line) : line \in lines}
           f == [line \in lines |-> LinePoints(line)]
<1>1. f \in Surjection(lines, pieces)
  BY DEF Surjection
<1>2. \A piece \in pieces : IsFiniteSet(piece)
  BY LineStarts DEF IsEdits
<1>3. IsFiniteSet(lines)
  BY DEF IsEdits
<1> HIDE DEF lines, pieces, f
<1>4. IsFiniteSet(UNION pieces)
  BY <1>1, <1>2, <1>3, FS_Surjection, FS_UNION
<1> QED
  BY <1>4 DEF pieces, lines, Drawn

\* There are finitely many points in boxes.
LEMMA AddedIsFinite ==
    ASSUME NEW edits, IsEdits(edits), NEW cloud, IsFiniteSet(cloud) PROVE IsFiniteSet(Added(cloud, edits))
<1> DEFINE boxes == edits.add_cloud
           all == boxes \X cloud
<1>1. IsFiniteSet(boxes)
  BY DEF IsEdits
<1>2. IsFiniteSet(all)
  <2> HIDE DEF boxes
  <2> QED
    BY <1>1, FS_Product
<1>3. Added(cloud, edits) \in SUBSET all
  BY DEF Added
<1> HIDE DEF all
<1> QED
  BY <1>2, <1>3, FS_Subset

\* obstacle_grid: two points of the band that nothing removes make a cell an
\* obstacle, and so does a line that starts there.
LEMMA GridHas ==
    ASSUME NEW edits, IsEdits(edits), NEW cloud, IsFiniteSet(cloud), NEW cell \in 0..edits.size - 1,
           \/ \E p, q \in Kept(cloud, edits) : p # q /\ p.x \div Cell = cell /\ q.x \div Cell = cell
           \/ \E line \in edits.add_line : line.a \div Cell = cell
    PROVE  cell \in BuildGrid(cloud, edits)
<1> DEFINE points == {p \in Kept(cloud, edits) : p.x \div Cell = cell}
           boxed == {bp \in Added(cloud, edits) : bp[2].x \div Cell = cell}
           drawn == {x \in Drawn(edits) : x \div Cell = cell}
<1>1. Counted(cell, cloud, edits) = Cardinality(points) + Cardinality(boxed) + 2 * Cardinality(drawn)
  <2>1. {p \in {p \in cloud : edits.band.lo < p.z - edits.floor /\ p.z - edits.floor < edits.band.hi} :
            \A box \in edits.remove : ~InBox(p, box)} = Kept(cloud, edits)
    BY DEF Kept
  <2>2. Counted(cell, cloud, edits) = PointsIn(cell, Kept(cloud, edits)) + Cardinality(boxed)
                                        + MIN_POINTS * Cardinality(drawn)
    BY <2>1, Zenon DEF Counted, Drawn, Added
  <2> HIDE DEF boxed, drawn
  <2> QED
    BY <2>2 DEF PointsIn, MIN_POINTS
<1>2. IsFiniteSet(points) /\ IsFiniteSet(boxed) /\ IsFiniteSet(drawn)
  <2>1. points \in SUBSET cloud
    BY DEF Kept
  <2>2. boxed \in SUBSET Added(cloud, edits) /\ IsFiniteSet(Added(cloud, edits))
    BY AddedIsFinite
  <2>3. drawn \in SUBSET Drawn(edits) /\ IsFiniteSet(Drawn(edits))
    BY DrawnIsFinite
  <2> HIDE DEF points, boxed, drawn
  <2> QED
    BY <2>1, <2>2, <2>3, FS_Subset
<1>3. Cardinality(points) \in Nat /\ Cardinality(boxed) \in Nat /\ Cardinality(drawn) \in Nat
  <2> HIDE DEF points, boxed, drawn
  <2> QED
    BY <1>2, FS_CardinalityType
<1>4. 2 <= Cardinality(points) \/ 1 <= Cardinality(drawn)
  <2>1. CASE \E p, q \in Kept(cloud, edits) : p # q /\ p.x \div Cell = cell /\ q.x \div Cell = cell
    <3>1. PICK p \in points, q \in points : p # q
      BY <2>1
    <3> HIDE DEF points
    <3> QED
      BY <1>2, <3>1, TwoAreTwo
  <2>2. CASE \E line \in edits.add_line : line.a \div Cell = cell
    <3>1. PICK line \in edits.add_line : line.a \div Cell = cell
      BY <2>2
    <3>2. line.a \in LinePoints(line)
      BY <3>1, LineStarts DEF IsEdits
    <3>3. line.a \in drawn
      BY <3>1, <3>2 DEF Drawn
    <3> HIDE DEF drawn
    <3> QED
      BY <1>2, <3>3, OneIsOne
  <2> QED
    BY <2>1, <2>2
<1>5. Counted(cell, cloud, edits) >= 2
  <2> HIDE DEF points, boxed, drawn
  <2> QED
    BY <1>1, <1>3, <1>4
<1> QED
  BY <1>5 DEF BuildGrid, MIN_POINTS

\* The obstacles are cells.
LEMMA GridIsCells == ASSUME NEW edits, IsEdits(edits), NEW cloud PROVE BuildGrid(cloud, edits) \subseteq Int
  BY DEF BuildGrid, IsEdits

-----------------------------------------------------------------------------
(* obstacle_grid: the runs                                                 *)

\* The cloud that a job has, or that it becomes.
HasBand(cloud, band) ==
    /\ IsFiniteSet(cloud)
    /\ \A c \in band : [x |-> Cell * c + 2, z |-> 2] \in cloud /\ [x |-> Cell * c + 5, z |-> 2] \in cloud

\* The cloud of a job, in either frame, has two points of the band in each cell.
LEMMA RisingCloud ==
    ASSUME NEW band \in SUBSET Cells, NEW moved \in {0, 8}
    PROVE  /\ IsFiniteSet(CloudOf(band, moved))
           /\ \A c \in band, d \in {2, 5} : [x |-> Cell * c + d - moved, z |-> 2] \in CloudOf(band, moved)
<1> DEFINE low == {[x |-> Cell * c + 2 - moved, z |-> 2] : c \in band}
           high == {[x |-> Cell * c + 5 - moved, z |-> 2] : c \in band}
           lamps == {[x |-> Cell * c + 3 - moved, z |-> 9] : c \in Cells}
<1>1. CloudOf(band, moved) = (low \cup high) \cup lamps
  BY DEF CloudOf
<1>2. IsFiniteSet(Cells) /\ IsFiniteSet(band)
  <2>1. 0 \in Int /\ 4 \in Int
    OBVIOUS
  <2>2. IsFiniteSet(Cells)
    BY <2>1, FS_Interval DEF Cells
  <2> QED
    BY <2>2, FS_Subset
<1>3. IsFiniteSet(low)
  <2> DEFINE f == [c \in band |-> [x |-> Cell * c + 2 - moved, z |-> 2]]
  <2>1. f \in Surjection(band, low)
    BY DEF Surjection
  <2> HIDE DEF f, low
  <2> QED
    BY <1>2, <2>1, FS_Surjection
<1>4. IsFiniteSet(high)
  <2> DEFINE f == [c \in band |-> [x |-> Cell * c + 5 - moved, z |-> 2]]
  <2>1. f \in Surjection(band, high)
    BY DEF Surjection
  <2> HIDE DEF f, high
  <2> QED
    BY <1>2, <2>1, FS_Surjection
<1>5. IsFiniteSet(lamps)
  <2> DEFINE f == [c \in Cells |-> [x |-> Cell * c + 3 - moved, z |-> 9]]
  <2>1. f \in Surjection(Cells, lamps)
    BY DEF Surjection
  <2> HIDE DEF f, lamps
  <2> QED
    BY <1>2, <2>1, FS_Surjection
<1>6. IsFiniteSet((low \cup high) \cup lamps)
  <2> HIDE DEF low, high, lamps
  <2>1. IsFiniteSet(low \cup high)
    BY <1>3, <1>4, FS_Union
  <2> DEFINE both == low \cup high
  <2> HIDE DEF both
  <2> QED
    BY <1>5, <2>1, FS_Union DEF both
<1> QED
  BY <1>1, <1>6

\* The frame of the second anchor.
InFrame(cloud, from, to) == IF from.given THEN {[p EXCEPT !.x = @ + to.at - from.at] : p \in cloud} ELSE cloud

\* anchor_transform: with both anchors the cloud arrives where the edits are
\* written, with none it is there already.
LEMMA CloudArrives ==
    ASSUME NEW band \in SUBSET Cells, NEW given \in BOOLEAN
    PROVE  HasBand(InFrame(CloudOf(band, IF given THEN 8 ELSE 0), Anchor(given, 3), Anchor(given, 11)), band)
<1>1. CASE given
  <2> DEFINE cloud == CloudOf(band, 8)
             moved == {[p EXCEPT !.x = @ + 11 - 3] : p \in cloud}
             f == [p \in cloud |-> [p EXCEPT !.x = @ + 11 - 3]]
  <2>1. InFrame(CloudOf(band, IF given THEN 8 ELSE 0), Anchor(given, 3), Anchor(given, 11)) = moved
    BY <1>1 DEF InFrame, Anchor
  <2>2. IsFiniteSet(cloud)
    BY RisingCloud
  <2>3. f \in Surjection(cloud, moved)
    <3> HIDE DEF cloud
    <3> QED
      BY DEF Surjection
  <2>4. IsFiniteSet(moved)
    <3> HIDE DEF cloud, moved, f
    <3> QED
      BY <2>2, <2>3, FS_Surjection
  <2>5. ASSUME NEW c \in band, NEW d \in {2, 5} PROVE [x |-> Cell * c + d, z |-> 2] \in moved
    <3> DEFINE p == [x |-> Cell * c + d - 8, z |-> 2]
    <3>1. p \in cloud
      BY RisingCloud
    <3>2. [p EXCEPT !.x = @ + 11 - 3] = [x |-> Cell * c + d, z |-> 2]
      <4>1. c \in Int /\ d \in Int
        BY DEF Cells
      <4>2. (Cell * c + d - 8) + 11 - 3 = Cell * c + d
        BY <4>1 DEF Cell
      <4> QED
        BY <4>2
    <3> HIDE DEF p, cloud
    <3> QED
      BY <3>1, <3>2
  <2> HIDE DEF moved
  <2>6. HasBand(moved, band)
    BY <2>4, <2>5 DEF HasBand
  <2> QED
    BY <2>1, <2>6
<1>2. CASE ~given
  <2> DEFINE cloud == CloudOf(band, 0)
  <2>1. InFrame(CloudOf(band, IF given THEN 8 ELSE 0), Anchor(given, 3), Anchor(given, 11)) = cloud
    BY <1>2 DEF InFrame, Anchor
  <2>2. IsFiniteSet(cloud)
    BY RisingCloud
  <2>3. ASSUME NEW c \in band, NEW d \in {2, 5} PROVE [x |-> Cell * c + d, z |-> 2] \in cloud
    <3>1. [x |-> Cell * c + d - 0, z |-> 2] \in cloud
      BY RisingCloud
    <3>2. Cell * c + d - 0 = Cell * c + d
      BY DEF Cells, Cell
    <3> HIDE DEF cloud
    <3> QED
      BY <3>1, <3>2
  <2> HIDE DEF cloud
  <2>4. HasBand(cloud, band)
    BY <2>2, <2>3 DEF HasBand
  <2> QED
    BY <2>1, <2>4
<1> QED
  BY <1>1, <1>2

\* A choice of one or none.
LEMMA SomeAreFinite ==
    ASSUME NEW S, NEW some \in Some(S)
    PROVE  IsFiniteSet(some) /\ some \subseteq S
  BY FS_EmptySet, FS_Singleton DEF Some

\* The edits of the jobs may be applied.
LEMMA EditsOfJobs ==
    ASSUME NEW band, NEW gone, NEW line \in Some(Cells), NEW box \in Some({1, 2})
    PROVE  IsEdits(Edits(band, gone, line, box))
<1> DEFINE edits == Edits(band, gone, line, box)
           lines == {LineOf(c) : c \in line}
           boxes == {BoxOf(c) : c \in box}
<1>1. edits.size = 5 /\ edits.add_line = lines /\ edits.add_cloud = boxes
  BY DEF Edits
<1>2. IsFiniteSet(line) /\ line \subseteq Cells /\ IsFiniteSet(box)
  BY SomeAreFinite
<1>3. IsFiniteSet(lines)
  <2> DEFINE f == [c \in line |-> LineOf(c)]
  <2>1. f \in Surjection(line, lines)
    BY DEF Surjection
  <2> HIDE DEF f, lines
  <2> QED
    BY <1>2, <2>1, FS_Surjection
<1>4. IsFiniteSet(boxes)
  <2> DEFINE f == [c \in box |-> BoxOf(c)]
  <2>1. f \in Surjection(box, boxes)
    BY DEF Surjection
  <2> HIDE DEF f, boxes
  <2> QED
    BY <1>2, <2>1, FS_Surjection
<1>5. \A c \in Cells : IsLine(LineOf(c))
  BY DEF LineOf, IsLine, Cells, Cell
<1>6. \A l \in lines : IsLine(l)
  BY <1>2, <1>5
<1> HIDE DEF lines, boxes, edits
<1> QED
  BY <1>1, <1>3, <1>4, <1>6 DEF IsEdits, edits

\* What is not edited away, and every line, is in the grid.
LEMMA GridOfBand ==
    ASSUME NEW band \in SUBSET Cells, NEW gone \in Some(Cells), NEW line \in Some(Cells), NEW box \in Some({1, 2}),
           NEW cloud, HasBand(cloud, band)
    PROVE  (band \ gone) \cup line \subseteq BuildGrid(cloud, Edits(band, gone, line, box))
<1> DEFINE edits == Edits(band, gone, line, box)
<1>1. IsEdits(edits) /\ IsFiniteSet(cloud)
  BY EditsOfJobs DEF HasBand
<1>2. edits.size = 5
  BY DEF Edits
<1>3. ASSUME NEW c \in band \ gone PROVE c \in BuildGrid(cloud, edits)
  <2> DEFINE near == [x |-> Cell * c + 2, z |-> 2]
             far == [x |-> Cell * c + 5, z |-> 2]
  <2>1. c \in Int /\ c \in 0..edits.size - 1
    BY <1>2 DEF Cells
  <2>2. near \in cloud /\ far \in cloud
    BY DEF HasBand
  <2>3. \A g \in gone : g \in Int /\ g # c
    BY SomeAreFinite DEF Cells
  <2>4. \A g \in gone, d \in {2, 5} : ~InBox([x |-> Cell * c + d, z |-> 2], BoxOf(g))
    <3> SUFFICES ASSUME NEW g \in gone, NEW d \in {2, 5}, InBox([x |-> Cell * c + d, z |-> 2], BoxOf(g))
                 PROVE  FALSE
      OBVIOUS
    <3>1. "x" \in DOMAIN BoxOf(g) /\ BoxOf(g)["x"].lo = {Cell * g - 1} /\ BoxOf(g)["x"].hi = {Cell * (g + 1)}
      BY DEF BoxOf
    <3>2. Cell * c + d > Cell * g - 1 /\ Cell * c + d < Cell * (g + 1)
      BY <3>1 DEF InBox
    <3> QED
      BY <2>1, <2>3, <3>2 DEF Cell
  <2>5. edits.band.lo = 0 /\ edits.band.hi = 5 /\ edits.floor = 1 /\ edits.remove = {BoxOf(g) : g \in gone}
    BY DEF Edits
  <2>6. near \in Kept(cloud, edits) /\ far \in Kept(cloud, edits)
    <3>1. near.z = 2 /\ far.z = 2
      OBVIOUS
    <3>2. \A x \in edits.remove : ~InBox(near, x) /\ ~InBox(far, x)
      BY <2>4, <2>5
    <3> HIDE DEF near, far, edits
    <3> QED
      BY <2>2, <2>5, <3>1, <3>2 DEF Kept
  <2>7. near # far /\ near.x \div Cell = c /\ far.x \div Cell = c
    <3>1. near.x = Cell * c + 2 /\ far.x = Cell * c + 5
      OBVIOUS
    <3> HIDE DEF near, far
    <3> QED
      BY <2>1, <3>1 DEF Cell
  <2> HIDE DEF near, far, edits
  <2> QED
    BY <1>1, <2>1, <2>6, <2>7, GridHas
<1>4. ASSUME NEW c \in line PROVE c \in BuildGrid(cloud, edits)
  <2>1. c \in Cells
    BY SomeAreFinite
  <2>2. c \in 0..edits.size - 1
    BY <1>2, <2>1 DEF Cells
  <2>3. LineOf(c) \in edits.add_line
    BY DEF Edits
  <2>4. LineOf(c).a \div Cell = c
    BY <2>1 DEF LineOf, Cell, Cells
  <2> HIDE DEF edits
  <2> QED
    BY <1>1, <2>2, <2>3, <2>4, GridHas
<1> HIDE DEF edits
<1> QED
  BY <1>3, <1>4 DEF edits

-----------------------------------------------------------------------------
(* fit_lane_corridor: the runs                                             *)

\* A stretch in one piece, of a route the lemmas above are about.
StretchOf(stations, fit) ==
    \E n \in Nat : \E a \in 1..n : \E b \in a..n :
        stations \in [1..n -> RouteStations] /\ Zone(stations, fit) = a..b
\* What a run of refine must be given for the theorem to be about it.
FitAsked(stations, fit) == IsFit(fit) /\ Step < LeastMargin(fit) /\ StretchOf(stations, fit)

\* The profile and the route of the jobs without a pinch.
LaneFit(width) ==
    [width |-> width, min_width |-> 6, margin |-> 4, where |-> {0, 1, 2}, pinch |-> {}, margins |-> <<>>,
     strip |-> 1, pin |-> 1, cart |-> [rear |-> 2, front |-> 6, half |-> 4]]
LaneStations(forward, place) == [k \in 1..3 |-> Station(k - 1, forward, place)]

\* These jobs are such runs.
LEMMA LaneIsAsked ==
    ASSUME NEW width \in {8, 16}, NEW forward \in BOOLEAN, NEW place \in {17, 20}
    PROVE  /\ FitAsked(LaneStations(forward, place), LaneFit(width))
           /\ \A k \in DOMAIN LaneStations(forward, place) : LaneStations(forward, place)[k].x \in {0, 1, 2}
<1> DEFINE fit == LaneFit(width)
           stations == LaneStations(forward, place)
<1>1. /\ fit.width = width /\ fit.min_width = 6 /\ fit.margin = 4 /\ fit.where = {0, 1, 2} /\ fit.pinch = {}
      /\ fit.margins = <<>> /\ fit.cart.rear = 2 /\ fit.cart.front = 6 /\ fit.cart.half = 4
  BY DEF LaneFit
<1>4. stations \in [1..3 -> RouteStations] /\ \A k \in 1..3 : stations[k].x = k - 1
  BY DEF Station, RouteStations, LaneStations
<1> HIDE DEF fit, stations
<1>2. IsFit(fit)
  <2>1. Len(fit.margins) = 0 /\ DOMAIN fit.margins = {} /\ 1..0 = {}
    BY <1>1
  <2> QED
    BY <1>1, <2>1 DEF IsFit
<1>3. Step < LeastMargin(fit)
  <2>1. LeastMargin(fit) = fit.margin
    BY <1>1, <1>2, LeastIs
  <2> QED
    BY <1>1, <2>1 DEF Step
<1>5. Zone(stations, fit) = 1..3
  <2>1. DOMAIN stations = 1..3
    BY <1>4
  <2>2. \A k \in 1..3 : k - 1 \in {0, 1, 2}
    OBVIOUS
  <2> QED
    BY <1>1, <1>4, <2>1, <2>2 DEF Zone
<1>6. StretchOf(stations, fit)
  <2>1. 3 \in Nat /\ 1 \in 1..3 /\ 3 \in 1..3
    OBVIOUS
  <2> QED
    BY <1>4, <1>5, <2>1 DEF StretchOf
<1>7. \A k \in DOMAIN stations : stations[k].x \in {0, 1, 2}
  BY <1>4
<1>8. FitAsked(stations, fit)
  BY <1>2, <1>3, <1>6 DEF FitAsked
<1> QED
  BY <1>7, <1>8 DEF fit, stations

\* The overrides of the jobs.
Override(m) ==
    [where |-> {0, 12, 16}, at_least |-> IF m = "high" THEN {6} ELSE {}, at_most |-> IF m = "low" THEN {3} ELSE {}]

\* They are overrides, and none asks for less than three.
LEMMA MasksAre ==
    ASSUME NEW mask \in Seq({"low", "high"}), NEW margins, margins = [k \in DOMAIN mask |-> Override(mask[k])]
    PROVE  /\ Len(margins) \in Nat /\ DOMAIN margins = 1..Len(margins)
           /\ \A k \in DOMAIN margins : IsMask(margins[k]) /\ margins[k].at_most \subseteq {3}
<1>1. PICK n \in Nat : DOMAIN mask = 1..n
  OBVIOUS
<1>2. ASSUME NEW m PROVE IsMask(Override(m)) /\ Override(m).at_most \subseteq {3}
  <2>1. /\ IsFiniteSet(IF m = "high" THEN {6} ELSE {}) /\ IsFiniteSet(IF m = "low" THEN {3} ELSE {})
        /\ (IF m = "high" THEN {6} ELSE {}) \subseteq {6} /\ (IF m = "low" THEN {3} ELSE {}) \subseteq {3}
    BY FS_EmptySet, FS_Singleton
  <2>2. Override(m).at_least = (IF m = "high" THEN {6} ELSE {}) /\ Override(m).at_most = (IF m = "low" THEN {3} ELSE {})
    BY DEF Override
  <2>3. {6} \subseteq Int /\ {3} \subseteq Int
    OBVIOUS
  <2> DEFINE o == Override(m)
             least == IF m = "high" THEN {6} ELSE {}
             most == IF m = "low" THEN {3} ELSE {}
  <2>4. o.at_least = least /\ o.at_most = most /\ least \subseteq Int /\ most \subseteq Int /\ most \subseteq {3}
        /\ IsFiniteSet(least) /\ IsFiniteSet(most)
    BY <2>1, <2>2, <2>3
  <2> HIDE DEF o, least, most
  <2>5. IsMask(o) /\ o.at_most \subseteq {3}
    BY <2>4 DEF IsMask
  <2> QED
    BY <2>5 DEF o
<1>3. margins \in Seq({Override(m) : m \in {"low", "high"}})
  BY <1>1
<1>4. Len(margins) \in Nat /\ DOMAIN margins = 1..Len(margins)
  BY <1>3
<1>5. \A k \in DOMAIN margins : margins[k] = Override(mask[k])
  OBVIOUS
<1> QED
  BY <1>2, <1>4, <1>5

\* The pinch of the jobs.
ShelvesPinch(pad, hold, cap) ==
    [lo |-> 8, hi |-> 12, pad |-> pad, hold |-> hold, width |-> 8, ease |-> 6,
     edge_margin |-> cap, body |-> {[low |-> 8, high |-> 32, margin |-> 2]}]

\* The profile of the jobs with a pinch.
PinchFit(width, pinch, margins) ==
    [width |-> width, min_width |-> 6, margin |-> 4, pin |-> 1, where |-> {0, 4, 8, 12, 16, 20},
     pinch |-> {pinch}, margins |-> margins, strip |-> 1,
     cart |-> [rear |-> 2, front |-> 6, half |-> 4]]

IsShelves(pinch) ==
    \E pad \in {0, 2}, hold \in SUBSET Int, cap \in {{}, {3}} : pinch = ShelvesPinch(pad, hold, cap)
AreMasks(margins) == \E mask \in Seq({"low", "high"}) : margins = [k \in DOMAIN mask |-> Override(mask[k])]

\* Its margins are wider than a step of the ray.
LEMMA PinchIsAsked ==
    ASSUME NEW width \in {6, 16}, NEW pinch, IsShelves(pinch), NEW margins, AreMasks(margins)
    PROVE  IsFit(PinchFit(width, pinch, margins)) /\ Step < LeastMargin(PinchFit(width, pinch, margins))
<1> DEFINE fit == PinchFit(width, pinch, margins)
<1>1. /\ fit.width \in {6, 16} /\ fit.min_width = 6 /\ fit.margin = 4 /\ fit.pinch = {pinch} /\ fit.margins = margins
      /\ fit.cart.rear = 2 /\ fit.cart.front = 6 /\ fit.cart.half = 4
  BY DEF PinchFit
<1> HIDE DEF fit
<1>2. /\ Len(margins) \in Nat /\ DOMAIN margins = 1..Len(margins)
      /\ \A k \in DOMAIN margins : IsMask(margins[k]) /\ margins[k].at_most \subseteq {3}
  BY MasksAre DEF AreMasks
<1>3. IsPinch(pinch, fit) /\ pinch.edge_margin \subseteq {3}
  <2>1. PICK pad \in {0, 2}, hold \in SUBSET Int, cap \in {{}, {3}} : pinch = ShelvesPinch(pad, hold, cap)
    BY DEF IsShelves
  <2>2. /\ pinch.lo = 8 /\ pinch.hi = 12 /\ pinch.pad \in {0, 2} /\ pinch.width = 8 /\ pinch.ease = 6
        /\ pinch.edge_margin \in {{}, {3}} /\ pinch.body = {[low |-> 8, high |-> 32, margin |-> 2]}
    BY <2>1 DEF ShelvesPinch
  <2>3. IsFiniteSet(pinch.edge_margin) /\ IsFiniteSet(pinch.body)
    <3>1. IsFiniteSet({}) /\ IsFiniteSet({3}) /\ IsFiniteSet({[low |-> 8, high |-> 32, margin |-> 2]})
      BY FS_EmptySet, FS_Singleton
    <3>2. pinch.edge_margin = {} \/ pinch.edge_margin = {3}
      BY <2>2
    <3>3. IsFiniteSet(pinch.edge_margin)
      BY <3>1, <3>2, Zenon
    <3> QED
      BY <2>2, <3>1, <3>3
  <2>4. pinch.edge_margin \in SUBSET Int /\ pinch.edge_margin \subseteq {3}
    BY <2>2
  <2>5. \A body \in pinch.body : body.low = 8 /\ body.high = 32 /\ body.margin = 2
    BY <2>2
  <2> QED
    BY <1>1, <2>2, <2>3, <2>4, <2>5 DEF IsPinch
<1>4. IsFit(fit)
  <2>1. fit.width \in Int /\ fit.min_width \in Nat /\ fit.margin \in Int
    BY <1>1
  <2>2. fit.cart.rear \in Nat /\ fit.cart.front \in Nat /\ fit.cart.half \in Nat
    BY <1>1
  <2>3. /\ Len(fit.margins) \in Nat /\ DOMAIN fit.margins = 1..Len(fit.margins)
        /\ \A k \in DOMAIN fit.margins : IsMask(fit.margins[k])
    <3>1. fit.margins = margins
      BY <1>1
    <3> QED
      BY <1>2, <3>1, Zenon
  <2>4. \A p \in fit.pinch : IsPinch(p, fit) /\ fit.pinch = {p}
    <3>1. fit.pinch = {pinch}
      BY <1>1
    <3> QED
      BY <1>3, <3>1, Zenon
  <2> QED
    BY <2>1, <2>2, <2>3, <2>4 DEF IsFit
<1>5. LeastMargin(fit) \in {3, 4}
  <2>1. \/ LeastMargin(fit) = fit.margin
        \/ \E k \in DOMAIN fit.margins : LeastMargin(fit) \in fit.margins[k].at_most
        \/ \E p \in fit.pinch : LeastMargin(fit) \in p.edge_margin
    BY <1>4, LeastIs
  <2>2. fit.margin = 4 /\ fit.pinch = {pinch} /\ fit.margins = margins
    BY <1>1
  <2> QED
    BY <1>2, <1>3, <2>1, <2>2
<1>6. IsFit(fit) /\ Step < LeastMargin(fit)
  BY <1>4, <1>5 DEF Step
<1> QED
  BY <1>6 DEF fit

\* A stretch in one piece.
LEMMA StretchIs ==
    ASSUME NEW n \in Nat, NEW a \in 1..n, NEW b \in a..n, NEW stations \in [1..n -> RouteStations], NEW fit,
           Zone(stations, fit) = a..b
    PROVE  StretchOf(stations, fit)
  BY Zenon DEF StretchOf

\* The route past the shelves, forward or back.
PinchStations(forward, places) ==
    [k \in 1..7 |-> LET x == 4 * (IF forward THEN k - 1 ELSE 7 - k)
                    IN  Station(x, forward, places[IF x < 7 THEN 1 ELSE IF x < 14 THEN 2 ELSE 3])]

\* Either way the stretch is in one piece.
LEMMA PinchRoute ==
    ASSUME NEW forward \in BOOLEAN, NEW places \in [1..3 -> {18, 21}], NEW stations, NEW fit,
           fit.where = {0, 4, 8, 12, 16, 20}, stations = PinchStations(forward, places)
    PROVE  StretchOf(stations, fit)
<1> DEFINE at(k) == 4 * (IF forward THEN k - 1 ELSE 7 - k)
<1>1. ASSUME NEW k \in 1..7 PROVE stations[k] \in RouteStations /\ stations[k].x = at(k)
  <2> DEFINE p == places[IF at(k) < 7 THEN 1 ELSE IF at(k) < 14 THEN 2 ELSE 3]
  <2>1. stations[k] = Station(at(k), forward, p)
    BY DEF PinchStations
  <2>2. (IF at(k) < 7 THEN 1 ELSE IF at(k) < 14 THEN 2 ELSE 3) \in 1..3
    OBVIOUS
  <2>3. p \in Int
    BY <2>2
  <2>4. at(k) \in Int
    OBVIOUS
  <2> HIDE DEF p, at
  <2> QED
    BY <2>1, <2>3, <2>4 DEF Station, RouteStations
<1>2. stations \in [1..7 -> RouteStations] /\ DOMAIN stations = 1..7
  <2>1. \A k \in 1..7 : stations[k] \in RouteStations
    BY <1>1
  <2> QED
    BY <2>1 DEF PinchStations
<1>3. Zone(stations, fit) = {k \in 1..7 : at(k) \in {0, 4, 8, 12, 16, 20}}
  <2> HIDE DEF at
  <2> QED
    BY <1>1, <1>2 DEF Zone
<1>4. CASE forward
  <2>1. {k \in 1..7 : at(k) \in {0, 4, 8, 12, 16, 20}} = 1..6
    BY <1>4
  <2> DEFINE n == 7
             a == 1
             b == 6
  <2>2. n \in Nat /\ a \in 1..n /\ b \in a..n /\ stations \in [1..n -> RouteStations] /\ Zone(stations, fit) = a..b
    BY <1>2, <1>3, <2>1
  <2> HIDE DEF at, n, a, b
  <2> QED
    BY <2>2, StretchIs
<1>5. CASE ~forward
  <2>1. {k \in 1..7 : at(k) \in {0, 4, 8, 12, 16, 20}} = 2..7
    BY <1>5
  <2> DEFINE n == 7
             a == 2
             b == 7
  <2>2. n \in Nat /\ a \in 1..n /\ b \in a..n /\ stations \in [1..n -> RouteStations] /\ Zone(stations, fit) = a..b
    BY <1>2, <1>3, <2>1
  <2> HIDE DEF at, n, a, b
  <2> QED
    BY <2>2, StretchIs
<1> QED
  BY <1>4, <1>5

\* obstacle_grid: refused with one anchor, else the grid of the cloud in its frame.
LEMMA GridIs ==
    ASSUME NEW cloud, NEW from, NEW to, NEW edits, IsEdits(edits)
    PROVE  /\ ObstacleGrid(cloud, from, to, edits).occ \subseteq Int
           /\ from.given = to.given =>
                /\ ~ObstacleGrid(cloud, from, to, edits).refused
                /\ ObstacleGrid(cloud, from, to, edits).occ = BuildGrid(InFrame(cloud, from, to), edits)
<1>1. CASE from.given = to.given
  <2>1. ObstacleGrid(cloud, from, to, edits) = [refused |-> FALSE, occ |-> BuildGrid(InFrame(cloud, from, to), edits)]
    BY <1>1, Zenon DEF ObstacleGrid, InFrame
  <2>2. BuildGrid(InFrame(cloud, from, to), edits) \subseteq Int
    BY GridIsCells
  <2> QED
    BY <2>1, <2>2
<1>2. CASE from.given # to.given
  <2>1. ObstacleGrid(cloud, from, to, edits) = [refused |-> TRUE, occ |-> {}]
    BY <1>2, Zenon DEF ObstacleGrid
  <2> QED
    BY <1>2, <2>1
<1> QED
  BY <1>1, <1>2

\* The grid of a job.
GridOf(j) == ObstacleGrid(j.cloud, j.from, j.to, j.edits)

\* What a run of fit_lane_corridor is asked, as far as the lemmas need it.
FitJob ==
    job.tool = "fit" =>
        /\ FitAsked(job.route, job.fit) /\ GridOf(job).occ \subseteq Int
        /\ job.from.given = job.to.given => ~GridOf(job).refused
        /\ job.pinch = {} =>
            /\ job.fit.strip = 1 /\ \A k \in DOMAIN job.route : job.route[k].x \in {0, 1, 2}
            /\ job.from.given = job.to.given => (job.band \ job.gone) \cup job.line \subseteq GridOf(job).occ

\* What the jobs without a pinch ask for.
LEMMA JobLaneIsFit == JobLane => FitJob
<1> SUFFICES ASSUME JobLane PROVE FitJob
  OBVIOUS
<1>1. PICK band \in SUBSET Cells, gone \in Some(Cells), line \in Some(Cells), box \in Some({1, 2}),
           place \in {17, 20}, width \in {8, 16} :
        \E from, to \in IF line \cup box = {} THEN BOOLEAN ELSE {FALSE} :
    job = [tool |-> "fit", band |-> band, gone |-> gone, line |-> line, pinch |-> {},
           from |-> Anchor(from, 3), to |-> Anchor(to, 11), cloud |-> CloudOf(band, IF from /\ to THEN 8 ELSE 0),
           edits |-> Edits(band, gone, line, box),
           route |-> [k \in 1..3 |-> Station(k - 1, gone # {}, place)],
           fit |-> [width |-> width, min_width |-> 6, margin |-> 4, where |-> {0, 1, 2}, pinch |-> {}, margins |-> <<>>,
                    strip |-> 1, pin |-> 1, cart |-> [rear |-> 2, front |-> 6, half |-> 4]]]
  BY Zenon DEF JobLane
<1>2. PICK from \in BOOLEAN, to \in BOOLEAN :
    job = [tool |-> "fit", band |-> band, gone |-> gone, line |-> line, pinch |-> {},
           from |-> Anchor(from, 3), to |-> Anchor(to, 11), cloud |-> CloudOf(band, IF from /\ to THEN 8 ELSE 0),
           edits |-> Edits(band, gone, line, box),
           route |-> LaneStations(gone # {}, place), fit |-> LaneFit(width)]
  <2>1. (IF line \cup box = {} THEN BOOLEAN ELSE {FALSE}) \subseteq BOOLEAN
    OBVIOUS
  <2>2. PICK from \in BOOLEAN, to \in BOOLEAN :
    job = [tool |-> "fit", band |-> band, gone |-> gone, line |-> line, pinch |-> {},
           from |-> Anchor(from, 3), to |-> Anchor(to, 11), cloud |-> CloudOf(band, IF from /\ to THEN 8 ELSE 0),
           edits |-> Edits(band, gone, line, box),
           route |-> [k \in 1..3 |-> Station(k - 1, gone # {}, place)],
           fit |-> [width |-> width, min_width |-> 6, margin |-> 4, where |-> {0, 1, 2}, pinch |-> {}, margins |-> <<>>,
                    strip |-> 1, pin |-> 1, cart |-> [rear |-> 2, front |-> 6, half |-> 4]]]
    BY <1>1, <2>1, Zenon
  <2> QED
    BY <2>2, Zenon DEF LaneStations, LaneFit
<1>8. /\ job.band = band /\ job.gone = gone /\ job.line = line
      /\ job.from = Anchor(from, 3) /\ job.to = Anchor(to, 11)
      /\ job.cloud = CloudOf(band, IF from /\ to THEN 8 ELSE 0)
      /\ job.edits = Edits(band, gone, line, box)
      /\ job.route = LaneStations(gone # {}, place) /\ job.fit = LaneFit(width)
  BY <1>2
<1>3. FitAsked(job.route, job.fit) /\ \A k \in DOMAIN job.route : job.route[k].x \in {0, 1, 2}
  <2> DEFINE forward == gone # {}
  <2>1. forward \in BOOLEAN
    OBVIOUS
  <2>2. job.route = LaneStations(forward, place)
    BY <1>8
  <2> HIDE DEF forward
  <2> QED
    BY <1>8, <2>1, <2>2, LaneIsAsked
<1>4. job.fit.strip = 1
  BY <1>8 DEF LaneFit
<1>5. IsEdits(job.edits)
  BY <1>8, EditsOfJobs
<1>6. GridOf(job).occ \subseteq Int /\ (job.from.given = job.to.given => ~GridOf(job).refused)
  BY <1>5, GridIs DEF GridOf
<1>7. ASSUME job.from.given = job.to.given PROVE (job.band \ job.gone) \cup job.line \subseteq GridOf(job).occ
  <2>1. from = to
    BY <1>7, <1>8 DEF Anchor
  <2> DEFINE cloud == InFrame(job.cloud, job.from, job.to)
  <2>2. cloud = InFrame(CloudOf(band, IF from THEN 8 ELSE 0), Anchor(from, 3), Anchor(from, 11))
    <3>1. (IF from /\ to THEN 8 ELSE 0) = (IF from THEN 8 ELSE 0)
      BY <2>1
    <3> QED
      BY <1>8, <2>1, <3>1, Zenon
  <2>3. HasBand(cloud, band)
    BY <2>2, CloudArrives
  <2>4. GridOf(job).occ = BuildGrid(cloud, job.edits)
    BY <1>5, <1>7, GridIs DEF GridOf
  <2> HIDE DEF cloud
  <2>5. (band \ gone) \cup line \subseteq BuildGrid(cloud, Edits(band, gone, line, box))
    BY <2>3, GridOfBand
  <2> QED
    BY <1>8, <2>4, <2>5, Zenon
<1> QED
  BY <1>3, <1>4, <1>6, <1>7, Zenon DEF FitJob

\* What the jobs with a pinch ask for.
LEMMA JobPinchIsFit == JobPinch => FitJob
<1> SUFFICES ASSUME JobPinch PROVE FitJob
  OBVIOUS
<1>1. PICK forward \in BOOLEAN, places \in [1..3 -> {18, 21}], pad \in {0, 2}, hold \in {{}, {16}},
           width \in {6, 16}, cap \in {{}, {3}} : \E mask \in {<<>>, <<"low">>, <<"high", "low">>, <<"low", "high">>} :
    LET place(x) == places[IF x < 7 THEN 1 ELSE IF x < 14 THEN 2 ELSE 3]
        override(m) == [where |-> {0, 12, 16}, at_least |-> IF m = "high" THEN {6} ELSE {},
                        at_most |-> IF m = "low" THEN {3} ELSE {}]
        pinch == [lo |-> 8, hi |-> 12, pad |-> pad, hold |-> hold, width |-> 8, ease |-> 6,
                  edge_margin |-> cap, body |-> {[low |-> 8, high |-> 32, margin |-> 2]}]
    IN  job = [tool |-> "fit", band |-> {0, 4}, gone |-> {}, line |-> {}, pinch |-> {pinch},
               from |-> Anchor(FALSE, 0), to |-> Anchor(FALSE, 0), cloud |-> CloudOf({0, 4}, 0),
               edits |-> Edits({0, 4}, {}, {}, {}),
               route |-> [k \in 1..7 |-> LET x == 4 * (IF forward THEN k - 1 ELSE 7 - k)
                                         IN  Station(x, forward, place(x))],
               fit |-> [width |-> width, min_width |-> 6, margin |-> 4, pin |-> 1, where |-> {0, 4, 8, 12, 16, 20},
                        pinch |-> {pinch},
                        margins |-> [k \in DOMAIN mask |-> override(mask[k])], strip |-> 1,
                        cart |-> [rear |-> 2, front |-> 6, half |-> 4]]]
  BY Zenon DEF JobPinch
<1>2. PICK mask \in {<<>>, <<"low">>, <<"high", "low">>, <<"low", "high">>} :
    LET pinch == ShelvesPinch(pad, hold, cap)
    IN  job = [tool |-> "fit", band |-> {0, 4}, gone |-> {}, line |-> {}, pinch |-> {pinch},
               from |-> Anchor(FALSE, 0), to |-> Anchor(FALSE, 0), cloud |-> CloudOf({0, 4}, 0),
               edits |-> Edits({0, 4}, {}, {}, {}), route |-> PinchStations(forward, places),
               fit |-> PinchFit(width, pinch, [k \in DOMAIN mask |-> Override(mask[k])])]
  BY <1>1, Zenon DEF ShelvesPinch, Override, PinchStations, PinchFit
<1> DEFINE pinch == ShelvesPinch(pad, hold, cap)
           margins == [k \in DOMAIN mask |-> Override(mask[k])]
<1>3. /\ job.pinch = {pinch} /\ job.route = PinchStations(forward, places)
      /\ job.edits = Edits({0, 4}, {}, {}, {})
      /\ job.fit = PinchFit(width, pinch, margins)
  <2> HIDE DEF pinch, margins
  <2> QED
    BY <1>2 DEF pinch, margins
<1>4. IsFit(job.fit) /\ Step < LeastMargin(job.fit)
  <2>1. mask \in Seq({"low", "high"})
    <3>1. CASE mask = <<>>
      BY <3>1
    <3>2. CASE mask = <<"low">>
      BY <3>2
    <3>3. CASE mask = <<"high", "low">>
      BY <3>3
    <3>4. CASE mask = <<"low", "high">>
      BY <3>4
    <3> QED
      BY <3>1, <3>2, <3>3, <3>4
  <2>2. hold \in SUBSET Int
    OBVIOUS
  <2>3. IsShelves(pinch)
    BY <2>2 DEF IsShelves
  <2>4. AreMasks(margins)
    BY <2>1 DEF AreMasks
  <2> HIDE DEF pinch, margins
  <2> QED
    BY <1>3, <2>3, <2>4, PinchIsAsked
<1>5. StretchOf(job.route, job.fit)
  <2>1. job.fit.where = {0, 4, 8, 12, 16, 20}
    BY <1>3 DEF PinchFit
  <2> HIDE DEF pinch, margins
  <2> QED
    BY <1>3, <2>1, PinchRoute
<1>6. IsEdits(job.edits)
  <2>1. {} \in Some(Cells) /\ {} \in Some({1, 2})
    BY DEF Some
  <2> QED
    BY <1>3, <2>1, EditsOfJobs
<1>7. GridOf(job).occ \subseteq Int /\ (job.from.given = job.to.given => ~GridOf(job).refused)
  BY <1>6, GridIs DEF GridOf
<1>8. job.pinch # {}
  BY <1>3
<1> QED
  BY <1>4, <1>5, <1>7, <1>8, Zenon DEF FitJob, FitAsked

\* obstacle_grid, fit_lane_corridor refine and check_lane_clearance: every lane
\* that the run fits is clear of what is in its way, and there is one wherever
\* the cloud could be placed.
THEOREM FitInRun == Spec => []FittedLaneIsClear
<1> DEFINE Inv == FitJob /\ Ran("fit", FitResult(job))
<1>1. Init => Inv
  BY JobsOfOthers, JobsProved, JobLaneIsFit, JobPinchIsFit DEF Init, Ran, FitJob
<1>2. Inv /\ [Next]_vars => Inv'
  <2> SUFFICES ASSUME Inv, [Next]_vars PROVE Inv'
    OBVIOUS
  <2>1. job' = job
    BY JobStays
  <2>2. FitJob'
    BY <2>1 DEF FitJob
  <2> QED
    BY <2>2, RunsOnce
<1>3. Inv => FittedLaneIsClear
  <2> SUFFICES ASSUME Inv, Did("fit")
               PROVE  /\ job.from.given = job.to.given => out.lanes # {}
                      /\ \A lane \in out.lanes : lane.free =>
                            /\ Clear(lane, out.occ, job.fit)
                            /\ job.pinch = {} =>
                                \A cell \in (job.band \ job.gone) \cup job.line :
                                    Apart(lane, cell, LeastMargin(job.fit) - Step)
    BY DEF FittedLaneIsClear
  <2> DEFINE grid == GridOf(job)
             occ == IF job.pinch = {} THEN Along(grid.occ) ELSE Shelves \X grid.occ
             fit == job.fit
             stations == job.route
  <2>1. /\ FitAsked(stations, fit) /\ grid.occ \subseteq Int
        /\ job.from.given = job.to.given => ~grid.refused
    BY DEF Did, FitJob
  <2>2. out.occ = occ /\ out.lanes = IF grid.refused THEN {} ELSE RefinedLanes(occ, stations, fit)
    <3>1. out = FitResult(job)
      BY DEF Did, Ran
    <3>2. FitResult(job) = [occ |-> occ, lanes |-> IF grid.refused THEN {} ELSE RefinedLanes(occ, stations, fit)]
      BY Zenon DEF FitResult, GridOf
    <3> HIDE DEF grid, occ
    <3> QED
      BY <3>1, <3>2
  <2>3. occ \in SUBSET (Int \X Int)
    <3> HIDE DEF grid
    <3> QED
      BY <2>1 DEF Along, Shelves
  <2> HIDE DEF occ
  <2>4. PICK n \in Nat : \E a \in 1..n : \E b \in a..n :
            stations \in [1..n -> RouteStations] /\ Zone(stations, fit) = a..b
    BY <2>1 DEF FitAsked, StretchOf
  <2>5. IsFit(fit) /\ Step < LeastMargin(fit) /\ stations \in [1..n -> RouteStations]
    BY <2>1, <2>4 DEF FitAsked
  <2> HIDE DEF fit, stations, grid
  <2>6. RefinedLanes(occ, stations, fit) # {}
    <3>1. PICK a \in 1..n : \E b \in a..n : Zone(stations, fit) = a..b
      BY <2>4
    <3>2. PICK b \in a..n : Zone(stations, fit) = a..b
      BY <3>1
    <3> QED
      BY <2>3, <2>5, <3>2, LanesThere
  <2>7. ASSUME NEW lane \in out.lanes, lane.free PROVE Clear(lane, out.occ, fit)
    <3>1. lane \in RefinedLanes(occ, stations, fit)
      BY <2>2, <2>7
    <3>2. Clear(lane, occ, fit)
      BY <2>3, <2>5, <2>7, <3>1, AnyLaneIsClear
    <3> QED
      BY <2>2, <3>2
  <2>8. ASSUME NEW lane \in out.lanes, lane.free, job.pinch = {},
               NEW cell \in (job.band \ job.gone) \cup job.line
        PROVE  Apart(lane, cell, LeastMargin(fit) - Step)
    <3>1. lane \in RefinedLanes(occ, stations, fit) /\ ~grid.refused
      BY <2>2, <2>8
    <3>2. PICK i \in DOMAIN stations : lane.station = stations[i]
      <4>1. PICK i \in Zone(stations, fit) : lane \in LanesAt(occ, stations, i, fit)
        BY <3>1 DEF RefinedLanes
      <4>2. i \in DOMAIN stations
        BY DEF Zone
      <4>3. lane.station = stations[i]
        BY <4>1, LanesAre DEF LaneOf
      <4> QED
        BY <4>2, <4>3
    <3>3. fit.strip = 1 /\ stations[i].x \in {0, 1, 2}
      BY <2>8 DEF Did, FitJob, fit, stations
    <3>4. cell \in grid.occ
      <4>1. job.from.given = job.to.given
        <5>1. ~(job.from.given = job.to.given) => grid.refused
          BY Zenon DEF grid, GridOf, ObstacleGrid
        <5> QED
          BY <3>1, <5>1
      <4> QED
        BY <2>8, <4>1 DEF Did, FitJob, grid
    <3>5. <<1, cell>> \in occ
      BY <2>8, <3>4 DEF occ, Along
    <3>6. cell \in CellsBeside(occ, lane.station.x, fit.strip)
      <4> DEFINE c == <<1, cell>>
      <4>1. c \in occ /\ c[1] = 1 /\ c[2] = cell
        BY <3>5
      <4> HIDE DEF c
      <4> QED
        BY <3>2, <3>3, <4>1 DEF CellsBeside
    <3>7. Clear(lane, out.occ, fit) /\ out.occ = occ
      BY <2>2, <2>7, <2>8
    <3> QED
      BY <3>6, <3>7 DEF Clear
  <2>9. job.from.given = job.to.given => out.lanes # {}
    BY <2>1, <2>2, <2>6
  <2> QED
    BY <2>7, <2>8, <2>9 DEF fit
<1> QED
  BY <1>1, <1>2, <1>3, PTL DEF Spec

-----------------------------------------------------------------------------
(* generate_tag_map: the stations of one segment                           *)

\* The stations laid so far are whole multiples of the spacing, the quotients
\* quo, and q is the last; from it to where the way is now is what is carried.
Laid(was, quo, q, spacing, ends, at) ==
    /\ was.travelled = at /\ was.carried \in 0..spacing - 1 /\ q \in Nat /\ at = spacing * q + was.carried
    /\ quo \in Seq(Nat) /\ was.stations \in Seq(Int) /\ Len(was.stations) = Len(quo)
    /\ \A i \in 1..Len(quo) : was.stations[i] = spacing * quo[i]
    /\ at = 0 <=> quo = <<>>
    /\ quo # <<>> => quo[1] = 0 /\ quo[Len(quo)] = q
    /\ \A r \in 0..q : at # 0 => \E i \in 1..Len(quo) : quo[i] = r
    /\ \A i \in 1..Len(quo) : quo[i] <= q
    /\ \A i \in 1..Len(quo) - 1 : quo[i + 1] = quo[i] + 1 \/ (quo[i + 1] = quo[i] /\ spacing * quo[i] \in ends)

\* One segment, as resample goes over it.
Over(was, segment, spacing) ==
    LET first == IF was.carried = 0 THEN 0 ELSE spacing - was.carried
        count == IF segment < first THEN 0 ELSE 1 + (segment - first) \div spacing
    IN  IF segment = 0 THEN was
        ELSE [carried |-> Carried(segment, first, spacing),
              travelled |-> was.travelled + segment,
              stations |-> was.stations \o
                   [i \in 1..count |-> was.travelled + first + (i - 1) * spacing]]

\* What holds of a segment: its first station is the p-th, and m + 1 fit on it.
SegmentHas(spacing, segment, carried, q, at) ==
    LET first == IF carried = 0 THEN 0 ELSE spacing - carried
        m == (segment - first) \div spacing
        p == IF carried = 0 THEN q ELSE q + 1
    IN  /\ m \in Int /\ -1 <= m /\ (segment < first <=> m = -1)
        /\ (carried = 0 => m >= 0)
        /\ (segment - first) % spacing \in 0..spacing - 1
        /\ at + segment = spacing * (p + m) + ((segment - first) % spacing)
        /\ \A i \in Int : at + first + (i - 1) * spacing = spacing * (p + (i - 1))

\* The stations of one segment: they begin with the p-th and are m + 1.
LEMMA SegmentIs ==
    ASSUME NEW spacing \in Nat \ {0}, NEW segment \in Nat \ {0}, NEW carried \in 0..spacing - 1,
           NEW q \in Nat, NEW at \in Nat, at = spacing * q + carried
    PROVE  SegmentHas(spacing, segment, carried, q, at)
<1> DEFINE first == IF carried = 0 THEN 0 ELSE spacing - carried
           rest == segment - first
           m == rest \div spacing
           p == IF carried = 0 THEN q ELSE q + 1
           left == rest % spacing
<1>1. first \in Int /\ 0 <= first /\ first < spacing /\ rest \in Int /\ p \in Int /\ (carried = 0 => first = 0)
      /\ rest = segment - first
  OBVIOUS
<1>2. spacing * p = at + first
  <2>1. CASE carried = 0
    BY <2>1
  <2>2. CASE carried # 0
    <3>1. spacing * (q + 1) = spacing * q + spacing
      BY SumTimes
    <3> QED
      BY <2>2, <3>1
  <2> QED
    BY <2>1, <2>2
<1>3. m \in Int /\ spacing * m <= rest /\ rest < spacing * m + spacing
      /\ left \in 0..spacing - 1 /\ rest = spacing * m + left
  <2> HIDE DEF rest
  <2> QED
    BY <1>1, DivFacts, ModFacts
<1> DEFINE sm == spacing * m
<1>4. -1 <= m /\ (rest < 0 => m = -1) /\ (rest >= 0 => 0 <= m)
  <2> HIDE DEF m, rest
  <2>1. sm \in Int
    BY <1>3
  <2>2. CASE m <= -2
    <3>1. spacing * m <= spacing * (-2)
      BY <1>3, <2>2, Ordered
    <3> QED
      BY <1>1, <1>3, <3>1
  <2>3. CASE m = -1
    <3>1. sm = -spacing
      BY <2>3
    <3> HIDE DEF sm
    <3> QED
      BY <1>1, <1>3, <2>3, <3>1
  <2>4. CASE m >= 0
    <3>1. spacing * 0 <= spacing * m
      BY <1>3, <2>4, Ordered
    <3> QED
      BY <1>1, <1>3, <2>4, <3>1
  <2> QED
    BY <1>3, <2>2, <2>3, <2>4
<1>5. segment < first <=> m = -1
  <2> HIDE DEF m, first
  <2> QED
    BY <1>1, <1>3, <1>4
<1>6. at + segment = spacing * (p + m) + left
  <2> HIDE DEF m, left, rest, p, first
  <2>1. spacing * (p + m) = spacing * p + spacing * m
    BY <1>1, <1>3, SumTimes
  <2> QED
    BY <1>1, <1>2, <1>3, <2>1
<1>7. ASSUME NEW i \in Int PROVE at + first + (i - 1) * spacing = spacing * (p + (i - 1))
  <2> DEFINE j == i - 1
  <2>1. j \in Int
    OBVIOUS
  <2> HIDE DEF p, first, j
  <2>2. spacing * (p + j) = spacing * p + spacing * j /\ j * spacing = spacing * j
    BY <1>1, <2>1, SumTimes
  <2>3. at + first + j * spacing = spacing * (p + j)
    BY <1>1, <1>2, <2>1, <2>2
  <2> QED
    BY <2>3 DEF j
<1>8. carried = 0 => m >= 0
  <2> HIDE DEF m, first
  <2> QED
    BY <1>1, <1>3, <1>4
<1> QED
  BY <1>3, <1>4, <1>5, <1>6, <1>7, <1>8, Zenon DEF SegmentHas

\* Two sequences in a row.
InARow(S, s, n, t) ==
    /\ s \o t \in Seq(S) /\ Len(s \o t) = Len(s) + n
    /\ \A i \in 1..Len(s) : (s \o t)[i] = s[i]
    /\ \A i \in 1..n : (s \o t)[Len(s) + i] = t[i]

\* A sequence is continued by another's elements.
LEMMA Joins ==
    ASSUME NEW S, NEW s \in Seq(S), NEW n \in Nat, NEW t \in [1..n -> S]
    PROVE  InARow(S, s, n, t)
<1>1. t \in Seq(S) /\ Len(t) = n
  OBVIOUS
<1> QED
  BY <1>1 DEF InARow

\* A product is zero if a factor is.
LEMMA NoProduct ==
    ASSUME NEW m \in Nat \ {0}, NEW q \in Nat, NEW c \in Nat, m * q + c = 0 PROVE q = 0 /\ c = 0
<1>1. m * q \in Int /\ m * 0 <= m * q
  BY Ordered
<1>2. q >= 1 => m * 1 <= m * q
  BY Ordered
<1> DEFINE mq == m * q
<1> HIDE DEF mq
<1>3. mq \in Int /\ 0 <= mq /\ (q >= 1 => m <= mq) /\ mq + c = 0
  BY <1>1, <1>2 DEF mq
<1> QED
  BY <1>3

\* Another segment: the stations that were laid stay, and those of the segment
\* follow without a gap.
LEMMA LaysOn ==
    ASSUME NEW spacing \in Nat \ {0}, NEW ends, NEW at \in Nat, NEW was, NEW quo, NEW q,
           Laid(was, quo, q, spacing, ends, at), NEW segment \in Nat \ {0}, at \in ends
    PROVE  \E quo2, q2 : Laid(Over(was, segment, spacing), quo2, q2, spacing, ends, at + segment)
<1> DEFINE carried == was.carried
           first == IF carried = 0 THEN 0 ELSE spacing - carried
           m == (segment - first) \div spacing
           p == IF carried = 0 THEN q ELSE q + 1
           left == (segment - first) % spacing
           count == IF segment < first THEN 0 ELSE 1 + (segment - first) \div spacing
           new == [i \in 1..count |-> was.travelled + first + (i - 1) * spacing]
           more == [i \in 1..count |-> p + (i - 1)]
           n == Len(quo)
           quo2 == quo \o more
           q2 == p + m
           got == Over(was, segment, spacing)
<1>1. /\ was.travelled = at /\ carried \in 0..spacing - 1 /\ q \in Nat /\ at = spacing * q + carried
      /\ quo \in Seq(Nat) /\ was.stations \in Seq(Int) /\ Len(was.stations) = n /\ n \in Nat
  BY DEF Laid
<1>2. /\ m \in Int /\ -1 <= m /\ (segment < first <=> m = -1)
      /\ (carried = 0 => m >= 0)
      /\ left \in 0..spacing - 1
      /\ at + segment = spacing * (p + m) + left
      /\ \A i \in Int : at + first + (i - 1) * spacing = spacing * (p + (i - 1))
  <2>1. SegmentHas(spacing, segment, carried, q, at)
    <3> HIDE DEF carried
    <3> QED
      BY <1>1, SegmentIs
  <2> QED
    BY <2>1, Zenon DEF SegmentHas
<1>3. count = m + 1 /\ count \in Nat /\ p \in Nat /\ p = IF carried = 0 THEN q ELSE q + 1
  <2>1. count = IF segment < first THEN 0 ELSE 1 + m
    BY Zenon
  <2>2. p \in Nat /\ p = IF carried = 0 THEN q ELSE q + 1
    BY <1>1
  <2> HIDE DEF m, first, count, p, carried
  <2> QED
    BY <1>2, <2>1, <2>2
<1>4. got = [carried |-> left, travelled |-> was.travelled + segment, stations |-> was.stations \o new]
  <2>1. segment # 0
    OBVIOUS
  <2> QED
    BY <2>1, Zenon DEF Over, Carried
<1>5. /\ got.carried = left /\ got.travelled = was.travelled + segment /\ got.stations = was.stations \o new
  <2> HIDE DEF left, new, got
  <2> QED
    BY <1>4
<1>6. \A i \in 1..count : new[i] = spacing * (p + (i - 1)) /\ new[i] \in Int /\ more[i] = p + (i - 1)
  <2> TAKE i \in 1..count
  <2>1. i \in Int
    BY <1>3
  <2>2. new[i] = at + first + (i - 1) * spacing /\ more[i] = p + (i - 1)
    BY <1>1, Zenon
  <2> HIDE DEF new, more, p, first, count
  <2>3. spacing * (p + (i - 1)) \in Int
    <3> DEFINE j == p + (i - 1)
    <3>1. j \in Int
      BY <1>3, <2>1
    <3>2. spacing * j \in Int
      <4> HIDE DEF j
      <4> QED
        BY <3>1
    <3> QED
      BY <3>2 DEF j
  <2> QED
    BY <1>2, <2>1, <2>2, <2>3
<1>7. new \in [1..count -> Int] /\ more \in [1..count -> Nat]
  <2>1. \A i \in 1..count : p + (i - 1) \in Nat
    <3> HIDE DEF p, count
    <3> QED
      BY <1>3
  <2>2. more \in [1..count -> Nat]
    <3> HIDE DEF p, count
    <3> QED
      BY <2>1
  <2>3. new = [i \in 1..count |-> new[i]]
    <3> HIDE DEF count, first
    <3> QED
      OBVIOUS
  <2>4. new \in [1..count -> Int]
    <3> HIDE DEF new, count
    <3> QED
      BY <1>6, <2>3
  <2> QED
    BY <2>2, <2>4
<1>8. /\ quo2 \in Seq(Nat) /\ Len(quo2) = n + count
      /\ \A i \in 1..n : quo2[i] = quo[i]
      /\ \A i \in 1..count : quo2[n + i] = p + (i - 1)
  <2> HIDE DEF more, count, p
  <2>1. InARow(Nat, quo, count, more)
    BY <1>1, <1>3, <1>7, Joins
  <2> QED
    BY <1>6, <2>1 DEF InARow
<1>9. /\ got.stations \in Seq(Int) /\ Len(got.stations) = n + count
      /\ \A i \in 1..n : got.stations[i] = was.stations[i]
      /\ \A i \in 1..count : got.stations[n + i] = spacing * (p + (i - 1))
  <2> DEFINE s == was.stations
  <2> HIDE DEF new, count, p, got, s
  <2>1. s \in Seq(Int) /\ Len(s) = n /\ got.stations = s \o new
    BY <1>1, <1>5 DEF s
  <2>2. InARow(Int, s, count, new)
    BY <1>3, <1>7, <2>1, Joins
  <2>3. /\ got.stations \in Seq(Int) /\ Len(got.stations) = n + count
        /\ \A i \in 1..n : got.stations[i] = s[i]
        /\ \A i \in 1..count : got.stations[n + i] = spacing * (p + (i - 1))
    <3> HIDE DEF n
    <3> QED
      BY <1>6, <2>1, <2>2 DEF InARow
  <2> QED
    BY <2>3 DEF s
<1>10. /\ at = 0 <=> n = 0
       /\ n # 0 => quo[1] = 0 /\ quo[n] = q
       /\ \A r \in 0..q : at # 0 => \E i \in 1..n : quo[i] = r
       /\ \A i \in 1..n : quo[i] <= q /\ was.stations[i] = spacing * quo[i] /\ quo[i] \in Nat
       /\ \A i \in 1..n - 1 : quo[i + 1] = quo[i] + 1 \/ (quo[i + 1] = quo[i] /\ spacing * quo[i] \in ends)
  <2>1. quo = <<>> <=> n = 0
    BY <1>1
  <2>2. /\ at = 0 <=> quo = <<>>
        /\ quo # <<>> => quo[1] = 0 /\ quo[n] = q
        /\ \A r \in 0..q : at # 0 => \E i \in 1..n : quo[i] = r
        /\ \A i \in 1..n : quo[i] <= q /\ was.stations[i] = spacing * quo[i]
        /\ \A i \in 1..n - 1 : quo[i + 1] = quo[i] + 1 \/ (quo[i + 1] = quo[i] /\ spacing * quo[i] \in ends)
    BY Zenon DEF Laid
  <2>3. \A i \in 1..n : quo[i] \in Nat
    <3>1. quo \in Seq(Nat) /\ n = Len(quo)
      BY <1>1
    <3> HIDE DEF carried, first, m, p, left, count, new, more, n, quo2, q2, got
    <3> QED
      BY <3>1
  <2> HIDE DEF n
  <2> QED
    BY <2>1, <2>2, <2>3, Zenon
<1>11. n = 0 => carried = 0 /\ q = 0
  <2> HIDE DEF carried, n
  <2> QED
    BY <1>1, <1>10, NoProduct
<1> HIDE DEF carried, first, m, p, left, count, new, more, n, quo2, got
<1>12. n + count \in Nat /\ n + count # 0 /\ q2 \in Nat /\ q <= q2
  BY <1>1, <1>2, <1>3, <1>11
<1>13. \A j \in 1..n + count : j \in 1..n \/ (j - n \in 1..count /\ j = n + (j - n))
  BY <1>1, <1>3
<1>14. ASSUME NEW i \in 1..n + count PROVE got.stations[i] = spacing * quo2[i] /\ quo2[i] <= q2 /\ quo2[i] \in Nat
  <2>1. CASE i \in 1..n
    <3>1. quo2[i] = quo[i] /\ got.stations[i] = was.stations[i]
      BY <1>8, <1>9, <2>1
    <3>2. quo[i] <= q /\ was.stations[i] = spacing * quo[i] /\ quo[i] \in Nat
      BY <1>10, <2>1
    <3> QED
      BY <1>1, <1>12, <3>1, <3>2
  <2>2. CASE i - n \in 1..count /\ i = n + (i - n)
    <3>1. quo2[i] = p + (i - n - 1) /\ got.stations[i] = spacing * (p + (i - n - 1))
      BY <1>8, <1>9, <2>2
    <3>2. i - n - 1 <= m /\ i - n - 1 \in Nat
      BY <1>1, <1>2, <1>3, <2>2
    <3> QED
      BY <1>2, <1>3, <3>1, <3>2
  <2> QED
    BY <1>13, <2>1, <2>2
<1>15. quo2[1] = 0
  <2>1. CASE n = 0
    <3>1. 1 \in 1..count /\ n + 1 = 1
      BY <1>2, <1>3, <1>11, <2>1
    <3>2. quo2[n + 1] = p + (1 - 1)
      BY <1>8, <3>1
    <3> QED
      BY <1>3, <1>11, <2>1, <3>1, <3>2
  <2>2. CASE n # 0
    <3>1. 1 \in 1..n
      BY <1>1, <2>2
    <3> QED
      BY <1>8, <1>10, <2>2, <3>1
  <2> QED
    BY <2>1, <2>2
<1>16. quo2[n + count] = q2
  <2>1. CASE count = 0
    <3>1. n # 0 /\ n \in 1..n /\ n + count = n
      BY <1>1, <1>12, <2>1
    <3>2. q2 = q
      BY <1>1, <1>2, <1>3, <2>1
    <3> QED
      BY <1>8, <1>10, <3>1, <3>2
  <2>2. CASE count # 0
    <3>1. count \in 1..count /\ p + (count - 1) = q2
      BY <1>2, <1>3, <2>2
    <3> QED
      BY <1>8, <3>1
  <2> QED
    BY <2>1, <2>2
<1>17. ASSUME NEW r \in 0..q2 PROVE \E i \in 1..n + count : quo2[i] = r
  <2>1. CASE at # 0 /\ r <= q
    <3>1. PICK i \in 1..n : quo[i] = r
      BY <1>1, <1>10, <1>12, <2>1
    <3>2. i \in 1..n + count
      BY <1>1, <1>3
    <3> QED
      BY <1>8, <3>1, <3>2
  <2>2. CASE ~(at # 0 /\ r <= q)
    <3>1. p <= r
      BY <1>1, <1>3, <1>10, <1>11, <1>12, <2>2
    <3> DEFINE i == r - p + 1
    <3>2. i \in 1..count /\ p + (i - 1) = r /\ n + i \in 1..n + count
      BY <1>1, <1>2, <1>3, <1>12, <3>1
    <3> HIDE DEF i
    <3> QED
      BY <1>8, <3>2
  <2> QED
    BY <2>1, <2>2
<1>18. ASSUME NEW i \in 1..n + count - 1
       PROVE  quo2[i + 1] = quo2[i] + 1 \/ (quo2[i + 1] = quo2[i] /\ spacing * quo2[i] \in ends)
  <2>1. CASE i + 1 <= n
    <3>1. i \in 1..n /\ i + 1 \in 1..n /\ i \in 1..n - 1
      BY <1>1, <1>3, <2>1
    <3> QED
      BY <1>8, <1>10, <3>1
  <2>2. CASE i = n
    <3>1. n \in 1..n /\ n # 0 /\ 1 \in 1..count /\ i + 1 = n + 1
      BY <1>1, <1>3, <2>2
    <3>2. quo2[i] = q /\ quo2[i + 1] = p
      <4>1. quo2[n + 1] = p + (1 - 1)
        BY <1>8, <3>1
      <4>2. quo2[n] = quo[n] /\ quo[n] = q
        BY <1>8, <1>10, <3>1
      <4> QED
        BY <1>3, <2>2, <3>1, <4>1, <4>2
    <3>3. CASE carried = 0
      <4>1. p = q /\ spacing * q = at
        <5>1. spacing * q \in Int
          BY <1>1
        <5> DEFINE sq == spacing * q
        <5> HIDE DEF sq
        <5>2. sq \in Int /\ at = sq + carried
          BY <1>1, <5>1 DEF sq
        <5>3. at = sq
          BY <3>3, <5>2
        <5> QED
          BY <1>3, <3>3, <5>3 DEF sq
      <4> QED
        BY <3>2, <4>1
    <3>4. CASE carried # 0
      BY <1>3, <3>2, <3>4
    <3> QED
      BY <3>3, <3>4
  <2>3. CASE n < i
    <3> DEFINE j == i - n
    <3>1. j \in 1..count /\ j + 1 \in 1..count /\ i = n + j /\ i + 1 = n + (j + 1) /\ j \in Int
      BY <1>1, <1>3, <2>3
    <3> HIDE DEF j
    <3>2. quo2[n + j] = p + (j - 1) /\ quo2[n + (j + 1)] = p + (j + 1 - 1)
      BY <1>8, <3>1
    <3> QED
      BY <1>3, <3>1, <3>2
  <2> QED
    BY <1>1, <1>3, <2>1, <2>2, <2>3
<1>19. at + segment # 0 /\ quo2 # <<>>
  <2>1. quo2 # <<>>
    BY <1>8, <1>12
  <2> QED
    BY <2>1
<1>20. Laid(got, quo2, q2, spacing, ends, at + segment)
  <2>1. /\ got.travelled = at + segment /\ got.carried \in 0..spacing - 1 /\ q2 \in Nat
        /\ at + segment = spacing * q2 + got.carried
    BY <1>1, <1>2, <1>5, <1>12
  <2> HIDE DEF q2
  <2>2. /\ quo2 \in Seq(Nat) /\ got.stations \in Seq(Int) /\ Len(got.stations) = Len(quo2)
        /\ Len(quo2) = n + count
    BY <1>8, <1>9
  <2>3. /\ \A i \in 1..Len(quo2) : got.stations[i] = spacing * quo2[i]
        /\ \A i \in 1..Len(quo2) : quo2[i] <= q2
        /\ \A r \in 0..q2 : at + segment # 0 => \E i \in 1..Len(quo2) : quo2[i] = r
    BY <1>14, <1>17, <2>2, Zenon
  <2>4. at + segment = 0 <=> quo2 = <<>>
    BY <1>19
  <2>5. quo2 # <<>> => quo2[1] = 0 /\ quo2[Len(quo2)] = q2
    BY <1>15, <1>16, <2>2, Zenon
  <2>6. \A i \in 1..Len(quo2) - 1 :
            quo2[i + 1] = quo2[i] + 1 \/ (quo2[i + 1] = quo2[i] /\ spacing * quo2[i] \in ends)
    <3>1. 1..Len(quo2) - 1 = 1..n + count - 1
      <4> HIDE DEF n, count, quo2
      <4> QED
        BY <1>1, <1>3, <2>2
    <3> QED
      BY <1>18, <3>1, Zenon
  <2> QED
    BY <2>1, <2>2, <2>3, <2>4, <2>5, <2>6, Zenon DEF Laid
<1> QED
  BY <1>20, Zenon DEF got

-----------------------------------------------------------------------------
(* generate_tag_map: the stations of all segments                          *)

\* What the loop over the segments keeps.
Walks(spacing) == [carried : 0..spacing - 1, travelled : Nat, stations : Seq(Int)]

\* A segment leaves such a state.
LEMMA OverWalks ==
    ASSUME NEW spacing \in Nat \ {0}, NEW was \in Walks(spacing), NEW segment \in Nat
    PROVE  Over(was, segment, spacing) \in Walks(spacing)
<1> DEFINE first == IF was.carried = 0 THEN 0 ELSE spacing - was.carried
           count == IF segment < first THEN 0 ELSE 1 + (segment - first) \div spacing
           new == [i \in 1..count |-> was.travelled + first + (i - 1) * spacing]
           left == (segment - first) % spacing
<1>1. CASE segment = 0
  BY <1>1, Zenon DEF Over
<1>2. CASE segment # 0
  <2>1. Over(was, segment, spacing) = [carried |-> left, travelled |-> was.travelled + segment,
                                       stations |-> was.stations \o new]
    BY <1>2, Zenon DEF Over, Carried
  <2>2. was.carried \in 0..spacing - 1 /\ was.travelled \in Nat /\ was.stations \in Seq(Int)
    BY DEF Walks
  <2>3. first \in Int
    BY <2>2
  <2>4. left \in 0..spacing - 1
    <3> DEFINE rest == segment - first
    <3>1. rest \in Int
      BY <2>3
    <3>2. (rest % spacing) \in 0..spacing - 1
      <4> HIDE DEF rest
      <4> QED
        BY <3>1, ModFacts
    <3> QED
      BY <3>2
  <2>5. new \in Seq(Int)
    <3>1. \A i \in 1..count : was.travelled + first + (i - 1) * spacing \in Int
      <4> HIDE DEF first
      <4> QED
        BY <2>2, <2>3
    <3>2. count \in Nat
      <4>1. CASE segment < first
        BY <4>1
      <4>2. CASE ~(segment < first)
        <5> DEFINE rest == segment - first
        <5>1. rest \in Nat
          BY <2>3, <4>2
        <5>2. rest \div spacing \in Nat
          <6> HIDE DEF rest
          <6> QED
            BY <5>1, DivFacts
        <5> QED
          BY <4>2, <5>2
      <4> QED
        BY <4>1, <4>2
    <3>3. new \in [1..count -> Int]
      <4> HIDE DEF count, first
      <4> QED
        BY <3>1
    <3> HIDE DEF count, new
    <3> QED
      BY <3>2, <3>3
  <2>6. was.stations \o new \in Seq(Int)
    <3> HIDE DEF new
    <3> QED
      BY <2>2, <2>5
  <2> HIDE DEF new, left
  <2> QED
    BY <2>1, <2>2, <2>4, <2>6 DEF Walks
<1> QED
  BY <1>1, <1>2

\* The places where segments end.
EndsAt(n, at) == {at[k] : k \in 0..n}

\* resample: after all segments the stations are the multiples up to the last.
LEMMA LaysAll ==
    ASSUME NEW spacing \in Nat \ {0}, NEW n \in Nat, NEW lengths \in [1..n -> Nat], NEW at \in [0..n -> Nat],
           at[0] = 0, \A k \in 1..n : at[k] = at[k - 1] + lengths[k]
    PROVE  \E was, quo, q : /\ Laid(was, quo, q, spacing, EndsAt(n, at), at[n])
                            /\ Resampled(lengths, spacing) = was
<1> DEFINE start == [carried |-> 0, travelled |-> 0, stations |-> <<>>]
           Loop(f) == [k \in 0..n |-> IF k = 0 THEN start ELSE Over(f[k - 1], lengths[k], spacing)]
           S == Walks(spacing)
           G == [km \in (1..n) \X S |-> Over(km[2], lengths[km[1]], spacing)]
           after == CHOOSE f : f = Loop(f)
<1>1. start \in S
  BY DEF Walks
<1>2. \A k \in 1..n, m \in S : Over(m, lengths[k], spacing) \in S
  BY OverWalks
<1>3. PICK f \in [0..n -> S] : Iterated(f, n, start, G)
  <2>1. G \in [(1..n) \X S -> S]
    <3> HIDE DEF S
    <3> QED
      BY <1>2
  <2> HIDE DEF G, S, start
  <2> QED
    BY <1>1, <2>1, IterationExists
<1>4. f = Loop(f)
  <2>1. ASSUME NEW k \in 1..n PROVE f[k] = Over(f[k - 1], lengths[k], spacing)
    <3> HIDE DEF S
    <3>1. f[k - 1] \in S
      BY <1>3
    <3>2. <<k, f[k - 1]>> \in (1..n) \X S
      BY <3>1
    <3>3. f[k] = G[<<k, f[k - 1]>>]
      BY <1>3 DEF Iterated
    <3> QED
      BY <3>2, <3>3, Zenon
  <2>2. f[0] = start
    BY <1>3 DEF Iterated
  <2> HIDE DEF S, G, start
  <2> QED
    BY <1>3, <2>1, <2>2
<1>5. after = Loop(after)
  <2> HIDE DEF Loop
  <2> QED
    BY <1>4
<1>6. after[0] = start
  <2> HIDE DEF after, S, G, start
  <2>1. Loop(after)[0] = start
    OBVIOUS
  <2> HIDE DEF Loop
  <2> QED
    BY <1>5, <2>1
<1>7. \A k \in 1..n : after[k] = Over(after[k - 1], lengths[k], spacing)
  <2> TAKE k \in 1..n
  <2> HIDE DEF after, S, G, start
  <2>1. k # 0 /\ k \in 0..n
    OBVIOUS
  <2>2. Loop(after)[k] = Over(after[k - 1], lengths[k], spacing)
    BY <2>1
  <2> HIDE DEF Loop
  <2> QED
    BY <1>5, <2>2
<1>8. Resampled(lengths, spacing) = after[n]
  <2>1. Len(lengths) = n
    OBVIOUS
  <2> QED
    BY <2>1, Zenon DEF Resampled, Over
<1> DEFINE ends == EndsAt(n, at)
           T == {k \in 0..n : \E quo, q : Laid(after[k], quo, q, spacing, ends, at[k])}
<1> HIDE DEF after, S, G, Loop
<1>9. 0 \in T
  <2>1. Laid(start, <<>>, 0, spacing, ends, 0)
    <3> HIDE DEF ends
    <3> QED
      BY DEF Laid
  <2>2. Laid(after[0], <<>>, 0, spacing, ends, at[0])
    <3> HIDE DEF ends, start
    <3> QED
      BY <1>6, <2>1
  <2> HIDE DEF ends
  <2> QED
    BY <2>2
<1>10. ASSUME NEW k \in 0..n - 1, k \in T PROVE k + 1 \in T
  <2>1. PICK quo, q : Laid(after[k], quo, q, spacing, ends, at[k])
    BY <1>10
  <2>2. k + 1 \in 1..n /\ k + 1 \in 0..n /\ k \in 0..n /\ k + 1 - 1 = k
    OBVIOUS
  <2>3. after[k + 1] = Over(after[k], lengths[k + 1], spacing) /\ at[k + 1] = at[k] + lengths[k + 1]
    BY <1>7, <2>2
  <2>4. at[k] \in Nat /\ lengths[k + 1] \in Nat /\ at[k] \in ends
    BY <2>2 DEF EndsAt
  <2> HIDE DEF ends
  <2>5. CASE lengths[k + 1] = 0
    <3>1. after[k + 1] = after[k] /\ at[k + 1] = at[k]
      BY <2>3, <2>4, <2>5 DEF Over
    <3> QED
      BY <2>1, <2>2, <3>1
  <2>6. CASE lengths[k + 1] # 0
    <3> DEFINE segment == lengths[k + 1]
               was == after[k]
               a == at[k]
    <3>1. segment \in Nat \ {0} /\ a \in Nat /\ a \in ends /\ Laid(was, quo, q, spacing, ends, a)
      BY <2>1, <2>4, <2>6
    <3> HIDE DEF segment, was, a
    <3>2. PICK quo2, q2 : Laid(Over(was, segment, spacing), quo2, q2, spacing, ends, a + segment)
      BY <3>1, LaysOn
    <3>3. Laid(after[k + 1], quo2, q2, spacing, ends, at[k + 1])
      BY <2>3, <3>2 DEF segment, was, a
    <3> QED
      BY <2>2, <3>3
  <2> QED
    BY <2>4, <2>5, <2>6
<1>11. n \in T
  <2> HIDE DEF T
  <2> QED
    BY <1>9, <1>10, UpTo
<1> QED
  BY <1>8, <1>11

\* A multiple leaves no remainder.
LEMMA MultipleMod ==
    ASSUME NEW m \in Nat \ {0}, NEW r \in Nat
    PROVE  ((m * r) % m) = 0
<1> DEFINE a == m * r
           d == a \div m
           rem == a % m
<1>1. a \in Int /\ 0 <= a
  BY Ordered
<1>2. rem \in 0..m - 1 /\ a = m * d + rem /\ d \in Int
  <2> HIDE DEF a
  <2> QED
    BY <1>1, DivFacts, ModFacts
<1> HIDE DEF rem, d
<1>3. ASSUME d + 1 <= r PROVE rem = 0
  <2>1. m * (d + 1) <= m * r /\ m * (d + 1) = m * d + m * 1 /\ m * d \in Int
    BY <1>2, <1>3, Ordered, SumTimes
  <2> DEFINE md == m * d
             up == m * (d + 1)
  <2>2. md \in Int /\ up = md + m /\ up <= a /\ a = md + rem
    BY <1>2, <2>1
  <2> HIDE DEF md, up, a
  <2> QED
    BY <1>1, <1>2, <2>2
<1>4. ASSUME r + 1 <= d PROVE rem = 0
  <2>1. m * (r + 1) <= m * d /\ m * (r + 1) = m * r + m * 1 /\ m * d \in Int
    BY <1>2, <1>4, Ordered, SumTimes
  <2> DEFINE md == m * d
             up == m * (r + 1)
  <2>2. md \in Int /\ up = a + m /\ up <= md /\ a = md + rem
    BY <1>2, <2>1
  <2> HIDE DEF md, up, a
  <2> QED
    BY <1>1, <1>2, <2>2
<1>5. ASSUME d = r PROVE rem = 0
  <2>1. a = a + rem
    BY <1>2, <1>5
  <2> HIDE DEF a
  <2> QED
    BY <1>1, <1>2, <2>1
<1>6. rem = 0
  BY <1>2, <1>3, <1>4, <1>5
<1> QED
  BY <1>6 DEF rem, a

\* How far it is along a way to each of its points.
AlongWay(path, at) ==
    /\ at \in [0..Len(path) - 1 -> Nat] /\ at[0] = 0
    /\ \A k \in 1..Len(path) - 1 : at[k] = at[k - 1] + Max({path[k + 1] - path[k], path[k] - path[k + 1]})

\* The stations are the multiples of the spacing along the way, in order; only
\* where a segment ends there may be two.
Evenly(stations, spacing, ends, length) ==
    /\ stations \in Seq(Nat)
    /\ Range(stations) = IF length = 0 THEN {} ELSE {t \in 0..length : (t % spacing) = 0}
    /\ stations # <<>> => stations[1] = 0
    /\ \A i \in 1..Len(stations) - 1 :
            stations[i + 1] = stations[i] + spacing \/ (stations[i + 1] = stations[i] /\ stations[i] \in ends)

\* Stations that were laid are spaced evenly.
LEMMA LaidIsEven ==
    ASSUME NEW spacing \in Nat \ {0}, NEW ends, NEW at \in Nat, NEW was, NEW quo, NEW q,
           Laid(was, quo, q, spacing, ends, at)
    PROVE  Evenly(was.stations, spacing, ends, at)
<1> DEFINE s == was.stations
<1>1. /\ was.carried \in 0..spacing - 1 /\ q \in Nat /\ at = spacing * q + was.carried
      /\ quo \in Seq(Nat) /\ s \in Seq(Int) /\ Len(s) = Len(quo)
      /\ \A i \in 1..Len(quo) : s[i] = spacing * quo[i]
  BY DEF Laid
<1>2. /\ at = 0 <=> quo = <<>>
      /\ quo # <<>> => quo[1] = 0 /\ quo[Len(quo)] = q
      /\ \A r \in 0..q : at # 0 => \E i \in 1..Len(quo) : quo[i] = r
      /\ \A i \in 1..Len(quo) : quo[i] <= q
  BY Zenon DEF Laid
<1>3. \A i \in 1..Len(quo) - 1 : quo[i + 1] = quo[i] + 1 \/ (quo[i + 1] = quo[i] /\ spacing * quo[i] \in ends)
  BY Zenon DEF Laid
<1> HIDE DEF s
<1>4. \A i \in 1..Len(quo) : quo[i] \in Nat
  <2>1. quo \in Seq(Nat)
    BY <1>1
  <2> QED
    BY <2>1
<1>5. ASSUME NEW i \in 1..Len(quo)
      PROVE  s[i] \in 0..at /\ (s[i] % spacing) = 0
  <2> DEFINE r == quo[i]
  <2>1. r \in Nat /\ r <= q /\ s[i] = spacing * r
    BY <1>1, <1>2, <1>4
  <2> HIDE DEF r
  <2>2. spacing * r \in Int /\ spacing * q \in Int /\ spacing * 0 <= spacing * r /\ spacing * r <= spacing * q
    BY <1>1, <2>1, Ordered
  <2>3. ((spacing * r) % spacing) = 0
    BY <2>1, MultipleMod
  <2>4. spacing * 0 = 0
    OBVIOUS
  <2> DEFINE sr == spacing * r
             sq == spacing * q
  <2>5. sr \in Int /\ sq \in Int /\ 0 <= sr /\ sr <= sq /\ s[i] = sr /\ at = sq + was.carried /\ (sr % spacing) = 0
    BY <1>1, <2>1, <2>2, <2>3, <2>4
  <2> HIDE DEF sr, sq
  <2>6. sr \in 0..at
    <3> DEFINE c == was.carried
    <3>1. c \in Nat /\ at = sq + c
      BY <1>1, <2>5
    <3> HIDE DEF c
    <3> QED
      BY <2>5, <3>1
  <2> QED
    BY <2>5, <2>6, Zenon
<1>6. s \in Seq(Nat)
  <2>1. s \in [1..Len(quo) -> Nat] /\ Len(quo) \in Nat
    BY <1>1, <1>5
  <2> QED
    BY <2>1
<1>7. Range(s) = IF at = 0 THEN {} ELSE {t \in 0..at : (t % spacing) = 0}
  <2>1. DOMAIN s = 1..Len(quo) /\ Range(s) = {s[i] : i \in DOMAIN s}
    BY <1>1 DEF Range
  <2>2. CASE at = 0
    <3>1. quo = <<>>
      BY <1>2, <2>2
    <3> QED
      BY <2>1, <2>2, <3>1
  <2>3. CASE at # 0
    <3>1. ASSUME NEW t \in 0..at, (t % spacing) = 0 PROVE t \in Range(s)
      <4> DEFINE r == t \div spacing
      <4> DEFINE rem == t % spacing
      <4>1. r \in Nat /\ t = spacing * r
        <5>1. t \in Int /\ 0 <= t /\ rem = 0
          BY <3>1
        <5>2. r \in Int /\ t = spacing * r + rem /\ t < spacing * r + spacing
          BY <5>1, DivFacts, ModFacts
        <5> DEFINE sr == spacing * r
        <5>3. sr \in Int /\ t = sr + rem
          BY <5>2
        <5>4. t = sr
          <6> HIDE DEF sr, rem
          <6> QED
            BY <5>1, <5>3
        <5>5. r \in Nat
          <6>1. CASE r + 1 <= 0
            <7>1. spacing * (r + 1) <= spacing * 0 /\ spacing * (r + 1) = spacing * r + spacing * 1
              <8> HIDE DEF r
              <8> QED
                BY <5>2, <6>1, Ordered, SumTimes
            <7>2. sr + spacing <= 0
              <8> HIDE DEF r
              <8> QED
                BY <7>1
            <7> HIDE DEF sr
            <7> QED
              BY <5>1, <5>3, <5>4, <7>2
          <6> HIDE DEF r
          <6> QED
            BY <5>2, <6>1
        <5> QED
          BY <5>4, <5>5 DEF sr
      <4>2. r <= q
        <5>1. CASE q + 1 <= r
          <6>1. spacing * (q + 1) <= spacing * r /\ spacing * (q + 1) = spacing * q + spacing * 1
            <7> HIDE DEF r
            <7> QED
              BY <1>1, <4>1, <5>1, Ordered, SumTimes
          <6> DEFINE sq == spacing * q
                     up == spacing * (q + 1)
          <6>2. sq \in Int /\ up \in Int /\ up = sq + spacing /\ up <= t /\ at = sq + was.carried
            BY <1>1, <4>1, <6>1
          <6> HIDE DEF sq, up
          <6> QED
            BY <1>1, <6>2
        <5> QED
          BY <1>1, <4>1, <5>1
      <4> HIDE DEF r
      <4>3. PICK i \in 1..Len(quo) : quo[i] = r
        BY <1>2, <2>3, <4>1, <4>2
      <4> QED
        BY <1>1, <2>1, <4>1, <4>3
    <3>2. ASSUME NEW t \in Range(s) PROVE t \in 0..at /\ (t % spacing) = 0
      BY <1>5, <2>1
    <3> QED
      BY <2>3, <3>1, <3>2, Zenon
  <2> QED
    BY <2>2, <2>3
<1>8. s # <<>> => s[1] = 0
  <2>1. quo = <<>> \/ (quo # <<>> /\ 1 \in 1..Len(quo))
    BY <1>1
  <2>2. CASE quo = <<>>
    BY <1>1, <2>2
  <2>3. CASE quo # <<>> /\ 1 \in 1..Len(quo)
    <3>1. s[1] = spacing * quo[1] /\ quo[1] = 0
      BY <1>1, <1>2, <2>3, Zenon
    <3>2. spacing * 0 = 0
      OBVIOUS
    <3> QED
      BY <3>1, <3>2, Zenon
  <2> QED
    BY <2>1, <2>2, <2>3
<1>9. ASSUME NEW i \in 1..Len(s) - 1
      PROVE  s[i + 1] = s[i] + spacing \/ (s[i + 1] = s[i] /\ s[i] \in ends)
  <2>1. i \in 1..Len(quo) - 1 /\ i \in 1..Len(quo) /\ i + 1 \in 1..Len(quo)
    BY <1>1
  <2> DEFINE r == quo[i]
             r1 == quo[i + 1]
  <2>2. r \in Nat /\ r1 \in Nat /\ s[i] = spacing * r /\ s[i + 1] = spacing * r1
        /\ (r1 = r + 1 \/ (r1 = r /\ spacing * r \in ends))
    BY <1>1, <1>3, <1>4, <2>1
  <2> HIDE DEF r, r1
  <2>3. spacing * (r + 1) = spacing * r + spacing
    BY <2>2, SumTimes
  <2> QED
    BY <2>2, <2>3
<1> QED
  BY <1>6, <1>7, <1>8, <1>9, Zenon DEF Evenly, s

-----------------------------------------------------------------------------
(* generate_tag_map: the stations along a way                              *)

\* main: no more stations than the limit.
Limited(limit, all) == IF limit = 0 THEN all ELSE SubSeq(all, 1, Min({limit, Len(all)}))

\* The first of evenly spaced stations are spaced so, too.
LEMMA Shortened ==
    ASSUME NEW spacing \in Nat \ {0}, NEW limit \in Nat, NEW ends, NEW length \in Nat, NEW all,
           Evenly(all, spacing, ends, length)
    PROVE  Spaced(Limited(limit, all), spacing, limit, ends, length) /\ Limited(limit, all) \in Seq(Nat)
<1> DEFINE multiples == IF length = 0 THEN {} ELSE {t \in 0..length : (t % spacing) = 0}
           s == Limited(limit, all)
<1>1. /\ all \in Seq(Nat) /\ Range(all) = multiples
      /\ all # <<>> => all[1] = 0
      /\ \A i \in 1..Len(all) - 1 :
            all[i + 1] = all[i] + spacing \/ (all[i + 1] = all[i] /\ all[i] \in ends)
  BY Zenon DEF Evenly
<1> HIDE DEF multiples
<1>2. CASE limit = 0
  <2>1. s = all
    BY <1>2 DEF Limited
  <2> HIDE DEF s
  <2> QED
    BY <1>1, <1>2, <2>1, Zenon DEF Spaced, multiples, s
<1>3. CASE limit # 0
  <2> DEFINE n == Min({limit, Len(all)})
  <2>1. n \in Nat /\ n <= limit /\ n <= Len(all) /\ (n = limit \/ n = Len(all)) /\ Len(all) \in Nat
    <3>1. Len(all) \in Nat
      BY <1>1
    <3> DEFINE len == Len(all)
    <3> HIDE DEF len
    <3>2. Min({limit, len}) \in {limit, len} /\ Min({limit, len}) <= limit /\ Min({limit, len}) <= len
      <4>1. len \in Int /\ limit \in Int
        BY <3>1 DEF len
      <4> QED
        BY <4>1, PairMax
    <3> QED
      BY <3>1, <3>2 DEF len
  <2>2. s = SubSeq(all, 1, n)
    BY <1>3, Zenon DEF Limited
  <2> HIDE DEF n
  <2>3. Len(s) = n /\ s \in Seq(Nat) /\ \A i \in 1..n : s[i] = all[i]
    <3> HIDE DEF s
    <3> QED
      BY <1>1, <2>1, <2>2
  <2> HIDE DEF s
  <2>4. Range(s) \subseteq multiples
    <3>1. Range(s) \subseteq Range(all)
      <4>1. DOMAIN s = 1..n /\ DOMAIN all = 1..Len(all)
        BY <1>1, <2>3
      <4>2. \A i \in 1..n : i \in DOMAIN all /\ s[i] = all[i]
        <5>1. 1..n \subseteq 1..Len(all)
          BY <2>1
        <5> QED
          BY <2>3, <4>1, <5>1, Zenon
      <4> QED
        BY <4>1, <4>2 DEF Range
    <3> QED
      BY <1>1, <3>1
  <2>5. Len(s) < limit => Range(s) = multiples
    <3>1. Len(s) < limit => s = all
      <4> SUFFICES ASSUME Len(s) < limit PROVE s = all
        OBVIOUS
      <4>1. n = Len(all) /\ Len(s) = n
        BY <2>1, <2>3
      <4>2. s \in Seq(Nat) /\ all \in Seq(Nat) /\ Len(s) = Len(all) /\ \A i \in 1..Len(s) : s[i] = all[i]
        BY <1>1, <2>3, <4>1, Zenon
      <4> HIDE DEF s
      <4> QED
        BY <4>2, SeqEqual, Zenon
    <3> QED
      BY <1>1, <3>1
  <2>6. Len(s) < limit \/ Len(s) = limit
    BY <2>1, <2>3
  <2>7. s # <<>> => s[1] = 0
    <3> SUFFICES ASSUME s # <<>> PROVE s[1] = 0
      OBVIOUS
    <3>1. 1 \in 1..n
      BY <2>1, <2>3
    <3> QED
      BY <1>1, <2>1, <2>3, <3>1
  <2>8. ASSUME NEW i \in 1..Len(s) - 1
        PROVE  s[i + 1] = s[i] + spacing \/ (s[i + 1] = s[i] /\ s[i] \in ends)
    <3>1. i \in 1..Len(all) - 1 /\ i \in 1..n /\ i + 1 \in 1..n
      BY <2>1, <2>3
    <3> QED
      BY <1>1, <2>3, <3>1
  <2> QED
    <3>1. Spaced(s, spacing, limit, ends, length)
      BY <1>3, <2>4, <2>5, <2>6, <2>7, <2>8, Zenon DEF Spaced, multiples
    <3> QED
      BY <2>3, <3>1, Zenon DEF s
<1> QED
  BY <1>2, <1>3

\* The segments of a way and their lengths.
LEMMA SegmentsAre ==
    ASSUME NEW path \in Seq(Int), path # <<>>
    PROVE  /\ Len(path) - 1 \in Nat /\ Segments(path) \in [1..Len(path) - 1 -> Nat]
           /\ Len(Segments(path)) = Len(path) - 1
           /\ \A k \in 1..Len(path) - 1 :
                Segments(path)[k] = Max({path[k + 1] - path[k], path[k] - path[k + 1]})
<1>1. Len(path) - 1 \in Nat
  OBVIOUS
<1>2. ASSUME NEW k \in 1..Len(path) - 1
      PROVE  Max({path[k + 1] - path[k], path[k] - path[k + 1]}) \in Nat
  <2> DEFINE x == path[k + 1] - path[k]
             y == path[k] - path[k + 1]
  <2>1. x \in Int /\ y \in Int /\ (0 <= x \/ 0 <= y)
    <3>1. path[k] \in Int /\ path[k + 1] \in Int
      BY <1>1
    <3> QED
      BY <3>1
  <2> HIDE DEF x, y
  <2>2. Max({x, y}) \in Int /\ x <= Max({x, y}) /\ y <= Max({x, y})
    BY <2>1, PairMax
  <2>3. Max({x, y}) \in Nat
    BY <2>1, <2>2
  <2> QED
    BY <2>3 DEF x, y
<1>3. Segments(path) = [k \in 1..Len(path) - 1 |-> Max({path[k + 1] - path[k], path[k] - path[k + 1]})]
  BY Zenon DEF Segments
<1>4. Segments(path) \in [1..Len(path) - 1 -> Nat]
  BY <1>2, <1>3
<1>5. Len(Segments(path)) = Len(path) - 1
  <2> DEFINE n == Len(path) - 1
  <2> HIDE DEF n
  <2> QED
    BY <1>1, <1>4 DEF n
<1> QED
  BY <1>1, <1>3, <1>4, <1>5

\* generate_tag_map: the stations along any way are the whole multiples of the
\* spacing, whatever its segments.
THEOREM AnyWayIsSpaced ==
    ASSUME NEW spacing \in Nat \ {0}, NEW limit \in Nat, NEW path \in Seq(Int), path # <<>>,
           NEW at, AlongWay(path, at)
    PROVE  /\ Spaced(Limited(limit, Resampled(Segments(path), spacing).stations), spacing, limit,
                     EndsAt(Len(path) - 1, at), at[Len(path) - 1])
           /\ Limited(limit, Resampled(Segments(path), spacing).stations) \in Seq(Nat)
<1> DEFINE n == Len(path) - 1
           lengths == Segments(path)
           ends == EndsAt(n, at)
<1>1. n \in Nat /\ lengths \in [1..n -> Nat]
      /\ \A k \in 1..n : lengths[k] = Max({path[k + 1] - path[k], path[k] - path[k + 1]})
  BY SegmentsAre
<1>2. at \in [0..n -> Nat] /\ at[0] = 0 /\ \A k \in 1..n : at[k] = at[k - 1] + lengths[k]
  BY <1>1, Zenon DEF AlongWay
<1> HIDE DEF n, lengths
<1>3. PICK was, quo, q : Laid(was, quo, q, spacing, ends, at[n]) /\ Resampled(lengths, spacing) = was
  BY <1>1, <1>2, LaysAll
<1>4. at[n] \in Nat
  BY <1>1, <1>2
<1> DEFINE length == at[n]
<1> HIDE DEF length, ends
<1>5. Evenly(was.stations, spacing, ends, length)
  BY <1>3, <1>4, LaidIsEven DEF length
<1>6. Spaced(Limited(limit, was.stations), spacing, limit, ends, length)
      /\ Limited(limit, was.stations) \in Seq(Nat)
  BY <1>4, <1>5, Shortened DEF length
<1> QED
  BY <1>3, <1>6, Zenon DEF n, lengths, ends, length

\* Every way has such distances.
LEMMA AlongExists ==
    ASSUME NEW path \in Seq(Int), path # <<>>
    PROVE  \E at : AlongWay(path, at)
<1> DEFINE n == Len(path) - 1
           lengths == Segments(path)
           G == [km \in (1..n) \X Nat |-> km[2] + lengths[km[1]]]
<1>1. n \in Nat /\ lengths \in [1..n -> Nat]
      /\ \A k \in 1..n : lengths[k] = Max({path[k + 1] - path[k], path[k] - path[k + 1]})
  BY SegmentsAre
<1> HIDE DEF n, lengths
<1>2. G \in [(1..n) \X Nat -> Nat]
  BY <1>1
<1>3. PICK at \in [0..n -> Nat] : Iterated(at, n, 0, G)
  <2> HIDE DEF G
  <2> QED
    BY <1>1, <1>2, IterationExists
<1>4. ASSUME NEW k \in 1..n PROVE at[k] = at[k - 1] + lengths[k]
  <2>1. k - 1 \in 0..n /\ at[k - 1] \in Nat
    BY <1>1
  <2>2. <<k, at[k - 1]>> \in (1..n) \X Nat
    BY <2>1
  <2>3. at[k] = G[<<k, at[k - 1]>>]
    BY <1>3 DEF Iterated
  <2> QED
    BY <2>2, <2>3, Zenon
<1>5. at[0] = 0
  BY <1>3 DEF Iterated
<1>6. AlongWay(path, at)
  BY <1>1, <1>3, <1>4, <1>5, Zenon DEF AlongWay, n
<1> QED
  BY <1>6

\* longest_path: its length is how far it is to the last point.
LEMMA LengthIs ==
    ASSUME NEW path \in Seq(Int), path # <<>>, NEW at, AlongWay(path, at)
    PROVE  LengthOf(path) = at[Len(path) - 1] /\ at[Len(path) - 1] \in Nat
<1> DEFINE n == Len(path) - 1
           lengths == Segments(path)
           Loop(f) == [k \in 0..n |-> IF k = 0 THEN 0 ELSE f[k - 1] + lengths[k]]
           along == CHOOSE f : f = Loop(f)
<1>1. n \in Nat /\ lengths \in [1..n -> Nat]
      /\ \A k \in 1..n : lengths[k] = Max({path[k + 1] - path[k], path[k] - path[k + 1]})
  BY SegmentsAre
<1>2. at \in [0..n -> Nat] /\ at[0] = 0 /\ \A k \in 1..n : at[k] = at[k - 1] + lengths[k]
  BY <1>1, Zenon DEF AlongWay
<1>3. LengthOf(path) = along[n]
  BY Zenon DEF LengthOf
<1> HIDE DEF n, lengths
<1>4. at = Loop(at)
  <2>1. \A k \in 0..n : at[k] = IF k = 0 THEN 0 ELSE at[k - 1] + lengths[k]
    <3> TAKE k \in 0..n
    <3>1. k = 0 \/ k \in 1..n
      BY <1>1
    <3> QED
      BY <1>2, <3>1
  <2> QED
    BY <1>2, <2>1
<1>5. along = Loop(along)
  <2> HIDE DEF Loop
  <2> QED
    BY <1>4
<1> HIDE DEF along
<1>6. along[0] = 0 /\ \A k \in 1..n : along[k] = along[k - 1] + lengths[k]
  <2>1. 0 \in 0..n /\ \A k \in 1..n : k \in 0..n /\ k # 0
    BY <1>1
  <2>2. Loop(along)[0] = 0
    BY <2>1
  <2>3. \A k \in 1..n : Loop(along)[k] = along[k - 1] + lengths[k]
    BY <2>1
  <2> HIDE DEF Loop
  <2> QED
    BY <1>5, <2>2, <2>3
<1> DEFINE T == {k \in 0..n : along[k] = at[k]}
<1>7. 0 \in T
  BY <1>1, <1>2, <1>6
<1>8. ASSUME NEW k \in 0..n - 1, k \in T PROVE k + 1 \in T
  <2>1. k + 1 \in 1..n /\ k + 1 \in 0..n /\ k + 1 - 1 = k
    BY <1>1
  <2> QED
    BY <1>2, <1>6, <1>8, <2>1
<1>9. n \in T
  <2> HIDE DEF T
  <2> QED
    BY <1>1, <1>7, <1>8, UpTo
<1>10. at[n] \in Nat
  BY <1>1, <1>2
<1> QED
  BY <1>3, <1>9, <1>10 DEF n

\* A way that never goes back.
NeverBack(path) == \A i, j \in 1..Len(path) : i <= j => path[i] <= path[j]

\* On a way that never goes back the distance is the difference of places.
LEMMA RisingAlong ==
    ASSUME NEW path \in Seq(Int), path # <<>>, NeverBack(path)
    PROVE  /\ AlongWay(path, [k \in 0..Len(path) - 1 |-> path[k + 1] - path[1]])
           /\ LengthOf(path) = path[Len(path)] - path[1]
<1> DEFINE n == Len(path) - 1
           at == [k \in 0..n |-> path[k + 1] - path[1]]
<1>1. n \in Nat /\ Len(path) = n + 1 /\ 1 \in 1..n + 1 /\ path[1] \in Int
  OBVIOUS
<1>2. ASSUME NEW k \in 0..n
      PROVE  k + 1 \in 1..n + 1 /\ path[k + 1] \in Int /\ path[1] <= path[k + 1]
  <2>1. k + 1 \in 1..n + 1 /\ k + 1 \in 1..Len(path) /\ 1 \in 1..Len(path) /\ 1 <= k + 1
    BY <1>1
  <2> QED
    BY <2>1 DEF NeverBack
<1> HIDE DEF n
<1>3. at \in [0..n -> Nat] /\ at[0] = 0
  <2>1. \A k \in 0..n : path[k + 1] - path[1] \in Nat
    BY <1>1, <1>2
  <2>2. 0 \in 0..n /\ path[0 + 1] - path[1] = 0
    BY <1>1
  <2> QED
    BY <2>1, <2>2
<1>4. ASSUME NEW k \in 1..n
      PROVE  at[k] = at[k - 1] + Max({path[k + 1] - path[k], path[k] - path[k + 1]})
  <2>1. k \in 0..n /\ k - 1 \in 0..n /\ k \in 1..n + 1 /\ k + 1 \in 1..n + 1 /\ k <= k + 1 /\ (k - 1) + 1 = k
    BY <1>1
  <2>2. path[k] \in Int /\ path[k + 1] \in Int /\ path[k] <= path[k + 1]
    <3>1. path[k] <= path[k + 1]
      BY <1>1, <2>1 DEF NeverBack
    <3> QED
      BY <1>2, <2>1, <3>1
  <2> DEFINE x == path[k + 1] - path[k]
             y == path[k] - path[k + 1]
  <2>3. x \in Int /\ y \in Int /\ y <= x
    BY <2>2
  <2>4. Max({x, y}) = x
    <3> HIDE DEF x, y
    <3>1. Max({x, y}) \in {x, y} /\ x <= Max({x, y})
      BY <2>3, PairMax
    <3> QED
      BY <2>3, <3>1
  <2>5. at[k] = path[k + 1] - path[1] /\ at[k - 1] = path[k] - path[1]
    BY <2>1
  <2> HIDE DEF at
  <2> QED
    BY <1>1, <2>2, <2>4, <2>5
<1>5. AlongWay(path, at)
  BY <1>3, <1>4, Zenon DEF AlongWay, n
<1>6. at[n] = path[Len(path)] - path[1]
  BY <1>1
<1> HIDE DEF at
<1>7. LengthOf(path) = at[Len(path) - 1]
  BY <1>5, LengthIs
<1> QED
  BY <1>5, <1>6, <1>7, Zenon DEF at, n

\* The stations along such a way.
LEMMA RisingSpaced ==
    ASSUME NEW spacing \in Nat \ {0}, NEW limit \in Nat, NEW path \in Seq(Int), path # <<>>, NeverBack(path)
    PROVE  LET ends == {Abs(path[i] - path[1]) : i \in DOMAIN path}
           IN  /\ Max(ends) = path[Len(path)] - path[1]
               /\ Spaced(Limited(limit, Resampled(Segments(path), spacing).stations), spacing, limit, ends, Max(ends))
               /\ Limited(limit, Resampled(Segments(path), spacing).stations) \in Seq(Nat)
<1> DEFINE n == Len(path) - 1
           at == [k \in 0..n |-> path[k + 1] - path[1]]
           ends == {Abs(path[i] - path[1]) : i \in DOMAIN path}
           length == path[Len(path)] - path[1]
           s == Limited(limit, Resampled(Segments(path), spacing).stations)
<1>1. AlongWay(path, at)
  BY RisingAlong
<1>2. n \in Nat /\ Len(path) = n + 1 /\ DOMAIN path = 1..n + 1 /\ path[1] \in Int
  OBVIOUS
<1>3. ASSUME NEW i \in 1..n + 1
      PROVE  path[i] \in Int /\ Abs(path[i] - path[1]) = path[i] - path[1] /\ path[i] <= path[n + 1]
             /\ path[i] - path[1] \in Nat
  <2>1. i \in 1..Len(path) /\ 1 \in 1..Len(path) /\ n + 1 \in 1..Len(path) /\ 1 <= i /\ i <= n + 1
    BY <1>2
  <2>2. path[i] \in Int /\ path[1] <= path[i] /\ path[i] <= path[n + 1]
    BY <2>1 DEF NeverBack
  <2> QED
    BY <1>2, <2>2 DEF Abs
<1> HIDE DEF n
<1>4. ends = {path[i] - path[1] : i \in 1..n + 1}
  BY <1>2, <1>3
<1>5. \A k \in 0..n : at[k] = path[k + 1] - path[1]
  OBVIOUS
<1> HIDE DEF at
<1>6. ends = EndsAt(n, at)
  <2>1. ASSUME NEW i \in 1..n + 1 PROVE path[i] - path[1] \in EndsAt(n, at)
    <3>1. i - 1 \in 0..n /\ (i - 1) + 1 = i
      BY <1>2
    <3>2. at[i - 1] = path[i] - path[1]
      BY <1>5, <3>1
    <3> QED
      BY <3>1, <3>2 DEF EndsAt
  <2>2. ASSUME NEW k \in 0..n PROVE at[k] \in ends
    <3>1. k + 1 \in 1..n + 1
      BY <1>2
    <3> QED
      BY <1>4, <1>5, <3>1
  <2> QED
    BY <1>4, <2>1, <2>2 DEF EndsAt
<1>7. Max(ends) = length /\ at[n] = length
  <2>1. n + 1 \in 1..n + 1 /\ n \in 0..n /\ path[n + 1] \in Int
    BY <1>2, <1>3
  <2>2. length \in Int /\ length = path[n + 1] - path[1]
    BY <1>2, <2>1
  <2>3. \A x \in ends : x \in Int /\ x <= length
    BY <1>2, <1>3, <1>4, <2>2
  <2>4. length \in ends
    BY <1>4, <2>1, <2>2
  <2>5. IsFiniteSet(ends)
    <3> DEFINE D == 1..n + 1
               f == [i \in D |-> path[i] - path[1]]
    <3>1. IsFiniteSet(D)
      <4>1. 1 \in Int /\ n + 1 \in Int
        BY <1>2
      <4> QED
        BY <4>1, FS_Interval
    <3>2. f \in Surjection(D, ends)
      BY <1>4 DEF Surjection
    <3> HIDE DEF D, f, ends
    <3> QED
      BY <3>1, <3>2, FS_Surjection
  <2> HIDE DEF ends, length
  <2>6. Max(ends) \in ends /\ \A x \in ends : x <= Max(ends)
    <3>1. ends \in SUBSET Int /\ ends # {}
      BY <2>3, <2>4
    <3> QED
      BY <2>5, <3>1, HasMax
  <2>7. Max(ends) = length
    <3> DEFINE m == Max(ends)
    <3>1. m \in Int /\ m <= length /\ length <= m
      BY <2>3, <2>4, <2>6
    <3> HIDE DEF m
    <3>2. m = length
      BY <2>2, <3>1
    <3> QED
      BY <3>2 DEF m
  <2>8. at[n] = length
    BY <1>5, <2>1, <2>2
  <2> QED
    BY <2>7, <2>8
<1>8. Spaced(s, spacing, limit, EndsAt(n, at), at[n]) /\ s \in Seq(Nat)
  BY <1>1, AnyWayIsSpaced DEF n
<1>9. Spaced(s, spacing, limit, ends, Max(ends)) /\ s \in Seq(Nat)
  BY <1>6, <1>7, <1>8, Zenon
<1> QED
  BY <1>7, <1>9, Zenon

-----------------------------------------------------------------------------
(* generate_tag_map: the points of a way                                   *)

\* The points of a way that the file has.
InFile(map, way) == {i \in DOMAIN map.ways[way] : map.ways[way][i] \in DOMAIN map.nodes}
\* Where a point of a way is.
PlaceOf(map, way, i) == map.nodes[map.ways[way][i]]

\* A way that never goes back.
IsSide(map, way) ==
    /\ Len(map.ways[way]) \in Nat /\ DOMAIN map.ways[way] = 1..Len(map.ways[way])
    /\ \A i \in InFile(map, way) : PlaceOf(map, way, i) \in Int
    /\ \A i, j \in InFile(map, way) : i <= j => PlaceOf(map, way, i) <= PlaceOf(map, way, j)

\* A line of n points from one place to another.
Leads(line, n, first, last) ==
    /\ line \in Seq(Int) /\ Len(line) = n /\ NeverBack(line)
    /\ n # 0 => line[1] = first /\ line[n] = last

\* lane_centrelines: the points of a way that the file has, in their order.
LEMMA WayIs ==
    ASSUME NEW map, NEW way, IsSide(map, way)
    PROVE  LET K == InFile(map, way)
           IN  /\ IsFiniteSet(K) /\ Cardinality(K) \in Nat
               /\ Cardinality(K) = 0 <=> K = {}
               /\ Leads(WayPoints(map, way), Cardinality(K), PlaceOf(map, way, Min(K)), PlaceOf(map, way, Max(K)))
<1> DEFINE K == InFile(map, way)
           n == Cardinality(K)
           line == WayPoints(map, way)
           refs == map.ways[way]
           nth(k) == CHOOSE i \in K : Cardinality({j \in K : j <= i}) = k
<1>1. K \in SUBSET Int /\ IsFiniteSet(K)
  <2> DEFINE D == 1..Len(refs)
  <2>1. IsFiniteSet(D)
    <3>1. 1 \in Int /\ Len(refs) \in Int
      BY DEF IsSide
    <3> QED
      BY <3>1, FS_Interval
  <2>2. K \subseteq D
    BY DEF InFile, IsSide
  <2>3. D \subseteq Int
    OBVIOUS
  <2> HIDE DEF D, K
  <2> QED
    BY <2>1, <2>2, <2>3, FS_Subset
<1>2. \A i \in K : PlaceOf(map, way, i) \in Int
  BY DEF IsSide
<1>3. \A i, j \in K : i <= j => PlaceOf(map, way, i) <= PlaceOf(map, way, j)
  BY DEF IsSide
<1>4. line = [k \in 1..n |-> PlaceOf(map, way, nth(k))]
  BY Zenon DEF WayPoints, InFile, PlaceOf
<1> HIDE DEF K
<1>5. n \in Nat /\ (n = 0 <=> K = {})
  BY <1>1, FS_CardinalityType, FS_EmptySet
<1>6. PICK key : Ranks(K, n, key)
  BY <1>1, RanksAre
<1>7. /\ key \in [1..n -> K]
      /\ \A i, j \in 1..n : i < j => key[i] < key[j]
      /\ \A k \in K : \E i \in 1..n : key[i] = k
  BY <1>6 DEF Ranks
<1>8. ASSUME NEW k \in 1..n PROVE key[k] = nth(k)
  BY <1>6, Zenon DEF Ranks, UpToKey
<1> HIDE DEF nth, n
<1>9. line = [k \in 1..n |-> PlaceOf(map, way, key[k])]
  BY <1>4, <1>8
<1> DEFINE place == [i \in K |-> PlaceOf(map, way, i)]
<1>10. place \in [K -> Int] /\ \A i, j \in K : i <= j => place[i] <= place[j]
  BY <1>2, <1>3
<1>11. line = [k \in 1..n |-> place[key[k]]]
  BY <1>7, <1>9
<1>12. /\ K # {} => Min(K) \in K /\ Max(K) \in K
       /\ \A x \in K : Min(K) <= x /\ x <= Max(K)
  BY <1>1, HasMin, HasMax
<1>13. K # {} => PlaceOf(map, way, Min(K)) = place[Min(K)] /\ PlaceOf(map, way, Max(K)) = place[Max(K)]
  BY <1>12
<1> HIDE DEF place
<1>14. line \in Seq(Int) /\ Len(line) = n /\ \A k \in 1..n : line[k] = place[key[k]]
  <2>1. line \in [1..n -> Int]
    BY <1>7, <1>10, <1>11
  <2>2. \A k \in 1..n : line[k] = place[key[k]]
    BY <1>11
  <2> HIDE DEF line
  <2> QED
    BY <1>5, <2>1, <2>2
<1> HIDE DEF line
<1>15. ASSUME NEW i \in 1..n, NEW j \in 1..n, i <= j PROVE key[i] <= key[j] /\ line[i] <= line[j]
  <2>1. key[i] \in K /\ key[j] \in K /\ key[i] \in Int /\ key[j] \in Int
    BY <1>1, <1>7
  <2>2. key[i] <= key[j]
    <3>1. i = j \/ i < j
      BY <1>5, <1>15
    <3> QED
      BY <1>7, <2>1, <3>1
  <2> QED
    BY <1>10, <1>14, <2>1, <2>2
<1>16. NeverBack(line)
  BY <1>14, <1>15 DEF NeverBack
<1>17. ASSUME n # 0 PROVE line[1] = place[Min(K)] /\ line[n] = place[Max(K)]
  <2>1. K # {} /\ 1 \in 1..n /\ n \in 1..n
    BY <1>5, <1>17
  <2>2. PICK a \in 1..n : key[a] = Min(K)
    BY <1>7, <1>12, <2>1
  <2>3. PICK b \in 1..n : key[b] = Max(K)
    BY <1>7, <1>12, <2>1
  <2>4. key[1] <= key[a] /\ key[b] <= key[n]
    BY <1>5, <1>15, <2>1
  <2>5. key[1] \in K /\ key[n] \in K
    BY <1>7, <2>1
  <2>6. key[1] = Min(K)
    <3> DEFINE m == Min(K)
               y == key[1]
    <3>1. m \in Int /\ y \in Int /\ m <= y /\ y <= m
      BY <1>1, <1>12, <2>1, <2>2, <2>4, <2>5
    <3> HIDE DEF m, y
    <3>2. y = m
      BY <3>1
    <3> QED
      BY <3>2 DEF m, y
  <2>7. key[n] = Max(K)
    <3> DEFINE m == Max(K)
               y == key[n]
    <3>1. m \in Int /\ y \in Int /\ m <= y /\ y <= m
      BY <1>1, <1>12, <2>1, <2>3, <2>4, <2>5
    <3> HIDE DEF m, y
    <3>2. y = m
      BY <3>1
    <3> QED
      BY <3>2 DEF m, y
  <2> QED
    BY <1>14, <2>1, <2>6, <2>7
<1>18. Leads(line, n, PlaceOf(map, way, Min(K)), PlaceOf(map, way, Max(K)))
  <2>1. n # 0 => K # {}
    BY <1>5
  <2> QED
    BY <1>13, <1>14, <1>16, <1>17, <2>1, Zenon DEF Leads
<1> QED
  BY <1>1, <1>5, <1>18, Zenon DEF line, n, K

-----------------------------------------------------------------------------
(* generate_tag_map: the middle of a lane                                  *)

\* Where a side of len points is sampled, of n samples in all.
SampleOf(len, n, i) == 1 + Min({(i * len) \div n, len - 1})

\* The samples of a side begin with its first point, end with its last and never
\* go back.
LEMMA SamplesAre ==
    ASSUME NEW len \in Nat \ {0}, NEW n \in Nat \ {0}, len <= n
    PROVE  /\ \A i \in 0..n - 1 : SampleOf(len, n, i) \in 1..len
           /\ SampleOf(len, n, 0) = 1 /\ SampleOf(len, n, n - 1) = len
           /\ \A i, j \in 0..n - 1 : i <= j => SampleOf(len, n, i) <= SampleOf(len, n, j)
<1> DEFINE d(i) == (i * len) \div n
<1>1. ASSUME NEW i \in 0..n - 1
      PROVE  d(i) \in Nat /\ n * d(i) \in Int /\ i * len \in Nat /\ n * d(i) <= i * len /\ i * len < n * d(i) + n
  <2>1. i \in Nat /\ i * len \in Nat
    OBVIOUS
  <2> DEFINE a == i * len
  <2>2. a \in Int /\ 0 <= a
    BY <2>1
  <2> HIDE DEF a
  <2> DEFINE q == a \div n
  <2>3. q \in Int /\ n * q <= a /\ a < n * q + n
    BY <2>2, DivFacts
  <2> HIDE DEF q
  <2>4. n * q \in Int
    BY <2>3
  <2>5. q \in Nat
    <3>1. CASE q + 1 <= 0
      <4>1. n * (q + 1) <= n * 0 /\ n * (q + 1) = n * q + n * 1
        BY <2>3, <3>1, Ordered, SumTimes
      <4> DEFINE nq == n * q
                 up == n * (q + 1)
      <4>2. nq \in Int /\ up <= 0 /\ up = nq + n /\ a < nq + n
        BY <2>3, <2>4, <4>1
      <4> HIDE DEF nq, up
      <4> QED
        BY <2>2, <4>2
    <3> QED
      BY <2>3, <3>1
  <2> QED
    BY <2>1, <2>3, <2>4, <2>5 DEF q, a
<1>2. ASSUME NEW i \in 0..n - 1, NEW j \in 0..n - 1, i <= j PROVE d(i) <= d(j)
  <2> DEFINE x == d(i)
             y == d(j)
             a == i * len
             b == j * len
  <2>1. x \in Nat /\ y \in Nat /\ a \in Nat /\ b \in Nat /\ n * x <= a /\ b < n * y + n
    BY <1>1
  <2>2. a <= b
    <3>1. len * i <= len * j
      BY <1>2, Ordered
    <3> QED
      BY <3>1
  <2> HIDE DEF x, y, a, b
  <2>3. ASSUME y + 1 <= x PROVE FALSE
    <3>1. n * (y + 1) <= n * x /\ n * (y + 1) = n * y + n * 1 /\ n * x \in Int /\ n * y \in Int
      BY <2>1, <2>3, Ordered, SumTimes
    <3> DEFINE nx == n * x
               ny == n * y
               up == n * (y + 1)
    <3>2. nx \in Int /\ ny \in Int /\ up <= nx /\ up = ny + n /\ nx <= a /\ b < ny + n
      BY <2>1, <3>1
    <3> HIDE DEF nx, ny, up
    <3> QED
      BY <2>1, <2>2, <3>2
  <2>4. x <= y
    BY <2>1, <2>3
  <2> QED
    BY <2>4 DEF x, y
<1>3. d(0) = 0
  <2> DEFINE x == d(0)
  <2>1. x \in Nat /\ n * x <= 0 * len
    BY <1>1
  <2> HIDE DEF x
  <2>2. CASE 1 <= x
    <3>1. n * 1 <= n * x /\ n * x \in Int
      BY <2>1, <2>2, Ordered
    <3> DEFINE nx == n * x
    <3>2. nx \in Int /\ n <= nx /\ nx <= 0
      BY <2>1, <3>1
    <3> HIDE DEF nx
    <3> QED
      BY <3>2
  <2>3. x = 0
    BY <2>1, <2>2
  <2> QED
    BY <2>3 DEF x
<1>4. len - 1 <= d(n - 1)
  <2> DEFINE x == d(n - 1)
             a == (n - 1) * len
             nx == n * x
  <2>1. x \in Nat /\ a \in Nat /\ nx \in Int /\ a < nx + n
    BY <1>1
  <2>2. a = len * n - len
    <3>1. len * (n - 1) = len * n - len * 1
      BY SumTimes
    <3> QED
      BY <3>1
  <2>3. n * (len - 1) = n * len - n * 1 /\ n * (len - 1) \in Int
    BY SumTimes
  <2>4. n * len = len * n /\ len * n \in Int
    OBVIOUS
  <2> DEFINE p == len * n
             low == n * (len - 1)
  <2>5. p \in Int /\ low = p - n /\ a = p - len /\ low \in Int
    BY <2>2, <2>3, <2>4
  <2> HIDE DEF a, p, low
  <2>6. ASSUME x + 1 <= len - 1 PROVE FALSE
    <3> HIDE DEF x
    <3>1. n * (x + 1) <= n * (len - 1) /\ n * (x + 1) = n * x + n * 1
      BY <2>1, <2>6, Ordered, SumTimes
    <3> DEFINE up == n * (x + 1)
    <3>2. up <= low /\ up = nx + n
      BY <3>1 DEF low
    <3> HIDE DEF up, nx
    <3> QED
      BY <2>1, <2>5, <3>2
  <2>7. len - 1 <= x
    <3> HIDE DEF x, nx
    <3> QED
      BY <2>1, <2>6
  <2> QED
    BY <2>7
<1>5. ASSUME NEW i \in 0..n - 1
      PROVE  SampleOf(len, n, i) = 1 + (IF d(i) <= len - 1 THEN d(i) ELSE len - 1)
  <2> DEFINE x == d(i)
             y == len - 1
  <2>1. x \in Int /\ y \in Int
    BY <1>1
  <2>2. SampleOf(len, n, i) = 1 + Min({x, y})
    BY Zenon DEF SampleOf
  <2> HIDE DEF x, y
  <2>3. Min({x, y}) \in {x, y} /\ Min({x, y}) <= x /\ Min({x, y}) <= y
    BY <2>1, PairMax
  <2>4. Min({x, y}) = IF x <= y THEN x ELSE y
    BY <2>1, <2>3
  <2> QED
    BY <2>2, <2>4, Zenon DEF x, y
<1> HIDE DEF d
<1>6. \A i \in 0..n - 1 : d(i) \in Nat
  BY <1>1
<1>7. 0 \in 0..n - 1 /\ n - 1 \in 0..n - 1
  OBVIOUS
<1>8. \A i \in 0..n - 1 : SampleOf(len, n, i) \in 1..len
  BY <1>5, <1>6
<1>9. SampleOf(len, n, 0) = 1
  BY <1>3, <1>5, <1>7
<1>10. SampleOf(len, n, n - 1) = len
  <2>1. d(n - 1) \in Nat
    BY <1>6, <1>7
  <2>2. SampleOf(len, n, n - 1) = 1 + (IF d(n - 1) <= len - 1 THEN d(n - 1) ELSE len - 1)
    BY <1>5, <1>7
  <2> QED
    BY <1>4, <2>1, <2>2
<1>11. ASSUME NEW i \in 0..n - 1, NEW j \in 0..n - 1, i <= j
       PROVE  SampleOf(len, n, i) <= SampleOf(len, n, j)
  <2>1. d(i) \in Nat /\ d(j) \in Nat /\ d(i) <= d(j)
    BY <1>2, <1>6, <1>11
  <2> QED
    BY <1>5, <2>1
<1> QED
  BY <1>8, <1>9, <1>10, <1>11

\* Between two sides, from their beginnings to their ends.
IsSampled(mid, left, right) ==
    /\ mid \in Seq(Int) /\ mid # <<>> /\ NeverBack(mid)
    /\ Len(mid) = Max({Len(left), Len(right)})
    /\ mid[1] = left[1] + right[1]
    /\ mid[Len(mid)] = left[Len(left)] + right[Len(right)]

\* The centreline of a lane between two sides.
Middle(left, right) ==
    LET n == Max({Len(left), Len(right)})
        sample(points, i) == points[1 + Min({(i * Len(points)) \div n, Len(points) - 1})]
    IN  [k \in 1..n |-> sample(left, k - 1) + sample(right, k - 1)]

\* lane_centrelines: the centreline is between the sides.
LEMMA MiddleIs ==
    ASSUME NEW left \in Seq(Int), left # <<>>, NeverBack(left),
           NEW right \in Seq(Int), right # <<>>, NeverBack(right)
    PROVE  IsSampled(Middle(left, right), left, right)
<1> DEFINE n == Max({Len(left), Len(right)})
           a == Len(left)
           b == Len(right)
           l(k) == left[SampleOf(a, n, k - 1)]
           r(k) == right[SampleOf(b, n, k - 1)]
           mid == Middle(left, right)
<1>1. a \in Nat \ {0} /\ b \in Nat \ {0}
  OBVIOUS
<1>2. n \in Nat \ {0} /\ a <= n /\ b <= n
  <2> HIDE DEF a, b
  <2>1. a \in Int /\ b \in Int
    BY <1>1
  <2>2. Max({a, b}) \in {a, b} /\ a <= Max({a, b}) /\ b <= Max({a, b})
    BY <2>1, PairMax
  <2>3. n = Max({a, b})
    BY DEF a, b
  <2> QED
    BY <1>1, <2>2, <2>3
<1>3. mid = [k \in 1..n |-> l(k) + r(k)]
  BY Zenon DEF Middle, SampleOf
<1>4. /\ \A i \in 1..a : left[i] \in Int
      /\ \A i, j \in 1..a : i <= j => left[i] <= left[j]
      /\ \A i \in 1..b : right[i] \in Int
      /\ \A i, j \in 1..b : i <= j => right[i] <= right[j]
  BY DEF NeverBack
<1> HIDE DEF n, a, b, mid
<1>5. ASSUME NEW k \in 1..n PROVE l(k) \in Int /\ r(k) \in Int
  <2>1. k - 1 \in 0..n - 1
    BY <1>2
  <2>2. SampleOf(a, n, k - 1) \in 1..a /\ SampleOf(b, n, k - 1) \in 1..b
    BY <1>1, <1>2, <2>1, SamplesAre
  <2> QED
    BY <1>4, <2>2
<1>6. ASSUME NEW i \in 1..n, NEW j \in 1..n, i <= j
      PROVE  l(i) <= l(j) /\ r(i) <= r(j)
  <2>1. i - 1 \in 0..n - 1 /\ j - 1 \in 0..n - 1 /\ i - 1 <= j - 1
    BY <1>2, <1>6
  <2>2. SampleOf(a, n, i - 1) \in 1..a /\ SampleOf(a, n, j - 1) \in 1..a
        /\ SampleOf(a, n, i - 1) <= SampleOf(a, n, j - 1)
    BY <1>1, <1>2, <2>1, SamplesAre
  <2>3. SampleOf(b, n, i - 1) \in 1..b /\ SampleOf(b, n, j - 1) \in 1..b
        /\ SampleOf(b, n, i - 1) <= SampleOf(b, n, j - 1)
    BY <1>1, <1>2, <2>1, SamplesAre
  <2> QED
    BY <1>4, <2>2, <2>3
<1>7. l(1) = left[1] /\ r(1) = right[1] /\ l(n) = left[a] /\ r(n) = right[b]
  <2>1. SampleOf(a, n, 0) = 1 /\ SampleOf(a, n, n - 1) = a
    BY <1>1, <1>2, SamplesAre
  <2>2. SampleOf(b, n, 0) = 1 /\ SampleOf(b, n, n - 1) = b
    BY <1>1, <1>2, SamplesAre
  <2>3. 1 - 1 = 0
    OBVIOUS
  <2> QED
    BY <2>1, <2>2, <2>3, Zenon
<1> HIDE DEF l, r
<1>8. mid \in Seq(Int) /\ Len(mid) = n /\ \A k \in 1..n : mid[k] = l(k) + r(k)
  <2>1. mid \in [1..n -> Int]
    BY <1>3, <1>5
  <2>2. \A k \in 1..n : mid[k] = l(k) + r(k)
    BY <1>3
  <2> QED
    BY <1>2, <2>1, <2>2
<1>9. NeverBack(mid)
  <2>1. ASSUME NEW i \in 1..n, NEW j \in 1..n, i <= j PROVE mid[i] <= mid[j]
    <3>1. l(i) \in Int /\ l(j) \in Int /\ r(i) \in Int /\ r(j) \in Int /\ l(i) <= l(j) /\ r(i) <= r(j)
      BY <1>5, <1>6, <2>1
    <3> QED
      BY <1>8, <3>1
  <2> QED
    BY <1>8, <2>1 DEF NeverBack
<1>10. mid[1] = left[1] + right[1] /\ mid[n] = left[a] + right[b]
  <2>1. 1 \in 1..n /\ n \in 1..n
    BY <1>2
  <2> QED
    BY <1>7, <1>8, <2>1
<1>11. mid # <<>>
  BY <1>2, <1>8
<1> QED
  BY <1>8, <1>9, <1>10, <1>11, Zenon DEF IsSampled, n, a, b, mid

\* A relation with a left and a right side.
IsRelation(map, relation) ==
    /\ DOMAIN relation.members = {1, 2}
    /\ relation.members[1].role = "left" /\ relation.members[2].role = "right"
    /\ \A k \in {1, 2} : relation.members[k].ref \in DOMAIN map.ways /\ IsSide(map, relation.members[k].ref)

\* A road of which the file has both sides.
BothKnown(map, relation) ==
    /\ relation.subtype = "road"
    /\ \A k \in {1, 2} : InFile(map, relation.members[k].ref) # {}

\* What the script takes for a lane is one, and it begins and ends where its
\* sides do.
LaneHas(map, relation) ==
    LET line == Centreline(map, relation)
    IN  /\ IsLane(map, relation) <=> BothKnown(map, relation)
        /\ ~BothKnown(map, relation) => EndsOf(map, relation) = {}
        /\ BothKnown(map, relation) =>
            /\ line \in Seq(Int) /\ line # <<>> /\ NeverBack(line)
            /\ EndsOf(map, relation) = IF Len(line) >= 2 THEN {<<line[1], line[Len(line)]>>} ELSE {}

\* lane_centrelines, of one relation.
LEMMA RelationIsLane ==
    ASSUME NEW map, NEW relation, IsRelation(map, relation)
    PROVE  LaneHas(map, relation)
<1> DEFINE w1 == relation.members[1].ref
           w2 == relation.members[2].ref
           left == WayPoints(map, w1)
           right == WayPoints(map, w2)
           K1 == InFile(map, w1)
           K2 == InFile(map, w2)
           n1 == Cardinality(K1)
           n2 == Cardinality(K2)
<1>1. /\ DOMAIN relation.members = {1, 2}
      /\ relation.members[1].role = "left" /\ relation.members[2].role = "right"
      /\ w1 \in DOMAIN map.ways /\ w2 \in DOMAIN map.ways /\ IsSide(map, w1) /\ IsSide(map, w2)
  BY DEF IsRelation
<1>2. /\ n1 \in Nat /\ (n1 = 0 <=> K1 = {})
      /\ Leads(left, n1, PlaceOf(map, w1, Min(K1)), PlaceOf(map, w1, Max(K1)))
  BY <1>1, WayIs
<1>3. /\ n2 \in Nat /\ (n2 = 0 <=> K2 = {})
      /\ Leads(right, n2, PlaceOf(map, w2, Min(K2)), PlaceOf(map, w2, Max(K2)))
  BY <1>1, WayIs
<1>4. BothKnown(map, relation) <=> relation.subtype = "road" /\ K1 # {} /\ K2 # {}
  BY DEF BothKnown
<1>5. EndsOf(map, relation) =
        IF relation.subtype # "road" \/ K1 = {} \/ K2 = {} \/ n1 + n2 = 2 THEN {}
        ELSE {<<PlaceOf(map, w1, Min(K1)) + PlaceOf(map, w2, Min(K2)),
                PlaceOf(map, w1, Max(K1)) + PlaceOf(map, w2, Max(K2))>>}
  BY Zenon DEF EndsOf, InFile, PlaceOf
<1>6. /\ left \in Seq(Int) /\ Len(left) = n1 /\ NeverBack(left)
      /\ n1 # 0 => left[1] = PlaceOf(map, w1, Min(K1)) /\ left[n1] = PlaceOf(map, w1, Max(K1))
  BY <1>2, Zenon DEF Leads
<1>7. /\ right \in Seq(Int) /\ Len(right) = n2 /\ NeverBack(right)
      /\ n2 # 0 => right[1] = PlaceOf(map, w2, Min(K2)) /\ right[n2] = PlaceOf(map, w2, Max(K2))
  BY <1>3, Zenon DEF Leads
<1>8. Sides(map, relation, "left") = {i \in {1} : left # <<>>}
  <2>1. "left" # "right"
    OBVIOUS
  <2> HIDE DEF left
  <2>2. Sides(map, relation, "left") =
            {i \in {1, 2} : /\ relation.members[i].role = "left"
                            /\ relation.members[i].ref \in DOMAIN map.ways
                            /\ WayPoints(map, relation.members[i].ref) # <<>>}
    BY <1>1 DEF Sides
  <2>3. \A i \in {1, 2} : i \in Sides(map, relation, "left") <=> i = 1 /\ left # <<>>
    BY <1>1, <2>1, <2>2 DEF left
  <2> QED
    BY <2>2, <2>3
<1>9. Sides(map, relation, "right") = {i \in {2} : right # <<>>}
  <2>1. "left" # "right"
    OBVIOUS
  <2> HIDE DEF right
  <2>2. Sides(map, relation, "right") =
            {i \in {1, 2} : /\ relation.members[i].role = "right"
                            /\ relation.members[i].ref \in DOMAIN map.ways
                            /\ WayPoints(map, relation.members[i].ref) # <<>>}
    BY <1>1 DEF Sides
  <2>3. \A i \in {1, 2} : i \in Sides(map, relation, "right") <=> i = 2 /\ right # <<>>
    BY <1>1, <2>1, <2>2 DEF right
  <2> QED
    BY <2>2, <2>3
<1> HIDE DEF left, right, K1, K2, n1, n2
<1>10. (left # <<>> <=> K1 # {}) /\ (right # <<>> <=> K2 # {})
  BY <1>2, <1>3, <1>6, <1>7
<1>11. IsLane(map, relation) <=> BothKnown(map, relation)
  <2>1. Sides(map, relation, "left") # {} <=> K1 # {}
    BY <1>8, <1>10
  <2>2. Sides(map, relation, "right") # {} <=> K2 # {}
    BY <1>9, <1>10
  <2> QED
    BY <1>4, <2>1, <2>2, Zenon DEF IsLane
<1>12. ASSUME BothKnown(map, relation)
       PROVE  LET line == Centreline(map, relation)
              IN  /\ line \in Seq(Int) /\ line # <<>> /\ NeverBack(line)
                  /\ EndsOf(map, relation) = IF Len(line) >= 2 THEN {<<line[1], line[Len(line)]>>} ELSE {}
  <2> DEFINE line == Centreline(map, relation)
  <2>1. left # <<>> /\ right # <<>> /\ relation.subtype = "road" /\ K1 # {} /\ K2 # {}
    BY <1>4, <1>10, <1>12
  <2>2. Sides(map, relation, "left") = {1} /\ Sides(map, relation, "right") = {2}
    BY <1>8, <1>9, <2>1
  <2>3. Max({1}) = 1 /\ Max({2}) = 2
    <3>1. \A x \in Int : Max({x, x}) = x
      BY PairMax
    <3>2. Max({1, 1}) = 1 /\ Max({2, 2}) = 2
      BY <3>1
    <3>3. {1, 1} = {1} /\ {2, 2} = {2}
      OBVIOUS
    <3> QED
      BY <3>2, <3>3, Zenon
  <2>4. /\ WayPoints(map, relation.members[Max(Sides(map, relation, "left"))].ref) = left
        /\ WayPoints(map, relation.members[Max(Sides(map, relation, "right"))].ref) = right
    BY <2>2, <2>3, Zenon DEF left, right
  <2>5. line = Middle(left, right)
    BY <2>4, Zenon DEF Centreline, Middle
  <2>6. IsSampled(Middle(left, right), left, right)
    BY <1>6, <1>7, <2>1, MiddleIs
  <2>7. IsSampled(line, left, right)
    BY <2>5, <2>6, Zenon
  <2> HIDE DEF line
  <2>8. /\ line \in Seq(Int) /\ line # <<>> /\ NeverBack(line) /\ Len(line) = Max({n1, n2})
        /\ line[1] = left[1] + right[1] /\ line[Len(line)] = left[n1] + right[n2]
    BY <1>6, <1>7, <2>7, Zenon DEF IsSampled
  <2>9. n1 \in Nat \ {0} /\ n2 \in Nat \ {0}
    BY <1>2, <1>3, <2>1
  <2>10. Len(line) >= 2 <=> n1 + n2 # 2
    <3>1. n1 \in Int /\ n2 \in Int
      BY <2>9
    <3>2. Max({n1, n2}) \in {n1, n2} /\ n1 <= Max({n1, n2}) /\ n2 <= Max({n1, n2})
      BY <3>1, PairMax
    <3> QED
      BY <2>8, <2>9, <3>2
  <2>11. EndsOf(map, relation) =
            IF n1 + n2 = 2 THEN {} ELSE {<<left[1] + right[1], left[n1] + right[n2]>>}
    BY <1>5, <1>6, <1>7, <2>1, <2>9
  <2> QED
    BY <2>8, <2>10, <2>11, Zenon DEF line
<1>13. ~BothKnown(map, relation) => EndsOf(map, relation) = {}
  BY <1>4, <1>5
<1> QED
  BY <1>11, <1>12, <1>13, Zenon DEF LaneHas

-----------------------------------------------------------------------------
(* generate_tag_map: the longest lane and its boards                       *)

\* longest_path: there is a longest way, and it is taken.
LEMMA LongestIsTaken ==
    ASSUME NEW f, DOMAIN f \in SUBSET Int, IsFiniteSet(DOMAIN f), DOMAIN f # {},
           \A i \in DOMAIN f : LengthOf(f[i]) \in Int
    PROVE  \E i \in DOMAIN f : /\ LongestPath(f) = f[i]
                               /\ \A j \in DOMAIN f : LengthOf(f[j]) <= LengthOf(f[i])
<1> DEFINE D == DOMAIN f
           longest == {i \in D : \A j \in D : LengthOf(f[j]) <= LengthOf(f[i])}
           length == [i \in D |-> LengthOf(f[i])]
           all == {length[i] : i \in D}
<1>1. LongestPath(f) = f[Min(longest)]
  BY Zenon DEF LongestPath
<1>2. \A i \in D : length[i] = LengthOf(f[i]) /\ length[i] \in Int
  OBVIOUS
<1>3. all \in SUBSET Int /\ all # {} /\ IsFiniteSet(all)
  <2>1. length \in Surjection(D, all)
    BY DEF Surjection
  <2>2. all \in SUBSET Int /\ all # {}
    BY <1>2
  <2> HIDE DEF length, all
  <2>3. IsFiniteSet(all)
    BY <2>1, FS_Surjection
  <2> QED
    BY <2>2, <2>3
<1>4. PICK top \in D : \A j \in D : length[j] <= length[top]
  <2> DEFINE m == Max(all)
  <2>1. m \in all /\ \A x \in all : x <= m
    <3> HIDE DEF all
    <3> QED
      BY <1>3, HasMax
  <2> HIDE DEF m, length
  <2> QED
    BY <2>1
<1>5. top \in longest
  BY <1>2, <1>4
<1>6. Min(longest) \in longest
  <2>1. longest \in SUBSET Int /\ IsFiniteSet(longest)
    <3>1. longest \subseteq D
      OBVIOUS
    <3> HIDE DEF longest
    <3> QED
      BY <3>1, FS_Subset
  <2> HIDE DEF longest
  <2> QED
    BY <1>5, <2>1, HasMin
<1> QED
  BY <1>1, <1>6

\* The two boards of a hundred stations.
LEMMA IdsApart ==
    ASSUME NEW stations, NEW n \in 0..100, DOMAIN stations = 1..n
    PROVE  IsInjective([k \in 1..2 * n |-> IF k <= n THEN TagIds(stations).left[k]
                                           ELSE TagIds(stations).right[k - n]])
<1> DEFINE ids == [k \in 1..2 * n |-> IF k <= n THEN TagIds(stations).left[k] ELSE TagIds(stations).right[k - n]]
<1>1. ASSUME NEW k \in 1..2 * n
      PROVE  ids[k] = IF k <= n THEN 99 + k ELSE 199 + (k - n)
  <2>1. CASE k <= n
    <3>1. k \in 1..n
      BY <2>1
    <3>2. TagIds(stations).left = [i \in 1..n |-> 99 + i]
      BY DEF TagIds
    <3> QED
      BY <2>1, <3>1, <3>2
  <2>2. CASE ~(k <= n)
    <3>1. k - n \in 1..n
      BY <2>2
    <3>2. TagIds(stations).right = [i \in 1..n |-> 199 + i]
      BY DEF TagIds
    <3> QED
      BY <2>2, <3>1, <3>2
  <2> QED
    BY <2>1, <2>2
<1>2. DOMAIN ids = 1..2 * n
  OBVIOUS
<1> HIDE DEF ids
<1>3. ASSUME NEW a \in 1..2 * n, NEW b \in 1..2 * n, ids[a] = ids[b] PROVE a = b
  <2> DEFINE id(k) == IF k <= n THEN 99 + k ELSE 199 + (k - n)
  <2>1. id(a) = id(b)
    BY <1>1, <1>3
  <2>2. a \in Int /\ b \in Int /\ n \in Int /\ n <= 100
    OBVIOUS
  <2>3. CASE a <= n
    BY <2>1, <2>2, <2>3
  <2>4. CASE ~(a <= n)
    BY <2>1, <2>2, <2>4
  <2> QED
    BY <2>3, <2>4
<1> QED
  BY <1>2, <1>3 DEF IsInjective, ids

\* A map all of whose ways go the same direction.
IsTagMap(map) ==
    /\ Len(map.relations) \in Nat /\ DOMAIN map.relations = 1..Len(map.relations)
    /\ \A i \in DOMAIN map.relations : IsRelation(map, map.relations[i])

\* The centrelines of a map are its lanes.
LinesHave(map) ==
    LET f == LaneCentrelines(map)
        line(i) == Centreline(map, map.relations[i])
    IN  /\ DOMAIN f \in SUBSET Int /\ IsFiniteSet(DOMAIN f) /\ DOMAIN f \subseteq DOMAIN map.relations
        /\ \A i \in DOMAIN f : /\ f[i] \in Seq(Int) /\ f[i] # <<>> /\ NeverBack(f[i])
                               /\ EndsOf(map, map.relations[i]) = {<<f[i][1], f[i][Len(f[i])]>>}
        /\ \A i \in DOMAIN map.relations : i \notin DOMAIN f => EndsOf(map, map.relations[i]) = {}

\* lane_centrelines, of all relations.
LEMMA CentrelinesAre ==
    ASSUME NEW map, IsTagMap(map) PROVE LinesHave(map)
<1> DEFINE f == LaneCentrelines(map)
           D == DOMAIN map.relations
           lanes == {i \in D : IsLane(map, map.relations[i]) /\ Len(Centreline(map, map.relations[i])) >= 2}
<1>1. D \in SUBSET Int /\ IsFiniteSet(D)
  <2>1. D = 1..Len(map.relations) /\ Len(map.relations) \in Int
    BY DEF IsTagMap
  <2> DEFINE m == Len(map.relations)
  <2> HIDE DEF m, D
  <2>2. D = 1..m /\ m \in Int
    BY <2>1 DEF m
  <2>3. IsFiniteSet(1..m)
    <3>1. 1 \in Int
      OBVIOUS
    <3> QED
      BY <2>2, <3>1, FS_Interval
  <2> QED
    BY <2>2, <2>3
<1>2. f = [i \in lanes |-> Centreline(map, map.relations[i])]
  BY Zenon DEF LaneCentrelines
<1>3. \A i \in D : LaneHas(map, map.relations[i])
  BY RelationIsLane DEF IsTagMap
<1> HIDE DEF D
<1>4. DOMAIN f = lanes /\ \A i \in lanes : f[i] = Centreline(map, map.relations[i])
  BY <1>2
<1> HIDE DEF f
<1>5. lanes \subseteq D
  OBVIOUS
<1>6. ASSUME NEW i \in lanes
      PROVE  /\ f[i] \in Seq(Int) /\ f[i] # <<>> /\ NeverBack(f[i])
             /\ EndsOf(map, map.relations[i]) = {<<f[i][1], f[i][Len(f[i])]>>}
  <2> DEFINE relation == map.relations[i]
             line == Centreline(map, relation)
  <2>1. IsLane(map, relation) /\ Len(line) >= 2 /\ LaneHas(map, relation) /\ f[i] = line
    BY <1>3, <1>4
  <2> HIDE DEF relation
  <2>2. line \in Seq(Int) /\ line # <<>> /\ NeverBack(line)
        /\ EndsOf(map, relation) = IF Len(line) >= 2 THEN {<<line[1], line[Len(line)]>>} ELSE {}
    BY <2>1, Zenon DEF LaneHas
  <2> HIDE DEF line
  <2> QED
    BY <2>1, <2>2 DEF relation
<1>7. ASSUME NEW i \in D, i \notin lanes PROVE EndsOf(map, map.relations[i]) = {}
  <2> DEFINE relation == map.relations[i]
             line == Centreline(map, relation)
  <2>1. LaneHas(map, relation) /\ ~(IsLane(map, relation) /\ Len(line) >= 2)
    BY <1>3, <1>7
  <2> HIDE DEF relation
  <2>2. /\ IsLane(map, relation) <=> BothKnown(map, relation)
        /\ ~BothKnown(map, relation) => EndsOf(map, relation) = {}
        /\ BothKnown(map, relation) =>
              EndsOf(map, relation) = IF Len(line) >= 2 THEN {<<line[1], line[Len(line)]>>} ELSE {}
    BY <2>1, Zenon DEF LaneHas
  <2> HIDE DEF line
  <2>3. EndsOf(map, relation) = {}
    BY <2>1, <2>2
  <2> QED
    BY <2>3 DEF relation
<1> HIDE DEF lanes
<1>8. IsFiniteSet(lanes)
  BY <1>1, <1>5, FS_Subset
<1> QED
  BY <1>1, <1>4, <1>5, <1>6, <1>7, <1>8, Zenon DEF LinesHave, f, D

\* generate_tag_map: on any map whose ways never go back, the boards hold the
\* spacing along a longest lane, from its beginning to its end.
THEOREM AnyMapIsBoarded ==
    ASSUME NEW map, IsTagMap(map), NEW spacing \in Nat \ {0}, NEW limit \in Nat
    PROVE  Boarded(map, spacing, limit, TagMap(map, spacing, limit))
<1> DEFINE f == LaneCentrelines(map)
           D == DOMAIN map.relations
           lanes == UNION {EndsOf(map, map.relations[i]) : i \in D}
           path == LongestPath(f)
           stations == Limited(limit, Resampled(Segments(path), spacing).stations)
           res == TagMap(map, spacing, limit)
           ends == {Abs(path[i] - path[1]) : i \in DOMAIN path}
<1>1. /\ DOMAIN f \in SUBSET Int /\ IsFiniteSet(DOMAIN f) /\ DOMAIN f \subseteq D
      /\ \A i \in DOMAIN f : /\ f[i] \in Seq(Int) /\ f[i] # <<>> /\ NeverBack(f[i])
                             /\ EndsOf(map, map.relations[i]) = {<<f[i][1], f[i][Len(f[i])]>>}
      /\ \A i \in D : i \notin DOMAIN f => EndsOf(map, map.relations[i]) = {}
  BY CentrelinesAre, Zenon DEF LinesHave
<1>2. res = IF path = <<>> THEN [refused |-> TRUE]
            ELSE [refused |-> FALSE, path |-> path, stations |-> stations, ids |-> TagIds(stations)]
  BY Zenon DEF TagMap, Limited
<1>3. Boarded(map, spacing, limit, res) <=>
        /\ res.refused = (lanes = {})
        /\ ~res.refused =>
            LET e == {Abs(res.path[i] - res.path[1]) : i \in DOMAIN res.path}
                n == Len(res.stations)
            IN  /\ <<res.path[1], res.path[Len(res.path)]>> \in lanes
                /\ \A lane \in lanes : lane[2] - lane[1] <= Max(e)
                /\ Spaced(res.stations, spacing, limit, e, Max(e))
                /\ n <= 100 => IsInjective([k \in 1..2 * n |-> IF k <= n THEN res.ids.left[k]
                                                               ELSE res.ids.right[k - n]])
  BY Zenon DEF Boarded
<1> HIDE DEF f, D, res
<1>4. CASE DOMAIN f = {}
  <2>1. lanes = {}
    BY <1>1, <1>4
  <2>2. path = <<>>
    BY <1>4 DEF LongestPath
  <2>3. res.refused = TRUE
    BY <1>2, <2>2
  <2> QED
    BY <1>3, <2>1, <2>3, Zenon DEF res
<1>5. CASE DOMAIN f # {}
  <2>1. \A i \in DOMAIN f : LengthOf(f[i]) = f[i][Len(f[i])] - f[i][1] /\ LengthOf(f[i]) \in Int
    <3> TAKE i \in DOMAIN f
    <3> DEFINE line == f[i]
    <3>1. line \in Seq(Int) /\ line # <<>> /\ NeverBack(line)
      BY <1>1
    <3> HIDE DEF line
    <3>2. LengthOf(line) = line[Len(line)] - line[1]
      BY <3>1, RisingAlong
    <3>3. line[Len(line)] \in Int /\ line[1] \in Int
      BY <3>1
    <3> QED
      BY <3>2, <3>3 DEF line
  <2>2. PICK p \in DOMAIN f : path = f[p] /\ \A j \in DOMAIN f : LengthOf(f[j]) <= LengthOf(f[p])
    <3>1. \A i \in DOMAIN f : LengthOf(f[i]) \in Int
      BY <2>1
    <3> QED
      BY <1>1, <1>5, <3>1, LongestIsTaken
  <2>3. path \in Seq(Int) /\ path # <<>> /\ NeverBack(path)
    BY <1>1, <2>2
  <2> HIDE DEF path
  <2>4. Max(ends) = path[Len(path)] - path[1] /\ Spaced(stations, spacing, limit, ends, Max(ends))
        /\ stations \in Seq(Nat)
    BY <2>3, RisingSpaced, Zenon
  <2> HIDE DEF ends, stations
  <2>5. res.refused = FALSE /\ res.path = path /\ res.stations = stations /\ res.ids = TagIds(stations)
    BY <1>2, <2>3
  <2>6. <<path[1], path[Len(path)]>> \in lanes
    BY <1>1, <2>2
  <2>7. ASSUME NEW lane \in lanes PROVE lane[2] - lane[1] <= Max(ends)
    <3>1. PICK j \in D : lane \in EndsOf(map, map.relations[j])
      BY <2>7
    <3>2. j \in DOMAIN f /\ lane = <<f[j][1], f[j][Len(f[j])]>>
      BY <1>1, <3>1
    <3>3. lane[2] - lane[1] = LengthOf(f[j])
      BY <2>1, <3>2
    <3>4. LengthOf(f[p]) = Max(ends)
      BY <2>1, <2>2, <2>4
    <3> QED
      BY <2>2, <3>2, <3>3, <3>4
  <2>8. Len(stations) <= 100 =>
            IsInjective([k \in 1..2 * Len(stations) |-> IF k <= Len(stations) THEN TagIds(stations).left[k]
                                                        ELSE TagIds(stations).right[k - Len(stations)]])
    <3>1. Len(stations) \in Nat /\ DOMAIN stations = 1..Len(stations)
      BY <2>4
    <3> DEFINE n == Len(stations)
    <3> HIDE DEF n
    <3>2. n \in Nat /\ DOMAIN stations = 1..n
      BY <3>1 DEF n
    <3>3. n <= 100 => n \in 0..100
      <4>1. n \in Nat
        BY <3>2, Zenon
      <4> QED
        BY <4>1
    <3>4. n <= 100 => IsInjective([k \in 1..2 * n |-> IF k <= n THEN TagIds(stations).left[k]
                                                      ELSE TagIds(stations).right[k - n]])
      BY <3>2, <3>3, IdsApart, Zenon
    <3> QED
      BY <3>4 DEF n
  <2>9. lanes # {}
    BY <2>6
  <2> HIDE DEF lanes
  <2>10. Boarded(map, spacing, limit, res)
    <3> DEFINE n == Len(res.stations)
               e == {Abs(res.path[i] - res.path[1]) : i \in DOMAIN res.path}
    <3>1. e = ends
      BY <2>5, Zenon DEF ends
    <3>2. n <= 100 => IsInjective([k \in 1..2 * n |-> IF k <= n THEN res.ids.left[k] ELSE res.ids.right[k - n]])
      BY <2>5, <2>8, Zenon
    <3>3. <<res.path[1], res.path[Len(res.path)]>> \in lanes
      BY <2>5, <2>6, Zenon
    <3>4. res.refused = (lanes = {})
      BY <2>5, <2>9
    <3>5. Spaced(res.stations, spacing, limit, e, Max(e)) /\ \A lane \in lanes : lane[2] - lane[1] <= Max(e)
      BY <2>4, <2>5, <2>7, <3>1, Zenon
    <3> HIDE DEF e, n
    <3> QED
      BY <1>3, <3>2, <3>3, <3>4, <3>5, Zenon DEF e, n
  <2> QED
    BY <2>10 DEF res
<1> QED
  BY <1>4, <1>5

-----------------------------------------------------------------------------
(* generate_tag_map: the runs                                              *)

\* The ways of the jobs never go back.
LEMMA WaysRise ==
    ASSUME NEW places \in Ways
    PROVE  /\ places \in Seq(0..6) /\ places # <<>>
           /\ \A i, j \in 1..Len(places) : i <= j => places[i] <= places[j]
<1>1. CASE places \in {<<0, place>> : place \in 0..4}
  <2>1. PICK place \in 0..4 : places = <<0, place>>
    BY <1>1
  <2>2. Len(places) = 2 /\ places[1] = 0 /\ places[2] = place
    BY <2>1
  <2>3. places \in Seq(0..6) /\ places # <<>>
    BY <2>1
  <2>4. \A i, j \in 1..Len(places) : i <= j => places[i] <= places[j]
    BY <2>2
  <2> QED
    BY <2>3, <2>4
<1>2. CASE places \notin {<<0, place>> : place \in 0..4}
  <2>1. PICK n \in 1..4 : places \in [1..n -> 0..6]
    BY <1>2, Zenon DEF Ways
  <2>2. n \in Nat /\ Len(places) = n /\ places \in Seq(0..6) /\ places # <<>>
    BY <2>1
  <2>3. \A k \in 2..n : places[k] - places[k - 1] \in 0..2
    BY <1>2, <2>2 DEF Ways
  <2>4. ASSUME NEW i \in 1..n, NEW j \in 1..n, i <= j PROVE places[i] <= places[j]
    <3> DEFINE T == {k \in Nat : i + k <= n => places[i] <= places[i + k]}
    <3>1. 0 \in T
      BY <2>1
    <3>2. ASSUME NEW k \in 0..(j - i) - 1, k \in T PROVE k + 1 \in T
      <4>1. k \in Nat /\ k + 1 \in Nat /\ i + k \in 1..n /\ i + (k + 1) \in 2..n /\ i + (k + 1) - 1 = i + k
        BY <2>2, <2>4
      <4>2. places[i + (k + 1)] - places[i + k] \in 0..2
        BY <2>3, <4>1
      <4>3. places[i] \in Int /\ places[i + k] \in Int /\ places[i + (k + 1)] \in Int
        BY <2>1, <4>1
      <4>4. places[i] <= places[i + k]
        BY <3>2, <4>1
      <4>5. places[i] <= places[i + (k + 1)]
        BY <4>2, <4>3, <4>4
      <4> QED
        BY <4>1, <4>5
    <3>3. j - i \in Nat /\ i + (j - i) = j
      BY <2>4
    <3>4. j - i \in T
      <4> DEFINE m == j - i
      <4>1. m \in Nat
        BY <3>3
      <4> HIDE DEF m, T
      <4>2. \A k \in 0..m - 1 : k \in T => k + 1 \in T
        BY <3>2 DEF m
      <4>3. m \in T
        BY <3>1, <4>1, <4>2, UpTo
      <4> QED
        BY <4>3 DEF m
    <3> QED
      BY <2>2, <3>3, <3>4
  <2> QED
    BY <2>2, <2>4
<1> QED
  BY <1>1, <1>2

\* A way through the nodes of a file in which a node's place is its name.
LEMMA WayThrough ==
    ASSUME NEW map, NEW way, NEW refs \in Seq(Nat), map.ways[way] = refs,
           \A k \in DOMAIN map.nodes : k \in Int /\ map.nodes[k] = k,
           \A i, j \in 1..Len(refs) : i <= j /\ {refs[i], refs[j]} \subseteq DOMAIN map.nodes => refs[i] <= refs[j]
    PROVE  IsSide(map, way)
<1>1. Len(refs) \in Nat /\ DOMAIN refs = 1..Len(refs)
  OBVIOUS
<1>2. ASSUME NEW i \in InFile(map, way) PROVE i \in 1..Len(refs) /\ PlaceOf(map, way, i) = refs[i]
                                              /\ refs[i] \in DOMAIN map.nodes /\ refs[i] \in Int
  BY <1>1 DEF InFile, PlaceOf
<1>3. \A i \in InFile(map, way) : PlaceOf(map, way, i) \in Int
  BY <1>2
<1>4. ASSUME NEW i \in InFile(map, way), NEW j \in InFile(map, way), i <= j
      PROVE  PlaceOf(map, way, i) <= PlaceOf(map, way, j)
  <2>1. refs[i] <= refs[j]
    BY <1>2, <1>4
  <2> QED
    BY <1>2, <2>1
<1> QED
  BY <1>1, <1>3, <1>4 DEF IsSide

\* Nor does the other side, as far as the file has its points.
LEMMA RightIsWay ==
    ASSUME NEW places \in Ways, NEW right \in Rights(places)
    PROVE  /\ right \in Seq(Nat)
           /\ \A i, j \in 1..Len(right) : i <= j /\ {right[i], right[j]} \subseteq 0..8 => right[i] <= right[j]
<1> DEFINE n == Len(places)
           a == places[1]
           b == places[n]
<1>1. /\ places \in Seq(0..6) /\ places # <<>>
      /\ \A i, j \in 1..n : i <= j => places[i] <= places[j]
  BY WaysRise
<1>2. a \in 0..6 /\ b \in 0..6 /\ a <= b
  <2>1. n \in Nat /\ 1 \in 1..n /\ n \in 1..n /\ 1 <= n
    BY <1>1
  <2> QED
    BY <1>1, <2>1
<1>3. right \in {places, <<a, b>>, <<a, 9, b + 1>>, <<9>>}
  BY Zenon DEF Rights
<1> HIDE DEF a, b
<1>4. CASE right = places
  <2>1. right \in Seq(Nat)
    <3>1. 0..6 \subseteq Nat
      OBVIOUS
    <3> QED
      BY <1>1, <1>4, <3>1
  <2> QED
    BY <1>1, <1>4, <2>1
<1>5. CASE right = <<a, b>>
  <2>1. right \in Seq(Nat) /\ Len(right) = 2 /\ right[1] = a /\ right[2] = b
    BY <1>2, <1>5
  <2> QED
    BY <1>2, <2>1
<1>6. CASE right = <<a, 9, b + 1>>
  <2>1. right \in Seq(Nat) /\ Len(right) = 3 /\ right[1] = a /\ right[2] = 9 /\ right[3] = b + 1
    BY <1>2, <1>6
  <2>2. ASSUME NEW i \in 1..3, NEW j \in 1..3, i <= j, {right[i], right[j]} \subseteq 0..8 PROVE right[i] <= right[j]
    <3>1. i \in {1, 3} /\ j \in {1, 3}
      BY <2>1, <2>2
    <3> QED
      BY <1>2, <2>1, <2>2, <3>1
  <2> QED
    BY <2>1, <2>2
<1>7. CASE right = <<9>>
  <2>1. right \in Seq(Nat) /\ Len(right) = 1 /\ right[1] = 9
    BY <1>7
  <2> QED
    BY <2>1
<1> QED
  BY <1>3, <1>4, <1>5, <1>6, <1>7

\* A lane of the jobs.
LEMMA RelationIs ==
    ASSUME NEW map, NEW subtype, NEW left, NEW right,
           left \in DOMAIN map.ways /\ IsSide(map, left), right \in DOMAIN map.ways /\ IsSide(map, right)
    PROVE  IsRelation(map, Relation(subtype, left, right))
<1> DEFINE relation == Relation(subtype, left, right)
<1>1. relation.members = <<[role |-> "left", ref |-> left], [role |-> "right", ref |-> right]>>
  BY DEF Relation
<1>2. DOMAIN relation.members = {1, 2}
  BY <1>1
<1>3. relation.members[1].role = "left" /\ relation.members[1].ref = left
      /\ relation.members[2].role = "right" /\ relation.members[2].ref = right
  BY <1>1
<1> HIDE DEF relation
<1>4. IsRelation(map, relation)
  BY <1>2, <1>3 DEF IsRelation
<1> QED
  BY <1>4 DEF relation

\* What a run of generate_tag_map is asked.
TagJob == job.tool = "tags" =>
    IsTagMap(job.map) /\ job.spacing \in Nat \ {0} /\ job.limit \in Nat

\* The second lane of the maps of the jobs.
SecondLane(other) == IF other = "absent" THEN <<>> ELSE <<Relation(other, "l2", "r2")>>

\* The maps of the jobs are such maps, ...
LEMMA TagsMapIs ==
    ASSUME NEW places \in Ways, NEW right \in Rights(places), NEW other
    PROVE  IsTagMap(TagsMap(places, right, SecondLane(other)))
<1> DEFINE map == TagsMap(places, right, SecondLane(other))
<1>1. /\ map.nodes = [k \in 0..8 |-> k] /\ DOMAIN map.ways = {"l", "r", "l2", "r2"}
      /\ map.relations = <<Relation("road", "l", "r")>> \o SecondLane(other)
  BY DEF TagsMap
<1>2. /\ map.ways["l"] = places /\ map.ways["r"] = right
      /\ map.ways["l2"] = <<1, 2, 5>> /\ map.ways["r2"] = <<1, 5>>
  BY DEF TagsMap
<1> HIDE DEF map
<1>3. DOMAIN map.nodes = 0..8 /\ \A k \in DOMAIN map.nodes : k \in Int /\ map.nodes[k] = k
  BY <1>1
<1>4. IsSide(map, "l")
  <2>1. places \in Seq(0..6) /\ \A i, j \in 1..Len(places) : i <= j => places[i] <= places[j]
    BY WaysRise
  <2>2. places \in Seq(Nat)
    <3>1. 0..6 \subseteq Nat
      OBVIOUS
    <3> QED
      BY <2>1, <3>1
  <2> QED
    BY <1>2, <1>3, <2>1, <2>2, WayThrough
<1>5. IsSide(map, "r")
  <2>1. /\ right \in Seq(Nat)
        /\ \A i, j \in 1..Len(right) : i <= j /\ {right[i], right[j]} \subseteq 0..8 => right[i] <= right[j]
    BY RightIsWay
  <2>2. \A i, j \in 1..Len(right) :
            i <= j /\ {right[i], right[j]} \subseteq DOMAIN map.nodes => right[i] <= right[j]
    BY <1>3, <2>1, Zenon
  <2> QED
    BY <1>2, <1>3, <2>1, <2>2, WayThrough, Zenon
<1>6. IsSide(map, "l2")
  <2> DEFINE refs == <<1, 2, 5>>
  <2>1. refs \in Seq(Nat) /\ \A i, j \in 1..Len(refs) : i <= j => refs[i] <= refs[j]
    OBVIOUS
  <2>2. map.ways["l2"] = refs
    BY <1>2
  <2> HIDE DEF refs
  <2> QED
    BY <1>3, <2>1, <2>2, WayThrough
<1>7. IsSide(map, "r2")
  <2> DEFINE refs == <<1, 5>>
  <2>1. refs \in Seq(Nat) /\ \A i, j \in 1..Len(refs) : i <= j => refs[i] <= refs[j]
    OBVIOUS
  <2>2. map.ways["r2"] = refs
    BY <1>2
  <2> HIDE DEF refs
  <2> QED
    BY <1>3, <2>1, <2>2, WayThrough
<1> DEFINE first == Relation("road", "l", "r")
           second == Relation(other, "l2", "r2")
<1>8. IsRelation(map, first) /\ IsRelation(map, second)
  BY <1>1, <1>4, <1>5, <1>6, <1>7, RelationIs
<1> HIDE DEF first, second
<1>9. /\ other = "absent" => Len(map.relations) = 1 /\ DOMAIN map.relations = 1..1 /\ map.relations[1] = first
      /\ other # "absent" => /\ Len(map.relations) = 2 /\ DOMAIN map.relations = 1..2
                             /\ map.relations[1] = first /\ map.relations[2] = second
  <2> DEFINE lanes == map.relations
             one == <<first>>
             more == IF other = "absent" THEN <<>> ELSE <<second>>
             S == {first, second}
  <2>1. lanes = one \o more
    BY <1>1 DEF SecondLane, first, second
  <2>2. one \in Seq(S) /\ Len(one) = 1 /\ one[1] = first
    OBVIOUS
  <2>3. other # "absent" => more \in Seq(S) /\ Len(more) = 1 /\ more[1] = second
    OBVIOUS
  <2> HIDE DEF lanes, one, more, S
  <2>4. CASE other = "absent"
    <3>1. lanes = one
      BY <2>1, <2>2, <2>4 DEF more
    <3>2. DOMAIN lanes = 1..1
      BY <2>2, <3>1
    <3> QED
      BY <2>2, <2>4, <3>1, <3>2, Zenon DEF lanes
  <2>5. CASE other # "absent"
    <3>1. more \in [1..1 -> S] /\ more[1] = second
      BY <2>3, <2>5
    <3>2. InARow(S, one, 1, more)
      BY <2>2, <3>1, Joins
    <3>3. /\ lanes \in Seq(S) /\ Len(lanes) = 2 /\ lanes[1] = first /\ lanes[2] = second
      BY <2>1, <2>2, <3>1, <3>2 DEF InARow
    <3>4. DOMAIN lanes = 1..2
      BY <3>3
    <3> QED
      BY <2>5, <3>3, <3>4, Zenon DEF lanes
  <2> QED
    BY <2>4, <2>5
<1>10. IsTagMap(map)
  <2>1. CASE other = "absent"
    BY <1>8, <1>9, <2>1 DEF IsTagMap
  <2>2. CASE other # "absent"
    BY <1>8, <1>9, <2>2 DEF IsTagMap
  <2> QED
    BY <2>1, <2>2
<1> QED
  BY <1>10 DEF map

\* ... and so is the one of a long way.
LEMMA LongWayIs == IsTagMap(LongWay)
<1> DEFINE map == LongWay
           first == Relation("road", "l", "r")
           refs == <<0, 60>>
<1>1. /\ map.nodes = [k \in {0, 60} |-> k] /\ DOMAIN map.ways = {"l", "r"}
      /\ map.ways["l"] = refs /\ map.ways["r"] = refs /\ map.relations = <<first>>
  BY DEF LongWay
<1>2. refs \in Seq(Nat) /\ \A i, j \in 1..Len(refs) : i <= j => refs[i] <= refs[j]
  OBVIOUS
<1> HIDE DEF map, first, refs
<1>3. \A k \in DOMAIN map.nodes : k \in Int /\ map.nodes[k] = k
  BY <1>1
<1>4. IsSide(map, "l") /\ IsSide(map, "r")
  BY <1>1, <1>2, <1>3, WayThrough
<1>5. IsRelation(map, first)
  BY <1>1, <1>4, RelationIs DEF first
<1>6. Len(map.relations) = 1 /\ DOMAIN map.relations = 1..1 /\ map.relations[1] = first
  BY <1>1
<1>7. IsTagMap(map)
  BY <1>5, <1>6 DEF IsTagMap
<1> QED
  BY <1>7 DEF map

\* The jobs ask for such maps.
LEMMA TagJobs == JobTags => job.tool = "tags" /\ TagJob
<1> SUFFICES ASSUME JobTags PROVE job.tool = "tags" /\ TagJob
  OBVIOUS
<1>1. CASE job = [tool |-> "tags", spacing |-> 1, limit |-> 100, map |-> LongWay]
  <2>1. job.map = LongWay /\ job.spacing = 1 /\ job.limit = 100 /\ job.tool = "tags"
    BY <1>1
  <2> QED
    BY <2>1, LongWayIs DEF TagJob
<1>2. CASE job # [tool |-> "tags", spacing |-> 1, limit |-> 100, map |-> LongWay]
  <2>1. PICK places \in Ways : \E right \in Rights(places) :
            \E spacing \in 1..5, limit \in {0, 2}, other \in {"road", "crosswalk", "absent"} :
                job = [tool |-> "tags", spacing |-> spacing, limit |-> limit,
                       map |-> TagsMap(places, right, SecondLane(other))]
    BY <1>2, Zenon DEF JobTags, SecondLane
  <2>2. PICK right \in Rights(places) :
            \E spacing \in 1..5, limit \in {0, 2}, other \in {"road", "crosswalk", "absent"} :
                job = [tool |-> "tags", spacing |-> spacing, limit |-> limit,
                       map |-> TagsMap(places, right, SecondLane(other))]
    BY <2>1, Zenon
  <2>3. PICK spacing \in 1..5, limit \in {0, 2}, other \in {"road", "crosswalk", "absent"} :
                job = [tool |-> "tags", spacing |-> spacing, limit |-> limit,
                       map |-> TagsMap(places, right, SecondLane(other))]
    BY <2>2, Zenon
  <2> DEFINE map == TagsMap(places, right, SecondLane(other))
  <2>4. IsTagMap(map)
    BY TagsMapIs
  <2> HIDE DEF map
  <2>5. job.map = map /\ job.spacing = spacing /\ job.limit = limit /\ job.tool = "tags"
    BY <2>3 DEF map
  <2>6. spacing \in Nat \ {0} /\ limit \in Nat
    OBVIOUS
  <2> QED
    BY <2>4, <2>5, <2>6 DEF TagJob
<1> QED
  BY <1>1, <1>2

\* generate_tag_map: the boards of the run hold the spacing.
THEOREM TagsInRun == Spec => []StationsHoldTheSpacing
<1> DEFINE Inv == TagJob /\ Ran("tags", TagsResult(job))
<1>1. Init => Inv
  BY JobsOfOthers, JobsProved, TagJobs DEF Init, Ran, TagJob
<1>2. Inv /\ [Next]_vars => Inv'
  BY JobStays, RunsOnce DEF TagJob
<1>3. Inv => StationsHoldTheSpacing
  <2> SUFFICES ASSUME Inv, Did("tags") PROVE Boarded(job.map, job.spacing, job.limit, out)
    BY DEF StationsHoldTheSpacing
  <2> DEFINE map == job.map
             spacing == job.spacing
             limit == job.limit
  <2>1. out = TagMap(map, spacing, limit)
    BY DEF Did, Ran, TagsResult
  <2>2. IsTagMap(map) /\ spacing \in Nat \ {0} /\ limit \in Nat
    BY DEF Did, TagJob
  <2> HIDE DEF map, spacing, limit
  <2>3. Boarded(map, spacing, limit, TagMap(map, spacing, limit))
    BY <2>2, AnyMapIsBoarded
  <2> QED
    BY <2>1, <2>3, Zenon DEF map, spacing, limit
<1> QED
  BY <1>1, <1>2, <1>3, PTL DEF Spec

-----------------------------------------------------------------------------
(* the watchers of a replay: what a subscription gets                      *)

\* The elements of a set in their order, n of them.
Listed(T, n, key) ==
    /\ n \in Nat /\ key \in [1..n -> T]
    /\ \A i, j \in 1..n : i < j => key[i] < key[j]
    /\ \A t \in T : \E i \in 1..n : key[i] = t

\* A set is as large as its list is long.
LEMMA ListedSize ==
    ASSUME NEW T \in SUBSET Int, NEW n, NEW key, Listed(T, n, key)
    PROVE  IsFiniteSet(T) /\ Cardinality(T) = n /\ n \in Nat
<1>1. /\ n \in Nat /\ key \in [1..n -> T]
      /\ \A i, j \in 1..n : i < j => key[i] < key[j]
      /\ \A t \in T : \E i \in 1..n : key[i] = t
  BY DEF Listed
<1>2. \A i \in 1..n : key[i] \in Int
  BY <1>1
<1>3. ASSUME NEW i \in 1..n, NEW j \in 1..n, key[i] = key[j] PROVE i = j
  <2>1. i < j \/ j < i \/ i = j
    BY <1>1
  <2>2. ~(i < j)
    <3> SUFFICES ASSUME i < j PROVE FALSE
      OBVIOUS
    <3>1. key[i] < key[j]
      BY <1>1
    <3> QED
      BY <1>2, <1>3, <3>1
  <2>3. ~(j < i)
    <3> SUFFICES ASSUME j < i PROVE FALSE
      OBVIOUS
    <3>1. key[j] < key[i]
      BY <1>1
    <3> QED
      BY <1>2, <1>3, <3>1
  <2> QED
    BY <2>1, <2>2, <2>3
<1>4. key \in Surjection(1..n, T)
  BY <1>1, Zenon DEF Surjection
<1>5. key \in Injection(1..n, T)
  BY <1>1, <1>3, Zenon DEF Injection, IsInjective
<1>6. IsFiniteSet(1..n) /\ Cardinality(1..n) = n
  <2>1. 1 \in Int /\ n \in Int
    BY <1>1
  <2>2. IsFiniteSet(1..n) /\ Cardinality(1..n) = IF 1 > n THEN 0 ELSE n - 1 + 1
    BY <2>1, FS_Interval, Zenon
  <2> QED
    BY <1>1, <2>2
<1>7. IsFiniteSet(T) /\ Cardinality(T) = Cardinality(1..n)
  BY <1>4, <1>5, <1>6, FS_Surjection, Zenon
<1> QED
  BY <1>1, <1>6, <1>7, Zenon

\* The numbers of a finite set are put in their order.
LEMMA OrderIs ==
    ASSUME NEW S \in SUBSET Int, IsFiniteSet(S)
    PROVE  Listed(S, Cardinality(S), InOrder(S)) /\ DOMAIN InOrder(S) = 1..Cardinality(S)
<1> DEFINE n == Cardinality(S)
           rank == [k \in S |-> Cardinality({j \in S : j <= k})]
<1>1. PICK key : n \in Nat /\ Ranks(S, n, key)
  BY RanksAre, Zenon
<1>2. /\ key \in [1..n -> S]
      /\ \A i, j \in 1..n : i < j => key[i] < key[j]
      /\ \A k \in S : \E i \in 1..n : key[i] = k
      /\ \A i \in 1..n : key[i] = CHOOSE k \in S : Cardinality(UpToKey(S, k)) = i
  BY <1>1, Zenon DEF Ranks
<1>3. ASSUME NEW i \in 1..n PROVE key[i] = CHOOSE k \in S : rank[k] = i
  <2>1. \A k \in S : rank[k] = Cardinality(UpToKey(S, k))
    BY DEF UpToKey
  <2> HIDE DEF rank
  <2>2. (CHOOSE k \in S : rank[k] = i) = CHOOSE k \in S : Cardinality(UpToKey(S, k)) = i
    BY <2>1
  <2> QED
    BY <1>2, <2>2, Zenon
<1>4. InOrder(S) = [i \in 1..n |-> CHOOSE k \in S : rank[k] = i]
  BY Zenon DEF InOrder
<1> HIDE DEF rank, n
<1>5. DOMAIN InOrder(S) = 1..n /\ \A i \in 1..n : InOrder(S)[i] = key[i]
  BY <1>3, <1>4, Zenon
<1>6. InOrder(S) = key
  <2> DEFINE order == InOrder(S)
  <2>1. order \in [1..n -> S]
    <3> DEFINE pick(i) == CHOOSE k \in S : rank[k] = i
    <3>1. order = [i \in 1..n |-> pick(i)] /\ \A i \in 1..n : key[i] = pick(i)
      BY <1>3, <1>4, Zenon
    <3> HIDE DEF order, pick
    <3>2. \A i \in 1..n : pick(i) \in S
      BY <1>2, <3>1
    <3> QED
      BY <3>1, <3>2
  <2>2. \A i \in 1..n : order[i] = key[i]
    BY <1>5, Zenon
  <2> HIDE DEF order
  <2>3. order = [i \in 1..n |-> order[i]] /\ key = [i \in 1..n |-> key[i]]
    BY <1>2, <2>1, Zenon
  <2>4. order = key
    BY <2>2, <2>3
  <2> QED
    BY <2>4, Zenon DEF order
<1>7. Listed(S, n, key)
  BY <1>1, <1>2, Zenon DEF Listed
<1> QED
  BY <1>5, <1>6, <1>7, Zenon DEF n

-----------------------------------------------------------------------------
(* Watching a replay: streams and what is got of them                      *)

\* n messages s carry the values v at the times T, in their order.
Carries(s, n, T, v) ==
    /\ n \in Nat /\ DOMAIN s = 1..n /\ Len(s) = n
    /\ \A k \in 1..n : s[k].at \in T /\ s[k].value = v[s[k].at]
    /\ \A i, j \in 1..n : i < j => s[i].at < s[j].at
    /\ \A t \in T : \E k \in 1..n : s[k].at = t

\* There are as many messages as times.
LEMMA CarriesSize ==
    ASSUME NEW T \in SUBSET Int, NEW s, NEW n, NEW v, Carries(s, n, T, v)
    PROVE  IsFiniteSet(T) /\ Cardinality(T) = n /\ n \in Nat
<1> DEFINE key == [k \in 1..n |-> s[k].at]
<1>1. Listed(T, n, key)
  <2>1. /\ n \in Nat /\ \A k \in 1..n : s[k].at \in T
        /\ \A i, j \in 1..n : i < j => s[i].at < s[j].at
        /\ \A t \in T : \E k \in 1..n : s[k].at = t
    BY Zenon DEF Carries
  <2>2. key \in [1..n -> T] /\ \A k \in 1..n : key[k] = s[k].at
    BY <2>1
  <2> HIDE DEF key
  <2> QED
    BY <2>1, <2>2, Zenon DEF Listed
<1> HIDE DEF key
<1> QED
  BY <1>1, ListedSize, Zenon

\* A stream that carries what it is given.
Given(stream, up, T, v) ==
    /\ Carries(stream.sent, Cardinality(T), T, v)
    /\ stream.up = up /\ stream.latched = FALSE

\* Those of the specification do.
LEMMA SentCarries ==
    ASSUME NEW T \in SUBSET Int, IsFiniteSet(T), NEW up, NEW v
    PROVE  Given(Sent(up, T, v), up, T, v)
<1> DEFINE n == Cardinality(T)
           order == InOrder(T)
           s == [k \in DOMAIN order |-> [at |-> order[k], value |-> v[order[k]]]]
<1>1. /\ n \in Nat /\ order \in [1..n -> T] /\ DOMAIN order = 1..n
      /\ \A i, j \in 1..n : i < j => order[i] < order[j]
      /\ \A t \in T : \E i \in 1..n : order[i] = t
  BY OrderIs, Zenon DEF Listed
<1> HIDE DEF n, order
<1>2. DOMAIN s = 1..n /\ Len(s) = n /\ \A k \in 1..n : s[k].at = order[k] /\ s[k].value = v[order[k]]
  BY <1>1
<1>3. \A k \in 1..n : order[k] \in T
  BY <1>1
<1> HIDE DEF s
<1>4. Carries(s, n, T, v)
  <2>1. \A k \in 1..n : s[k].at \in T /\ s[k].value = v[s[k].at]
    BY <1>2, <1>3
  <2>2. \A i, j \in 1..n : i < j => s[i].at < s[j].at
    BY <1>1, <1>2
  <2>3. \A t \in T : \E k \in 1..n : s[k].at = t
    <3> SUFFICES ASSUME NEW t \in T PROVE \E k \in 1..n : s[k].at = t
      OBVIOUS
    <3>1. PICK k \in 1..n : order[k] = t
      BY <1>1, Zenon
    <3>2. s[k].at = t
      BY <1>2, <3>1, Zenon
    <3> QED
      BY <3>2, Zenon
  <2> QED
    BY <1>1, <1>2, <2>1, <2>2, <2>3, Zenon DEF Carries
<1>5. Sent(up, T, v) = [up |-> up, reliable |-> TRUE, latched |-> FALSE, sent |-> s]
  BY Zenon DEF Sent, s, order
<1> QED
  BY <1>4, <1>5 DEF n, Given

\* A subscription gets what is sent while it exists.
LEMMA GotCarries ==
    ASSUME NEW stream, NEW T \in SUBSET Int, NEW n, NEW v, Carries(stream.sent, n, T, v),
           stream.latched = FALSE, NEW latched, NEW since \in Int, NEW until \in Int
    PROVE  \E m : Carries(Got(stream, latched, since, until), m, {t \in T : since <= t /\ t < until}, v)
<1> DEFINE s == stream.sent
           H == {k \in 1..n : since <= s[k].at /\ s[k].at < until}
           m == Cardinality(H)
           order == InOrder(H)
           U == {t \in T : since <= t /\ t < until}
           got == Got(stream, latched, since, until)
<1>1. /\ n \in Nat /\ DOMAIN s = 1..n
      /\ \A k \in 1..n : s[k].at \in T /\ s[k].value = v[s[k].at]
      /\ \A i, j \in 1..n : i < j => s[i].at < s[j].at
      /\ \A t \in T : \E k \in 1..n : s[k].at = t
  BY Zenon DEF Carries
<1> HIDE DEF s
<1>2. got = [k \in DOMAIN order |-> s[order[k]]]
  <2> DEFINE before == {k \in DOMAIN s : s[k].at < since}
             kept == IF latched /\ stream.latched /\ before # {} THEN {Max(before)} ELSE {}
             live == {k \in DOMAIN s : since <= s[k].at /\ s[k].at < until}
             heard == IF since >= until THEN {} ELSE kept \cup live
  <2>1. kept = {}
    OBVIOUS
  <2>2. live = H
    BY <1>1
  <2>3. since >= until => H = {}
    <3> SUFFICES ASSUME since >= until, NEW k \in H PROVE FALSE
      OBVIOUS
    <3>1. s[k].at \in Int /\ since <= s[k].at /\ s[k].at < until
      BY <1>1
    <3> QED
      BY <3>1
  <2>4. got = [k \in DOMAIN InOrder(heard) |-> s[InOrder(heard)[k]]]
    BY Zenon DEF Got, s
  <2> HIDE DEF kept, live, H
  <2>5. heard = H
    BY <2>1, <2>2, <2>3
  <2> HIDE DEF heard
  <2> QED
    BY <2>4, <2>5, Zenon
<1>3. H \in SUBSET Int /\ IsFiniteSet(H)
  <2>1. IsFiniteSet(1..n)
    BY <1>1, FS_Interval
  <2>2. H \in SUBSET Int /\ H \in SUBSET (1..n)
    OBVIOUS
  <2> HIDE DEF H
  <2> QED
    BY <2>1, <2>2, FS_Subset, Zenon
<1>4. /\ m \in Nat /\ order \in [1..m -> H] /\ DOMAIN order = 1..m
      /\ \A i, j \in 1..m : i < j => order[i] < order[j]
      /\ \A k \in H : \E i \in 1..m : order[i] = k
  <2> HIDE DEF H
  <2> QED
    BY <1>3, OrderIs, Zenon DEF Listed
<1>5. \A i \in 1..m : order[i] \in H
  <2> HIDE DEF m, order, H
  <2> QED
    BY <1>4
<1>6. \A i \in 1..m : order[i] \in 1..n /\ since <= s[order[i]].at /\ s[order[i]].at < until
  <2> HIDE DEF m, order
  <2> QED
    BY <1>5
<1> HIDE DEF m, order, got
<1>7. DOMAIN got = 1..m /\ Len(got) = m /\ \A k \in 1..m : got[k] = s[order[k]]
  BY <1>2, <1>4
<1>8. Carries(got, m, U, v)
  <2>1. \A k \in 1..m : got[k].at \in U /\ got[k].value = v[got[k].at]
    <3> HIDE DEF H
    <3> QED
      BY <1>1, <1>6, <1>7
  <2>2. \A i, j \in 1..m : i < j => got[i].at < got[j].at
    <3> SUFFICES ASSUME NEW i \in 1..m, NEW j \in 1..m, i < j PROVE s[order[i]].at < s[order[j]].at
      BY <1>7
    <3>1. order[i] < order[j] /\ order[i] \in 1..n /\ order[j] \in 1..n
      BY <1>4, <1>6, Zenon
    <3> QED
      BY <1>1, <3>1, Zenon
  <2>3. \A t \in U : \E k \in 1..m : got[k].at = t
    <3> SUFFICES ASSUME NEW t \in U PROVE \E k \in 1..m : got[k].at = t
      OBVIOUS
    <3>1. PICK k \in 1..n : s[k].at = t
      BY <1>1
    <3>2. k \in H
      BY <3>1
    <3> HIDE DEF H
    <3>3. PICK i \in 1..m : order[i] = k
      BY <1>4, <3>2, Zenon
    <3> QED
      BY <1>7, <3>1, <3>3, Zenon
  <2> HIDE DEF U, H
  <2> QED
    BY <1>4, <1>7, <2>1, <2>2, <2>3, Zenon DEF Carries
<1> QED
  BY <1>8, Zenon DEF got

-----------------------------------------------------------------------------
(* indoor_sim_record_events: the last value of a stream                    *)

\* The largest multiple of p up to t.
LEMMA RoundedDown ==
    ASSUME NEW t \in Nat, NEW p \in Nat \ {0}
    PROVE  /\ (t % p) \in 0..p - 1 /\ t - (t % p) \in Nat /\ (t - (t % p)) % p = 0
           /\ \A c \in Int : (c % p) = 0 /\ c <= t => c <= t - (t % p)
<1> DEFINE q == t \div p
           r == t % p
           a == p * q
<1>1. q \in Int /\ r \in 0..p - 1 /\ t = a + r /\ a \in Int
  BY ModFacts, DivFacts
<1>2. ASSUME NEW c \in Int, (c % p) = 0, c <= t PROVE c <= a
  <2> DEFINE d == c \div p
             b == p * d
  <2>1. d \in Int /\ c = b /\ b \in Int
    BY <1>2, ModFacts, DivFacts
  <2> HIDE DEF d
  <2>2. CASE d <= q
    <3> HIDE DEF q
    <3>1. b <= a
      BY <1>1, <2>1, <2>2, Ordered DEF q
    <3> QED
      BY <2>1, <3>1
  <2>3. CASE ~(d <= q)
    <3> HIDE DEF q
    <3>1. q + 1 <= d /\ q + 1 \in Int
      BY <1>1, <2>1, <2>3
    <3>2. p * (q + 1) <= p * d
      BY <2>1, <3>1, Ordered
    <3>3. p * (q + 1) = a + p
      BY <1>1
    <3> HIDE DEF a, b, r
    <3>4. p * d = b
      BY DEF b
    <3>5. a + p <= b
      BY <3>2, <3>3, <3>4
    <3>6. b <= a + r /\ r <= p - 1
      BY <1>1, <1>2, <2>1
    <3> QED
      BY <1>1, <2>1, <3>5, <3>6
  <2> QED
    BY <2>2, <2>3
<1>3. (p * q) % p = 0
  <2> HIDE DEF q
  <2> QED
    BY <1>1
<1>4. t - r = a
  <2> HIDE DEF a, r
  <2> QED
    BY <1>1
<1>5. a \in Nat
  <2>1. 0 \in Int /\ (0 % p) = 0 /\ 0 <= t
    OBVIOUS
  <2>2. 0 <= a
    BY <1>2, <2>1, Zenon
  <2> HIDE DEF a
  <2> QED
    BY <1>1, <2>2
<1> QED
  BY <1>1, <1>2, <1>3, <1>4, <1>5, Zenon

\* What a stream carried last.
LastValue(s, at) ==
    LET before == {k \in DOMAIN s : s[k].at <= at}
    IN  IF before = {} THEN None ELSE s[Max(before)].value

\* It is the value at the last of its times.
LEMMA LastOf ==
    ASSUME NEW T \in SUBSET Int, NEW s, NEW n, NEW v, Carries(s, n, T, v), NEW at \in Int
    PROVE  /\ (\A t \in T : ~(t <= at)) => LastValue(s, at) = None
           /\ \A c \in T : c <= at /\ (\A t \in T : t <= at => t <= c) => LastValue(s, at) = v[c]
<1> DEFINE before == {k \in 1..n : s[k].at <= at}
<1>1. /\ n \in Nat /\ DOMAIN s = 1..n
      /\ \A k \in 1..n : s[k].at \in T /\ s[k].value = v[s[k].at]
      /\ \A i, j \in 1..n : i < j => s[i].at < s[j].at
      /\ \A t \in T : \E k \in 1..n : s[k].at = t
  BY Zenon DEF Carries
<1>2. LastValue(s, at) = IF before = {} THEN None ELSE s[Max(before)].value
  BY <1>1 DEF LastValue
<1>3. before \in SUBSET Int /\ IsFiniteSet(before) /\ before \subseteq 1..n
  <2>1. IsFiniteSet(1..n)
    BY <1>1, FS_Interval
  <2>2. before \in SUBSET Int /\ before \in SUBSET (1..n)
    OBVIOUS
  <2> HIDE DEF before
  <2> QED
    BY <2>1, <2>2, FS_Subset, Zenon
<1>4. ASSUME \A t \in T : ~(t <= at) PROVE LastValue(s, at) = None
  <2>1. before = {}
    BY <1>1, <1>4
  <2> HIDE DEF before
  <2> QED
    BY <1>2, <2>1
<1>5. ASSUME NEW c \in T, c <= at, \A t \in T : t <= at => t <= c PROVE LastValue(s, at) = v[c]
  <2>1. PICK k \in 1..n : s[k].at = c
    BY <1>1
  <2>2. k \in before
    BY <1>5, <2>1
  <2>3. Max(before) \in before /\ k <= Max(before) /\ Max(before) \in 1..n
    <3> HIDE DEF before
    <3>1. before # {}
      BY <2>2
    <3>2. Max(before) \in before /\ k <= Max(before)
      BY <1>3, <2>2, <3>1, HasMax, Zenon
    <3> QED
      BY <1>3, <3>2, Zenon
  <2> DEFINE m == Max(before)
  <2>4. m \in 1..n /\ k <= m /\ s[m].at <= at
    BY <2>3
  <2> HIDE DEF m
  <2>5. s[m].at \in T /\ s[m].at <= c /\ s[m].at \in Int /\ c \in Int
    BY <1>1, <1>5, <2>4
  <2>6. k = m
    <3> SUFFICES ASSUME k # m PROVE FALSE
      OBVIOUS
    <3>1. k < m
      BY <2>4
    <3>2. s[k].at < s[m].at
      BY <1>1, <2>4, <3>1, Zenon
    <3> QED
      BY <2>1, <2>5, <3>2
  <2>7. s[m].value = v[c]
    BY <1>1, <2>1, <2>4, <2>6
  <2> HIDE DEF before
  <2>8. before # {}
    BY <2>2
  <2> QED
    BY <1>2, <2>7, <2>8, Zenon DEF m
<1> QED
  BY <1>4, <1>5, Zenon

-----------------------------------------------------------------------------
(* indoor_sim_record_events: what is recorded                              *)

\* A stream that does not latch carries the values v at the times T.
IsStream(stream, T, v) ==
    /\ T \in SUBSET Nat /\ stream.latched = FALSE /\ SubscribedAt(stream) \in Int
    /\ \E n : Carries(stream.sent, n, T, v)

\* The times of a set that are heard.
HeardOf(T, stream, seconds) == {t \in T : SubscribedAt(stream) <= t /\ t < seconds}

\* The multiples of p.
TicksFrom(first, seconds, p) == {c \in first..seconds - 1 : (c % p) = 0}

\* A clock ticks at them, from `first' on as far as it is heard, and shows z at 0.
IsClock(clock, K, v, z, first, p, seconds) ==
    /\ IsStream(clock, K, v) /\ p \in Nat \ {0} /\ first \in Nat /\ (first % p) = 0 /\ seconds \in Int
    /\ z \in Nat /\ HeardOf(K, clock, seconds) = TicksFrom(first, seconds, p)
    /\ \A c \in TicksFrom(first, seconds, p) : v[c] = z + c

\* The time by that clock.
Stamp(t, z, first, p) == IF t < first THEN None ELSE z + (t - (t % p))

\* What is received of a stream.
LEMMA ReceivedIs ==
    ASSUME NEW stream, NEW T, NEW v, IsStream(stream, T, v), NEW seconds \in Int
    PROVE  \E n : Carries(Received(stream, seconds), n, HeardOf(T, stream, seconds), v)
<1> DEFINE since == SubscribedAt(stream)
<1>1. T \in SUBSET Int /\ stream.latched = FALSE /\ since \in Int
  BY DEF IsStream
<1>2. PICK n : Carries(stream.sent, n, T, v)
  BY Zenon DEF IsStream
<1> HIDE DEF since
<1>3. \E m : Carries(Got(stream, TRUE, since, seconds), m, {t \in T : since <= t /\ t < seconds}, v)
  BY <1>1, <1>2, GotCarries
<1> QED
  BY <1>3, Zenon DEF Received, HeardOf, since

\* The last tick up to t is t, rounded down.
LEMMA StampIs ==
    ASSUME NEW p \in Nat \ {0}, NEW first \in Nat, (first % p) = 0, NEW seconds \in Int, NEW s, NEW n, NEW v, NEW z,
           Carries(s, n, TicksFrom(first, seconds, p), v), \A c \in TicksFrom(first, seconds, p) : v[c] = z + c,
           NEW t \in Nat, t < seconds
    PROVE  LastValue(s, t) = Stamp(t, z, first, p)
<1> DEFINE C == TicksFrom(first, seconds, p)
           r == t % p
           down == t - r
<1>1. C \in SUBSET Int /\ \A c \in Int : c \in C <=> (first <= c /\ c < seconds /\ (c % p) = 0)
  BY DEF TicksFrom
<1>2. /\ r \in 0..p - 1 /\ down \in Nat /\ (down % p) = 0
      /\ \A c \in Int : (c % p) = 0 /\ c <= t => c <= down
  BY RoundedDown
<1> HIDE DEF C
<1>3. /\ (\A c \in C : ~(c <= t)) => LastValue(s, t) = None
      /\ \A c \in C : c <= t /\ (\A x \in C : x <= t => x <= c) => LastValue(s, t) = v[c]
  <2>1. Carries(s, n, C, v)
    BY Zenon DEF C
  <2>2. C \in SUBSET Int /\ t \in Int
    BY <1>1
  <2> HIDE DEF r, down
  <2> QED
    BY <2>1, <2>2, LastOf
<1>4. CASE t < first
  <2>1. \A c \in C : ~(c <= t)
    BY <1>1, <1>4
  <2> QED
    BY <1>3, <1>4, <2>1 DEF Stamp
<1>5. CASE ~(t < first)
  <2>1. down <= t /\ down < seconds
    <3> HIDE DEF r
    <3> QED
      BY <1>2
  <2>2. first <= down
    BY <1>2, <1>5
  <2> HIDE DEF down, r
  <2>3. down \in C
    BY <1>1, <1>2, <2>1, <2>2
  <2>4. \A x \in C : x <= t => x <= down
    BY <1>1, <1>2
  <2>5. LastValue(s, t) = v[down]
    BY <1>3, <2>1, <2>3, <2>4, Zenon
  <2>6. v[down] = z + down
    BY <2>3, Zenon DEF C
  <2> QED
    BY <1>5, <2>5, <2>6 DEF Stamp, down, r
<1> QED
  BY <1>4, <1>5

\* r records the messages s, with those times.
TimedAs(r, n, s, z, first, p) ==
    /\ DOMAIN r = 1..n
    /\ \A k \in 1..n : r[k].value = s[k].value /\ r[k].sim = Stamp(s[k].at, z, first, p)

\* The recorder gives each message the time by the clock.
LEMMA RecordedIs ==
    ASSUME NEW pose, NEW T, NEW v, IsStream(pose, T, v),
           NEW clock, NEW K, NEW kv, NEW z, NEW first, NEW p, NEW seconds, IsClock(clock, K, kv, z, first, p, seconds)
    PROVE  \E n, s : /\ Carries(s, n, HeardOf(T, pose, seconds), v)
                     /\ TimedAs(Recorded(pose, clock, seconds), n, s, z, first, p)
<1> DEFINE got == Received(pose, seconds)
           ticks == Received(clock, seconds)
           r == Recorded(pose, clock, seconds)
           since == SubscribedAt(pose)
           G == HeardOf(T, pose, seconds)
<1>1. /\ IsStream(clock, K, kv) /\ p \in Nat \ {0} /\ first \in Nat /\ (first % p) = 0 /\ seconds \in Int
      /\ HeardOf(K, clock, seconds) = TicksFrom(first, seconds, p)
      /\ \A c \in TicksFrom(first, seconds, p) : kv[c] = z + c
  BY Zenon DEF IsClock
<1>2. PICK n : Carries(got, n, G, v)
  BY <1>1, ReceivedIs, Zenon
<1>3. PICK m : Carries(ticks, m, TicksFrom(first, seconds, p), kv)
  BY <1>1, ReceivedIs, Zenon
<1>4. since \in Int /\ \A t \in G : t \in Nat /\ since <= t /\ t < seconds
  BY DEF IsStream, HeardOf
<1> HIDE DEF got, ticks, G, since
<1>5. r = [k \in DOMAIN got |->
            [n |-> k, value |-> got[k].value, sim |-> SimAt(ticks, Max({got[k].at, since}))]]
  BY Zenon DEF Recorded, got, ticks, since
<1>6. DOMAIN got = 1..n /\ \A k \in 1..n : got[k].at \in G
  BY <1>2, Zenon DEF Carries
<1> HIDE DEF r
<1>7. ASSUME NEW k \in 1..n PROVE r[k].value = got[k].value /\ r[k].sim = Stamp(got[k].at, z, first, p)
  <2> DEFINE t == got[k].at
  <2>1. t \in Nat /\ since <= t /\ t < seconds
    BY <1>4, <1>6
  <2>2. r[k].value = got[k].value /\ r[k].sim = SimAt(ticks, Max({t, since}))
    BY <1>5, <1>6
  <2> HIDE DEF t
  <2>3. Max({t, since}) = t
    <3>1. t \in Int /\ since \in Int
      BY <1>4, <2>1
    <3>2. Max({t, since}) \in {t, since} /\ t <= Max({t, since})
      BY <3>1, PairMax, Zenon
    <3> QED
      BY <2>1, <3>1, <3>2
  <2>4. SimAt(ticks, t) = LastValue(ticks, t)
    BY Zenon DEF SimAt, LastValue
  <2>5. LastValue(ticks, t) = Stamp(t, z, first, p)
    BY <1>1, <1>3, <2>1, StampIs
  <2> QED
    BY <2>2, <2>3, <2>4, <2>5 DEF t
<1>8. DOMAIN r = 1..n
  BY <1>5, <1>6
<1>9. TimedAs(r, n, got, z, first, p)
  BY <1>7, <1>8, Zenon DEF TimedAs
<1> QED
  BY <1>2, <1>9, Zenon DEF r, G

-----------------------------------------------------------------------------
(* indoor_loop_report: the loop                                            *)

\* Keys that never fall are in order as they are.
LEMMA RankedIs ==
    ASSUME NEW D \in SUBSET Int, NEW key, DOMAIN key = D, \A i \in D : key[i] \in Int,
           \A i, j \in D : i < j => key[i] <= key[j]
    PROVE  Ranked(key) = InOrder(D)
<1> DEFINE rank == [i \in D |-> Cardinality({j \in D : key[j] < key[i] \/ (key[j] = key[i] /\ j <= i)})]
           place == [i \in D |-> Cardinality({j \in D : j <= i})]
<1>1. \A i \in D : {j \in D : key[j] < key[i] \/ (key[j] = key[i] /\ j <= i)} = {j \in D : j <= i}
  <2>1. ASSUME NEW i \in D, NEW j \in D
        PROVE  (key[j] < key[i] \/ (key[j] = key[i] /\ j <= i)) <=> j <= i
    <3>1. i \in Int /\ j \in Int /\ key[i] \in Int /\ key[j] \in Int
      OBVIOUS
    <3>2. (i < j => key[i] <= key[j]) /\ (j < i => key[j] <= key[i])
      OBVIOUS
    <3> QED
      BY <3>1, <3>2
  <2> QED
    BY <2>1, Zenon
<1>2. rank = place
  <2>1. \A i \in D : Cardinality({j \in D : key[j] < key[i] \/ (key[j] = key[i] /\ j <= i)})
                        = Cardinality({j \in D : j <= i})
    BY <1>1, Zenon
  <2> QED
    BY <2>1
<1> DEFINE ranks(E) == [i \in E |-> Cardinality({j \in E : key[j] < key[i] \/ (key[j] = key[i] /\ j <= i)})]
           sorted(E, r) == [n \in 1..Cardinality(E) |-> CHOOSE i \in E : r[i] = n]
<1>3. InOrder(D) = sorted(D, place)
  BY Zenon DEF InOrder
<1>4. Ranked(key) = sorted(DOMAIN key, ranks(DOMAIN key))
  BY Zenon DEF Ranked
<1>5. ranks(D) = rank
  BY Zenon
<1> HIDE DEF rank, place, sorted, ranks
<1> QED
  BY <1>2, <1>3, <1>4, <1>5, Zenon

\* The poses q are those of the times T, which are tm in order.
Posed(q, m, tm, T, v, z, p) ==
    /\ Listed(T, m, tm) /\ Len(q) = m
    /\ \A k \in 1..m : q[k].value = v[tm[k]] /\ q[k].sim = z + (tm[k] - (tm[k] % p))

\* summarise: the poses since the clock ticks, in order.
LEMMA PosesAre ==
    ASSUME NEW G \in SUBSET Nat, NEW s, NEW n, NEW v, Carries(s, n, G, v),
           NEW p \in Nat \ {0}, NEW z \in Nat, NEW first \in Nat, NEW e,
           TimedAs(e, n, s, z, first, p)
    PROVE  \E m, tm : Posed(Poses(e), m, tm, {t \in G : t >= first}, v, z, p)
<1> DEFINE D == {i \in 1..n : s[i].at >= first}
           m == Cardinality(D)
           order == InOrder(D)
           T == {t \in G : t >= first}
           tm == [k \in 1..m |-> s[order[k]].at]
           q == Poses(e)
<1>1. /\ n \in Nat /\ DOMAIN s = 1..n
      /\ \A k \in 1..n : s[k].at \in G /\ s[k].value = v[s[k].at]
      /\ \A i, j \in 1..n : i < j => s[i].at < s[j].at
      /\ \A t \in G : \E k \in 1..n : s[k].at = t
  BY Zenon DEF Carries
<1>2. DOMAIN e = 1..n /\ \A k \in 1..n : e[k].value = s[k].value /\ e[k].sim = Stamp(s[k].at, z, first, p)
  BY Zenon DEF TimedAs
<1>3. \A t \in Nat : t - (t % p) \in Nat /\ (t % p) \in Int
  <2> SUFFICES ASSUME NEW t \in Nat PROVE t - (t % p) \in Nat /\ (t % p) \in Int
    BY Zenon
  <2> DEFINE r == t % p
  <2>1. r \in 0..p - 1 /\ t - r \in Nat
    BY RoundedDown
  <2> HIDE DEF r
  <2>2. r \in Int /\ t - r \in Nat
    BY <2>1
  <2> QED
    BY <2>2, Zenon DEF r
<1>4. \A k \in 1..n : s[k].at \in Nat
  BY <1>1
<1>5. ASSUME NEW k \in 1..n
      PROVE  /\ e[k].sim # None <=> s[k].at >= first
             /\ s[k].at >= first => e[k].sim \in Nat /\ e[k].sim = z + (s[k].at - (s[k].at % p))
  <2> DEFINE t == s[k].at
             down == t - (t % p)
  <2>1. t \in Nat /\ down \in Nat /\ e[k].sim = IF t < first THEN None ELSE z + down
    BY <1>2, <1>3, <1>4 DEF Stamp
  <2>2. None \notin Nat
    BY DEF None
  <2> HIDE DEF t, down
  <2>3. (e[k].sim # None <=> t >= first) /\ (t >= first => e[k].sim \in Nat /\ e[k].sim = z + down)
    BY <2>1, <2>2
  <2> QED
    BY <2>3, Zenon DEF t, down
<1>6. {i \in DOMAIN e : e[i].sim # None} = D
  BY <1>2, <1>5
<1>7. D \in SUBSET Int /\ IsFiniteSet(D) /\ D \in SUBSET (1..n)
  <2>1. IsFiniteSet(1..n)
    <3>1. 1 \in Int /\ n \in Int
      BY <1>1
    <3> QED
      BY <3>1, FS_Interval, Zenon
  <2>2. D \in SUBSET Int /\ D \in SUBSET (1..n)
    OBVIOUS
  <2> HIDE DEF D
  <2> QED
    BY <2>1, <2>2, FS_Subset, Zenon
<1>8. \A i \in D : s[i].at >= first
  OBVIOUS
<1>9. \A i \in 1..n : s[i].at >= first => i \in D
  OBVIOUS
<1> HIDE DEF D, m, order, tm, T
<1>10. Ranked([k \in D |-> e[k].sim]) = order
  <2> DEFINE key == [k \in D |-> e[k].sim]
  <2>1. DOMAIN key = D /\ \A i \in D : key[i] = e[i].sim
    OBVIOUS
  <2>2. \A i \in D : e[i].sim \in Nat /\ e[i].sim = z + (s[i].at - (s[i].at % p))
    BY <1>5, <1>7, <1>8
  <2> HIDE DEF key
  <2>3. ASSUME NEW i \in D, NEW j \in D, i < j PROVE key[i] <= key[j]
    <3> DEFINE x == s[i].at
               y == s[j].at
               xr == x % p
               yr == y % p
    <3>1. x \in Nat /\ y \in Nat /\ x < y
      <4>1. i \in 1..n /\ j \in 1..n
        BY <1>7
      <4>2. s[i].at < s[j].at
        BY <1>1, <2>3, <4>1, Zenon
      <4> QED
        BY <1>4, <4>1, <4>2
    <3>2. key[i] = z + (x - xr) /\ key[j] = z + (y - yr)
      BY <2>1, <2>2
    <3> HIDE DEF x, y
    <3>3. /\ xr \in 0..p - 1 /\ x - xr \in Nat /\ (x - xr) % p = 0
          /\ \A c \in Int : (c % p) = 0 /\ c <= y => c <= y - yr
      BY <3>1, RoundedDown
    <3> HIDE DEF xr, yr
    <3> DEFINE c == x - xr
    <3>4. c \in Int /\ (c % p) = 0 /\ c <= y
      BY <3>1, <3>3
    <3>5. c <= y - yr
      <4> HIDE DEF c
      <4> QED
        BY <3>3, <3>4
    <3>6. y - yr \in Int
      <4>1. yr \in 0..p - 1 /\ y - yr \in Nat
        BY <3>1, RoundedDown DEF yr
      <4> QED
        BY <4>1
    <3> QED
      BY <3>2, <3>4, <3>5, <3>6
  <2>4. \A i \in D : key[i] \in Int
    BY <2>1, <2>2
  <2>5. Ranked(key) = InOrder(D)
    BY <1>7, <2>1, <2>3, <2>4, RankedIs
  <2> QED
    BY <2>5, Zenon DEF key, order
<1>11. q = [k \in DOMAIN order |-> e[order[k]]]
  BY <1>6, <1>10, Zenon DEF Poses
<1>12. /\ m \in Nat /\ order \in [1..m -> D] /\ DOMAIN order = 1..m
       /\ \A i, j \in 1..m : i < j => order[i] < order[j]
       /\ \A k \in D : \E i \in 1..m : order[i] = k
  BY <1>7, OrderIs, Zenon DEF Listed, m, order
<1>13. \A k \in 1..m : order[k] \in D /\ order[k] \in 1..n
  BY <1>7, <1>12
<1> HIDE DEF q
<1>14. Len(q) = m /\ \A k \in 1..m : q[k] = e[order[k]]
  BY <1>11, <1>12
<1>15. \A k \in 1..m : tm[k] = s[order[k]].at
  BY DEF tm
<1>16. Listed(T, m, tm)
  <2>1. tm \in [1..m -> T]
    <3>1. \A k \in 1..m : s[order[k]].at \in T
      BY <1>1, <1>8, <1>13 DEF T
    <3> QED
      BY <3>1 DEF tm
  <2>2. \A i, j \in 1..m : i < j => tm[i] < tm[j]
    <3> SUFFICES ASSUME NEW i \in 1..m, NEW j \in 1..m, i < j PROVE tm[i] < tm[j]
      OBVIOUS
    <3>1. s[order[i]].at < s[order[j]].at
      BY <1>1, <1>12, <1>13, Zenon
    <3> QED
      BY <1>15, <3>1, Zenon
  <2>3. \A t \in T : \E i \in 1..m : tm[i] = t
    <3> SUFFICES ASSUME NEW t \in T PROVE \E i \in 1..m : tm[i] = t
      OBVIOUS
    <3>1. t \in G /\ t >= first
      BY DEF T
    <3>2. PICK k \in 1..n : s[k].at = t
      BY <1>1, <3>1, Zenon
    <3>3. k \in D
      BY <1>9, <3>1, <3>2, Zenon
    <3>4. PICK i \in 1..m : order[i] = k
      BY <1>12, <3>3, Zenon
    <3> QED
      BY <1>15, <3>2, <3>4, Zenon
  <2> QED
    BY <1>12, <2>1, <2>2, <2>3, Zenon DEF Listed
<1>17. \A k \in 1..m : q[k].value = v[tm[k]] /\ q[k].sim = z + (tm[k] - (tm[k] % p))
  <2> SUFFICES ASSUME NEW k \in 1..m PROVE q[k].value = v[tm[k]] /\ q[k].sim = z + (tm[k] - (tm[k] % p))
    OBVIOUS
  <2> DEFINE i == order[k]
  <2>1. i \in D /\ i \in 1..n /\ q[k] = e[i] /\ tm[k] = s[i].at
    BY <1>13, <1>14, <1>15
  <2> HIDE DEF i
  <2>2. e[i].value = v[s[i].at]
    BY <1>1, <1>2, <2>1
  <2>3. e[i].sim = z + (s[i].at - (s[i].at % p))
    BY <1>5, <1>8, <2>1
  <2> QED
    BY <2>1, <2>2, <2>3
<1>18. Posed(q, m, tm, T, v, z, p)
  BY <1>14, <1>16, <1>17, Zenon DEF Posed
<1> QED
  BY <1>18, Zenon DEF T, q

-----------------------------------------------------------------------------
(* indoor_loop_report: the steps and the pauses                            *)

\* How a step between two poses is timed by the clock.
LEMMA StepIsTimed ==
    ASSUME NEW p \in {1, 2}, NEW a \in Nat, NEW b \in Nat, a < b,
           NEW st, st = (b - (b % p)) - (a - (a % p))
    PROVE  /\ st \in Int /\ (b - a) - (p - 1) <= st /\ st <= (b - a) + (p - 1)
           /\ st > 0 => 2 * (b - a) <= 3 * st
<1>1. CASE p = 1
  BY <1>1
<1>2. CASE p = 2
  <2> DEFINE ar == a % 2
             br == b % 2
             aq == a \div 2
             bq == b \div 2
  <2>1. /\ ar \in 0..1 /\ br \in 0..1 /\ aq \in Int /\ bq \in Int
        /\ a = 2 * aq + ar /\ b = 2 * bq + br
    OBVIOUS
  <2>2. st = (b - br) - (a - ar)
    BY <1>2
  <2> HIDE DEF ar, br, aq, bq
  <2> QED
    BY <1>2, <2>1, <2>2
<1> QED
  BY <1>1, <1>2

\* The times without a pose.
Pauses(H) ==
    {ab[2] - ab[1] : ab \in {ab \in H \X H : ab[1] < ab[2] /\ \A t \in H : t <= ab[1] \/ ab[2] <= t}}

\* They are those between one pose and the next.
LEMMA PausesAre ==
    ASSUME NEW H \in SUBSET Nat, NEW m, NEW tm, Listed(H, m, tm)
    PROVE  /\ \A k \in 1..m - 1 : tm[k + 1] - tm[k] \in Pauses(H)
           /\ \A d \in Pauses(H) : \E k \in 1..m - 1 : d = tm[k + 1] - tm[k]
<1>1. /\ m \in Nat /\ tm \in [1..m -> H]
      /\ \A i, j \in 1..m : i < j => tm[i] < tm[j]
      /\ \A t \in H : \E i \in 1..m : tm[i] = t
  BY DEF Listed
<1>2. \A i \in 1..m : tm[i] \in H /\ tm[i] \in Nat
  BY <1>1
<1>3. ASSUME NEW k \in 1..m - 1 PROVE tm[k + 1] - tm[k] \in Pauses(H)
  <2> DEFINE ab == <<tm[k], tm[k + 1]>>
  <2>1. k \in 1..m /\ k + 1 \in 1..m /\ k < k + 1
    BY <1>1
  <2>2. ab \in H \X H /\ ab[1] = tm[k] /\ ab[2] = tm[k + 1]
    BY <1>2, <2>1
  <2>3. ab[1] < ab[2]
    BY <1>1, <2>1, <2>2, Zenon
  <2>4. ASSUME NEW t \in H PROVE t <= ab[1] \/ ab[2] <= t
    <3>1. PICK i \in 1..m : tm[i] = t
      BY <1>1, Zenon
    <3>2. i < k \/ i = k \/ i = k + 1 \/ k + 1 < i
      BY <2>1
    <3>3. i < k => t < tm[k]
      BY <1>1, <2>1, <3>1, Zenon
    <3>4. k + 1 < i => tm[k + 1] < t
      BY <1>1, <2>1, <3>1, Zenon
    <3>5. t \in Int /\ tm[k] \in Int /\ tm[k + 1] \in Int
      BY <1>2, <2>1
    <3> QED
      BY <2>2, <3>1, <3>2, <3>3, <3>4, <3>5
  <2> HIDE DEF ab
  <2>5. ab[2] - ab[1] \in Pauses(H)
    BY <2>2, <2>3, <2>4, Zenon DEF Pauses
  <2> QED
    BY <2>2, <2>5
<1>4. ASSUME NEW d \in Pauses(H) PROVE \E k \in 1..m - 1 : d = tm[k + 1] - tm[k]
  <2>1. PICK ab \in H \X H : /\ ab[1] < ab[2] /\ \A t \in H : t <= ab[1] \/ ab[2] <= t
                             /\ d = ab[2] - ab[1]
    BY Zenon DEF Pauses
  <2>2. ab[1] \in H /\ ab[2] \in H
    OBVIOUS
  <2>3. PICK i \in 1..m : tm[i] = ab[1]
    BY <1>1, <2>2, Zenon
  <2>4. PICK j \in 1..m : tm[j] = ab[2]
    BY <1>1, <2>2, Zenon
  <2>5. tm[i] < tm[j] /\ tm[i] \in Int /\ tm[j] \in Int
    BY <1>2, <2>1, <2>3, <2>4
  <2>6. i < j
    <3>1. j < i => tm[j] < tm[i]
      BY <1>1
    <3>2. j # i
      BY <2>5
    <3> QED
      BY <2>5, <3>1, <3>2
  <2>7. i \in 1..m - 1 /\ i + 1 \in 1..m /\ i < i + 1
    BY <1>1, <2>6
  <2>8. tm[i] < tm[i + 1]
    BY <1>1, <2>7, Zenon
  <2>9. tm[i + 1] <= tm[i] \/ tm[j] <= tm[i + 1]
    BY <1>2, <2>1, <2>3, <2>4, <2>7, Zenon
  <2>10. ~(i + 1 < j)
    <3> SUFFICES ASSUME i + 1 < j PROVE FALSE
      OBVIOUS
    <3>1. tm[i + 1] < tm[j]
      BY <1>1, <2>7
    <3>2. tm[i + 1] \in Int
      BY <1>2, <2>7
    <3> QED
      BY <2>5, <2>8, <2>9, <3>1, <3>2
  <2>11. j = i + 1
    BY <2>6, <2>10
  <2> QED
    BY <2>1, <2>3, <2>4, <2>7, <2>11, Zenon
<1> QED
  BY <1>3, <1>4, Zenon

-----------------------------------------------------------------------------
(* indoor_loop_report: jumps and gaps                                      *)

\* A cart that is never faster than two metres a second.
Slow(H, v) ==
    /\ \A t \in H : v[t] \in Int
    /\ \A a, b \in H : a < b => v[b] - v[a] <= 2 * (b - a) /\ v[a] - v[b] <= 2 * (b - a)

\* The steps st from one of m times to the next, and how far they go.
Steppings(q, m, tm, p, v) ==
    \A k \in 1..m - 1 :
        /\ StepTime(q, k) \in Int
        /\ (tm[k + 1] - tm[k]) - (p - 1) <= StepTime(q, k)
        /\ StepTime(q, k) <= (tm[k + 1] - tm[k]) + (p - 1)
        /\ StepTime(q, k) > 0 => ~(StepLength(q, k) > JUMP_MPS * StepTime(q, k))

\* Each step is as long as it was to within a tick, and none is a jump.
LEMMA StepsAre ==
    ASSUME NEW H \in SUBSET Nat, NEW q, NEW m, NEW tm, NEW v, NEW p \in {1, 2},
           NEW z \in Nat, Posed(q, m, tm, H, v, z, p), Slow(H, v)
    PROVE  Steppings(q, m, tm, p, v)
<1>1. Listed(H, m, tm) /\ \A k \in 1..m : q[k].value = v[tm[k]] /\ q[k].sim = z + (tm[k] - (tm[k] % p))
  BY DEF Posed
<1>2. /\ m \in Nat /\ \A i \in 1..m : tm[i] \in H
      /\ \A i, j \in 1..m : i < j => tm[i] < tm[j]
  BY <1>1 DEF Listed
<1>3. ASSUME NEW k \in 1..m - 1
      PROVE  /\ StepTime(q, k) \in Int
             /\ (tm[k + 1] - tm[k]) - (p - 1) <= StepTime(q, k)
             /\ StepTime(q, k) <= (tm[k + 1] - tm[k]) + (p - 1)
             /\ StepTime(q, k) > 0 => ~(StepLength(q, k) > JUMP_MPS * StepTime(q, k))
  <2> DEFINE a == tm[k]
             b == tm[k + 1]
             st == StepTime(q, k)
             d == v[b] - v[a]
  <2>1. k \in 1..m /\ k + 1 \in 1..m /\ k < k + 1
    BY <1>2
  <2>2. a \in H /\ b \in H /\ a < b
    BY <1>2, <2>1, Zenon
  <2>3. st = (z + (b - (b % p))) - (z + (a - (a % p)))
    BY <1>1, <2>1, Zenon DEF StepTime
  <2>4. StepLength(q, k) = IF d < 0 THEN -d ELSE d
    BY <1>1, <2>1, Zenon DEF StepLength
  <2> HIDE DEF a, b, st
  <2>5. a \in Nat /\ b \in Nat
    BY <2>2
  <2>3a. st = (b - (b % p)) - (a - (a % p))
    <3> DEFINE ar == a % p
               br == b % p
    <3>1. ar \in Int /\ br \in Int
      BY <2>5
    <3>2. st = (z + (b - br)) - (z + (a - ar))
      BY <2>3
    <3> HIDE DEF ar, br
    <3>3. st = (b - br) - (a - ar)
      BY <2>5, <3>1, <3>2
    <3> QED
      BY <3>3 DEF ar, br
  <2>6. /\ st \in Int /\ (b - a) - (p - 1) <= st /\ st <= (b - a) + (p - 1)
        /\ st > 0 => 2 * (b - a) <= 3 * st
    BY <2>2, <2>3a, <2>5, StepIsTimed, Zenon
  <2>7. v[b] \in Int /\ v[a] \in Int /\ v[b] - v[a] <= 2 * (b - a) /\ v[a] - v[b] <= 2 * (b - a)
    BY <2>2 DEF Slow
  <2>8. d \in Int /\ d <= 2 * (b - a) /\ -d <= 2 * (b - a)
    BY <2>5, <2>7
  <2> HIDE DEF d
  <2>9. st > 0 => ~(StepLength(q, k) > JUMP_MPS * st)
    BY <2>4, <2>5, <2>6, <2>8 DEF JUMP_MPS
  <2> QED
    BY <2>6, <2>9, Zenon DEF a, b, st
<1> QED
  BY <1>3, Zenon DEF Steppings

\* What the report says of the poses q.
LoopHolds(loop, H, p) ==
    LET hole == Max(Pauses(H))
        slack == p - 1
    IN  /\ loop.poses = Cardinality(H) /\ loop.jumps = {}
        /\ hole > GAP_S + slack => Abs(loop.longest - hole) <= slack
        /\ hole <= GAP_S - slack => loop.gaps = 0

\* The gaps of n steps that are st long, where the largest hole is as long as that.
GapHolds(st, n, hole, p) ==
    LET gaps == {j \in 1..n : st[j] > GAP_S}
    IN  /\ hole > GAP_S + (p - 1) => Abs(Max({0} \cup {st[k] : k \in gaps}) - hole) <= p - 1
        /\ hole <= GAP_S - (p - 1) => Cardinality(gaps) = 0

\* The longest gap is as long as the largest hole, to within a tick.
LEMMA GapIsLong ==
    ASSUME NEW p \in {1, 2}, NEW n \in Nat, NEW d, NEW st, NEW hole \in Nat,
           \A k \in 1..n : /\ d[k] \in Int /\ d[k] <= hole /\ st[k] \in Int
                           /\ d[k] - (p - 1) <= st[k] /\ st[k] <= d[k] + (p - 1),
           \E k \in 1..n : d[k] = hole
    PROVE  GapHolds(st, n, hole, p)
<1> DEFINE gaps == {j \in 1..n : st[j] > GAP_S}
           L == {0} \cup {st[k] : k \in gaps}
<1>1. ASSUME hole <= GAP_S - (p - 1) PROVE Cardinality(gaps) = 0
  <2>1. \A k \in 1..n : ~(st[k] > GAP_S)
    BY <1>1 DEF GAP_S
  <2>2. gaps = {}
    BY <2>1
  <2> QED
    BY <2>2, FS_EmptySet, Zenon
<1>2. \A x \in L : x = 0 \/ \E k \in 1..n : st[k] > GAP_S /\ x = st[k]
  OBVIOUS
<1>3. \A k \in 1..n : st[k] > GAP_S => st[k] \in L
  OBVIOUS
<1>4. 0 \in L
  OBVIOUS
<1> HIDE DEF L, gaps
<1>5. \A x \in L : x \in 0..hole + p - 1
  <2> SUFFICES ASSUME NEW x \in L PROVE x \in 0..hole + p - 1
    OBVIOUS
  <2>1. CASE x = 0
    BY <2>1
  <2>2. ASSUME NEW k \in 1..n, st[k] > GAP_S, x = st[k] PROVE x \in 0..hole + p - 1
    BY <2>2 DEF GAP_S
  <2> QED
    BY <1>2, <2>1, <2>2, Zenon
<1>6. L \in SUBSET Int /\ IsFiniteSet(L) /\ L # {}
  <2>1. 0 \in Int /\ hole + p - 1 \in Int
    OBVIOUS
  <2>2. IsFiniteSet(0..hole + p - 1)
    BY <2>1, FS_Interval, Zenon
  <2>3. L \in SUBSET (0..hole + p - 1) /\ L \in SUBSET Int
    BY <1>5
  <2> QED
    BY <1>4, <2>2, <2>3, FS_Subset, Zenon
<1>7. Max(L) \in L /\ \A x \in L : x <= Max(L)
  BY <1>6, HasMax, Zenon
<1> DEFINE longest == Max(L)
<1>8. longest \in L /\ \A x \in L : x <= longest
  BY <1>7
<1> HIDE DEF longest
<1>9. ASSUME hole > GAP_S + (p - 1) PROVE Abs(longest - hole) <= p - 1
  <2>1. PICK k \in 1..n : d[k] = hole
    OBVIOUS
  <2>2. st[k] \in Int /\ hole - (p - 1) <= st[k] /\ st[k] > GAP_S
    BY <1>9, <2>1 DEF GAP_S
  <2>3. longest \in Int /\ st[k] <= longest
    BY <1>3, <1>5, <1>8, <2>2
  <2>4. longest # 0
    BY <2>2, <2>3 DEF GAP_S
  <2>5. PICK j \in 1..n : st[j] > GAP_S /\ longest = st[j]
    BY <1>2, <1>8, <2>4, Zenon
  <2>6. longest <= hole + (p - 1)
    BY <2>5
  <2> QED
    BY <2>2, <2>3, <2>6 DEF Abs
<1> QED
  BY <1>1, <1>9, Zenon DEF longest, L, gaps, GapHolds

\* indoor_loop_report, of such poses.
LEMMA LoopOfPoses ==
    ASSUME NEW H \in SUBSET Nat, NEW m, NEW tm, NEW v, NEW z \in Nat, NEW p \in {1, 2}, NEW e,
           Posed(Poses(e), m, tm, H, v, z, p), Slow(H, v), \E a, b \in H : a # b,
           NEW last \in Nat, \A t \in H : t <= last,
           NEW nvtl, NEW iterations, NEW board
    PROVE  LoopHolds(LoopReport(e, nvtl, iterations, board), H, p)
<1> DEFINE q == Poses(e)
           loop == LoopReport(e, nvtl, iterations, board)
           n == m - 1
           d == [k \in 1..n |-> tm[k + 1] - tm[k]]
           st == [k \in 1..n |-> StepTime(q, k)]
           D == Pauses(H)
<1>1. Listed(H, m, tm) /\ Len(q) = m
  BY DEF Posed
<1>2. Steppings(q, m, tm, p, v)
  BY StepsAre, Zenon
<1>3. IsFiniteSet(H) /\ Cardinality(H) = m /\ m \in Nat
  BY <1>1, ListedSize
<1>4. m > 1
  <2>1. PICK a \in H, b \in H : a # b
    OBVIOUS
  <2>2. \A t \in H : \E i \in 1..m : tm[i] = t
    BY <1>1 DEF Listed
  <2>3. PICK i \in 1..m : tm[i] = a
    BY <2>2, Zenon
  <2>4. PICK j \in 1..m : tm[j] = b
    BY <2>2, Zenon
  <2>5. i # j
    BY <2>1, <2>3, <2>4, Zenon
  <2> QED
    BY <1>3, <2>5
<1>5. n \in Nat /\ 1 \in 1..n
  BY <1>3, <1>4
<1> HIDE DEF q, loop, D
<1>6. /\ \A k \in 1..n : tm[k + 1] - tm[k] \in D
      /\ \A x \in D : \E k \in 1..n : x = tm[k + 1] - tm[k]
  BY <1>1, PausesAre DEF D
<1>7. \A x \in D : x \in 0..last
  <2> SUFFICES ASSUME NEW x \in D PROVE x \in 0..last
    OBVIOUS
  <2>1. PICK ab \in H \X H : ab[1] < ab[2] /\ x = ab[2] - ab[1]
    BY Zenon DEF Pauses, D
  <2>2. ab[1] \in Nat /\ ab[2] \in Nat /\ ab[2] <= last
    OBVIOUS
  <2> QED
    BY <2>1, <2>2
<1>8. D \in SUBSET Int /\ IsFiniteSet(D) /\ D # {}
  <2>1. 0 \in Int /\ last \in Int
    OBVIOUS
  <2>2. IsFiniteSet(0..last)
    BY <2>1, FS_Interval, Zenon
  <2>3. D \in SUBSET (0..last) /\ D \in SUBSET Int
    BY <1>7
  <2>4. D # {}
    BY <1>5, <1>6
  <2> QED
    BY <2>2, <2>3, <2>4, FS_Subset, Zenon
<1> DEFINE hole == Max(D)
<1>9. hole \in D /\ \A x \in D : x <= hole
  BY <1>8, HasMax, Zenon
<1> HIDE DEF n, hole
<1>10. hole \in Nat
  BY <1>7, <1>9
<1>11. \A k \in 1..n : d[k] = tm[k + 1] - tm[k] /\ st[k] = StepTime(q, k)
  OBVIOUS
<1> HIDE DEF d, st
<1>12. ASSUME NEW k \in 1..n
       PROVE  /\ d[k] \in Int /\ d[k] <= hole /\ st[k] \in Int
              /\ d[k] - (p - 1) <= st[k] /\ st[k] <= d[k] + (p - 1)
  <2>1. d[k] \in D
    BY <1>6, <1>11
  <2>2. d[k] \in Int /\ d[k] <= hole
    BY <1>8, <1>9, <2>1
  <2>3. /\ StepTime(q, k) \in Int
        /\ (tm[k + 1] - tm[k]) - (p - 1) <= StepTime(q, k)
        /\ StepTime(q, k) <= (tm[k + 1] - tm[k]) + (p - 1)
    BY <1>2, Zenon DEF Steppings, n
  <2> QED
    BY <1>11, <2>2, <2>3
<1>13. \E k \in 1..n : d[k] = hole
  BY <1>6, <1>9, <1>11, Zenon
<1> DEFINE gaps == {j \in 1..n : st[j] > GAP_S}
           longest == Max({0} \cup {st[k] : k \in gaps})
<1>14. \A k \in 1..n : /\ d[k] \in Int /\ d[k] <= hole /\ st[k] \in Int
                          /\ d[k] - (p - 1) <= st[k] /\ st[k] <= d[k] + (p - 1)
  BY <1>12, Zenon
<1>15. /\ hole > GAP_S + (p - 1) => Abs(longest - hole) <= p - 1
       /\ hole <= GAP_S - (p - 1) => Cardinality(gaps) = 0
  <2>1. GapHolds(st, n, hole, p)
    BY <1>5, <1>10, <1>13, <1>14, GapIsLong
  <2> QED
    BY <2>1, Zenon DEF GapHolds
<1>16. Steps(q) = 1..n
  BY <1>1 DEF Steps, n
<1>17. {k \in Steps(q) : StepTime(q, k) > GAP_S} = gaps
  BY <1>11, <1>16
<1>18. \A k \in gaps : StepTime(q, k) = st[k]
  BY <1>11
<1> HIDE DEF gaps
<1>19. {StepTime(q, k) : k \in gaps} = {st[k] : k \in gaps}
  BY <1>18
<1>20. {j \in Steps(q) : StepTime(q, j) > 0 /\ StepLength(q, j) > JUMP_MPS * StepTime(q, j)} = {}
  <2> SUFFICES ASSUME NEW j \in 1..n, StepTime(q, j) > 0, StepLength(q, j) > JUMP_MPS * StepTime(q, j)
               PROVE  FALSE
    BY <1>16
  <2> QED
    BY <1>2, Zenon DEF Steppings, n
<1> HIDE DEF longest
<1>21. /\ loop.poses = m /\ loop.gaps = Cardinality(gaps)
       /\ loop.longest = longest
  BY <1>1, <1>17, <1>19 DEF LoopReport, q, loop, longest
<1>22. loop.jumps = {}
  <2> DEFINE J == {j \in Steps(q) : StepTime(q, j) > 0 /\ StepLength(q, j) > JUMP_MPS * StepTime(q, j)}
  <2>1. loop.jumps = {q[k + 1].sim : k \in J}
    BY DEF LoopReport, q, loop
  <2> HIDE DEF J
  <2>2. J = {}
    BY <1>20 DEF J
  <2> QED
    BY <2>1, <2>2
<1>23. LoopHolds(loop, H, p)
  BY <1>3, <1>15, <1>21, <1>22, Zenon DEF LoopHolds, hole, D
<1> QED
  BY <1>23, Zenon DEF loop

-----------------------------------------------------------------------------
(* indoor_loop_report: the report                                          *)

\* A replay of a cart that is slow, and its times H: the poses that come while
\* the recorder and the clock run, two at least.
IsReplay(pose, T, v, clock, K, kv, z, p, seconds, H) ==
    LET first == Min({t \in SubscribedAt(clock)..seconds : (t % p) = 0})
    IN  /\ IsStream(pose, T, v) /\ IsClock(clock, K, kv, z, first, p, seconds)
        /\ p \in {1, 2} /\ seconds \in Nat
        /\ H = {t \in T : SubscribedAt(pose) <= t /\ t >= first /\ t < seconds}
        /\ Slow(H, v) /\ \E a, b \in H : a # b

\* indoor_sim_record_events and indoor_loop_report.  Whatever is replayed, of a
\* cart no faster than two metres a second and by a clock that ticks at least
\* every fifth of a second, the report counts every pose that came while the
\* recorder and the clock ran, sees no jump, and a hole is as long in it as it
\* was to within a tick of the clock.
THEOREM AnyLoopIsMeasured ==
    ASSUME NEW pose, NEW T, NEW v, NEW clock, NEW K, NEW kv, NEW z, NEW p, NEW seconds, NEW H,
           IsReplay(pose, T, v, clock, K, kv, z, p, seconds, H),
           NEW nvtl, NEW iterations, NEW board
    PROVE  LoopMeasured(pose, clock, p, seconds,
                        LoopReport(Recorded(pose, clock, seconds), nvtl, iterations, board))
<1> DEFINE first == Min({t \in SubscribedAt(clock)..seconds : (t % p) = 0})
           e == Recorded(pose, clock, seconds)
           loop == LoopReport(e, nvtl, iterations, board)
           G == HeardOf(T, pose, seconds)
<1>1. /\ IsStream(pose, T, v) /\ IsClock(clock, K, kv, z, first, p, seconds)
      /\ p \in {1, 2} /\ seconds \in Nat
      /\ H = {t \in T : SubscribedAt(pose) <= t /\ t >= first /\ t < seconds}
      /\ Slow(H, v) /\ \E a, b \in H : a # b
  BY Zenon DEF IsReplay
<1> HIDE DEF first, e, loop, G
<1>2. first \in Nat /\ p \in Nat \ {0} /\ z \in Nat
  BY <1>1 DEF IsClock
<1>3. T \in SUBSET Nat
  BY <1>1 DEF IsStream
<1>4. \E n, s : Carries(s, n, G, v) /\ TimedAs(e, n, s, z, first, p)
  BY <1>1, RecordedIs, Zenon DEF G, e
<1>5. PICK n, s : Carries(s, n, G, v) /\ TimedAs(e, n, s, z, first, p)
  BY <1>4, Zenon
<1>6. G \in SUBSET Nat
  BY <1>3 DEF G, HeardOf
<1>7. {t \in G : t >= first} = H
  BY <1>1 DEF G, HeardOf
<1>8. \E m, tm : Posed(Poses(e), m, tm, {t \in G : t >= first}, v, z, p)
  <2>1. Carries(s, n, G, v) /\ TimedAs(e, n, s, z, first, p)
    BY <1>5
  <2> QED
    BY <1>2, <1>6, <2>1, PosesAre
<1>9. PICK m, tm : Posed(Poses(e), m, tm, H, v, z, p)
  BY <1>7, <1>8, Zenon
<1>10. H \in SUBSET Nat /\ \A t \in H : t <= seconds
  <2>1. \A t \in H : t \in T /\ t < seconds
    BY <1>1, Zenon
  <2>2. \A t \in H : t \in Nat
    BY <1>3, <2>1
  <2> QED
    BY <1>1, <2>1, <2>2
<1>11. LoopHolds(loop, H, p)
  BY <1>1, <1>2, <1>9, <1>10, LoopOfPoses, Zenon DEF loop
<1>12. {pose.sent[k].at : k \in DOMAIN pose.sent} = T
  <2>1. PICK n2 : Carries(pose.sent, n2, T, v)
    BY <1>1, Zenon DEF IsStream
  <2> DEFINE u == pose.sent
  <2>2. /\ DOMAIN u = 1..n2 /\ \A k \in 1..n2 : u[k].at \in T
        /\ \A t \in T : \E k \in 1..n2 : u[k].at = t
    BY <2>1, Zenon DEF Carries
  <2> HIDE DEF u
  <2>3. {u[k].at : k \in DOMAIN u} = T
    BY <2>2
  <2> QED
    BY <2>3, Zenon DEF u
<1> DEFINE ticks == {pose.sent[k].at : k \in DOMAIN pose.sent}
           heard == {t \in ticks : t >= SubscribedAt(pose) /\ t >= first /\ t < seconds}
<1>13. heard = H
  <2>1. SubscribedAt(pose) \in Int
    BY <1>1 DEF IsStream
  <2> HIDE DEF ticks
  <2>2. ticks = T
    BY <1>12 DEF ticks
  <2>3. \A t \in T : t >= SubscribedAt(pose) <=> SubscribedAt(pose) <= t
    BY <1>3, <2>1
  <2> QED
    BY <1>1, <2>2, <2>3
<1>14. LoopMeasured(pose, clock, p, seconds, loop)
           <=> LET hole == Max(Pauses(heard))
                   slack == p - 1
               IN  /\ loop.poses = Cardinality(heard) /\ loop.jumps = {}
                   /\ hole > GAP_S + slack => Abs(loop.longest - hole) <= slack
                   /\ hole <= GAP_S - slack => loop.gaps = 0
  BY Zenon DEF LoopMeasured, Pauses, first
<1> HIDE DEF heard
<1>15. LoopMeasured(pose, clock, p, seconds, loop)
  BY <1>11, <1>13, <1>14, Zenon DEF LoopHolds
<1> QED
  BY <1>15, Zenon DEF loop, e

-----------------------------------------------------------------------------
(* indoor_sim_record_events: what was latched                              *)

\* A stream that has sent all it has before it is subscribed to.
SentBefore(stream, n, T, v) ==
    n # 0 /\ Carries(stream.sent, n, T, v) /\ \A t \in T : t \in Int /\ t < SubscribedAt(stream)

\* One that has done so and latches.
IsLatched(stream, seconds) ==
    /\ stream.latched = TRUE /\ SubscribedAt(stream) \in Int /\ seconds \in Int
    /\ SubscribedAt(stream) < seconds
    /\ \E n, T, v : SentBefore(stream, n, T, v)

\* Of such a stream, one message is recorded.
LEMMA LatchedIsRecorded ==
    ASSUME NEW stream, NEW clock, NEW seconds, IsLatched(stream, seconds)
    PROVE  Len(Recorded(stream, clock, seconds)) = 1
<1> DEFINE s == stream.sent
           since == SubscribedAt(stream)
           got == Received(stream, seconds)
           before == {k \in DOMAIN s : s[k].at < since}
           live == {k \in DOMAIN s : since <= s[k].at /\ s[k].at < seconds}
           order == InOrder({Max(before)})
<1>1. /\ stream.latched = TRUE /\ since \in Int /\ seconds \in Int /\ since < seconds
      /\ \E n, T, v : SentBefore(stream, n, T, v)
  BY Zenon DEF IsLatched
<1>2. PICK n, T, v : SentBefore(stream, n, T, v)
  BY <1>1, Zenon
<1>2a. n # 0 /\ Carries(s, n, T, v) /\ \A t \in T : t \in Int /\ t < since
  BY <1>2, Zenon DEF SentBefore
<1> HIDE DEF s, since, got
<1>3. n \in Nat /\ n # 0 /\ DOMAIN s = 1..n /\ \A k \in 1..n : s[k].at \in Int /\ s[k].at < since
  BY <1>2a DEF Carries
<1>4. before = 1..n /\ live = {}
  BY <1>1, <1>3
<1> HIDE DEF before, live
<1>5. Max(before) \in Int
  <2>1. IsFiniteSet(1..n)
    <3>1. 1 \in Int /\ n \in Int
      BY <1>3
    <3> QED
      BY <3>1, FS_Interval, Zenon
  <2>2. before \in SUBSET Int /\ before # {}
    BY <1>3, <1>4
  <2>3. IsFiniteSet(before)
    BY <1>4, <2>1, Zenon
  <2>4. Max(before) \in before
    BY <2>2, <2>3, HasMax, Zenon
  <2> QED
    BY <2>2, <2>4
<1>6. DOMAIN order = 1..1
  <2> DEFINE one == {Max(before)}
  <2>1. one \in SUBSET Int
    BY <1>5
  <2>2. IsFiniteSet(one) /\ Cardinality(one) = 1
    BY FS_Singleton
  <2> HIDE DEF one
  <2>3. DOMAIN InOrder(one) = 1..1
    BY <2>1, <2>2, OrderIs
  <2> QED
    BY <2>3, Zenon DEF one
<1>7. before # {}
  <2>1. 1 \in 1..n
    BY <1>3
  <2> QED
    BY <1>4, <2>1
<1>8. got = [n2 \in DOMAIN order |-> s[order[n2]]]
  <2> DEFINE kept == IF TRUE /\ stream.latched /\ before # {} THEN {Max(before)} ELSE {}
             heard == IF since >= seconds THEN {} ELSE kept \cup live
  <2>1. got = [n2 \in DOMAIN InOrder(heard) |-> s[InOrder(heard)[n2]]]
    BY Zenon DEF Received, Got, got, since, s, before, live
  <2>2. kept = {Max(before)}
    BY <1>1, <1>7
  <2>3. heard = {Max(before)}
    BY <1>1, <1>4, <2>2
  <2> HIDE DEF heard
  <2> QED
    BY <2>1, <2>3, Zenon
<1> HIDE DEF order
<1>9. DOMAIN got = 1..1
  BY <1>6, <1>8
<1>10. DOMAIN Recorded(stream, clock, seconds) = 1..1
  BY <1>9, Zenon DEF Recorded, got
<1>11. \E f : Recorded(stream, clock, seconds) = [k \in 1..1 |-> f[k]]
  <2> DEFINE since2 == SubscribedAt(stream)
             ticks == Received(clock, seconds)
             f == [k \in 1..1 |-> [n |-> k, value |-> got[k].value,
                                   sim |-> SimAt(ticks, Max({got[k].at, since2}))]]
  <2>1. Recorded(stream, clock, seconds)
            = [k \in DOMAIN got |-> [n |-> k, value |-> got[k].value,
                                     sim |-> SimAt(ticks, Max({got[k].at, since2}))]]
    BY Zenon DEF Recorded, got
  <2>2. Recorded(stream, clock, seconds) = f
    BY <1>9, <2>1, Zenon
  <2>3. f = [k \in 1..1 |-> f[k]]
    BY Zenon
  <2> QED
    BY <2>2, <2>3, Zenon
<1> HIDE DEF got
<1> QED
  <2>1. PICK f : Recorded(stream, clock, seconds) = [k \in 1..1 |-> f[k]]
    BY <1>11
  <2>2. Len([k \in 1..1 |-> f[k]]) = 1
    OBVIOUS
  <2> QED
    BY <2>1, <2>2

-----------------------------------------------------------------------------
(* ndt_timeseries                                                          *)

\* The first of n messages that are of the times X.
FirstIn(s, n, X) ==
    LET those == {k \in 1..n : s[k].at \in X}
    IN  /\ X = {} => those = {}
        /\ \A c \in X : (\A t \in X : c <= t) => those # {} /\ s[Min(those)].at = c

\* It is that of the first of those times.
LEMMA FirstAmong ==
    ASSUME NEW T \in SUBSET Int, NEW s, NEW n, NEW v, Carries(s, n, T, v), NEW X \in SUBSET T
    PROVE  FirstIn(s, n, X)
<1> DEFINE those == {k \in 1..n : s[k].at \in X}
           m == Min(those)
<1>1. /\ n \in Nat /\ DOMAIN s = 1..n /\ \A k \in 1..n : s[k].at \in T
      /\ \A i, j \in 1..n : i < j => s[i].at < s[j].at
      /\ \A t \in T : \E k \in 1..n : s[k].at = t
  BY Zenon DEF Carries
<1>2. X = {} => those = {}
  OBVIOUS
<1>3. ASSUME NEW c \in X, \A t \in X : c <= t PROVE those # {} /\ s[m].at = c
  <2>1. PICK k \in 1..n : s[k].at = c
    BY <1>1
  <2>2. k \in those
    BY <2>1
  <2>3. those \in SUBSET Int /\ IsFiniteSet(those)
    <3>1. 1 \in Int /\ n \in Int
      BY <1>1
    <3>2. IsFiniteSet(1..n)
      BY <3>1, FS_Interval, Zenon
    <3>3. those \in SUBSET Int /\ those \in SUBSET (1..n)
      OBVIOUS
    <3> HIDE DEF those
    <3> QED
      BY <3>2, <3>3, FS_Subset, Zenon
  <2>4. m \in those /\ m <= k /\ those # {}
    <3> HIDE DEF those
    <3>1. those # {}
      BY <2>2
    <3> QED
      BY <2>2, <2>3, <3>1, HasMin, Zenon
  <2> HIDE DEF m
  <2>5. m \in 1..n /\ s[m].at \in X
    BY <2>4
  <2>6. c <= s[m].at
    BY <1>3, <2>5
  <2>7. ~(m < k)
    <3> SUFFICES ASSUME m < k PROVE FALSE
      OBVIOUS
    <3>1. s[m].at < s[k].at
      BY <1>1, <2>5
    <3>2. s[m].at \in Int /\ c \in Int
      BY <1>1, <2>5
    <3> QED
      BY <2>1, <2>6, <3>1, <3>2
  <2>8. m = k
    BY <2>4, <2>5, <2>7
  <2> QED
    BY <2>1, <2>4, <2>8, Zenon
<1> HIDE DEF those, m
<1>4. \A c \in X : (\A t \in X : c <= t) => those # {} /\ s[m].at = c
  BY <1>3
<1> QED
  BY <1>2, <1>4, Zenon DEF those, m, FirstIn

-----------------------------------------------------------------------------
(* ndt_timeseries                                                          *)

\* The first of some times.
Foremost(X, c) == c \in X /\ \A t \in X : c <= t

\* The times at which the cart moves.
MovingAt(O, v) == {t \in O : v[t] > 0}

\* The times at which the matcher is at its cap.
CappedAt(O, iterations) == {t \in O : LastValue(iterations.sent, t) >= MAX_ITER}

\* The first of the rows of n messages, of those of the times X: what the clock
\* shows then, since t0.
RowIn(rows, s, n, X, shown, t0) ==
    LET those == {k \in 1..n : s[k].at \in X}
    IN  /\ X = {} => First(rows, those) = None
        /\ \A c \in X : Foremost(X, c) => First(rows, those) = shown[c] - shown[t0]

\* That is the first of those times.
LEMMA FirstRow ==
    ASSUME NEW O \in SUBSET Int, NEW s, NEW n, NEW v, Carries(s, n, O, v), NEW t0, Foremost(O, t0),
           NEW rows, NEW shown, \A k \in 1..n : rows[k].t = shown[s[k].at] - shown[s[1].at],
           NEW X \in SUBSET O
    PROVE  RowIn(rows, s, n, X, shown, t0)
<1> DEFINE those == {k \in 1..n : s[k].at \in X}
           m == Min(those)
<1>1. /\ n \in Nat /\ DOMAIN s = 1..n /\ \A k \in 1..n : s[k].at \in O
      /\ \A i, j \in 1..n : i < j => s[i].at < s[j].at
      /\ \A t \in O : \E k \in 1..n : s[k].at = t
  BY Zenon DEF Carries
<1>2. /\ X = {} => those = {}
      /\ \A c \in X : (\A t \in X : c <= t) => those # {} /\ s[m].at = c
  <2>1. FirstIn(s, n, X)
    BY FirstAmong, Zenon
  <2> QED
    BY <2>1, Zenon DEF FirstIn
<1>3. s[1].at = t0 /\ t0 \in O
  <2>1. t0 \in O /\ \A t \in O : t0 <= t
    BY Zenon DEF Foremost
  <2>2. PICK k \in 1..n : s[k].at = t0
    BY <1>1, <2>1, Zenon
  <2>3. 1 \in 1..n /\ (k = 1 \/ 1 < k)
    BY <1>1, <2>2
  <2>4. 1 < k => s[1].at < s[k].at
    BY <1>1, <2>3, Zenon
  <2>5. s[1].at \in O /\ t0 <= s[1].at
    BY <1>1, <2>1, <2>3, Zenon
  <2>6. s[1].at \in Int /\ t0 \in Int
    BY <2>1, <2>5
  <2> QED
    BY <2>1, <2>2, <2>3, <2>4, <2>5, <2>6
<1>4. X = {} => First(rows, those) = None
  <2> SUFFICES ASSUME X = {} PROVE First(rows, those) = None
    OBVIOUS
  <2> HIDE DEF those
  <2>1. those = {}
    BY <1>2
  <2> QED
    BY <2>1 DEF First
<1>5. ASSUME NEW c \in X, Foremost(X, c) PROVE First(rows, those) = shown[c] - shown[t0]
  <2>1. \A t \in X : c <= t
    BY <1>5, Zenon DEF Foremost
  <2>2. those # {} /\ s[m].at = c
    BY <1>2, <2>1, Zenon
  <2>3. m \in those
    <3>1. those \in SUBSET Int /\ IsFiniteSet(those)
      <4>1. 1 \in Int /\ n \in Int
        BY <1>1
      <4>2. IsFiniteSet(1..n)
        BY <4>1, FS_Interval, Zenon
      <4>3. those \in SUBSET Int /\ those \in SUBSET (1..n)
        OBVIOUS
      <4> HIDE DEF those
      <4> QED
        BY <4>2, <4>3, FS_Subset, Zenon
    <3> HIDE DEF those
    <3> QED
      BY <2>2, <3>1, HasMin, Zenon
  <2> HIDE DEF m
  <2>4. m \in 1..n
    BY <2>3
  <2> HIDE DEF those
  <2>5. First(rows, those) = rows[m].t
    BY <2>2, Zenon DEF First, m
  <2>6. rows[m].t = shown[s[m].at] - shown[s[1].at]
    BY <2>4
  <2> QED
    BY <1>3, <2>2, <2>5, <2>6
<1> HIDE DEF those
<1> QED
  <2>1. \A c \in X : Foremost(X, c) => First(rows, those) = shown[c] - shown[t0]
    BY <1>5, Zenon
  <2> QED
    BY <1>4, <2>1, Zenon DEF those, RowIn

\* What a node's clock shows: nothing before the first tick, and the last tick after it.
ShownAt(t, z, first, p) == IF t < first THEN 0 ELSE z + (t - (t % p))

\* A clock that is heard every p from `first' on and shows z at 0, for as long as is asked.
Ticking(clock, z, first, p, seconds) ==
    /\ p \in Nat \ {0} /\ first \in Nat /\ (first % p) = 0 /\ z \in Nat
    /\ \E last \in Int : /\ seconds <= last
                        /\ \E n, v : /\ Carries(clock.sent, n, TicksFrom(first, last, p), v)
                                     /\ \A c \in TicksFrom(first, last, p) : v[c] = z + c

\* Such a node's time.
LEMMA SimIs ==
    ASSUME NEW clock, NEW z, NEW first, NEW p, NEW seconds \in Int, Ticking(clock, z, first, p, seconds),
           NEW t \in Nat, t < seconds
    PROVE  SimNow(clock, t) = ShownAt(t, z, first, p) /\ ShownAt(t, z, first, p) \in Int
<1>1. /\ p \in Nat \ {0} /\ first \in Nat /\ (first % p) = 0 /\ z \in Nat
      /\ \E last \in Int : /\ seconds <= last
                          /\ \E n, v : /\ Carries(clock.sent, n, TicksFrom(first, last, p), v)
                                       /\ \A c \in TicksFrom(first, last, p) : v[c] = z + c
  BY Zenon DEF Ticking
<1>2. PICK last \in Int : /\ seconds <= last
                         /\ \E n, v : /\ Carries(clock.sent, n, TicksFrom(first, last, p), v)
                                      /\ \A c \in TicksFrom(first, last, p) : v[c] = z + c
  BY <1>1, Zenon
<1>3. PICK n, v : /\ Carries(clock.sent, n, TicksFrom(first, last, p), v)
                  /\ \A c \in TicksFrom(first, last, p) : v[c] = z + c
  BY <1>2, Zenon
<1>4. t < last
  BY <1>2
<1>5. LastValue(clock.sent, t) = Stamp(t, z, first, p)
  BY <1>1, <1>3, <1>4, StampIs
<1>6. Held(clock, t) = LastValue(clock.sent, t)
  BY Zenon DEF Held, LastValue
<1> DEFINE held == Held(clock, t)
           r == t % p
<1>7. r \in Int /\ t - r \in Nat
  <2>1. r \in 0..p - 1 /\ t - r \in Nat
    BY <1>1, RoundedDown
  <2> QED
    BY <2>1
<1>8. held = IF t < first THEN None ELSE z + (t - r)
  BY <1>5, <1>6 DEF Stamp
<1>9. SimNow(clock, t) = Max({0, held})
  BY Zenon DEF SimNow
<1>10. ShownAt(t, z, first, p) = IF t < first THEN 0 ELSE z + (t - r)
  BY Zenon DEF ShownAt
<1> HIDE DEF held, r
<1>11. held \in Int /\ 0 \in Int
  BY <1>1, <1>7, <1>8 DEF None
<1>12. Max({0, held}) \in {0, held} /\ 0 <= Max({0, held}) /\ held <= Max({0, held})
  BY <1>11, PairMax, Zenon
<1>13. Max({0, held}) = IF t < first THEN 0 ELSE z + (t - r)
  BY <1>1, <1>7, <1>8, <1>11, <1>12 DEF None
<1> QED
  BY <1>1, <1>7, <1>9, <1>10, <1>13

\* What such a time says of when something was.
LEMMA DatedIs ==
    ASSUME NEW p \in Nat \ {0}, NEW first \in Nat, NEW z \in Nat, NEW t0 \in Nat, NEW c \in Nat, t0 <= c
    PROVE  Dated(ShownAt(c, z, first, p) - ShownAt(t0, z, first, p), c, t0, first, p, z)
<1> DEFINE cr == c % p
           tr == t0 % p
           found == ShownAt(c, z, first, p) - ShownAt(t0, z, first, p)
<1>1. cr \in 0..p - 1 /\ tr \in 0..p - 1
  BY RoundedDown
<1>2. found = (IF c < first THEN 0 ELSE z + (c - cr)) - (IF t0 < first THEN 0 ELSE z + (t0 - tr))
  BY Zenon DEF ShownAt
<1> HIDE DEF cr, tr, found
<1>3. first <= t0 => Abs(found - (c - t0)) <= p - 1
  BY <1>1, <1>2 DEF Abs
<1>4. c < first => found = 0
  BY <1>1, <1>2
<1>5. t0 < first /\ first <= c => found \in (z + c) - (p - 1)..z + c
  BY <1>1, <1>2
<1> DEFINE low == z + c - (p - 1)
           high == z + c
<1>6. low = (z + c) - (p - 1)
  OBVIOUS
<1>7. t0 < first /\ first <= c => found \in low..high
  BY <1>5, <1>6
<1> QED
  BY <1>3, <1>4, <1>7, Zenon DEF Dated, found, low, high

\* The capture of ndt_timeseries: its messages of the odometry are of the times O,
\* the first of them comes at t0, and its clock is heard every p from `first' on.
IsCapture(odometry, T, v, clock, z, first, p, seconds, O, t0) ==
    /\ IsStream(odometry, T, v) /\ seconds \in Int /\ Ticking(clock, z, first, p, seconds)
    /\ O = {t \in T : 0 <= t /\ t < seconds} /\ Foremost(O, t0)

\* What it says of such a capture.
FindsFirst(series, iterations, O, v, z, first, p, t0) ==
    /\ \A c \in O : Foremost(MovingAt(O, v), c) => Dated(series.motion, c, t0, first, p, z)
    /\ \A c \in O : Foremost(CappedAt(O, iterations), c) => Dated(series.cap, c, t0, first, p, z)
    /\ CappedAt(O, iterations) = {} => series.cap = None

\* ndt_timeseries.  Whatever is replayed and whenever its clock begins, it says
\* the cart set off when its odometry first did, and the matcher was at its cap
\* when the last count of iterations before some odometry first was, and never if
\* none was: as the clock shows it.  That is to within a tick where the clock was
\* heard from the first odometry on, 0 where it was not heard yet, and the clock's
\* own reading, not a time since the start, where it was heard in between.
THEOREM AnyMotionIsFound ==
    ASSUME NEW odometry, NEW T, NEW v, NEW clock, NEW z, NEW first, NEW p, NEW seconds, NEW O, NEW t0,
           IsCapture(odometry, T, v, clock, z, first, p, seconds, O, t0), NEW nvtl, NEW iterations
    PROVE  FindsFirst(Timeseries(Timeline(odometry, nvtl, iterations, clock, seconds)),
                      iterations, O, v, z, first, p, t0)
<1> DEFINE rows == Timeline(odometry, nvtl, iterations, clock, seconds)
           heard == Got(odometry, FALSE, 0, seconds)
           series == Timeseries(rows)
           shown == [t \in O |-> ShownAt(t, z, first, p)]
<1>1. IsStream(odometry, T, v) /\ seconds \in Int /\ Foremost(O, t0)
      /\ O = {t \in T : 0 <= t /\ t < seconds} /\ Ticking(clock, z, first, p, seconds)
  BY Zenon DEF IsCapture
<1>2. T \in SUBSET Nat /\ T \in SUBSET Int /\ odometry.latched = FALSE /\ 0 \in Int
  BY <1>1 DEF IsStream
<1>3. PICK m : Carries(odometry.sent, m, T, v)
  BY <1>1, Zenon DEF IsStream
<1>4. \E n : Carries(heard, n, {t \in T : 0 <= t /\ t < seconds}, v)
  BY <1>1, <1>2, <1>3, GotCarries
<1>5. PICK n : Carries(heard, n, O, v)
  BY <1>1, <1>4, Zenon
<1>6. O \in SUBSET Int /\ (\A t \in O : t \in Nat /\ t < seconds) /\ t0 \in O /\ \A t \in O : t0 <= t
  BY <1>1, <1>2 DEF Foremost
<1>6a. \A t \in O : SimNow(clock, t) = shown[t]
  BY <1>1, <1>6, SimIs
<1> HIDE DEF heard, shown
<1>7. /\ n \in Nat /\ DOMAIN heard = 1..n
      /\ \A k \in 1..n : heard[k].at \in O /\ heard[k].value = v[heard[k].at]
  BY <1>5, Zenon DEF Carries
<1>8. rows = [k \in DOMAIN heard |->
            [t |-> SimNow(clock, heard[k].at) - SimNow(clock, heard[1].at), speed |-> heard[k].value,
             nvtl |-> Held(nvtl, heard[k].at), iters |-> Held(iterations, heard[k].at)]]
  BY Zenon DEF Timeline, heard
<1> HIDE DEF rows
<1>9. /\ DOMAIN rows = 1..n
      /\ \A k \in 1..n : /\ rows[k].t = SimNow(clock, heard[k].at) - SimNow(clock, heard[1].at)
                         /\ rows[k].speed = v[heard[k].at]
                         /\ rows[k].iters = Held(iterations, heard[k].at)
  BY <1>7, <1>8
<1>10. \A t : Held(iterations, t) = LastValue(iterations.sent, t)
  BY Zenon DEF Held, LastValue
<1>11. /\ series.motion = First(rows, {k \in DOMAIN rows : rows[k].speed > 0})
       /\ series.cap = First(rows, {k \in DOMAIN rows : rows[k].iters >= MAX_ITER})
  BY DEF Timeseries
<1> DEFINE M == MovingAt(O, v)
           C == CappedAt(O, iterations)
<1>12. {k \in DOMAIN rows : rows[k].speed > 0} = {k \in 1..n : heard[k].at \in M}
  BY <1>7, <1>9 DEF MovingAt
<1>13. {k \in DOMAIN rows : rows[k].iters >= MAX_ITER} = {k \in 1..n : heard[k].at \in C}
  <2>1. \A k \in 1..n : heard[k].at \in C <=> LastValue(iterations.sent, heard[k].at) >= MAX_ITER
    BY <1>7, Zenon DEF CappedAt
  <2>2. \A k \in 1..n : rows[k].iters >= MAX_ITER <=> heard[k].at \in C
    BY <1>9, <1>10, <2>1, Zenon
  <2> HIDE DEF C
  <2> QED
    BY <1>9, <2>2
<1>14. M \in SUBSET O /\ C \in SUBSET O
  BY DEF MovingAt, CappedAt
<1> HIDE DEF M, C
<1>15. \A k \in 1..n : rows[k].t = shown[heard[k].at] - shown[heard[1].at]
  <2> SUFFICES ASSUME NEW k \in 1..n PROVE rows[k].t = shown[heard[k].at] - shown[heard[1].at]
    OBVIOUS
  <2>1. 1 \in 1..n
    BY <1>7
  <2> QED
    BY <1>6a, <1>7, <1>9, <2>1
<1>15a. ASSUME NEW c \in O PROVE Dated(shown[c] - shown[t0], c, t0, first, p, z)
  <2>1. p \in Nat \ {0} /\ first \in Nat /\ z \in Nat
    BY <1>1, Zenon DEF Ticking
  <2>2. c \in Nat /\ t0 \in Nat /\ t0 <= c
    BY <1>6
  <2>3. Dated(ShownAt(c, z, first, p) - ShownAt(t0, z, first, p), c, t0, first, p, z)
    BY <2>1, <2>2, DatedIs
  <2> QED
    BY <1>6, <2>3 DEF shown
<1> DEFINE moving == {k \in 1..n : heard[k].at \in M}
           capped == {k \in 1..n : heard[k].at \in C}
<1>16. \A c \in M : Foremost(M, c) => First(rows, moving) = shown[c] - shown[t0]
  <2>1. RowIn(rows, heard, n, M, shown, t0)
    BY <1>1, <1>5, <1>6, <1>14, <1>15, FirstRow
  <2> QED
    BY <2>1, Zenon DEF RowIn
<1>17. /\ C = {} => First(rows, capped) = None
       /\ \A c \in C : Foremost(C, c) => First(rows, capped) = shown[c] - shown[t0]
  <2>1. RowIn(rows, heard, n, C, shown, t0)
    BY <1>1, <1>5, <1>6, <1>14, <1>15, FirstRow
  <2> QED
    BY <2>1, Zenon DEF RowIn
<1>18. series.motion = First(rows, moving) /\ series.cap = First(rows, capped)
  BY <1>11, <1>12, <1>13, Zenon
<1> HIDE DEF moving, capped, series
<1>19. \A c \in O : Foremost(M, c) => Dated(series.motion, c, t0, first, p, z)
  <2> SUFFICES ASSUME NEW c \in O, Foremost(M, c) PROVE Dated(series.motion, c, t0, first, p, z)
    BY Zenon
  <2>1. c \in M
    BY Zenon DEF Foremost
  <2>2. series.motion = shown[c] - shown[t0]
    BY <1>16, <1>18, <2>1
  <2> QED
    BY <1>15a, <2>2, Zenon
<1>20. \A c \in O : Foremost(C, c) => Dated(series.cap, c, t0, first, p, z)
  <2> SUFFICES ASSUME NEW c \in O, Foremost(C, c) PROVE Dated(series.cap, c, t0, first, p, z)
    BY Zenon
  <2>1. c \in C
    BY Zenon DEF Foremost
  <2>2. series.cap = shown[c] - shown[t0]
    BY <1>17, <1>18, <2>1
  <2> QED
    BY <1>15a, <2>2, Zenon
<1>21. C = {} => series.cap = None
  BY <1>17, <1>18
<1> QED
  BY <1>19, <1>20, <1>21, Zenon DEF series, rows, M, C, FindsFirst

-----------------------------------------------------------------------------
(* check_imu_velocity                                                      *)

\* Messages of a report.
IsReport(s) == \E last \in Nat : DOMAIN s = 1..last /\ Len(s) = last

\* They all say c between two times.
Says(s, from, to, c) ==
    IsReport(s) /\ \A k \in DOMAIN s : from <= s[k].at /\ s[k].at <= to => s[k].value = c

\* So does their mean.
MeansSo(mean, c) == mean.n \in Nat /\ mean.sum = c * mean.n

\* The mean of reports that are all the same.
LEMMA MeanIs ==
    ASSUME NEW s, NEW c \in Int, NEW from, NEW to, Says(s, from, to, c)
    PROVE  MeansSo(Mean(s, from, to), c)
<1>0. PICK last \in Nat : DOMAIN s = 1..last /\ Len(s) = last
  BY DEF Says, IsReport
<1> DEFINE inside == {k \in DOMAIN s : from <= s[k].at /\ s[k].at <= to}
           Loop(f) == [k \in 0..last |->
                        IF k = 0 THEN 0 ELSE f[k - 1] + IF k \in inside THEN s[k].value ELSE 0]
           sum == CHOOSE f : f = Loop(f)
           count == [k \in 0..last |-> Cardinality({j \in 1..k : j \in inside})]
           F == [k \in 0..last |-> c * count[k]]
<1>1. Mean(s, from, to).n = Cardinality(inside) /\ Mean(s, from, to).sum = sum[last]
  BY <1>0, Zenon DEF Mean
<1>2. \A k \in inside : k \in 1..last /\ s[k].value = c
  BY <1>0 DEF Says
<1>3. inside \in SUBSET (1..last)
  BY <1>0
<1> HIDE DEF inside
<1>4. ASSUME NEW k \in 0..last PROVE IsFiniteSet({j \in 1..k : j \in inside}) /\ count[k] \in Nat
  <2> DEFINE S == {j \in 1..k : j \in inside}
  <2>1. 1 \in Int /\ k \in Int
    OBVIOUS
  <2>2. IsFiniteSet(1..k)
    BY <2>1, FS_Interval, Zenon
  <2>3. S \in SUBSET (1..k) /\ count[k] = Cardinality(S)
    OBVIOUS
  <2> HIDE DEF S, count
  <2>4. IsFiniteSet(S) /\ Cardinality(S) \in Nat
    BY <2>2, <2>3, FS_Subset, FS_CardinalityType, Zenon
  <2> QED
    BY <2>3, <2>4, Zenon DEF S
<1>5. count[0] = 0
  <2>1. {j \in 1..0 : j \in inside} = {} /\ 0 \in 0..last
    OBVIOUS
  <2>2. count[0] = Cardinality({j \in 1..0 : j \in inside})
    BY <2>1
  <2> QED
    BY <2>1, <2>2, FS_EmptySet, Zenon
<1>6. ASSUME NEW k \in 1..last PROVE count[k] = count[k - 1] + IF k \in inside THEN 1 ELSE 0
  <2> DEFINE S == {j \in 1..k : j \in inside}
             P == {j \in 1..k - 1 : j \in inside}
  <2>1. k - 1 \in 0..last /\ k \in 0..last
    OBVIOUS
  <2>2. count[k] = Cardinality(S) /\ count[k - 1] = Cardinality(P)
    BY <2>1
  <2>3. IsFiniteSet(P)
    BY <1>4, <2>1
  <2>4. Cardinality(P) \in Nat
    BY <2>3, FS_CardinalityType, Zenon
  <2>5. CASE k \in inside
    <3>1. S = P \cup {k} /\ k \notin P
      BY <2>5
    <3> HIDE DEF S, P, count
    <3>2. Cardinality(S) = Cardinality(P) + 1
      BY <2>3, <3>1, FS_AddElement
    <3> QED
      BY <2>2, <2>5, <3>2
  <2>6. CASE ~(k \in inside)
    <3>1. S = P
      BY <2>6
    <3> HIDE DEF S, P, count
    <3> QED
      BY <2>2, <2>4, <2>6, <3>1
  <2> QED
    BY <2>5, <2>6
<1> HIDE DEF count
<1>7. ASSUME NEW f, f = Loop(f) PROVE f[last] = c * count[last]
  <2> DEFINE T == {k \in 0..last : f[k] = c * count[k]}
  <2>1. 0 \in T
    <3>1. f[0] = 0
      BY <1>7
    <3> QED
      BY <1>5, <3>1
  <2>2. ASSUME NEW k \in 0..last - 1, k \in T PROVE k + 1 \in T
    <3> DEFINE m == k + 1
    <3>1. m \in 1..last /\ m \in 0..last /\ m - 1 = k
      OBVIOUS
    <3>2. f[m] = f[m - 1] + IF m \in inside THEN s[m].value ELSE 0
      BY <1>7, <3>1
    <3>3. count[m] = count[m - 1] + IF m \in inside THEN 1 ELSE 0
      BY <1>6, <3>1
    <3>4. f[k] = c * count[k] /\ count[k] \in Nat
      BY <1>4, <2>2
    <3> HIDE DEF m
    <3>5. f[m] = c * count[m]
      BY <1>2, <3>1, <3>2, <3>3, <3>4
    <3> QED
      BY <3>1, <3>5 DEF m
  <2> HIDE DEF T
  <2>3. last \in T
    BY <2>1, <2>2, UpTo
  <2> QED
    BY <2>3 DEF T
<1>8. sum = Loop(sum)
  <2>1. F = Loop(F)
    <3>1. ASSUME NEW k \in 1..last
          PROVE  c * count[k] = (c * count[k - 1]) + IF k \in inside THEN s[k].value ELSE 0
      <4> DEFINE j == k - 1
                 a == count[j]
                 b == count[k]
      <4>1. j \in 0..last
        OBVIOUS
      <4>2. a \in Nat
        BY <1>4, <4>1
      <4>3. b = a + IF k \in inside THEN 1 ELSE 0
        BY <1>6
      <4> HIDE DEF a, b
      <4>4. c * b = (c * a) + IF k \in inside THEN c ELSE 0
        BY <4>2, <4>3
      <4>5. c * b = (c * a) + IF k \in inside THEN s[k].value ELSE 0
        BY <1>2, <4>4
      <4> QED
        BY <4>5, Zenon DEF a, b, j
    <3>2. \A k \in 0..last : F[k] = IF k = 0 THEN 0 ELSE F[k - 1] + IF k \in inside THEN s[k].value ELSE 0
      <4> TAKE k \in 0..last
      <4>1. CASE k = 0
        BY <1>5, <4>1
      <4>2. CASE k # 0
        <5>1. k \in 1..last /\ k - 1 \in 0..last
          BY <4>2
        <5>2. F[k] = c * count[k] /\ F[k - 1] = c * count[k - 1]
          BY <5>1
        <5> HIDE DEF F
        <5> QED
          BY <3>1, <4>2, <5>1, <5>2
      <4> QED
        BY <4>1, <4>2
    <3> QED
      BY <3>2
  <2> HIDE DEF Loop, F
  <2> QED
    BY <2>1
<1>9. sum[last] = c * count[last]
  <2> HIDE DEF Loop, sum
  <2> QED
    BY <1>7, <1>8
<1>10. count[last] = Cardinality(inside) /\ count[last] \in Nat
  <2>1. last \in 0..last
    OBVIOUS
  <2>2. {j \in 1..last : j \in inside} = inside
    BY <1>3
  <2>3. count[last] = Cardinality({j \in 1..last : j \in inside})
    BY <2>1 DEF count
  <2> QED
    BY <1>4, <2>1, <2>2, <2>3
<1> HIDE DEF sum
<1> QED
  BY <1>1, <1>9, <1>10 DEF MeansSo

\* A multiple, divided.
LEMMA MultipleDiv ==
    ASSUME NEW q \in Int, NEW y \in Nat \ {0}
    PROVE  (q * y) \div y = q
<1> DEFINE x == q * y
           d == x \div y
<1>1. x \in Int /\ d \in Int /\ y * d <= x /\ x < y * d + y
  BY DivFacts
<1>2. x = y * q /\ x \in Int
  OBVIOUS
<1> HIDE DEF x, d
<1>3. ~(d < q)
  <2> SUFFICES ASSUME d < q PROVE FALSE
    OBVIOUS
  <2>1. d + 1 <= q /\ d + 1 \in Int
    BY <1>1
  <2>2. y * (d + 1) <= y * q
    BY <2>1, Ordered
  <2>3. y * (d + 1) = (y * d) + y
    BY <1>1
  <2> QED
    BY <1>1, <1>2, <2>2, <2>3
<1>4. ~(q < d)
  <2> SUFFICES ASSUME q < d PROVE FALSE
    OBVIOUS
  <2>1. q + 1 <= d /\ q + 1 \in Int
    BY <1>1
  <2>2. y * (q + 1) <= y * d
    BY <1>1, <2>1, Ordered
  <2>3. y * (q + 1) = (y * q) + y
    OBVIOUS
  <2> QED
    BY <1>1, <1>2, <2>2, <2>3
<1>5. d = q
  BY <1>1, <1>3, <1>4
<1> QED
  BY <1>5 DEF d, x

\* The median of numbers that are all the same.
LEMMA MedianIs ==
    ASSUME NEW D \in SUBSET Int, IsFiniteSet(D), D # {}, NEW values, DOMAIN values = D, NEW q \in Int,
           \A k \in D : values[k] = q
    PROVE  Median(values) = q
<1> DEFINE n == Cardinality(D)
           order == InOrder(D)
<1>1. Ranked(values) = order
  <2>1. (\A i \in D : values[i] \in Int) /\ \A i, j \in D : i < j => values[i] <= values[j]
    OBVIOUS
  <2> QED
    BY <2>1, RankedIs
<1>2. n \in Nat /\ n # 0
  BY FS_CardinalityType, FS_EmptySet
<1>3. order \in [1..n -> D]
  BY OrderIs, Zenon DEF Listed
<1> HIDE DEF n, order
<1>4. Len(order) = n
  <2>1. Len([i \in 1..n |-> order[i]]) = n
    BY <1>2
  <2>2. order = [i \in 1..n |-> order[i]]
    BY <1>3
  <2> QED
    BY <2>1, <2>2, Zenon
<1> DEFINE low == (n + 1) \div 2
           high == n \div 2 + 1
<1>5. low \in 1..n /\ high \in 1..n
  BY <1>2
<1>6. Median(values) = (values[order[low]] + values[order[high]]) \div 2
  BY <1>1, <1>4, Zenon DEF Median
<1> HIDE DEF low, high
<1>7. order[low] \in D /\ order[high] \in D
  BY <1>3, <1>5
<1>8. values[order[low]] = q /\ values[order[high]] = q
  BY <1>7
<1>9. (q + q) \div 2 = q
  OBVIOUS
<1> QED
  BY <1>6, <1>8, <1>9

-----------------------------------------------------------------------------
(* check_imu_velocity: the scale                                           *)

\* Wherever the scale is taken, NDT saw the cart drive `pace' a tenth of a second,
\* and what was reported is c.
DrivesAs(poses, velocity, imu, pace, c) ==
    \A k \in Moving(poses, velocity, imu) :
        LET dt == poses[k + 1].at - poses[k].at
            moved == poses[k + 1].value - poses[k].value
        IN  /\ (moved = pace * dt \/ moved = -(pace * dt)) /\ moved \in Int
            /\ Says(velocity, poses[k].at, poses[k + 1].at, c)

\* The ratio of such a pair.
LEMMA RatioIs ==
    ASSUME NEW poses, NEW velocity, NEW imu, NEW pace \in Nat \ {0}, NEW c \in Int, NEW q \in Int,
           DrivesAs(poses, velocity, imu, pace, c), 100 * c = q * pace,
           NEW k \in Moving(poses, velocity, imu)
    PROVE  Ratio(poses, velocity, k) = q
<1> DEFINE a == poses[k].at
           b == poses[k + 1].at
           dt == b - a
           moved == poses[k + 1].value - poses[k].value
           far == IF moved < 0 THEN -moved ELSE moved
           mean == Mean(velocity, a, b)
           n == mean.n
<1>1. dt \in 1..4 /\ n > 0
  BY Zenon DEF Moving
<1>2. /\ (moved = pace * dt \/ moved = -(pace * dt)) /\ moved \in Int
      /\ Says(velocity, a, b, c)
  BY Zenon DEF DrivesAs
<1> HIDE DEF a, b
<1>4. n \in Nat /\ mean.sum = c * n
  <2>1. MeansSo(mean, c)
    BY <1>2, MeanIs
  <2> QED
    BY <2>1, Zenon DEF MeansSo
<1>5. Ratio(poses, velocity, k) = (100 * mean.sum * dt) \div (n * far)
  BY Zenon DEF Ratio, a, b
<1> HIDE DEF mean, moved, dt
<1>6. far = pace * dt /\ pace * dt \in Nat \ {0}
  BY <1>1, <1>2
<1> HIDE DEF far, n
<1> DEFINE u == n * dt
           y == n * far
<1>7. u \in Nat \ {0}
  BY <1>1, <1>4
<1>8. y = pace * u
  BY <1>1, <1>4, <1>6
<1>9. 100 * mean.sum * dt = (100 * c) * u
  <2>1. mean.sum = c * n
    BY <1>4
  <2>2. dt \in Int /\ n \in Int
    BY <1>1, <1>4
  <2>3. 100 * (c * n) * dt = (100 * c) * (n * dt)
    BY <2>2
  <2> QED
    BY <2>1, <2>3
<1> HIDE DEF u
<1>10. (100 * c) * u = q * (pace * u)
  <2>1. (q * pace) * u = q * (pace * u)
    BY <1>7
  <2> QED
    BY <2>1
<1>11. pace * u \in Nat \ {0}
  BY <1>7
<1> HIDE DEF y
<1>12. (q * y) \div y = q
  BY <1>8, <1>11, MultipleDiv
<1>13. 100 * mean.sum * dt = q * y
  BY <1>8, <1>9, <1>10
<1> QED
  BY <1>5, <1>12, <1>13 DEF y

\* check_imu_velocity.  Wherever the cart drove steadily by what NDT saw, and its
\* vehicle reported one speed, the script says what that is in percent of what
\* NDT saw: provided that it was given enough, and saw the cart drive long enough.
THEOREM AnyScaleIsFound ==
    ASSUME NEW poses, NEW velocity, NEW imu, NEW pace \in Nat \ {0}, NEW c \in Int, NEW q \in Int,
           IsReport(poses), DrivesAs(poses, velocity, imu, pace, c), 100 * c = q * pace,
           imu # <<>>, velocity # <<>>, Len(poses) >= 20, Cardinality(Moving(poses, velocity, imu)) > 30
    PROVE  CheckImuVelocity(poses, velocity, imu) = [exit |-> 0, scale |-> q]
<1> DEFINE D == Moving(poses, velocity, imu)
           ratios == [k \in D |-> Ratio(poses, velocity, k)]
<1>1. PICK n \in Nat : Len(poses) = n
  BY DEF IsReport
<1>2. D \in SUBSET (1..n - 1)
  BY <1>1 DEF Moving
<1>3. IsFiniteSet(D) /\ D \in SUBSET Int
  <2>1. 1 \in Int /\ n - 1 \in Int
    OBVIOUS
  <2>2. IsFiniteSet(1..n - 1)
    BY <2>1, FS_Interval, Zenon
  <2>3. 1..n - 1 \in SUBSET Int
    OBVIOUS
  <2> HIDE DEF D
  <2> QED
    BY <1>2, <2>2, <2>3, FS_Subset
<1>4. \A k \in D : Ratio(poses, velocity, k) = q
  BY RatioIs
<1>5. DOMAIN ratios = D /\ \A k \in D : ratios[k] = q
  BY <1>4
<1>6. Cardinality(D) > 30
  OBVIOUS
<1>7. D # {}
  <2> HIDE DEF D
  <2> SUFFICES ASSUME D = {} PROVE FALSE
    OBVIOUS
  <2>1. Cardinality({}) = 0
    BY FS_EmptySet
  <2> QED
    BY <1>6, <2>1
<1>8. CheckImuVelocity(poses, velocity, imu)
        = [exit |-> 0, scale |-> IF Cardinality(DOMAIN ratios) > 30 THEN Median(ratios) ELSE None]
  <2>1. ~(Len(poses) < 20)
    BY <1>1
  <2> QED
    BY <2>1, Zenon DEF CheckImuVelocity
<1> HIDE DEF D, ratios
<1>9. Median(ratios) = q
  BY <1>3, <1>5, <1>7, MedianIs
<1> QED
  BY <1>5, <1>6, <1>8, <1>9

-----------------------------------------------------------------------------
(* What the jobs of the run replay                                         *)

\* What its streams say at each time.
PoseValue == [t \in Ticks |-> IF t <= START THEN 0 ELSE 2 * (t - START)]
ClockValue == [t \in Ticks |-> EPOCH + t]
SpeedValue(speed) == [t \in Ticks |-> IF t < START THEN 0 ELSE speed]
CountValue(cap) == [t \in Ticks |-> IF t < cap THEN 5 ELSE 30]

\* A stream of the run.
LEMMA SentIs ==
    ASSUME NEW T \in SUBSET Ticks, NEW up \in Nat, NEW v
    PROVE  /\ IsStream(Sent(up, T, v), T, v) /\ IsReport(Sent(up, T, v).sent)
           /\ Carries(Sent(up, T, v).sent, Cardinality(T), T, v) /\ IsFiniteSet(T)
           /\ Sent(up, T, v).up = up /\ Sent(up, T, v).latched = FALSE
           /\ SubscribedAt(Sent(up, T, v)) = 10 * ((up + 9) \div 10)
<1> DEFINE stream == Sent(up, T, v)
<1>1. Ticks = 0..60
  BY DEF Ticks, N
<1>2. T \in SUBSET Int /\ T \in SUBSET Nat
  BY <1>1
<1>3. IsFiniteSet(T)
  <2>1. 0 \in Int /\ 60 \in Int
    OBVIOUS
  <2>2. IsFiniteSet(0..60)
    BY <2>1, FS_Interval, Zenon
  <2> QED
    BY <1>1, <2>2, FS_Subset, Zenon
<1>4. Carries(stream.sent, Cardinality(T), T, v) /\ stream.up = up /\ stream.latched = FALSE
  <2>1. Given(stream, up, T, v)
    BY <1>2, <1>3, SentCarries, Zenon
  <2> HIDE DEF stream
  <2> QED
    BY <2>1, Zenon DEF Given
<1> HIDE DEF stream
<1>5. SubscribedAt(stream) = 10 * ((up + 9) \div 10) /\ SubscribedAt(stream) \in Int
  <2>1. 10 * ((stream.up + 10 - 1) \div 10) = 10 * ((up + 9) \div 10) /\ 10 * ((up + 9) \div 10) \in Int
    BY <1>4
  <2> QED
    BY <2>1 DEF SubscribedAt, SCAN
<1>6. IsStream(stream, T, v)
  BY <1>2, <1>4, <1>5, Zenon DEF IsStream
<1>7. IsReport(stream.sent)
  <2>1. Cardinality(T) \in Nat /\ DOMAIN stream.sent = 1..Cardinality(T) /\ Len(stream.sent) = Cardinality(T)
    BY <1>4, Zenon DEF Carries
  <2> QED
    BY <2>1, Zenon DEF IsReport
<1> QED
  BY <1>3, <1>4, <1>5, <1>6, <1>7, Zenon DEF stream

\* The poses of the run.
LEMMA PosesSent ==
    ASSUME NEW up \in {0, 7, 13}, NEW hole \in {0, 3, 6}
    PROVE  /\ PoseTicks(up, hole) \in SUBSET Ticks /\ PoseTicks(up, hole) \in SUBSET Nat
           /\ \A t \in 0..60 : t \in PoseTicks(up, hole) <=> t >= up /\ ~(30 <= t /\ t <= 29 + hole)
           /\ PosesOf(up, hole) = Sent(up, PoseTicks(up, hole), PoseValue)
<1>1. Ticks = 0..60
  BY DEF Ticks, N
<1>2. PoseTicks(up, hole) \in SUBSET Ticks /\ PoseTicks(up, hole) \in SUBSET Nat
  BY <1>1 DEF PoseTicks
<1>3. \A t \in 0..60 : t \in PoseTicks(up, hole) <=> t >= up /\ ~(30 <= t /\ t <= 29 + hole)
  BY <1>1 DEF PoseTicks
<1> QED
  BY <1>2, <1>3, Zenon DEF PosesOf, PoseValue

\* The clock of the run starts to be heard at 0 or at 20, and is heard at every tick from there.
LEMMA ClockIs ==
    ASSUME NEW from \in {0, 15}, NEW p \in {1, 2}
    PROVE  LET clock == ClockFrom(from, p)
               first == Min({t \in SubscribedAt(clock)..55 : (t % p) = 0})
           IN  IsClock(clock, ClockTicks(from, p), ClockValue, EPOCH, first, p, 55) /\ first \in {0, 20}
<1> DEFINE clock == ClockFrom(from, p)
           K == ClockTicks(from, p)
           since == SubscribedAt(clock)
           S == {t \in since..55 : (t % p) = 0}
           first == Min(S)
<1>1. Ticks = 0..60
  BY DEF Ticks, N
<1>2. K \in SUBSET Ticks /\ \A t \in Int : t \in K <=> t \in 0..60 /\ t >= from /\ (t % p) = 0
  BY <1>1 DEF ClockTicks
<1>3. clock = Sent(from, K, ClockValue) /\ from \in Nat
  BY DEF ClockFrom, ClockValue
<1> HIDE DEF clock, K
<1>4. IsStream(clock, K, ClockValue) /\ since = 10 * ((from + 9) \div 10)
  BY <1>2, <1>3, SentIs
<1>5. since \in {0, 20} /\ from <= since
  BY <1>4
<1> HIDE DEF since
<1>6. first = since
  <2>1. S \in SUBSET Int /\ since \in S
    BY <1>5
  <2>2. IsFiniteSet(S)
    <3>1. since \in Int /\ 55 \in Int
      BY <1>5
    <3>2. IsFiniteSet(since..55)
      BY <3>1, FS_Interval, Zenon
    <3>3. S \in SUBSET (since..55)
      OBVIOUS
    <3> HIDE DEF S
    <3> QED
      BY <3>2, <3>3, FS_Subset, Zenon
  <2>3. Min(S) \in S /\ Min(S) <= since
    <3> HIDE DEF S
    <3>1. S # {}
      BY <2>1
    <3> QED
      BY <2>1, <2>2, <3>1, HasMin, Zenon
  <2>4. \A t \in S : t \in Int /\ since <= t
    BY <1>5
  <2> HIDE DEF S
  <2> QED
    BY <1>5, <2>3, <2>4
<1> HIDE DEF first
<1>7. HeardOf(K, clock, 55) = TicksFrom(first, 55, p)
  <2>1. HeardOf(K, clock, 55) = {t \in K : since <= t /\ t < 55}
    BY Zenon DEF HeardOf, since
  <2>2. K \in SUBSET Int
    BY <1>1, <1>2
  <2>3. {t \in K : since <= t /\ t < 55} = {c \in since..54 : (c % p) = 0}
    <3>1. \A t \in Int : t \in K /\ since <= t /\ t < 55 <=> t \in since..54 /\ (t % p) = 0
      BY <1>2, <1>5
    <3>2. \A t \in since..54 : t \in Int
      BY <1>5
    <3> DEFINE A == {t \in K : since <= t /\ t < 55}
               B == {c \in since..54 : (c % p) = 0}
    <3>3. \A t \in A : t \in B
      BY <2>2, <3>1
    <3>4. \A t \in B : t \in A
      BY <3>1, <3>2
    <3> HIDE DEF A, B
    <3>5. A = B
      <4>1. A \subseteq B /\ B \subseteq A
        BY <3>3, <3>4, Zenon
      <4> QED
        BY <4>1
    <3> QED
      BY <3>5, Zenon DEF A, B
  <2>4. TicksFrom(first, 55, p) = {c \in since..54 : (c % p) = 0}
    BY <1>6 DEF TicksFrom
  <2> QED
    BY <2>1, <2>3, <2>4
<1>8. \A c \in TicksFrom(first, 55, p) : ClockValue[c] = EPOCH + c
  <2>1. \A c \in TicksFrom(first, 55, p) : c \in Ticks
    BY <1>1, <1>5, <1>6 DEF TicksFrom
  <2> QED
    BY <2>1 DEF ClockValue
<1>9. first \in {0, 20} /\ first \in Nat /\ (first % p) = 0 /\ p \in Nat \ {0} /\ 55 \in Int /\ EPOCH \in Nat
  BY <1>5, <1>6 DEF EPOCH
<1>10. IsClock(clock, K, ClockValue, EPOCH, first, p, 55)
  BY <1>4, <1>7, <1>8, <1>9, Zenon DEF IsClock
<1> QED
  BY <1>9, <1>10, Zenon DEF clock, K, first, S, since

\* A replay of the run, and its clock.
Plays(up, hole, from, p) == up \in {0, 7, 13} /\ hole \in {0, 3, 6} /\ from \in {0, 15} /\ p \in {1, 2}

\* What is replayed is such a replay.
LEMMA ReplayIs ==
    ASSUME NEW up, NEW hole, NEW from, NEW p, Plays(up, hole, from, p)
    PROVE  \E H : IsReplay(PosesOf(up, hole), PoseTicks(up, hole), PoseValue,
                           ClockFrom(from, p), ClockTicks(from, p), ClockValue, EPOCH, p, 55, H)
<1> DEFINE pose == PosesOf(up, hole)
           T == PoseTicks(up, hole)
           clock == ClockFrom(from, p)
           K == ClockTicks(from, p)
           first == Min({t \in SubscribedAt(clock)..55 : (t % p) = 0})
           H == {t \in T : SubscribedAt(pose) <= t /\ t >= first /\ t < 55}
<1>0. up \in {0, 7, 13} /\ hole \in {0, 3, 6} /\ from \in {0, 15} /\ p \in {1, 2}
  BY DEF Plays
<1> USE <1>0
<1>1. IsClock(clock, K, ClockValue, EPOCH, first, p, 55) /\ first \in {0, 20}
  BY ClockIs
<1>2. /\ T \in SUBSET Ticks /\ T \in SUBSET Nat
      /\ \A t \in 0..60 : t \in T <=> t >= up /\ ~(30 <= t /\ t <= 29 + hole)
      /\ pose = Sent(up, T, PoseValue)
  BY PosesSent
<1> HIDE DEF pose, T, clock, K, first
<1>3. IsStream(pose, T, PoseValue) /\ SubscribedAt(pose) = 10 * ((up + 9) \div 10)
  <2>1. up \in Nat
    OBVIOUS
  <2>2. /\ IsStream(Sent(up, T, PoseValue), T, PoseValue)
        /\ SubscribedAt(Sent(up, T, PoseValue)) = 10 * ((up + 9) \div 10)
    BY <1>2, <2>1, SentIs, Zenon
  <2> QED
    BY <1>2, <2>2, Zenon
<1>4. SubscribedAt(pose) \in {0, 10, 20}
  BY <1>3
<1>5. 50 \in H /\ 51 \in H
  BY <1>1, <1>2, <1>4
<1>6. Slow(H, PoseValue)
  <2>1. \A t \in H : t \in 0..60
    BY <1>2 DEF Ticks, N
  <2>2. \A t \in 0..60 : PoseValue[t] = IF t <= 12 THEN 0 ELSE 2 * (t - 12)
    BY DEF PoseValue, Ticks, N, START
  <2> HIDE DEF H
  <2>3. \A t \in H : PoseValue[t] \in Int
    BY <2>1, <2>2
  <2>4. ASSUME NEW a \in H, NEW b \in H, a < b
        PROVE  PoseValue[b] - PoseValue[a] <= 2 * (b - a) /\ PoseValue[a] - PoseValue[b] <= 2 * (b - a)
    <3> DEFINE x == PoseValue[a]
               y == PoseValue[b]
    <3>1. /\ a \in 0..60 /\ b \in 0..60
          /\ x = (IF a <= 12 THEN 0 ELSE 2 * (a - 12)) /\ y = (IF b <= 12 THEN 0 ELSE 2 * (b - 12))
      BY <2>1, <2>2
    <3> HIDE DEF x, y
    <3> QED
      BY <2>4, <3>1 DEF x, y
  <2> QED
    BY <2>3, <2>4, Zenon DEF Slow
<1>7. \E a, b \in H : a # b
  <2> HIDE DEF H
  <2>1. 50 # 51
    OBVIOUS
  <2> QED
    BY <1>5, <2>1
<1>8. p \in {1, 2} /\ 55 \in Nat
  OBVIOUS
<1>9. IsReplay(pose, T, PoseValue, clock, K, ClockValue, EPOCH, p, 55, H)
  BY <1>1, <1>3, <1>6, <1>7, <1>8, Zenon DEF IsReplay, first, H
<1> QED
  BY <1>9, Zenon DEF pose, T, clock, K

-----------------------------------------------------------------------------
(* Watching a replay: the signals of the runs                              *)

\* Whether a matcher is at its cap at a time if that is after another.
IsCapped(iterations, t, cap) == LastValue(iterations.sent, t) >= MAX_ITER <=> t >= cap

\* A replay of the run.
InPlay(up, hole, cap) == up \in {0, 7, 13} /\ hole \in {0, 3, 6} /\ cap \in {41, 61}

\* When the matcher of the run is at its cap.
LEMMA CapIs ==
    ASSUME NEW up, NEW hole, NEW cap, InPlay(up, hole, cap), NEW t \in 0..54
    PROVE  IsCapped(Iterations(up, hole, cap), t, cap)
<1> DEFINE T == PoseTicks(up, hole)
           s == Iterations(up, hole, cap).sent
           value == LastValue(s, t)
           S == {c \in T : c <= t}
<1>0. up \in {0, 7, 13} /\ hole \in {0, 3, 6} /\ cap \in {41, 61}
  BY DEF InPlay
<1>1. /\ T \in SUBSET Ticks /\ T \in SUBSET Nat
      /\ \A c \in 0..60 : c \in T <=> c >= up /\ ~(30 <= c /\ c <= 29 + hole)
  BY <1>0, PosesSent
<1>2. Carries(s, Cardinality(T), T, CountValue(cap)) /\ IsFiniteSet(T)
  <2>1. up \in Nat
    BY <1>0
  <2>2. Iterations(up, hole, cap) = Sent(up, T, CountValue(cap))
    BY DEF Iterations, CountValue
  <2> HIDE DEF T
  <2>3. /\ Carries(Sent(up, T, CountValue(cap)).sent, Cardinality(T), T, CountValue(cap)) /\ IsFiniteSet(T)
    BY <1>1, <2>1, SentIs, Zenon
  <2> QED
    BY <2>2, <2>3, Zenon
<1> HIDE DEF T, s
<1>3. Ticks = 0..60 /\ T \in SUBSET (0..60) /\ T \in SUBSET Int
  BY <1>1 DEF Ticks, N
<1>4. \A c \in T : CountValue(cap)[c] = IF c < cap THEN 5 ELSE 30
  BY <1>3 DEF CountValue
<1>5. t \in Int
  OBVIOUS
<1>6. /\ (\A c \in T : ~(c <= t)) => value = None
      /\ \A c \in T : c <= t /\ (\A x \in T : x <= t => x <= c) => value = CountValue(cap)[c]
  BY <1>2, <1>3, <1>5, LastOf
<1>7. ASSUME \A c \in T : ~(c <= t) PROVE value >= MAX_ITER <=> t >= cap
  <2>1. value = -1
    BY <1>6, <1>7 DEF None
  <2>2. ~(t >= cap)
    <3> SUFFICES ASSUME t >= cap PROVE FALSE
      OBVIOUS
    <3>1. cap = 41
      BY <1>0, <1>5
    <3>2. t \in 0..60 /\ t >= up /\ ~(30 <= t /\ t <= 29 + hole)
      BY <1>0, <3>1
    <3>3. t \in T
      BY <1>1, <3>2, Zenon
    <3> QED
      BY <1>7, <3>3
  <2> HIDE DEF value
  <2> QED
    BY <2>1, <2>2 DEF MAX_ITER
<1>8. ASSUME NEW b \in T, b <= t PROVE value >= MAX_ITER <=> t >= cap
  <2>1. S \in SUBSET Int /\ IsFiniteSet(S) /\ S # {}
    <3>1. S \in SUBSET T /\ S \in SUBSET Int /\ b \in S
      BY <1>3, <1>8
    <3> HIDE DEF S
    <3> QED
      BY <1>2, <3>1, FS_Subset
  <2>2. Max(S) \in S /\ \A x \in S : x <= Max(S)
    <3> HIDE DEF S
    <3> QED
      BY <2>1, HasMax, Zenon
  <2> DEFINE c == Max(S)
  <2>3. c \in T /\ c <= t /\ \A x \in T : x <= t => x <= c
    BY <2>2
  <2> HIDE DEF c
  <2>4. value = IF c < cap THEN 5 ELSE 30
    BY <1>4, <1>6, <2>3
  <2>5. t >= cap => c >= cap
    <3> SUFFICES ASSUME t >= cap PROVE c >= cap
      OBVIOUS
    <3>1. cap = 41
      BY <1>0, <1>5
    <3>2. t \in 0..60 /\ t >= up /\ ~(30 <= t /\ t <= 29 + hole)
      BY <1>0, <3>1
    <3>3. t \in T
      BY <1>1, <3>2, Zenon
    <3>4. t <= c /\ c \in Int
      BY <1>3, <1>5, <2>3, <3>3
    <3> QED
      BY <3>1, <3>4
  <2>6. c \in Int /\ cap \in Int
    BY <1>0, <1>3, <2>3
  <2> HIDE DEF value
  <2> QED
    BY <1>5, <2>3, <2>4, <2>5, <2>6 DEF MAX_ITER
<1> HIDE DEF value
<1>9. value >= MAX_ITER <=> t >= cap
  BY <1>7, <1>8
<1> QED
  BY <1>9, Zenon DEF value, s, IsCapped

\* When the clock of the run is first heard.
FirstHeard(from, p) == Min({t \in from..N : (t % p) = 0})

\* It ticks from then on.
LEMMA RunTicks ==
    ASSUME NEW from \in {0, 15}, NEW p \in {1, 2}
    PROVE  Ticking(ClockFrom(from, p), EPOCH, FirstHeard(from, p), p, 55)
<1> DEFINE K == ClockTicks(from, p)
           S == {t \in from..60 : (t % p) = 0}
           first == Min(S)
           clock == ClockFrom(from, p)
<1>1. Ticks = 0..60 /\ N = 60
  BY DEF Ticks, N
<1>2. first = FirstHeard(from, p)
  BY <1>1, Zenon DEF FirstHeard
<1>3. first \in S /\ \A t \in S : first <= t
  <2>1. S \in SUBSET Int /\ 60 \in S
    OBVIOUS
  <2>2. IsFiniteSet(S)
    <3>1. from \in Int /\ 60 \in Int
      OBVIOUS
    <3>2. IsFiniteSet(from..60)
      BY <3>1, FS_Interval, Zenon
    <3>3. S \in SUBSET (from..60)
      OBVIOUS
    <3> HIDE DEF S
    <3> QED
      BY <3>2, <3>3, FS_Subset, Zenon
  <2> HIDE DEF S
  <2>3. S # {}
    BY <2>1
  <2> QED
    BY <2>1, <2>2, <2>3, HasMin, Zenon
<1>4. first \in Nat /\ (first % p) = 0
  <2> HIDE DEF first
  <2> QED
    BY <1>3
<1>5. K = TicksFrom(first, 61, p)
  <2>1. \A t \in Int : t \in K <=> t \in S
    BY <1>1 DEF ClockTicks
  <2>2. \A t \in Int : t \in S => t \in first..60 /\ (t % p) = 0
    <3> HIDE DEF first
    <3> QED
      BY <1>3, <1>4
  <2>3. \A t \in Int : t \in first..60 /\ (t % p) = 0 => t \in S
    <3> HIDE DEF first
    <3> QED
      BY <1>3, <1>4
  <2>4. K \in SUBSET Int
    BY <1>1 DEF ClockTicks
  <2> DEFINE R == {t \in first..60 : (t % p) = 0}
  <2> HIDE DEF K, S, first
  <2>5. TicksFrom(first, 61, p) = R
    BY DEF TicksFrom
  <2>6. \A t \in K : t \in R
    BY <2>1, <2>2, <2>4
  <2>7. \A t \in R : t \in K
    BY <1>4, <2>1, <2>3
  <2> HIDE DEF R
  <2>8. K \subseteq R /\ R \subseteq K
    BY <2>6, <2>7, Zenon
  <2>9. K = R
    BY <2>8
  <2> QED
    BY <2>5, <2>9, Zenon
<1>6. Carries(clock.sent, Cardinality(K), K, ClockValue)
  <2>1. clock = Sent(from, K, ClockValue) /\ from \in Nat
    BY DEF ClockFrom, ClockValue
  <2>2. K \in SUBSET Ticks
    BY DEF ClockTicks
  <2> HIDE DEF clock, K
  <2> QED
    BY <2>1, <2>2, SentIs
<1>7. \A c \in TicksFrom(first, 61, p) : ClockValue[c] = EPOCH + c
  <2>1. \A c \in K : c \in Ticks
    BY DEF ClockTicks
  <2> HIDE DEF K, first
  <2> QED
    BY <1>5, <2>1 DEF ClockValue
<1>8. EPOCH \in Nat /\ p \in Nat \ {0} /\ 61 \in Int /\ 55 <= 61
  BY DEF EPOCH
<1> HIDE DEF first, K, clock
<1>9. Carries(clock.sent, Cardinality(K), TicksFrom(first, 61, p), ClockValue)
  BY <1>5, <1>6, Zenon
<1>10. Ticking(clock, EPOCH, first, p, 55)
  <2> DEFINE last == 61
  <2>1. last \in Int /\ 55 <= last
    BY <1>8
  <2>2. /\ Carries(clock.sent, Cardinality(K), TicksFrom(first, last, p), ClockValue)
        /\ \A c \in TicksFrom(first, last, p) : ClockValue[c] = EPOCH + c
    BY <1>7, <1>9
  <2> HIDE DEF last
  <2>3. \E n, v : /\ Carries(clock.sent, n, TicksFrom(first, last, p), v)
                 /\ \A c \in TicksFrom(first, last, p) : v[c] = EPOCH + c
    BY <2>2, Zenon
  <2> QED
    BY <1>4, <1>8, <2>1, <2>3, Zenon DEF Ticking
<1> QED
  BY <1>2, <1>10, Zenon DEF clock

\* What ndt_timeseries says of the run.
SeriesHolds(series, cap, from, p) ==
    /\ Dated(series.motion, START, 0, FirstHeard(from, p), p, EPOCH)
    /\ IF cap < N THEN Dated(series.cap, cap, 0, FirstHeard(from, p), p, EPOCH) ELSE series.cap = None

\* It says that.
LEMMA SeriesIs ==
    ASSUME NEW up, NEW hole, NEW cap, InPlay(up, hole, cap), NEW from \in {0, 15}, NEW p \in {1, 2}, NEW nvtl
    PROVE  SeriesHolds(Timeseries(Timeline(Odometry, nvtl, Iterations(up, hole, cap), ClockFrom(from, p), 55)),
                       cap, from, p)
<1> DEFINE O == 0..54
           iterations == Iterations(up, hole, cap)
           v == SpeedValue(2)
           clock == ClockFrom(from, p)
           first == FirstHeard(from, p)
           series == Timeseries(Timeline(Odometry, nvtl, iterations, clock, 55))
<1>0. cap \in {41, 61}
  BY Zenon DEF InPlay
<1>1. IsCapture(Odometry, Ticks, v, clock, EPOCH, first, p, 55, O, 0)
  <2>1. Odometry = Sent(0, Ticks, v)
    BY DEF Odometry, Reported, SpeedValue
  <2>2. Ticks \in SUBSET Ticks /\ 0 \in Nat /\ 55 \in Int
    OBVIOUS
  <2> HIDE DEF v
  <2>3. IsStream(Sent(0, Ticks, v), Ticks, v)
    BY <2>2, SentIs, Zenon
  <2>4. O = {t \in Ticks : 0 <= t /\ t < 55}
    BY DEF Ticks, N
  <2>5. Foremost(O, 0)
    BY DEF Foremost
  <2>6. Ticking(clock, EPOCH, first, p, 55)
    BY RunTicks, Zenon
  <2> HIDE DEF O, clock, first
  <2> QED
    BY <2>1, <2>2, <2>3, <2>4, <2>5, <2>6, Zenon DEF IsCapture
<1> HIDE DEF iterations, v, series, O, clock, first
<1>2. /\ \A c \in O : Foremost(MovingAt(O, v), c) => Dated(series.motion, c, 0, first, p, EPOCH)
      /\ \A c \in O : Foremost(CappedAt(O, iterations), c) => Dated(series.cap, c, 0, first, p, EPOCH)
      /\ CappedAt(O, iterations) = {} => series.cap = None
  <2>0. FindsFirst(Timeseries(Timeline(Odometry, nvtl, iterations, clock, 55)), iterations, O, v,
                   EPOCH, first, p, 0)
    BY <1>1, AnyMotionIsFound
  <2>1. FindsFirst(series, iterations, O, v, EPOCH, first, p, 0)
    BY <2>0, Zenon DEF series
  <2> QED
    BY <2>1, Zenon DEF FindsFirst
<1>3. Foremost(MovingAt(O, v), 12) /\ 12 \in O
  <2>1. \A t \in O : v[t] = IF t < 12 THEN 0 ELSE 2
    BY DEF v, SpeedValue, O, Ticks, N, START
  <2>2. \A t \in O : t \in Int
    BY DEF O
  <2>3. 12 \in O
    BY DEF O
  <2> QED
    BY <2>1, <2>2, <2>3 DEF MovingAt, Foremost
<1>4. \A t \in O : t \in CappedAt(O, iterations) <=> t >= cap
  <2> SUFFICES ASSUME NEW t \in O PROVE t \in CappedAt(O, iterations) <=> t >= cap
    OBVIOUS
  <2>1. t \in 0..54
    BY DEF O
  <2>2. IsCapped(iterations, t, cap)
    BY <2>1, CapIs, Zenon DEF iterations
  <2> QED
    BY <2>2, Zenon DEF CappedAt, IsCapped
<1>5. CappedAt(O, iterations) \subseteq O
  BY DEF CappedAt
<1> DEFINE C == CappedAt(O, iterations)
<1> HIDE DEF C
<1>6. C \subseteq O /\ \A t \in O : t \in C <=> t >= cap
  BY <1>4, <1>5 DEF C
<1>7. Dated(series.motion, START, 0, first, p, EPOCH)
  <2>1. START = 12
    BY DEF START
  <2>2. Dated(series.motion, 12, 0, first, p, EPOCH)
    BY <1>2, <1>3, Zenon
  <2> QED
    BY <2>1, <2>2, Zenon
<1>8. CASE cap = 41
  <2>1. 41 \in O
    BY DEF O
  <2>2. Foremost(C, 41)
    BY <1>6, <1>8, <2>1 DEF Foremost
  <2>3. Dated(series.cap, 41, 0, first, p, EPOCH)
    BY <1>2, <2>1, <2>2, Zenon DEF C
  <2>4. 41 < N
    BY DEF N
  <2>5. SeriesHolds(series, 41, from, p)
    BY <1>7, <2>3, <2>4, Zenon DEF SeriesHolds, first
  <2> QED
    BY <1>8, <2>5, Zenon DEF series, iterations, clock
<1>9. CASE cap = 61
  <2>1. \A t \in O : ~(t >= cap)
    BY <1>9 DEF O
  <2>2. C = {}
    BY <1>6, <2>1
  <2>3. series.cap = None
    BY <1>2, <2>2, Zenon DEF C
  <2>4. ~(61 < N)
    BY DEF N
  <2>5. SeriesHolds(series, 61, from, p)
    BY <1>7, <2>3, <2>4, Zenon DEF SeriesHolds, first
  <2> QED
    BY <1>9, <2>5, Zenon DEF series, iterations, clock
<1> QED
  BY <1>0, <1>8, <1>9, Zenon

\* The board of the run is recorded once.
LEMMA BoardIs ==
    ASSUME NEW clock
    PROVE  Len(Recorded(Board, clock, 55)) = 1
<1> DEFINE v == [t \in Ticks |-> 0]
           stream == Sent(2, {2}, v)
<1>1. {2} \in SUBSET Ticks /\ 2 \in Nat
  BY DEF Ticks, N
<1> HIDE DEF v
<1>2. /\ Carries(stream.sent, Cardinality({2}), {2}, v)
      /\ SubscribedAt(stream) = 10 * ((2 + 9) \div 10) /\ stream.up = 2
  BY <1>1, SentIs
<1>3. Board = [stream EXCEPT !.latched = TRUE]
  BY Zenon DEF Board, v
<1>4. stream = [up |-> stream.up, reliable |-> stream.reliable, latched |-> stream.latched, sent |-> stream.sent]
  BY DEF Sent
<1> HIDE DEF stream
<1>5. Board.latched = TRUE /\ Board.sent = stream.sent /\ Board.up = stream.up
  BY <1>3, <1>4
<1>6. SubscribedAt(Board) = 10
  <2>1. SubscribedAt(Board) = SubscribedAt(stream)
    BY <1>5 DEF SubscribedAt
  <2> QED
    BY <1>2, <2>1
<1>7. Cardinality({2}) = 1
  BY FS_Singleton
<1>8. SentBefore(Board, 1, {2}, v)
  <2>1. Carries(Board.sent, 1, {2}, v)
    BY <1>2, <1>5, <1>7
  <2>2. 1 # 0 /\ \A t \in {2} : t \in Int /\ t < SubscribedAt(Board)
    BY <1>6
  <2> QED
    BY <2>1, <2>2, Zenon DEF SentBefore
<1>9. SubscribedAt(Board) \in Int /\ 55 \in Int /\ SubscribedAt(Board) < 55
  BY <1>6
<1>10. IsLatched(Board, 55)
  BY <1>5, <1>8, <1>9, Zenon DEF IsLatched
<1> QED
  BY <1>10, LatchedIsRecorded

-----------------------------------------------------------------------------
(* Watching a replay: the pairs of poses of the runs                       *)

\* A mean of some messages.
LEMMA MeanOfSome ==
    ASSUME NEW s, IsReport(s), NEW from, NEW to, NEW k \in DOMAIN s, from <= s[k].at, s[k].at <= to
    PROVE  Mean(s, from, to).n > 0
<1> DEFINE inside == {j \in DOMAIN s : from <= s[j].at /\ s[j].at <= to}
<1>1. PICK last \in Nat : DOMAIN s = 1..last
  BY DEF IsReport
<1>2. Mean(s, from, to).n = Cardinality(inside)
  BY Zenon DEF Mean
<1>3. k \in inside /\ inside \in SUBSET (1..last)
  BY <1>1
<1> HIDE DEF inside
<1>4. IsFiniteSet(inside)
  <2>1. 1 \in Int /\ last \in Int
    OBVIOUS
  <2>2. IsFiniteSet(1..last)
    BY <2>1, FS_Interval, Zenon
  <2> QED
    BY <1>3, <2>2, FS_Subset, Zenon
<1>5. Cardinality(inside) \in Nat /\ (Cardinality(inside) = 0 <=> inside = {})
  BY <1>4, FS_CardinalityType, FS_EmptySet, Zenon
<1> QED
  BY <1>2, <1>3, <1>5

\* The poses s of the run, n of them, and what the vehicle reports.
Driven(s, n, T, w, c) ==
    /\ Carries(s, n, T, PoseValue) /\ IsReport(s)
    /\ T \in SUBSET (0..60)
    /\ \A t \in 13..29 : t \in T
    /\ \A t \in 36..60 : t \in T
    /\ \A t \in T : t < 12 => 12 \in T
    /\ Carries(w, 61, 0..60, SpeedValue(c)) /\ IsReport(w) /\ c \in {2, 3, 4}

\* What the run replays is so.
LEMMA DrivenIs ==
    ASSUME NEW up \in {0, 7, 13}, NEW hole \in {0, 3, 6}, NEW c \in {2, 3, 4}
    PROVE  \E n, T : Driven(PosesOf(up, hole).sent, n, T, Reported(c).sent, c)
<1> DEFINE T == PoseTicks(up, hole)
           s == PosesOf(up, hole).sent
           w == Reported(c).sent
<1>1. /\ T \in SUBSET Ticks
      /\ \A t \in 0..60 : t \in T <=> t >= up /\ ~(30 <= t /\ t <= 29 + hole)
      /\ PosesOf(up, hole) = Sent(up, T, PoseValue)
  BY PosesSent
<1>2. up \in Nat /\ 0 \in Nat /\ Ticks \in SUBSET Ticks /\ Ticks = 0..60
  BY DEF Ticks, N
<1> HIDE DEF T
<1>3. Carries(s, Cardinality(T), T, PoseValue) /\ IsReport(s)
  <2>1. /\ Carries(Sent(up, T, PoseValue).sent, Cardinality(T), T, PoseValue)
        /\ IsReport(Sent(up, T, PoseValue).sent)
    BY <1>1, <1>2, SentIs, Zenon
  <2> QED
    BY <1>1, <2>1, Zenon
<1>4. Carries(w, Cardinality(Ticks), Ticks, SpeedValue(c)) /\ IsReport(w)
  <2>1. Reported(c) = Sent(0, Ticks, SpeedValue(c))
    BY DEF Reported, SpeedValue
  <2>2. /\ Carries(Sent(0, Ticks, SpeedValue(c)).sent, Cardinality(Ticks), Ticks, SpeedValue(c))
        /\ IsReport(Sent(0, Ticks, SpeedValue(c)).sent)
    BY <1>2, SentIs, Zenon
  <2> QED
    BY <2>1, <2>2, Zenon
<1>5. Cardinality(Ticks) = 61
  <2>1. 0 \in Int /\ 60 \in Int
    OBVIOUS
  <2>2. Cardinality(0..60) = IF 0 > 60 THEN 0 ELSE 60 - 0 + 1
    BY <2>1, FS_Interval, Zenon
  <2> QED
    BY <1>2, <2>2
<1> HIDE DEF s, w
<1>6. T \in SUBSET (0..60)
  BY <1>1, <1>2
<1>7. \A t \in 13..29 : t \in T
  <2> SUFFICES ASSUME NEW t \in 13..29 PROVE t \in T
    OBVIOUS
  <2>1. t \in 0..60 /\ t >= up /\ ~(30 <= t /\ t <= 29 + hole)
    OBVIOUS
  <2> QED
    BY <1>1, <2>1, Zenon
<1>8. \A t \in 36..60 : t \in T
  <2> SUFFICES ASSUME NEW t \in 36..60 PROVE t \in T
    OBVIOUS
  <2>1. t \in 0..60 /\ t >= up /\ ~(30 <= t /\ t <= 29 + hole)
    OBVIOUS
  <2> QED
    BY <1>1, <2>1, Zenon
<1>9. \A t \in T : t < 12 => 12 \in T
  <2> SUFFICES ASSUME NEW t \in T, t < 12 PROVE 12 \in T
    OBVIOUS
  <2>1. t \in 0..60
    BY <1>6
  <2>2. t >= up
    BY <1>1, <2>1, Zenon
  <2>3. 12 \in 0..60 /\ 12 >= up /\ ~(30 <= 12 /\ 12 <= 29 + hole)
    BY <2>1, <2>2
  <2> QED
    BY <1>1, <2>3, Zenon
<1>10. Driven(s, Cardinality(T), T, w, c)
  BY <1>2, <1>3, <1>4, <1>5, <1>6, <1>7, <1>8, <1>9 DEF Driven
<1> QED
  BY <1>10, Zenon DEF s, w

\* Wherever the scale is taken, the cart drove.
LEMMA DrivenDrives ==
    ASSUME NEW s, NEW n, NEW T, NEW w, NEW c, Driven(s, n, T, w, c)
    PROVE  DrivesAs(s, w, w, 2, c)
<1>1. /\ Carries(s, n, T, PoseValue) /\ T \in SUBSET (0..60)
      /\ \A t \in T : t < 12 => 12 \in T
      /\ Carries(w, 61, 0..60, SpeedValue(c)) /\ IsReport(w) /\ c \in {2, 3, 4}
  BY Zenon DEF Driven
<1>2. /\ n \in Nat /\ Len(s) = n /\ \A k \in 1..n : s[k].at \in T /\ s[k].value = PoseValue[s[k].at]
      /\ \A i, j \in 1..n : i < j => s[i].at < s[j].at
      /\ \A t \in T : \E k \in 1..n : s[k].at = t
  BY <1>1, Zenon DEF Carries
<1>3. \A k \in DOMAIN w : w[k].at \in 0..60 /\ w[k].value = SpeedValue(c)[w[k].at]
  BY <1>1, Zenon DEF Carries
<1>4. ASSUME NEW k \in Moving(s, w, w)
      PROVE  LET dt == s[k + 1].at - s[k].at
                 moved == s[k + 1].value - s[k].value
             IN  /\ (moved = 2 * dt \/ moved = -(2 * dt)) /\ moved \in Int
                 /\ Says(w, s[k].at, s[k + 1].at, c)
  <2> DEFINE a == s[k].at
             b == s[k + 1].at
             moved == s[k + 1].value - s[k].value
  <2>1. /\ k \in 1..n - 1 /\ b - a \in 1..4 /\ (moved > b - a \/ moved < -(b - a))
    BY <1>2, Zenon DEF Moving
  <2>2. k \in 1..n /\ k + 1 \in 1..n /\ k < k + 1
    BY <1>2, <2>1
  <2>3. a \in T /\ b \in T /\ moved = PoseValue[b] - PoseValue[a]
    BY <1>2, <2>2
  <2>4. \A t \in T : ~(a < t /\ t < b)
    <3> SUFFICES ASSUME NEW t \in T, a < t, t < b PROVE FALSE
      OBVIOUS
    <3>1. PICK i \in 1..n : s[i].at = t
      BY <1>2, Zenon
    <3>2. i < k \/ i = k \/ i = k + 1 \/ k + 1 < i
      BY <2>2
    <3> HIDE DEF a, b
    <3>3. t \in Int /\ a \in Int /\ b \in Int
      <4>1. \A x \in T : x \in Int
        BY <1>1
      <4> QED
        BY <2>3, <4>1
    <3>4. i < k => s[i].at < s[k].at
      BY <1>2, <2>2, Zenon
    <3>5. k + 1 < i => s[k + 1].at < s[i].at
      BY <1>2, <2>2, Zenon
    <3> QED
      BY <3>1, <3>2, <3>3, <3>4, <3>5 DEF a, b
  <2> HIDE DEF a, b, moved
  <2>5. a \in 0..60 /\ b \in 0..60 /\ a < b
    BY <1>1, <2>1, <2>3
  <2>6. /\ PoseValue[a] = IF a <= 12 THEN 0 ELSE 2 * (a - 12)
        /\ PoseValue[b] = IF b <= 12 THEN 0 ELSE 2 * (b - 12)
    BY <2>5 DEF PoseValue, Ticks, N, START
  <2>7. a >= 12
    <3> SUFFICES ASSUME a < 12 PROVE FALSE
      BY <2>5
    <3>1. 12 \in T
      BY <1>1, <2>3
    <3>2. b <= 12
      BY <2>4, <2>5, <3>1
    <3> QED
      BY <2>1, <2>3, <2>5, <2>6, <3>2
  <2>8. moved = 2 * (b - a) /\ moved \in Int
    BY <2>3, <2>5, <2>6, <2>7
  <2>9. Says(w, a, b, c)
    <3> SUFFICES ASSUME NEW j \in DOMAIN w, a <= w[j].at, w[j].at <= b PROVE w[j].value = c
      BY <1>1 DEF Says
    <3> DEFINE t == w[j].at
    <3>1. t \in 0..60 /\ w[j].value = SpeedValue(c)[t] /\ a <= t
      BY <1>3
    <3> HIDE DEF t
    <3>2. t >= 12
      BY <2>5, <2>7, <3>1
    <3> QED
      BY <3>1, <3>2 DEF SpeedValue, Ticks, N, START
  <2> QED
    BY <2>8, <2>9, Zenon DEF a, b, moved
<1> QED
  BY <1>4, Zenon DEF DrivesAs

\* The cart of the run was seen to drive from a pose at y to the next.
LEMMA DrivenMoves ==
    ASSUME NEW s, NEW n, NEW T, NEW w, NEW c, Driven(s, n, T, w, c),
           NEW y \in (13..28) \cup (36..59)
    PROVE  \E k \in Moving(s, w, w) : s[k].at = y
<1>1. /\ Carries(s, n, T, PoseValue) /\ T \in SUBSET (0..60)
      /\ (\A t \in 13..29 : t \in T) /\ (\A t \in 36..60 : t \in T)
      /\ Carries(w, 61, 0..60, SpeedValue(c)) /\ IsReport(w) /\ c \in {2, 3, 4}
  BY Zenon DEF Driven
<1>2. /\ n \in Nat /\ Len(s) = n /\ \A k \in 1..n : s[k].at \in T /\ s[k].value = PoseValue[s[k].at]
      /\ \A i, j \in 1..n : i < j => s[i].at < s[j].at
      /\ \A t \in T : \E k \in 1..n : s[k].at = t
  BY <1>1, Zenon DEF Carries
<1>3. /\ \A k \in DOMAIN w : w[k].at \in 0..60 /\ w[k].value = SpeedValue(c)[w[k].at]
      /\ \A t \in 0..60 : \E k \in DOMAIN w : w[k].at = t
  BY <1>1, Zenon DEF Carries
<1> DEFINE z == y + 1
<1>4. y \in T /\ z \in T /\ y \in 13..59 /\ z \in 14..60
  <2>1. y \in 13..28 \/ y \in 36..59
    OBVIOUS
  <2> HIDE DEF z
  <2>2. CASE y \in 13..28
    <3>1. y \in 13..29 /\ z \in 13..29 /\ y \in 13..59 /\ z \in 14..60
      BY <2>2 DEF z
    <3> QED
      BY <1>1, <3>1, Zenon
  <2>3. CASE y \in 36..59
    <3>1. y \in 36..60 /\ z \in 36..60 /\ y \in 13..59 /\ z \in 14..60
      BY <2>3 DEF z
    <3> QED
      BY <1>1, <3>1, Zenon
  <2> QED
    BY <2>1, <2>2, <2>3
<1>5. y \in Int /\ z = y + 1
  BY <1>4
<1> HIDE DEF z
<1>6. PICK k \in 1..n : s[k].at = y
  BY <1>2, <1>4, Zenon
<1>7. PICK i \in 1..n : s[i].at = z
  BY <1>2, <1>4, Zenon
<1>8. k < i
  <2>1. i < k => s[i].at < s[k].at
    BY <1>2
  <2>2. i # k
    BY <1>5, <1>6, <1>7
  <2> QED
    BY <1>5, <1>6, <1>7, <2>1, <2>2
<1>9. i = k + 1
  <2> SUFFICES ASSUME k + 1 < i PROVE FALSE
    BY <1>8
  <2>0. k \in 1..n /\ i \in 1..n /\ n \in Int
    BY <1>2
  <2>1. k + 1 \in 1..n /\ k < k + 1
    BY <2>0
  <2>2. s[k].at < s[k + 1].at /\ s[k + 1].at < s[i].at /\ s[k + 1].at \in T
    BY <1>2, <2>1
  <2>3. \A t \in 0..60 : t \in Int
    OBVIOUS
  <2>4. s[k + 1].at \in Int
    BY <1>1, <2>2, <2>3, Zenon
  <2> QED
    BY <1>5, <1>6, <1>7, <2>2, <2>4
<1>10. k \in 1..n - 1 /\ s[k + 1].at = z /\ s[k + 1].value - s[k].value = 2
  <2>1. k \in 1..n - 1 /\ s[k + 1].at = z
    BY <1>2, <1>7, <1>8, <1>9
  <2>2. PoseValue[y] = 2 * (y - 12) /\ PoseValue[z] = 2 * (z - 12)
    BY <1>4, <1>5 DEF PoseValue, Ticks, N, START
  <2>3. s[k + 1].value = PoseValue[z] /\ s[k].value = PoseValue[y]
    BY <1>2, <1>6, <1>7, <1>9
  <2>4. PoseValue[z] - PoseValue[y] = 2
    BY <1>5, <2>2
  <2> QED
    BY <2>1, <2>3, <2>4
<1> DEFINE mean == Mean(w, y, z)
<1>11. mean.n \in Nat /\ mean.sum = c * mean.n /\ mean.n > 0
  <2>1. Says(w, y, z, c)
    <3> SUFFICES ASSUME NEW j \in DOMAIN w, y <= w[j].at, w[j].at <= z PROVE w[j].value = c
      BY <1>1 DEF Says
    <3> DEFINE t == w[j].at
    <3>1. t \in 0..60 /\ w[j].value = SpeedValue(c)[t] /\ y <= t
      BY <1>3
    <3> HIDE DEF t
    <3>2. t >= 12
      BY <1>4, <3>1
    <3> QED
      BY <3>1, <3>2 DEF SpeedValue, Ticks, N, START
  <2>2. MeansSo(mean, c)
    BY <1>1, <2>1, MeanIs
  <2>3. PICK j \in DOMAIN w : w[j].at = y
    BY <1>3, <1>4
  <2>4. y <= w[j].at /\ w[j].at <= z
    BY <1>5, <2>3
  <2>5. mean.n > 0
    BY <1>1, <2>4, MeanOfSome
  <2> QED
    BY <2>2, <2>5, Zenon DEF MeansSo
<1> HIDE DEF mean
<1>12. mean.sum > mean.n
  BY <1>1, <1>11
<1>13. k \in Moving(s, w, w)
  <2> DEFINE dt == s[k + 1].at - s[k].at
             moved == s[k + 1].value - s[k].value
  <2>1. dt \in 1..4 /\ moved > dt
    BY <1>5, <1>6, <1>10
  <2>2. Mean(w, s[k].at, s[k + 1].at) = mean
    BY <1>6, <1>10 DEF mean
  <2>3. k \in 1..Len(s) - 1
    BY <1>2, <1>10
  <2> HIDE DEF dt, moved
  <2>4. /\ dt \in 1..4 /\ mean.n > 0 /\ mean.sum > mean.n
        /\ moved > dt \/ moved < -dt
    BY <1>11, <1>12, <2>1
  <2> QED
    BY <2>2, <2>3, <2>4, Zenon DEF Moving, dt, moved
<1> QED
  BY <1>6, <1>13, Zenon

\* It was seen so often enough.
LEMMA DrivenLong ==
    ASSUME NEW s, NEW n, NEW T, NEW w, NEW c, Driven(s, n, T, w, c)
    PROVE  Cardinality(Moving(s, w, w)) > 30 /\ Len(s) >= 20
<1> DEFINE M == Moving(s, w, w)
           at == [i \in 1..31 |-> IF i <= 16 THEN 12 + i ELSE 19 + i]
           f == [i \in 1..31 |-> CHOOSE k \in M : s[k].at = at[i]]
<1>1. Len(s) = n /\ n \in Nat
  BY Zenon DEF Driven, Carries
<1>2. M \in SUBSET (1..n - 1) /\ IsFiniteSet(1..n - 1) /\ Cardinality(1..n - 1) \in {0, n - 1}
  <2>1. 1 \in Int /\ n - 1 \in Int
    BY <1>1
  <2>2. IsFiniteSet(1..n - 1) /\ Cardinality(1..n - 1) = IF 1 > n - 1 THEN 0 ELSE n - 1 - 1 + 1
    BY <2>1, FS_Interval, Zenon
  <2>3. M \in SUBSET (1..n - 1)
    BY <1>1 DEF Moving
  <2> QED
    BY <1>1, <2>2, <2>3
<1> HIDE DEF M
<1>3. ASSUME NEW i \in 1..31 PROVE f[i] \in M /\ s[f[i]].at = at[i]
  <2>1. at[i] \in (13..28) \cup (36..59)
    OBVIOUS
  <2> HIDE DEF at
  <2>2. \E k \in M : s[k].at = at[i]
    BY <2>1, DrivenMoves, Zenon DEF M
  <2>3. f[i] = CHOOSE k \in M : s[k].at = at[i]
    OBVIOUS
  <2> HIDE DEF f
  <2> QED
    BY <2>2, <2>3, Zenon
<1>4. f \in [1..31 -> M]
  <2>1. \A i \in 1..31 : f[i] \in M
    BY <1>3
  <2> QED
    BY <2>1
<1>5. ASSUME NEW i \in 1..31, NEW j \in 1..31, f[i] = f[j] PROVE i = j
  <2>1. at[i] = at[j]
    BY <1>3, <1>5, Zenon
  <2> QED
    BY <2>1
<1> HIDE DEF f, at
<1>6. f \in Injection(1..31, M)
  BY <1>4, <1>5, Zenon DEF Injection, IsInjective
<1>7. IsFiniteSet(M) /\ Cardinality(M) <= Cardinality(1..n - 1)
  BY <1>2, FS_Subset, Zenon
<1>8. Cardinality(1..31) <= Cardinality(M)
  BY <1>6, <1>7, FS_Injection, Zenon
<1>9. Cardinality(1..31) = 31
  <2>1. 1 \in Int /\ 31 \in Int
    OBVIOUS
  <2>2. Cardinality(1..31) = IF 1 > 31 THEN 0 ELSE 31 - 1 + 1
    BY <2>1, FS_Interval, Zenon
  <2> QED
    BY <2>2
<1>10. Cardinality(M) \in Nat
  BY <1>7, FS_CardinalityType, Zenon
<1>11. Cardinality(M) > 30 /\ n >= 20
  BY <1>1, <1>2, <1>7, <1>8, <1>9, <1>10
<1> QED
  BY <1>1, <1>11 DEF M

\* What check_imu_velocity says of the run.
LEMMA ScaleIs ==
    ASSUME NEW up \in {0, 7, 13}, NEW hole \in {0, 3, 6}, NEW c \in {2, 3, 4}
    PROVE  LET found == CheckImuVelocity(PosesOf(up, hole).sent, Reported(c).sent, Reported(c).sent)
           IN  found.exit = 0 /\ found.scale = 50 * c
<1> DEFINE s == PosesOf(up, hole).sent
           w == Reported(c).sent
<1>1. PICK n, T : Driven(s, n, T, w, c)
  BY DrivenIs
<1> HIDE DEF s, w
<1>2. DrivesAs(s, w, w, 2, c) /\ Cardinality(Moving(s, w, w)) > 30 /\ Len(s) >= 20
  BY <1>1, DrivenDrives, DrivenLong, Zenon
<1>3. IsReport(s) /\ Carries(w, 61, 0..60, SpeedValue(c))
  BY <1>1, Zenon DEF Driven
<1>4. w # <<>>
  <2>1. DOMAIN w = 1..61
    BY <1>3, Zenon DEF Carries
  <2>2. 1 \in 1..61
    OBVIOUS
  <2>3. 1 \in DOMAIN w
    BY <2>1, <2>2
  <2> QED
    BY <2>3
<1> DEFINE q == 50 * c
<1>5. c \in Int /\ q \in Int /\ 100 * c = q * 2 /\ 2 \in Nat \ {0}
  OBVIOUS
<1> HIDE DEF q
<1>6. CheckImuVelocity(s, w, w) = [exit |-> 0, scale |-> q]
  BY <1>2, <1>3, <1>4, <1>5, AnyScaleIsFound
<1> QED
  BY <1>6 DEF s, w, q

-----------------------------------------------------------------------------
(* wait_for_message and check_ndt_activated                                *)

\* What wait_for_message says is what it should, and the next report agrees.
HeardIf(wait, active, up, timeout) ==
    /\ (wait = "heard") = (up < timeout)
    /\ wait = "heard" => active = 0

\* check_ndt_activated: when a pose has come, NDT is active in one of the
\* reports of the next half second.
LEMMA ActiveIs ==
    ASSUME NEW up \in {0, 7, 13}, NEW timeout \in {5, 8, 20}, up < timeout
    PROVE  CheckNdtActivated(Statuses(up), timeout + 5) = 0
<1> DEFINE s == Statuses(up)
<1>1. \E k \in 1..12 : 5 * k >= up /\ 5 * k < timeout + 5
  <2>1. CASE up = 0
    BY <2>1
  <2>2. CASE up = 7
    <3>1. 2 \in 1..12 /\ 5 * 2 >= up /\ 5 * 2 < timeout + 5
      BY <2>2
    <3> QED
      BY <3>1
  <2>3. CASE up = 13
    <3>1. 3 \in 1..12 /\ 5 * 3 >= up /\ 5 * 3 < timeout + 5
      BY <2>3
    <3> QED
      BY <3>1
  <2> QED
    BY <2>1, <2>2, <2>3
<1>2. PICK k \in 1..12 : 5 * k >= up /\ 5 * k < timeout + 5
  BY <1>1
<1>3. DOMAIN s = 1..12 /\ s[k] = [at |-> 5 * k, value |-> [key \in {"scan_matching_status"} |->
                                   IF 5 * k >= up THEN "true" ELSE "false"]]
  BY DEF Statuses
<1>4. s[k].at = 5 * k /\ s[k].value = [key \in {"scan_matching_status"} |-> "true"]
  BY <1>2, <1>3
<1> HIDE DEF s
<1>5. /\ k \in DOMAIN s /\ s[k].at < timeout + 5
      /\ "scan_matching_status" \in STATUS_KEYS \cap DOMAIN s[k].value
      /\ s[k].value["scan_matching_status"] = "true"
  BY <1>2, <1>3, <1>4 DEF STATUS_KEYS
<1> QED
  BY <1>5, Zenon DEF CheckNdtActivated, s

\* Who waits in the run, and for what.
Waits(up, hole, timeout) == up \in {0, 7, 13} /\ hole \in {0, 3, 6} /\ timeout \in {5, 8, 20}

\* wait_for_message: a pose is heard if NDT gives one before the time is up.
LEMMA WaitIs ==
    ASSUME NEW up, NEW hole, NEW timeout, Waits(up, hole, timeout)
    PROVE  HeardIf(WaitForMessage(PosesOf(up, hole),
                                  [timeout |-> timeout, reliable |-> FALSE, latched |-> FALSE]),
                   CheckNdtActivated(Statuses(up), timeout + 5), up, timeout)
<1> DEFINE pose == PosesOf(up, hole)
           T == PoseTicks(up, hole)
           args == [timeout |-> timeout, reliable |-> FALSE, latched |-> FALSE]
           got == Got(pose, FALSE, up, timeout)
           wait == WaitForMessage(pose, args)
<1>0. up \in {0, 7, 13} /\ hole \in {0, 3, 6} /\ timeout \in {5, 8, 20}
  BY DEF Waits
<1> USE <1>0
<1>1. /\ T \in SUBSET Ticks
      /\ \A t \in 0..60 : t \in T <=> t >= up /\ ~(30 <= t /\ t <= 29 + hole)
      /\ pose = Sent(up, T, PoseValue)
  BY PosesSent
<1> HIDE DEF pose, T
<1>2. Carries(pose.sent, Cardinality(T), T, PoseValue) /\ pose.up = up /\ pose.latched = FALSE
  <2>1. up \in Nat
    OBVIOUS
  <2>2. T \in SUBSET Ticks
    BY <1>1, Zenon
  <2>3. Carries(Sent(up, T, PoseValue).sent, Cardinality(T), T, PoseValue)
    BY <2>1, <2>2, SentIs, Zenon
  <2>4. Sent(up, T, PoseValue).up = up /\ Sent(up, T, PoseValue).latched = FALSE
    BY DEF Sent
  <2> QED
    BY <1>1, <2>3, <2>4, Zenon
<1>3. args.timeout = timeout /\ args.reliable = FALSE /\ args.latched = FALSE
  OBVIOUS
<1> HIDE DEF args
<1>4. wait = IF up >= timeout THEN "not advertised" ELSE IF got # <<>> THEN "heard" ELSE "no message"
  BY <1>2, <1>3, Zenon DEF WaitForMessage
<1> HIDE DEF wait, got
<1>5. up \in Int /\ timeout \in Int
  OBVIOUS
<1>6. CASE up >= timeout
  <2>1. ~(up < timeout)
    BY <1>5, <1>6
  <2>2. wait = "not advertised"
    BY <1>4, <1>6, Zenon
  <2>3. "heard" # "not advertised"
    OBVIOUS
  <2>4. wait # "heard"
    BY <2>2, <2>3, Zenon
  <2>5. HeardIf(wait, CheckNdtActivated(Statuses(up), timeout + 5), up, timeout)
    <3>1. (wait = "heard") = (up < timeout)
      BY <2>1, <2>4
    <3> QED
      BY <2>4, <3>1, Zenon DEF HeardIf
  <2> QED
    BY <2>5, Zenon DEF wait, args, pose
<1>7. CASE up < timeout
  <2>1. up \in T /\ T \in SUBSET Int
    <3>1. up \in 0..60 /\ up >= up /\ ~(30 <= up /\ up <= 29 + hole)
      OBVIOUS
    <3>2. up \in T
      BY <1>1, <3>1, Zenon
    <3> QED
      BY <1>1, <3>2 DEF Ticks, N
  <2> DEFINE inside == {t \in T : up <= t /\ t < timeout}
  <2>2. PICK m : Carries(got, m, inside, PoseValue)
    BY <1>2, <1>5, <2>1, GotCarries, Zenon DEF got
  <2>3. up \in inside
    BY <1>5, <1>7, <2>1
  <2> HIDE DEF inside
  <2>4. Len(got) = m /\ \E k \in 1..m : got[k].at = up
    BY <2>2, <2>3, Zenon DEF Carries
  <2>5. got # <<>>
    BY <2>4
  <2>6. wait = "heard"
    <3>1. ~(up >= timeout)
      BY <1>5, <1>7
    <3> QED
      BY <1>4, <2>5, <3>1, Zenon
  <2>7. CheckNdtActivated(Statuses(up), timeout + 5) = 0
    BY <1>7, ActiveIs, Zenon
  <2>8. HeardIf(wait, CheckNdtActivated(Statuses(up), timeout + 5), up, timeout)
    BY <1>7, <2>6, <2>7, Zenon DEF HeardIf
  <2> QED
    BY <2>8, Zenon DEF wait, args, pose
<1> QED
  BY <1>5, <1>6, <1>7

-----------------------------------------------------------------------------
(* Watching a replay: the runs                                             *)

\* What a job asks of the scripts that watch a replay.
Replayed(j, up, hole, from) ==
    /\ up \in {0, 7, 13} /\ hole \in {0, 3, 6} /\ from \in {0, 15}
    /\ j.period \in {1, 2} /\ j.reported \in {2, 3, 4} /\ j.cap \in {41, 61}
    /\ j.timeout \in {5, 8, 20} /\ j.seconds = 55 /\ j.up = up
    /\ j.pose = PosesOf(up, hole) /\ j.clock = ClockFrom(from, j.period)
    /\ j.odometry = Odometry /\ j.velocity = Reported(j.reported)
    /\ j.iterations = Iterations(up, hole, j.cap)
    /\ j.board = Board /\ j.reports = Statuses(up)

\* What a replay job asks for.
ReplayJob == job.tool = "replay" => \E up, hole, from : Replayed(job, up, hole, from)

\* The jobs ask for such a replay.
LEMMA ReplayJobs == JobReplay => job.tool = "replay" /\ ReplayJob
<1> SUFFICES ASSUME JobReplay PROVE job.tool = "replay" /\ ReplayJob
  OBVIOUS
<1> DEFINE j(up, hole, from, period, reported, cap, timeout) ==
        [tool |-> "replay", up |-> up, period |-> period, reported |-> reported, cap |-> cap,
         timeout |-> timeout, seconds |-> 55, pose |-> PosesOf(up, hole),
         clock |-> ClockFrom(from, period), odometry |-> Odometry, velocity |-> Reported(reported),
         nvtl |-> Likelihood(up, hole), iterations |-> Iterations(up, hole, cap),
         board |-> Board, reports |-> Statuses(up)]
<1>1. \E up \in {0, 7, 13}, hole \in {0, 3, 6}, from \in {0, 15}, period \in {1, 2},
         reported \in {2, 3, 4}, cap \in {41, N + 1}, timeout \in {5, 8, 20} :
            job = j(up, hole, from, period, reported, cap, timeout)
  BY Zenon DEF JobReplay
<1>2. N + 1 = 61
  BY DEF N
<1> HIDE DEF j
<1>3. PICK up \in {0, 7, 13} : \E hole \in {0, 3, 6}, from \in {0, 15}, period \in {1, 2},
         reported \in {2, 3, 4}, cap \in {41, N + 1}, timeout \in {5, 8, 20} :
            job = j(up, hole, from, period, reported, cap, timeout)
  BY <1>1, Zenon
<1>4. PICK hole \in {0, 3, 6} : \E from \in {0, 15}, period \in {1, 2},
         reported \in {2, 3, 4}, cap \in {41, N + 1}, timeout \in {5, 8, 20} :
            job = j(up, hole, from, period, reported, cap, timeout)
  BY <1>3, Zenon
<1>5. PICK from \in {0, 15} : \E period \in {1, 2},
         reported \in {2, 3, 4}, cap \in {41, N + 1}, timeout \in {5, 8, 20} :
            job = j(up, hole, from, period, reported, cap, timeout)
  BY <1>4, Zenon
<1>6. PICK period \in {1, 2} : \E reported \in {2, 3, 4}, cap \in {41, N + 1}, timeout \in {5, 8, 20} :
            job = j(up, hole, from, period, reported, cap, timeout)
  BY <1>5, Zenon
<1>7. PICK reported \in {2, 3, 4} : \E cap \in {41, N + 1}, timeout \in {5, 8, 20} :
            job = j(up, hole, from, period, reported, cap, timeout)
  BY <1>6, Zenon
<1>8. PICK cap \in {41, N + 1} : \E timeout \in {5, 8, 20} :
            job = j(up, hole, from, period, reported, cap, timeout)
  BY <1>7, Zenon
<1>9. PICK timeout \in {5, 8, 20} : job = j(up, hole, from, period, reported, cap, timeout)
  BY <1>8, Zenon
<1>10. /\ job.tool = "replay" /\ job.up = up /\ job.period = period /\ job.reported = reported
       /\ job.cap = cap /\ job.timeout = timeout /\ job.seconds = 55
       /\ job.pose = PosesOf(up, hole) /\ job.clock = ClockFrom(from, period)
       /\ job.odometry = Odometry /\ job.velocity = Reported(reported)
       /\ job.iterations = Iterations(up, hole, cap) /\ job.board = Board
       /\ job.reports = Statuses(up)
  BY <1>9 DEF j
<1>11. cap \in {41, 61}
  BY <1>2
<1>12. Replayed(job, up, hole, from)
  BY <1>10, <1>11, Zenon DEF Replayed
<1> QED
  BY <1>10, <1>12, Zenon DEF ReplayJob

\* What the scripts find in such a replay.
LEMMA ReplayFound ==
    ASSUME NEW j, NEW up, NEW hole, NEW from, Replayed(j, up, hole, from)
    PROVE  LET o == ReplayResult(j)
           IN  /\ LoopMeasured(j.pose, j.clock, j.period, j.seconds, o.loop)
               /\ o.loop.boards = 1
               /\ SeriesHolds(o.series, j.cap, from, j.period)
               /\ o.scale.exit = 0 /\ o.scale.scale = 50 * j.reported
               /\ HeardIf(o.wait, o.active, up, j.timeout)
<1>1. /\ up \in {0, 7, 13} /\ hole \in {0, 3, 6} /\ from \in {0, 15}
      /\ j.period \in {1, 2} /\ j.reported \in {2, 3, 4} /\ j.cap \in {41, 61}
      /\ j.timeout \in {5, 8, 20} /\ j.seconds = 55 /\ j.up = up
      /\ j.pose = PosesOf(up, hole) /\ j.clock = ClockFrom(from, j.period)
      /\ j.odometry = Odometry /\ j.velocity = Reported(j.reported)
      /\ j.iterations = Iterations(up, hole, j.cap)
      /\ j.board = Board /\ j.reports = Statuses(up)
  BY Zenon DEF Replayed
<1> DEFINE o == ReplayResult(j)
           pose == Recorded(j.pose, j.clock, j.seconds)
           nvtl == Recorded(j.nvtl, j.clock, j.seconds)
           iterations == Recorded(j.iterations, j.clock, j.seconds)
           board == Recorded(j.board, j.clock, j.seconds)
           loop == LoopReport(pose, nvtl, iterations, board)
           series == Timeseries(Timeline(j.odometry, j.nvtl, j.iterations, j.clock, j.seconds))
           scale == CheckImuVelocity(j.pose.sent, j.velocity.sent, j.velocity.sent)
           wait == WaitForMessage(j.pose, [timeout |-> j.timeout, reliable |-> FALSE, latched |-> FALSE])
           active == CheckNdtActivated(j.reports, j.timeout + 5)
<1>2. o = [loop |-> loop, series |-> series, scale |-> scale, wait |-> wait, active |-> active]
  BY Zenon DEF ReplayResult
<1> HIDE DEF o, loop, series, scale, wait, active, pose, nvtl, iterations, board
<1>3. o.loop = loop /\ o.series = series /\ o.scale = scale /\ o.wait = wait /\ o.active = active
  BY <1>2
<1>4. LoopMeasured(j.pose, j.clock, j.period, j.seconds, loop)
  <2> DEFINE p == j.period
  <2>1. p \in {1, 2}
    BY <1>1, Zenon
  <2>2. loop = LoopReport(Recorded(PosesOf(up, hole), ClockFrom(from, p), 55), nvtl, iterations, board)
    BY <1>1, Zenon DEF loop, pose
  <2> HIDE DEF p
  <2>3. PICK H : IsReplay(PosesOf(up, hole), PoseTicks(up, hole), PoseValue,
                          ClockFrom(from, p), ClockTicks(from, p), ClockValue, EPOCH, p, 55, H)
    <3>1. Plays(up, hole, from, p)
      BY <1>1, <2>1, Zenon DEF Plays
    <3> QED
      BY <3>1, ReplayIs, Zenon
  <2>4. LoopMeasured(PosesOf(up, hole), ClockFrom(from, p), p, 55, loop)
    BY <2>2, <2>3, AnyLoopIsMeasured, Zenon
  <2> QED
    BY <1>1, <2>4, Zenon DEF p
<1>5. loop.boards = 1
  <2>1. board = Recorded(Board, j.clock, 55)
    BY <1>1, Zenon DEF board
  <2>2. Len(board) = 1
    BY <2>1, BoardIs, Zenon
  <2>3. loop.boards = Len(board)
    BY DEF loop, LoopReport
  <2> QED
    BY <2>2, <2>3, Zenon
<1>6. SeriesHolds(series, j.cap, from, j.period)
  <2> DEFINE cap == j.cap
             likely == j.nvtl
             p == j.period
  <2>1. cap \in {41, 61} /\ p \in {1, 2} /\ from \in {0, 15}
    BY <1>1, Zenon
  <2>2. series = Timeseries(Timeline(Odometry, likely, Iterations(up, hole, cap), ClockFrom(from, p), 55))
    BY <1>1, Zenon DEF series
  <2> HIDE DEF cap, likely, p
  <2>3. InPlay(up, hole, cap)
    BY <1>1, <2>1, Zenon DEF InPlay
  <2>4. SeriesHolds(Timeseries(Timeline(Odometry, likely, Iterations(up, hole, cap), ClockFrom(from, p), 55)),
                    cap, from, p)
    BY <2>1, <2>3, SeriesIs
  <2> QED
    BY <2>2, <2>4, Zenon DEF cap, p
<1>7. scale.exit = 0 /\ scale.scale = 50 * j.reported
  <2> DEFINE c == j.reported
  <2>1. c \in {2, 3, 4}
    BY <1>1, Zenon
  <2>2. scale = CheckImuVelocity(PosesOf(up, hole).sent, Reported(c).sent, Reported(c).sent)
    BY <1>1, Zenon DEF scale
  <2> HIDE DEF c
  <2>3. LET found == CheckImuVelocity(PosesOf(up, hole).sent, Reported(c).sent, Reported(c).sent)
        IN  found.exit = 0 /\ found.scale = 50 * c
    BY <1>1, <2>1, ScaleIs
  <2> QED
    BY <2>2, <2>3, Zenon DEF c
<1>8. HeardIf(wait, active, up, j.timeout)
  <2> DEFINE timeout == j.timeout
  <2>1. timeout \in {5, 8, 20}
    BY <1>1, Zenon
  <2>2. /\ wait = WaitForMessage(PosesOf(up, hole), [timeout |-> timeout, reliable |-> FALSE, latched |-> FALSE])
        /\ active = CheckNdtActivated(Statuses(up), timeout + 5)
    BY <1>1, Zenon DEF wait, active
  <2> HIDE DEF timeout
  <2>3. HeardIf(WaitForMessage(PosesOf(up, hole),
                               [timeout |-> timeout, reliable |-> FALSE, latched |-> FALSE]),
                CheckNdtActivated(Statuses(up), timeout + 5), up, timeout)
    <3>1. Waits(up, hole, timeout)
      BY <1>1, <2>1, Zenon DEF Waits
    <3> QED
      BY <3>1, WaitIs, Zenon
  <2> QED
    BY <2>2, <2>3, Zenon DEF timeout
<1> QED
  BY <1>3, <1>4, <1>5, <1>6, <1>7, <1>8, Zenon DEF o

\* wait_for_message, check_ndt_activated, indoor_loop_report, ndt_timeseries and
\* check_imu_velocity: in the run each finds of a replay what was so, where
\* ndt_timeseries has its times by a clock that may be heard only after the cart
\* moved.
THEOREM ReplayInRun == Spec => []ReplayIsMeasured
<1> DEFINE Inv == ReplayJob /\ Ran("replay", ReplayResult(job))
<1>1. Init => Inv
  BY JobsOfOthers, JobsProved, ReplayJobs DEF Init, Ran, ReplayJob
<1>2. Inv /\ [Next]_vars => Inv'
  BY JobStays, RunsOnce DEF ReplayJob
<1>3. Inv => ReplayIsMeasured
  <2> SUFFICES ASSUME Inv, Did("replay")
               PROVE  LET first == Min({t \in job.clock.up..N : (t % job.period) = 0})
                      IN  /\ LoopMeasured(job.pose, job.clock, job.period, job.seconds, out.loop)
                          /\ out.loop.boards = 1
                          /\ Dated(out.series.motion, START, 0, first, job.period, EPOCH)
                          /\ IF job.cap < N THEN Dated(out.series.cap, job.cap, 0, first, job.period, EPOCH)
                             ELSE out.series.cap = None
                          /\ out.scale.exit = 0 /\ out.scale.scale = 50 * job.reported
                          /\ (out.wait = "heard") = (job.up < job.timeout)
                          /\ out.wait = "heard" => out.active = 0
    BY Zenon DEF ReplayIsMeasured
  <2>1. out = ReplayResult(job)
    BY DEF Did, Ran
  <2>2. PICK up, hole, from : Replayed(job, up, hole, from)
    BY DEF Did, ReplayJob
  <2>3. job.up = up
    BY <2>2, Zenon DEF Replayed
  <2>4. /\ LoopMeasured(job.pose, job.clock, job.period, job.seconds, out.loop)
        /\ out.loop.boards = 1
        /\ SeriesHolds(out.series, job.cap, from, job.period)
        /\ out.scale.exit = 0 /\ out.scale.scale = 50 * job.reported
        /\ HeardIf(out.wait, out.active, up, job.timeout)
    BY <2>1, <2>2, ReplayFound, Zenon
  <2>5. job.clock = ClockFrom(from, job.period)
    BY <2>2, Zenon DEF Replayed
  <2>6. job.clock.up = from
    BY <2>5 DEF ClockFrom, Sent
  <2> DEFINE first == Min({t \in job.clock.up..N : (t % job.period) = 0})
  <2>7. first = FirstHeard(from, job.period)
    BY <2>6, Zenon DEF FirstHeard
  <2> HIDE DEF first
  <2>8. /\ Dated(out.series.motion, START, 0, first, job.period, EPOCH)
        /\ IF job.cap < N THEN Dated(out.series.cap, job.cap, 0, first, job.period, EPOCH)
           ELSE out.series.cap = None
    BY <2>4, <2>7, Zenon DEF SeriesHolds
  <2>9. /\ LoopMeasured(job.pose, job.clock, job.period, job.seconds, out.loop)
        /\ out.loop.boards = 1
        /\ out.scale.exit = 0 /\ out.scale.scale = 50 * job.reported
        /\ (out.wait = "heard") = (job.up < job.timeout)
        /\ out.wait = "heard" => out.active = 0
    BY <2>3, <2>4, Zenon DEF HeardIf
  <2> QED
    BY <2>8, <2>9, Zenon DEF first
<1> QED
  BY <1>1, <1>2, <1>3, PTL DEF Spec
=============================================================================

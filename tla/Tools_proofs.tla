---------------------------- MODULE Tools_proofs ----------------------------
(***************************************************************************)
(* What is proved of the scripts that MCTools runs.  First, for every      *)
(* input, what a script promises (the theorems Any...), then that the runs *)
(* of MCTools have it (the theorems ...InRun): a job asks for such an      *)
(* input, a script runs once, and nothing changes its result.              *)
(*                                                                         *)
(* The scripts are loops and recursions over data.  UpTo is the induction  *)
(* that all of them use; HasMax and HasMin are about the largest and the   *)
(* smallest element; IterationExists is about the values of a loop.        *)
(*                                                                         *)
(* The last part is about twin_go, which runs among MCTools as the only    *)
(* script with a partner.                                                  *)
(***************************************************************************)
EXTENDS MCTools, FiniteSetTheorems, SequenceTheorems, TLAPS

-----------------------------------------------------------------------------
(* Induction over data.                                                    *)

\* Induction up to a number, from the pigeonhole theorem: the library's
\* induction theorems take an operator and cannot be used.
LEMMA UpTo ==
    ASSUME NEW n \in Nat, NEW T, 0 \in T, \A k \in 0..n - 1 : k \in T => k + 1 \in T
    PROVE  n \in T
<1> SUFFICES ASSUME n \notin T PROVE FALSE
  OBVIOUS
<1> DEFINE S == {k \in 0..n : k \in T}
           next == [k \in S |-> k + 1]
<1>1. IsFiniteSet(S) /\ 0 \in S
  <2>1. IsFiniteSet(0..n)
    BY FS_Interval
  <2> QED
    BY <2>1, FS_Subset
<1>2. IsFiniteSet(S \ {0}) /\ Cardinality(S \ {0}) = Cardinality(S) - 1 /\ Cardinality(S) \in Nat
  <2> HIDE DEF S
  <2> QED
    BY <1>1, FS_RemoveElement, FS_CardinalityType
<1>3. next \in [S -> S \ {0}]
  OBVIOUS
<1>4. \A x, y \in S : next[x] = next[y] => x = y
  OBVIOUS
<1> QED
  <2> HIDE DEF S, next
  <2> QED
    BY <1>1, <1>2, <1>3, <1>4, FS_PigeonHole

\* The largest and the smallest element of a finite set of numbers.
LEMMA HasMax ==
    ASSUME NEW S \in SUBSET Int, IsFiniteSet(S), S # {}
    PROVE  Max(S) \in S /\ \A x \in S : x <= Max(S)
<1> DEFINE T == {m \in Nat : \A R \in SUBSET Int :
                    IsFiniteSet(R) /\ Cardinality(R) = m + 1 => \E x \in R : \A y \in R : x >= y}
<1>1. 0 \in T
  <2> SUFFICES ASSUME NEW R \in SUBSET Int, IsFiniteSet(R), Cardinality(R) = 1
               PROVE  \E x \in R : \A y \in R : x >= y
    OBVIOUS
  <2>1. PICK x : R = {x}
    BY FS_Singleton
  <2> QED
    BY <2>1
<1>2. ASSUME NEW m \in Nat, m \in T PROVE m + 1 \in T
  <2> SUFFICES ASSUME NEW R \in SUBSET Int, IsFiniteSet(R), Cardinality(R) = m + 2
               PROVE  \E x \in R : \A y \in R : x >= y
    OBVIOUS
  <2>1. PICK z \in R : TRUE
    <3>1. Cardinality(R) # 0
      OBVIOUS
    <3>2. R # {}
      BY <3>1, FS_EmptySet
    <3> QED
      BY <3>2
  <2>2. IsFiniteSet(R \ {z}) /\ Cardinality(R \ {z}) = m + 1
    BY FS_RemoveElement
  <2>3. PICK x \in R \ {z} : \A y \in R \ {z} : x >= y
    BY <1>2, <2>2
  <2>4. CASE x >= z
    BY <2>3, <2>4
  <2>5. CASE ~(x >= z)
    <3>1. \A y \in R : z >= y
      BY <2>3, <2>5
    <3> QED
      BY <3>1
  <2> QED
    BY <2>4, <2>5
<1>3. Cardinality(S) \in Nat \ {0}
  BY FS_CardinalityType, FS_EmptySet
<1>4. Cardinality(S) - 1 \in T
  <2> HIDE DEF T
  <2> QED
    BY <1>1, <1>2, <1>3, UpTo
<1>5. \E x \in S : \A y \in S : x >= y
  BY <1>3, <1>4
<1> QED
  BY <1>5 DEF Max

\* The smallest element is the largest of the negated.
LEMMA HasMin ==
    ASSUME NEW S \in SUBSET Int, IsFiniteSet(S), S # {}
    PROVE  Min(S) \in S /\ \A x \in S : Min(S) <= x
<1> DEFINE R == {-x : x \in S}
<1>1. IsFiniteSet(R)
  <2> DEFINE f == [x \in S |-> -x]
  <2>1. f \in Surjection(S, R)
    BY DEF Surjection
  <2> QED
    BY <2>1, FS_Surjection
<1>2. Max(R) \in R /\ \A x \in R : x <= Max(R)
  <2>1. R \in SUBSET Int /\ R # {}
    OBVIOUS
  <2> HIDE DEF R
  <2> QED
    BY <1>1, <2>1, HasMax
<1>3. PICK s \in S : Max(R) = -s
  BY <1>2
<1>4. \A x \in S : s <= x
  <2> SUFFICES ASSUME NEW x \in S PROVE s <= x
    OBVIOUS
  <2>1. -x \in R
    OBVIOUS
  <2>2. -x <= -s
    BY <1>2, <1>3, <2>1
  <2> QED
    BY <2>2
<1> QED
  BY <1>4 DEF Min

-----------------------------------------------------------------------------
(* Recursive functions: the iterates of a step exist.                      *)

\* f holds the values of an iteration from s0 with the step G.
Iterated(f, m, s0, G) == f[0] = s0 /\ \A k \in 1..m : f[k] = G[<<k, f[k - 1]>>]

\* Every step has an iteration of every length.
LEMMA IterationExists ==
    ASSUME NEW S, NEW s0 \in S, NEW n \in Nat, NEW G \in [(1..n) \X S -> S]
    PROVE  \E f \in [0..n -> S] : Iterated(f, n, s0, G)
<1> DEFINE T == {m \in 0..n : \E f \in [0..m -> S] : Iterated(f, m, s0, G)}
<1>1. 0 \in T
  <2>1. [k \in 0..0 |-> s0] \in [0..0 -> S] /\ Iterated([k \in 0..0 |-> s0], 0, s0, G)
    BY DEF Iterated
  <2> QED
    BY <2>1
<1>2. ASSUME NEW p \in 0..n - 1, p \in T PROVE p + 1 \in T
  <2>1. PICK g \in [0..p -> S] : Iterated(g, p, s0, G)
    BY <1>2
  <2> DEFINE m == p + 1
             f == [k \in 0..m |-> IF k = m THEN G[<<m, g[p]>>] ELSE g[k]]
  <2>2. G[<<m, g[p]>>] \in S
    BY <2>1
  <2>3. f \in [0..m -> S]
    BY <2>1, <2>2
  <2>4. f[0] = s0
    BY <2>1 DEF Iterated
  <2>5. ASSUME NEW k \in 1..m PROVE f[k] = G[<<k, f[k - 1]>>]
    <3>1. CASE k = m
      <4>1. f[m] = G[<<m, g[p]>>] /\ f[m - 1] = g[p]
        OBVIOUS
      <4> QED
        BY <4>1, <3>1
    <3>2. CASE k # m
      <4>1. k \in 1..p /\ k - 1 \in 0..p /\ k \in 0..m /\ k - 1 \in 0..m /\ k - 1 # m
        BY <3>2
      <4>2. g[k] = G[<<k, g[k - 1]>>]
        BY <4>1, <2>1 DEF Iterated
      <4> QED
        BY <4>1, <4>2, <3>2
    <3> QED
      BY <3>1, <3>2
  <2>6. Iterated(f, m, s0, G)
    BY <2>4, <2>5 DEF Iterated
  <2> QED
    BY <2>3, <2>6
<1>3. n \in T
  <2> HIDE DEF T
  <2> QED
    BY <1>1, <1>2, UpTo
<1> QED
  BY <1>3
-----------------------------------------------------------------------------
(* diag_inject                                                             *)

\* The faults are applied by the timer's calls one after the other.
LEMMA AppliedSteps ==
    ASSUME NEW args, NEW n \in Nat, NEW clock, Len(clock) = n
    PROVE  /\ Applied(args, clock)[0] <=> args.at <= 0
           /\ \A k \in 1..n : Applied(args, clock)[k]
                                <=> Active(Applied(args, clock)[k - 1], args, clock[k])
<1> DEFINE Looped(f) == [k \in 0..n |-> IF k = 0 THEN args.at <= 0
                                       ELSE Active(f[k - 1], args, clock[k])]
           G == [kb \in (1..n) \X BOOLEAN |-> Active(kb[2], args, clock[kb[1]])]
<1>1. Applied(args, clock) = CHOOSE f : f = Looped(f)
  BY DEF Applied
<1>2. PICK f \in [0..n -> BOOLEAN] : Iterated(f, n, args.at <= 0, G)
  <2>1. \A b \in BOOLEAN : \A now : Active(b, args, now) \in BOOLEAN
    BY DEF Active
  <2>2. G \in [(1..n) \X BOOLEAN -> BOOLEAN]
    BY <2>1
  <2>3. (args.at <= 0) \in BOOLEAN
    OBVIOUS
  <2> HIDE DEF G
  <2> QED
    BY <2>2, <2>3, IterationExists, Zenon
<1>3. f = Looped(f)
  <2>1. ASSUME NEW k \in 1..n PROVE f[k] = Active(f[k - 1], args, clock[k])
    <3>1. <<k, f[k - 1]>> \in (1..n) \X BOOLEAN
      OBVIOUS
    <3>2. f[k] = G[<<k, f[k - 1]>>]
      BY <1>2 DEF Iterated
    <3> QED
      BY <3>1, <3>2, Zenon
  <2>2. f[0] = (args.at <= 0)
    BY <1>2 DEF Iterated
  <2> QED
    BY <2>1, <2>2
<1>4. Applied(args, clock) = Looped(Applied(args, clock))
  <2> HIDE DEF Looped
  <2> QED
    BY <1>1, <1>3
<1> DEFINE app == Applied(args, clock)
<1>5. app[0] <=> args.at <= 0
  <2>1. Looped(app)[0] = IF 0 = 0 THEN args.at <= 0 ELSE Active(app[0 - 1], args, clock[0])
    OBVIOUS
  <2> QED
    BY <1>4, <2>1, Zenon
<1>6. ASSUME NEW k \in 1..n PROVE app[k] <=> Active(app[k - 1], args, clock[k])
  <2>1. k # 0 /\ k \in 0..n
    OBVIOUS
  <2>2. Looped(app)[k] = IF k = 0 THEN args.at <= 0 ELSE Active(app[k - 1], args, clock[k])
    BY <2>1, Zenon
  <2> QED
    BY <1>4, <2>1, <2>2, Zenon
<1> QED
  BY <1>5, <1>6

\* What is wanted of a leaf is what the last pattern that names it asks for.
LEMMA WantedIsAsked ==
    ASSUME NEW leaves, NEW faults \in Seq([hits : SUBSET leaves, level : Words]), NEW leaf
    PROVE  Wanted(faults, leaf) = AskedLevel(faults, leaf)
<1> DEFINE by == {k \in DOMAIN faults : leaf \in faults[k].hits}
<1>1. CASE by = {}
  BY <1>1 DEF Wanted, AskedLevel
<1>2. CASE by # {}
  <2>1. by \in SUBSET Int /\ IsFiniteSet(by)
    <3>1. DOMAIN faults = 1..Len(faults) /\ Len(faults) \in Nat
      OBVIOUS
    <3>2. IsFiniteSet(1..Len(faults)) /\ by \in SUBSET (1..Len(faults))
      BY <3>1, FS_Interval
    <3> QED
      BY <3>2, FS_Subset
  <2>2. Max(by) \in by /\ \A k \in by : k <= Max(by)
    <3> HIDE DEF by
    <3> QED
      BY <1>2, <2>1, HasMax
  <2>3. (CHOOSE k \in by : \A j \in by : j <= k) = Max(by)
    <3> DEFINE last == CHOOSE k \in by : \A j \in by : j <= k
    <3>1. last \in by /\ \A j \in by : j <= last
      <4> HIDE DEF by
      <4> QED
        BY <2>2
    <3> HIDE DEF by, last
    <3>2. last <= Max(by) /\ Max(by) <= last /\ last \in Int /\ Max(by) \in Int
      BY <2>1, <2>2, <3>1
    <3> QED
      BY <3>2 DEF last
  <2>4. Wanted(faults, leaf) = faults[CHOOSE k \in by : \A j \in by : j <= k].level
    BY <1>2 DEF Wanted
  <2>5. AskedLevel(faults, leaf) = faults[Max(by)].level
    BY <1>2 DEF AskedLevel
  <2> HIDE DEF by
  <2> QED
    BY <2>3, <2>4, <2>5
<1> QED
  BY <1>1, <1>2

\* A reading that has come to one of the times of the drill.
Decides(args, clock, j) ==
    clock[j] >= args.at \/ (args.clear_at # Never /\ clock[j] >= args.clear_at)

\* The last of them.
LEMMA DecisiveIs ==
    ASSUME NEW args, NEW clock, NEW k \in Nat
    PROVE  /\ Decisive(args, clock, k) \in 0..k
           /\ Decisive(args, clock, k) # 0 => Decides(args, clock, Decisive(args, clock, k))
           /\ \A j \in 1..k : Decides(args, clock, j) => j <= Decisive(args, clock, k)
<1> DEFINE S == {0} \cup {j \in 1..k : Decides(args, clock, j)}
<1>1. Decisive(args, clock, k) = Max(S)
  BY Zenon DEF Decisive, Decides
<1>2. S \in SUBSET Int /\ S # {} /\ S \in SUBSET (0..k)
  OBVIOUS
<1>3. IsFiniteSet(S)
  <2>1. 0 \in Int /\ k \in Int
    OBVIOUS
  <2>2. IsFiniteSet(0..k)
    BY <2>1, FS_Interval, Zenon
  <2> HIDE DEF S
  <2> QED
    BY <1>2, <2>2, FS_Subset, Zenon
<1>4. \A x \in S : x # 0 => Decides(args, clock, x)
  OBVIOUS
<1>5. \A j \in 1..k : Decides(args, clock, j) => j \in S
  OBVIOUS
<1> HIDE DEF S
<1>6. Max(S) \in S /\ \A x \in S : x <= Max(S)
  BY <1>2, <1>3, HasMax, Zenon
<1> QED
  BY <1>1, <1>2, <1>4, <1>5, <1>6

\* The faults are applied where the last of those readings says so.
LEMMA AppliedIsOn ==
    ASSUME NEW args, args.at \in Int, args.clear_at \in Int, NEW clock \in Seq(Int), NEW k \in 0..Len(clock)
    PROVE  Applied(args, clock)[k] <=> OnAt(args, clock, k)
<1> DEFINE n == Len(clock)
           on(m) == OnAt(args, clock, m)
           last(m) == Decisive(args, clock, m)
           app == Applied(args, clock)
           T == {m \in 0..n : app[m] <=> on(m)}
<1>1. n \in Nat /\ \A m \in 1..n : clock[m] \in Int
  OBVIOUS
<1>2. /\ app[0] <=> args.at <= 0
      /\ \A m \in 1..n : app[m] <=> Active(app[m - 1], args, clock[m])
  BY <1>1, AppliedSteps
<1>3. \A m : on(m) <=> IF last(m) = 0 THEN args.at <= 0
                      ELSE ~(args.clear_at # Never /\ clock[last(m)] >= args.clear_at)
  BY Zenon DEF OnAt
<1>4. \A m \in Nat : /\ last(m) \in 0..m /\ (last(m) # 0 => Decides(args, clock, last(m)))
                     /\ \A j \in 1..m : Decides(args, clock, j) => j <= last(m)
  BY DecisiveIs, Zenon
<1> HIDE DEF on, last, app
<1>5. 0 \in T
  <2>1. last(0) = 0
    BY <1>4
  <2> QED
    BY <1>1, <1>2, <1>3, <2>1
<1>6. ASSUME NEW m \in 0..k - 1, m \in T PROVE m + 1 \in T
  <2>1. m + 1 \in 1..n /\ m \in Nat /\ m + 1 \in Nat /\ m + 1 \in 0..n
    OBVIOUS
  <2>2. app[m + 1] <=> Active(app[m], args, clock[m + 1])
    BY <1>2, <2>1
  <2>3. app[m] <=> on(m)
    BY <1>6
  <2>4. clock[m + 1] \in Int
    BY <1>1, <2>1
  <2>5. CASE Decides(args, clock, m + 1)
    <3>1. last(m + 1) = m + 1
      <4>1. last(m + 1) \in 0..m + 1 /\ m + 1 <= last(m + 1)
        BY <1>4, <2>1, <2>5
      <4> QED
        BY <2>1, <4>1
    <3>2. on(m + 1) <=> ~(args.clear_at # Never /\ clock[m + 1] >= args.clear_at)
      BY <1>3, <2>1, <3>1
    <3>3. app[m + 1] <=> ~(args.clear_at # Never /\ clock[m + 1] >= args.clear_at)
      BY <2>2, <2>4, <2>5 DEF Active, Decides
    <3> QED
      BY <2>1, <3>2, <3>3
  <2>6. CASE ~Decides(args, clock, m + 1)
    <3>1. last(m + 1) = last(m)
      <4> DEFINE a == last(m)
                 b == last(m + 1)
      <4>1. /\ a \in 0..m /\ (a # 0 => Decides(args, clock, a))
            /\ \A j \in 1..m : Decides(args, clock, j) => j <= a
        BY <1>4, <2>1
      <4>2. /\ b \in 0..m + 1 /\ (b # 0 => Decides(args, clock, b))
            /\ \A j \in 1..m + 1 : Decides(args, clock, j) => j <= b
        BY <1>4, <2>1
      <4> HIDE DEF a, b
      <4>3. b # m + 1
        BY <2>6, <4>2
      <4>4. b # 0 => b <= a
        BY <2>1, <4>1, <4>2, <4>3
      <4>5. a # 0 => a <= b
        BY <2>1, <4>1, <4>2
      <4>6. a = b
        BY <2>1, <4>1, <4>2, <4>4, <4>5
      <4> QED
        BY <4>6 DEF a, b
    <3>2. on(m + 1) <=> on(m)
      BY <1>3, <3>1
    <3>3. app[m + 1] <=> app[m]
      BY <2>2, <2>4, <2>6 DEF Active, Decides
    <3> QED
      BY <2>1, <2>3, <3>2, <3>3
  <2> QED
    BY <2>5, <2>6
<1>7. k \in T
  <2> HIDE DEF T
  <2> QED
    BY <1>5, <1>6, UpTo
<1> QED
  BY <1>7 DEF app, on

\* diag_inject, whatever the leaves, the patterns, the times and the readings of
\* its clock, which may go back: at each call the faults are on if the last
\* reading that had come to --at or --clear-at had not come to --clear-at, and
\* every leaf is healthy if it had.
THEOREM AnyDrillIsAsAsked ==
    ASSUME NEW leaves, NEW args \in DrillArgs(leaves), NEW others \in Nat, NEW clock \in Seq(Int)
    PROVE  DrillAsAsked(leaves, args, others, clock,
                        [sent |-> Inject(leaves, args, others, clock),
                         exit |-> Exit(leaves, args, others)])
<1> DEFINE sent == Inject(leaves, args, others, clock)
           healthy == [leaf \in leaves |-> "OK"]
           asked == [leaf \in leaves |-> AskedLevel(args.faults, leaf)]
<1>1. args.at \in Int /\ args.clear_at \in Int /\ args.faults \in Seq([hits : SUBSET leaves, level : Words])
  BY DEF DrillArgs
<1>2. DOMAIN clock = 1..Len(clock) /\ Len(clock) \in Nat
  OBVIOUS
<1>3. CASE args.list \/ Refuses(leaves, args, others)
  <2>1. sent = <<>>
    BY <1>3 DEF Inject
  <2> QED
    BY <2>1 DEF DrillAsAsked
<1>4. CASE ~(args.list \/ Refuses(leaves, args, others))
  <2>1. sent = [k \in DOMAIN clock |-> Message(leaves, args, Applied(args, clock)[k])]
    BY <1>4 DEF Inject
  <2>2. DOMAIN sent = DOMAIN clock /\ Len(sent) = Len(clock)
    BY <1>2, <2>1
  <2>3. /\ \A k \in DOMAIN args.faults : args.faults[k].hits # {}
        /\ args.allow_conflict \/ others = 0
        /\ Exit(leaves, args, others) = 0
    BY <1>4 DEF Refuses, Malformed, Exit
  <2>4. ASSUME NEW k \in DOMAIN sent
        PROVE  sent[k] = IF OnAt(args, clock, k) THEN asked ELSE healthy
    <3>1. Applied(args, clock)[k] <=> OnAt(args, clock, k)
      BY <1>1, <1>2, <2>2, AppliedIsOn
    <3>2. sent[k] = [leaf \in leaves |-> IF Applied(args, clock)[k] THEN Wanted(args.faults, leaf) ELSE "OK"]
      BY <2>1, <2>2 DEF Message
    <3>3. \A leaf : Wanted(args.faults, leaf) = AskedLevel(args.faults, leaf)
      BY <1>1, WantedIsAsked
    <3>4. CASE OnAt(args, clock, k)
      BY <3>1, <3>2, <3>3, <3>4
    <3>5. CASE ~OnAt(args, clock, k)
      BY <3>1, <3>2, <3>5
    <3> QED
      BY <3>4, <3>5
  <2> DEFINE drill == [sent |-> sent, exit |-> Exit(leaves, args, others)]
  <2>7. drill.sent = sent /\ drill.exit = Exit(leaves, args, others)
    OBVIOUS
  <2> HIDE DEF sent, drill
  <2>8. DrillAsAsked(leaves, args, others, clock, drill)
    BY <2>2, <2>3, <2>4, <2>7 DEF DrillAsAsked
  <2> QED
    BY <2>8 DEF drill, sent
<1> QED
  BY <1>3, <1>4

-----------------------------------------------------------------------------
(* set_initial_pose                                                        *)

\* Whatever maps there are and whatever poses are on file: one that is sent with
\* --map to a stack whose loader answers lies within the extent of a map with the
\* data that the stack has loaded, or that map has no extent.  It says nothing of
\* the map the pose was captured on, which the script never asks for.
THEOREM AnyPoseBelongsToMap ==
    ASSUME NEW maps, NEW files, NEW args, NEW stack, stack.map \in DOMAIN maps,
           \A m \in DOMAIN maps : maps[m].path # "unknown"
    PROVE  PoseBelongs(maps, files, args, stack, SetPose(files, maps, args, stack))
<1> DEFINE set == SetPose(files, maps, args, stack)
           pose == files[<<args.map, args.name>>]
<1> SUFFICES ASSUME set.sent, args.map # "default", stack.loader
             PROVE  /\ args.map \in DOMAIN maps
                    /\ maps[args.map].path = maps[stack.map].path
                    /\ OnMap(maps[args.map], pose)
  BY DEF PoseBelongs
<1>1. /\ ~UnknownMap(maps, args)
      /\ ~OutsideMap(maps, args, pose)
      /\ ~WrongStack(maps, args, stack)
  BY DEF SetPose
<1>2. args.map \in DOMAIN maps
  BY <1>1 DEF UnknownMap, known_maps
<1>3. maps[args.map].path = maps[stack.map].path
  BY <1>1, <1>2 DEF WrongStack, LoadedMap
<1>4. CheckExtent(maps[args.map], pose)
  BY <1>1 DEF OutsideMap
<1>5. OnMap(maps[args.map], pose)
  BY <1>4 DEF CheckExtent, OnMap, Within
<1> QED
  BY <1>2, <1>3, <1>5

-----------------------------------------------------------------------------
(* The sweeps: numbers and bytes                                           *)

\* Division, remainder and rounding.
LEMMA DivFacts ==
    ASSUME NEW a \in Int, NEW b \in Nat \ {0}
    PROVE  a \div b \in Int /\ b * (a \div b) <= a /\ a < b * (a \div b) + b
  OBVIOUS

\* A number is its quotient and its remainder.
LEMMA ModFacts ==
    ASSUME NEW a \in Int, NEW b \in Nat \ {0}
    PROVE  a % b \in 0..b-1 /\ a = b * (a \div b) + (a % b)
  OBVIOUS

\* Python's round() is within a half.
LEMMA Rounds ==
    ASSUME NEW num \in Int, NEW den \in Nat \ {0}
    PROVE  /\ RoundHalfEven(num, den) \in Int
           /\ 2 * num - den <= 2 * (RoundHalfEven(num, den) * den)
           /\ 2 * (RoundHalfEven(num, den) * den) <= 2 * num + den
<1> DEFINE low == num \div den
           p == low * den
<1>1. low \in Int /\ p \in Int /\ p <= num /\ num < p + den /\ (low + 1) * den = p + den
  BY DivFacts
<1>2. low + 1 \in Int
  BY <1>1
<1>3. RoundHalfEven(num, den) = low \/ RoundHalfEven(num, den) = low + 1
  BY DEF RoundHalfEven
<1>4. CASE 2 * (num - p) < den \/ (2 * (num - p) = den /\ low % 2 = 0)
  <2>1. RoundHalfEven(num, den) = low
    BY <1>4 DEF RoundHalfEven
  <2> HIDE DEF p, low
  <2> QED
    BY <2>1, <1>1, <1>4 DEF p
<1>5. CASE ~(2 * (num - p) < den \/ (2 * (num - p) = den /\ low % 2 = 0))
  <2>1. RoundHalfEven(num, den) = low + 1
    BY <1>5 DEF RoundHalfEven
  <2>2. 2 * (num - p) >= den
    <3> HIDE DEF p
    <3> QED 
      BY <1>5, <1>1
  <2> HIDE DEF p, low
  <2> QED
    BY <2>1, <2>2, <1>1
<1> QED
  BY <1>4, <1>5

\* Two bytes hold what a signed field can hold, as monitor_can reads them.
LEMMA ByteTrip ==
    ASSUME NEW raw \in Int, -32768 <= raw, raw <= 32767,
           NEW d, NEW i \in Nat, d[i] = HighByte(raw), d[i + 1] = LowByte(raw)
    PROVE  I16(d, i) = raw
<1> DEFINE u == raw % 65536
           h == u \div 256
           l == u % 256
<1>1. u = IF raw >= 0 THEN raw ELSE raw + 65536
  OBVIOUS
<1>2. l = raw % 256
  BY <1>1
<1>3. d[i] = h /\ d[i + 1] = l
  BY <1>2 DEF HighByte, LowByte
<1>4. u \in Nat
  BY <1>1
<1> HIDE DEF u
<1>5. u = 256 * h + l /\ h \in Int /\ l \in Int
  BY <1>4
<1>6. 256 * d[i] + d[i + 1] = u
  BY <1>3, <1>5
<1> QED
  BY <1>1, <1>6 DEF I16

-----------------------------------------------------------------------------
(* The sweeps: the shape of the samples                                    *)

\* Multiplying keeps the order, and distributes.
LEMMA Ordered ==
    ASSUME NEW m \in Nat, NEW a \in Int, NEW b \in Int, a <= b
    PROVE  m * a \in Int /\ m * b \in Int /\ m * a <= m * b
  OBVIOUS

\* Multiplication distributes.
LEMMA SumTimes ==
    ASSUME NEW m \in Int, NEW a \in Int, NEW b \in Int
    PROVE  m * (a + b) = m * a + m * b /\ m * (a - b) = m * a - m * b
  OBVIOUS

\* The waves, with the peak outside: max * Wave.
Wave(i, halves) ==
    IF 8 * i < halves THEN 8 * i
    ELSE IF 8 * i < 3 * halves THEN 2 * halves - 8 * i
    ELSE 8 * i - 4 * halves

\* sweep_speed and sweep_steer: the samples are the peak times the wave.
LEMMA TriangleIsWave ==
    ASSUME NEW max \in Nat, NEW halves \in Nat \ {0}, NEW i \in Nat
    PROVE  Triangle(max, i, halves) = max * Wave(i, halves)
<1>1. CASE 8 * i < halves
  BY <1>1 DEF Triangle, Wave
<1>2. CASE ~(8 * i < halves) /\ 8 * i < 2 * halves
  BY <1>2 DEF Triangle, Wave
<1>3. CASE ~(8 * i < 2 * halves) /\ 8 * i < 3 * halves
  <2>1. Triangle(max, i, halves) = -max * (8 * i - 2 * halves)
    BY <1>3 DEF Triangle
  <2>2. Wave(i, halves) = 2 * halves - 8 * i
    BY <1>3 DEF Wave
  <2> QED
    BY <2>1, <2>2
<1>4. CASE ~(8 * i < 3 * halves)
  <2>1. Triangle(max, i, halves) = -max * (4 * halves - 8 * i)
    BY <1>4 DEF Triangle
  <2>2. Wave(i, halves) = 8 * i - 4 * halves
    BY <1>4 DEF Wave
  <2> QED
    BY <2>1, <2>2
<1> QED
  BY <1>1, <1>2, <1>3, <1>4

\* The ramp of sweep_brake, for a peak of one.
Bump(i, halves) ==
    IF 4 * i < halves THEN 4 * i
    ELSE IF 4 * i < 2 * halves THEN 2 * halves - 4 * i ELSE 0

\* sweep_brake: the samples are the peak times the bump.
LEMMA RampIsBump ==
    ASSUME NEW max \in Nat, NEW halves \in Nat \ {0}, NEW i \in Nat
    PROVE  Ramp(max, i, halves) = max * Bump(i, halves)
<1>1. CASE 4 * i < halves
  <2>1. Ramp(max, i, halves) = CanMax(0, max * (4 * i))
    BY <1>1 DEF Ramp
  <2>2. max * (4 * i) \in Nat
    OBVIOUS
  <2> QED
    BY <1>1, <2>1, <2>2 DEF Bump, CanMax
<1>2. CASE ~(4 * i < halves) /\ 4 * i < 2 * halves
  <2> DEFINE x == 2 * halves - 4 * i
  <2>1. Ramp(max, i, halves) = CanMax(0, max * x)
    BY <1>2 DEF Ramp
  <2>2. x \in Nat /\ Bump(i, halves) = x
    BY <1>2 DEF Bump
  <2> HIDE DEF x
  <2>3. max * x \in Nat
    BY <2>2
  <2> QED
    BY <2>1, <2>2, <2>3 DEF CanMax
<1>3. CASE ~(4 * i < 2 * halves)
  <2> DEFINE x == 2 * halves - 4 * i
  <2>1. Ramp(max, i, halves) = CanMax(0, max * x)
    BY <1>3 DEF Ramp
  <2>2. x \in Int /\ x <= 0 /\ Bump(i, halves) = 0
    BY <1>3 DEF Bump
  <2> HIDE DEF x
  <2>3. max * x \in Int /\ max * x <= 0
    BY <2>2
  <2> QED
    BY <2>1, <2>2, <2>3 DEF CanMax
<1> QED
  BY <1>1, <1>2, <1>3

\* The shape of a wave: from zero, never beyond the peak, a step never more
\* than its slope, and at its last sample two steps from zero.
LEMMA WaveShape ==
    ASSUME NEW halves \in Nat \ {0}, NEW i \in Nat, 2 * i + 2 <= halves
    PROVE  /\ Wave(i, halves) \in Int /\ Wave(0, halves) = 0
           /\ -halves <= Wave(i, halves) /\ Wave(i, halves) <= halves
           /\ -8 <= Wave(i + 1, halves) - Wave(i, halves)
           /\ Wave(i + 1, halves) - Wave(i, halves) <= 8
           /\ 2 * i + 3 >= halves => -16 <= Wave(i, halves) /\ Wave(i, halves) <= 16
  BY DEF Wave

\* The bump starts at zero, has a peak of one, rises and falls by four, and has
\* come down to eight when the sweep ends.
LEMMA BumpShape ==
    ASSUME NEW halves \in Nat \ {0}, NEW i \in Nat, 2 * i + 2 <= halves
    PROVE  /\ Bump(i, halves) \in Int /\ Bump(0, halves) = 0
           /\ 0 <= Bump(i, halves) /\ Bump(i, halves) <= halves
           /\ -4 <= Bump(i + 1, halves) - Bump(i, halves)
           /\ Bump(i + 1, halves) - Bump(i, halves) <= 4
           /\ 2 * i + 3 >= halves => Bump(i, halves) <= 8
  BY DEF Bump

-----------------------------------------------------------------------------
(* The sweeps: rounding, clipping and what monitor_can reads               *)

\* What is within the peak stays there when it is rounded.
LEMMA RoundsWithin ==
    ASSUME NEW num \in Int, NEW den \in Nat \ {0}, NEW max \in Nat,
           -(max * den) <= num, num <= max * den
    PROVE  -max <= RoundHalfEven(num, den) /\ RoundHalfEven(num, den) <= max
<1> DEFINE r == RoundHalfEven(num, den)
<1>1. r \in Int /\ 2 * num - den <= 2 * (r * den) /\ 2 * (r * den) <= 2 * num + den
  BY Rounds
<1> HIDE DEF r
<1>2. ASSUME r >= max + 1 PROVE FALSE
  <2>1. den * (max + 1) <= den * r
    BY <1>1, <1>2
  <2>2. den * (max + 1) = max * den + den /\ den * r = r * den
    BY <1>1
  <2>3. max * den \in Int /\ r * den \in Int
    BY <1>1
  <2> QED
    BY <1>1, <2>1, <2>2, <2>3
<1>3. ASSUME r <= -max - 1 PROVE FALSE
  <2>1. den * r <= den * (-max - 1)
    BY <1>1, <1>3
  <2>2. den * (-max - 1) = -(max * den) - den /\ den * r = r * den
    BY <1>1
  <2>3. max * den \in Int /\ r * den \in Int
    BY <1>1
  <2> QED
    BY <1>1, <2>1, <2>2, <2>3
<1>4. -max <= r /\ r <= max
  BY <1>1, <1>2, <1>3
<1> QED
  BY <1>4 DEF r

\* Rounding adds less than one to a difference.
LEMMA RoundsApart ==
    ASSUME NEW n1 \in Int, NEW n2 \in Int, NEW den \in Nat \ {0}, NEW most \in Nat,
           n1 - n2 <= most
    PROVE  (RoundHalfEven(n1, den) - RoundHalfEven(n2, den) - 1) * den <= most
<1> DEFINE r1 == RoundHalfEven(n1, den)
           r2 == RoundHalfEven(n2, den)
<1>1. /\ r1 \in Int /\ 2 * n1 - den <= 2 * (r1 * den) /\ 2 * (r1 * den) <= 2 * n1 + den
      /\ r2 \in Int /\ 2 * n2 - den <= 2 * (r2 * den) /\ 2 * (r2 * den) <= 2 * n2 + den
  BY Rounds
<1> HIDE DEF r1, r2
<1>2. (r1 - r2 - 1) * den = r1 * den - r2 * den - den /\ r1 * den \in Int /\ r2 * den \in Int
  BY <1>1
<1>3. (r1 - r2 - 1) * den <= most
  BY <1>1, <1>2
<1> QED
  BY <1>3 DEF r1, r2

\* Clipping to a range with zero in it takes nothing further from zero, and no
\* two things further apart.
LEMMA ClipsApart ==
    ASSUME NEW low \in Int, NEW high \in Int, low <= 0, 0 <= high, NEW x \in Int, NEW y \in Int
    PROVE  /\ Clip(low, x, high) \in Int /\ low <= Clip(low, x, high) /\ Clip(low, x, high) <= high
           /\ Abs(Clip(low, x, high)) <= Abs(x)
           /\ Abs(Clip(low, x, high) - Clip(low, y, high)) <= Abs(x - y)
           /\ Abs(Clip(low, x, high)) \in Nat /\ Abs(Clip(low, x, high) - Clip(low, y, high)) \in Nat
  BY DEF Clip, CanMin, CanMax, Abs

\* The fields of what monitor_can decodes.
LEMMA MtrFields ==
    ASSUME NEW d
    PROVE  /\ Decode("speed", d).enabled <=> d[0] % 2 = 1
           /\ Decode("speed", d).value = I16(d, 4)
           /\ (d[0] \div 4) % 2 = 1 => Decode("speed", d).mode = "Speed"
           /\ Decode("speed", d).gear = Gears[((d[0] \div 8) % 4) + 1]
<1>1. Decode("speed", d) = DecodeMtr(d)
  BY DEF Decode
<1>2. /\ DecodeMtr(d).enabled <=> d[0] % 2 = 1
      /\ DecodeMtr(d).value = I16(d, 4)
      /\ (d[0] \div 4) % 2 = 1 => DecodeMtr(d).mode = "Speed"
      /\ DecodeMtr(d).gear = Gears[((d[0] \div 8) % 4) + 1]
  BY Zenon DEF DecodeMtr
<1> QED
  BY <1>1, <1>2, Zenon

\* decode_eps, field by field.
LEMMA EpsFields ==
    ASSUME NEW d
    PROVE  /\ Decode("steer", d).enabled <=> d[0] % 2 = 1
           /\ Decode("steer", d).value = I16(d, 1)
           /\ Decode("steer", d).mode = SteerModes[((d[0] \div 2) % 4) + 1]
<1>1. Decode("steer", d) = DecodeEps(d)
  BY DEF Decode
<1>2. /\ DecodeEps(d).enabled <=> d[0] % 2 = 1
      /\ DecodeEps(d).value = I16(d, 1)
      /\ DecodeEps(d).mode = SteerModes[((d[0] \div 2) % 4) + 1]
  BY Zenon DEF DecodeEps
<1> QED
  BY <1>1, <1>2, Zenon

\* decode_brk, field by field.
LEMMA BrkFields ==
    ASSUME NEW d
    PROVE  /\ Decode("brake", d).enabled <=> d[0] % 2 = 1
           /\ Decode("brake", d).value = d[2]
           /\ Decode("brake", d).mode = BrakeModes[CanMin((d[0] \div 2) % 4, 2) + 1]
<1>1. Decode("brake", d) = DecodeBrk(d)
  BY DEF Decode
<1>2. /\ DecodeBrk(d).enabled <=> d[0] % 2 = 1
      /\ DecodeBrk(d).value = d[2]
      /\ DecodeBrk(d).mode = BrakeModes[CanMin((d[0] \div 2) % 4, 2) + 1]
  BY Zenon DEF DecodeBrk
<1> QED
  BY <1>1, <1>2, Zenon

\* decode_vehicle, field by field.
LEMMA VehicleFields ==
    ASSUME NEW d
    PROVE  /\ Decode("vehicle", d).enabled <=> d[0] % 2 = 1
           /\ Decode("vehicle", d).value = d[6]
           /\ Decode("vehicle", d).mode = VehicleModes[((d[0] \div 2) % 4) + 1]
           /\ Decode("vehicle", d).estop <=> (d[0] \div 16) % 2 = 1
<1>1. Decode("vehicle", d) = DecodeVehicle(d)
  BY DEF Decode
<1>2. /\ DecodeVehicle(d).enabled <=> d[0] % 2 = 1
      /\ DecodeVehicle(d).value = d[6]
      /\ DecodeVehicle(d).mode = VehicleModes[((d[0] \div 2) % 4) + 1]
      /\ DecodeVehicle(d).estop <=> (d[0] \div 16) % 2 = 1
  BY Zenon DEF DecodeVehicle
<1> QED
  BY <1>1, <1>2, Zenon

\* What monitor_can reads in the frames that the scripts build.
LEMMA SpeedRead ==
    ASSUME NEW gear \in 0..3, NEW raw \in Int, -32768 <= raw, raw <= 32767
    PROVE  /\ Decode("speed", BuildMtr(gear, raw)).enabled
           /\ Decode("speed", BuildMtr(gear, raw)).value = raw
           /\ Decode("speed", BuildMtr(gear, raw)).mode = "Speed"
           /\ Decode("speed", BuildMtr(gear, raw)).gear = Gears[gear + 1]
<1> DEFINE d == BuildMtr(gear, raw)
<1>1. d[0] = 7 + 8 * gear /\ d[4] = HighByte(raw) /\ d[4 + 1] = LowByte(raw)
  BY DEF BuildMtr, Zeros
<1> HIDE DEF d
<1>2. d[0] % 2 = 1 /\ (d[0] \div 4) % 2 = 1 /\ ((d[0] \div 8) % 4) + 1 = gear + 1
  BY <1>1
<1>3. I16(d, 4) = raw
  BY <1>1, ByteTrip
<1>4. Decode("speed", d).enabled
  BY <1>2, MtrFields
<1>5. Decode("speed", d).value = raw /\ Decode("speed", d).mode = "Speed"
  BY <1>2, <1>3, MtrFields
<1>6. Decode("speed", d).gear = Gears[gear + 1]
  BY <1>2, MtrFields
<1> QED
  BY <1>4, <1>5, <1>6 DEF d

\* build_eps: monitor_can reads the angle asked for.
LEMMA SteerRead ==
    ASSUME NEW raw \in Int, -32768 <= raw, raw <= 32767
    PROVE  /\ Decode("steer", BuildEps(raw)).enabled
           /\ Decode("steer", BuildEps(raw)).value = raw
           /\ Decode("steer", BuildEps(raw)).mode = "FrontWheel"
<1> DEFINE d == BuildEps(raw)
<1>1. d[0] = 3 /\ d[1] = HighByte(raw) /\ d[1 + 1] = LowByte(raw)
  BY DEF BuildEps, Zeros
<1> HIDE DEF d
<1>2. d[0] % 2 = 1 /\ ((d[0] \div 2) % 4) + 1 = 2
  BY <1>1
<1>3. I16(d, 1) = raw
  BY <1>1, ByteTrip
<1>4. Decode("steer", d).enabled
  BY <1>2, EpsFields
<1>5. Decode("steer", d).value = raw /\ Decode("steer", d).mode = SteerModes[2]
  BY <1>2, <1>3, EpsFields
<1> QED
  BY <1>4, <1>5 DEF d, SteerModes

\* build_brk: monitor_can reads the pressure asked for.
LEMMA BrakeRead ==
    ASSUME NEW raw \in Int
    PROVE  /\ Decode("brake", BuildBrk(raw)).enabled
           /\ Decode("brake", BuildBrk(raw)).value = raw
           /\ Decode("brake", BuildBrk(raw)).mode = "Pressure"
<1> DEFINE d == BuildBrk(raw)
<1>1. d[0] = 5 /\ d[2] = raw
  BY DEF BuildBrk, Zeros
<1> HIDE DEF d
<1>2. d[0] % 2 = 1 /\ CanMin((d[0] \div 2) % 4, 2) + 1 = 3
  BY <1>1 DEF CanMin
<1>3. Decode("brake", d).enabled
  BY <1>2, BrkFields
<1>4. Decode("brake", d).value = raw /\ Decode("brake", d).mode = BrakeModes[3]
  BY <1>1, <1>2, BrkFields
<1> QED
  BY <1>3, <1>4 DEF d, BrakeModes

\* build_vehicle: monitor_can reads a cart that runs, and the counter.
LEMMA VehicleRead ==
    ASSUME NEW gear, NEW rolling \in Nat, rolling <= 255
    PROVE  /\ Decode("vehicle", BuildVehicle(gear, rolling)).enabled
           /\ Decode("vehicle", BuildVehicle(gear, rolling)).value = rolling
           /\ Decode("vehicle", BuildVehicle(gear, rolling)).mode = "Running"
           /\ ~Decode("vehicle", BuildVehicle(gear, rolling)).estop
<1> DEFINE d == BuildVehicle(gear, rolling)
<1>1. d[0] = 3 /\ d[6] = rolling % 256
  BY DEF BuildVehicle, Zeros
<1> HIDE DEF d
<1>2. d[0] % 2 = 1 /\ ((d[0] \div 2) % 4) + 1 = 2 /\ (d[0] \div 16) % 2 # 1 /\ d[6] = rolling
  BY <1>1
<1>3. Decode("vehicle", d).enabled /\ ~Decode("vehicle", d).estop
  BY <1>2, VehicleFields
<1>4. Decode("vehicle", d).value = rolling /\ Decode("vehicle", d).mode = VehicleModes[2]
  BY <1>2, VehicleFields
<1> QED
  BY <1>3, <1>4 DEF d, VehicleModes

-----------------------------------------------------------------------------
(* The sweeps: what is asked for                                           *)

\* What is asked for at two samples, rounded and clipped, is hardly further
\* apart than what was meant.
Asked(low, high, num, den) == Clip(low, RoundHalfEven(num, den), high)

\* Two samples are no more than `most' apart; a sample is within the peak.
Near(n1, n2, most) == n1 - n2 <= most /\ n2 - n1 <= most
WithinPeak(num, max, den) == -(max * den) <= num /\ num <= max * den

\* Two samples that are near are asked for as near, but for rounding.
LEMMA AskedApart ==
    ASSUME NEW low \in Int, NEW high \in Int, low <= 0, 0 <= high, NEW den \in Nat \ {0},
           NEW n1 \in Int, NEW n2 \in Int, NEW most \in Nat, Near(n1, n2, most)
    PROVE  (Abs(Asked(low, high, n1, den) - Asked(low, high, n2, den)) - 1) * den <= most
<1> DEFINE r1 == RoundHalfEven(n1, den)
           r2 == RoundHalfEven(n2, den)
           clipped == Abs(Clip(low, r1, high) - Clip(low, r2, high))
<1>1. r1 \in Int /\ r2 \in Int
  BY Rounds
<1>2. (r1 - r2 - 1) * den <= most /\ (r2 - r1 - 1) * den <= most
  BY RoundsApart DEF Near
<1> HIDE DEF r1, r2
<1>3. clipped \in Nat /\ clipped <= Abs(r1 - r2)
  BY <1>1, ClipsApart
<1>4. Abs(r1 - r2) = r1 - r2 \/ Abs(r1 - r2) = r2 - r1
  BY <1>1 DEF Abs
<1>5. (Abs(r1 - r2) - 1) * den <= most /\ Abs(r1 - r2) \in Int
  BY <1>1, <1>2, <1>4
<1> HIDE DEF clipped
<1>6. den * (clipped - 1) <= den * (Abs(r1 - r2) - 1)
  BY <1>3, <1>5, Ordered
<1>7. (clipped - 1) * den <= most
  BY <1>3, <1>5, <1>6
<1> QED
  BY <1>7 DEF clipped, r1, r2, Asked

\* What is asked for is within the field and the peak.
LEMMA AskedWithin ==
    ASSUME NEW low \in Int, NEW high \in Int, low <= 0, 0 <= high, NEW den \in Nat \ {0},
           NEW num \in Int, NEW max \in Nat, WithinPeak(num, max, den)
    PROVE  /\ Asked(low, high, num, den) \in Int
           /\ low <= Asked(low, high, num, den) /\ Asked(low, high, num, den) <= high
           /\ Abs(Asked(low, high, num, den)) <= max
           /\ num = 0 => Asked(low, high, num, den) = 0
<1> DEFINE r == RoundHalfEven(num, den)
<1>1. r \in Int
  BY Rounds
<1>2. -max <= r /\ r <= max
  BY RoundsWithin DEF WithinPeak
<1>3. num = 0 => -0 <= r /\ r <= 0
  <2>1. num = 0 => -(0 * den) <= num /\ num <= 0 * den
    OBVIOUS
  <2> HIDE DEF r
  <2> QED
    BY <2>1, RoundsWithin DEF r
<1> HIDE DEF r
<1>4. /\ Clip(low, r, high) \in Int /\ low <= Clip(low, r, high) /\ Clip(low, r, high) <= high
      /\ Abs(Clip(low, r, high)) <= Abs(r)
  BY <1>1, ClipsApart
<1>5. Abs(r) <= max /\ Abs(r) \in Nat /\ Abs(Clip(low, r, high)) \in Nat
  BY <1>1, <1>2, <1>4 DEF Abs
<1>6. r = 0 => Clip(low, r, high) = 0
  BY DEF Clip, CanMin, CanMax
<1>7. num = 0 => Clip(low, r, high) = 0
  BY <1>1, <1>3, <1>6
<1> QED
  BY <1>4, <1>5, <1>7 DEF r, Asked

\* A sweep asks for samples of max * shape.
Shaped(shape, slope, halves) ==
    /\ shape[0] = 0
    /\ \A i \in Nat : 2 * i + 2 <= halves =>
        /\ shape[i] \in Int /\ shape[i + 1] \in Int
        /\ -halves <= shape[i] /\ shape[i] <= halves
        /\ -slope <= shape[i + 1] - shape[i] /\ shape[i + 1] - shape[i] <= slope
        /\ 2 * i + 3 >= halves => -(2 * slope) <= shape[i] /\ shape[i] <= 2 * slope

\* The shape of a kind's wave, its slope, and the range of its field.
Kinds == {"speed", "steer", "brake"}
\* The shape of each sweep, how steep it is, and its field.
Shape(kind, halves) == [i \in Nat |-> IF kind = "brake" THEN Bump(i, halves) ELSE Wave(i, halves)]
Slope(kind) == IF kind = "brake" THEN 4 ELSE 8
Low(kind) == IF kind = "brake" THEN 0 ELSE -32768
High(kind) == IF kind = "brake" THEN 255 ELSE 32767
FramesSent(halves, sent) == CanMin(sent, halves \div 2)

\* Zero is in every field.
LEMMA FieldRange ==
    ASSUME NEW kind
    PROVE  /\ Low(kind) \in Int /\ High(kind) \in Int /\ Low(kind) <= 0 /\ 0 <= High(kind)
           /\ Slope(kind) \in Nat
  BY DEF Low, High, Slope

\* The wave and the bump have the shape that a gentle sweep needs.
LEMMA ShapesAreShaped ==
    ASSUME NEW kind, NEW halves \in Nat \ {0}
    PROVE  Shaped(Shape(kind, halves), Slope(kind), halves)
<1> DEFINE shape == Shape(kind, halves)
<1>1. \A i \in Nat : /\ shape[i] = IF kind = "brake" THEN Bump(i, halves) ELSE Wave(i, halves)
                     /\ i + 1 \in Nat
  BY DEF Shape
<1>2. shape[0] = 0
  BY <1>1 DEF Wave, Bump
<1> HIDE DEF shape
<1>3. ASSUME NEW i \in Nat, 2 * i + 2 <= halves
      PROVE  /\ shape[i] \in Int /\ shape[i + 1] \in Int
             /\ -halves <= shape[i] /\ shape[i] <= halves
             /\ -Slope(kind) <= shape[i + 1] - shape[i] /\ shape[i + 1] - shape[i] <= Slope(kind)
             /\ 2 * i + 3 >= halves => -(2 * Slope(kind)) <= shape[i] /\ shape[i] <= 2 * Slope(kind)
  <2>1. Wave(i + 1, halves) \in Int /\ Bump(i + 1, halves) \in Int
    BY DEF Wave, Bump
  <2>2. CASE kind = "brake"
    BY <1>1, <1>3, <2>1, <2>2, BumpShape DEF Slope
  <2>3. CASE kind # "brake"
    BY <1>1, <1>3, <2>1, <2>3, WaveShape DEF Slope
  <2> QED
    BY <2>2, <2>3
<1>4. Shaped(shape, Slope(kind), halves)
  BY <1>2, <1>3 DEF Shaped
<1> QED
  BY <1>4 DEF shape

\* The values of a sweep's frames are the samples of its wave.
Sampled(kind, max, halves, sent, asked) ==
    \A k \in 1..FramesSent(halves, sent) :
        asked[k] = Asked(Low(kind), High(kind), max * Shape(kind, halves)[k - 1], halves)

\* What a sweep asks for, sample by sample.
LEMMA SweepAsks ==
    ASSUME NEW kind, NEW max \in Nat, NEW halves \in Nat \ {0}, NEW sent \in Nat, NEW asked,
           Sampled(kind, max, halves, sent, asked)
    PROVE  LET n == FramesSent(halves, sent)
           IN  /\ \A k \in 1..n : asked[k] \in Int /\ Abs(asked[k]) <= max
               /\ n # 0 => asked[1] = 0
               /\ \A k \in 1..n - 1 :
                    (Abs(asked[k + 1] - asked[k]) - 1) * halves <= 1 * (Slope(kind) * max)
               /\ n # 0 /\ n < sent => (Abs(asked[n]) - 1) * halves <= 2 * (Slope(kind) * max)
<1> DEFINE low == Low(kind)
           high == High(kind)
           slope == Slope(kind)
           shape == Shape(kind, halves)
           n == FramesSent(halves, sent)
<1>8. low \in Int /\ high \in Int /\ low <= 0 /\ 0 <= high /\ slope \in Nat
  BY FieldRange
<1>9. Shaped(shape, slope, halves)
  BY ShapesAreShaped
<1>7. n \in Nat /\ n = CanMin(sent, halves \div 2)
  BY DEF FramesSent, CanMin
<1>10. \A k \in 1..n : asked[k] = Asked(low, high, max * shape[k - 1], halves)
  BY DEF Sampled
<1> HIDE DEF low, high, slope, shape, n
<1>1. 2 * n <= halves /\ (n < sent => 2 * n + 1 >= halves)
  BY <1>7 DEF CanMin
<1>2. ASSUME NEW k \in 1..n
      PROVE  /\ shape[k - 1] \in Int
             /\ max * shape[k - 1] \in Int /\ WithinPeak(max * shape[k - 1], max, halves)
  <2>1. k - 1 \in Nat /\ 2 * (k - 1) + 2 <= halves
    BY <1>1, <1>7
  <2>2. shape[k - 1] \in Int /\ -halves <= shape[k - 1] /\ shape[k - 1] <= halves
    BY <1>8, <1>9, <2>1 DEF Shaped
  <2>3. max * (-halves) <= max * shape[k - 1] /\ max * shape[k - 1] <= max * halves
    BY <1>8, <2>2, Ordered
  <2>4. max * (-halves) = -(max * halves)
    OBVIOUS
  <2> QED
    BY <2>2, <2>3, <2>4 DEF WithinPeak
<1>3. ASSUME NEW k \in 1..n
      PROVE  /\ asked[k] \in Int /\ low <= asked[k] /\ asked[k] <= high /\ Abs(asked[k]) <= max
             /\ max * shape[k - 1] = 0 => asked[k] = 0
  <2> DEFINE num == max * shape[k - 1]
  <2>1. num \in Int /\ WithinPeak(num, max, halves)
    BY <1>2
  <2>2. asked[k] = Asked(low, high, num, halves)
    BY <1>10
  <2> HIDE DEF num
  <2> DEFINE a == Asked(low, high, num, halves)
  <2>3. a \in Int /\ low <= a /\ a <= high /\ Abs(a) <= max /\ (num = 0 => a = 0)
    BY <1>8, <2>1, AskedWithin
  <2> QED
    BY <2>2, <2>3 DEF num
<1>4. n # 0 => asked[1] = 0
  <2>1. max * shape[1 - 1] = 0
    BY <1>9 DEF Shaped
  <2>2. n # 0 => 1 \in 1..n
    BY <1>7
  <2> QED
    BY <1>3, <2>1, <2>2
<1>5. ASSUME NEW k \in 1..n - 1
      PROVE  (Abs(asked[k + 1] - asked[k]) - 1) * halves <= 1 * (slope * max)
  <2>1. k - 1 \in Nat /\ 2 * (k - 1) + 2 <= halves /\ (k - 1) + 1 = k
    BY <1>1, <1>7
  <2>2. k \in 1..n /\ k + 1 \in 1..n /\ (k + 1) - 1 = k
    BY <1>7
  <2> DEFINE s1 == shape[k]
             s2 == shape[k - 1]
  <2>3. s1 \in Int /\ s2 \in Int /\ s1 - s2 <= slope /\ s2 - s1 <= slope
    BY <1>8, <1>9, <2>1 DEF Shaped
  <2>4. /\ asked[k] = Asked(low, high, max * s2, halves)
        /\ asked[k + 1] = Asked(low, high, max * s1, halves)
    BY <1>10, <2>2
  <2> HIDE DEF s1, s2
  <2>5. max * (s1 - s2) <= max * slope /\ max * (s2 - s1) <= max * slope
    BY <1>8, <2>3, Ordered
  <2>6. max * (s1 - s2) = max * s1 - max * s2 /\ max * (s2 - s1) = max * s2 - max * s1
    BY <2>3
  <2>7. max * s1 \in Int /\ max * s2 \in Int /\ max * slope \in Nat /\ 1 * (slope * max) = max * slope
    BY <1>8, <2>3
  <2> DEFINE n1 == max * s1
             n2 == max * s2
             most == max * slope
  <2>9. Near(n1, n2, most)
    BY <2>5, <2>6 DEF Near
  <2> HIDE DEF n1, n2, most
  <2>8. (Abs(Asked(low, high, n1, halves) - Asked(low, high, n2, halves)) - 1) * halves
            <= most
    BY <1>8, <2>7, <2>9, AskedApart DEF n1, n2, most
  <2> QED
    BY <2>4, <2>7, <2>8 DEF n1, n2, most
<1>6. ASSUME n # 0, n < sent PROVE (Abs(asked[n]) - 1) * halves <= 2 * (slope * max)
  <2> DEFINE s == shape[n - 1]
  <2>1. n - 1 \in Nat /\ 2 * (n - 1) + 2 <= halves /\ 2 * (n - 1) + 3 >= halves
    BY <1>1, <1>6, <1>7
  <2>2. s \in Int /\ -(2 * slope) <= s /\ s <= 2 * slope
    BY <1>8, <1>9, <2>1 DEF Shaped
  <2>3. asked[n] = Asked(low, high, max * s, halves) /\ asked[n] \in Int
    BY <1>3, <1>6, <1>7, <1>10
  <2> HIDE DEF s
  <2>4. max * (-(2 * slope)) <= max * s /\ max * s <= max * (2 * slope) /\ max * s \in Int
    BY <1>8, <2>2, Ordered
  <2>5. max * (-(2 * slope)) = -(2 * (slope * max)) /\ max * (2 * slope) = 2 * (slope * max)
        /\ 2 * (slope * max) \in Nat
    BY <1>8
  <2> DEFINE num == max * s
             most == 2 * (slope * max)
             none == 0
  <2>8. Near(num, none, most) /\ num \in Int /\ most \in Nat /\ none \in Int
    BY <2>4, <2>5 DEF Near
  <2>9. WithinPeak(none, none, halves) /\ none \in Nat
    BY DEF WithinPeak
  <2> HIDE DEF num, most, none
  <2>6. (Abs(Asked(low, high, num, halves) - Asked(low, high, none, halves)) - 1) * halves <= most
    BY <1>8, <2>8, AskedApart
  <2>7. Asked(low, high, none, halves) = 0
    BY <1>8, <2>8, <2>9, AskedWithin DEF none
  <2> QED
    BY <2>3, <2>6, <2>7 DEF num, most
<1> QED
  BY <1>3, <1>4, <1>5, <1>6 DEF n, slope

-----------------------------------------------------------------------------
(* The sweeps and the heartbeat are gentle                                 *)

\* What the frames of a sweep must read as for the sweep to be gentle.
Reads(kind, frame, num, halves) ==
    /\ Decode(kind, frame).enabled
    /\ Decode(kind, frame).mode = CASE kind = "speed" -> "Speed"
                                     [] kind = "steer" -> "FrontWheel"
                                     [] kind = "brake" -> "Pressure"
    /\ Decode(kind, frame).value = Asked(Low(kind), High(kind), num, halves)

\* A sweep whose frames read as the samples of its shape is gentle.
LEMMA ShapedSweep ==
    ASSUME NEW kind \in Kinds, NEW max \in Nat, NEW halves \in Nat \ {0}, NEW sent \in Nat,
           NEW frames, Len(frames) = FramesSent(halves, sent),
           DOMAIN frames = 1..FramesSent(halves, sent),
           \A k \in 1..FramesSent(halves, sent) :
                Reads(kind, frames[k], max * Shape(kind, halves)[k - 1], halves),
           frames = <<>> <=> FramesSent(halves, sent) = 0
    PROVE  Gentle(kind, max, halves, sent, frames)
<1> DEFINE n == FramesSent(halves, sent)
           asked == [k \in 1..n |-> Decode(kind, frames[k]).value]
<1>1. n \in Nat
  BY DEF FramesSent, CanMin
<1>2. Sampled(kind, max, halves, sent, asked)
  BY DEF Reads, Sampled
<1>3. \A k \in 1..n : asked[k] = Decode(kind, frames[k]).value
  OBVIOUS
<1> HIDE DEF asked
<1>4. /\ \A k \in 1..n : Abs(asked[k]) <= max
      /\ n # 0 => asked[1] = 0
      /\ \A k \in 1..n - 1 :
            (Abs(asked[k + 1] - asked[k]) - 1) * halves <= 1 * (Slope(kind) * max)
      /\ n # 0 /\ n < sent => (Abs(asked[n]) - 1) * halves <= 2 * (Slope(kind) * max)
  BY <1>2, SweepAsks
<1>10. Len(frames) = n /\ DOMAIN frames = 1..n /\ (frames = <<>> <=> n = 0)
  OBVIOUS
<1> HIDE DEF n
<1>5. \A k \in DOMAIN frames :
        /\ Decode(kind, frames[k]).enabled /\ Abs(Decode(kind, frames[k]).value) <= max
        /\ Decode(kind, frames[k]).mode = CASE kind = "speed" -> "Speed"
                                            [] kind = "steer" -> "FrontWheel"
                                            [] kind = "brake" -> "Pressure"
  <2> SUFFICES ASSUME NEW k \in 1..n
               PROVE  /\ Decode(kind, frames[k]).enabled /\ Abs(Decode(kind, frames[k]).value) <= max
                      /\ Decode(kind, frames[k]).mode = CASE kind = "speed" -> "Speed"
                                                          [] kind = "steer" -> "FrontWheel"
                                                          [] kind = "brake" -> "Pressure"
    BY <1>10
  <2>1. Reads(kind, frames[k], max * Shape(kind, halves)[k - 1], halves)
    BY DEF n
  <2>2. Decode(kind, frames[k]).enabled
    BY <2>1, Zenon DEF Reads
  <2>3. Decode(kind, frames[k]).mode = CASE kind = "speed" -> "Speed"
                                          [] kind = "steer" -> "FrontWheel"
                                          [] kind = "brake" -> "Pressure"
    BY <2>1, Zenon DEF Reads
  <2>4. Abs(Decode(kind, frames[k]).value) <= max
    BY <1>3, <1>4
  <2> QED
    BY <2>2, <2>3, <2>4, Zenon
<1>6. frames # <<>> => Decode(kind, frames[1]).value = 0
  BY <1>1, <1>3, <1>4, <1>10
<1>7. \A k \in 1..Len(frames) - 1 :
        (Abs(Decode(kind, frames[k + 1]).value - Decode(kind, frames[k]).value) - 1) * halves
            <= 1 * (Slope(kind) * max)
  <2> SUFFICES ASSUME NEW k \in 1..n - 1
               PROVE  (Abs(Decode(kind, frames[k + 1]).value - Decode(kind, frames[k]).value) - 1) * halves
                        <= 1 * (Slope(kind) * max)
    BY <1>10
  <2>1. k \in 1..n /\ k + 1 \in 1..n
    BY <1>1
  <2> QED
    BY <1>3, <1>4, <2>1
<1>8. frames # <<>> /\ Len(frames) < sent =>
        (Abs(Decode(kind, frames[Len(frames)]).value) - 1) * halves <= 2 * (Slope(kind) * max)
  <2> SUFFICES ASSUME n # 0, n < sent
               PROVE  (Abs(Decode(kind, frames[n]).value) - 1) * halves <= 2 * (Slope(kind) * max)
    BY <1>10
  <2>1. n \in 1..n
    BY <1>1
  <2> QED
    BY <1>3, <1>4, <2>1
<1> QED
  BY <1>5, <1>6, <1>7, <1>8 DEF Gentle, Slope

\* A sweep ends with the wave or when it is interrupted.
LEMMA TraceLength ==
    ASSUME NEW halves \in Nat \ {0}, NEW sent \in Nat, NEW frames, DOMAIN frames = Trace(halves, sent),
           frames = [k \in Trace(halves, sent) |-> frames[k]]
    PROVE  LET n == FramesSent(halves, sent)
           IN  n \in Nat /\ DOMAIN frames = 1..n /\ Len(frames) = n /\ (frames = <<>> <=> n = 0)
<1> DEFINE n == FramesSent(halves, sent)
<1>1. n \in Nat
  BY DEF CanMin, FramesSent
<1>2. DOMAIN frames = 1..n /\ frames = [k \in 1..n |-> frames[k]]
  BY DEF Trace, FramesSent
<1> HIDE DEF n
<1>3. Len(frames) = n /\ (frames = <<>> <=> n = 0)
  BY <1>1, <1>2
<1> QED
  BY <1>1, <1>2, <1>3 DEF n

\* What is asked for fits the field.
LEMMA AskedInField ==
    ASSUME NEW kind, NEW num \in Int, NEW den \in Nat \ {0}
    PROVE  LET raw == Asked(Low(kind), High(kind), num, den)
           IN  raw \in Int /\ Low(kind) <= raw /\ raw <= High(kind)
<1> DEFINE low == Low(kind)
           high == High(kind)
           r == RoundHalfEven(num, den)
<1>1. low \in Int /\ high \in Int /\ low <= 0 /\ 0 <= high
  BY FieldRange
<1>2. r \in Int
  BY Rounds
<1> HIDE DEF low, high, r
<1>3. Clip(low, r, high) \in Int /\ low <= Clip(low, r, high) /\ Clip(low, r, high) <= high
  BY <1>1, <1>2, ClipsApart
<1> QED
  BY <1>3 DEF low, high, r, Asked

\* sweep_speed.
LEMMA SpeedSweepIsGentle ==
    ASSUME NEW max \in Nat, NEW halves \in Nat \ {0}, NEW sent \in Nat
    PROVE  Gentle("speed", max, halves, sent, SweepSpeed(max, halves, sent))
<1> DEFINE kind == "speed"
           n == FramesSent(halves, sent)
           frames == SweepSpeed(max, halves, sent)
<1>1. n \in Nat /\ DOMAIN frames = 1..n /\ Len(frames) = n /\ (frames = <<>> <=> n = 0)
  <2>1. DOMAIN frames = Trace(halves, sent) /\ frames = [k \in Trace(halves, sent) |-> frames[k]]
    BY DEF SweepSpeed
  <2> HIDE DEF frames
  <2> QED
    BY <2>1, TraceLength
<1>2. ASSUME NEW k \in 1..n
      PROVE  Reads(kind, frames[k], max * Shape(kind, halves)[k - 1], halves)
  <2> DEFINE num == Triangle(max, k - 1, halves)
             raw == Asked(Low(kind), High(kind), num, halves)
  <2>1. k - 1 \in Nat
    BY <1>1
  <2>2. Wave(k - 1, halves) \in Int /\ Shape(kind, halves)[k - 1] = Wave(k - 1, halves)
    BY <2>1 DEF Wave, Shape
  <2>3. num = max * Shape(kind, halves)[k - 1] /\ num \in Int
    BY <2>1, <2>2, TriangleIsWave
  <2>4. frames[k] = BuildMtr(1, raw)
    BY <1>1 DEF SweepSpeed, Build, Asked, Low, High
  <2> HIDE DEF num, frames
  <2>5. raw \in Int /\ -32768 <= raw /\ raw <= 32767
    <3> HIDE DEF kind
    <3>1. raw \in Int /\ Low(kind) <= raw /\ raw <= High(kind)
      BY <2>3, AskedInField
    <3> QED
      BY <3>1 DEF Low, High, kind
  <2> HIDE DEF raw
  <2>6. /\ Decode("speed", BuildMtr(1, raw)).enabled
        /\ Decode("speed", BuildMtr(1, raw)).mode = "Speed"
        /\ Decode("speed", BuildMtr(1, raw)).value = raw
    BY <2>5, SpeedRead
  <2>7. Reads(kind, frames[k], num, halves)
    BY <2>4, <2>6 DEF Reads, raw
  <2> QED
    BY <2>3, <2>7
<1>3. kind \in Kinds
  BY DEF Kinds
<1> HIDE DEF frames, n, kind
<1> QED
  BY <1>1, <1>2, <1>3, ShapedSweep DEF n, frames, kind

\* sweep_steer.
LEMMA SteerSweepIsGentle ==
    ASSUME NEW max \in Nat, NEW halves \in Nat \ {0}, NEW sent \in Nat
    PROVE  Gentle("steer", max, halves, sent, SweepSteer(max, halves, sent))
<1> DEFINE kind == "steer"
           n == FramesSent(halves, sent)
           frames == SweepSteer(max, halves, sent)
<1>1. n \in Nat /\ DOMAIN frames = 1..n /\ Len(frames) = n /\ (frames = <<>> <=> n = 0)
  <2>1. DOMAIN frames = Trace(halves, sent) /\ frames = [k \in Trace(halves, sent) |-> frames[k]]
    BY DEF SweepSteer
  <2> HIDE DEF frames
  <2> QED
    BY <2>1, TraceLength
<1>2. ASSUME NEW k \in 1..n
      PROVE  Reads(kind, frames[k], max * Shape(kind, halves)[k - 1], halves)
  <2> DEFINE num == Triangle(max, k - 1, halves)
             raw == Asked(Low(kind), High(kind), num, halves)
  <2>1. k - 1 \in Nat
    BY <1>1
  <2>2. Wave(k - 1, halves) \in Int /\ Shape(kind, halves)[k - 1] = Wave(k - 1, halves)
    BY <2>1 DEF Wave, Shape
  <2>3. num = max * Shape(kind, halves)[k - 1] /\ num \in Int
    BY <2>1, <2>2, TriangleIsWave
  <2>4. frames[k] = BuildEps(raw)
    BY <1>1 DEF SweepSteer, Build, Asked, Low, High
  <2> HIDE DEF num, frames
  <2>5. raw \in Int /\ -32768 <= raw /\ raw <= 32767
    <3> HIDE DEF kind
    <3>1. raw \in Int /\ Low(kind) <= raw /\ raw <= High(kind)
      BY <2>3, AskedInField
    <3> QED
      BY <3>1 DEF Low, High, kind
  <2> HIDE DEF raw
  <2>6. /\ Decode("steer", BuildEps(raw)).enabled
        /\ Decode("steer", BuildEps(raw)).mode = "FrontWheel"
        /\ Decode("steer", BuildEps(raw)).value = raw
    BY <2>5, SteerRead
  <2>7. Reads(kind, frames[k], num, halves)
    BY <2>4, <2>6 DEF Reads, raw
  <2> QED
    BY <2>3, <2>7
<1>3. kind \in Kinds
  BY DEF Kinds
<1> HIDE DEF frames, n, kind
<1> QED
  BY <1>1, <1>2, <1>3, ShapedSweep DEF n, frames, kind

\* sweep_brake.
LEMMA BrakeSweepIsGentle ==
    ASSUME NEW max \in Nat, NEW halves \in Nat \ {0}, NEW sent \in Nat
    PROVE  Gentle("brake", max, halves, sent, SweepBrake(max, halves, sent))
<1> DEFINE kind == "brake"
           n == FramesSent(halves, sent)
           frames == SweepBrake(max, halves, sent)
<1>1. n \in Nat /\ DOMAIN frames = 1..n /\ Len(frames) = n /\ (frames = <<>> <=> n = 0)
  <2>1. DOMAIN frames = Trace(halves, sent) /\ frames = [k \in Trace(halves, sent) |-> frames[k]]
    BY DEF SweepBrake
  <2> HIDE DEF frames
  <2> QED
    BY <2>1, TraceLength
<1>2. ASSUME NEW k \in 1..n
      PROVE  Reads(kind, frames[k], max * Shape(kind, halves)[k - 1], halves)
  <2> DEFINE num == Ramp(max, k - 1, halves)
             raw == Asked(Low(kind), High(kind), num, halves)
  <2>1. k - 1 \in Nat
    BY <1>1
  <2>2. Bump(k - 1, halves) \in Int /\ Shape(kind, halves)[k - 1] = Bump(k - 1, halves)
    BY <2>1 DEF Bump, Shape
  <2>3. num = max * Shape(kind, halves)[k - 1] /\ num \in Int
    BY <2>1, <2>2, RampIsBump
  <2>4. frames[k] = BuildBrk(raw)
    BY <1>1 DEF SweepBrake, Build, Asked, Low, High
  <2> HIDE DEF num, frames
  <2>5. raw \in Int /\ 0 <= raw /\ raw <= 255
    <3> HIDE DEF kind
    <3>1. raw \in Int /\ Low(kind) <= raw /\ raw <= High(kind)
      BY <2>3, AskedInField
    <3> QED
      BY <3>1 DEF Low, High, kind
  <2> HIDE DEF raw
  <2>6. /\ Decode("brake", BuildBrk(raw)).enabled
        /\ Decode("brake", BuildBrk(raw)).mode = "Pressure"
        /\ Decode("brake", BuildBrk(raw)).value = raw
    BY <2>5, BrakeRead
  <2>7. Reads(kind, frames[k], num, halves)
    BY <2>4, <2>6 DEF Reads, raw
  <2> QED
    BY <2>3, <2>7
<1>3. kind \in Kinds
  BY DEF Kinds
<1> HIDE DEF frames, n, kind
<1> QED
  BY <1>1, <1>2, <1>3, ShapedSweep DEF n, frames, kind

\* A sweep of any length, to any peak, interrupted anywhere, is gentle.
THEOREM AnySweepIsGentle ==
    ASSUME NEW kind \in {"speed", "steer", "brake"},
           NEW max \in Nat, NEW halves \in Nat \ {0}, NEW sent \in Nat
    PROVE  Gentle(kind, max, halves, sent, Sweep(kind, max, halves, sent))
  BY SpeedSweepIsGentle, SteerSweepIsGentle, BrakeSweepIsGentle DEF Sweep

\* A heartbeat of any length keeps its counter moving and asks for what it was
\* given, whatever gear and speed that is.
THEOREM AnyHeartbeatIsAlive ==
    ASSUME NEW gear \in 0..3, NEW speed \in Int, NEW ticks \in Nat
    PROVE  Alive(gear, speed, Heartbeat(gear, speed, ticks))
<1> DEFINE frames == Heartbeat(gear, speed, ticks)
           asked == Clip(-32768, speed, 32767)
<1>1. /\ DOMAIN frames = 1..ticks
      /\ \A k \in 1..ticks : frames[k] = HeartbeatFrames(gear, speed, (k - 1) % 256)
  BY DEF Heartbeat
<1>2. asked \in Int /\ -32768 <= asked /\ asked <= 32767
  BY DEF Clip, CanMin, CanMax
<1> HIDE DEF frames
<1>3. ASSUME NEW k \in 1..ticks
      PROVE  /\ frames[k]["speed"] = BuildMtr(gear, asked) /\ frames[k]["brake"] = BuildBrk(0)
             /\ frames[k]["steer"] = BuildEps(0)
             /\ frames[k]["vehicle"] = BuildVehicle(gear, (k - 1) % 256)
  BY <1>1 DEF HeartbeatFrames
<1> HIDE DEF asked
<1>4. ASSUME NEW k \in 1..ticks
      PROVE  /\ Decode("vehicle", frames[k]["vehicle"]).enabled
             /\ Decode("vehicle", frames[k]["vehicle"]).value = (k - 1) % 256
             /\ Decode("vehicle", frames[k]["vehicle"]).mode = "Running"
             /\ ~Decode("vehicle", frames[k]["vehicle"]).estop
  <2> DEFINE rolling == (k - 1) % 256
  <2>1. rolling \in Nat /\ rolling <= 255
    OBVIOUS
  <2>2. frames[k]["vehicle"] = BuildVehicle(gear, rolling)
    BY <1>3
  <2> HIDE DEF rolling
  <2>3. /\ Decode("vehicle", frames[k]["vehicle"]).enabled
        /\ Decode("vehicle", frames[k]["vehicle"]).value = rolling
        /\ Decode("vehicle", frames[k]["vehicle"]).mode = "Running"
        /\ ~Decode("vehicle", frames[k]["vehicle"]).estop
    BY <2>1, <2>2, VehicleRead
  <2> QED
    BY <2>3 DEF rolling
<1>5. ASSUME NEW k \in 1..ticks
      PROVE  /\ Decode("speed", frames[k]["speed"]).enabled
             /\ Decode("speed", frames[k]["speed"]).value = asked
             /\ Decode("speed", frames[k]["speed"]).gear = Gears[gear + 1]
  BY <1>2, <1>3, SpeedRead
<1>6. ASSUME NEW k \in 1..ticks
      PROVE  /\ Decode("brake", frames[k]["brake"]).enabled
             /\ Decode("brake", frames[k]["brake"]).value = 0
             /\ Decode("steer", frames[k]["steer"]).enabled
             /\ Decode("steer", frames[k]["steer"]).value = 0
  BY <1>3, BrakeRead, SteerRead
<1>7. ASSUME NEW k \in 1..ticks, NEW d \in 1..255, k + d \in 1..ticks
      PROVE  Decode("vehicle", frames[k]["vehicle"]).value
                # Decode("vehicle", frames[k + d]["vehicle"]).value
  <2>1. (k - 1) % 256 # (k + d - 1) % 256
    OBVIOUS
  <2> QED
    BY <1>4, <1>7, <2>1
<1>8. \A k \in DOMAIN frames, kind \in {"speed", "brake", "steer", "vehicle"} :
        Decode(kind, frames[k][kind]).enabled
  BY <1>1, <1>4, <1>5, <1>6
<1>9. \A k \in DOMAIN frames :
        /\ \A kind \in {"speed", "brake", "steer", "vehicle"} : Decode(kind, frames[k][kind]).enabled
        /\ Decode("speed", frames[k]["speed"]).gear = Gears[gear + 1]
        /\ Decode("speed", frames[k]["speed"]).value = InField(speed)
        /\ Decode("brake", frames[k]["brake"]).value = 0 /\ Decode("steer", frames[k]["steer"]).value = 0
        /\ Decode("vehicle", frames[k]["vehicle"]).mode = "Running"
        /\ ~Decode("vehicle", frames[k]["vehicle"]).estop
  BY <1>1, <1>4, <1>5, <1>6, <1>8 DEF asked, InField
<1>10. \A k \in DOMAIN frames, d \in 1..255 : k + d \in DOMAIN frames =>
         Decode("vehicle", frames[k]["vehicle"]).value # Decode("vehicle", frames[k + d]["vehicle"]).value
  <2> HIDE DEF frames
  <2> SUFFICES ASSUME NEW k \in DOMAIN frames, NEW d \in 1..255, k + d \in DOMAIN frames
               PROVE  Decode("vehicle", frames[k]["vehicle"]).value # Decode("vehicle", frames[k + d]["vehicle"]).value
    OBVIOUS
  <2>1. DOMAIN frames = 1..ticks
    BY <1>1, Zenon
  <2>2. k \in 1..ticks /\ k + d \in 1..ticks
    BY <2>1, Zenon
  <2> QED
    BY <1>7, <2>2, Zenon
<1>11. Alive(gear, speed, frames)
  BY <1>9, <1>10, Zenon DEF Alive
<1> QED
  BY <1>11 DEF frames

-----------------------------------------------------------------------------
(* SelectSeq                                                               *)

\* The positions of a sequence that a selection keeps, in their order.
Picked(sel, s, good) ==
    \E p \in [1..Len(sel) -> good] :
        /\ \A a, b \in 1..Len(sel) : a < b => p[a] < p[b]
        /\ \A i \in good : \E a \in 1..Len(sel) : p[a] = i
        /\ \A a \in 1..Len(sel) : sel[a] = s[p[a]]

\* Picked, with the numbers that show it.
PickedAs(sel, s, good, n, p) ==
    /\ Len(sel) = n /\ p \in [1..n -> good]
    /\ \A a, b \in 1..n : a < b => p[a] < p[b]
    /\ \A i \in good : \E a \in 1..n : p[a] = i
    /\ \A a \in 1..n : sel[a] = s[p[a]]

\* What is numbered is picked.
LEMMA PickedBy ==
    ASSUME NEW sel, NEW s, NEW good, NEW n, NEW p, PickedAs(sel, s, good, n, p) PROVE Picked(sel, s, good)
  BY Zenon DEF Picked, PickedAs

\* The partial selections that SelectSeq goes through.
Selects(F, s, n, good) ==
    /\ F[0] = <<>>
    /\ \A i \in 1..n : F[i] = IF i \in good THEN Append(F[i - 1], s[i]) ELSE F[i - 1]

\* What a selection has picked from the first n elements.
LEMMA SelectionIsPicked ==
    ASSUME NEW S, NEW s, NEW n \in Nat, NEW F, NEW good \in SUBSET (1..n),
           \A i \in 1..n : s[i] \in S,
           Selects(F, s, n, good)
    PROVE  F[n] \in Seq(S) /\ Picked(F[n], s, good)
<1> DEFINE T == {m \in 0..n : F[m] \in Seq(S) /\ Picked(F[m], s, good \cap (1..m))}
<1>1. 0 \in T
  <2>1. F[0] = <<>> /\ F[0] \in Seq(S) /\ good \cap (1..0) = {}
    BY DEF Selects
  <2>2. Picked(<<>>, s, {})
    <3> DEFINE p == [a \in 1..0 |-> 0]
    <3>1. Len(<<>>) = 0 /\ 1..0 = {} /\ p \in [1..0 -> {}]
      OBVIOUS
    <3> HIDE DEF p
    <3> QED
      BY <3>1 DEF Picked
  <2>3. Picked(F[0], s, good \cap (1..0)) /\ 0 \in 0..n
    BY <2>1, <2>2
  <2> QED
    BY <2>1, <2>3
<1>2. ASSUME NEW k \in 0..n - 1, k \in T PROVE k + 1 \in T
  <2> DEFINE m == k + 1
             before == good \cap (1..k)
  <2>1. m \in 1..n /\ m - 1 = k /\ m \in 0..n /\ k \in 0..n
    OBVIOUS
  <2>2. F[m] = IF m \in good THEN Append(F[k], s[m]) ELSE F[k]
    BY <2>1 DEF Selects
  <2>3. F[k] \in Seq(S) /\ s[m] \in S /\ F[m] \in Seq(S)
    <3>1. F[k] \in Seq(S) /\ s[m] \in S
      BY <1>2, <2>1
    <3> HIDE DEF m
    <3> QED
      BY <2>2, <3>1
  <2>4. PICK p \in [1..Len(F[k]) -> before] :
            /\ \A a, b \in 1..Len(F[k]) : a < b => p[a] < p[b]
            /\ \A i \in before : \E a \in 1..Len(F[k]) : p[a] = i
            /\ \A a \in 1..Len(F[k]) : F[k][a] = s[p[a]]
    BY <1>2 DEF Picked
  <2>5. CASE m \notin good
    <3>1. F[m] = F[k] /\ good \cap (1..m) = before
      BY <2>2, <2>5
    <3> QED
      BY <1>2, <2>1, <2>3, <3>1
  <2>6. CASE m \in good
    <3> DEFINE len == Len(F[k])
               q == [a \in 1..len + 1 |-> IF a = len + 1 THEN m ELSE p[a]]
    <3>1. F[m] = Append(F[k], s[m]) /\ good \cap (1..m) = before \cup {m}
      BY <2>2, <2>6
    <3>2. len \in Nat /\ Len(F[m]) = len + 1
      BY <2>3, <3>1
    <3>3. /\ \A a \in 1..len : F[m][a] = F[k][a]
          /\ F[m][len + 1] = s[m]
      BY <2>3, <3>1
    <3>9. p \in [1..len -> before]
      BY <2>4
    <3> HIDE DEF len
    <3>10. ASSUME NEW a \in 1..len + 1, a # len + 1 PROVE a \in 1..len /\ q[a] = p[a]
      BY <3>2, <3>10
    <3>4. q \in [1..len + 1 -> before \cup {m}]
      <4> SUFFICES ASSUME NEW a \in 1..len + 1
                   PROVE  (IF a = len + 1 THEN m ELSE p[a]) \in before \cup {m}
        OBVIOUS
      <4> HIDE DEF before, m
      <4> QED
        BY <3>9, <3>10
    <3>5. \A a, b \in 1..len + 1 : a < b => q[a] < q[b]
      <4> SUFFICES ASSUME NEW a \in 1..len + 1, NEW b \in 1..len + 1, a < b PROVE q[a] < q[b]
        OBVIOUS
      <4>0. a # len + 1
        BY <3>2
      <4>1. a \in 1..len /\ q[a] = p[a]
        BY <3>10, <4>0
      <4>4. p[a] \in 1..k
        BY <3>9, <4>1
      <4>2. CASE b = len + 1
        BY <4>1, <4>2, <4>4
      <4>3. CASE b # len + 1
        <5>1. b \in 1..len
          BY <3>2, <4>3
        <5>2. q[b] = p[b]
          BY <4>3
        <5> QED
          BY <2>4, <4>1, <5>1, <5>2 DEF len
      <4> QED
        BY <4>2, <4>3
    <3>6. \A i \in before \cup {m} : \E a \in 1..len + 1 : q[a] = i
      <4> SUFFICES ASSUME NEW i \in before \cup {m} PROVE \E a \in 1..len + 1 : q[a] = i
        OBVIOUS
      <4>1. CASE i = m
        <5>1. len + 1 \in 1..len + 1
          BY <3>2
        <5> QED
          BY <4>1, <5>1
      <4>2. CASE i # m
        <5>1. PICK a \in 1..len : p[a] = i
          BY <2>4, <4>2 DEF len
        <5>2. a \in 1..len + 1 /\ a # len + 1
          BY <3>2
        <5> QED
          BY <5>1, <5>2
      <4> QED
        BY <4>1, <4>2
    <3>7. \A a \in 1..len + 1 : F[m][a] = s[q[a]]
      <4> SUFFICES ASSUME NEW a \in 1..len + 1 PROVE F[m][a] = s[q[a]]
        OBVIOUS
      <4>1. CASE a = len + 1
        BY <3>3, <4>1
      <4>2. CASE a # len + 1
        <5>1. a \in 1..len
          BY <3>2, <4>2
        <5> QED
          BY <2>4, <3>3, <4>2, <5>1 DEF len
      <4> QED
        BY <4>1, <4>2
    <3> HIDE DEF q
    <3>8. Picked(F[m], s, before \cup {m})
      <4> DEFINE sel == F[m]
                 all == before \cup {m}
                 count == len + 1
      <4>1. Len(sel) = count
        BY <3>2
      <4> HIDE DEF sel, all, count
      <4>2. /\ q \in [1..count -> all]
            /\ \A a, b \in 1..count : a < b => q[a] < q[b]
            /\ \A i \in all : \E a \in 1..count : q[a] = i
            /\ \A a \in 1..count : sel[a] = s[q[a]]
        BY <3>4, <3>5, <3>6, <3>7, Zenon DEF sel, all, count
      <4>3. PickedAs(sel, s, all, count, q)
        BY <4>1, <4>2, Zenon DEF PickedAs
      <4>4. Picked(sel, s, all)
        BY <4>3, PickedBy, Zenon
      <4> QED
        BY <4>4, Zenon DEF sel, all
    <3> QED
      BY <2>1, <2>3, <3>1, <3>8
  <2> QED
    BY <2>5, <2>6
<1>3. n \in T
  <2> HIDE DEF T
  <2> QED
    BY <1>1, <1>2, UpTo
<1>4. good \cap (1..n) = good
  OBVIOUS
<1> QED
  BY <1>3, <1>4

\* A selection exists for every sequence and every set of positions.
LEMMA SelectionExists ==
    ASSUME NEW s, NEW n \in Nat, DOMAIN s = 1..n, NEW good \in SUBSET (1..n)
    PROVE  \E F \in [0..n -> Seq({s[i] : i \in 1..n})] : Selects(F, s, n, good)
<1> DEFINE S == {s[i] : i \in 1..n}
           G == [kv \in (1..n) \X Seq(S) |-> IF kv[1] \in good THEN Append(kv[2], s[kv[1]]) ELSE kv[2]]
<1>1. \A i \in 1..n : s[i] \in S
  OBVIOUS
<1> HIDE DEF S
<1>2. G \in [(1..n) \X Seq(S) -> Seq(S)]
  BY <1>1
<1>3. <<>> \in Seq(S)
  OBVIOUS
<1>4. PICK F \in [0..n -> Seq(S)] : Iterated(F, n, <<>>, G)
  <2> HIDE DEF G
  <2> QED
    BY <1>2, <1>3, IterationExists
<1>5. ASSUME NEW i \in 1..n PROVE F[i] = IF i \in good THEN Append(F[i - 1], s[i]) ELSE F[i - 1]
  <2>1. <<i, F[i - 1]>> \in (1..n) \X Seq(S)
    OBVIOUS
  <2>2. F[i] = G[<<i, F[i - 1]>>]
    BY <1>4 DEF Iterated
  <2> QED
    BY <2>1, <2>2
<1>6. Selects(F, s, n, good)
  BY <1>4, <1>5 DEF Selects, Iterated
<1> QED
  BY <1>6 DEF S

\* What a mask leaves: the elements at its positions, in their order.
LEMMA MaskedIsPicked ==
    ASSUME NEW S, NEW s \in Seq(S), NEW good \in SUBSET (1..Len(s))
    PROVE  Masked(s, good) \in Seq(S) /\ Picked(Masked(s, good), s, good)
<1> DEFINE n == Len(s)
           Looped(f) == [i \in 0..n |-> IF i = 0 THEN <<>>
                                       ELSE IF i \in good THEN Append(f[i - 1], s[i]) ELSE f[i - 1]]
           F == CHOOSE f : f = Looped(f)
<1>1. Masked(s, good) = F[n]
  BY DEF Masked
<1>2. n \in Nat /\ DOMAIN s = 1..n /\ good \in SUBSET (1..n) /\ \A i \in 1..n : s[i] \in S
  OBVIOUS
<1> HIDE DEF n
<1>3. PICK f \in [0..n -> Seq({s[i] : i \in 1..n})] : Selects(f, s, n, good)
  BY <1>2, SelectionExists
<1>4. f = Looped(f)
  <2>1. ASSUME NEW i \in 1..n PROVE f[i] = IF i \in good THEN Append(f[i - 1], s[i]) ELSE f[i - 1]
    BY <1>3 DEF Selects
  <2>2. f[0] = <<>>
    BY <1>3 DEF Selects
  <2>3. f = [i \in 0..n |-> f[i]]
    OBVIOUS
  <2>4. \A i \in 0..n : f[i] = IF i = 0 THEN <<>>
                               ELSE IF i \in good THEN Append(f[i - 1], s[i]) ELSE f[i - 1]
    <3> SUFFICES ASSUME NEW i \in 0..n
                 PROVE  f[i] = IF i = 0 THEN <<>>
                               ELSE IF i \in good THEN Append(f[i - 1], s[i]) ELSE f[i - 1]
      OBVIOUS
    <3>1. i = 0 \/ i \in 1..n
      BY <1>2
    <3>2. 0 \notin 1..n
      OBVIOUS
    <3> QED
      BY <2>1, <2>2, <3>1, <3>2, Zenon
  <2> QED
    BY <2>3, <2>4, Zenon
<1>5. F = Looped(F)
  <2> HIDE DEF Looped
  <2> QED
    BY <1>4
<1>6. Selects(F, s, n, good)
  <2> HIDE DEF F
  <2>1. F[0] = <<>>
    BY <1>2, <1>5
  <2>2. ASSUME NEW i \in 1..n PROVE F[i] = IF i \in good THEN Append(F[i - 1], s[i]) ELSE F[i - 1]
    <3>1. i \in 0..n /\ i # 0
      BY <1>2
    <3>2. Looped(F)[i] = IF i \in good THEN Append(F[i - 1], s[i]) ELSE F[i - 1]
      BY <3>1
    <3> QED
      BY <1>5, <3>2
  <2> QED
    BY <2>1, <2>2 DEF Selects
<1> HIDE DEF F
<1> QED
  BY <1>1, <1>2, <1>6, SelectionIsPicked DEF n

-----------------------------------------------------------------------------
(* fov_restrict                                                            *)

\* A bearing is so many full circles and the rest.
InTurns(x, q, r) == x = 360 * q + r /\ r <= 359 /\ (x % 360) = r

\* There are such circles and such a rest.
LEMMA TurnsSome ==
    ASSUME NEW x \in Int
    PROVE  \E q \in Int, r \in Nat : InTurns(x, q, r)
<1> DEFINE q == x \div 360
           r == x % 360
<1>1. q \in Int /\ r \in Nat /\ InTurns(x, q, r)
  BY DEF InTurns
<1> HIDE DEF q, r
<1> QED
  BY <1>1, Zenon

\* The same, written out.
LEMMA Turns ==
    ASSUME NEW x \in Int
    PROVE  \E q \in Int, r \in Nat : x = 360 * q + r /\ r <= 359 /\ x % 360 = r
<1>1. x % 360 \in Nat /\ x % 360 <= 359 /\ x \div 360 \in Int /\ x = 360 * (x \div 360) + (x % 360)
  OBVIOUS
<1> QED
  BY <1>1

\* Whole turns do not change a bearing.
LEMMA TurnsAre ==
    ASSUME NEW q \in Int, NEW r \in Nat, r <= 359
    PROVE  (360 * q + r) % 360 = r
  OBVIOUS

\* The way round has the width that the code computes.
LEMMA WayHasWidth ==
    ASSUME NEW args, args.min_bearing \in Int, args.max_bearing \in Int
    PROVE  Width(args) \in Nat /\ WayEnd(args) = args.min_bearing + Width(args)
<1> DEFINE lo == args.min_bearing
           hi == args.max_bearing
           ways == {b \in lo + 1..lo + 360 : ((b - hi) % 360) = 0}
           w == 360 - ((lo - hi) % 360)
<1>1. CASE hi > lo
  BY <1>1 DEF Width, WayEnd
<1>2. CASE ~(hi > lo)
  <2>1. Width(args) = w /\ WayEnd(args) = Min(ways)
    <3>1. hi - lo <= 0 /\ -(hi - lo) = lo - hi
      BY <1>2
    <3> QED
      BY <1>2, <3>1 DEF Width, WayEnd
  <2>6. PICK q \in Int, r \in Nat : lo - hi = 360 * q + r /\ r <= 359 /\ (lo - hi) % 360 = r
    <3>1. lo - hi \in Int
      OBVIOUS
    <3>2. PICK q \in Int, r \in Nat : InTurns(lo - hi, q, r)
      BY <3>1, TurnsSome, Zenon
    <3> QED
      BY <3>2 DEF InTurns
  <2>7. w = 360 - r
    BY <2>6
  <2>2. w \in Nat /\ lo + w \in ways
    <3>1. lo + w - hi = 360 * (q + 1) + 0 /\ q + 1 \in Int
      BY <2>6, <2>7
    <3>2. (360 * (q + 1) + 0) % 360 = 0
      BY <3>1, TurnsAre
    <3> HIDE DEF w
    <3> QED
      BY <2>6, <2>7, <3>1, <3>2
  <2>3. ASSUME NEW b \in ways PROVE b = lo + w
    <3>1. PICK p \in Int, s \in Nat : b - hi = 360 * p + s /\ s <= 359 /\ (b - hi) % 360 = s
      <4>1. b - hi \in Int
        OBVIOUS
      <4>2. PICK p \in Int, s \in Nat : InTurns(b - hi, p, s)
        BY <4>1, TurnsSome, Zenon
      <4> QED
        BY <4>2 DEF InTurns
    <3>2. s = 0 /\ b \in Int /\ lo + 1 <= b /\ b <= lo + 360
      BY <3>1
    <3> HIDE DEF w, ways
    <3> QED
      BY <2>6, <2>7, <3>1, <3>2
  <2>4. ways \in SUBSET Int /\ IsFiniteSet(ways)
    <3>1. IsFiniteSet(lo + 1..lo + 360)
      BY FS_Interval
    <3> QED
      BY <3>1, FS_Subset
  <2> HIDE DEF ways, w
  <2>5. Min(ways) \in ways
    BY <2>2, <2>4, HasMin
  <2> QED
    BY <2>1, <2>2, <2>3, <2>5
<1> QED
  BY <1>1, <1>2

\* A bearing is within w of lo, going up, exactly if it is one of those between.
Met(bearing, lo, w) ==
    ((bearing - lo) % 360) <= w <=> \E b \in lo..lo + w : ((b - bearing) % 360) = 0

\* The code's test of a bearing is whether it is met on the way.
LEMMA MetOnTheWay ==
    ASSUME NEW lo \in Int, NEW w \in Nat, NEW bearing \in Int
    PROVE  Met(bearing, lo, w)
<1>1. PICK q \in Int, r \in Nat : bearing - lo = 360 * q + r /\ r <= 359 /\ (bearing - lo) % 360 = r
  BY Turns
<1>2. ASSUME r <= w
      PROVE  \E b \in lo..lo + w : ((b - bearing) % 360) = 0
  <2>1. lo + r \in lo..lo + w /\ (lo + r) - bearing = 360 * (-q) + 0 /\ -q \in Int
    BY <1>1, <1>2
  <2>2. (360 * (-q) + 0) % 360 = 0
    BY <2>1, TurnsAre
  <2>3. (((lo + r) - bearing) % 360) = 0
    BY <2>1, <2>2
  <2> DEFINE b == lo + r
  <2> HIDE DEF b
  <2> QED
    BY <2>1, <2>3 DEF b
<1>3. ASSUME NEW b \in lo..lo + w, ((b - bearing) % 360) = 0
      PROVE  r <= w
  <2>1. PICK p \in Int, s \in Nat : b - bearing = 360 * p + s /\ s <= 359 /\ (b - bearing) % 360 = s
    BY Turns
  <2>2. s = 0 /\ lo <= b /\ b <= lo + w
    BY <1>3, <2>1
  <2>3. b - lo = 360 * (p + q) + r
    BY <1>1, <2>1, <2>2
  <2> QED
    BY <1>1, <2>1, <2>2, <2>3
<1> QED
  BY <1>1, <1>2, <1>3 DEF Met

\* What a point of a cloud and the arguments are: angles are whole degrees, no
\* point lies beyond the zenith or the nadir, and a point's id is its place.
IsCloud(cloud) ==
    /\ cloud \in Seq(Range(cloud)) 
    /\ \A k \in DOMAIN cloud :
        /\ cloud[k].id = k
        /\ cloud[k].bearing \in Int /\ cloud[k].range \in Int /\ cloud[k].intensity \in Int
        /\ cloud[k].elevation \in Int /\ -90 <= cloud[k].elevation /\ cloud[k].elevation <= 90
        /\ "intensity" \in DOMAIN cloud[k] /\ "ring" \in DOMAIN cloud[k] /\ "id" \in DOMAIN cloud[k]
\* A view: four whole degrees.
IsView(args) ==
    /\ args.min_bearing \in Int /\ args.max_bearing \in Int
    /\ args.min_elevation \in Int /\ args.max_elevation \in Int

\* fov_restrict: the mask keeps what is inside the wedge asked for.
LEMMA InsideIsInWedge ==
    ASSUME NEW cloud, IsCloud(cloud), NEW args, IsView(args), NEW k \in DOMAIN cloud
    PROVE  InWedge(cloud[k], args) <=> cloud[k] \in Inside(cloud, args)
<1> DEFINE p == cloud[k]
           lo == args.min_bearing
           w == Width(args)
<1>1. p \in Range(cloud)
  BY DEF Range
<1>2. /\ p.bearing \in Int /\ p.elevation \in Int /\ -90 <= p.elevation /\ p.elevation <= 90
  BY DEF IsCloud
<1>3. lo \in Int /\ w \in Nat /\ WayEnd(args) = lo + w
  BY WayHasWidth DEF IsView
<1>4. ((p.bearing - lo) % 360) <= w <=> \E b \in lo..WayEnd(args) : ((b - p.bearing) % 360) = 0
  <2> DEFINE bearing == p.bearing
  <2>1. bearing \in Int
    BY <1>2
  <2> HIDE DEF bearing, lo, w
  <2>2. Met(bearing, lo, w)
    BY <1>3, <2>1, MetOnTheWay
  <2> QED
    BY <1>3, <2>2 DEF bearing, Met
<1>5. (args.min_elevation > -90 \/ args.max_elevation < 90 =>
            args.min_elevation <= p.elevation /\ p.elevation <= args.max_elevation)
      <=> args.min_elevation <= p.elevation /\ p.elevation <= args.max_elevation
  BY <1>2 DEF IsView
<1> HIDE DEF p
<1> QED
  BY <1>1, <1>4, <1>5 DEF InWedge, Inside, p

-----------------------------------------------------------------------------
(* fov_restrict: the cloud published                                       *)

\* A point as it leaves the node.
Encoded(args, point) == IF args.emit_xyzirc THEN ToXyzirc(point) ELSE point

\* `shown' are the encoded points at some places of the cloud, each once.
Shown(cloud, args, good, shown, q) ==
    /\ q \in [1..Len(shown) -> good]
    /\ \A a, b \in 1..Len(shown) : a # b => q[a] # q[b]
    /\ \A a \in 1..Len(shown) : shown[a] = Encoded(args, cloud[q[a]])
    /\ ~args.thin => \A i \in good : \E a \in 1..Len(shown) : q[a] = i

\* fov_restrict: the cloud that is published, with the padding it draws.
LEMMA CloudIsShown ==
    ASSUME NEW cloud, IsCloud(cloud), NEW args, NEW drawn
    PROVE  LET shown == OnCloud(cloud, args, drawn)
               good == {k \in DOMAIN cloud : InWedge(cloud[k], args)}
           IN  shown \in Seq(Range(shown)) /\ \E q : Shown(cloud, args, good, shown, q)
<1> DEFINE shown == OnCloud(cloud, args, drawn)
           good == {k \in DOMAIN cloud : InWedge(cloud[k], args)}
           kept == Masked(cloud, good)
           encoded == [k \in DOMAIN kept |-> IF args.emit_xyzirc THEN ToXyzirc(kept[k]) ELSE kept[k]]
           mask == {k \in DOMAIN kept : drawn[k]}
<1>1. shown = IF args.thin THEN Masked(encoded, mask) ELSE encoded
  BY DEF OnCloud
<1>2. cloud \in Seq(Range(cloud)) /\ good \in SUBSET (1..Len(cloud))
  BY DEF IsCloud
<1> HIDE DEF shown, good
<1>3. kept \in Seq(Range(cloud)) /\ Picked(kept, cloud, good)
  BY <1>2, MaskedIsPicked
<1> HIDE DEF kept
<1> DEFINE m == Len(kept)
<1>4. m \in Nat /\ DOMAIN kept = 1..m /\ Len(encoded) = m /\ encoded \in Seq(Range(encoded))
      /\ mask \in SUBSET (1..m) /\ DOMAIN encoded = 1..m
  BY <1>3 DEF Range
<1>5. ASSUME NEW k \in 1..m PROVE encoded[k] = Encoded(args, kept[k])
  BY <1>4 DEF Encoded
<1>6. PICK p \in [1..m -> good] :
        /\ \A a, b \in 1..m : a < b => p[a] < p[b]
        /\ \A i \in good : \E a \in 1..m : p[a] = i
        /\ \A a \in 1..m : kept[a] = cloud[p[a]]
  BY <1>3 DEF Picked
<1>7. \A a, b \in 1..m : a # b => p[a] # p[b]
  <2> SUFFICES ASSUME NEW a \in 1..m, NEW b \in 1..m, a # b PROVE p[a] # p[b]
    OBVIOUS
  <2>3. good \subseteq Int
    BY <1>2
  <2>1. p[a] \in Int /\ p[b] \in Int
    BY <1>6, <2>3
  <2>2. a < b \/ b < a
    BY <1>4
  <2> QED
    BY <1>6, <2>1, <2>2
<1> HIDE DEF m, encoded, mask
<1>8. CASE ~args.thin
  <2>1. Shown(cloud, args, good, encoded, p)
    BY <1>4, <1>5, <1>6, <1>7 DEF Shown
  <2>2. shown = encoded
    BY <1>1, <1>8
  <2> QED
    BY <1>4, <2>1, <2>2 DEF shown, good
<1>9. CASE args.thin
  <2> DEFINE thinned == Masked(encoded, mask)
  <2>1. thinned \in Seq(Range(encoded)) /\ Picked(thinned, encoded, mask)
    BY <1>4, MaskedIsPicked
  <2>2. shown = thinned
    BY <1>1, <1>9
  <2> HIDE DEF thinned
  <2> DEFINE len == Len(thinned)
  <2>3. len \in Nat /\ thinned \in Seq(Range(thinned))
    BY <2>1 DEF Range
  <2>4. PICK t \in [1..len -> mask] :
          /\ \A a, b \in 1..len : a < b => t[a] < t[b]
          /\ \A a \in 1..len : thinned[a] = encoded[t[a]]
    BY <2>1 DEF Picked
  <2> HIDE DEF len
  <2> DEFINE q == [a \in 1..len |-> p[t[a]]]
  <2>5. ASSUME NEW a \in 1..len
        PROVE  t[a] \in 1..m /\ q[a] = p[t[a]] /\ thinned[a] = Encoded(args, cloud[q[a]])
    <3>1. t[a] \in 1..m
      BY <1>4, <2>4
    <3>2. thinned[a] = encoded[t[a]]
      BY <2>4
    <3>3. q[a] = p[t[a]]
      OBVIOUS
    <3> QED
      BY <1>5, <1>6, <3>1, <3>2, <3>3
  <2>6. q \in [1..len -> good]
    <3> SUFFICES ASSUME NEW a \in 1..len PROVE p[t[a]] \in good
      OBVIOUS
    <3> QED
      BY <1>6, <2>5
  <2>7. ASSUME NEW a \in 1..len, NEW b \in 1..len, a # b PROVE q[a] # q[b]
    <3>1. a < b \/ b < a
      BY <2>3, <2>7
    <3>2. t[a] \in Int /\ t[b] \in Int
      BY <2>5
    <3>3. t[a] # t[b]
      BY <2>4, <3>1, <3>2
    <3> QED
      BY <1>7, <2>5, <3>3
  <2> HIDE DEF q
  <2>8. Shown(cloud, args, good, thinned, q)
    BY <1>9, <2>5, <2>6, <2>7 DEF Shown, len
  <2> QED
    BY <2>2, <2>3, <2>8 DEF shown, good
<1> QED
  BY <1>8, <1>9

\* What encoding leaves of a point.
LEMMA EncodedPoint ==
    ASSUME NEW cloud, IsCloud(cloud), NEW args, NEW k \in DOMAIN cloud
    PROVE  LET p == Encoded(args, cloud[k])
               clipped == IF cloud[k].intensity < 0 THEN 0
                          ELSE IF cloud[k].intensity > 255 THEN 255 ELSE cloud[k].intensity
           IN  /\ p.id = k
               /\ args.emit_xyzirc => p.intensity = clipped
               /\ ~args.emit_xyzirc => p.intensity = cloud[k].intensity
  BY DEF Encoded, ToXyzirc, IsCloud

\* Such a cloud is the wedge.
LEMMA ShownIsWedge ==
    ASSUME NEW cloud, IsCloud(cloud), NEW args, IsView(args), NEW shown, shown \in Seq(Range(shown)), NEW q,
           Shown(cloud, args, {k \in DOMAIN cloud : InWedge(cloud[k], args)}, shown, q)
    PROVE  Wedge(cloud, args, shown)
<1> DEFINE good == {k \in DOMAIN cloud : InWedge(cloud[k], args)}
           ids == {p.id : p \in Range(shown)}
           inside == {p.id : p \in Inside(cloud, args)}
           n == Len(shown)
<1>1. n \in Nat /\ DOMAIN shown = 1..n /\ Range(shown) = {shown[a] : a \in 1..n}
  BY DEF Range
<1>2. inside = good
  <2>1. \A k \in DOMAIN cloud : cloud[k].id = k /\ (k \in good <=> cloud[k] \in Inside(cloud, args))
    BY InsideIsInWedge DEF IsCloud
  <2>2. \A p \in Inside(cloud, args) : \E k \in DOMAIN cloud : p = cloud[k]
    BY DEF Inside, Range
  <2>3. good \subseteq DOMAIN cloud
    OBVIOUS
  <2> HIDE DEF good
  <2> QED
    BY <2>1, <2>2, <2>3
<1>3. /\ q \in [1..n -> good]
      /\ \A a, b \in 1..n : a # b => q[a] # q[b]
      /\ \A a \in 1..n : shown[a] = Encoded(args, cloud[q[a]])
      /\ ~args.thin => \A i \in good : \E a \in 1..n : q[a] = i
  BY DEF Shown
<1>4. ASSUME NEW a \in 1..n
      PROVE  /\ q[a] \in DOMAIN cloud /\ shown[a].id = q[a]
             /\ args.emit_xyzirc => shown[a].intensity = IF cloud[q[a]].intensity < 0 THEN 0
                                     ELSE IF cloud[q[a]].intensity > 255 THEN 255
                                     ELSE cloud[q[a]].intensity
             /\ ~args.emit_xyzirc => shown[a].intensity = cloud[q[a]].intensity
             /\ cloud[q[a]].intensity \in Int
  <2>1. q[a] \in good /\ q[a] \in DOMAIN cloud
    BY <1>3
  <2> HIDE DEF good
  <2> QED
    BY <1>3, <2>1, EncodedPoint DEF IsCloud
<1> HIDE DEF good, n, inside
<1>5. ids = {q[a] : a \in 1..n}
  <2>1. Range(shown) = {shown[a] : a \in 1..n} /\ \A a \in 1..n : shown[a].id = q[a]
    BY <1>1, <1>4, Zenon
  <2> QED
    BY <2>1
<1> HIDE DEF ids
<1>6. ids \subseteq good /\ (~args.thin => ids = good)
  BY <1>3, <1>5
<1>7. Cardinality(ids) = n
  <2>1. q \in Bijection(1..n, ids)
    <3>1. q \in [1..n -> ids] /\ \A i \in ids : \E a \in 1..n : q[a] = i
      BY <1>3, <1>5
    <3>2. \A a, b \in 1..n : q[a] = q[b] => a = b
      BY <1>3
    <3> QED
      BY <3>1, <3>2 DEF Bijection, Injection, Surjection, IsInjective
  <2> QED
    BY <1>1, <2>1, FS_CountingElements DEF ExistsBijection
<1>8. args.emit_xyzirc => \A p \in Range(shown) : p.intensity \in 0..255
  <2> SUFFICES ASSUME args.emit_xyzirc, NEW a \in 1..n PROVE shown[a].intensity \in 0..255
    BY <1>1
  <2> DEFINE i == cloud[q[a]].intensity
  <2>1. i \in Int /\ shown[a].intensity = IF i < 0 THEN 0 ELSE IF i > 255 THEN 255 ELSE i
    BY <1>4
  <2> HIDE DEF i
  <2> QED
    BY <2>1
<1>9. \A p, r \in Range(shown) :
        cloud[p.id].intensity <= cloud[r.id].intensity => p.intensity <= r.intensity
  <2> SUFFICES ASSUME NEW a \in 1..n, NEW b \in 1..n,
                      cloud[shown[a].id].intensity <= cloud[shown[b].id].intensity
               PROVE  shown[a].intensity <= shown[b].intensity
    BY <1>1
  <2> DEFINE i == cloud[q[a]].intensity
             j == cloud[q[b]].intensity
  <2>1. /\ args.emit_xyzirc =>
             /\ shown[a].intensity = IF i < 0 THEN 0 ELSE IF i > 255 THEN 255 ELSE i
             /\ shown[b].intensity = IF j < 0 THEN 0 ELSE IF j > 255 THEN 255 ELSE j
        /\ ~args.emit_xyzirc => shown[a].intensity = i /\ shown[b].intensity = j
        /\ i <= j /\ i \in Int /\ j \in Int
    BY <1>4
  <2> HIDE DEF i, j
  <2> QED
    BY <2>1
<1> QED
  BY <1>2, <1>6, <1>7, <1>8, <1>9 DEF Wedge, ids, inside, n

\* Whatever cloud and view: what passes is the wedge.
THEOREM AnyViewIsAWedge ==
    ASSUME NEW cloud, IsCloud(cloud), NEW args, IsView(args), NEW drawn
    PROVE  Wedge(cloud, args, OnCloud(cloud, args, drawn))
<1> DEFINE shown == OnCloud(cloud, args, drawn)
           good == {k \in DOMAIN cloud : InWedge(cloud[k], args)}
<1>1. shown \in Seq(Range(shown))
  BY CloudIsShown
<1>2. PICK q : Shown(cloud, args, good, shown, q)
  BY CloudIsShown
<1> HIDE DEF shown
<1>3. Wedge(cloud, args, shown)
  BY <1>1, <1>2, ShownIsWedge
<1> QED
  BY <1>3 DEF shown

-----------------------------------------------------------------------------
(* merge_maps and centerline_to_lanelet                                    *)

\* A lanelet map: every reference is to an element, no two elements share an id.
IsElement(e) == e.id \in Nat /\ e.refs \in SUBSET Nat /\ e = Element(e.what, e.id, e.refs)
IsMap(map) ==
    /\ IsFiniteSet(map)
    /\ \A e \in map : IsElement(e) /\ e.refs \subseteq IdsIn(map)
    /\ \A e, f \in map : e.id = f.id => e = f

\* Elements with ids of their own disturb nothing.
LEMMA AddedApart ==
    ASSUME NEW before, NEW after, before \subseteq after,
           \A e \in before, f \in after : f \notin before => f.id \notin e.refs
    PROVE  KeptIn(before, after)
<1> SUFFICES ASSUME NEW e \in before
             PROVE  {Meanings(after, ref) : ref \in e.refs} = {Meanings(before, ref) : ref \in e.refs}
  BY DEF KeptIn
<1>1. ASSUME NEW ref \in e.refs PROVE Meanings(after, ref) = Meanings(before, ref)
  BY DEF Meanings
<1> QED
  BY <1>1

\* merge_maps: an element of the second map with its ids moved.
LEMMA RenumberedIs ==
    ASSUME NEW e, IsElement(e)
    PROVE  /\ Renumbered(e).what = e.what /\ Renumbered(e).id = e.id + ID_OFFSET
           /\ Renumbered(e).refs = {ref + ID_OFFSET : ref \in e.refs}
           /\ IsElement(Renumbered(e))
<1>1. e.id + ID_OFFSET \in Nat /\ {ref + ID_OFFSET : ref \in e.refs} \in SUBSET Nat
  BY DEF IsElement, ID_OFFSET
<1> QED
  BY <1>1 DEF Renumbered, IsElement, Element

\* merge_maps: both maps mean in the merged one what they meant, provided the
\* first has the ids of a map that was not merged before.
THEOREM AnyMergeKeepsBoth ==
    ASSUME NEW a, IsMap(a), \A e \in a : e.id < ID_OFFSET, NEW b, IsMap(b)
    PROVE  LET merged == MergeLanelet2(a, b)
           IN  IsMap(merged) /\ KeptIn(a, merged) /\ KeptIn(b, merged)
<1> DEFINE merged == MergeLanelet2(a, b)
           moved == {Renumbered(e) : e \in b}
<1>1. merged = a \cup moved
  BY DEF MergeLanelet2
<1>2. /\ \A e \in a : IsElement(e) /\ e.refs \subseteq IdsIn(a) /\ e.id < ID_OFFSET
      /\ \A e \in b : IsElement(e) /\ e.refs \subseteq IdsIn(b)
      /\ ID_OFFSET \in Nat
  BY DEF IsMap, ID_OFFSET
<1>3. ASSUME NEW e \in b
      PROVE  /\ Renumbered(e).what = e.what /\ Renumbered(e).id = e.id + ID_OFFSET
             /\ Renumbered(e).refs = {ref + ID_OFFSET : ref \in e.refs}
             /\ IsElement(Renumbered(e)) /\ e.id \in Nat
  BY <1>2, RenumberedIs DEF IsElement
<1>4. \A f \in moved : \E e \in b : f = Renumbered(e)
  OBVIOUS
<1>5. \A f \in moved : f.id \in Nat /\ f.id >= ID_OFFSET
  BY <1>2, <1>3, <1>4
<1>6. \A e \in b : Renumbered(e) \in moved
  OBVIOUS
<1> HIDE DEF moved, merged
<1>7. IsMap(merged)
  <2>1. IsFiniteSet(merged)
    <3> DEFINE f == [e \in b |-> Renumbered(e)]
    <3>1. f \in Surjection(b, moved)
      BY DEF Surjection, moved
    <3> HIDE DEF f
    <3> QED
      BY <1>1, <3>1, FS_Surjection, FS_Union DEF IsMap
  <2>2. ASSUME NEW e \in merged PROVE IsElement(e) /\ e.refs \subseteq IdsIn(merged)
    <3>1. CASE e \in a
      BY <1>1, <1>2, <3>1 DEF IdsIn
    <3>2. CASE e \in moved
      <4>1. PICK g \in b : e = Renumbered(g)
        BY <1>4, <3>2
      <4>2. ASSUME NEW ref \in g.refs PROVE ref + ID_OFFSET \in IdsIn(merged)
        <5>1. PICK h \in b : h.id = ref
          BY <1>2 DEF IdsIn
        <5> QED
          BY <1>1, <1>3, <1>6, <5>1 DEF IdsIn
      <4> QED
        BY <1>3, <4>1, <4>2
    <3> QED
      BY <1>1, <3>1, <3>2
  <2>3. ASSUME NEW e \in merged, NEW f \in merged, e.id = f.id PROVE e = f
    <3>1. CASE e \in a /\ f \in a
      BY <2>3, <3>1 DEF IsMap
    <3>2. CASE e \in moved /\ f \in moved
      <4>1. PICK g \in b, h \in b : e = Renumbered(g) /\ f = Renumbered(h)
        BY <1>4, <3>2
      <4>2. g.id = h.id
        BY <1>2, <1>3, <2>3, <4>1
      <4> QED
        BY <4>1, <4>2 DEF IsMap
    <3>3. CASE (e \in a /\ f \in moved) \/ (e \in moved /\ f \in a)
      BY <1>2, <1>5, <2>3, <3>3 DEF IsElement
    <3> QED
      BY <1>1, <3>1, <3>2, <3>3
  <2> QED
    BY <2>1, <2>2, <2>3 DEF IsMap
<1>8. KeptIn(a, merged)
  <2>1. ASSUME NEW e \in a, NEW f \in merged, f \notin a PROVE f.id \notin e.refs
    <3>1. f \in moved /\ f.id \in Nat /\ f.id >= ID_OFFSET
      BY <1>1, <1>5, <2>1
    <3>2. \A ref \in e.refs : ref \in Nat /\ ref < ID_OFFSET
      BY <1>2 DEF IdsIn, IsElement
    <3> QED
      BY <1>2, <3>1, <3>2
  <2> QED
    BY <1>1, <2>1, AddedApart
<1>9. KeptIn(b, merged)
  <2>1. ASSUME NEW ref \in Nat PROVE Meanings(merged, ref + ID_OFFSET) = Meanings(b, ref)
    <3>1. ASSUME NEW f \in merged, f.id = ref + ID_OFFSET
          PROVE  \E e \in b : e.id = ref /\ f.what = e.what
      <4>1. f \in moved
        BY <1>1, <1>2, <3>1 DEF IsElement
      <4>2. PICK e \in b : f = Renumbered(e)
        BY <1>4, <4>1
      <4> QED
        BY <1>2, <1>3, <3>1, <4>2
    <3>2. ASSUME NEW e \in b, e.id = ref
          PROVE  \E f \in merged : f.id = ref + ID_OFFSET /\ f.what = e.what
      BY <1>1, <1>3, <1>6, <3>2
    <3> QED
      BY <3>1, <3>2 DEF Meanings
  <2>2. ASSUME NEW e \in b
        PROVE  {Meanings(merged, ref) : ref \in Renumbered(e).refs} = {Meanings(b, ref) : ref \in e.refs}
    <3>1. Renumbered(e).refs = {ref + ID_OFFSET : ref \in e.refs} /\ e.refs \subseteq Nat
      BY <1>2, <1>3 DEF IsElement
    <3> QED
      BY <2>1, <3>1
  <2> QED
    BY <1>1, <1>3, <1>6, <2>2 DEF KeptIn
<1> QED
  BY <1>7, <1>8, <1>9 DEF merged

-----------------------------------------------------------------------------
(* The ids of a lane that is added                                         *)

\* The first free generation of ids lies beyond every id of the base.
LEMMA OffsetIsFree ==
    ASSUME NEW base, IsMap(base)
    PROVE  /\ FreeOffset(base) \in Nat /\ \A e \in base : e.id < NODE_ID0 + FreeOffset(base)
           /\ (\A e \in base : e.id < NODE_ID0) => FreeOffset(base) = 0
<1> DEFINE ids == {0} \cup IdsIn(base)
           m == Max(ids)
           free == {h \in 0..1 + m : ~Reached(base, h * ID_OFFSET)}
           offsets == {g * ID_OFFSET : g \in free}
<1>1. IsFiniteSet(ids) /\ ids \in SUBSET Nat /\ 0 \in ids
  <2>1. IsFiniteSet(IdsIn(base))
    <3> DEFINE f == [e \in base |-> e.id]
    <3>1. f \in Surjection(base, IdsIn(base))
      BY DEF Surjection, IdsIn
    <3> HIDE DEF f
    <3> QED
      BY <3>1, FS_Surjection DEF IsMap
  <2>2. IsFiniteSet({0})
    BY FS_Singleton
  <2>3. IdsIn(base) \in SUBSET Nat
    BY DEF IsMap, IsElement, IdsIn
  <2>4. IsFiniteSet({0} \cup IdsIn(base))
    BY <2>1, <2>2, FS_Union
  <2> QED
    BY <2>3, <2>4
<1>2. m \in ids /\ m \in Nat /\ \A i \in ids : i <= m
  <2>1. ids \in SUBSET Int /\ ids # {}
    BY <1>1
  <2> HIDE DEF ids
  <2> QED
    BY <1>1, <2>1, HasMax
<1>3. 1 + m \in free
  <2> HIDE DEF m
  <2>1. ~Reached(base, (1 + m) * ID_OFFSET)
    <3>1. \A i \in IdsIn(base) : i \in Nat /\ i <= m
      BY <1>1, <1>2
    <3> QED
      BY <1>2, <3>1 DEF Reached, ID_OFFSET, NODE_ID0
  <2> QED
    BY <1>2, <2>1
<1>4. FreeOffset(base) = Min(offsets)
  BY DEF FreeOffset
<1>5. IsFiniteSet(offsets) /\ offsets \in SUBSET Nat /\ offsets # {}
  <2>1. IsFiniteSet(free) /\ free \in SUBSET Nat
    <3>1. IsFiniteSet(0..1 + m)
      BY <1>2, FS_Interval
    <3> HIDE DEF m
    <3> QED
      BY <1>2, <3>1, FS_Subset
  <2> HIDE DEF free
  <2> DEFINE f == [g \in free |-> g * ID_OFFSET]
  <2>2. f \in Surjection(free, offsets)
    BY DEF Surjection
  <2> HIDE DEF f
  <2>3. offsets \in SUBSET Nat /\ offsets # {}
    <3>1. \A g \in free : g * ID_OFFSET \in Nat
      BY <2>1 DEF ID_OFFSET
    <3> HIDE DEF m
    <3> QED
      BY <1>3, <3>1
  <2> QED
    BY <2>1, <2>2, <2>3, FS_Surjection
<1>6. Min(offsets) \in offsets /\ \A offset \in offsets : Min(offsets) <= offset
  <2> HIDE DEF offsets
  <2>1. offsets \in SUBSET Int
    BY <1>5
  <2> QED
    BY <1>5, <2>1, HasMin
<1>7. PICK g \in free : Min(offsets) = g * ID_OFFSET
  BY <1>6
<1>8. \A i \in IdsIn(base) : ~(i >= NODE_ID0 + g * ID_OFFSET)
  BY <1>7 DEF Reached
<1>9. g * ID_OFFSET \in Nat
  BY <1>5, <1>6, <1>7
<1>10. ASSUME NEW e \in base PROVE e.id < NODE_ID0 + g * ID_OFFSET
  BY <1>8, <1>9 DEF IdsIn, IsMap, IsElement, NODE_ID0
<1>11. (\A e \in base : e.id < NODE_ID0) => Min(offsets) = 0
  <2> SUFFICES ASSUME \A e \in base : e.id < NODE_ID0 PROVE Min(offsets) = 0
    OBVIOUS
  <2>1. 0 * ID_OFFSET = 0
    BY DEF ID_OFFSET
  <2>2. ~Reached(base, 0 * ID_OFFSET)
    BY <2>1 DEF Reached, IdsIn, IsMap, IsElement, NODE_ID0
  <2>3. 0 \in 0..1 + m
    <3> HIDE DEF m
    <3> QED
      BY <1>2
  <2>4. 0 \in offsets
    <3> HIDE DEF m
    <3> QED
      BY <2>1, <2>2, <2>3
  <2> HIDE DEF offsets
  <2> QED
    BY <1>6, <1>7, <1>9, <2>4
<1> QED
  BY <1>4, <1>7, <1>9, <1>10, <1>11

\* The lanelets are cut at samples of the lane: no two begin at the same one.
IsSegments(segments, n) ==
    /\ IsFiniteSet(segments) /\ Cardinality(segments) <= n
    /\ \A s \in segments : s[1] \in 0..n - 1 /\ s[2] \in 0..n - 1
    /\ \A s, t \in segments : s[1] = t[1] => s = t

\* How many segments begin before one.
Before(segments, seg) == Cardinality({s \in segments : s[1] < seg[1]})

\* The segments of a lane have different numbers.
LEMMA SegmentsAreNumbered ==
    ASSUME NEW n \in Nat, NEW segments, IsSegments(segments, n), NEW seg \in segments
    PROVE  /\ Before(segments, seg) \in Nat /\ Before(segments, seg) < n
           /\ \A other \in segments : other # seg => Before(segments, other) # Before(segments, seg)
<1> DEFINE B(s) == {r \in segments : r[1] < s[1]}
<1>1. ASSUME NEW s \in segments PROVE IsFiniteSet(B(s)) /\ Cardinality(B(s)) \in Nat
  BY FS_Subset, FS_CardinalityType DEF IsSegments
<1>2. ASSUME NEW s \in segments, NEW T, T \in SUBSET segments, B(s) \subseteq T, s \in T
      PROVE  IsFiniteSet(T) /\ Cardinality(B(s)) < Cardinality(T)
  <2>1. IsFiniteSet(T) /\ Cardinality(T) \in Nat
    BY <1>2, FS_Subset, FS_CardinalityType DEF IsSegments
  <2>2. s \notin B(s)
    BY DEF IsSegments
  <2>3. Cardinality(B(s)) <= Cardinality(T) /\ (Cardinality(T) = Cardinality(B(s)) => T = B(s))
    <3> HIDE DEF B
    <3> QED
      BY <1>2, <2>1, FS_Subset
  <2> QED
    BY <1>1, <1>2, <2>1, <2>2, <2>3
<1>3. Cardinality(B(seg)) < Cardinality(segments)
  BY <1>2
<1>4. ASSUME NEW s \in segments, NEW t \in segments, s[1] < t[1]
      PROVE  Cardinality(B(s)) < Cardinality(B(t))
  <2>1. B(s) \subseteq B(t) /\ s \in B(t) /\ B(t) \in SUBSET segments
    BY <1>4 DEF IsSegments
  <2> HIDE DEF B
  <2> QED
    BY <1>2, <2>1
<1>5. ASSUME NEW other \in segments, other # seg PROVE Cardinality(B(other)) # Cardinality(B(seg))
  <2>1. other[1] < seg[1] \/ seg[1] < other[1]
    BY <1>5 DEF IsSegments
  <2>2. Cardinality(B(other)) \in Nat /\ Cardinality(B(seg)) \in Nat
    BY <1>1
  <2>3. other[1] < seg[1] => Cardinality(B(other)) < Cardinality(B(seg))
    BY <1>4
  <2>4. seg[1] < other[1] => Cardinality(B(seg)) < Cardinality(B(other))
    BY <1>4
  <2> HIDE DEF B
  <2> QED
    BY <2>1, <2>2, <2>3, <2>4
<1>6. Cardinality(segments) \in Nat /\ Cardinality(segments) <= n
  BY FS_CardinalityType DEF IsSegments
<1> QED
  BY <1>1, <1>3, <1>5, <1>6 DEF Before

-----------------------------------------------------------------------------
(* The elements of a lane that is added                                    *)

\* The elements of a new lane, as AddLane numbers them.
Node(offset, n, closed, i, side) ==
    NODE_ID0 + offset + side + 2 * (IF closed /\ i = n - 1 THEN 0 ELSE i)
Way(offset, segments, seg, side) == WAY_ID0 + offset + 2 * Before(segments, seg) + side
Nodes(name, offset, n, closed) ==
    {Element(<<name, "node", i, side>>, Node(offset, n, closed, i, side), {}) :
        i \in (IF closed THEN 0..n - 2 ELSE 0..n - 1), side \in {0, 1}}
SideNodes(offset, n, closed, seg, side) == {Node(offset, n, closed, i, side) : i \in seg[1]..seg[2]}
NewWay(name, offset, n, closed, segments, seg, side) ==
    Element(<<name, "way", seg[1], side>>, Way(offset, segments, seg, side),
            SideNodes(offset, n, closed, seg, side))
WaysOf(name, offset, n, closed, segments) ==
    {NewWay(name, offset, n, closed, segments, seg, side) : seg \in segments, side \in {0, 1}}
LaneletsOf(name, offset, segments) ==
    {Element(<<name, "lanelet", seg[1], 0>>, REL_ID0 + offset + Before(segments, seg),
             {Way(offset, segments, seg, side) : side \in {0, 1}}) : seg \in segments}

\* What adding a lane adds: its points, its ways and its lanelets.
LEMMA LaneIs ==
    ASSUME NEW base, NEW name, NEW n, NEW closed, NEW segments
    PROVE  AddLane(base, name, n, closed, segments) =
             base \cup Nodes(name, FreeOffset(base), n, closed)
                  \cup WaysOf(name, FreeOffset(base), n, closed, segments)
                  \cup LaneletsOf(name, FreeOffset(base), segments)
  BY DEF AddLane, Nodes, NewWay, WaysOf, LaneletsOf, Node, Way, Before, SideNodes

\* A lane has two sides.
LEMMA TwoSides == IsFiniteSet({0, 1})
<1>1. IsFiniteSet({0}) /\ {0, 1} = {0} \cup {1}
  BY FS_Singleton
<1> QED
  BY <1>1, FS_AddElement

\* The kinds of elements have ids in ranges of their own.
LEMMA NodesAre ==
    ASSUME NEW offset \in Nat, NEW n \in 2..4, NEW closed \in BOOLEAN, NEW name
    PROVE  LET nodes == Nodes(name, offset, n, closed)
           IN  /\ IsFiniteSet(nodes)
               /\ \A e \in nodes : /\ IsElement(e) /\ e.refs = {}
                                   /\ NODE_ID0 + offset <= e.id /\ e.id < WAY_ID0 + offset
               /\ \A e, f \in nodes : e.id = f.id => e = f
               /\ \A i \in 0..n - 1, side \in {0, 1} : Node(offset, n, closed, i, side) \in IdsIn(nodes)
<1> DEFINE places == IF closed THEN 0..n - 2 ELSE 0..n - 1
           sides == {0, 1}
           new(i, side) == Element(<<name, "node", i, side>>, Node(offset, n, closed, i, side), {})
           nodes == Nodes(name, offset, n, closed)
<1>1. nodes = {new(i, side) : i \in places, side \in sides}
  BY DEF Nodes
<1>2. ASSUME NEW i \in places, NEW side \in sides
      PROVE  /\ Node(offset, n, closed, i, side) = NODE_ID0 + offset + side + 2 * i
             /\ i \in Nat /\ i <= 3 /\ side \in Nat /\ side <= 1
             /\ Node(offset, n, closed, i, side) \in Nat
  BY DEF Node, NODE_ID0
<1>3. ASSUME NEW i \in places, NEW side \in sides
      PROVE  /\ new(i, side).id = NODE_ID0 + offset + side + 2 * i
             /\ IsElement(new(i, side)) /\ new(i, side).refs = {}
  BY <1>2 DEF Element, IsElement
<1>4. IsFiniteSet(nodes)
  <2> DEFINE f == [ps \in places \X sides |-> new(ps[1], ps[2])]
  <2>1. f \in Surjection(places \X sides, nodes)
    <3>1. ASSUME NEW e \in nodes PROVE \E ps \in places \X sides : f[ps] = e
      <4>1. PICK i \in places, side \in sides : e = new(i, side)
        BY <1>1
      <4>2. <<i, side>> \in places \X sides /\ f[<<i, side>>] = new(i, side)
        OBVIOUS
      <4> QED
        BY <4>1, <4>2
    <3>2. f \in [places \X sides -> nodes]
      BY <1>1
    <3> QED
      BY <3>1, <3>2 DEF Surjection
  <2>2. IsFiniteSet(places) /\ IsFiniteSet(sides)
    <3>1. n - 2 \in Int /\ n - 1 \in Int
      OBVIOUS
    <3>2. IsFiniteSet(0..n - 2)
      BY <3>1, FS_Interval
    <3>3. IsFiniteSet(0..n - 1)
      BY <3>1, FS_Interval
    <3> QED
      BY <3>2, <3>3, TwoSides
  <2> HIDE DEF f, places, sides, nodes
  <2> QED
    BY <2>1, <2>2, FS_Product, FS_Surjection
<1>5. ASSUME NEW e \in nodes PROVE \E i \in places, side \in sides : e = new(i, side)
  BY <1>1
<1>6. \A i \in places, side \in sides : new(i, side) \in nodes
  BY <1>1
<1> HIDE DEF nodes
<1>7. ASSUME NEW e \in nodes
      PROVE  IsElement(e) /\ e.refs = {} /\ NODE_ID0 + offset <= e.id /\ e.id < WAY_ID0 + offset
  <2>1. PICK i \in places, side \in sides : e = new(i, side)
    BY <1>5
  <2> HIDE DEF new, places, sides
  <2> QED
    BY <1>2, <1>3, <2>1 DEF NODE_ID0, WAY_ID0
<1>8. ASSUME NEW e \in nodes, NEW f \in nodes, e.id = f.id PROVE e = f
  <2>1. PICK i \in places, side \in sides : e = new(i, side)
    BY <1>5
  <2>2. PICK j \in places, other \in sides : f = new(j, other)
    BY <1>5
  <2>3. i = j /\ side = other
    <3> HIDE DEF new, places, sides
    <3> QED
      BY <1>2, <1>3, <1>8, <2>1, <2>2 DEF NODE_ID0
  <2> QED
    BY <2>1, <2>2, <2>3
<1>9. ASSUME NEW i \in 0..n - 1, NEW side \in sides
      PROVE  Node(offset, n, closed, i, side) \in IdsIn(nodes)
  <2> DEFINE at == IF closed /\ i = n - 1 THEN 0 ELSE i
  <2>1. at \in places
    OBVIOUS
  <2>2. Node(offset, n, closed, i, side) = NODE_ID0 + offset + side + 2 * at
    BY DEF Node
  <2> HIDE DEF at, new, places, sides
  <2>3. new(at, side).id = NODE_ID0 + offset + side + 2 * at /\ new(at, side) \in nodes
    BY <1>3, <1>6, <2>1
  <2> QED
    BY <2>2, <2>3 DEF IdsIn
<1> QED
  BY <1>4, <1>7, <1>8, <1>9 DEF nodes

\* The ways of a lane have ids of their own and refer to its points.
LEMMA WaysAre ==
    ASSUME NEW offset \in Nat, NEW n \in 2..4, NEW closed \in BOOLEAN, NEW name,
           NEW segments, IsSegments(segments, n)
    PROVE  LET ways == WaysOf(name, offset, n, closed, segments)
           IN  /\ IsFiniteSet(ways)
               /\ \A e \in ways : /\ IsElement(e) /\ e.refs \subseteq IdsIn(Nodes(name, offset, n, closed))
                                  /\ WAY_ID0 + offset <= e.id /\ e.id < REL_ID0 + offset
               /\ \A e, f \in ways : e.id = f.id => e = f
               /\ \A seg \in segments, side \in {0, 1} : Way(offset, segments, seg, side) \in IdsIn(ways)
<1> DEFINE sides == {0, 1}
           new(seg, side) == NewWay(name, offset, n, closed, segments, seg, side)
           ways == WaysOf(name, offset, n, closed, segments)
           ids == IdsIn(Nodes(name, offset, n, closed))
<1>1. ways = {new(seg, side) : seg \in segments, side \in sides}
  BY DEF WaysOf
<1>5. ASSUME NEW e \in ways PROVE \E seg \in segments, side \in sides : e = new(seg, side)
  BY <1>1
<1>6. \A seg \in segments, side \in sides : new(seg, side) \in ways
  BY <1>1
<1>2. ASSUME NEW seg \in segments, NEW side \in sides
      PROVE  /\ Way(offset, segments, seg, side) = WAY_ID0 + offset + 2 * Before(segments, seg) + side
             /\ Before(segments, seg) \in Nat /\ Before(segments, seg) <= 3
             /\ side \in Nat /\ side <= 1
             /\ Way(offset, segments, seg, side) \in Nat
  <2>1. Before(segments, seg) \in Nat /\ Before(segments, seg) < n
    BY SegmentsAreNumbered
  <2> QED
    BY <2>1 DEF Way, WAY_ID0
<1>10. ASSUME NEW seg \in segments, NEW side \in sides
       PROVE  /\ SideNodes(offset, n, closed, seg, side) \subseteq ids
              /\ SideNodes(offset, n, closed, seg, side) \in SUBSET Nat
  <2>1. \A i \in 0..n - 1 : Node(offset, n, closed, i, side) \in ids
    BY NodesAre
  <2>2. seg[1]..seg[2] \subseteq 0..n - 1
    BY DEF IsSegments
  <2>3. ids \subseteq Nat
    BY NodesAre DEF IdsIn, IsElement
  <2> HIDE DEF ids
  <2> QED
    BY <2>1, <2>2, <2>3 DEF SideNodes
<1> HIDE DEF ids
<1>3. ASSUME NEW seg \in segments, NEW side \in sides
      PROVE  /\ new(seg, side).id = Way(offset, segments, seg, side)
             /\ IsElement(new(seg, side)) /\ new(seg, side).refs \subseteq ids
  BY <1>2, <1>10 DEF Element, IsElement, NewWay
<1>4. IsFiniteSet(ways)
  <2> DEFINE f == [ps \in segments \X sides |-> new(ps[1], ps[2])]
  <2>1. f \in Surjection(segments \X sides, ways)
    <3>1. ASSUME NEW e \in ways PROVE \E ps \in segments \X sides : f[ps] = e
      <4>1. PICK seg \in segments, side \in sides : e = new(seg, side)
        BY <1>5
      <4>2. <<seg, side>> \in segments \X sides /\ f[<<seg, side>>] = new(seg, side)
        OBVIOUS
      <4> QED
        BY <4>1, <4>2
    <3>2. f \in [segments \X sides -> ways]
      BY <1>6
    <3> QED
      BY <3>1, <3>2 DEF Surjection
  <2>2. IsFiniteSet(segments) /\ IsFiniteSet(sides)
    BY TwoSides DEF IsSegments
  <2> HIDE DEF f, sides, ways
  <2> QED
    BY <2>1, <2>2, FS_Product, FS_Surjection
<1> HIDE DEF ways
<1>7. ASSUME NEW e \in ways
      PROVE  /\ IsElement(e) /\ e.refs \subseteq ids
             /\ WAY_ID0 + offset <= e.id /\ e.id < REL_ID0 + offset
  <2>1. PICK seg \in segments, side \in sides : e = new(seg, side)
    BY <1>5
  <2> HIDE DEF new, sides
  <2> QED
    BY <1>2, <1>3, <2>1 DEF REL_ID0, WAY_ID0
<1>8. ASSUME NEW e \in ways, NEW f \in ways, e.id = f.id PROVE e = f
  <2>1. PICK seg \in segments, side \in sides : e = new(seg, side)
    BY <1>5
  <2>2. PICK seg2 \in segments, side2 \in sides : f = new(seg2, side2)
    BY <1>5
  <2>3. Before(segments, seg) = Before(segments, seg2) /\ side = side2
    <3> HIDE DEF new, sides
    <3> QED
      BY <1>2, <1>3, <1>8, <2>1, <2>2 DEF WAY_ID0
  <2>4. seg = seg2
    BY <2>3, SegmentsAreNumbered
  <2> QED
    BY <2>1, <2>2, <2>3, <2>4
<1>9. ASSUME NEW seg \in segments, NEW side \in sides
      PROVE  Way(offset, segments, seg, side) \in IdsIn(ways)
  BY <1>3, <1>6 DEF IdsIn
<1> QED
  BY <1>4, <1>7, <1>8, <1>9 DEF ways, ids

\* The lanelets of a lane have ids of their own and refer to its ways.
LEMMA LaneletsAre ==
    ASSUME NEW offset \in Nat, NEW n \in 2..4, NEW ways, NEW name,
           NEW segments, IsSegments(segments, n),
           \A seg \in segments, side \in {0, 1} : Way(offset, segments, seg, side) \in IdsIn(ways),
           IdsIn(ways) \subseteq Nat
    PROVE  LET lanelets == LaneletsOf(name, offset, segments)
           IN  /\ IsFiniteSet(lanelets)
               /\ \A e \in lanelets : /\ IsElement(e) /\ e.refs \subseteq IdsIn(ways)
                                      /\ REL_ID0 + offset <= e.id /\ e.id < REL_ID0 + 4 + offset
               /\ \A e, f \in lanelets : e.id = f.id => e = f
<1> DEFINE refs(seg) == {Way(offset, segments, seg, side) : side \in {0, 1}}
           new(seg) == Element(<<name, "lanelet", seg[1], 0>>, REL_ID0 + offset + Before(segments, seg),
                               refs(seg))
           lanelets == LaneletsOf(name, offset, segments)
           ids == IdsIn(ways)
<1>1. lanelets = {new(seg) : seg \in segments}
  BY DEF LaneletsOf
<1>2. ASSUME NEW seg \in segments
      PROVE  /\ Before(segments, seg) \in Nat /\ Before(segments, seg) <= 3
             /\ REL_ID0 + offset + Before(segments, seg) \in Nat
  <2>1. Before(segments, seg) \in Nat /\ Before(segments, seg) < n
    BY SegmentsAreNumbered
  <2> QED
    BY <2>1 DEF REL_ID0
<1>10. ASSUME NEW seg \in segments PROVE refs(seg) \subseteq ids /\ refs(seg) \in SUBSET Nat
  OBVIOUS
<1> HIDE DEF refs, ids
<1>3. ASSUME NEW seg \in segments
      PROVE  /\ new(seg).id = REL_ID0 + offset + Before(segments, seg)
             /\ IsElement(new(seg)) /\ new(seg).refs \subseteq ids
  BY <1>2, <1>10 DEF Element, IsElement
<1>4. IsFiniteSet(lanelets)
  <2> DEFINE f == [seg \in segments |-> new(seg)]
  <2>1. f \in Surjection(segments, lanelets)
    BY <1>1 DEF Surjection
  <2>2. IsFiniteSet(segments)
    BY DEF IsSegments
  <2> HIDE DEF f, lanelets
  <2> QED
    BY <2>1, <2>2, FS_Surjection
<1>5. ASSUME NEW e \in lanelets PROVE \E seg \in segments : e = new(seg)
  BY <1>1
<1> HIDE DEF lanelets
<1>7. ASSUME NEW e \in lanelets
      PROVE  /\ IsElement(e) /\ e.refs \subseteq ids
             /\ REL_ID0 + offset <= e.id /\ e.id < REL_ID0 + 4 + offset
  <2>1. PICK seg \in segments : e = new(seg)
    BY <1>5
  <2> HIDE DEF new
  <2> QED
    BY <1>2, <1>3, <2>1 DEF REL_ID0
<1>8. ASSUME NEW e \in lanelets, NEW f \in lanelets, e.id = f.id PROVE e = f
  <2>1. PICK seg \in segments : e = new(seg)
    BY <1>5
  <2>2. PICK seg2 \in segments : f = new(seg2)
    BY <1>5
  <2>3. Before(segments, seg) = Before(segments, seg2)
    <3> HIDE DEF new
    <3> QED
      BY <1>2, <1>3, <1>8, <2>1, <2>2 DEF REL_ID0
  <2>4. seg = seg2
    BY <2>3, SegmentsAreNumbered
  <2> QED
    BY <2>1, <2>2, <2>4
<1> QED
  BY <1>4, <1>7, <1>8 DEF lanelets, ids

-----------------------------------------------------------------------------
(* merge_maps, then a lane                                                 *)

\* Elements with ids beyond those of a map, which refer to the map and to each
\* other, make a map with it.
Distinct(map) ==
    /\ IsFiniteSet(map)
    /\ \A e \in map : IsElement(e)
    /\ \A e, f \in map : e.id = f.id => e = f
\* Ids below a start, and from a start on.
Beneath(map, start) == \A e \in map : e.id < start
Beyond(map, start) == \A e \in map : start <= e.id

\* Elements whose ids are apart from those of a map can be added to it.
LEMMA MapGrows ==
    ASSUME NEW before, NEW new, Distinct(before), Distinct(new),
           NEW start \in Nat, Beneath(before, start), Beyond(new, start)
    PROVE  Distinct(before \cup new)
<1>1. IsFiniteSet(before \cup new)
  BY FS_Union DEF Distinct
<1>2. ASSUME NEW e \in before, NEW f \in new PROVE e.id # f.id
  BY DEF IsElement, Distinct, Beneath, Beyond
<1> QED
  BY <1>1, <1>2 DEF Distinct

\* centerline_to_lanelet: a lane, open or closed, is added with ids of its own,
\* and what was in the map keeps its meaning.  (As long a lane as the scaled
\* numbering has room for.)
THEOREM AnyLaneIsApart ==
    ASSUME NEW base, IsMap(base), NEW name, NEW n \in 2..4, NEW closed \in BOOLEAN,
           NEW segments, IsSegments(segments, n)
    PROVE  LET laned == AddLane(base, name, n, closed, segments)
           IN  IsMap(laned) /\ KeptIn(base, laned) /\ Cardinality(IdsIn(laned)) = Cardinality(laned)
<1> DEFINE laned == AddLane(base, name, n, closed, segments)
           offset == FreeOffset(base)
           nodes == Nodes(name, offset, n, closed)
           ways == WaysOf(name, offset, n, closed, segments)
           lanelets == LaneletsOf(name, offset, segments)
<1>1. laned = base \cup nodes \cup ways \cup lanelets
  BY LaneIs
<1>2. offset \in Nat /\ \A e \in base : e.id < NODE_ID0 + offset
  BY OffsetIsFree
<1> HIDE DEF laned, offset
<1>3. /\ IsFiniteSet(nodes)
      /\ \A e \in nodes : /\ IsElement(e) /\ e.refs = {}
                          /\ NODE_ID0 + offset <= e.id /\ e.id < WAY_ID0 + offset
      /\ \A e, f \in nodes : e.id = f.id => e = f
  BY <1>2, NodesAre
<1>4. /\ IsFiniteSet(ways)
      /\ \A e \in ways : /\ IsElement(e) /\ e.refs \subseteq IdsIn(nodes)
                         /\ WAY_ID0 + offset <= e.id /\ e.id < REL_ID0 + offset
      /\ \A e, f \in ways : e.id = f.id => e = f
      /\ \A seg \in segments, side \in {0, 1} : Way(offset, segments, seg, side) \in IdsIn(ways)
  BY <1>2, WaysAre
<1> HIDE DEF nodes, ways
<1>5. IdsIn(ways) \subseteq Nat
  BY <1>4 DEF IdsIn, IsElement
<1>6. /\ IsFiniteSet(lanelets)
      /\ \A e \in lanelets : IsElement(e) /\ e.refs \subseteq IdsIn(ways) /\ REL_ID0 + offset <= e.id
      /\ \A e, f \in lanelets : e.id = f.id => e = f
  BY <1>2, <1>4, <1>5, LaneletsAre
<1> HIDE DEF lanelets
<1>7. /\ NODE_ID0 + offset \in Nat /\ WAY_ID0 + offset \in Nat /\ REL_ID0 + offset \in Nat
      /\ NODE_ID0 + offset <= WAY_ID0 + offset /\ WAY_ID0 + offset <= REL_ID0 + offset
  BY <1>2 DEF NODE_ID0, WAY_ID0, REL_ID0
<1>8. \A e \in base : IsElement(e) /\ e.refs \subseteq IdsIn(base)
  BY DEF IsMap
<1> DEFINE first == base \cup nodes
           second == first \cup ways
<1>9. Distinct(first)
  <2> DEFINE start == NODE_ID0 + offset
  <2>1. Distinct(base) /\ Distinct(nodes)
    BY <1>3, <1>8 DEF IsMap, Distinct
  <2>2. start \in Nat /\ Beneath(base, start) /\ Beyond(nodes, start)
    BY <1>2, <1>3, <1>7 DEF Beneath, Beyond
  <2> HIDE DEF start
  <2> QED
    BY <2>1, <2>2, MapGrows
<1>10. Beneath(first, WAY_ID0 + offset)
  BY <1>2, <1>3, <1>7, <1>8 DEF IsElement, Beneath
<1> HIDE DEF first
<1>11. Distinct(second)
  <2> DEFINE start == WAY_ID0 + offset
  <2>1. Distinct(ways)
    BY <1>4 DEF Distinct
  <2>2. start \in Nat /\ Beneath(first, start) /\ Beyond(ways, start)
    BY <1>4, <1>7, <1>10 DEF Beyond
  <2> HIDE DEF start
  <2> QED
    BY <1>9, <2>1, <2>2, MapGrows
<1>12. Beneath(second, REL_ID0 + offset)
  BY <1>4, <1>7, <1>9, <1>10 DEF IsElement, Beneath, Distinct
<1> HIDE DEF second
<1>13. laned = second \cup lanelets
  BY <1>1 DEF first, second
<1>14. Distinct(laned)
  <2> DEFINE start == REL_ID0 + offset
  <2>1. Distinct(lanelets)
    BY <1>6 DEF Distinct
  <2>2. start \in Nat /\ Beneath(second, start) /\ Beyond(lanelets, start)
    BY <1>6, <1>7, <1>12 DEF Beyond
  <2> HIDE DEF start
  <2> QED
    BY <1>11, <1>13, <2>1, <2>2, MapGrows
<1>15. IsMap(laned)
  <2>1. IdsIn(base) \subseteq IdsIn(laned) /\ IdsIn(nodes) \subseteq IdsIn(laned)
        /\ IdsIn(ways) \subseteq IdsIn(laned)
    BY <1>1 DEF IdsIn
  <2>2. ASSUME NEW e \in laned PROVE IsElement(e) /\ e.refs \subseteq IdsIn(laned)
    BY <1>1, <1>3, <1>4, <1>6, <1>8, <2>1
  <2> QED
    BY <1>14, <2>2 DEF IsMap, Distinct
<1>16. KeptIn(base, laned)
  <2>1. ASSUME NEW f \in laned, f \notin base PROVE IsElement(f) /\ f.id >= NODE_ID0 + offset
    BY <1>1, <1>3, <1>4, <1>6, <1>7, <2>1 DEF IsElement
  <2>2. ASSUME NEW e \in base, NEW f \in laned, f \notin base PROVE f.id \notin e.refs
    <3>1. \A ref \in e.refs : ref \in Nat /\ ref < NODE_ID0 + offset
      BY <1>2, <1>8 DEF IdsIn, IsElement
    <3> QED
      BY <1>7, <2>1, <2>2, <3>1 DEF IsElement
  <2> QED
    BY <1>1, <2>2, AddedApart
<1>17. Cardinality(IdsIn(laned)) = Cardinality(laned)
  <2> DEFINE f == [e \in laned |-> e.id]
  <2>1. f \in Bijection(laned, IdsIn(laned))
    BY <1>14 DEF Bijection, Injection, Surjection, IsInjective, IdsIn, Distinct
  <2> HIDE DEF f
  <2> QED
    BY <1>14, <2>1, FS_Bijection DEF ExistsBijection, Distinct
<1> QED
  BY <1>15, <1>16, <1>17 DEF laned

\* Two clouds one after the other are a cloud.
LEMMA Joint ==
    ASSUME NEW P, NEW la \in Seq(P), NEW lb \in Seq(P)
    PROVE  /\ la \o lb \in Seq(P) /\ Len(la \o lb) \in Nat
           /\ SubSeq(la \o lb, 1, Len(la \o lb)) = la \o lb
<1> DEFINE whole == la \o lb
<1>1. whole \in Seq(P)
  OBVIOUS
<1> HIDE DEF whole
<1>2. Len(whole) \in Nat /\ SubSeq(whole, 1, Len(whole)) = whole
  BY <1>1
<1> QED
  BY <1>1, <1>2 DEF whole

\* A cloud that merge_maps wrote is read as it was.
LEMMA WrittenReads ==
    ASSUME NEW points, Len(points) \in Nat, SubSeq(points, 1, Len(points)) = points
    PROVE  ReadPcd(WritePcd(points)) = [ok |-> TRUE, points |-> points]
<1> DEFINE file == WritePcd(points)
<1>1. file.data = "binary" /\ file.count = Len(points) /\ file.points = points
  BY DEF WritePcd
<1> HIDE DEF file
<1>2. file.data = "binary" /\ Len(file.points) >= file.count
  BY <1>1
<1>3. ReadPcd(file) = [ok |-> TRUE, points |-> SubSeq(file.points, 1, file.count)]
  BY <1>2 DEF ReadPcd
<1> QED
  BY <1>1, <1>3 DEF file

\* merge_maps: the merged cloud reads as every point of both.
THEOREM AnyMergeReads ==
    ASSUME NEW P, NEW a, NEW b, Merges(a, b).written,
           ReadPcd(FindPcd(a)).points \in Seq(P), ReadPcd(FindPcd(b)).points \in Seq(P)
    PROVE  ReadPcd(FindPcd(Merges(a, b)))
             = [ok |-> TRUE, points |-> ReadPcd(FindPcd(a)).points \o ReadPcd(FindPcd(b)).points]
<1> DEFINE la == ReadPcd(FindPcd(a)).points
           lb == ReadPcd(FindPcd(b)).points
<1>1. Merges(a, b).pcds = <<WritePcd(la \o lb)>>
  BY DEF Merges, Nothing
<1>2. FindPcd(Merges(a, b)) = WritePcd(la \o lb)
  BY <1>1 DEF FindPcd
<1>3. la \in Seq(P) /\ lb \in Seq(P)
  OBVIOUS
<1> HIDE DEF la, lb
<1>4. ReadPcd(WritePcd(la \o lb)) = [ok |-> TRUE, points |-> la \o lb]
  BY <1>3, Joint, WrittenReads
<1> QED
  BY <1>2, <1>4 DEF la, lb

-----------------------------------------------------------------------------
(* The maps of the jobs                                                    *)

\* What the merge jobs bring: maps by hand, with a lane or without, and clouds.
LEMMA HandIsMap ==
    ASSUME NEW name
    PROVE  IsMap(ByHand(name)) /\ \A e \in ByHand(name) : e.id < NODE_ID0
<1> DEFINE e1 == Element(<<name, "node", 0, 0>>, 1, {})
           e2 == Element(<<name, "way", 0, 0>>, 2, {1})
           e3 == Element(<<name, "area", 0, 0>>, 3, {2})
<1>1. ByHand(name) = {e1, e2, e3}
  BY DEF ByHand
<1>2. /\ IsElement(e1) /\ e1.id = 1 /\ e1.refs = {}
      /\ IsElement(e2) /\ e2.id = 2 /\ e2.refs = {1}
      /\ IsElement(e3) /\ e3.id = 3 /\ e3.refs = {2}
  BY DEF IsElement, Element
<1> HIDE DEF e1, e2, e3
<1>3. IsFiniteSet({e1, e2, e3})
  <2>1. IsFiniteSet({e1}) /\ {e1, e2} = {e1} \cup {e2} /\ {e1, e2, e3} = {e1, e2} \cup {e3}
    BY FS_Singleton
  <2>2. IsFiniteSet({e1, e2})
    BY <2>1, FS_AddElement
  <2> QED
    BY <2>1, <2>2, FS_AddElement
<1>4. IdsIn(ByHand(name)) = {1, 2, 3}
  BY <1>1, <1>2 DEF IdsIn
<1> QED
  BY <1>1, <1>2, <1>3, <1>4 DEF IsMap, NODE_ID0

\* The segments of the lanes of the jobs.
LEMMA TwoSegments == IsSegments({<<0, 1>>, <<1, 2>>}, 3)
<1> DEFINE s == <<0, 1>>
           t == <<1, 2>>
<1>1. s[1] = 0 /\ s[2] = 1 /\ t[1] = 1 /\ t[2] = 2 /\ s # t
  OBVIOUS
<1> HIDE DEF s, t
<1>2. IsFiniteSet({s}) /\ Cardinality({s}) = 1 /\ {s, t} = {s} \cup {t} /\ t \notin {s}
  BY <1>1, FS_Singleton
<1>3. IsFiniteSet({s, t}) /\ Cardinality({s, t}) = 2
  BY <1>2, FS_AddElement
<1>4. IsSegments({s, t}, 3)
  BY <1>1, <1>3 DEF IsSegments
<1> QED
  BY <1>4 DEF s, t

\* A lane added to a map of small ids leaves them below the first generation.
LEMMA FewSegments ==
    ASSUME NEW base, IsMap(base), \A e \in base : e.id < NODE_ID0,
           NEW name, NEW n \in 2..4, NEW closed \in BOOLEAN, NEW segments, IsSegments(segments, n)
    PROVE  \A e \in AddLane(base, name, n, closed, segments) : e.id < ID_OFFSET
<1>1. FreeOffset(base) = 0
  BY OffsetIsFree
<1>2. AddLane(base, name, n, closed, segments)
        = base \cup Nodes(name, 0, n, closed) \cup WaysOf(name, 0, n, closed, segments)
               \cup LaneletsOf(name, 0, segments)
  BY <1>1, LaneIs
<1>3. \A e \in Nodes(name, 0, n, closed) : e.id \in Nat /\ e.id < WAY_ID0
  BY NodesAre DEF IsElement, WAY_ID0
<1>4. \A e \in WaysOf(name, 0, n, closed, segments) : e.id \in Nat /\ e.id < REL_ID0
  BY WaysAre DEF IsElement, REL_ID0
<1>5. \A e \in base : e.id \in Nat
  BY DEF IsMap, IsElement
<1>6. ASSUME NEW e \in LaneletsOf(name, 0, segments) PROVE e.id < ID_OFFSET
  <2>1. PICK seg \in segments : e.id = REL_ID0 + 0 + Before(segments, seg)
    BY DEF LaneletsOf, Element
  <2>2. Before(segments, seg) \in Nat /\ Before(segments, seg) < n
    BY SegmentsAreNumbered
  <2> QED
    BY <2>1, <2>2 DEF REL_ID0, ID_OFFSET
<1> QED
  BY <1>2, <1>3, <1>4, <1>5, <1>6 DEF NODE_ID0, WAY_ID0, REL_ID0, ID_OFFSET

\* The maps of the jobs are maps, with ids of the first generation.
LEMMA MapsAre ==
    ASSUME NEW name, NEW map \in MapsOf(name)
    PROVE  IsMap(map) /\ \A e \in map : e.id < ID_OFFSET
<1>1. IsMap({}) /\ \A e \in {} : e.id < NODE_ID0
  BY FS_EmptySet DEF IsMap
<1>2. ASSUME NEW base \in {{}, ByHand(name)}
      PROVE  IsMap(base) /\ (\A e \in base : e.id < NODE_ID0) /\ (\A e \in base : e.id < ID_OFFSET)
  <2>1. IsMap(base) /\ \A e \in base : e.id < NODE_ID0
    BY <1>1, HandIsMap
  <2>2. \A e \in base : e.id \in Nat
    BY <2>1 DEF IsMap, IsElement
  <2> QED
    BY <2>1, <2>2 DEF NODE_ID0, ID_OFFSET
<1>3. CASE map \in {{}, ByHand(name)}
  BY <1>2, <1>3
<1>4. CASE map \notin {{}, ByHand(name)}
  <2>1. PICK base \in {{}, ByHand(name)}, closed \in BOOLEAN : map = Laned(base, name, closed)
    BY <1>4 DEF MapsOf
  <2> DEFINE segments == {<<0, 1>>, <<1, 2>>}
             n == 3
  <2>2. map = AddLane(base, name, n, closed, segments)
    BY <2>1 DEF Laned
  <2>3. IsSegments(segments, n) /\ n \in 2..4
    BY TwoSegments
  <2> HIDE DEF segments, n
  <2> QED
    BY <1>2, <2>2, <2>3, AnyLaneIsApart, FewSegments
<1> QED
  BY <1>3, <1>4

\* A cloud of the merge jobs, if the file has all of it, reads as its two points.
TwoOf(name, points) ==
    points \in Seq({name} \X {1, 2}) /\ Len(points) = 2 /\ points[1] = <<name, 1>> /\ points[2] = <<name, 2>>

\* The clouds of the jobs: which of them merge_maps can read.
LEMMA CloudReads ==
    ASSUME NEW name, NEW pcds \in DirsOf(name), pcds # <<>>
    PROVE  /\ ReadPcd(pcds[1]).ok = (pcds[1].data = "binary" /\ Len(pcds[1].points) >= 2)
           /\ ReadPcd(pcds[1]).ok => TwoOf(name, ReadPcd(pcds[1]).points)
<1> DEFINE file == pcds[1]
           some(kept) == [k \in 1..kept |-> <<name, k>>]
<1>1. PICK kept \in 1..3 : file.count = 2 /\ file.points = some(kept)
  <2>1. file \in PcdsOf(name)
    BY DEF DirsOf, PcdsOf
  <2>2. CASE file = Pcd(name, 2, 2)
    BY <2>2 DEF Pcd
  <2>3. CASE file = Pcd(name, 2, 3)
    BY <2>3 DEF Pcd
  <2>4. CASE file = Pcd(name, 2, 1)
    BY <2>4 DEF Pcd
  <2>5. CASE file = [Pcd(name, 2, 2) EXCEPT !.data = "ascii"]
    <3>1. file.count = Pcd(name, 2, 2).count /\ file.points = Pcd(name, 2, 2).points
      BY <2>5 DEF Pcd
    <3> QED
      BY <3>1 DEF Pcd
  <2> HIDE DEF file, some
  <2> QED
    BY <2>1, <2>2, <2>3, <2>4, <2>5 DEF PcdsOf
<1> HIDE DEF file
<1>2. Len(file.points) = kept
  BY <1>1
<1>3. ReadPcd(file).ok = (file.data = "binary" /\ kept >= 2)
  BY <1>1, <1>2 DEF ReadPcd
<1>4. ReadPcd(file).ok => ReadPcd(file).points = SubSeq(file.points, 1, 2)
  BY <1>1, <1>2 DEF ReadPcd
<1>5. ASSUME kept >= 2 PROVE TwoOf(name, SubSeq(file.points, 1, 2))
  <2> DEFINE S == {name} \X (1..3)
             points == some(kept)
  <2>1. points \in Seq(S) /\ Len(points) = kept /\ points[1] = <<name, 1>> /\ points[2] = <<name, 2>>
    BY <1>5
  <2> HIDE DEF points, S
  <2>2. /\ SubSeq(points, 1, 2) \in Seq(S) /\ Len(SubSeq(points, 1, 2)) = 2
        /\ SubSeq(points, 1, 2)[1] = <<name, 1>> /\ SubSeq(points, 1, 2)[2] = <<name, 2>>
    BY <1>5, <2>1, SubSeqProperties
  <2> DEFINE two == SubSeq(points, 1, 2)
  <2> HIDE DEF two
  <2>3. two \in Seq(S) /\ Len(two) = 2 /\ two[1] = <<name, 1>> /\ two[2] = <<name, 2>>
    BY <2>2 DEF two
  <2>4. two \in Seq({name} \X {1, 2})
    BY <2>3
  <2> QED
    BY <1>1, <2>3, <2>4 DEF TwoOf, points, two
<1> QED
  BY <1>1, <1>2, <1>3, <1>4, <1>5 DEF file

\* Two clouds of two points.
LEMMA FourPoints ==
    ASSUME NEW la, NEW lb, TwoOf("a", la), TwoOf("b", lb)
    PROVE  Range(la \o lb) = {"a", "b"} \X {1, 2}
<1> DEFINE P == {"a", "b"} \X {1, 2}
           four == la \o lb
<1>1. la \in Seq(P) /\ lb \in Seq(P) /\ Len(la) = 2 /\ Len(lb) = 2
  BY DEF TwoOf
<1> HIDE DEF P
<1>2. /\ Len(four) = Len(la) + Len(lb)
      /\ \A i \in 1..Len(la) + Len(lb) : four[i] = IF i <= Len(la) THEN la[i] ELSE lb[i - Len(la)]
      /\ DOMAIN four = 1..Len(four)
  <2>1. /\ Len(four) = Len(la) + Len(lb) /\ four \in Seq(P)
        /\ \A i \in 1..Len(la) + Len(lb) : four[i] = IF i <= Len(la) THEN la[i] ELSE lb[i - Len(la)]
    BY <1>1, ConcatProperties, Zenon
  <2> HIDE DEF four
  <2> QED
    BY <2>1
<1> HIDE DEF four
<1>3. /\ DOMAIN four = 1..4
      /\ four[1] = <<"a", 1>> /\ four[2] = <<"a", 2>> /\ four[3] = <<"b", 1>> /\ four[4] = <<"b", 2>>
  BY <1>1, <1>2 DEF TwoOf
<1>4. Range(four) = {<<"a", 1>>, <<"a", 2>>, <<"b", 1>>, <<"b", 2>>}
  <2>1. Range(four) = {four[1], four[2], four[3], four[4]}
    BY <1>3 DEF Range
  <2> QED
    BY <1>3, <2>1
<1> QED
  BY <1>4 DEF four

-----------------------------------------------------------------------------
(* audit_launch: what is found                                             *)

\* What referenced_names finds when it may look so many files deep.
Unfollowed(files) ==
    [f \in DOMAIN files |-> [names |-> files[f].vars \cup files[f].args, complete |-> TRUE]]
\* ... and one file deeper.
Deeper(files, params, below) == [f \in DOMAIN files |-> Follow(files, params, files[f], below)]
DepthsOf(files, params, at) ==
    at[0] = Unfollowed(files) /\ \A left \in 1..MAX_DEPTH : at[left] = Deeper(files, params, at[left - 1])

\* referenced_names as a function of how far it may still look.
LEMMA NamesAre ==
    ASSUME NEW files, NEW params, NEW name
    PROVE  \E at : DepthsOf(files, params, at)
                    /\ ReferencedNames(files, params, name) = at[MAX_DEPTH][name]
<1> DEFINE Looped(at) == [left \in 0..MAX_DEPTH |->
                            IF left = 0 THEN Unfollowed(files) ELSE Deeper(files, params, at[left - 1])]
           a0 == Unfollowed(files)
           a1 == Deeper(files, params, a0)
           a2 == Deeper(files, params, a1)
           a3 == Deeper(files, params, a2)
           a4 == Deeper(files, params, a3)
           whole == [left \in 0..4 |-> IF left = 0 THEN a0 ELSE IF left = 1 THEN a1
                                       ELSE IF left = 2 THEN a2 ELSE IF left = 3 THEN a3 ELSE a4]
           at == CHOOSE f : f = Looped(f)
<1>1. ReferencedNames(files, params, name) = at[MAX_DEPTH][name]
  BY DEF ReferencedNames, Unfollowed, Deeper
<1>2. whole = Looped(whole)
  <2>1. DOMAIN whole = 0..4 /\ DOMAIN Looped(whole) = 0..4
    BY DEF MAX_DEPTH
  <2>2. /\ whole[0] = a0 /\ whole[1] = a1 /\ whole[2] = a2 /\ whole[3] = a3 /\ whole[4] = a4
    OBVIOUS
  <2>3. a1 = Deeper(files, params, a0) /\ a2 = Deeper(files, params, a1)
        /\ a3 = Deeper(files, params, a2) /\ a4 = Deeper(files, params, a3) /\ a0 = Unfollowed(files)
    OBVIOUS
  <2>4. ASSUME NEW left \in 0..4 PROVE whole[left] = Looped(whole)[left]
    <3>1. left = 0 \/ left = 1 \/ left = 2 \/ left = 3 \/ left = 4
      OBVIOUS
    <3>2. Looped(whole)[left] = IF left = 0 THEN Unfollowed(files) ELSE Deeper(files, params, whole[left - 1])
      BY DEF MAX_DEPTH
    <3> HIDE DEF whole, a0, a1, a2, a3, a4, Looped
    <3> QED
      BY <2>2, <2>3, <3>1, <3>2
  <2>5. whole = [left \in 0..4 |-> whole[left]] /\ Looped(whole) = [left \in 0..4 |-> Looped(whole)[left]]
    BY DEF MAX_DEPTH
  <2> HIDE DEF whole, Looped
  <2> QED
    BY <2>4, <2>5
<1>3. at = Looped(at)
  <2> HIDE DEF Looped, whole
  <2> QED
    BY <1>2
<1> HIDE DEF at
<1>4. at[0] = Unfollowed(files)
  <2>1. Looped(at)[0] = Unfollowed(files)
    BY DEF MAX_DEPTH
  <2> HIDE DEF Looped
  <2> QED
    BY <1>3, <2>1
<1>5. ASSUME NEW left \in 1..MAX_DEPTH PROVE at[left] = Deeper(files, params, at[left - 1])
  <2>1. Looped(at)[left] = Deeper(files, params, at[left - 1])
    BY DEF MAX_DEPTH
  <2> HIDE DEF Looped
  <2> QED
    BY <1>3, <2>1
<1>6. DepthsOf(files, params, at)
  BY <1>4, <1>5 DEF DepthsOf
<1> QED
  BY <1>1, <1>6

\* The names that a file has in its text and in the parameter files it loads.
InText(file) == file.vars \cup file.args
InParams(params, file) == UNION {params[p] : p \in ParamFiles(file) \cap DOMAIN params}

\* One step of the way: a file finds its own names, and those of a file that it
\* includes.
LEMMA FollowFinds ==
    ASSUME NEW files, NEW params, NEW below, NEW f \in DOMAIN files
    PROVE  /\ InText(files[f]) \subseteq Deeper(files, params, below)[f].names
           /\ InParams(params, files[f]) \subseteq Deeper(files, params, below)[f].names
           /\ \A i \in files[f].includes : i.target \in DOMAIN files =>
                    below[i.target].names \subseteq Deeper(files, params, below)[f].names
<1> DEFINE there == {i \in files[f].includes : i.target \in DOMAIN files}
           own == InText(files[f])
           loaded == InParams(params, files[f])
           passed == UNION {below[i.target].names : i \in there}
<1>1. Deeper(files, params, below)[f] = Follow(files, params, files[f], below)
  BY DEF Deeper
<1>2. Follow(files, params, files[f], below).names = own \cup loaded \cup passed
  BY DEF Follow, Found, InText, InParams
<1>3. ASSUME NEW i \in files[f].includes, i.target \in DOMAIN files
      PROVE  below[i.target].names \subseteq passed
  <2>1. i \in there
    BY <1>3
  <2> HIDE DEF there
  <2> QED
    BY <2>1
<1> HIDE DEF own, loaded, passed
<1>4. Deeper(files, params, below)[f].names = own \cup loaded \cup passed
  BY <1>1, <1>2
<1> QED
  BY <1>3, <1>4 DEF own, loaded

\* A way of includes from a file to another, no longer than the tool looks.
IsWay(files, way, depth) ==
    /\ depth \in 0..MAX_DEPTH
    /\ \A k \in 0..depth : way[k] \in DOMAIN files
    /\ \A k \in 0..depth - 1 : \E i \in files[way[k]].includes : i.target = way[k + 1]

\* audit_launch: an argument that a file has in its text, up to MAX_DEPTH includes
\* below the one it is passed to, or in a parameter file that it loads, one less
\* below, is found, whatever the files are.
THEOREM AnyReaderIsFound ==
    ASSUME NEW files, NEW params, NEW way, NEW depth, IsWay(files, way, depth),
           NEW name \in InText(files[way[depth]])
                        \cup IF depth < MAX_DEPTH THEN InParams(params, files[way[depth]]) ELSE {}
    PROVE  name \in ReferencedNames(files, params, way[0]).names
<1>1. PICK at : /\ DepthsOf(files, params, at)
                /\ ReferencedNames(files, params, way[0]) = at[MAX_DEPTH][way[0]]
  BY NamesAre
<1> DEFINE T == {j \in Nat : j <= depth => name \in at[MAX_DEPTH - depth + j][way[depth - j]].names}
<1>2. depth \in Nat /\ depth <= 4 /\ MAX_DEPTH = 4
  BY DEF IsWay, MAX_DEPTH
<1>3. 0 \in T
  <2>1. way[depth] \in DOMAIN files
    BY <1>2 DEF IsWay
  <2>2. CASE depth = 4
    <3>1. MAX_DEPTH - depth + 0 = 0 /\ depth - 0 = depth
      BY <1>2, <2>2
    <3>2. at[0][way[depth]].names = InText(files[way[depth]])
      BY <1>1, <2>1 DEF DepthsOf, Unfollowed, InText
    <3> QED
      BY <1>2, <2>2, <3>1, <3>2
  <2>3. CASE depth # 4
    <3>1. MAX_DEPTH - depth + 0 \in 1..MAX_DEPTH /\ depth - 0 = depth
      BY <1>2, <2>3
    <3> DEFINE left == MAX_DEPTH - depth + 0
    <3> HIDE DEF left
    <3>2. at[left] = Deeper(files, params, at[left - 1])
      BY <1>1, <3>1 DEF DepthsOf, left
    <3>3. name \in at[left][way[depth]].names
      BY <2>1, <3>2, FollowFinds
    <3> QED
      BY <3>1, <3>3 DEF left
  <2> QED
    BY <2>2, <2>3
<1>4. ASSUME NEW j \in 0..depth - 1, j \in T PROVE j + 1 \in T
  <2> DEFINE left == MAX_DEPTH - depth + (j + 1)
             k == depth - (j + 1)
  <2>1. /\ left \in 1..MAX_DEPTH /\ left - 1 = MAX_DEPTH - depth + j
        /\ k \in 0..depth - 1 /\ k \in 0..depth /\ k + 1 = depth - j /\ k + 1 \in 0..depth
    BY <1>2
  <2>2. name \in at[left - 1][way[k + 1]].names
    <3>1. j <= depth
      BY <1>2
    <3>2. name \in at[MAX_DEPTH - depth + j][way[depth - j]].names
      BY <1>4, <3>1
    <3> HIDE DEF left, k
    <3> QED
      BY <2>1, <3>2
  <2> HIDE DEF left, k
  <2>3. at[left] = Deeper(files, params, at[left - 1])
    BY <1>1, <2>1 DEF DepthsOf
  <2>4. PICK i \in files[way[k]].includes : i.target = way[k + 1]
    BY <2>1 DEF IsWay
  <2>5. way[k] \in DOMAIN files /\ i.target \in DOMAIN files
    BY <2>1, <2>4 DEF IsWay
  <2>6. at[left - 1][i.target].names \subseteq at[left][way[k]].names
    BY <2>3, <2>5, FollowFinds
  <2>7. name \in at[left][way[k]].names
    BY <2>2, <2>4, <2>6
  <2> QED
    BY <2>7 DEF left, k
<1>5. depth \in T
  <2> HIDE DEF T
  <2> QED
    BY <1>2, <1>3, <1>4, UpTo
<1>6. name \in at[MAX_DEPTH - depth + depth][way[depth - depth]].names
  BY <1>2, <1>5
<1>7. MAX_DEPTH - depth + depth = MAX_DEPTH /\ depth - depth = 0
  BY <1>2
<1> QED
  BY <1>1, <1>6, <1>7

-----------------------------------------------------------------------------
(* audit_launch: the chains of the jobs                                    *)

\* The chains of the jobs.
LEMMA NamesDiffer ==
    ASSUME NEW i \in 0..6
    PROVE  /\ Name(i) # "dynamic" /\ Name(i) # "uninstalled" /\ Name(i) # "odd"
           /\ \A j \in 0..6 : Name(i) = Name(j) => i = j
<1>1. /\ Name(0) = "f0" /\ Name(1) = "f1" /\ Name(2) = "f2" /\ Name(3) = "f3"
      /\ Name(4) = "f4" /\ Name(5) = "f5" /\ Name(6) = "f6"
  BY DEF Name
<1>2. \A j \in 0..6 : j = 0 \/ j = 1 \/ j = 2 \/ j = 3 \/ j = 4 \/ j = 5 \/ j = 6
  OBVIOUS
<1> QED
  BY <1>1, <1>2

\* The parameter files of the jobs.
Params == [p \in {"p"} |-> {"x"}]

\* A file of a chain.
Link(n, reader, way, dark, i) ==
    LET reads == i = reader
    IN  [vars |-> {"y"} \cup (IF reads /\ way = "var" THEN {"x"} ELSE {}),
         args |-> IF i = 0 THEN {"x"} ELSE {"file"},
         params |-> IF ~reads \/ way = "var" THEN {}
                    ELSE {[named |-> way = "param", from |-> IF way = "param" THEN "p" ELSE "file"]},
         default |-> IF way = "default" THEN [a \in {"file"} |-> "p"] ELSE <<>>,
         includes |-> IF i = n THEN {}
                      ELSE {[target |-> IF i = dark THEN "dynamic" ELSE Name(i + 1),
                             passed |-> IF i = 0 THEN {"x"} ELSE {}]},
         xml |-> TRUE, parses |-> TRUE, packages |-> {"here", "gone"}]

\* A chain of the jobs, file by file.
LEMMA ChainIs ==
    ASSUME NEW n \in 1..6, NEW reader, NEW way, NEW dark
    PROVE  /\ DOMAIN Chain(n, reader, way, dark) = {Name(i) : i \in 0..n}
           /\ \A i \in 0..n : Chain(n, reader, way, dark)[Name(i)] = Link(n, reader, way, dark, i)
<1>1. DOMAIN Chain(n, reader, way, dark) = {Name(i) : i \in 0..n}
  BY DEF Chain
<1>2. ASSUME NEW i \in 0..n PROVE (CHOOSE k \in 0..n : Name(k) = Name(i)) = i
  <2>1. i \in 0..6 /\ \A k \in 0..n : k \in 0..6
    OBVIOUS
  <2>2. \A k \in 0..n : Name(k) = Name(i) => k = i
    BY <2>1, NamesDiffer
  <2> QED
    BY <2>2
<1>3. ASSUME NEW i \in 0..n PROVE Chain(n, reader, way, dark)[Name(i)] = Link(n, reader, way, dark, i)
  <2>1. Name(i) \in {Name(k) : k \in 0..n}
    OBVIOUS
  <2>2. Chain(n, reader, way, dark)[Name(i)]
          = Link(n, reader, way, dark, CHOOSE k \in 0..n : Name(k) = Name(i))
    BY <2>1 DEF Chain, Link
  <2> QED
    BY <1>2, <2>2
<1> QED
  BY <1>1, <1>3

\* A file that loads one parameter file, named or by default.
LEMMA OneParam ==
    ASSUME NEW file, NEW q, file.params = {q}
    PROVE  /\ q.named = TRUE => ParamFiles(file) = {q.from}
           /\ (q.named = FALSE /\ q.from \in DOMAIN file.default) => ParamFiles(file) = {file.default[q.from]}
<1> DEFINE told == {p.from : p \in {r \in file.params : r.named}}
           held == {file.default[p.from] : p \in {r \in file.params : ~r.named /\ r.from \in DOMAIN file.default}}
<1>1. ParamFiles(file) = told \cup held
  BY DEF ParamFiles
<1>2. ASSUME q.named = TRUE PROVE told = {q.from} /\ held = {}
  BY <1>2
<1>3. ASSUME q.named = FALSE, q.from \in DOMAIN file.default PROVE told = {} /\ held = {file.default[q.from]}
  BY <1>3
<1> HIDE DEF told, held
<1> QED
  BY <1>1, <1>2, <1>3

\* The argument is in the names of a file exactly if the file is the one that
\* reads it.
FileReads(file, n, reader, way, dark, i) ==
    /\ "x" \in InText(file) <=> (i = reader /\ way = "var")
    /\ "x" \in InParams(Params, file) <=> (i = reader /\ way # "var")
    /\ file.includes = IF i = n THEN {}
                       ELSE {[target |-> IF i = dark THEN "dynamic" ELSE Name(i + 1), passed |-> {}]}

LEMMA LinkReads ==
    ASSUME NEW n \in 1..6, NEW reader \in 0..n, NEW way \in {"var", "param", "default"}, NEW dark \in 1..6,
           NEW i \in 1..n
    PROVE  FileReads(Link(n, reader, way, dark, i), n, reader, way, dark, i)
<1> DEFINE file == Link(n, reader, way, dark, i)
<1>1. "x" \in InText(file) <=> (i = reader /\ way = "var")
  BY DEF InText, Link
<1>2. file.includes = IF i = n THEN {}
                      ELSE {[target |-> IF i = dark THEN "dynamic" ELSE Name(i + 1), passed |-> {}]}
  BY DEF Link
<1>3. /\ file.params = IF i # reader \/ way = "var" THEN {}
                       ELSE {[named |-> way = "param", from |-> IF way = "param" THEN "p" ELSE "file"]}
      /\ file.default = IF way = "default" THEN [a \in {"file"} |-> "p"] ELSE <<>>
  BY DEF Link
<1> HIDE DEF file
<1>4. CASE i # reader \/ way = "var"
  <2>1. ParamFiles(file) = {}
    BY <1>3, <1>4 DEF ParamFiles
  <2> QED
    BY <1>1, <1>2, <1>4, <2>1 DEF InParams, file, FileReads
<1>5. CASE i = reader /\ way = "param"
  <2>1. file.params = {[named |-> TRUE, from |-> "p"]}
    BY <1>3, <1>5
  <2>2. ParamFiles(file) = {"p"}
    <3> DEFINE q == [named |-> TRUE, from |-> "p"]
    <3>1. q.named = TRUE /\ q.from = "p" /\ file.params = {q}
      BY <2>1
    <3> HIDE DEF q
    <3> QED
      <4>1. ParamFiles(file) = {q.from}
        BY <3>1, OneParam
      <4> QED
        BY <3>1, <4>1, Zenon
  <2>3. InParams(Params, file) = {"x"}
    BY <2>2 DEF InParams, Params
  <2> QED
    BY <1>1, <1>2, <1>5, <2>3 DEF file, FileReads
<1>6. CASE i = reader /\ way = "default"
  <2>1. file.params = {[named |-> FALSE, from |-> "file"]}
    BY <1>3, <1>6
  <2>2. file.default = [a \in {"file"} |-> "p"]
    BY <1>3, <1>6
  <2>3. ParamFiles(file) = {"p"}
    <3> DEFINE q == [named |-> FALSE, from |-> "file"]
    <3>1. q.named = FALSE /\ q.from = "file" /\ file.params = {q}
      BY <2>1
    <3>2. "file" \in DOMAIN file.default /\ file.default["file"] = "p"
      BY <2>2
    <3>3. q.from \in DOMAIN file.default /\ file.default[q.from] = "p"
      BY <3>1, <3>2
    <3> HIDE DEF q
    <3>4. ParamFiles(file) = {file.default[q.from]}
      BY <3>1, <3>3, OneParam, Zenon
    <3> QED
      BY <3>3, <3>4
  <2>4. InParams(Params, file) = {"x"}
    BY <2>3 DEF InParams, Params
  <2> QED
    BY <1>1, <1>2, <1>6, <2>4 DEF file, FileReads
<1> QED
  BY <1>4, <1>5, <1>6

-----------------------------------------------------------------------------
(* audit_launch: what is found in a chain                                  *)

\* What the tool finds from a file of a chain on.
Finds(found, n, reader, dark, i) ==
    /\ found.complete \in BOOLEAN
    /\ found.complete <=> dark \notin i..n - 1
    /\ found.complete => ("x" \in found.names <=> reader \in i..n)

\* The findings of a file: nothing below it, a file below it, or a file that is
\* not there.
Own(files, params, f) == InText(files[f]) \cup InParams(params, files[f])

\* referenced_names: a file that includes nothing.
LEMMA FollowEnds ==
    ASSUME NEW files, NEW params, NEW below, NEW f \in DOMAIN files, files[f].includes = {}
    PROVE  /\ Deeper(files, params, below)[f].complete = TRUE
           /\ Deeper(files, params, below)[f].names = Own(files, params, f)
<1> DEFINE found == Deeper(files, params, below)[f]
           there == {i \in files[f].includes : i.target \in DOMAIN files}
           own == InText(files[f])
           loaded == InParams(params, files[f])
           passed == UNION {below[i.target].names : i \in there}
<1>1. found = Follow(files, params, files[f], below)
  BY DEF Deeper
<1>2. Follow(files, params, files[f], below).names = own \cup loaded \cup passed
  BY DEF Follow, Found, InText, InParams
<1>3. Follow(files, params, files[f], below).complete
         = (there = files[f].includes /\ \A i \in there : below[i.target].complete)
  BY DEF Follow, Found
<1> HIDE DEF own, loaded, found
<1>4. there = {} /\ passed = {}
  OBVIOUS
<1> HIDE DEF there, passed
<1>5. found.complete = TRUE /\ found.names = own \cup loaded
  BY <1>1, <1>2, <1>3, <1>4
<1> QED
  BY <1>5 DEF own, loaded, found, Own

\* referenced_names: a file that includes one that is there.
LEMMA FollowOn ==
    ASSUME NEW files, NEW params, NEW below, NEW f \in DOMAIN files,
           NEW i, files[f].includes = {i}, i.target \in DOMAIN files
    PROVE  /\ Deeper(files, params, below)[f].complete <=> below[i.target].complete
           /\ Deeper(files, params, below)[f].complete \in BOOLEAN
           /\ Deeper(files, params, below)[f].names = Own(files, params, f) \cup below[i.target].names
<1> DEFINE found == Deeper(files, params, below)[f]
           there == {k \in files[f].includes : k.target \in DOMAIN files}
           own == InText(files[f])
           loaded == InParams(params, files[f])
           passed == UNION {below[k.target].names : k \in there}
<1>1. found = Follow(files, params, files[f], below)
  BY DEF Deeper
<1>2. Follow(files, params, files[f], below).names = own \cup loaded \cup passed
  BY DEF Follow, Found, InText, InParams
<1>3. Follow(files, params, files[f], below).complete
         = (there = files[f].includes /\ \A k \in there : below[k.target].complete)
  BY DEF Follow, Found
<1> HIDE DEF own, loaded, found
<1>4. there = {i}
  OBVIOUS
<1>5. passed = below[i.target].names
  <2> HIDE DEF there
  <2> QED
    BY <1>4
<1> HIDE DEF there, passed
<1>6. found.complete = (\A k \in {i} : below[k.target].complete)
  BY <1>1, <1>3, <1>4
<1>7. found.names = own \cup loaded \cup below[i.target].names
  BY <1>1, <1>2, <1>5
<1>8. (found.complete <=> below[i.target].complete) /\ found.complete \in BOOLEAN
  BY <1>6
<1> QED
  BY <1>7, <1>8 DEF own, loaded, found, Own

\* referenced_names: a file that includes one that cannot be told.
LEMMA FollowNot ==
    ASSUME NEW files, NEW params, NEW below, NEW f \in DOMAIN files,
           NEW i, files[f].includes = {i}, i.target \notin DOMAIN files
    PROVE  Deeper(files, params, below)[f].complete = FALSE
<1> DEFINE found == Deeper(files, params, below)[f]
           there == {k \in files[f].includes : k.target \in DOMAIN files}
<1>1. found = Follow(files, params, files[f], below)
  BY DEF Deeper
<1>2. Follow(files, params, files[f], below).complete
         = (there = files[f].includes /\ \A k \in there : below[k.target].complete)
  BY DEF Follow, Found
<1> HIDE DEF found
<1>3. there # files[f].includes
  OBVIOUS
<1> HIDE DEF there
<1>4. found.complete = FALSE
  BY <1>1, <1>2, <1>3
<1> QED
  BY <1>4 DEF found

\* What a job asks for: a chain that the tool can look through.
InReach(n, reader, way) ==
    /\ n \in 1..MAX_DEPTH + 1 /\ reader \in 0..n /\ way \in {"var", "param", "default"}
    /\ reader > MAX_DEPTH => way = "var"

\* File k of a chain: what it reads, and what it includes.
LinkIs(files, n, reader, way, k) ==
    /\ Name(k) \in DOMAIN files
    /\ "x" \in InText(files[Name(k)]) <=> (k = reader /\ way = "var")
    /\ "x" \in InParams(Params, files[Name(k)]) <=> (k = reader /\ way # "var")
LinksTo(files, n, dark, k) ==
    files[Name(k)].includes = IF k = n THEN {}
                              ELSE {[target |-> IF k = dark THEN "dynamic" ELSE Name(k + 1), passed |-> {}]}

\* The files of a chain are such files.
LEMMA ChainLinks ==
    ASSUME NEW n \in 1..6, NEW reader \in 0..n, NEW way \in {"var", "param", "default"}, NEW dark \in 1..6,
           NEW k \in 1..n
    PROVE  /\ LinkIs(Chain(n, reader, way, dark), n, reader, way, k)
           /\ LinksTo(Chain(n, reader, way, dark), n, dark, k)
<1> DEFINE files == Chain(n, reader, way, dark)
           file == Link(n, reader, way, dark, k)
<1>1. k \in 0..n
  OBVIOUS
<1>2. files[Name(k)] = file /\ Name(k) \in DOMAIN files
  BY <1>1, ChainIs
<1>3. FileReads(file, n, reader, way, dark, k)
  BY LinkReads
<1> HIDE DEF files, file
<1>4. LinkIs(files, n, reader, way, k) /\ LinksTo(files, n, dark, k)
  BY <1>2, <1>3 DEF LinkIs, LinksTo, FileReads
<1> QED
  BY <1>4 DEF files

\* The last file of a chain, and a file before it.
LEMMA LastFinds ==
    ASSUME NEW files, NEW n, NEW reader, NEW way, InReach(n, reader, way), NEW dark \in 1..6,
           NEW at, DepthsOf(files, Params, at), LinkIs(files, n, reader, way, n), LinksTo(files, n, dark, n)
    PROVE  Finds(at[5 - n][Name(n)], n, reader, dark, n)
<1> DEFINE f == Name(n)
           left == 5 - n
           found == at[left][f]
<1>1. /\ n \in Nat /\ n >= 1 /\ n <= 5 /\ MAX_DEPTH = 4 /\ reader \in 0..n
      /\ way \in {"var", "param", "default"} /\ (reader > 4 => way = "var")
  BY DEF InReach, MAX_DEPTH
<1>2. dark \notin n..n - 1 /\ (reader \in n..n <=> n = reader)
  BY <1>1
<1>3. /\ f \in DOMAIN files /\ files[f].includes = {}
      /\ ("x" \in InText(files[f]) <=> (n = reader /\ way = "var"))
      /\ ("x" \in InParams(Params, files[f]) <=> (n = reader /\ way # "var"))
  BY DEF LinkIs, LinksTo
<1> HIDE DEF f
<1>4. found.complete = TRUE /\ ("x" \in found.names <=> n = reader)
  <2>1. CASE n = 5
    <3>1. left = 0
      BY <2>1
    <3> HIDE DEF left
    <3>2. found = [names |-> InText(files[f]), complete |-> TRUE]
      BY <1>3, <3>1 DEF DepthsOf, Unfollowed, InText
    <3>3. n = reader => way = "var"
      BY <1>1, <2>1
    <3>4. "x" \in InText(files[f]) <=> n = reader
      BY <1>3, <3>3
    <3> QED
      BY <3>2, <3>4
  <2>2. CASE n # 5
    <3>1. left \in 1..MAX_DEPTH
      BY <1>1, <2>2
    <3> HIDE DEF left
    <3>2. at[left] = Deeper(files, Params, at[left - 1])
      BY <3>1 DEF DepthsOf
    <3> DEFINE below == at[left - 1]
    <3> HIDE DEF below
    <3>3. at[left] = Deeper(files, Params, below)
      BY <3>2 DEF below
    <3>4. /\ Deeper(files, Params, below)[f].complete = TRUE
          /\ Deeper(files, Params, below)[f].names = Own(files, Params, f)
      BY <1>3, FollowEnds
    <3>5. found.complete = TRUE /\ found.names = Own(files, Params, f)
      BY <3>3, <3>4
    <3>6. "x" \in Own(files, Params, f) <=> n = reader
      BY <1>3 DEF Own
    <3> QED
      BY <3>5, <3>6
  <2> QED
    BY <2>1, <2>2
<1> HIDE DEF found
<1>5. Finds(found, n, reader, dark, n)
  BY <1>2, <1>4 DEF Finds
<1> QED
  BY <1>5 DEF found, left, f

\* A file before the last finds what it reads and what the next one finds.
LEMMA LinkFinds ==
    ASSUME NEW files, NEW n \in 1..6, NEW reader, NEW way, NEW dark \in 1..6,
           NEW k \in 1..n - 1, NEW below, reader \in 0..n, way \in {"var", "param", "default"},
           \A p \in DOMAIN files : p # "dynamic", Name(k + 1) \in DOMAIN files,
           LinkIs(files, n, reader, way, k), LinksTo(files, n, dark, k),
           Finds(below[Name(k + 1)], n, reader, dark, k + 1)
    PROVE  Finds(Deeper(files, Params, below)[Name(k)], n, reader, dark, k)
<1> DEFINE f == Name(k)
           g == Name(k + 1)
           inc == [target |-> IF k = dark THEN "dynamic" ELSE g, passed |-> {}]
           found == Deeper(files, Params, below)[f]
           next == below[g]
<1>1. k # n /\ n \in Nat /\ k \in Nat
  OBVIOUS
<1>2. /\ f \in DOMAIN files /\ files[f].includes = {inc} /\ g \in DOMAIN files
      /\ ("x" \in InText(files[f]) <=> (k = reader /\ way = "var"))
      /\ ("x" \in InParams(Params, files[f]) <=> (k = reader /\ way # "var"))
  BY <1>1 DEF LinkIs, LinksTo
<1>3. inc.target = IF k = dark THEN "dynamic" ELSE g
  OBVIOUS
<1>4. Finds(next, n, reader, dark, k + 1)
  OBVIOUS
<1> HIDE DEF f, g, inc
<1>5. CASE k = dark
  <2>1. inc.target \notin DOMAIN files
    BY <1>3, <1>5
  <2>2. found.complete = FALSE
    BY <1>2, <2>1, FollowNot
  <2>3. dark \in k..n - 1
    BY <1>1, <1>5
  <2> HIDE DEF found
  <2>4. Finds(found, n, reader, dark, k)
    BY <2>2, <2>3 DEF Finds
  <2> QED
    BY <2>4 DEF found, f
<1>6. CASE k # dark
  <2>1. inc.target = g
    BY <1>3, <1>6
  <2>2. inc.target \in DOMAIN files
    BY <1>2, <2>1
  <2>3. /\ found.complete <=> below[inc.target].complete
        /\ found.complete \in BOOLEAN
        /\ found.names = Own(files, Params, f) \cup below[inc.target].names
    BY <1>2, <2>2, FollowOn
  <2> HIDE DEF found
  <2>4. /\ found.complete <=> next.complete
        /\ found.complete \in BOOLEAN
        /\ found.names = Own(files, Params, f) \cup next.names
    BY <2>1, <2>3
  <2> HIDE DEF next
  <2>5. dark \notin k + 1..n - 1 <=> dark \notin k..n - 1
    BY <1>1, <1>6
  <2>6. reader \in k..n <=> (reader = k \/ reader \in k + 1..n)
    BY <1>1
  <2>7. "x" \in Own(files, Params, f) <=> k = reader
    BY <1>2 DEF Own
  <2>8. "x" \in found.names <=> (k = reader \/ "x" \in next.names)
    BY <2>4, <2>7
  <2>9. /\ next.complete <=> dark \notin k + 1..n - 1
        /\ next.complete => ("x" \in next.names <=> reader \in k + 1..n)
    BY <1>4 DEF Finds
  <2>10. Finds(found, n, reader, dark, k)
    BY <2>4, <2>5, <2>6, <2>8, <2>9 DEF Finds
  <2> QED
    BY <2>10 DEF found, f
<1> QED
  BY <1>5, <1>6

\* What is found from each file of a chain on, with as far to look as is left.
LEMMA ChainIsFound ==
    ASSUME NEW n, NEW reader, NEW way, InReach(n, reader, way), NEW dark \in 1..6,
           NEW at, DepthsOf(Chain(n, reader, way, dark), Params, at), NEW i \in 1..n
    PROVE  Finds(at[5 - i][Name(i)], n, reader, dark, i)
<1> DEFINE files == Chain(n, reader, way, dark)
           T == {j \in Nat : j <= n - 1 => Finds(at[5 - (n - j)][Name(n - j)], n, reader, dark, n - j)}
<1>1. /\ n \in Nat /\ n >= 1 /\ n <= 5 /\ n \in 1..6 /\ MAX_DEPTH = 4 /\ reader \in 0..n
      /\ way \in {"var", "param", "default"} /\ (reader > 4 => way = "var")
  BY DEF InReach, MAX_DEPTH
<1>2. \A k \in 1..n : LinkIs(files, n, reader, way, k) /\ LinksTo(files, n, dark, k)
  BY <1>1, ChainLinks
<1>3. \A p \in DOMAIN files : p # "dynamic"
  <2>1. DOMAIN files = {Name(k) : k \in 0..n}
    BY <1>1, ChainIs
  <2>2. \A k \in 0..n : k \in 0..6
    BY <1>1
  <2> HIDE DEF files
  <2> QED
    BY <2>1, <2>2, NamesDiffer
<1>4. DepthsOf(files, Params, at)
  OBVIOUS
<1> HIDE DEF files
<1>5. 0 \in T
  <2>1. n \in 1..n /\ n - 0 = n
    BY <1>1
  <2>2. Finds(at[5 - n][Name(n)], n, reader, dark, n)
    BY <1>2, <1>4, <2>1, LastFinds
  <2> QED
    BY <2>1, <2>2
<1>6. ASSUME NEW j \in 0..(n - 1) - 1, j \in T PROVE j + 1 \in T
  <2> DEFINE k == n - (j + 1)
             left == 5 - k
             below == at[left - 1]
  <2>1. /\ k \in 1..n - 1 /\ k \in 1..n /\ k + 1 = n - j /\ k + 1 \in 1..n
        /\ left \in 1..MAX_DEPTH /\ left - 1 = 5 - (n - j) /\ j <= n - 1
    BY <1>1
  <2>2. Finds(at[5 - (n - j)][Name(n - j)], n, reader, dark, n - j)
    BY <1>6, <2>1
  <2>3. Finds(below[Name(k + 1)], n, reader, dark, k + 1)
    BY <2>1, <2>2
  <2> HIDE DEF k, left
  <2>4. at[left] = Deeper(files, Params, below)
    BY <1>4, <2>1 DEF DepthsOf
  <2>5. LinkIs(files, n, reader, way, k) /\ LinksTo(files, n, dark, k) /\ Name(k + 1) \in DOMAIN files
    BY <1>2, <2>1 DEF LinkIs
  <2> HIDE DEF below
  <2>6. Finds(Deeper(files, Params, below)[Name(k)], n, reader, dark, k)
    BY <1>1, <1>3, <2>1, <2>3, <2>5, LinkFinds
  <2>7. Finds(at[left][Name(k)], n, reader, dark, k)
    BY <2>4, <2>6
  <2> QED
    BY <2>7 DEF k, left
<1>7. n - 1 \in Nat /\ n - i \in Nat /\ n - i <= n - 1 /\ n - (n - i) = i
  BY <1>1
<1>8. n - i \in T
  <2> DEFINE m == n - i
  <2>1. m \in Nat /\ \A j \in 0..m - 1 : j \in 0..(n - 1) - 1
    BY <1>1
  <2> HIDE DEF T, m
  <2>2. m \in T
    BY <1>5, <1>6, <2>1, UpTo
  <2> QED
    BY <2>2 DEF m
<1> QED
  BY <1>7, <1>8

-----------------------------------------------------------------------------
(* The runs of MCTools: a job is done once, and its output is the script's. *)

\* No step changes what was asked for.
LEMMA JobStays == [Next]_vars => job' = job
  BY DEF Next, vars, Does, DoPlay, DoSweep, DoVcu, DoRoute, DoFit, DoTags, DoMerge, DoPose,
         DoBag, DoScans, DoAudit, DoReplay, DoDrill, DoFov, DoTwin

\* What a script that has run left is its result.
Ran(tool, result) == (job.tool = tool /\ done) => out = result

\* Each script runs once, and nothing writes its result afterwards.
LEMMA RunsOnce ==
    ASSUME [Next]_vars
    PROVE  /\ Ran("pose", PoseResult(job)) => Ran("pose", PoseResult(job))'
           /\ Ran("drill", DrillResult(job)) => Ran("drill", DrillResult(job))'
           /\ Ran("fov", FovResult(job)) => Ran("fov", FovResult(job))'
           /\ Ran("sweep", SweepResult(job)) => Ran("sweep", SweepResult(job))'
           /\ Ran("merge", MergeResult(job)) => Ran("merge", MergeResult(job))'
           /\ Ran("play", PlayResult(job)) => Ran("play", PlayResult(job))'
           /\ Ran("scans", ScansResult(job)) => Ran("scans", ScansResult(job))'
           /\ Ran("bag", BagResult(job)) => Ran("bag", BagResult(job))'
           /\ Ran("vcu", VcuResult(job)) => Ran("vcu", VcuResult(job))'
           /\ Ran("route", RouteResult(job)) => Ran("route", RouteResult(job))'
           /\ Ran("audit", AuditResult(job)) => Ran("audit", AuditResult(job))'
           /\ Ran("fit", FitResult(job)) => Ran("fit", FitResult(job))'
           /\ Ran("tags", TagsResult(job)) => Ran("tags", TagsResult(job))'
           /\ Ran("replay", ReplayResult(job)) => Ran("replay", ReplayResult(job))'
<1> USE DEF Ran
<1>1. CASE DoPose
  BY <1>1 DEF DoPose, Does
<1>2. CASE DoDrill
  BY <1>2 DEF DoDrill, Does
<1>3. CASE DoFov
  BY <1>3 DEF DoFov, Does
<1>4. CASE DoSweep
  BY <1>4 DEF DoSweep, Does
<1>5. CASE DoMerge
  BY <1>5 DEF DoMerge, Does
<1>6. CASE DoTwin \/ UNCHANGED vars
  BY <1>6 DEF DoTwin, vars
<1>7. CASE DoReplay
  BY <1>7 DEF DoReplay, Does
<1>15. CASE DoTags
  BY <1>15 DEF DoTags, Does
<1>8. CASE DoRoute
  BY <1>8 DEF DoRoute, Does
<1>9. CASE DoAudit
  BY <1>9 DEF DoAudit, Does
<1>10. CASE DoPlay
  BY <1>10 DEF DoPlay, Does
<1>11. CASE DoScans
  BY <1>11 DEF DoScans, Does
<1>12. CASE DoBag
  BY <1>12 DEF DoBag, Does
<1>13. CASE DoVcu
  BY <1>13 DEF DoVcu, Does
<1>14. CASE DoFit
  BY <1>14 DEF DoFit, Does
<1> QED
  BY <1>1, <1>2, <1>3, <1>4, <1>5, <1>6, <1>7, <1>8, <1>9, <1>10, <1>11, <1>12, <1>13, <1>14, <1>15 DEF Next

\* What a job asks for, as far as the theorems above need it.
DrillJob == 
    job.tool = "drill" =>
        job.args \in DrillArgs(job.leaves) /\ job.others \in Nat /\ job.clock \in Seq(Int)
PoseJob == job.tool = "pose" => job.set_on.map \in DOMAIN Maps

\* The inputs are sequences.
LEMMA SomeSeqs == ASSUME NEW S, NEW n \in Nat PROVE SeqsUpTo(S, n) \subseteq Seq(S)
  BY DEF SeqsUpTo

\* Each job asks for its own tool.
LEMMA JobsOfOthers ==
    /\ JobPlay => job.tool = "play"
    /\ JobVcu \/ JobWake => job.tool = "vcu"
    /\ JobRoute => job.tool = "route"
    /\ JobLane \/ JobPinch => job.tool = "fit"
    /\ JobTags => job.tool = "tags"
    /\ JobBag => job.tool = "bag"
    /\ JobScans => job.tool = "scans"
    /\ JobAudit => job.tool = "audit"
    /\ JobReplay => job.tool = "replay"
    /\ JobTwin => job.tool = "twin"
<1>1. JobPlay => job.tool = "play"
  BY DEF JobPlay
<1>2. JobVcu => job.tool = "vcu"
  BY DEF JobVcu
<1>3. JobWake => job.tool = "vcu"
  BY DEF JobWake
<1>4. JobRoute => job.tool = "route"
  BY DEF JobRoute
<1>5. JobLane => job.tool = "fit"
  BY DEF JobLane
<1>6. JobPinch => job.tool = "fit"
  BY DEF JobPinch
<1>7. JobTags => job.tool = "tags"
  BY DEF JobTags
<1>8. JobBag => job.tool = "bag"
  BY DEF JobBag
<1>9. JobScans => job.tool = "scans"
  BY DEF JobScans
<1>10. JobAudit => job.tool = "audit"
  BY DEF JobAudit
<1>11. JobReplay => job.tool = "replay"
  BY DEF JobReplay
<1>12. JobTwin => job.tool = "twin"
  BY DEF JobTwin
<1> QED
  BY <1>1, <1>2, <1>3, <1>4, <1>5, <1>6, <1>7, <1>8, <1>9, <1>10, <1>11, <1>12

\* The jobs of the scripts that the theorems are about.
LEMMA JobsProved ==
    /\ JobDrill => job.tool = "drill" /\ DrillJob
    /\ JobPose => job.tool = "pose" /\ PoseJob
    /\ JobMerge => job.tool = "merge"
    /\ JobFov => job.tool = "fov"
    /\ JobSweep => job.tool = "sweep"
<1>1. JobDrill => job.tool = "drill" /\ DrillJob
  <2> SUFFICES ASSUME NEW leaves \in {{}, Leaves}, NEW args \in SomeDrills(leaves),
                      NEW others \in 0..1, NEW clock \in DrillClocks,
                      job = [tool |-> "drill", leaves |-> leaves, args |-> args, others |-> others,
                             clock |-> clock]
               PROVE  job.tool = "drill" /\ DrillJob
    BY DEF JobDrill
  <2> DEFINE Faults == [hits : SUBSET leaves, level : Words]
  <2>1. SomeFaults(leaves) \subseteq Faults
    <3>1. {"ERROR", "WARN", "LOUD"} \subseteq Words
      BY DEF Words, LEVELS
    <3> QED
      BY <3>1 DEF SomeFaults
  <2>2. SeqsUpTo(SomeFaults(leaves), 2) \subseteq Seq(Faults)
    <3>1. SeqsUpTo(SomeFaults(leaves), 2) \subseteq Seq(SomeFaults(leaves))
      BY SomeSeqs
    <3> HIDE DEF Faults
    <3> QED
      BY <2>1, <3>1
  <2>3. args \in DrillArgs(leaves)
    <3>1. args.faults \in SeqsUpTo(SomeFaults(leaves), 2)
      BY DEF SomeDrills
    <3>2. args.faults \in Seq(Faults)
      <4> HIDE DEF Faults
      <4> QED
        BY <2>2, <3>1
    <3> QED
      BY <3>2 DEF SomeDrills, DrillArgs, Never
  <2>4. clock \in Seq(Int)
    <3>1. CASE clock = <<0, 1, 2, 3, 4, 5>>
      BY <3>1
    <3>2. CASE clock = <<1, 3, 2, 4, 3, 5>>
      BY <3>2
    <3>3. CASE clock = <<0, 3, 1, 3>>
      BY <3>3
    <3>4. CASE clock = <<2, 1, 5, 1, 3>>
      BY <3>4
    <3> QED
      BY <3>1, <3>2, <3>3, <3>4 DEF DrillClocks
  <2>5. /\ job.tool = "drill" /\ job.args = args /\ job.leaves = leaves
        /\ job.others = others /\ job.clock = clock
    OBVIOUS
  <2> QED
    BY <2>3, <2>4, <2>5 DEF DrillJob
<1>2. JobPose => job.tool = "pose" /\ PoseJob
  <2> SUFFICES ASSUME NEW capture \in Captures, NEW captured_on \in CapturedOn,
                      NEW set \in Settings, NEW set_on \in SetOn,
                      job = [tool |-> "pose", capture |-> capture, captured_on |-> captured_on,
                             set |-> set, set_on |-> set_on]
               PROVE  job.tool = "pose" /\ PoseJob
    BY DEF JobPose
  <2>1. set_on.map \in DOMAIN Maps
    BY DEF SetOn
  <2>2. job.tool = "pose" /\ job.set_on = set_on
    OBVIOUS
  <2> QED
    BY <2>1, <2>2 DEF PoseJob
<1>3. JobMerge => job.tool = "merge"
  BY DEF JobMerge
<1>4. JobFov => job.tool = "fov"
  BY DEF JobFov
<1>5. JobSweep => job.tool = "sweep"
  BY DEF JobSweep
<1> QED
  BY <1>1, <1>2, <1>3, <1>4, <1>5

\* diag_inject: every drill of the run is as it was asked for.
THEOREM DrillInRun == Spec => []DrillIsAsAsked
<1> DEFINE Inv == DrillJob /\ Ran("drill", DrillResult(job))
<1>1. Init => Inv
  BY JobsOfOthers, JobsProved DEF Init, Ran, DrillJob
<1>2. Inv /\ [Next]_vars => Inv'
  BY JobStays, RunsOnce DEF DrillJob
<1>3. Inv => DrillIsAsAsked
  <2> SUFFICES ASSUME Inv, Did("drill")
               PROVE  DrillAsAsked(job.leaves, job.args, job.others, job.clock, out)
    BY DEF DrillIsAsAsked
  <2>1. out = [sent |-> Inject(job.leaves, job.args, job.others, job.clock),
               exit |-> Exit(job.leaves, job.args, job.others)]
    BY DEF Did, Ran, DrillResult
  <2> QED
    BY <2>1, AnyDrillIsAsAsked DEF Did, DrillJob
<1> QED
  BY <1>1, <1>2, <1>3, PTL DEF Spec

\* set_initial_pose: every pose that the run sends with --map to a stack whose
\* loader answers lies within a map with the data that the stack has loaded.
THEOREM PoseInRun == Spec => []PoseBelongsToMap
<1> DEFINE Inv == PoseJob /\ Ran("pose", PoseResult(job))
<1>1. Init => Inv
  BY JobsOfOthers, JobsProved DEF Init, Ran, PoseJob
<1>2. Inv /\ [Next]_vars => Inv'
  BY JobStays, RunsOnce DEF PoseJob
<1>3. Inv => PoseBelongsToMap
  <2> SUFFICES ASSUME Inv, Did("pose")
               PROVE  PoseBelongs(Maps, out.capture.files, job.set, job.set_on, out.set)
    BY DEF PoseBelongsToMap
  <2> DEFINE files == Capture(<<>>, Maps, job.capture, job.captured_on).files
  <2>1. out.capture.files = files /\ out.set = SetPose(files, Maps, job.set, job.set_on)
    BY DEF Did, Ran, PoseResult
  <2>2. \A m \in DOMAIN Maps : Maps[m].path # "unknown"
    BY DEF Maps
  <2>3. job.set_on.map \in DOMAIN Maps
    BY DEF Did, PoseJob
  <2> HIDE DEF files
  <2> QED
    BY <2>1, <2>2, <2>3, AnyPoseBelongsToMap
<1> QED
  BY <1>1, <1>2, <1>3, PTL DEF Spec

\* What a fov job asks for.
FovJob == job.tool = "fov" => IsView(job.args)
\* The scan of the jobs is a cloud.
LEMMA ScanIsCloud == IsCloud(Scan)
<1>1. Scan = <<Scan[1], Scan[2], Scan[3], Scan[4], Scan[5], Scan[6]>> /\ DOMAIN Scan = 1..6
  BY DEF Scan
<1>2. ASSUME NEW k \in 1..6
      PROVE  /\ Scan[k].id = k
             /\ Scan[k].bearing \in Int /\ Scan[k].range \in Int /\ Scan[k].intensity \in Int
             /\ Scan[k].elevation \in Int /\ -90 <= Scan[k].elevation /\ Scan[k].elevation <= 90
             /\ "intensity" \in DOMAIN Scan[k] /\ "ring" \in DOMAIN Scan[k] /\ "id" \in DOMAIN Scan[k]
  <2>1. k = 1 \/ k = 2 \/ k = 3 \/ k = 4 \/ k = 5 \/ k = 6
    OBVIOUS
  <2> QED
    BY <2>1 DEF Scan, Point3
<1>3. Scan \in Seq(Range(Scan))
  <2> DEFINE R == Range(Scan)
  <2>1. \A k \in 1..6 : Scan[k] \in R
    BY <1>1 DEF Range
  <2> HIDE DEF R
  <2>2. Scan[1] \in R /\ Scan[2] \in R /\ Scan[3] \in R /\ Scan[4] \in R /\ Scan[5] \in R /\ Scan[6] \in R
    BY <2>1
  <2>3. <<Scan[1], Scan[2], Scan[3], Scan[4], Scan[5], Scan[6]>> \in Seq(R)
    BY <2>2
  <2> QED
    BY <1>1, <2>3 DEF R
<1> QED
  BY <1>1, <1>2, <1>3 DEF IsCloud

\* Every fov job asks for a view.
LEMMA FovJobs == JobFov => job.tool = "fov" /\ FovJob
  BY DEF JobFov, FovJob, IsView

\* What a merge job asks for.
MergeJob == job.tool = "merge" =>
    /\ IsMap(job.a.elements) /\ (\A e \in job.a.elements : e.id < ID_OFFSET) /\ IsMap(job.b.elements)
    /\ job.closed \in BOOLEAN
    /\ job.a.pcds \in DirsOf("a") /\ job.b.pcds \in DirsOf("b")

\* Every merge job asks for two maps.
LEMMA MergeJobs == JobMerge => job.tool = "merge" /\ MergeJob
<1> SUFFICES ASSUME NEW a \in MapsOf("a"), NEW b \in MapsOf("b"), NEW p, NEW q, NEW c \in BOOLEAN,
                    NEW pa \in DirsOf("a"), NEW pb \in DirsOf("b"),
                    job = [tool |-> "merge", closed |-> c,
                           a |-> [elements |-> a, projector |-> p, pcds |-> pa],
                           b |-> [elements |-> b, projector |-> q, pcds |-> pb]]
             PROVE  job.tool = "merge" /\ MergeJob
  BY DEF JobMerge
<1>1. /\ job.tool = "merge" /\ job.a.elements = a /\ job.b.elements = b /\ job.closed = c
      /\ job.a.pcds = pa /\ job.b.pcds = pb
  OBVIOUS
<1>2. IsMap(a) /\ (\A e \in a : e.id < ID_OFFSET) /\ IsMap(b)
  BY MapsAre
<1> QED
  BY <1>1, <1>2 DEF MergeJob

\* A map whose cloud merge_maps can read whole.
Whole(map) == /\ map.pcds # <<>> /\ map.pcds[1].data = "binary" /\ Len(map.pcds[1].points) >= 2

\* merge_maps writes exactly if the projectors agree and both clouds can be read.
LEMMA MergesFit ==
    ASSUME NEW a, NEW b, a.pcds \in DirsOf("a"), b.pcds \in DirsOf("b")
    PROVE  LET fit == a.projector = b.projector /\ Whole(a) /\ Whole(b)
           IN  /\ Merges(a, b).written = fit
               /\ fit => /\ TwoOf("a", ReadPcd(FindPcd(a)).points)
                         /\ TwoOf("b", ReadPcd(FindPcd(b)).points)
                         /\ Merges(a, b).elements = MergeLanelet2(a.elements, b.elements)
<1>1. CASE a.pcds = <<>> \/ b.pcds = <<>>
  BY <1>1 DEF Merges, Nothing, Whole
<1>2. CASE a.pcds # <<>> /\ b.pcds # <<>>
  <2>1. /\ ReadPcd(FindPcd(a)).ok = Whole(a) /\ (Whole(a) => TwoOf("a", ReadPcd(FindPcd(a)).points))
        /\ ReadPcd(FindPcd(b)).ok = Whole(b) /\ (Whole(b) => TwoOf("b", ReadPcd(FindPcd(b)).points))
    BY <1>2, CloudReads DEF FindPcd, Whole
  <2>2. CASE a.projector = b.projector /\ Whole(a) /\ Whole(b)
    BY <1>2, <2>1, <2>2 DEF Merges
  <2>3. CASE ~(a.projector = b.projector /\ Whole(a) /\ Whole(b))
    BY <1>2, <2>1, <2>3 DEF Merges, Nothing
  <2> QED
    BY <2>2, <2>3
<1> QED
  BY <1>1, <1>2

\* merge_maps, then centerline_to_lanelet: whatever the two maps are, what is
\* written holds every element of both with its own ids and references, and the
\* lane that is added later takes nothing away.
THEOREM AnyMergedPair ==
    ASSUME NEW a, NEW b, NEW closed \in BOOLEAN,
           IsMap(a.elements), \A e \in a.elements : e.id < ID_OFFSET, IsMap(b.elements),
           a.pcds \in DirsOf("a"), b.pcds \in DirsOf("b")
    PROVE  LET merged == Merges(a, b)
               laned == IF merged.written THEN Laned(merged.elements, "later", closed) ELSE {}
               fit == a.projector = b.projector /\ Whole(a) /\ Whole(b)
           IN  /\ merged.written = fit
               /\ fit => /\ KeptIn(a.elements, merged.elements)
                         /\ KeptIn(b.elements, merged.elements)
                         /\ KeptIn(merged.elements, laned)
                         /\ Cardinality(IdsIn(laned)) = Cardinality(laned)
                         /\ LET read == ReadPcd(FindPcd(merged))
                            IN  read.ok /\ Range(read.points) = {"a", "b"} \X {1, 2}
<1> DEFINE merged == Merges(a, b)
           fit == a.projector = b.projector /\ Whole(a) /\ Whole(b)
           laned == Laned(merged.elements, "later", closed)
           la == ReadPcd(FindPcd(a)).points
           lb == ReadPcd(FindPcd(b)).points
<1>1. /\ merged.written = fit
      /\ fit => /\ TwoOf("a", la) /\ TwoOf("b", lb)
                /\ merged.elements = MergeLanelet2(a.elements, b.elements)
  BY MergesFit
<1>2. ASSUME fit
      PROVE  /\ KeptIn(a.elements, merged.elements) /\ KeptIn(b.elements, merged.elements)
             /\ KeptIn(merged.elements, laned)
             /\ Cardinality(IdsIn(laned)) = Cardinality(laned)
  <2> DEFINE elements == merged.elements
             segments == {<<0, 1>>, <<1, 2>>}
             n == 3
  <2>1. IsMap(elements) /\ KeptIn(a.elements, elements) /\ KeptIn(b.elements, elements)
    BY <1>1, <1>2, AnyMergeKeepsBoth
  <2>2. laned = AddLane(elements, "later", n, closed, segments)
    BY DEF Laned
  <2>3. IsSegments(segments, n) /\ n \in 2..4
    BY TwoSegments
  <2> HIDE DEF segments, n, elements, laned, fit
  <2>4. KeptIn(elements, laned) /\ Cardinality(IdsIn(laned)) = Cardinality(laned)
    BY <2>1, <2>2, <2>3, AnyLaneIsApart
  <2> QED
    BY <2>1, <2>4 DEF elements
<1>3. ASSUME fit PROVE /\ ReadPcd(FindPcd(merged)).ok
                       /\ Range(ReadPcd(FindPcd(merged)).points) = {"a", "b"} \X {1, 2}
  <2> DEFINE P == {"a", "b"} \X {1, 2}
  <2>1. TwoOf("a", la) /\ TwoOf("b", lb) /\ merged.written
    BY <1>1, <1>3
  <2>2. la \in Seq(P) /\ lb \in Seq(P)
    <3> HIDE DEF la, lb
    <3> QED
      BY <2>1 DEF TwoOf
  <2> HIDE DEF P
  <2>3. ReadPcd(FindPcd(merged)) = [ok |-> TRUE, points |-> la \o lb]
    BY <2>1, <2>2, AnyMergeReads
  <2>4. Range(la \o lb) = P
    <3> HIDE DEF la, lb
    <3> QED
      BY <2>1, FourPoints DEF P
  <2> HIDE DEF la, lb, merged
  <2> QED
    BY <2>3, <2>4 DEF P
<1> QED
  BY <1>1, <1>2, <1>3

\* What a sweep job asks for.
SweepJob == job.tool = "sweep" =>
    IF job.kind = "heartbeat" THEN job.gear \in 0..3 /\ job.speed \in Int /\ job.ticks \in Nat
    ELSE /\ job.kind \in {"speed", "steer", "brake"}
         /\ job.max \in Nat /\ job.halves \in Nat \ {0} /\ job.sent \in Nat

\* Every sweep job asks for a sweep or for a heartbeat.
LEMMA SweepJobs == JobSweep => job.tool = "sweep" /\ SweepJob
<1>1. ASSUME NEW k \in {"speed", "steer", "brake"}, NEW m \in {3, 50, 200, 40000}, NEW h \in 2..18,
             NEW s \in {4, 99}, job = [tool |-> "sweep", kind |-> k, max |-> m, halves |-> h, sent |-> s]
      PROVE  job.tool = "sweep" /\ SweepJob
  BY <1>1 DEF SweepJob
<1>2. ASSUME NEW gear \in 0..3, NEW speed \in {0, 500, -500, 40000}, NEW ticks \in {2, 258},
             job = [tool |-> "sweep", kind |-> "heartbeat", gear |-> gear, speed |-> speed, ticks |-> ticks]
      PROVE  job.tool = "sweep" /\ SweepJob
  BY <1>2 DEF SweepJob
<1> QED
  BY <1>1, <1>2 DEF JobSweep

\* sweep_* and static_can_test: every sweep of the run is gentle, and every
\* heartbeat alive.
THEOREM SweepInRun == Spec => []SweepIsGentle
<1> DEFINE Inv == SweepJob /\ Ran("sweep", SweepResult(job))
<1>1. Init => Inv
  BY JobsOfOthers, JobsProved, SweepJobs DEF Init, Ran, SweepJob
<1>2. Inv /\ [Next]_vars => Inv'
  BY JobStays, RunsOnce DEF SweepJob
<1>3. Inv => SweepIsGentle
  <2> SUFFICES ASSUME Inv, Did("sweep")
               PROVE  IF job.kind = "heartbeat" THEN Alive(job.gear, job.speed, out)
                      ELSE Gentle(job.kind, job.max, job.halves, job.sent, out)
    BY DEF SweepIsGentle
  <2>1. CASE job.kind = "heartbeat"
    <3>1. out = Heartbeat(job.gear, job.speed, job.ticks)
      BY <2>1 DEF Did, Ran, SweepResult
    <3> QED
      BY <2>1, <3>1, AnyHeartbeatIsAlive DEF Did, SweepJob
  <2>2. CASE job.kind # "heartbeat"
    <3>1. out = Sweep(job.kind, job.max, job.halves, job.sent)
      BY <2>2 DEF Did, Ran, SweepResult
    <3> QED
      BY <2>2, <3>1, AnySweepIsGentle DEF Did, SweepJob
  <2> QED
    BY <2>1, <2>2
<1> QED
  BY <1>1, <1>2, <1>3, PTL DEF Spec

\* fov_restrict: every narrowed view of the run is the wedge asked for.
THEOREM FovInRun == Spec => []NarrowViewIsAWedge
<1> DEFINE Inv == FovJob /\ Ran("fov", FovResult(job))
<1>1. Init => Inv
  BY JobsOfOthers, JobsProved, FovJobs DEF Init, Ran, FovJob
<1>2. Inv /\ [Next]_vars => Inv'
  BY JobStays, RunsOnce DEF FovJob
<1>3. Inv => NarrowViewIsAWedge
  <2> SUFFICES ASSUME Inv, Did("fov") PROVE Wedge(Scan, job.args, out)
    BY DEF NarrowViewIsAWedge
  <2>1. out = OnCloud(Scan, job.args, job.drawn)
    BY DEF Did, Ran, FovResult
  <2> QED
    BY <2>1, ScanIsCloud, AnyViewIsAWedge DEF Did, FovJob
<1> QED
  BY <1>1, <1>2, <1>3, PTL DEF Spec

\* merge_maps and centerline_to_lanelet: every merge of the run keeps both maps.
THEOREM MergeInRun == Spec => []MergeKeepsBothMaps
<1> DEFINE Inv == MergeJob /\ Ran("merge", MergeResult(job))
<1>1. Init => Inv
  BY JobsOfOthers, JobsProved, MergeJobs DEF Init, Ran, MergeJob
<1>2. Inv /\ [Next]_vars => Inv'
  BY JobStays, RunsOnce DEF MergeJob
<1>3. Inv => MergeKeepsBothMaps
  <2> SUFFICES ASSUME Inv, Did("merge") PROVE MergeKeepsBothMaps
    BY DEF MergeKeepsBothMaps
  <2> DEFINE merged == Merges(job.a, job.b)
             laned == IF merged.written THEN Laned(merged.elements, "later", job.closed) ELSE {}
  <2>1. out.merged = merged /\ out.laned = laned
    BY DEF Did, Ran, MergeResult
  <2>2. LET fit == job.a.projector = job.b.projector /\ Whole(job.a) /\ Whole(job.b)
        IN  /\ merged.written = fit
            /\ fit => /\ KeptIn(job.a.elements, merged.elements)
                      /\ KeptIn(job.b.elements, merged.elements)
                      /\ KeptIn(merged.elements, laned)
                      /\ Cardinality(IdsIn(laned)) = Cardinality(laned)
                      /\ LET read == ReadPcd(FindPcd(merged))
                         IN  read.ok /\ Range(read.points) = {"a", "b"} \X {1, 2}
    BY AnyMergedPair DEF Did, MergeJob
  <2> HIDE DEF merged, laned
  <2> QED
    BY <2>1, <2>2 DEF MergeKeepsBothMaps, Whole
<1> QED
  BY <1>1, <1>2, <1>3, PTL DEF Spec

\* What an audit job asks for, if its first file is as it should be.
AuditJob == (job.tool = "audit" /\ job.odd = "no") =>
    /\ job.n \in 1..6 /\ job.reader \in 0..job.n /\ job.dark \in 1..6
    /\ job.way \in {"var", "param", "default", "undefaulted"}
    /\ job.files = Chain(job.n, job.reader, job.way, job.dark)

\* Every audit job with all its files asks for a chain.
LEMMA AuditJobs == JobAudit => job.tool = "audit" /\ AuditJob
<1> SUFFICES ASSUME JobAudit PROVE job.tool = "audit" /\ AuditJob
  OBVIOUS
<1>1. PICK n \in 1..6, way \in {"var", "param", "default", "undefaulted"} :
        \E reader \in 0..n, dark \in 1..6, odd \in {"no", "broken", "missing", "uninstalled"} :
            job = [tool |-> "audit", n |-> n, reader |-> reader, way |-> way, dark |-> dark,
                   odd |-> odd, files |-> Launched(odd, Chain(n, reader, way, dark))]
  BY Zenon DEF JobAudit
<1>2. PICK reader \in 0..n, dark \in 1..6, odd \in {"no", "broken", "missing", "uninstalled"} :
            job = [tool |-> "audit", n |-> n, reader |-> reader, way |-> way, dark |-> dark,
                   odd |-> odd, files |-> Launched(odd, Chain(n, reader, way, dark))]
  BY <1>1, Zenon
<1>3. /\ job.tool = "audit" /\ job.n = n /\ job.way = way /\ job.reader = reader /\ job.dark = dark
      /\ job.odd = odd /\ job.files = Launched(odd, Chain(n, reader, way, dark))
  BY <1>2
<1>4. odd = "no" => Launched(odd, Chain(n, reader, way, dark)) = Chain(n, reader, way, dark)
  BY DEF Launched
<1> QED
  BY <1>3, <1>4 DEF AuditJob

\* The findings of the first file of a chain that accuse its argument.
LEMMA OnlyInclude ==
    ASSUME NEW files, NEW params, NEW installed, NEW f, NEW name, NEW inc,
           files[f].includes = {inc}, files[f].xml = TRUE, files[f].parses = TRUE
    PROVE  Finding("BUG", "nobody reads", name) \in Audit(files, params, installed, f)
             <=> Finding("BUG", "nobody reads", name) \in OfInclude(files, params, inc)
<1> DEFINE found == Finding("BUG", "nobody reads", name)
           file == files[f]
<1>1. UNION {OfInclude(files, params, i) : i \in file.includes} = OfInclude(files, params, inc)
  OBVIOUS
<1>2. found \notin MissingParams(params, file)
  BY DEF MissingParams, Finding
<1>3. found \notin UnusedArgs(file)
  BY DEF UnusedArgs, Finding
<1>4. found \notin MissingPackages(file, installed)
  BY DEF MissingPackages, Finding
<1>5. Audit(files, params, installed, f)
        = OfInclude(files, params, inc) \cup MissingParams(params, file) \cup UnusedArgs(file)
            \cup MissingPackages(file, installed)
  <2> DEFINE them == UNION {OfInclude(files, params, i) : i \in file.includes}
  <2>1. Audit(files, params, installed, f)
          = (IF file.parses THEN {} ELSE {Finding("BUG", "does not parse", f)})
              \cup (IF file.xml /\ file.parses THEN them ELSE {})
              \cup MissingParams(params, file) \cup UnusedArgs(file) \cup MissingPackages(file, installed)
    BY DEF Audit
  <2> HIDE DEF them
  <2>2. (IF file.parses THEN {} ELSE {Finding("BUG", "does not parse", f)}) = {}
        /\ (IF file.xml /\ file.parses THEN them ELSE {}) = them
    OBVIOUS
  <2> QED
    BY <1>1, <2>1, <2>2 DEF them
<1> HIDE DEF found, file
<1>6. found \in Audit(files, params, installed, f) <=> found \in OfInclude(files, params, inc)
  BY <1>2, <1>3, <1>4, <1>5
<1> QED
  BY <1>6 DEF found

\* check_include_args: when an include is called a bug.
LEMMA IncludeAccuses ==
    ASSUME NEW files, NEW params, NEW inc, NEW name, inc.target \in DOMAIN files,
           inc.target # "dynamic", inc.target # "uninstalled",
           ReferencedNames(files, params, inc.target).complete \in BOOLEAN
    PROVE  Finding("BUG", "nobody reads", name) \in OfInclude(files, params, inc)
             <=> /\ ReferencedNames(files, params, inc.target).complete
                 /\ name \in inc.passed /\ name \notin ReferencedNames(files, params, inc.target).names
<1> DEFINE read == ReferencedNames(files, params, inc.target)
           severity == IF read.complete THEN "BUG" ELSE "WARN"
<1>1. OfInclude(files, params, inc)
        = {Finding(severity, "nobody reads", x) : x \in inc.passed \ read.names}
  BY DEF OfInclude, Found
<1>2. (severity = "BUG") <=> read.complete
  OBVIOUS
<1> HIDE DEF read, severity
<1>3. Finding("BUG", "nobody reads", name) \in OfInclude(files, params, inc)
        <=> \E x \in inc.passed \ read.names :
                Finding("BUG", "nobody reads", name) = Finding(severity, "nobody reads", x)
  BY <1>1
<1>4. ASSUME NEW x PROVE Finding("BUG", "nobody reads", name) = Finding(severity, "nobody reads", x)
                            <=> severity = "BUG" /\ x = name
  BY DEF Finding
<1>5. Finding("BUG", "nobody reads", name) \in OfInclude(files, params, inc)
        <=> severity = "BUG" /\ name \in inc.passed \ read.names
  BY <1>3, <1>4
<1> QED
  BY <1>2, <1>5 DEF read

\* The argument of the first file is called a bug.
Accuses(files, installed) == Finding("BUG", "nobody reads", "x") \in Audit(files, Params, installed, "f0")

\* audit_launch, for every chain that it can look through: the argument is
\* called a bug exactly if no file reads it and everything below can be seen.
THEOREM AnyChainIsAudited ==
    ASSUME NEW n, NEW reader, NEW way, InReach(n, reader, way), NEW dark \in 1..6, NEW installed
    PROVE  Accuses(Chain(n, reader, way, dark), installed) <=> (dark >= n /\ reader = 0)
<1> DEFINE files == Chain(n, reader, way, dark)
           inc == [target |-> "f1", passed |-> {"x"}]
           read == ReferencedNames(files, Params, "f1")
<1>1. n \in 1..5 /\ n \in 1..6 /\ MAX_DEPTH = 4 /\ reader \in 0..n
  BY DEF InReach, MAX_DEPTH
<1>2. Name(0) = "f0" /\ Name(1) = "f1" /\ 0 \in 0..n /\ 1 \in 0..n /\ 1 \in 1..n
  BY <1>1 DEF Name
<1>3. files["f0"] = Link(n, reader, way, dark, 0) /\ "f1" \in DOMAIN files
  <2>1. \A k \in 0..n : files[Name(k)] = Link(n, reader, way, dark, k) /\ Name(k) \in DOMAIN files
    BY <1>1, ChainIs
  <2> HIDE DEF files
  <2> QED
    BY <1>2, <2>1
<1>4. PICK at : DepthsOf(files, Params, at) /\ read = at[MAX_DEPTH]["f1"]
  BY NamesAre
<1>5. Finds(read, n, reader, dark, 1)
  <2>1. Finds(at[5 - 1][Name(1)], n, reader, dark, 1)
    BY <1>2, <1>4, ChainIsFound
  <2> HIDE DEF read
  <2>2. 5 - 1 = MAX_DEPTH
    BY <1>1
  <2> QED
    BY <1>2, <1>4, <2>1, <2>2
<1>6. Link(n, reader, way, dark, 0).includes = {inc}
      /\ Link(n, reader, way, dark, 0).xml = TRUE /\ Link(n, reader, way, dark, 0).parses = TRUE
  <2>1. 0 # n /\ 0 # dark /\ 0 + 1 = 1
    BY <1>1
  <2> QED
    BY <1>2, <2>1 DEF Link
<1>7. inc.target = "f1" /\ inc.passed = {"x"}
  OBVIOUS
<1> HIDE DEF files, inc, read
<1>8. Finding("BUG", "nobody reads", "x") \in Audit(files, Params, installed, "f0")
        <=> Finding("BUG", "nobody reads", "x") \in OfInclude(files, Params, inc)
  BY <1>3, <1>6, OnlyInclude
<1>9. Finding("BUG", "nobody reads", "x") \in OfInclude(files, Params, inc)
        <=> read.complete /\ "x" \notin read.names
  <2>1. read.complete \in BOOLEAN
    BY <1>5 DEF Finds
  <2>2. inc.target \in DOMAIN files /\ inc.target # "dynamic" /\ inc.target # "uninstalled"
        /\ ReferencedNames(files, Params, inc.target) = read
    BY <1>3, <1>7 DEF read
  <2>3. "x" \in inc.passed
    BY <1>7
  <2> QED
    BY <2>1, <2>2, <2>3, IncludeAccuses
<1>10. read.complete /\ "x" \notin read.names <=> dark >= n /\ reader = 0
  <2>1. dark \notin 1..n - 1 <=> dark >= n
    BY <1>1
  <2>2. reader \notin 1..n <=> reader = 0
    BY <1>1
  <2> QED
    BY <1>5, <2>1, <2>2 DEF Finds
<1>11. Finding("BUG", "nobody reads", "x") \in Audit(files, Params, installed, "f0")
         <=> dark >= n /\ reader = 0
  BY <1>8, <1>9, <1>10
<1> QED
  BY <1>11 DEF files, Accuses

\* audit_launch: no audit of the run accuses an argument that a file reads, and
\* each accuses one that nobody reads if it can see everything below.
THEOREM AuditInRun == Spec => []AuditAccusesNoReader
<1> DEFINE Inv == AuditJob /\ Ran("audit", AuditResult(job))
<1>1. Init => Inv
  BY JobsOfOthers, JobsProved, AuditJobs DEF Init, Ran, AuditJob
<1>2. Inv /\ [Next]_vars => Inv'
  BY JobStays, RunsOnce DEF AuditJob
<1>3. Inv => AuditAccusesNoReader
  <2> SUFFICES ASSUME Inv, Did("audit"), job.n <= MAX_DEPTH + 1, job.way # "undefaulted", job.odd = "no",
                      job.reader > MAX_DEPTH => job.way = "var"
               PROVE  LET accused == Finding("BUG", "nobody reads", "x") \in out.found
                      IN  /\ accused = (job.dark >= job.n /\ job.reader = 0)
                          /\ accused => out.exit = 1
    BY DEF AuditAccusesNoReader
  <2> DEFINE n == job.n
             reader == job.reader
             way == job.way
             dark == job.dark
             found == Audit(job.files, [p \in {"p"} |-> {"x"}], {"here"}, "f0")
             bug == Finding("BUG", "nobody reads", "x")
             installed == {"here"}
  <2>1. /\ n \in 1..6 /\ reader \in 0..n /\ dark \in 1..6 /\ way \in {"var", "param", "default"}
        /\ job.files = Chain(n, reader, way, dark)
    BY DEF Did, AuditJob
  <2>2. InReach(n, reader, way)
    BY <2>1 DEF InReach, MAX_DEPTH
  <2>3. out.found = found /\ out.exit = AuditExit(found)
    BY DEF Did, Ran, AuditResult
  <2>4. found = Audit(Chain(n, reader, way, dark), Params, installed, "f0")
    BY <2>1 DEF Params
  <2>5. bug.severity = "BUG"
    BY DEF Finding
  <2> HIDE DEF n, reader, way, dark, found, installed
  <2>6. Accuses(Chain(n, reader, way, dark), installed) <=> (dark >= n /\ reader = 0)
    BY <2>1, <2>2, AnyChainIsAudited
  <2> HIDE DEF bug
  <2>7. bug \in found => AuditExit(found) = 1
    BY <2>5 DEF AuditExit
  <2>8. /\ (bug \in out.found) = (dark >= n /\ reader = 0)
        /\ bug \in out.found => out.exit = 1
    <3>1. bug \in Audit(Chain(n, reader, way, dark), Params, installed, "f0") <=> (dark >= n /\ reader = 0)
      BY <2>6 DEF Accuses, bug
    <3>2. bug \in out.found <=> (dark >= n /\ reader = 0)
      BY <2>3, <2>4, <3>1
    <3> QED
      BY <2>3, <2>7, <3>2
  <2> QED
    BY <2>8 DEF n, dark, reader, bug
<1> QED
  BY <1>1, <1>2, <1>3, PTL DEF Spec

-----------------------------------------------------------------------------
(* trajectory_player: the order the waypoints are played in                *)

\* The waypoints of a trajectory, and the order they are played in: by time, and
\* those of one time as in the file.
Waypoints == [time : Int, speed : Int, angle : Int]
Precedes(points, i, j) ==
    points[i].time < points[j].time \/ (points[i].time = points[j].time /\ i <= j)
NotAfter(points, i) == {j \in DOMAIN points : Precedes(points, j, i)}

Order(points, ix) ==
    /\ ix \in [DOMAIN points -> DOMAIN points]
    /\ \A j \in DOMAIN points : \E k \in DOMAIN points : ix[k] = j
    /\ \A k, l \in DOMAIN points : k <= l => Precedes(points, ix[k], ix[l])
    /\ \A k, l \in DOMAIN points : k < l => ix[k] # ix[l]
    /\ \A k \in DOMAIN points : ix[k] = CHOOSE i \in DOMAIN points : Cardinality(NotAfter(points, i)) = k
    /\ SortedByTime(points) = [k \in DOMAIN points |-> points[ix[k]]]

\* It is an order, and no two waypoints are level in it.
LEMMA PrecedesOrders ==
    ASSUME NEW points \in Seq(Waypoints), NEW i \in DOMAIN points, NEW j \in DOMAIN points
    PROVE  /\ Precedes(points, i, i)
           /\ Precedes(points, i, j) \/ Precedes(points, j, i)
           /\ Precedes(points, i, j) /\ Precedes(points, j, i) => i = j
           /\ \A k \in DOMAIN points : Precedes(points, k, i) /\ Precedes(points, i, j) => Precedes(points, k, j)
<1>1. \A k \in DOMAIN points : k \in Nat /\ points[k].time \in Int
  <2>1. \A k \in DOMAIN points : k \in Nat /\ points[k] \in Waypoints
    OBVIOUS
  <2> QED
    BY <2>1 DEF Waypoints
<1> QED
  BY <1>1 DEF Precedes

\* sorted(): every waypoint has a place of its own.
LEMMA SortedIs ==
    ASSUME NEW points \in Seq(Waypoints)
    PROVE  \E ix : Order(points, ix)
<1> DEFINE n == Len(points)
           D == DOMAIN points
           rank == [i \in D |-> Cardinality(NotAfter(points, i))]
           ix == [k \in D |-> CHOOSE i \in D : rank[i] = k]
<1>1. n \in Nat /\ D = 1..n /\ IsFiniteSet(D) /\ Cardinality(D) = n
  <2>1. n \in Nat /\ D = 1..n
    OBVIOUS
  <2>2. IsFiniteSet(1..n) /\ Cardinality(1..n) = n
    BY <2>1, FS_Interval
  <2> QED
    BY <2>1, <2>2
<1>2. ASSUME NEW i \in D
      PROVE  /\ IsFiniteSet(NotAfter(points, i)) /\ NotAfter(points, i) \subseteq D /\ i \in NotAfter(points, i)
             /\ rank[i] \in 1..n
  <2>1. NotAfter(points, i) \subseteq D /\ i \in NotAfter(points, i)
    BY PrecedesOrders DEF NotAfter
  <2>2. IsFiniteSet(NotAfter(points, i)) /\ Cardinality(NotAfter(points, i)) <= n
    BY <1>1, <2>1, FS_Subset
  <2>3. Cardinality(NotAfter(points, i)) \in Nat /\ Cardinality(NotAfter(points, i)) # 0
    BY <2>1, <2>2, FS_CardinalityType, FS_EmptySet
  <2>4. rank[i] = Cardinality(NotAfter(points, i))
    OBVIOUS
  <2> HIDE DEF rank, n, D
  <2> QED
    BY <1>1, <2>1, <2>2, <2>3, <2>4
<1>3. ASSUME NEW i \in D, NEW j \in D, i # j, Precedes(points, i, j) PROVE rank[i] < rank[j]
  <2> DEFINE lower == NotAfter(points, i)
             upper == NotAfter(points, j)
  <2>1. lower \subseteq upper \ {j}
    BY <1>3, PrecedesOrders DEF NotAfter
  <2>2. IsFiniteSet(upper) /\ j \in upper
    BY <1>2
  <2>3. IsFiniteSet(upper \ {j}) /\ Cardinality(upper \ {j}) = Cardinality(upper) - 1
    <3> HIDE DEF upper
    <3> QED
      BY <2>2, FS_RemoveElement
  <2>4. Cardinality(lower) <= Cardinality(upper \ {j})
    <3> HIDE DEF upper, lower
    <3> QED
      BY <2>1, <2>3, FS_Subset
  <2>5. rank[i] = Cardinality(lower) /\ rank[j] = Cardinality(upper) /\ rank[i] \in Int /\ rank[j] \in Int
    BY <1>1, <1>2
  <2> HIDE DEF lower, upper, rank
  <2> QED
    BY <2>3, <2>4, <2>5
<1> HIDE DEF rank
<1>4. ASSUME NEW i \in D, NEW j \in D, rank[i] = rank[j] PROVE i = j
  <2> SUFFICES ASSUME i # j PROVE FALSE
    OBVIOUS
  <2>1. rank[i] < rank[j] \/ rank[j] < rank[i]
    BY <1>3, PrecedesOrders
  <2> QED
    BY <1>1, <1>2, <1>4, <2>1
<1>5. ASSUME NEW k \in D PROVE \E i \in D : rank[i] = k
  <2> SUFFICES ASSUME \A i \in D : rank[i] # k PROVE FALSE
    OBVIOUS
  <2> DEFINE f == [i \in D |-> rank[i]]
  <2>1. f \in [D -> D \ {k}]
    BY <1>1, <1>2
  <2>2. IsFiniteSet(D \ {k}) /\ Cardinality(D \ {k}) = n - 1
    <3> HIDE DEF D, n
    <3> QED
      BY <1>1, FS_RemoveElement
  <2>3. \A i, j \in D : f[i] = f[j] => i = j
    BY <1>4
  <2>4. Cardinality(D) > Cardinality(D \ {k})
    BY <1>1, <2>2
  <2> DEFINE E == D \ {k}
  <2>5. f \in [D -> E] /\ IsFiniteSet(E) /\ Cardinality(E) < Cardinality(D) /\ IsFiniteSet(D)
    <3>1. Cardinality(E) \in Nat /\ Cardinality(D) \in Nat
      <4> HIDE DEF D, n
      <4> QED
        BY <1>1, <2>2, FS_CardinalityType
    <3> HIDE DEF f, D, n
    <3> QED
      BY <1>1, <2>1, <2>2, <2>4, <3>1
  <2> HIDE DEF f, D, n, E
  <2>6. \E i, j \in D : i # j /\ f[i] = f[j]
    BY <2>5, FS_PigeonHole
  <2> QED
    BY <2>3, <2>6
<1>6. ASSUME NEW k \in D PROVE ix[k] \in D /\ rank[ix[k]] = k
  BY <1>5
<1>7. /\ SortedByTime(points) = [k \in D |-> points[ix[k]]]
      /\ \A k \in D : ix[k] = CHOOSE i \in D : Cardinality(NotAfter(points, i)) = k
  <2>1. ASSUME NEW k \in D
        PROVE  (CHOOSE i \in D : Cardinality(NotAfter(points, i)) = k) = ix[k]
    <3>1. \A i \in D : rank[i] = Cardinality(NotAfter(points, i))
      BY DEF rank
    <3> QED
      BY <3>1
  <2>2. SortedByTime(points) = [k \in D |-> points[CHOOSE i \in D : Cardinality(NotAfter(points, i)) = k]]
    BY DEF SortedByTime, NotAfter, Precedes
  <2> HIDE DEF ix, D
  <2> QED
    BY <2>1, <2>2
<1>8. ix \in [D -> D]
  BY <1>6
<1> HIDE DEF ix
<1>9. ASSUME NEW j \in D PROVE \E k \in D : ix[k] = j
  <2>1. rank[j] \in D
    BY <1>1, <1>2
  <2>2. ix[rank[j]] \in D /\ rank[ix[rank[j]]] = rank[j]
    BY <1>6, <2>1
  <2> QED
    BY <1>4, <2>1, <2>2
<1>10. ASSUME NEW k \in D, NEW l \in D, k <= l PROVE Precedes(points, ix[k], ix[l])
  <2> SUFFICES ASSUME ~Precedes(points, ix[k], ix[l]) PROVE FALSE
    OBVIOUS
  <2>1. ix[k] \in D /\ ix[l] \in D /\ rank[ix[k]] = k /\ rank[ix[l]] = l
    BY <1>6
  <2>2. Precedes(points, ix[l], ix[k]) /\ ix[l] # ix[k]
    BY <2>1, PrecedesOrders
  <2>3. l < k
    BY <1>3, <2>1, <2>2
  <2> QED
    BY <1>1, <1>10, <2>3
<1>11. ASSUME NEW k \in D, NEW l \in D, k < l PROVE ix[k] # ix[l]
  BY <1>1, <1>6, <1>11
<1>12. Order(points, ix)
  BY <1>7, <1>8, <1>9, <1>10, <1>11 DEF Order
<1> QED
  BY <1>12

-----------------------------------------------------------------------------
(* trajectory_player: the waypoints next to a time                         *)

\* A sequence of n waypoints whose times never fall.
Rises(w, n) ==
    /\ n \in Nat \ {0} /\ DOMAIN w = 1..n /\ Len(w) = n
    /\ \A k \in 1..n : w[k].time \in Int
    /\ \A k, l \in 1..n : k <= l => w[k].time <= w[l].time

\* bisect_left: a waypoint is before the time exactly if it is one of the first.
LEMMA BisectIs ==
    ASSUME NEW w, NEW n, Rises(w, n), NEW t \in Int
    PROVE  /\ BisectLeft(w, t) \in 0..n
           /\ \A i \in 1..n : w[i].time < t <=> i <= BisectLeft(w, t)
<1> DEFINE B == {i \in DOMAIN w : w[i].time < t}
<1>1. BisectLeft(w, t) = Cardinality(B)
  BY DEF BisectLeft
<1>2. n \in Nat /\ IsFiniteSet(B) /\ B \in SUBSET Int
  <2>1. DOMAIN w = 1..n /\ n \in Nat
    BY DEF Rises
  <2>2. IsFiniteSet(1..n)
    BY <2>1, FS_Interval
  <2>3. IsFiniteSet(B)
    BY <2>1, <2>2, FS_Subset
  <2> QED
    BY <2>1, <2>3
<1>3. CASE B = {}
  <2>1. Cardinality(B) = 0
    BY <1>3, FS_EmptySet
  <2>2. \A i \in 1..n : ~(w[i].time < t)
    BY <1>3 DEF Rises
  <2> HIDE DEF B
  <2> QED
    BY <1>1, <1>2, <2>1, <2>2
<1>4. CASE B # {}
  <2> DEFINE x == Max(B)
  <2>1. x \in B /\ \A i \in B : i <= x
    <3> HIDE DEF B
    <3> QED
      BY <1>2, <1>4, HasMax
  <2> HIDE DEF x
  <2>2. x \in 1..n /\ w[x].time < t
    BY <2>1 DEF Rises
  <2>3. ASSUME NEW i \in 1..n, i <= x PROVE w[i].time < t
    <3>1. w[i].time <= w[x].time /\ w[i].time \in Int /\ w[x].time \in Int
      BY <2>2, <2>3 DEF Rises
    <3> QED
      BY <2>2, <3>1
  <2>4. B = 1..x
    <3>1. \A i \in B : i \in 1..n /\ i <= x
      BY <2>1 DEF Rises
    <3>2. \A i \in 1..x : i \in 1..n /\ i <= x
      BY <1>2, <2>2
    <3>3. \A i \in 1..x : i \in DOMAIN w /\ w[i].time < t
      BY <2>2, <2>3, <3>2 DEF Rises
    <3> QED
      BY <1>2, <2>2, <3>1, <3>3
  <2>5. Cardinality(1..x) = x
    BY <2>2, FS_Interval
  <2> HIDE DEF B
  <2>6. BisectLeft(w, t) = x
    BY <1>1, <2>4, <2>5
  <2>7. \A i \in 1..n : w[i].time < t <=> i <= x
    <3>1. \A i \in 1..n : w[i].time < t => i \in B
      BY DEF B, Rises
    <3>2. \A i \in B : w[i].time < t
      BY DEF B
    <3> QED
      BY <1>2, <2>2, <2>4, <3>1, <3>2
  <2> QED
    BY <1>2, <2>2, <2>6, <2>7
<1> QED
  BY <1>3, <1>4

\* The waypoints as they are played: w, of which the k-th is the ix[k]-th of the file.
Lined(points, ix, w, n) ==
    /\ Rises(w, n) /\ DOMAIN points = 1..n
    /\ \A k \in 1..n : points[k] \in Waypoints /\ ix[k] \in 1..n /\ w[k] = points[ix[k]]
    /\ \A j \in 1..n : \E k \in 1..n : ix[k] = j
    /\ \A k, l \in 1..n : k <= l => Precedes(points, ix[k], ix[l])

\* sorted(): the waypoints as they are played are those of the file.
LEMMA LinedUp ==
    ASSUME NEW points \in Seq(Waypoints), points # <<>>
    PROVE  \E ix : Lined(points, ix, SortedByTime(points), Len(points))
<1> DEFINE w == SortedByTime(points)
           n == Len(points)
<1>1. PICK ix : Order(points, ix)
  BY SortedIs
<1>2. n \in Nat \ {0} /\ DOMAIN points = 1..n /\ \A k \in 1..n : points[k] \in Waypoints
  OBVIOUS
<1> HIDE DEF n
<1>3. w = [k \in 1..n |-> points[ix[k]]] /\ ix \in [1..n -> 1..n]
  BY <1>1, <1>2 DEF Order
<1> HIDE DEF w
<1>4. \A k \in 1..n : ix[k] \in 1..n /\ w[k] = points[ix[k]]
  BY <1>3
<1>5. DOMAIN w = 1..n /\ Len(w) = n
  <2>1. w \in Seq(Waypoints)
    BY <1>2, <1>3
  <2> QED
    BY <1>2, <1>3, <2>1
<1>6. \A k, l \in 1..n : k <= l => Precedes(points, ix[k], ix[l])
  BY <1>1, <1>2 DEF Order
<1>7. \A k \in 1..n : points[k].time \in Int
  BY <1>2 DEF Waypoints
<1>8. ASSUME NEW k \in 1..n, NEW l \in 1..n, k <= l PROVE w[k].time <= w[l].time
  <2> DEFINE i == ix[k]
             j == ix[l]
  <2>1. i \in 1..n /\ j \in 1..n /\ w[k] = points[i] /\ w[l] = points[j] /\ Precedes(points, i, j)
    BY <1>4, <1>6, <1>8
  <2> HIDE DEF i, j
  <2>2. points[i].time \in Int /\ points[j].time \in Int
    BY <1>7, <2>1
  <2>3. points[i].time <= points[j].time
    BY <2>1, <2>2 DEF Precedes
  <2> QED
    BY <2>1, <2>3
<1>9. Rises(w, n)
  BY <1>2, <1>4, <1>5, <1>7, <1>8 DEF Rises
<1>10. \A j \in 1..n : \E k \in 1..n : ix[k] = j
  BY <1>1, <1>2 DEF Order
<1>11. Lined(points, ix, w, n)
  BY <1>2, <1>4, <1>6, <1>9, <1>10 DEF Lined
<1> QED
  BY <1>11 DEF w, n

\* The first and the last to be played are the earliest and the latest, and of
\* the earliest it is the first of the file that is played first.
LEMMA ExtremesAre ==
    ASSUME NEW points, NEW ix, NEW w, NEW n, Lined(points, ix, w, n)
    PROVE  /\ Min(TimesOf(points)) = w[1].time /\ Max(TimesOf(points)) = w[n].time
           /\ n \in Nat \ {0} /\ w[1].time \in Int /\ w[n].time \in Int
           /\ FirstOfTime(points, ix[1])
<1> DEFINE S == TimesOf(points)
<1>1. n \in Nat \ {0} /\ DOMAIN points = 1..n /\ 1 \in 1..n /\ n \in 1..n
  BY DEF Lined, Rises
<1>2. \A k \in 1..n : points[k].time \in Int /\ points[ix[k]].time = w[k].time /\ ix[k] \in 1..n
  BY DEF Lined, Waypoints
<1>3. ASSUME NEW k \in 1..n PROVE w[1].time <= points[k].time /\ points[k].time <= w[n].time
  <2>1. PICK l \in 1..n : ix[l] = k
    BY DEF Lined
  <2>2. w[1].time <= w[l].time /\ w[l].time <= w[n].time
    <3>1. 1 <= l /\ l <= n
      BY <1>1
    <3>2. \A a, b \in 1..n : a <= b => w[a].time <= w[b].time
      BY Zenon DEF Lined, Rises
    <3> QED
      BY <1>1, <3>1, <3>2, Zenon
  <2> QED
    BY <1>2, <2>1, <2>2
<1>4. S = {points[k].time : k \in 1..n}
  BY <1>1 DEF TimesOf
<1>5. S \in SUBSET Int /\ S # {} /\ IsFiniteSet(S)
  <2>1. S \in SUBSET Int
    BY <1>2, <1>4
  <2>2. S # {}
    BY <1>1, <1>4
  <2>3. IsFiniteSet(S)
    <3> DEFINE f == [k \in 1..n |-> points[k].time]
    <3>1. f \in Surjection(1..n, S)
      BY <1>4 DEF Surjection
    <3>2. IsFiniteSet(1..n)
      BY <1>1, FS_Interval
    <3> HIDE DEF S, f
    <3> QED
      BY <3>1, <3>2, FS_Surjection
  <2> QED
    BY <2>1, <2>2, <2>3
<1>6. w[1].time \in S /\ w[n].time \in S /\ \A x \in S : w[1].time <= x /\ x <= w[n].time
  BY <1>1, <1>2, <1>3, <1>4
<1> HIDE DEF S
<1>7. Min(S) \in S /\ (\A x \in S : Min(S) <= x) /\ Max(S) \in S /\ (\A x \in S : x <= Max(S))
  BY <1>5, HasMin, HasMax
<1>8. Min(S) = w[1].time
  <2> DEFINE m == Min(S)
  <2>1. m \in Int /\ m <= w[1].time /\ w[1].time <= m /\ w[1].time \in Int
    BY <1>5, <1>6, <1>7
  <2> HIDE DEF m
  <2>2. m = w[1].time
    BY <2>1
  <2> QED
    BY <2>2 DEF m
<1>9. Max(S) = w[n].time
  <2> DEFINE m == Max(S)
  <2>1. m \in Int /\ m <= w[n].time /\ w[n].time <= m /\ w[n].time \in Int
    BY <1>5, <1>6, <1>7
  <2> HIDE DEF m
  <2>2. m = w[n].time
    BY <2>1
  <2> QED
    BY <2>2 DEF m
<1>10. FirstOfTime(points, ix[1])
  <2> SUFFICES ASSUME NEW k \in 1..n, points[k].time = points[ix[1]].time PROVE ix[1] <= k
    BY <1>1 DEF FirstOfTime
  <2>1. PICK l \in 1..n : ix[l] = k
    BY DEF Lined
  <2>2. Precedes(points, ix[1], ix[l])
    BY <1>1 DEF Lined
  <2> QED
    BY <1>1, <1>2, <2>1, <2>2 DEF Precedes
<1> QED
  BY <1>1, <1>5, <1>6, <1>8, <1>9, <1>10 DEF S

\* Two waypoints that are played one after the other, at two times, are next to
\* each other, the last and the first of their times.
LEMMA NextAre ==
    ASSUME NEW points, NEW ix, NEW w, NEW n, Lined(points, ix, w, n),
           NEW m \in 1..n - 1, w[m].time < w[m + 1].time
    PROVE  Adjacent(points, ix[m], ix[m + 1])
<1>1. n \in Nat \ {0} /\ DOMAIN points = 1..n /\ m \in 1..n /\ m + 1 \in 1..n
  <2>1. n \in Nat \ {0} /\ DOMAIN points = 1..n
    BY DEF Lined, Rises
  <2> QED
    BY <2>1
<1>2. \A k \in 1..n : points[k].time \in Int /\ points[ix[k]].time = w[k].time /\ ix[k] \in 1..n
  BY DEF Lined, Waypoints
<1>3. ASSUME NEW k \in 1..n
      PROVE  \E l \in 1..n : /\ ix[l] = k /\ w[l].time = points[k].time
                             /\ \/ l <= m /\ Precedes(points, k, ix[m]) /\ points[k].time <= w[m].time
                                \/ m + 1 <= l /\ Precedes(points, ix[m + 1], k) /\ w[m + 1].time <= points[k].time
  <2>1. PICK l \in 1..n : ix[l] = k
    BY DEF Lined
  <2>2. w[l].time = points[k].time
    BY <1>2, <2>1
  <2>3. CASE l <= m
    <3>1. Precedes(points, ix[l], ix[m]) /\ w[l].time <= w[m].time
      BY <1>1, <2>3 DEF Lined, Rises
    <3> QED
      BY <2>1, <2>2, <2>3, <3>1
  <2>4. CASE m + 1 <= l
    <3>1. Precedes(points, ix[m + 1], ix[l]) /\ w[m + 1].time <= w[l].time
      BY <1>1, <2>4 DEF Lined, Rises
    <3> QED
      BY <2>1, <2>2, <2>4, <3>1
  <2> QED
    BY <1>1, <2>3, <2>4
<1>4. w[m].time \in Int /\ w[m + 1].time \in Int /\ ix[m] \in Int /\ ix[m + 1] \in Int
  BY <1>1, <1>2
<1>5. LastOfTime(points, ix[m])
  <2> SUFFICES ASSUME NEW k \in 1..n, points[k].time = points[ix[m]].time PROVE k <= ix[m]
    BY <1>1 DEF LastOfTime
  <2>1. points[k].time = w[m].time
    BY <1>1, <1>2
  <2>2. Precedes(points, k, ix[m])
    BY <1>3, <1>4, <2>1
  <2> QED
    BY <1>1, <1>2, <2>2 DEF Precedes
<1>6. FirstOfTime(points, ix[m + 1])
  <2> SUFFICES ASSUME NEW k \in 1..n, points[k].time = points[ix[m + 1]].time PROVE ix[m + 1] <= k
    BY <1>1 DEF FirstOfTime
  <2>1. points[k].time = w[m + 1].time
    BY <1>1, <1>2
  <2>2. Precedes(points, ix[m + 1], k)
    BY <1>3, <1>4, <2>1
  <2> QED
    BY <1>1, <1>2, <2>2 DEF Precedes
<1>7. \A k \in 1..n : points[k].time <= w[m].time \/ points[k].time >= w[m + 1].time
  BY <1>2, <1>3, <1>4
<1>8. points[ix[m]].time = w[m].time /\ points[ix[m + 1]].time = w[m + 1].time
  BY <1>1, <1>2
<1> QED
  BY <1>1, <1>5, <1>6, <1>7, <1>8 DEF Adjacent

-----------------------------------------------------------------------------
(* trajectory_player: a command                                            *)

\* The time that is looked up: never after the last waypoint, never before 0.
LEMMA ClampedIs ==
    ASSUME NEW w, NEW n, Rises(w, n), 0 <= w[n].time, NEW e \in Int
    PROVE  /\ Clamped(w, e) \in Int /\ Clamped(w, e) <= w[n].time /\ Duration(w) = w[n].time
           /\ Clamped(w, e) = Max({0, LowerOf(e, w[n].time)})
<1> DEFINE last == w[n].time
           low == LowerOf(e, last)
           S == {0, low}
<1>1. last \in Int /\ 0 <= last /\ Duration(w) = last
  BY DEF Rises, Duration
<1>2. low = (IF e < last THEN e ELSE last)
  BY DEF LowerOf
<1> HIDE DEF last
<1>3. low \in Int /\ low <= last
  BY <1>1, <1>2
<1>4. Clamped(w, e) = IF low < 0 THEN 0 ELSE low
  BY <1>1, <1>2 DEF Clamped
<1> HIDE DEF low
<1>5. S \in SUBSET Int /\ IsFiniteSet(S) /\ S # {}
  <2>1. S \in SUBSET Int /\ S # {}
    BY <1>3
  <2>2. IsFiniteSet({0}) /\ IsFiniteSet({low})
    BY FS_Singleton
  <2>3. S = {0} \union {low}
    OBVIOUS
  <2> HIDE DEF S
  <2>4. IsFiniteSet(S)
    BY <2>2, <2>3, FS_Union
  <2> QED
    BY <2>1, <2>4
<1>6. Max(S) \in S /\ \A x \in S : x <= Max(S)
  <2> HIDE DEF S
  <2> QED
    BY <1>5, HasMax
<1>7. Max(S) = IF low < 0 THEN 0 ELSE low
  <2> DEFINE m == Max(S)
  <2> HIDE DEF m
  <2>1. m \in {0, low} /\ 0 <= m /\ low <= m
    BY <1>6 DEF m
  <2>2. m = IF low < 0 THEN 0 ELSE low
    BY <1>3, <2>1
  <2> QED
    BY <2>2 DEF m
<1>8. Clamped(w, e) \in Int /\ Clamped(w, e) <= last
  BY <1>1, <1>3, <1>4
<1> QED
  BY <1>1, <1>4, <1>7, <1>8 DEF last, low, S

Swap == \A a, b \in Int : a * b = b * a /\ a * b \in Int
\* Factors may be exchanged.
LEMMA Swaps == Swap
  BY DEF Swap

\* What is on the line between two waypoints.
LEMMA BetweenIsOnLine ==
    ASSUME NEW p, NEW i, NEW j, p[i] \in Waypoints, p[j] \in Waypoints,
           NEW t \in Int, p[i].time < t, t <= p[j].time,
           NEW c, c.target = Between(p[i], p[j], t),
           t = c.elapsed /\ t < Max(TimesOf(p)) =>
              c.acceleration = [num |-> p[j].speed - p[i].speed, den |-> p[j].time - p[i].time]
    PROVE  OnLine(p, i, j, t, c)
<1> DEFINE from == p[i]
           to == p[j]
           dt == to.time - from.time
           since == t - from.time
           speed == from.speed * dt + since * (to.speed - from.speed)
           angle == from.angle * dt + since * (to.angle - from.angle)
<1>1. /\ from.time \in Int /\ from.speed \in Int /\ from.angle \in Int
      /\ to.time \in Int /\ to.speed \in Int /\ to.angle \in Int
  BY DEF Waypoints
<1>2. dt \in Int /\ since \in Int /\ to.speed - from.speed \in Int /\ to.angle - from.angle \in Int
  BY <1>1
<1>3. c.target.speed = speed /\ c.target.angle = angle /\ c.target.den = dt
  BY DEF Between
<1>4. speed \in Int /\ angle \in Int
  <2> DEFINE a == to.speed - from.speed
             b == to.angle - from.angle
  <2>1. /\ from.speed * dt \in Int /\ since * a \in Int
        /\ from.angle * dt \in Int /\ since * b \in Int
    <3> HIDE DEF dt, since, a, b, from, to
    <3> QED
      BY <1>1, <1>2, Swaps DEF Swap, a, b
  <2> HIDE DEF dt, since, a, b, from, to
  <2> QED
    BY <2>1 DEF a, b
<1>5. speed * dt = dt * speed /\ angle * dt = dt * angle
  <2> HIDE DEF speed, angle, dt
  <2> QED
    BY <1>2, <1>4, Swaps DEF Swap
<1>6. (to.speed - from.speed) * dt = dt * (to.speed - from.speed)
  <2> DEFINE a == to.speed - from.speed
  <2> HIDE DEF a, dt
  <2>1. a * dt = dt * a
    BY <1>2, Swaps DEF Swap, a
  <2> QED
    BY <2>1 DEF a
<1>7. c.target.speed * dt = c.target.den * speed /\ c.target.angle * dt = c.target.den * angle
  <2> HIDE DEF speed, angle, dt
  <2> QED
    BY <1>3, <1>5
<1>8. t = c.elapsed /\ t < Max(TimesOf(p)) => c.acceleration.num * dt = c.acceleration.den * (to.speed - from.speed)
  <2> SUFFICES ASSUME t = c.elapsed, t < Max(TimesOf(p))
               PROVE  c.acceleration.num * dt = c.acceleration.den * (to.speed - from.speed)
    OBVIOUS
  <2>1. c.acceleration = [num |-> to.speed - from.speed, den |-> dt]
    OBVIOUS
  <2>2. c.acceleration.num = to.speed - from.speed /\ c.acceleration.den = dt
    <3> HIDE DEF dt, from, to
    <3> QED
      BY <2>1
  <2> HIDE DEF dt, from, to
  <2> QED
    BY <1>6, <2>2
<1> QED
  BY <1>7, <1>8, Zenon DEF OnLine, from, to, dt, speed, angle, since

\* What it takes to be on the profile, in names.
LEMMA ProfileIs ==
    ASSUME NEW points, NEW c, NEW t, NEW first, NEW last,
           first = Min(TimesOf(points)), last = Max(TimesOf(points)), t = Max({0, LowerOf(c.elapsed, last)}),
           c.elapsed <= first \/ c.elapsed >= last => c.acceleration.num = 0,
           \/ /\ t <= first
              /\ \E k \in DOMAIN points :
                    points[k].time = first /\ FirstOfTime(points, k) /\ c.target = At(points[k])
           \/ /\ ~(t <= first)
              /\ \E i, j \in DOMAIN points : Adjacent(points, i, j) /\ OnLine(points, i, j, t, c)
    PROVE  OnProfile(points, c)
<1>1. OnProfile(points, c) =
        LET f == Min(TimesOf(points))
            l == Max(TimesOf(points))
            s == Max({0, LowerOf(c.elapsed, l)})
        IN  /\ IF s <= f
               THEN \E k \in DOMAIN points :
                        points[k].time = f /\ FirstOfTime(points, k) /\ c.target = At(points[k])
               ELSE \E i, j \in DOMAIN points : Adjacent(points, i, j) /\ OnLine(points, i, j, s, c)
            /\ c.elapsed <= f \/ c.elapsed >= l => c.acceleration.num = 0
  BY Zenon DEF OnProfile
<1>2. OnProfile(points, c) =
        /\ IF t <= first
           THEN \E k \in DOMAIN points :
                    points[k].time = first /\ FirstOfTime(points, k) /\ c.target = At(points[k])
           ELSE \E i, j \in DOMAIN points : Adjacent(points, i, j) /\ OnLine(points, i, j, t, c)
        /\ c.elapsed <= first \/ c.elapsed >= last => c.acceleration.num = 0
  BY <1>1, Zenon
<1> QED
  BY <1>2, Zenon

\* Every command is on the profile, whenever it is sent.
LEMMA CommandIsOnProfile ==
    ASSUME NEW points, NEW ix, NEW w, NEW n, Lined(points, ix, w, n), 0 <= w[n].time, NEW e \in Int
    PROVE  OnProfile(points, Command(w, e))
<1> DEFINE c == Command(w, e)
           t == Clamped(w, e)
           first == w[1].time
           last == w[n].time
           m == BisectLeft(w, t)
<1>1. c.elapsed = e /\ c.target = GetTarget(w, e) /\ c.acceleration = GetAcceleration(w, e)
  BY DEF Command
<1>2. /\ Min(TimesOf(points)) = first /\ Max(TimesOf(points)) = last
      /\ n \in Nat \ {0} /\ first \in Int /\ last \in Int /\ FirstOfTime(points, ix[1])
  BY ExtremesAre
<1>3. Rises(w, n) /\ DOMAIN points = 1..n /\ Len(w) = n
  BY DEF Lined, Rises
<1>4. /\ t \in Int /\ t <= last /\ Duration(w) = last /\ t = Max({0, LowerOf(e, last)})
  BY <1>3, ClampedIs
<1>5. m \in 0..n /\ \A i \in 1..n : w[i].time < t <=> i <= m
  BY <1>3, <1>4, BisectIs
<1>6. \A k \in 1..n : points[ix[k]] \in Waypoints /\ ix[k] \in 1..n /\ w[k] = points[ix[k]]
  BY DEF Lined
<1>7. c.elapsed <= first \/ c.elapsed >= last => c.acceleration.num = 0
  BY <1>1, <1>4 DEF GetAcceleration
<1> SUFFICES OnProfile(points, c)
  OBVIOUS
<1> HIDE DEF c
<1>8. CASE t <= first
  <2>1. m = 0
    <3>1. ~(w[1].time < t) /\ 1 \in 1..n
      BY <1>2, <1>4, <1>8
    <3> HIDE DEF m
    <3> QED
      BY <1>5, <3>1
  <2>2. c.target = At(w[1])
    BY <1>1, <2>1 DEF GetTarget
  <2>3. 1 \in 1..n
    BY <1>2
  <2>4. ix[1] \in DOMAIN points /\ points[ix[1]].time = first /\ c.target = At(points[ix[1]])
    BY <1>3, <1>6, <2>2, <2>3
  <2>5. \E k \in DOMAIN points : points[k].time = first /\ FirstOfTime(points, k) /\ c.target = At(points[k])
    BY <1>2, <2>4
  <2> HIDE DEF t, first, last, m
  <2> QED
    BY <1>1, <1>2, <1>4, <1>7, <1>8, <2>5, ProfileIs
<1>9. CASE ~(t <= first)
  <2>1. m \in 1..n - 1
    <3>1. w[1].time < t /\ 1 \in 1..n /\ n \in 1..n /\ ~(w[n].time < t)
      BY <1>2, <1>4, <1>9
    <3> HIDE DEF m
    <3>2. 1 <= m /\ ~(n <= m)
      BY <1>5, <3>1
    <3> QED
      BY <1>2, <1>5, <3>2
  <2>2. m \in 1..n /\ m + 1 \in 1..n /\ m # 0 /\ ~(m >= Len(w)) /\ m \in Int
    <3> HIDE DEF m
    <3> QED
      BY <1>2, <1>3, <2>1
  <2>3. c.target = Between(w[m], w[m + 1], t)
    BY <1>1, <2>2 DEF GetTarget
  <2>4. w[m].time < t /\ t <= w[m + 1].time
    <3>1. w[m + 1].time \in Int
      BY <1>3, <2>2 DEF Rises
    <3> HIDE DEF m, t
    <3>2. ~(w[m + 1].time < t) /\ w[m].time < t
      BY <1>5, <2>2
    <3> QED
      BY <1>4, <3>1, <3>2
  <2>5. w[m].time < w[m + 1].time
    <3>1. w[m].time \in Int /\ w[m + 1].time \in Int
      BY <1>3, <2>2 DEF Rises
    <3> HIDE DEF m, t
    <3> QED
      BY <1>4, <2>4, <3>1
  <2> DEFINE i == ix[m]
             j == ix[m + 1]
  <2>6. Adjacent(points, i, j)
    <3> HIDE DEF m
    <3> QED
      BY <2>1, <2>5, NextAre
  <2>7. points[i] \in Waypoints /\ points[j] \in Waypoints /\ points[i] = w[m] /\ points[j] = w[m + 1]
        /\ i \in DOMAIN points /\ j \in DOMAIN points
    <3> HIDE DEF m
    <3> QED
      BY <1>3, <1>6, <2>2
  <2>8. ASSUME t = e, t < last
        PROVE  c.acceleration = [num |-> w[m + 1].speed - w[m].speed, den |-> w[m + 1].time - w[m].time]
    <3>1. ~(e <= w[1].time \/ e >= Duration(w))
      BY <1>2, <1>4, <1>9, <2>8
    <3>2. BisectLeft(w, e) = m
      BY <2>8
    <3>3. GetAcceleration(w, e) = [num |-> w[m + 1].speed - w[m].speed, den |-> w[m + 1].time - w[m].time]
      <4> HIDE DEF m
      <4> QED
        BY <3>1, <3>2 DEF GetAcceleration
    <3> QED
      BY <1>1, <3>3
  <2>9. OnLine(points, i, j, t, c)
    <3> HIDE DEF m, t, i, j, last
    <3>1. /\ points[i].time < t /\ t <= points[j].time /\ c.target = Between(points[i], points[j], t)
      BY <2>3, <2>4, <2>7
    <3>2. t = c.elapsed /\ t < Max(TimesOf(points)) =>
              c.acceleration = [num |-> points[j].speed - points[i].speed, den |-> points[j].time - points[i].time]
      BY <1>1, <1>2, <2>7, <2>8
    <3> QED
      BY <1>4, <2>7, <3>1, <3>2, BetweenIsOnLine
  <2>10. \E i1, j1 \in DOMAIN points : Adjacent(points, i1, j1) /\ OnLine(points, i1, j1, t, c)
    <3> HIDE DEF m, t, i, j
    <3> QED
      BY <2>6, <2>7, <2>9
  <2> HIDE DEF t, first, last, m, i, j
  <2> QED
    BY <1>1, <1>2, <1>4, <1>7, <1>9, <2>10, ProfileIs
<1> HIDE DEF t, first
<1> QED
  BY <1>8, <1>9

-----------------------------------------------------------------------------
(* trajectory_player: the whole of a file                                  *)

\* A clock is read as a number.
LEMMA ElementIs == ASSUME NEW f, NEW x \in DOMAIN f, f \in Seq(Int) PROVE f[x] \in Int
  OBVIOUS

\* trajectory_player plays the profile of the file, whatever its waypoints, in
\* whatever order they are, and whatever the readings of the clock, which may be
\* late and go back; unless all of it lies before the start.
THEOREM AnyProfileIsPlayed ==
    ASSUME NEW data, NEW clock \in Seq(Int), FromYaml(data) \in Seq(Waypoints),
           FromYaml(data) # <<>> => \E k \in DOMAIN FromYaml(data) : FromYaml(data)[k].time >= 0
    PROVE  Played(FromYaml(data), Play(data, clock))
<1> DEFINE points == FromYaml(data)
           w == SortedByTime(points)
           n == Len(points)
           over == {k \in 1..Len(clock) - 1 : clock[k + 1] - clock[1] >= Duration(w)}
           first == CHOOSE k \in over : \A j \in over : k <= j
           sent == IF over = {} THEN Len(clock) - 1 ELSE first
           commands == [k \in 1..sent |-> Command(w, clock[k + 1] - clock[1])]
           exit == IF over = {} THEN "playing" ELSE "completed"
           played == Play(data, clock)
<1>1. played = IF points = <<>> THEN [sent |-> <<>>, exit |-> "refused"]
                                ELSE [sent |-> commands, exit |-> exit]
  BY DEF Play
<1> HIDE DEF played
<1> SUFFICES Played(points, played)
  BY DEF played
<1>2. points \in Seq(Waypoints) /\ (points # <<>> => \E k \in DOMAIN points : points[k].time >= 0)
  OBVIOUS
<1> HIDE DEF points
<1>3. CASE points = <<>>
  <2>1. played.exit = "refused" /\ played.sent = <<>>
    BY <1>1, <1>3
  <2>2. DOMAIN played.sent = {}
    BY <2>1
  <2> QED
    BY <1>3, <2>1, <2>2 DEF Played
<1>4. CASE points # <<>>
  <2>1. PICK ix : Lined(points, ix, w, n)
    BY <1>2, <1>4, LinedUp
  <2> HIDE DEF w, n
  <2>2. /\ Max(TimesOf(points)) = w[n].time /\ n \in Nat \ {0} /\ w[n].time \in Int
    BY <2>1, ExtremesAre
  <2>3. 0 <= w[n].time
    <3>1. PICK k \in DOMAIN points : points[k].time >= 0
      BY <1>2, <1>4
    <3>2. PICK l \in 1..n : ix[l] = k
      BY <2>1, <3>1 DEF Lined
    <3>3. w[l] = points[k] /\ w[l].time <= w[n].time /\ w[l].time \in Int
      BY <2>1, <2>2, <3>2 DEF Lined, Rises
    <3> QED
      BY <2>2, <3>1, <3>3
  <2>4. Duration(w) = w[n].time
    BY <2>1 DEF Lined, Rises, Duration
  <2>5. \A k \in 1..Len(clock) - 1 : clock[k + 1] - clock[1] \in Int
    BY ElementIs
  <2>6. over # {} => first \in over /\ \A j \in over : first <= j
    <3>1. over \in SUBSET Int /\ IsFiniteSet(over)
      <4>1. Len(clock) - 1 \in Int
        OBVIOUS
      <4>2. IsFiniteSet(1..Len(clock) - 1)
        BY <4>1, FS_Interval
      <4>3. IsFiniteSet(over)
        BY <4>2, FS_Subset
      <4> QED
        BY <4>3
    <3> HIDE DEF over
    <3>2. over # {} => Min(over) \in over /\ \A x \in over : Min(over) <= x
      BY <3>1, HasMin
    <3> QED
      BY <3>2
  <2> HIDE DEF first
  <2>7. played.sent = commands /\ played.exit = exit
    BY <1>1, <1>4
  <2>8. ASSUME NEW k \in DOMAIN commands PROVE OnProfile(points, commands[k])
    <3>1. k \in 1..Len(clock) - 1 /\ commands[k] = Command(w, clock[k + 1] - clock[1])
      BY <2>6
    <3> DEFINE e == clock[k + 1] - clock[1]
    <3>2. e \in Int
      BY <2>5, <3>1
    <3> HIDE DEF e, commands
    <3>3. OnProfile(points, Command(w, e))
      BY <2>1, <2>3, <3>2, CommandIsOnProfile
    <3> QED
      BY <3>1, <3>3 DEF e
  <2>9. ASSUME exit = "completed"
        PROVE  /\ commands[Len(commands)].elapsed >= Max(TimesOf(points))
               /\ \A k \in 1..Len(commands) - 1 : commands[k].elapsed < Max(TimesOf(points))
    <3>1. over # {}
      BY <2>9
    <3>2. first \in over /\ (\A j \in over : first <= j) /\ sent = first
      BY <2>6, <3>1
    <3>3. first \in 1..Len(clock) - 1 /\ clock[first + 1] - clock[1] >= w[n].time
      BY <2>4, <3>2
    <3>4. first \in Nat \ {0} /\ DOMAIN commands = 1..first
      BY <3>2, <3>3
    <3>5. Len(commands) = first
      <4> DEFINE C == Range(commands)
      <4>1. commands \in Seq(C)
        <5>1. \A k \in 1..first : commands[k] \in C
          BY <3>4 DEF Range
        <5> HIDE DEF C
        <5>2. commands = [k \in 1..first |-> commands[k]]
          BY <3>2
        <5> HIDE DEF commands
        <5>3. commands \in [1..first -> C]
          BY <5>1, <5>2
        <5> QED
          BY <3>4, <5>3
      <4> HIDE DEF C, commands
      <4> QED
        BY <3>4, <4>1
    <3>6. \A k \in 1..first : commands[k].elapsed = clock[k + 1] - clock[1]
      BY <3>2 DEF Command
    <3>7. ASSUME NEW k \in 1..first - 1 PROVE commands[k].elapsed < w[n].time
      <4>1. k \in 1..first /\ k \in 1..Len(clock) - 1 /\ ~(first <= k)
        BY <3>3, <3>4
      <4>2. k \notin over
        BY <3>2, <4>1
      <4>3. ~(clock[k + 1] - clock[1] >= w[n].time)
        BY <2>4, <4>1, <4>2
      <4> DEFINE e == clock[k + 1] - clock[1]
      <4>4. e \in Int /\ commands[k].elapsed = e
        BY <2>5, <3>6, <4>1
      <4> HIDE DEF e, commands
      <4> QED
        BY <2>2, <4>3, <4>4 DEF e
    <3> HIDE DEF commands
    <3>8. commands[first].elapsed >= w[n].time
      BY <3>3, <3>4, <3>6
    <3> QED
      BY <2>2, <3>5, <3>7, <3>8
  <2>10. exit # "refused"
    OBVIOUS
  <2> HIDE DEF commands, exit
  <2> QED
    BY <1>4, <2>7, <2>8, <2>9, <2>10 DEF Played
<1> QED
  BY <1>3, <1>4

\* The waypoints of the jobs.
LEMMA PointsAre == Points \subseteq Waypoints /\ \A p \in Points : p.time >= 0
<1>1. ASSUME NEW t \in 0..3, NEW v \in {0, 2}
      PROVE  Point(t, v, v \div 2) \in Waypoints /\ Point(t, v, v \div 2).time >= 0
  <2>1. v \div 2 \in Int /\ v \in Int
    OBVIOUS
  <2> QED
    BY <2>1 DEF Point, Waypoints
<1> QED
  BY <1>1 DEF Points

\* from_yaml_file: what is read of a file that is whole or lacks a key.
LEMMA FileIs ==
    ASSUME NEW p \in Seq(Waypoints), NEW lacks
    PROVE  /\ lacks = "nothing" => FromYaml(File(p, lacks)) = p
           /\ lacks = "steering_angle" =>
                FromYaml(File(p, lacks))
                    = [k \in DOMAIN p |-> IF k < Len(p) THEN p[k] ELSE [p[k] EXCEPT !.angle = 0]]
           /\ lacks \in {"time", "speed"} => FromYaml(File(p, lacks)) = <<>>
<1> DEFINE data == File(p, lacks)
           keys(k) == {"time", "speed", "steering_angle"} \ (IF k = Len(p) THEN {lacks} ELSE {})
           read == [k \in DOMAIN p |->
                        Point(data.waypoints[k].time, data.waypoints[k].speed,
                              IF "steering_angle" \in DOMAIN data.waypoints[k]
                              THEN data.waypoints[k].steering_angle ELSE 0)]
<1>1. "waypoints" \in DOMAIN data /\ DOMAIN data.waypoints = DOMAIN p /\ DOMAIN p = 1..Len(p) /\ Len(p) \in Nat
  BY DEF File
<1>2. ASSUME NEW k \in DOMAIN p
      PROVE  /\ DOMAIN data.waypoints[k] = keys(k)
             /\ "time" \in keys(k) => data.waypoints[k].time = p[k].time
             /\ "speed" \in keys(k) => data.waypoints[k].speed = p[k].speed
             /\ "steering_angle" \in keys(k) => data.waypoints[k].steering_angle = p[k].angle
             /\ p[k] \in Waypoints
             /\ p[k] = [time |-> p[k].time, speed |-> p[k].speed, angle |-> p[k].angle]
  <2> DEFINE K == keys(k)
             point == data.waypoints[k]
  <2>1. point = [key \in K |-> CASE key = "time" -> p[k].time
                                   [] key = "speed" -> p[k].speed
                                   [] key = "steering_angle" -> p[k].angle]
    BY DEF File
  <2>2. p[k] \in Waypoints
    OBVIOUS
  <2>3. p[k] = [time |-> p[k].time, speed |-> p[k].speed, angle |-> p[k].angle]
    BY <2>2 DEF Waypoints
  <2> HIDE DEF K, point
  <2>4. /\ DOMAIN point = K
        /\ "time" \in K => point.time = p[k].time
        /\ "speed" \in K => point.speed = p[k].speed
        /\ "steering_angle" \in K => point.steering_angle = p[k].angle
    BY <2>1
  <2> QED
    BY <2>2, <2>3, <2>4 DEF K, point
<1> HIDE DEF data
<1>3. FromYaml(data) = IF \E k \in DOMAIN p : ~({"time", "speed"} \subseteq DOMAIN data.waypoints[k])
                       THEN <<>> ELSE read
  BY <1>1 DEF FromYaml
<1>4. ASSUME lacks = "nothing" PROVE FromYaml(data) = p
  <2>1. \A k \in DOMAIN p : keys(k) = {"time", "speed", "steering_angle"}
    BY <1>4
  <2>2. \A k \in DOMAIN p : read[k] = p[k]
    BY <1>2, <2>1 DEF Point
  <2>3. read = p
    <3>1. p = [k \in DOMAIN p |-> p[k]] /\ read = [k \in DOMAIN p |-> read[k]]
      OBVIOUS
    <3> HIDE DEF read
    <3> QED
      BY <2>2, <3>1
  <2>4. \A k \in DOMAIN p : {"time", "speed"} \subseteq DOMAIN data.waypoints[k]
    BY <1>2, <2>1
  <2> HIDE DEF read
  <2> QED
    BY <1>3, <2>3, <2>4
<1>5. ASSUME lacks = "steering_angle"
      PROVE  FromYaml(data) = [k \in DOMAIN p |-> IF k < Len(p) THEN p[k] ELSE [p[k] EXCEPT !.angle = 0]]
  <2> DEFINE q == [k \in DOMAIN p |-> IF k < Len(p) THEN p[k] ELSE [p[k] EXCEPT !.angle = 0]]
  <2>1. \A k \in DOMAIN p : /\ "time" \in keys(k) /\ "speed" \in keys(k)
                            /\ "steering_angle" \in keys(k) <=> k < Len(p)
    BY <1>1, <1>5
  <2>2. ASSUME NEW k \in DOMAIN p PROVE read[k] = q[k]
    <3>1. CASE k < Len(p)
      BY <1>2, <2>1, <3>1 DEF Point
    <3>2. CASE ~(k < Len(p))
      <4>1. q[k] = [p[k] EXCEPT !.angle = 0]
        BY <3>2
      <4>2. [p[k] EXCEPT !.angle = 0] = [time |-> p[k].time, speed |-> p[k].speed, angle |-> 0]
        BY <1>2
      <4>3. read[k] = [time |-> p[k].time, speed |-> p[k].speed, angle |-> 0]
        BY <1>2, <2>1, <3>2 DEF Point
      <4> QED
        BY <4>1, <4>2, <4>3
    <3> QED
      BY <3>1, <3>2
  <2>3. read = q
    <3>1. q = [k \in DOMAIN p |-> q[k]] /\ read = [k \in DOMAIN p |-> read[k]]
      OBVIOUS
    <3> HIDE DEF read, q
    <3> QED
      BY <2>2, <3>1
  <2>4. \A k \in DOMAIN p : {"time", "speed"} \subseteq DOMAIN data.waypoints[k]
    BY <1>2, <2>1
  <2> HIDE DEF read
  <2> QED
    BY <1>3, <2>3, <2>4
<1>6. ASSUME lacks \in {"time", "speed"} PROVE FromYaml(data) = <<>>
  <2>1. CASE p = <<>>
    <3>1. DOMAIN p = {}
      BY <2>1
    <3>2. read = <<>>
      BY <3>1
    <3> QED
      BY <1>3, <3>2
  <2>2. CASE p # <<>>
    <3>1. Len(p) \in DOMAIN p
      BY <2>2
    <3>2. lacks \notin DOMAIN data.waypoints[Len(p)]
      BY <1>2, <3>1
    <3> QED
      BY <1>3, <1>6, <3>1, <3>2
  <2> QED
    BY <2>1, <2>2
<1> QED
  BY <1>4, <1>5, <1>6 DEF data

-----------------------------------------------------------------------------
(* trajectory_player: the runs                                             *)

\* Not all of the trajectory lies before the start.
FromStart(points) == points # <<>> => \E k \in DOMAIN points : points[k].time >= 0
\* What a play job asks for.
PlayJob == job.tool = "play" =>
    /\ FromYaml(job.data) = job.points /\ job.points \in Seq(Waypoints) /\ FromStart(job.points)
    /\ job.clock \in Seq(Int)

\* Every play job asks for a trajectory and a clock.
LEMMA PlayJobs == JobPlay => job.tool = "play" /\ PlayJob
<1>1. \A clock \in Clocks : clock \in Seq(Int)
  <2>1. /\ <<0, 1, 2, 3, 4>> \in Seq(Int) /\ <<0, 2, 5>> \in Seq(Int) /\ <<0, 2, 1, 3, 4>> \in Seq(Int)
        /\ <<0, 1>> \in Seq(Int) /\ <<3, 1, 5, 6>> \in Seq(Int)
    OBVIOUS
  <2> QED
    BY <2>1 DEF Clocks
<1>2. ASSUME NEW n \in Nat, NEW p \in SeqsUpTo(Points, n)
      PROVE  p \in Seq(Waypoints) /\ FromStart(p)
  <2>1. p \in Seq(Points)
    BY SomeSeqs
  <2>2. p \in Seq(Waypoints)
    BY <2>1, PointsAre
  <2>3. ASSUME p # <<>> PROVE 1 \in DOMAIN p /\ p[1].time >= 0
    <3>1. 1 \in DOMAIN p /\ p[1] \in Points
      BY <2>1, <2>3
    <3> QED
      BY <3>1, PointsAre
  <2> QED
    BY <2>2, <2>3 DEF FromStart
<1>3. ASSUME NEW p \in SeqsUpTo(Points, 3), NEW c \in Clocks,
             job = [tool |-> "play", points |-> p, clock |-> c, data |-> File(p, "nothing")]
      PROVE  job.tool = "play" /\ PlayJob
  <2>1. p \in Seq(Waypoints) /\ FromStart(p)
    BY <1>2
  <2>2. FromYaml(File(p, "nothing")) = p
    BY <2>1, FileIs
  <2>3. job.tool = "play" /\ job.points = p /\ job.clock = c /\ job.data = File(p, "nothing")
    BY <1>3
  <2> QED
    BY <1>1, <2>1, <2>2, <2>3 DEF PlayJob
<1>4. ASSUME NEW p \in SeqsUpTo(Points, 2), NEW lacks \in {"waypoints", "time", "speed", "steering_angle"},
             job = [tool |-> "play", clock |-> <<0, 1, 2, 3, 4>>,
                    points |-> IF lacks # "steering_angle" THEN <<>>
                               ELSE [k \in DOMAIN p |-> IF k < Len(p) THEN p[k] ELSE [p[k] EXCEPT !.angle = 0]],
                    data |-> IF lacks = "waypoints" THEN <<>> ELSE File(p, lacks)]
      PROVE  job.tool = "play" /\ PlayJob
  <2> DEFINE clock == <<0, 1, 2, 3, 4>>
             turned == [k \in DOMAIN p |-> IF k < Len(p) THEN p[k] ELSE [p[k] EXCEPT !.angle = 0]]
             points == IF lacks # "steering_angle" THEN <<>> ELSE turned
             data == IF lacks = "waypoints" THEN <<>> ELSE File(p, lacks)
  <2>1. p \in Seq(Waypoints) /\ FromStart(p)
    BY <1>2
  <2>2. clock \in Seq(Int)
    BY <1>1 DEF Clocks
  <2>3. turned \in Seq(Waypoints) /\ FromStart(turned)
    <3>1. DOMAIN p = 1..Len(p) /\ Len(p) \in Nat /\ \A k \in DOMAIN p : p[k] \in Waypoints
      BY <2>1
    <3>2. ASSUME NEW k \in DOMAIN p PROVE turned[k] \in Waypoints /\ turned[k].time = p[k].time
      <4>1. [p[k] EXCEPT !.angle = 0] \in Waypoints /\ [p[k] EXCEPT !.angle = 0].time = p[k].time
        BY <3>1 DEF Waypoints
      <4> QED
        BY <3>1, <4>1
    <3>3. DOMAIN turned = DOMAIN p /\ turned = [k \in DOMAIN p |-> turned[k]]
      OBVIOUS
    <3> HIDE DEF turned
    <3>4. turned \in [1..Len(p) -> Waypoints]
      BY <3>1, <3>2, <3>3
    <3>5. turned \in Seq(Waypoints)
      BY <3>1, <3>4
    <3>6. ASSUME turned # <<>> PROVE \E k \in DOMAIN turned : turned[k].time >= 0
      <4>1. 1 \in DOMAIN turned
        BY <3>5, <3>6
      <4>2. p # <<>>
        BY <3>3, <4>1
      <4>3. PICK k \in DOMAIN p : p[k].time >= 0
        BY <2>1, <4>2 DEF FromStart
      <4> QED
        BY <3>2, <3>3, <4>3
    <3> QED
      BY <3>5, <3>6 DEF FromStart
  <2>4. <<>> \in Seq(Waypoints) /\ FromStart(<<>>) /\ FromYaml(<<>>) = <<>>
    BY DEF FromStart, FromYaml
  <2>5. FromYaml(data) = points
    <3>1. CASE lacks = "waypoints"
      BY <2>4, <3>1
    <3>2. CASE lacks \in {"time", "speed"}
      <4>1. FromYaml(File(p, lacks)) = <<>>
        BY <2>1, <3>2, FileIs
      <4> QED
        BY <3>2, <4>1
    <3>3. CASE lacks = "steering_angle"
      <4>1. FromYaml(File(p, lacks)) = turned
        BY <2>1, <3>3, FileIs
      <4> HIDE DEF turned
      <4> QED
        BY <3>3, <4>1
    <3> QED
      BY <3>1, <3>2, <3>3
  <2> HIDE DEF turned, clock
  <2>6. points \in Seq(Waypoints) /\ FromStart(points)
    BY <2>3, <2>4
  <2>7. job.tool = "play" /\ job.points = points /\ job.clock = clock /\ job.data = data
    BY <1>4 DEF clock, turned
  <2> HIDE DEF points, data
  <2> QED
    BY <2>2, <2>5, <2>6, <2>7 DEF PlayJob
<1> QED
  BY <1>3, <1>4 DEF JobPlay

\* trajectory_player: every trajectory of the run is played as it is written.
THEOREM PlayInRun == Spec => []PlaysTheProfile
<1> DEFINE Inv == PlayJob /\ Ran("play", PlayResult(job))
<1>1. Init => Inv
  BY JobsOfOthers, JobsProved, PlayJobs DEF Init, Ran, PlayJob
<1>2. Inv /\ [Next]_vars => Inv'
  BY JobStays, RunsOnce DEF PlayJob
<1>3. Inv => PlaysTheProfile
  <2> SUFFICES ASSUME Inv, Did("play") PROVE Played(job.points, out)
    BY DEF PlaysTheProfile
  <2>1. out = Play(job.data, job.clock)
    BY DEF Did, Ran, PlayResult
  <2>2. /\ FromYaml(job.data) = job.points /\ job.points \in Seq(Waypoints) /\ FromStart(job.points)
        /\ job.clock \in Seq(Int)
    BY DEF Did, PlayJob
  <2>3. Played(FromYaml(job.data), Play(job.data, job.clock))
    BY <2>2, AnyProfileIsPlayed DEF FromStart
  <2> QED
    BY <2>1, <2>2, <2>3
<1> QED
  BY <1>1, <1>2, <1>3, PTL DEF Spec

-----------------------------------------------------------------------------
(* board_range_report: the track of the poses                              *)

\* The stamps of a bag of poses, as waypoints that are sorted by time.
Stamped(poses) == [i \in DOMAIN poses |-> [time |-> poses[i], speed |-> 0, angle |-> 0]]

\* load_poses: the track is the poses of the bag in the order of their times.
LEMMA TrackIs ==
    ASSUME NEW poses \in Seq(Int), poses # <<>>
    PROVE  LET w == SortedByTime(Stamped(poses))
               n == Len(poses)
           IN  /\ \E ix : Lined(Stamped(poses), ix, w, n)
               /\ LoadPoses(poses).track = [k \in 1..n |-> w[k].time]
<1> DEFINE points == Stamped(poses)
           w == SortedByTime(points)
           n == Len(poses)
           track == LoadPoses(poses).track
           ahead(i) == {j \in DOMAIN poses : poses[j] < poses[i] \/ (poses[j] = poses[i] /\ j <= i)}
           place(k) == CHOOSE i \in DOMAIN poses : Cardinality(ahead(i)) = k
<1>1. n \in Nat /\ DOMAIN poses = 1..n /\ DOMAIN points = 1..n /\ poses \in [1..n -> Int]
  BY DEF Stamped
<1>2. points \in Seq(Waypoints) /\ Len(points) = n /\ points # <<>>
  <2>1. \A k \in 1..n : points[k] \in Waypoints
    BY <1>1 DEF Stamped, Waypoints
  <2>2. points \in [1..n -> Waypoints]
    BY <1>1, <2>1 DEF Stamped
  <2>3. n # 0
    OBVIOUS
  <2> HIDE DEF points
  <2>4. points \in Seq(Waypoints) /\ Len(points) = n
    BY <1>1, <2>2
  <2> HIDE DEF n
  <2> QED
    BY <1>1, <2>3, <2>4
<1>3. \E ix : Lined(points, ix, w, n)
  <2> HIDE DEF points
  <2> QED
    BY <1>2, LinedUp
<1>4. track = [k \in DOMAIN poses |-> poses[place(k)]]
  BY DEF LoadPoses
<1>5. PICK ix : Order(points, ix)
  <2> HIDE DEF points
  <2> QED
    BY <1>2, SortedIs
<1>6. ASSUME NEW k \in 1..n PROVE w[k].time = track[k]
  <2>1. ix[k] \in 1..n /\ w[k] = points[ix[k]]
    <3> HIDE DEF points
    <3> QED
      BY <1>1, <1>5 DEF Order
  <2>2. \A i \in DOMAIN poses : NotAfter(points, i) = ahead(i)
    BY <1>1 DEF NotAfter, Precedes, Stamped
  <2>3. ix[k] = CHOOSE i \in DOMAIN poses : Cardinality(NotAfter(points, i)) = k
    <3>1. k \in DOMAIN points /\ DOMAIN points = DOMAIN poses
      BY <1>1
    <3> HIDE DEF points, ahead, place
    <3>2. ix[k] = CHOOSE i \in DOMAIN points : Cardinality(NotAfter(points, i)) = k
      BY <1>5, <3>1, Zenon DEF Order
    <3> QED
      BY <3>1, <3>2, Zenon
  <2>4. place(k) = ix[k]
    <3> HIDE DEF ahead, points
    <3> QED
      BY <2>2, <2>3
  <2>5. track[k] = poses[place(k)]
    <3> HIDE DEF place, track
    <3> QED
      BY <1>1, <1>4
  <2>6. points[ix[k]].time = poses[ix[k]]
    BY <1>1, <2>1 DEF Stamped
  <2> HIDE DEF place, w, track, points
  <2> QED
    BY <2>1, <2>4, <2>5, <2>6
<1>7. track = [k \in 1..n |-> w[k].time]
  <2>1. track = [k \in 1..n |-> track[k]]
    BY <1>1, <1>4
  <2> HIDE DEF track, w, n
  <2> QED
    BY <1>6, <2>1
<1> QED
  BY <1>3, <1>7

-----------------------------------------------------------------------------
(* board_range_report: the pose at a time                                  *)

\* PoseTrack.at: there is a pose at a time exactly if two poses that are near
\* have it between them.
LEMMA PoseAtIs ==
    ASSUME NEW poses \in Seq(Int), NEW gap \in Int, NEW t \in Int
    PROVE  PoseAt(LoadPoses(poses).track, gap, t) <=> Known(poses, gap, t)
<1> DEFINE track == LoadPoses(poses).track
           i == Cardinality({k \in DOMAIN track : track[k] < t})
<1>1. PoseAt(track, gap, t) <=> i > 0 /\ i < Len(track) /\ track[i + 1] - track[i] <= gap
  BY DEF PoseAt
<1>2. CASE poses = <<>>
  <2>1. ~Known(poses, gap, t)
    BY <1>2 DEF Known, Range
  <2>2. DOMAIN track = {}
    BY <1>2 DEF LoadPoses
  <2>3. {k \in DOMAIN track : track[k] < t} = {}
    BY <2>2
  <2>4. i = 0
    BY <2>3, FS_EmptySet
  <2> HIDE DEF i, track
  <2> QED
    BY <1>1, <2>1, <2>4 DEF track
<1>3. CASE poses # <<>>
  <2> DEFINE points == Stamped(poses)
             w == SortedByTime(points)
             n == Len(poses)
  <2>1. PICK ix : Lined(points, ix, w, n)
    BY <1>3, TrackIs
  <2>2. track = [k \in 1..n |-> w[k].time]
    BY <1>3, TrackIs
  <2>3. n \in Nat \ {0} /\ DOMAIN poses = 1..n /\ Rises(w, n) /\ \A k \in 1..n : poses[k] \in Int
    <3>1. Rises(w, n) /\ n \in Nat \ {0}
      <4> HIDE DEF points, w, n
      <4> QED
        BY <2>1 DEF Lined, Rises
    <3>2. DOMAIN poses = 1..n /\ \A k \in 1..n : poses[k] \in Int
      OBVIOUS
    <3> QED
      BY <3>1, <3>2
  <2> HIDE DEF track
  <2>4. Len(track) = n /\ DOMAIN track = 1..n
    <3> HIDE DEF n, w
    <3>1. track \in [1..n -> Int]
      BY <2>2, <2>3 DEF Rises
    <3> QED
      BY <2>3, <3>1
  <2> HIDE DEF w, n
  <2>5. i = BisectLeft(w, t)
    <3>1. {k \in DOMAIN track : track[k] < t} = {k \in DOMAIN w : w[k].time < t}
      BY <2>2, <2>3, <2>4 DEF Rises
    <3> QED
      BY <3>1 DEF BisectLeft
  <2> HIDE DEF i
  <2>6. i \in 0..n /\ \A k \in 1..n : w[k].time < t <=> k <= i
    BY <2>3, <2>5, BisectIs
  <2>7. \A k \in 1..n : w[k].time \in Range(poses) /\ w[k].time \in Int
    <3> SUFFICES ASSUME NEW k \in 1..n PROVE w[k].time \in Range(poses) /\ w[k].time \in Int
      OBVIOUS
    <3>1. ix[k] \in 1..n /\ w[k] = points[ix[k]]
      <4> HIDE DEF points
      <4> QED
        BY <2>1 DEF Lined
    <3>2. points[ix[k]].time = poses[ix[k]]
      BY <2>3, <3>1 DEF Stamped
    <3> QED
      BY <2>3, <3>1, <3>2 DEF Range
  <2>8. \A c \in Range(poses) : \E k \in 1..n : w[k].time = c
    <3> SUFFICES ASSUME NEW j \in 1..n PROVE \E k \in 1..n : w[k].time = poses[j]
      BY <2>3 DEF Range
    <3>1. PICK k \in 1..n : ix[k] = j /\ w[k] = points[ix[k]]
      <4> HIDE DEF points
      <4> QED
        BY <2>1 DEF Lined
    <3>2. points[j].time = poses[j]
      BY <2>3 DEF Stamped
    <3> QED
      BY <3>1, <3>2
  <2>9. \A k, l \in 1..n : k <= l => w[k].time <= w[l].time
    BY <2>3 DEF Rises
  <2> DEFINE near == i > 0 /\ i < n /\ w[i + 1].time - w[i].time <= gap
  <2>10. PoseAt(track, gap, t) <=> near
    <3>1. i > 0 /\ i < n => track[i + 1] = w[i + 1].time /\ track[i] = w[i].time
      <4> SUFFICES ASSUME i > 0, i < n PROVE track[i + 1] = w[i + 1].time /\ track[i] = w[i].time
        OBVIOUS
      <4>1. i \in 1..n /\ i + 1 \in 1..n
        BY <2>3, <2>6
      <4> QED
        BY <2>2, <4>1
    <3> QED
      BY <1>1, <2>4, <3>1
  <2>11. ASSUME near PROVE Known(poses, gap, t)
    <3> DEFINE a == w[i].time
               b == w[i + 1].time
    <3>1. i \in 1..n /\ i + 1 \in 1..n /\ ~(i + 1 <= i)
      BY <2>3, <2>6, <2>11
    <3>2. a \in Range(poses) /\ b \in Range(poses) /\ a \in Int /\ b \in Int
      BY <2>7, <3>1
    <3>3. a < t /\ ~(b < t)
      BY <2>6, <3>1
    <3>4. b - a <= gap
      BY <2>11
    <3>5. ASSUME NEW c \in Range(poses) PROVE c <= a \/ b <= c
      <4>1. PICK k \in 1..n : w[k].time = c
        BY <2>8
      <4>2. k <= i \/ i + 1 <= k
        BY <2>6
      <4> QED
        BY <2>9, <3>1, <4>1, <4>2
    <3> HIDE DEF a, b
    <3>6. a < t /\ t <= b
      BY <3>2, <3>3
    <3> QED
      BY <3>2, <3>4, <3>5, <3>6 DEF Known
  <2>12. ASSUME Known(poses, gap, t) PROVE near
    <3>1. PICK a \in Range(poses), b \in Range(poses) :
              /\ a < t /\ t <= b /\ b - a <= gap
              /\ \A c \in Range(poses) : c <= a \/ b <= c
      BY <2>12 DEF Known
    <3>2. PICK k \in 1..n : w[k].time = a
      BY <2>8
    <3>3. PICK l \in 1..n : w[l].time = b
      BY <2>8
    <3>4. a \in Int /\ b \in Int
      BY <2>7, <3>2, <3>3
    <3>5. k <= i
      BY <2>6, <3>1, <3>2
    <3>6. ~(l <= i)
      <4>1. ~(w[l].time < t)
        BY <3>1, <3>3, <3>4
      <4> QED
        BY <2>6, <4>1
    <3>7. i > 0 /\ i < n /\ i \in 1..n /\ i + 1 \in 1..n /\ i + 1 <= l
      BY <2>3, <2>6, <3>5, <3>6
    <3> DEFINE c == w[i].time
               d == w[i + 1].time
    <3>8. c \in Range(poses) /\ d \in Range(poses) /\ c \in Int /\ d \in Int
      BY <2>7, <3>7
    <3>9. c < t /\ ~(d < t)
      <4>1. i <= i /\ ~(i + 1 <= i)
        BY <2>6
      <4> QED
        BY <2>6, <3>7, <4>1
    <3>10. a <= c /\ d <= b
      BY <2>9, <3>2, <3>3, <3>5, <3>7
    <3> HIDE DEF c, d
    <3>11. c = a /\ d = b
      BY <3>1, <3>4, <3>8, <3>9, <3>10
    <3> QED
      BY <3>1, <3>7, <3>11 DEF c, d
  <2> QED
    BY <2>10, <2>11, <2>12 DEF track
<1> QED
  BY <1>2, <1>3

-----------------------------------------------------------------------------
(* board_range_report: blocks of scans                                     *)

\* The quotient and the remainder are the only ones.
LEMMA DivIs ==
    ASSUME NEW b \in Nat \ {0}, NEW q \in Int, NEW r \in 0..b - 1
    PROVE  (b * q + r) \div b = q /\ (b * q + r) % b = r
  OBVIOUS

\* Counting on fills the block at hand, or begins the next one.
LEMMA DivNext ==
    ASSUME NEW a \in Nat, NEW b \in Nat \ {0}
    PROVE  LET q == a \div b
               r == a % b
           IN  /\ q \in Nat /\ r \in 0..b - 1 /\ a = b * q + r
               /\ r + 1 < b => (a + 1) \div b = q /\ (a + 1) % b = r + 1
               /\ r + 1 = b => (a + 1) \div b = q + 1 /\ (a + 1) % b = 0
<1> DEFINE q == a \div b
           r == a % b
<1>1. q \in Int /\ r \in 0..b - 1 /\ a = b * q + r
  BY DivFacts, ModFacts
<1>2. q \in Nat
  <2> HIDE DEF q, r
  <2> SUFFICES ASSUME q <= -1 PROVE FALSE
    BY <1>1
  <2>1. b * q <= -b
    BY <1>1
  <2> QED
    BY <1>1, <2>1
<1> HIDE DEF q, r
<1>3. ASSUME r + 1 < b PROVE (a + 1) \div b = q /\ (a + 1) % b = r + 1
  <2>1. a + 1 = b * q + (r + 1) /\ r + 1 \in 0..b - 1
    BY <1>1, <1>3
  <2> QED
    BY <1>1, <2>1, DivIs
<1>4. ASSUME r + 1 = b PROVE (a + 1) \div b = q + 1 /\ (a + 1) % b = 0
  <2>1. a + 1 = b * (q + 1) + 0 /\ 0 \in 0..b - 1 /\ q + 1 \in Int
    BY <1>1, <1>4
  <2> QED
    BY <2>1, DivIs
<1> QED
  BY <1>1, <1>2, <1>3, <1>4 DEF q, r

\* A number of whole blocks that fits is within the quotient.
LEMMA DivUp ==
    ASSUME NEW a \in Int, NEW c \in Int, a <= c, NEW b \in Nat \ {0}
    PROVE  a \div b <= c \div b
<1> DEFINE p == a \div b
           q == c \div b
<1>1. p \in Int /\ q \in Int /\ b * p <= a /\ c < b * q + b
  BY DivFacts
<1> HIDE DEF p, q
<1> SUFFICES ASSUME q + 1 <= p PROVE FALSE
  BY <1>1 DEF p, q
<1>2. b * (q + 1) <= b * p /\ b * (q + 1) = b * q + b
  BY <1>1
<1> QED
  BY <1>1, <1>2

-----------------------------------------------------------------------------
\* The b-th batch of n scans, and the batches of U among the first q.
BlockOf(n, b) == [i \in 1..n |-> (b - 1) * n + i]
Among(U, q) == {b \in 1..q : b \in U}

\* The rows of the first q batches, of which those in U are usable.
RowsOf(rows, n, q, U) ==
    /\ rows \in Seq(Seq(Nat))
    /\ Range(rows) = {BlockOf(n, b) : b \in Among(U, q)}
    /\ Len(rows) = Cardinality(Among(U, q))

\* What appending adds.
LEMMA RangeGrows ==
    ASSUME NEW X, NEW s \in Seq(X), NEW x \in X
    PROVE  Range(Append(s, x)) = Range(s) \union {x} /\ Len(Append(s, x)) = Len(s) + 1
<1>1. /\ Append(s, x) \in Seq(X) /\ Len(Append(s, x)) = Len(s) + 1 /\ Len(s) \in Nat
      /\ \A k \in 1..Len(s) : Append(s, x)[k] = s[k]
      /\ Append(s, x)[Len(s) + 1] = x
  OBVIOUS
<1>2. DOMAIN Append(s, x) = 1..Len(s) + 1 /\ DOMAIN s = 1..Len(s)
  BY <1>1
<1> DEFINE t == Append(s, x)
<1> HIDE DEF t
<1>3. Range(t) = {t[k] : k \in DOMAIN t} /\ Range(s) = {s[k] : k \in DOMAIN s}
  BY DEF Range
<1>4. \A y \in Range(t) : y \in Range(s) \union {x}
  BY <1>1, <1>2, <1>3 DEF t
<1>5. \A y \in Range(s) \union {x} : y \in Range(t)
  BY <1>1, <1>2, <1>3 DEF t
<1> QED
  BY <1>1, <1>4, <1>5 DEF t

\* The next batch is a row if it is usable, and otherwise changes nothing.
LEMMA RowsGrow ==
    ASSUME NEW rows, NEW n \in Nat \ {0}, NEW q \in Nat, NEW U, RowsOf(rows, n, q, U)
    PROVE  /\ q + 1 \in U => RowsOf(Append(rows, BlockOf(n, q + 1)), n, q + 1, U)
           /\ q + 1 \notin U => RowsOf(rows, n, q + 1, U)
<1> DEFINE A == Among(U, q)
           B == Among(U, q + 1)
           x == BlockOf(n, q + 1)
<1>1. IsFiniteSet(A) /\ q + 1 \notin A
  <2>1. IsFiniteSet(1..q) /\ A \subseteq 1..q
    BY FS_Interval DEF Among
  <2>2. IsFiniteSet(A)
    <3> HIDE DEF A
    <3> QED
      BY <2>1, FS_Subset
  <2> QED
    BY <2>1, <2>2
<1>2. ASSUME q + 1 \in U PROVE RowsOf(Append(rows, x), n, q + 1, U)
  <2>1. B = A \union {q + 1}
    BY <1>2 DEF Among
  <2>2. Cardinality(B) = Cardinality(A) + 1
    <3> HIDE DEF A, B
    <3> QED
      BY <1>1, <2>1, FS_AddElement
  <2>3. x \in Seq(Nat)
    <3>1. \A i \in 1..n : (q + 1 - 1) * n + i \in Nat
      OBVIOUS
    <3>2. x \in [1..n -> Nat]
      BY <3>1 DEF BlockOf
    <3> HIDE DEF x
    <3> QED
      BY <3>2
  <2> HIDE DEF x, A, B
  <2> DEFINE X == Seq(Nat)
  <2>4. rows \in Seq(X) /\ Range(rows) = {BlockOf(n, b) : b \in A} /\ Len(rows) = Cardinality(A)
    BY DEF RowsOf, A
  <2> HIDE DEF X
  <2>5. Append(rows, x) \in Seq(X)
    BY <2>3, <2>4 DEF X
  <2>6. Range(Append(rows, x)) = Range(rows) \union {x} /\ Len(Append(rows, x)) = Len(rows) + 1
    BY <2>3, <2>4, RangeGrows DEF X
  <2>7. Range(rows) \union {x} = {BlockOf(n, b) : b \in B}
    BY <2>1, <2>4 DEF x
  <2> QED
    BY <2>2, <2>4, <2>5, <2>6, <2>7 DEF RowsOf, B, X
<1>3. ASSUME q + 1 \notin U PROVE RowsOf(rows, n, q + 1, U)
  <2>1. B = A
    BY <1>3 DEF Among
  <2> QED
    BY <2>1 DEF RowsOf
<1> QED
  BY <1>2, <1>3

-----------------------------------------------------------------------------
(* board_range_report: a scan joins the batch                              *)

\* run() between two scans: the batch that is begun, after m scans, and the rows.
Joining == [batch : Seq(Nat), rows : Seq(Seq(Nat))]
Begun(n, m) == [k \in 1..m % n |-> n * (m \div n) + k]
Here(s, n, m, U) ==
    s \in Joining /\ s.batch = Begun(n, m) /\ RowsOf(s.rows, n, m \div n, U)

\* The batch that is begun, and the scan that joins it.
LEMMA BatchGrows ==
    ASSUME NEW n \in Nat \ {0}, NEW m \in Nat, NEW batch, batch = Begun(n, m)
    PROVE  /\ batch \in Seq(Nat) /\ Append(batch, m + 1) \in Seq(Nat)
           /\ Len(Append(batch, m + 1)) = (m % n) + 1
           /\ (m % n) + 1 < n => Append(batch, m + 1) = Begun(n, m + 1)
           /\ (m % n) + 1 = n => Append(batch, m + 1) = BlockOf(n, (m \div n) + 1) /\ Begun(n, m + 1) = <<>>
<1> DEFINE q == m \div n
           r == m % n
           c == n * q
           more == Append(batch, m + 1)
<1>1. /\ q \in Nat /\ r \in 0..n - 1 /\ m = c + r
      /\ r + 1 < n => (m + 1) \div n = q /\ (m + 1) % n = r + 1
      /\ r + 1 = n => (m + 1) \div n = q + 1 /\ (m + 1) % n = 0
  BY DivNext
<1>2. c \in Nat /\ c = ((q + 1) - 1) * n
  <2> HIDE DEF q
  <2> QED
    BY <1>1
<1>3. batch = [k \in 1..r |-> c + k]
  BY DEF Begun
<1>4. BlockOf(n, q + 1) = [k \in 1..n |-> c + k]
  BY <1>2 DEF BlockOf
<1> HIDE DEF q, r, c
<1>5. batch \in [1..r -> Nat]
  BY <1>1, <1>2, <1>3
<1>6. batch \in Seq(Nat) /\ Len(batch) = r
  BY <1>1, <1>5
<1>7. /\ more \in Seq(Nat) /\ Len(more) = r + 1
      /\ \A k \in 1..r : more[k] = c + k
      /\ more[r + 1] = c + (r + 1)
  BY <1>1, <1>2, <1>3, <1>6
<1> HIDE DEF more
<1>8. more = [k \in 1..r + 1 |-> c + k]
  <2>1. DOMAIN more = 1..r + 1
    BY <1>1, <1>7
  <2>2. \A k \in 1..r + 1 : more[k] = c + k
    BY <1>1, <1>7
  <2>3. more = [k \in 1..r + 1 |-> more[k]]
    BY <1>7, <2>1
  <2> QED
    BY <2>2, <2>3
<1>9. ASSUME r + 1 < n PROVE more = Begun(n, m + 1)
  BY <1>1, <1>8, <1>9 DEF Begun, c
<1>10. ASSUME r + 1 = n PROVE more = BlockOf(n, q + 1) /\ Begun(n, m + 1) = <<>>
  <2>1. more = BlockOf(n, q + 1)
    BY <1>4, <1>8, <1>10
  <2>2. Begun(n, m + 1) = [k \in 1..0 |-> n * ((m + 1) \div n) + k]
    BY <1>1, <1>10 DEF Begun
  <2>3. [k \in 1..0 |-> n * ((m + 1) \div n) + k] = <<>>
    OBVIOUS
  <2> QED
    BY <2>1, <2>2, <2>3
<1> QED
  BY <1>6, <1>7, <1>9, <1>10 DEF more, q, r

\* One more scan.
LEMMA ScanJoins ==
    ASSUME NEW n \in Nat \ {0}, NEW m \in Nat, NEW U, NEW s, Here(s, n, m, U),
           NEW there \in BOOLEAN, (m % n) + 1 = n => (there <=> (m \div n) + 1 \in U)
    PROVE  Here(Joined(s, m + 1, n, there), n, m + 1, U)
<1> DEFINE q == m \div n
           r == m % n
           more == Append(s.batch, m + 1)
           next == Joined(s, m + 1, n, there)
<1>1. /\ q \in Nat /\ r \in 0..n - 1
      /\ r + 1 < n => (m + 1) \div n = q /\ (m + 1) % n = r + 1
      /\ r + 1 = n => (m + 1) \div n = q + 1 /\ (m + 1) % n = 0
  BY DivNext
<1>2. /\ more \in Seq(Nat) /\ Len(more) = r + 1
      /\ r + 1 < n => more = Begun(n, m + 1)
      /\ r + 1 = n => more = BlockOf(n, q + 1) /\ Begun(n, m + 1) = <<>>
  BY BatchGrows DEF Here
<1>3. s = [batch |-> s.batch, rows |-> s.rows] /\ s.rows \in Seq(Seq(Nat)) /\ RowsOf(s.rows, n, q, U)
  BY DEF Here, Joining
<1>4. next = IF Len(more) < n THEN [s EXCEPT !.batch = more]
             ELSE IF there THEN [batch |-> <<>>, rows |-> Append(s.rows, more)]
             ELSE [s EXCEPT !.batch = <<>>]
  BY DEF Joined
<1> HIDE DEF more, next, q, r
<1>5. CASE r + 1 < n
  <2>1. next = [batch |-> more, rows |-> s.rows]
    BY <1>2, <1>3, <1>4, <1>5
  <2>2. next.batch = more /\ next.rows = s.rows /\ next \in Joining
    BY <1>2, <1>3, <2>1 DEF Joining
  <2> QED
    BY <1>1, <1>2, <1>3, <1>5, <2>2 DEF Here, next
<1>6. CASE r + 1 = n
  <2>1. ~(Len(more) < n)
    BY <1>1, <1>2, <1>6
  <2>2. (there <=> q + 1 \in U) /\ (m + 1) \div n = q + 1
    BY <1>1, <1>6 DEF q, r
  <2>3. <<>> \in Seq(Nat) /\ <<>> = Begun(n, m + 1)
    BY <1>2, <1>6
  <2>4. CASE there
    <3>1. next = [batch |-> <<>>, rows |-> Append(s.rows, more)]
      BY <1>4, <2>1, <2>4
    <3>2. RowsOf(Append(s.rows, more), n, q + 1, U)
      BY <1>1, <1>2, <1>3, <1>6, <2>2, <2>4, RowsGrow
    <3>3. Append(s.rows, more) \in Seq(Seq(Nat))
      BY <3>2 DEF RowsOf
    <3>4. next.batch = <<>> /\ next.rows = Append(s.rows, more) /\ next \in Joining
      BY <2>3, <3>1, <3>3 DEF Joining
    <3> QED
      BY <2>2, <2>3, <3>2, <3>4 DEF Here, next
  <2>5. CASE ~there
    <3>1. next = [batch |-> <<>>, rows |-> s.rows]
      BY <1>3, <1>4, <2>1, <2>5
    <3>2. RowsOf(s.rows, n, q + 1, U)
      BY <1>1, <1>3, <2>2, <2>5, RowsGrow
    <3>3. next.batch = <<>> /\ next.rows = s.rows /\ next \in Joining
      BY <1>3, <2>3, <3>1 DEF Joining
    <3> QED
      BY <2>2, <2>3, <3>2, <3>3 DEF Here, next
  <2> QED
    BY <2>4, <2>5
<1> QED
  BY <1>1, <1>5, <1>6

-----------------------------------------------------------------------------
(* board_range_report: the batches                                         *)

\* One scan after the other: the rows are the batches that are usable.
LEMMA BatchesAre ==
    ASSUME NEW scans, Len(scans) \in Nat, NEW n \in Nat \ {0}, NEW mode, NEW track, NEW gap, NEW U,
           \A b \in 1..Len(scans) \div n :
                PosesThere(scans, BlockOf(n, b), mode, track, gap) <=> b \in U
    PROVE  RowsOf(Batches(scans, n, mode, track, gap), n, Len(scans) \div n, U)
<1> DEFINE last == Len(scans)
           there(batch) == PosesThere(scans, batch, mode, track, gap)
           start == [batch |-> <<>>, rows |-> <<>>]
           Looped(f) == [i \in 0..last |->
                LET was == f[i - 1]
                IN  IF i = 0 THEN start ELSE Joined(was, i, n, there(Append(was.batch, i)))]
           G == [is \in (1..last) \X Joining |->
                    Joined(is[2], is[1], n, there(Append(is[2].batch, is[1])))]
           F == CHOOSE f : f = Looped(f)
<1>1. Batches(scans, n, mode, track, gap) = F[last].rows
  BY DEF Batches
<1>2. start \in Joining
  BY DEF Joining
<1>3. ASSUME NEW s \in Joining, NEW i \in 1..last, NEW t PROVE Joined(s, i, n, t) \in Joining
  <2>1. s.batch \in Seq(Nat) /\ s.rows \in Seq(Seq(Nat)) /\ s = [batch |-> s.batch, rows |-> s.rows]
    BY DEF Joining
  <2> DEFINE more == Append(s.batch, i)
  <2>2. more \in Seq(Nat)
    BY <2>1
  <2>3. Joined(s, i, n, t) = IF Len(more) < n THEN [s EXCEPT !.batch = more]
             ELSE IF t THEN [batch |-> <<>>, rows |-> Append(s.rows, more)]
             ELSE [s EXCEPT !.batch = <<>>]
    BY DEF Joined
  <2> DEFINE X == Seq(Nat)
  <2>4. Append(s.rows, more) \in Seq(X)
    <3> HIDE DEF more, X
    <3> QED
      BY <2>1, <2>2 DEF X
  <2>5. <<>> \in Seq(Nat)
    OBVIOUS
  <2> HIDE DEF more
  <2>6. /\ [batch |-> more, rows |-> s.rows] \in Joining
        /\ [batch |-> <<>>, rows |-> s.rows] \in Joining
        /\ [batch |-> <<>>, rows |-> Append(s.rows, more)] \in Joining
    BY <2>1, <2>2, <2>4, <2>5 DEF Joining
  <2> HIDE DEF X
  <2>7. /\ [s EXCEPT !.batch = more] = [batch |-> more, rows |-> s.rows]
        /\ [s EXCEPT !.batch = <<>>] = [batch |-> <<>>, rows |-> s.rows]
    BY <2>1
  <2> QED
    BY <2>3, <2>6, <2>7
<1>4. PICK f \in [0..last -> Joining] : Iterated(f, last, start, G)
  <2>1. G \in [(1..last) \X Joining -> Joining]
    <3> HIDE DEF there
    <3> QED
      BY <1>3
  <2> HIDE DEF G, start
  <2> QED
    BY <1>2, <2>1, IterationExists, Zenon
<1>5. f = Looped(f)
  <2>1. ASSUME NEW i \in 1..last PROVE f[i] = Joined(f[i - 1], i, n, there(Append(f[i - 1].batch, i)))
    <3> HIDE DEF there
    <3>1. f[i - 1] \in Joining
      OBVIOUS
    <3>2. <<i, f[i - 1]>> \in (1..last) \X Joining
      BY <3>1
    <3>3. f[i] = G[<<i, f[i - 1]>>]
      <4> HIDE DEF G, start
      <4> QED
        BY <1>4 DEF Iterated
    <3>4. G[<<i, f[i - 1]>>] = Joined(f[i - 1], i, n, there(Append(f[i - 1].batch, i)))
      BY <3>2
    <3> QED
      BY <3>3, <3>4, Zenon
  <2>2. f[0] = start
    <3> HIDE DEF G, start
    <3> QED
      BY <1>4 DEF Iterated
  <2> HIDE DEF start, there
  <2>3. f = [i \in 0..last |-> f[i]]
    OBVIOUS
  <2>4. ASSUME NEW i \in 0..last
        PROVE  f[i] = LET was == f[i - 1]
                      IN  IF i = 0 THEN start ELSE Joined(was, i, n, there(Append(was.batch, i)))
    BY <2>1, <2>2
  <2> QED
    BY <2>3, <2>4, Zenon
<1>6. F = Looped(F)
  <2> HIDE DEF Looped
  <2> QED
    BY <1>5
<1> HIDE DEF F
<1>7. F[0] = start
  <2>1. 0 \in 0..last
    OBVIOUS
  <2> HIDE DEF start, there
  <2>2. Looped(F)[0] = LET was == F[0 - 1]
                       IN  IF 0 = 0 THEN start ELSE Joined(was, 0, n, there(Append(was.batch, 0)))
    BY <2>1, Zenon
  <2> QED
    BY <1>6, <2>2, Zenon
<1>8. ASSUME NEW i \in 1..last PROVE F[i] = Joined(F[i - 1], i, n, there(Append(F[i - 1].batch, i)))
  <2>1. i # 0 /\ i \in 0..last
    OBVIOUS
  <2> HIDE DEF start, there
  <2>2. Looped(F)[i] = LET was == F[i - 1]
                       IN  IF i = 0 THEN start ELSE Joined(was, i, n, there(Append(was.batch, i)))
    BY <2>1, Zenon
  <2> QED
    BY <1>6, <2>1, <2>2, Zenon
<1> HIDE DEF Looped
<1> DEFINE T == {m \in Nat : m <= last => Here(F[m], n, m, U)}
<1>9. 0 \in T
  <2>1. Begun(n, 0) = <<>> /\ 0 \div n = 0
    <3>1. 0 \div n = 0 /\ 0 % n = 0
      <4>1. 0 = n * 0 + 0 /\ 0 \in 0..n - 1
        OBVIOUS
      <4> QED
        BY <4>1, DivIs
    <3>2. Begun(n, 0) = [k \in 1..0 |-> n * (0 \div n) + k]
      BY <3>1 DEF Begun
    <3>3. [k \in 1..0 |-> n * (0 \div n) + k] = <<>>
      OBVIOUS
    <3> QED
      BY <3>1, <3>2, <3>3
  <2>2. RowsOf(<<>>, n, 0, U)
    <3>1. Among(U, 0) = {}
      BY DEF Among
    <3>2. Range(<<>>) = {} /\ Len(<<>>) = 0 /\ <<>> \in Seq(Seq(Nat))
      BY DEF Range
    <3>3. Cardinality({}) = 0
      BY FS_EmptySet
    <3> QED
      BY <3>1, <3>2, <3>3 DEF RowsOf
  <2>3. start.batch = <<>> /\ start.rows = <<>>
    OBVIOUS
  <2> HIDE DEF start
  <2>4. Here(F[0], n, 0, U)
    BY <1>2, <1>7, <2>1, <2>2, <2>3 DEF Here
  <2> QED
    BY <2>4
<1>10. ASSUME NEW m \in 0..last - 1, m \in T PROVE m + 1 \in T
  <2> DEFINE t == there(Append(F[m].batch, m + 1))
  <2>1. m \in Nat /\ m + 1 \in 1..last /\ m + 1 \in Nat /\ (m + 1) - 1 = m /\ Here(F[m], n, m, U)
    BY <1>10
  <2>2. F[m + 1] = Joined(F[m], m + 1, n, t)
    <3> HIDE DEF there
    <3> QED
      BY <1>8, <2>1
  <2>3. (m % n) + 1 = n => (t <=> (m \div n) + 1 \in U)
    <3> SUFFICES ASSUME (m % n) + 1 = n PROVE t <=> (m \div n) + 1 \in U
      OBVIOUS
    <3>1. Append(F[m].batch, m + 1) = BlockOf(n, (m \div n) + 1)
      BY <2>1, BatchGrows DEF Here
    <3>2. (m + 1) \div n = (m \div n) + 1 /\ m \div n \in Nat
      BY <2>1, DivNext
    <3>3. (m + 1) \div n <= last \div n
      <4>1. m + 1 \in Int /\ last \in Int /\ m + 1 <= last
        BY <2>1
      <4> HIDE DEF last
      <4> QED
        BY <4>1, DivUp, Zenon
    <3>4. last \div n \in Int
      BY DivFacts
    <3> DEFINE b == (m \div n) + 1
               c == last \div n
    <3>5. b \in 1..c
      <4>1. b \in Nat /\ b >= 1 /\ b <= c /\ c \in Int
        BY <3>2, <3>3, <3>4
      <4> HIDE DEF b, c
      <4> QED
        BY <4>1
    <3> QED
      BY <3>1, <3>5
  <2> DEFINE u == IF t THEN TRUE ELSE FALSE
  <2>4. u \in BOOLEAN /\ ((m % n) + 1 = n => (u <=> (m \div n) + 1 \in U))
    <3> HIDE DEF t
    <3> QED
      BY <2>3
  <2>5. F[m + 1] = Joined(F[m], m + 1, n, u)
    <3> HIDE DEF t
    <3> QED
      BY <2>2 DEF Joined
  <2> HIDE DEF u, t
  <2>6. Here(Joined(F[m], m + 1, n, u), n, m + 1, U)
    BY <2>1, <2>4, ScanJoins
  <2> QED
    BY <2>1, <2>5, <2>6
<1>11. last \in T
  <2> HIDE DEF T, last
  <2> QED
    BY <1>9, <1>10, UpTo DEF last
<1>12. Here(F[last], n, last, U)
  BY <1>11
<1> QED
  BY <1>1, <1>12 DEF Here

-----------------------------------------------------------------------------
(* board_range_report: the batches that are usable                         *)

\* A sequence that is given element by element.
LEMMA ByElement ==
    ASSUME NEW n \in Nat, NEW s, DOMAIN s = 1..n, s = [k \in 1..n |-> s[k]]
    PROVE  s \in Seq(Range(s)) /\ Len(s) = n
<1> DEFINE R == Range(s)
<1>1. \A k \in 1..n : s[k] \in R
  BY DEF Range
<1> HIDE DEF R
<1>2. s \in [1..n -> R]
  BY <1>1
<1>3. s \in Seq(R) /\ Len(s) = n
  BY <1>2
<1> QED
  BY <1>3 DEF R

\* The scans of a bag, and the times that they count from.
Bag(bag, times) ==
    /\ bag.poses \in Seq(Int) /\ times \in Seq(Int)
    /\ DOMAIN bag.scans = 1..Len(times) /\ Len(bag.scans) = Len(times)
    /\ \A i \in 1..Len(times) : TimeOf(bag.scans[i]) = times[i]

\* A whole batch has scans of the bag.
LEMMA BlockWithin ==
    ASSUME NEW n \in Nat \ {0}, NEW last \in Nat, NEW b \in 1..last \div n, NEW i \in 1..n
    PROVE  BlockOf(n, b)[i] \in 1..last /\ BlockOf(n, b) \in Seq(1..last) /\ Len(BlockOf(n, b)) = n
<1> DEFINE q == last \div n
<1>1. q \in Int /\ n * q <= last
  BY DivFacts
<1>2. \A j \in 1..n : (b - 1) * n + j \in 1..last
  <2> HIDE DEF q
  <2>1. b \in 1..q
    BY DEF q
  <2>2. b * n <= q * n /\ (b - 1) * n >= 0 /\ (b - 1) * n = b * n - n /\ b * n \in Int /\ q * n = n * q
    BY <1>1, <2>1
  <2> DEFINE c == (b - 1) * n
             d == b * n
  <2>3. c \in Int /\ d \in Int /\ c = d - n /\ c >= 0 /\ d <= last
    BY <1>1, <2>1, <2>2
  <2> HIDE DEF c, d
  <2>4. \A j \in 1..n : c + j \in 1..last
    BY <2>3
  <2> QED
    BY <2>4 DEF c
<1>3. BlockOf(n, b) \in [1..n -> 1..last]
  BY <1>2 DEF BlockOf
<1> DEFINE x == BlockOf(n, b)
<1> HIDE DEF x
<1>4. x \in [1..n -> 1..last]
  BY <1>3 DEF x
<1>5. x[i] \in 1..last /\ x \in Seq(1..last) /\ Len(x) = n
  BY <1>4
<1> QED
  BY <1>5 DEF x

\* The batches whose poses are known.
UsableOf(bag, times, n, mode, gap) ==
    {b \in 1..Len(times) \div n :
        /\ Known(bag.poses, gap, times[BlockOf(n, b)[n]])
        /\ mode = "deskew" => \A i \in 1..n : Known(bag.poses, gap, times[BlockOf(n, b)[i]])}

\* run() makes a row of a batch exactly if it is one of them.
LEMMA UsableIs ==
    ASSUME NEW bag, NEW times, Bag(bag, times), NEW n \in Nat \ {0}, NEW mode, NEW gap \in Int,
           NEW b \in 1..Len(times) \div n
    PROVE  PosesThere(IterateScans(bag.scans, 2), BlockOf(n, b), mode, LoadPoses(bag.poses).track, gap)
                <=> b \in UsableOf(bag, times, n, mode, gap)
<1> DEFINE scans == IterateScans(bag.scans, 2)
           track == LoadPoses(bag.poses).track
           x == BlockOf(n, b)
           last == Len(times)
<1>1. last \in Nat /\ bag.poses \in Seq(Int) /\ \A i \in 1..last : times[i] \in Int
  BY DEF Bag
<1>2. \A i \in 1..last : scans[i].at = times[i]
  BY DEF IterateScans, Bag
<1>3. \A i \in 1..n : x[i] \in 1..last
  BY <1>1, BlockWithin
<1>4. Len(x) = n /\ DOMAIN x = 1..n /\ n \in 1..n
  BY <1>1, BlockWithin DEF BlockOf
<1>5. \A i \in 1..last : PoseAt(track, gap, times[i]) <=> Known(bag.poses, gap, times[i])
  BY <1>1, PoseAtIs
<1> HIDE DEF scans, track, x, last
<1>6. PosesThere(scans, x, mode, track, gap) <=>
        /\ PoseAt(track, gap, times[x[n]])
        /\ mode = "deskew" => \A i \in 1..n : PoseAt(track, gap, times[x[i]])
  BY <1>2, <1>3, <1>4 DEF PosesThere
<1>7. b \in UsableOf(bag, times, n, mode, gap) <=>
        /\ Known(bag.poses, gap, times[x[n]])
        /\ mode = "deskew" => \A i \in 1..n : Known(bag.poses, gap, times[x[i]])
  BY DEF UsableOf, x
<1>8. \A i \in 1..n : PoseAt(track, gap, times[x[i]]) <=> Known(bag.poses, gap, times[x[i]])
  BY <1>3, <1>5
<1> HIDE DEF x
<1>9. PosesThere(scans, x, mode, track, gap) <=> b \in UsableOf(bag, times, n, mode, gap)
  BY <1>4, <1>6, <1>7, <1>8
<1> QED
  BY <1>9 DEF scans, track, x

-----------------------------------------------------------------------------
(* board_range_report: the rows                                            *)

\* The parameters and the bins of the jobs.
Dim == [intensity_threshold |-> 2, cluster_min_points |-> 2]
Edges == <<0, 2, 4, 6>>

\* What the rows of a report are: U are the batches that could be made.
RowsFit(rows, U, scans, n, views) ==
    /\ Len(rows) \in Nat /\ DOMAIN rows = 1..Len(rows) /\ Len(rows) = Cardinality(U)
    /\ {row.scans : row \in Range(rows)} = {BlockOf(n, b) : b \in U}
    /\ \A row \in Range(rows) :
        /\ row.range = views[row.scans[Len(row.scans)]].range
        /\ row.outcome = Classify(views[row.scans[Len(row.scans)]], RetroNear(scans, row.scans), 2)

\* run(): a row for each batch that became one.
LEMMA RowsAre ==
    ASSUME NEW bag, NEW times, Bag(bag, times), NEW n \in Nat \ {0}, NEW mode, NEW gap \in Int,
           NEW views
    PROVE  RowsFit(Rows(bag, n, mode, gap, Dim, views), UsableOf(bag, times, n, mode, gap),
                   IterateScans(bag.scans, 2), n, views)
<1> DEFINE last == Len(times)
           U == UsableOf(bag, times, n, mode, gap)
           scans == IterateScans(bag.scans, 2)
           track == LoadPoses(bag.poses).track
           batches == Batches(scans, n, mode, track, gap)
           lst(x) == x[Len(x)]
           row(x) == [scans |-> x, retro_near |-> RetroNear(scans, x), range |-> views[lst(x)].range,
                      outcome |-> Classify(views[lst(x)], RetroNear(scans, x), 2)]
           rows == Rows(bag, n, mode, gap, Dim, views)
<1>1. last \in Nat /\ bag.poses \in Seq(Int)
  BY DEF Bag
<1>2. Len(scans) = last
  <2>1. scans = [i \in 1..last |-> [at |-> TimeOf(bag.scans[i]), points |-> CloudArrays(bag.scans[i], 2)]]
    BY DEF IterateScans, Bag
  <2> HIDE DEF scans, last
  <2>2. DOMAIN scans = 1..last /\ scans = [i \in 1..last |-> scans[i]]
    BY <2>1
  <2> QED
    BY <1>1, <2>2, ByElement
<1>3. \A b \in 1..last \div n : PosesThere(scans, BlockOf(n, b), mode, track, gap) <=> b \in U
  BY UsableIs
<1>4. RowsOf(batches, n, last \div n, U)
  <2> HIDE DEF U, scans, track, last
  <2> QED
    BY <1>1, <1>2, <1>3, BatchesAre
<1>5. Among(U, last \div n) = U
  BY DEF Among, UsableOf
<1>6. batches \in Seq(Seq(Nat)) /\ Range(batches) = {BlockOf(n, b) : b \in U} /\ Len(batches) = Cardinality(U)
  <2> HIDE DEF U, batches, last
  <2> QED
    BY <1>4, <1>5 DEF RowsOf
<1>7. rows = IF bag.poses = <<>> THEN <<>> ELSE [r \in DOMAIN batches |-> row(batches[r])]
  <2>1. Dim.intensity_threshold = 2 /\ Dim.cluster_min_points = 2
    BY DEF Dim
  <2>2. LoadPoses(bag.poses).refused = (bag.poses = <<>>)
    BY DEF LoadPoses
  <2> QED
    BY <2>1, <2>2 DEF Rows
<1>8. CASE bag.poses = <<>>
  <2>1. U = {}
    BY <1>8 DEF UsableOf, Known, Range
  <2>2. Cardinality({}) = 0
    BY FS_EmptySet
  <2>3. rows = <<>>
    BY <1>7, <1>8
  <2>4. Range(<<>>) = {} /\ Len(<<>>) = 0 /\ DOMAIN <<>> = 1..0
    BY DEF Range
  <2> HIDE DEF rows, U, scans
  <2> QED
    BY <2>1, <2>2, <2>3, <2>4 DEF rows, U, scans, RowsFit
<1>9. CASE bag.poses # <<>>
  <2> HIDE DEF batches, U, scans
  <2>1. rows = [r \in DOMAIN batches |-> row(batches[r])]
    BY <1>7, <1>9
  <2> HIDE DEF rows, row
  <2>2. Len(batches) \in Nat /\ DOMAIN batches = 1..Len(batches)
    BY <1>6
  <2>3. Len(rows) = Len(batches) /\ DOMAIN rows = 1..Len(batches)
    <3>1. DOMAIN rows = 1..Len(batches) /\ rows = [r \in 1..Len(batches) |-> rows[r]]
      BY <2>1, <2>2
    <3> DEFINE k == Len(batches)
    <3> HIDE DEF k
    <3>2. k \in Nat /\ DOMAIN rows = 1..k /\ rows = [r \in 1..k |-> rows[r]]
      BY <2>2, <3>1 DEF k
    <3>3. Len(rows) = k
      BY <3>2, ByElement
    <3> QED
      BY <3>1, <3>3 DEF k
  <2>4. Range(rows) = {row(x) : x \in Range(batches)}
    BY <2>1, <2>2 DEF Range
  <2>5. \A x : /\ row(x).scans = x /\ row(x).range = views[x[Len(x)]].range
               /\ row(x).outcome = Classify(views[x[Len(x)]], RetroNear(scans, x), 2)
    BY DEF row
  <2>6. {w.scans : w \in Range(rows)} = Range(batches)
    <3>1. ASSUME NEW w \in Range(rows) PROVE w.scans \in Range(batches)
      <4>1. PICK x \in Range(batches) : w = row(x)
        BY <2>4
      <4> QED
        BY <2>5, <4>1
    <3>2. ASSUME NEW x \in Range(batches) PROVE \E w \in Range(rows) : w.scans = x
      <4>1. row(x) \in Range(rows)
        BY <2>4
      <4> QED
        BY <2>5, <4>1
    <3> QED
      BY <3>1, <3>2
  <2>7. \A w \in Range(rows) :
            /\ w.range = views[w.scans[Len(w.scans)]].range
            /\ w.outcome = Classify(views[w.scans[Len(w.scans)]], RetroNear(scans, w.scans), 2)
    <3> TAKE w \in Range(rows)
    <3>1. PICK x \in Range(batches) : w = row(x)
      BY <2>4
    <3>2. w.scans = x /\ w.range = views[x[Len(x)]].range
          /\ w.outcome = Classify(views[x[Len(x)]], RetroNear(scans, x), 2)
      BY <2>5, <3>1, Zenon
    <3> QED
      BY <3>2
  <2> QED
    BY <1>6, <2>2, <2>3, <2>6, <2>7 DEF rows, U, scans, RowsFit
<1> QED
  BY <1>8, <1>9

-----------------------------------------------------------------------------
(* board_range_report: the report                                          *)

\* table: each row that is near enough is in one of the bins.
LEMMA BinsHold ==
    ASSUME NEW rows, Len(rows) \in Nat, DOMAIN rows = 1..Len(rows),
           \A r \in DOMAIN rows : rows[r].range \in Nat
    PROVE  LET table == Table(rows, Edges)
           IN  table[1].batches + table[2].batches + table[3].batches
                    = Cardinality({r \in DOMAIN rows : rows[r].range < 6})
<1> DEFINE bin(low, high) == {r \in DOMAIN rows : low <= rows[r].range /\ rows[r].range < high}
           A == bin(0, 2)
           B == bin(2, 4)
           C == bin(4, 6)
           near == {r \in DOMAIN rows : rows[r].range < 6}
           table == Table(rows, Edges)
<1>1. table[1].batches = Cardinality(A) /\ table[2].batches = Cardinality(B) /\ table[3].batches = Cardinality(C)
  <2>1. Len(Edges) = 4 /\ Edges[1] = 0 /\ Edges[2] = 2 /\ Edges[3] = 4 /\ Edges[4] = 6
    BY DEF Edges
  <2>2. \A i \in 1..3 : table[i].batches = Cardinality(bin(Edges[i], Edges[i + 1]))
    <3> HIDE DEF Edges
    <3> QED
      BY <2>1 DEF Table
  <2> HIDE DEF table, bin
  <2>3. /\ table[1].batches = Cardinality(bin(Edges[1], Edges[2]))
        /\ table[2].batches = Cardinality(bin(Edges[2], Edges[3]))
        /\ table[3].batches = Cardinality(bin(Edges[3], Edges[4]))
    BY <2>2
  <2> QED
    BY <2>1, <2>3
<1>2. IsFiniteSet(A) /\ IsFiniteSet(B) /\ IsFiniteSet(C)
  <2>1. IsFiniteSet(DOMAIN rows)
    BY FS_Interval
  <2>2. A \subseteq DOMAIN rows /\ B \subseteq DOMAIN rows /\ C \subseteq DOMAIN rows
    OBVIOUS
  <2> HIDE DEF A, B, C
  <2> QED
    BY <2>1, <2>2, FS_Subset
<1>3. A \cap B = {} /\ (A \cup B) \cap C = {} /\ near = (A \cup B) \cup C
  OBVIOUS
<1> HIDE DEF A, B, C, near, table
<1>4. Cardinality({}) = 0
  BY FS_EmptySet
<1>5. IsFiniteSet(A \cup B) /\ Cardinality(A \cup B) = Cardinality(A) + Cardinality(B) - Cardinality(A \cap B)
  BY <1>2, FS_Union
<1>6. Cardinality((A \cup B) \cup C) = Cardinality(A \cup B) + Cardinality(C) - Cardinality((A \cup B) \cap C)
  BY <1>2, <1>5, FS_Union
<1>7. Cardinality(A) \in Nat /\ Cardinality(B) \in Nat /\ Cardinality(C) \in Nat
  BY <1>2, FS_CardinalityType
<1>8. Cardinality(A) + Cardinality(B) + Cardinality(C) = Cardinality(near)
  <2>1. Cardinality(A \cap B) = 0 /\ Cardinality((A \cup B) \cap C) = 0 /\ Cardinality(near) = Cardinality((A \cup B) \cup C)
    BY <1>3, <1>4
  <2> DEFINE a == Cardinality(A)
             b == Cardinality(B)
             c == Cardinality(C)
             ab == Cardinality(A \cup B)
             z == Cardinality(near)
  <2>2. ab = a + b - 0
    BY <1>5, <2>1
  <2>3. z = ab + c - 0
    BY <1>6, <2>1
  <2>4. a \in Nat /\ b \in Nat /\ c \in Nat
    BY <1>7
  <2>5. SUFFICES a + b + c = z
    OBVIOUS
  <2> HIDE DEF a, b, c, ab, z
  <2> QED
    BY <2>2, <2>3, <2>4
<1> QED
  BY <1>1, <1>8 DEF near, table

\* The points that a miss is judged by are the bag's that the detector can see.
LEMMA NearIsSeen ==
    ASSUME NEW bag, NEW row, \A i \in Range(row.scans) : i \in DOMAIN bag.scans
    PROVE  RetroNear(IterateScans(bag.scans, 2), row.scans) = Cardinality(Seen(bag, row))
<1> DEFINE I == Range(row.scans)
           scans == IterateScans(bag.scans, 2)
           A == {ip \in UNION {{i} \X scans[i].points : i \in I} : ip[2].near}
           B == {ip \in UNION {{i} \X bag.scans[i].points : i \in I} :
                    ip[2].near /\ ip[2].finite /\ ip[2].intensity >= 2}
<1>1. \A i \in I : scans[i].points = {p \in bag.scans[i].points : p.intensity >= 2 /\ p.finite}
  BY DEF IterateScans, CloudArrays
<1> HIDE DEF I, scans
<1>2. ASSUME NEW x \in A PROVE x \in B
  <2>1. PICK i \in I : x \in {i} \X scans[i].points
    OBVIOUS
  <2>2. x = <<i, x[2]>> /\ x[2] \in scans[i].points /\ x[2].near
    BY <2>1
  <2>3. x[2] \in bag.scans[i].points /\ x[2].intensity >= 2 /\ x[2].finite
    BY <1>1, <2>2
  <2>4. x \in {i} \X bag.scans[i].points
    BY <2>2, <2>3
  <2> QED
    BY <2>2, <2>3, <2>4
<1>3. ASSUME NEW x \in B PROVE x \in A
  <2>1. PICK i \in I : x \in {i} \X bag.scans[i].points
    OBVIOUS
  <2>2. x = <<i, x[2]>> /\ x[2] \in bag.scans[i].points /\ x[2].near /\ x[2].intensity >= 2 /\ x[2].finite
    BY <2>1
  <2>3. x[2] \in scans[i].points
    BY <1>1, <2>2
  <2>4. x \in {i} \X scans[i].points
    BY <2>2, <2>3
  <2> QED
    BY <2>2, <2>4
<1>4. A = B
  BY <1>2, <1>3
<1>5. RetroNear(scans, row.scans) = Cardinality(A) /\ Seen(bag, row) = B
  BY DEF RetroNear, Seen, I
<1> HIDE DEF A, B
<1> QED
  BY <1>4, <1>5 DEF scans

\* board_range_report: whatever the poses of a bag and whatever the times of its
\* scans, in whatever order, and whatever batches are asked for, every batch whose
\* poses are known is a row and no other, and every row is counted once.
THEOREM AnyBatchOnce ==
    ASSUME NEW bag, NEW times, Bag(bag, times), NEW n \in Nat \ {0}, NEW mode, NEW gap \in Int,
           NEW views, \A i \in 1..Len(times) : views[i].range \in Nat
    PROVE  LET rows == Rows(bag, n, mode, gap, Dim, views)
           IN  Once(bag, times, n, mode, gap, [rows |-> rows, table |-> Table(rows, Edges)])
<1> DEFINE last == Len(times)
           rows == Rows(bag, n, mode, gap, Dim, views)
           table == Table(rows, Edges)
           U == UsableOf(bag, times, n, mode, gap)
           scans == IterateScans(bag.scans, 2)
           found == [rows |-> rows, table |-> table]
<1>1. last \in Nat /\ DOMAIN bag.scans = 1..last
  BY DEF Bag
<1>2. /\ Len(rows) \in Nat /\ DOMAIN rows = 1..Len(rows) /\ Len(rows) = Cardinality(U)
      /\ {row.scans : row \in Range(rows)} = {BlockOf(n, b) : b \in U}
      /\ \A row \in Range(rows) :
            /\ row.range = views[row.scans[Len(row.scans)]].range
            /\ row.outcome = Classify(views[row.scans[Len(row.scans)]], RetroNear(scans, row.scans), 2)
  <2>1. RowsFit(rows, U, scans, n, views)
    BY RowsAre
  <2> HIDE DEF rows, U, scans
  <2> QED
    BY <2>1 DEF RowsFit
<1>3. Once(bag, times, n, mode, gap, found) =
        /\ {row.scans : row \in Range(rows)} = {BlockOf(n, b) : b \in U}
        /\ Len(rows) = Cardinality(U)
        /\ table[1].batches + table[2].batches + table[3].batches
                = Cardinality({r \in DOMAIN rows : rows[r].range < 6})
        /\ \A row \in Range(rows) :
                row.outcome = "few_points" => Cardinality(Seen(bag, row)) < 2
  <2>1. found.rows = rows /\ found.table = table
    OBVIOUS
  <2> HIDE DEF found, rows, table
  <2> QED
    BY <2>1, Zenon DEF Once, BlockOf, UsableOf
<1> HIDE DEF rows, table, U, scans
<1>4. ASSUME NEW row \in Range(rows)
      PROVE  /\ row.scans[Len(row.scans)] \in 1..last
             /\ \A i \in Range(row.scans) : i \in 1..last
  <2>1. PICK b \in U : row.scans = BlockOf(n, b)
    BY <1>2
  <2>2. b \in 1..last \div n
    BY <2>1 DEF U, UsableOf
  <2>3. /\ \A i \in 1..n : BlockOf(n, b)[i] \in 1..last
        /\ Len(BlockOf(n, b)) = n
        /\ DOMAIN BlockOf(n, b) = 1..n /\ n \in 1..n
    <3> HIDE DEF last
    <3>1. \A i \in 1..n : BlockOf(n, b)[i] \in 1..last /\ Len(BlockOf(n, b)) = n
      <4> TAKE i \in 1..n
      <4> QED
        BY <1>1, <2>2, BlockWithin
    <3>2. DOMAIN BlockOf(n, b) = 1..n
      BY DEF BlockOf
    <3>3. n \in 1..n
      OBVIOUS
    <3> QED
      BY <3>1, <3>2, <3>3
  <2> DEFINE x == BlockOf(n, b)
  <2> HIDE DEF x, last
  <2>4. x[Len(x)] \in 1..last /\ \A i \in Range(x) : i \in 1..last
    BY <2>3 DEF Range, x
  <2> QED
    BY <2>1, <2>4 DEF x
<1>5. \A r \in DOMAIN rows : rows[r].range \in Nat
  <2> TAKE r \in DOMAIN rows
  <2>1. rows[r] \in Range(rows)
    BY DEF Range
  <2>2. rows[r].range = views[rows[r].scans[Len(rows[r].scans)]].range
    BY <1>2, <2>1
  <2> QED
    BY <1>4, <2>1, <2>2
<1>6. table[1].batches + table[2].batches + table[3].batches
        = Cardinality({r \in DOMAIN rows : rows[r].range < 6})
  BY <1>2, <1>5, BinsHold DEF table
<1>7. ASSUME NEW row \in Range(rows), row.outcome = "few_points"
      PROVE  Cardinality(Seen(bag, row)) < 2
  <2>1. \A i \in Range(row.scans) : i \in DOMAIN bag.scans
    BY <1>1, <1>4
  <2>2. RetroNear(scans, row.scans) = Cardinality(Seen(bag, row))
    BY <2>1, NearIsSeen DEF scans
  <2>3. Classify(views[row.scans[Len(row.scans)]], Cardinality(Seen(bag, row)), 2) = "few_points"
    BY <1>2, <1>7, <2>2
  <2>4. ~(~(Cardinality(Seen(bag, row)) < 2))
    BY <2>3 DEF Classify
  <2> QED
    BY <2>4
<1>8. Once(bag, times, n, mode, gap, found)
  BY <1>2, <1>3, <1>6, <1>7
<1> QED
  BY <1>8 DEF rows, table

-----------------------------------------------------------------------------
(* board_range_report: the runs                                            *)

\* A sequence turned round.
LEMMA Turned == ASSUME NEW S, NEW s \in Seq(S) PROVE Reverse(s) \in Seq(S)
<1>1. \A i \in 1..Len(s) : s[(Len(s) - i) + 1] \in S
  <2> TAKE i \in 1..Len(s)
  <2>1. Len(s) \in Nat /\ (Len(s) - i) + 1 \in 1..Len(s)
    OBVIOUS
  <2> QED
    BY <2>1
<1>2. [i \in 1..Len(s) |-> s[(Len(s) - i) + 1]] \in Seq(S)
  BY <1>1
<1> QED
  BY <1>2 DEF Reverse

\* What a scans job asks for.
ScansJob == job.tool = "scans" =>
    /\ Bag(job.bag, job.times) /\ job.n \in Nat \ {0} /\ job.gap \in Int

\* A scan of the jobs is of its time, stamped or not.
LEMMA ScanTimes ==
    ASSUME NEW time \in Nat \ {0}, NEW stamped \in BOOLEAN
    PROVE  TimeOf(ScanAt(time, stamped)) = time
<1> DEFINE s == ScanAt(time, stamped)
<1>1. s.stamp = (IF stamped THEN time ELSE 0) /\ s.received = (IF stamped THEN time + 2 ELSE time)
  BY DEF ScanAt
<1> HIDE DEF s
<1>2. (IF s.stamp # 0 THEN s.stamp ELSE s.received) = time
  BY <1>1
<1> QED
  BY <1>2 DEF TimeOf, s

\* Every scans job asks for a bag.
LEMMA ScansJobs == JobScans => job.tool = "scans" /\ ScansJob
<1> DEFINE T == {<<1, 2, 3, 4, 5, 6, 7>>, <<1, 3, 3, 5, 2, 6>>}
           posesOf(track, sorted) == IF sorted THEN track ELSE Reverse(track)
           scansOf(times, stamped) == [i \in DOMAIN times |-> ScanAt(times[i], stamped \/ i % 2 = 0)]
           asked(times, n, mode, track, gap, stamped, sorted, clear) ==
                [tool |-> "scans", times |-> times, n |-> n, mode |-> mode, gap |-> gap, clear |-> clear,
                 bag |-> [poses |-> posesOf(track, sorted), scans |-> scansOf(times, stamped)]]
<1>1. SUFFICES ASSUME JobScans PROVE job.tool = "scans" /\ ScansJob
  OBVIOUS
<1>2. \E times \in T, n \in 1..3, mode \in {"raw", "deskew"} :
      \E track \in SomeTracks, gap \in {2, 4} :
      \E stamped, sorted, clear \in BOOLEAN : job = asked(times, n, mode, track, gap, stamped, sorted, clear)
  BY <1>1, Zenon DEF JobScans
<1> HIDE DEF T, asked
<1>3. PICK times \in T, n \in 1..3, mode \in {"raw", "deskew"} :
      \E track \in SomeTracks, gap \in {2, 4} :
      \E stamped, sorted, clear \in BOOLEAN : job = asked(times, n, mode, track, gap, stamped, sorted, clear)
  BY <1>2, Zenon
<1>4. PICK track \in SomeTracks, gap \in {2, 4} :
      \E stamped, sorted, clear \in BOOLEAN : job = asked(times, n, mode, track, gap, stamped, sorted, clear)
  BY <1>3, Zenon
<1>10. PICK stamped \in BOOLEAN, sorted \in BOOLEAN, clear \in BOOLEAN :
            job = asked(times, n, mode, track, gap, stamped, sorted, clear)
  BY <1>4, Zenon
<1> DEFINE poses == posesOf(track, sorted)
           scans == scansOf(times, stamped)
<1>5. times \in Seq(Nat \ {0})
  <2>1. <<1, 2, 3, 4, 5, 6, 7>> \in Seq(Nat \ {0}) /\ <<1, 3, 3, 5, 2, 6>> \in Seq(Nat \ {0})
    OBVIOUS
  <2> QED
    BY <2>1 DEF T
<1>6. poses \in Seq(Int)
  <2>1. track \in Seq({0, 2, 4, 6, 7})
    BY SomeSeqs DEF SomeTracks
  <2>2. track \in Seq(Int)
    BY <2>1
  <2> QED
    BY <2>2, Turned
<1> HIDE DEF poses
<1>7. DOMAIN times = 1..Len(times) /\ Len(times) \in Nat /\ times \in Seq(Int)
  BY <1>5
<1>8. DOMAIN scans = 1..Len(times) /\ Len(scans) = Len(times)
  <2> DEFINE k == Len(times)
  <2>1. k \in Nat /\ DOMAIN scans = 1..k /\ scans = [i \in 1..k |-> scans[i]]
    BY <1>7
  <2> HIDE DEF scans, k
  <2>2. Len(scans) = k
    BY <2>1, ByElement
  <2> QED
    BY <2>1, <2>2 DEF k
<1>9. \A i \in 1..Len(times) : TimeOf(scans[i]) = times[i]
  <2> TAKE i \in 1..Len(times)
  <2>1. times[i] \in Nat \ {0}
    BY <1>5
  <2>2. scans[i] = ScanAt(times[i], stamped \/ i % 2 = 0)
    BY <1>7
  <2>3. (stamped \/ i % 2 = 0) \in BOOLEAN
    OBVIOUS
  <2> DEFINE st == stamped \/ i % 2 = 0
  <2> HIDE DEF st, scans
  <2>4. TimeOf(ScanAt(times[i], st)) = times[i]
    BY <2>1, <2>3, ScanTimes DEF st
  <2> QED
    BY <2>2, <2>4 DEF st
<1>11. /\ job.tool = "scans" /\ job.times = times /\ job.n = n /\ job.gap = gap
       /\ job.bag.poses = poses /\ job.bag.scans = scans
  BY <1>10 DEF asked, poses
<1> HIDE DEF scans, poses
<1>12. Bag(job.bag, job.times)
  BY <1>6, <1>7, <1>8, <1>9, <1>11 DEF Bag
<1>13. job.n \in Nat \ {0} /\ job.gap \in Int
  BY <1>11
<1> QED
  BY <1>11, <1>12, <1>13 DEF ScansJob

\* board_range_report: every batch of the bags of the run is counted once.
THEOREM ScansInRun == Spec => []EveryBatchOnce
<1> DEFINE Inv == ScansJob /\ Ran("scans", ScansResult(job))
<1>1. Init => Inv
  BY JobsOfOthers, JobsProved, ScansJobs DEF Init, Ran, ScansJob
<1>2. Inv /\ [Next]_vars => Inv'
  BY JobStays, RunsOnce DEF ScansJob
<1>3. Inv => EveryBatchOnce
  <2> SUFFICES ASSUME Inv, Did("scans")
               PROVE  Once(job.bag, job.times, job.n, job.mode, job.gap, out)
    BY DEF EveryBatchOnce
  <2> DEFINE views == [i \in DOMAIN job.times |-> View(i, job.clear)]
             rows == Rows(job.bag, job.n, job.mode, job.gap, Dim, views)
  <2>1. out = [rows |-> rows, table |-> Table(rows, Edges)]
    BY DEF Did, Ran, ScansResult, Dim, Edges
  <2>2. Bag(job.bag, job.times) /\ job.n \in Nat \ {0} /\ job.gap \in Int
    BY DEF Did, ScansJob
  <2>3. \A i \in 1..Len(job.times) : views[i].range \in Nat
    <3> TAKE i \in 1..Len(job.times)
    <3>1. i \in DOMAIN job.times /\ i \in Nat
      BY <2>2 DEF Bag
    <3>2. views[i] = View(i, job.clear)
      BY <3>1
    <3> QED
      BY <3>1, <3>2 DEF View
  <2> HIDE DEF views
  <2>4. Once(job.bag, job.times, job.n, job.mode, job.gap, [rows |-> rows, table |-> Table(rows, Edges)])
    BY <2>2, <2>3, AnyBatchOnce
  <2> QED
    BY <2>1, <2>4
<1> QED
  BY <1>1, <1>2, <1>3, PTL DEF Spec

-----------------------------------------------------------------------------
(* aruco_bag_report: what is counted                                       *)

\* What belongs to each of the classes of a set is, added up, the set.
LEMMA ClassesAddUp ==
    ASSUME NEW S, IsFiniteSet(S), NEW f, NEW counts, DOMAIN counts = {f[x] : x \in S},
           \A b \in DOMAIN counts : counts[b] = Cardinality({x \in S : f[x] = b})
    PROVE  Total(counts) = Cardinality(S)
<1> DEFINE K == DOMAIN counts
           class(b) == {x \in S : f[x] = b}
           g == [b \in K |-> CHOOSE h : h \in Bijection(1..counts[b], class(b))]
           P == UNION {{b} \X (1..counts[b]) : b \in K}
           h == [p \in P |-> g[p[1]][p[2]]]
<1>1. ASSUME NEW b \in K PROVE counts[b] \in Nat /\ g[b] \in Bijection(1..counts[b], class(b))
  <2>1. IsFiniteSet(class(b))
    BY FS_Subset
  <2>2. counts[b] = Cardinality(class(b))
    OBVIOUS
  <2> HIDE DEF class
  <2>3. counts[b] \in Nat /\ ExistsBijection(1..counts[b], class(b))
    BY <2>1, <2>2, FS_CardinalityType
  <2> QED
    BY <2>3 DEF ExistsBijection
<1> HIDE DEF g
<1>2. ASSUME NEW b \in K
      PROVE  /\ \A i \in 1..counts[b] : g[b][i] \in S /\ f[g[b][i]] = b
             /\ \A i, j \in 1..counts[b] : g[b][i] = g[b][j] => i = j
             /\ \A x \in S : f[x] = b => \E i \in 1..counts[b] : g[b][i] = x
  <2>1. g[b] \in Bijection(1..counts[b], class(b))
    BY <1>1
  <2>2. /\ \A i \in 1..counts[b] : g[b][i] \in class(b)
        /\ \A i, j \in 1..counts[b] : g[b][i] = g[b][j] => i = j
        /\ \A x \in class(b) : \E i \in 1..counts[b] : g[b][i] = x
    <3> HIDE DEF class
    <3> QED
      BY <2>1 DEF Bijection, Injection, Surjection, IsInjective
  <2> QED
    BY <2>2
<1>3. ASSUME NEW p \in P
      PROVE  p[1] \in K /\ p[2] \in 1..counts[p[1]] /\ p = <<p[1], p[2]>>
  <2>1. PICK b \in K : p \in {b} \X (1..counts[b])
    OBVIOUS
  <2> QED
    BY <2>1
<1>4. ASSUME NEW b \in K, NEW i \in 1..counts[b] PROVE <<b, i>> \in P
  <2>1. <<b, i>> \in {b} \X (1..counts[b])
    OBVIOUS
  <2> QED
    BY <2>1
<1>5. Total(counts) = Cardinality(P)
  BY DEF Total
<1> HIDE DEF P, K
<1>6. \A p \in P : h[p] = g[p[1]][p[2]] /\ h[p] \in S /\ f[h[p]] = p[1]
  BY <1>2, <1>3
<1>7. ASSUME NEW p \in P, NEW q \in P, h[p] = h[q] PROVE p = q
  <2>1. p[1] = q[1]
    BY <1>6, <1>7
  <2>2. g[p[1]][p[2]] = g[p[1]][q[2]]
    BY <1>6, <1>7, <2>1
  <2>3. p[2] = q[2]
    BY <1>2, <1>3, <2>1, <2>2
  <2> QED
    BY <1>3, <2>1, <2>3
<1>8. ASSUME NEW x \in S PROVE \E p \in P : h[p] = x
  <2>1. f[x] \in K
    BY DEF K
  <2>2. PICK i \in 1..counts[f[x]] : g[f[x]][i] = x
    BY <1>2, <2>1
  <2>3. <<f[x], i>> \in P
    BY <1>4, <2>1
  <2>4. h[<<f[x], i>>] = x
    BY <1>6, <2>2, <2>3
  <2> QED
    BY <2>3, <2>4
<1>9. h \in [P -> S]
  BY <1>6
<1> HIDE DEF h
<1>10. h \in Injection(P, S) /\ h \in Surjection(P, S)
  BY <1>7, <1>8, <1>9 DEF Injection, Surjection, IsInjective
<1>11. Cardinality(P) = Cardinality(S)
  BY <1>10, FS_Injection
<1> QED
  BY <1>5, <1>11

-----------------------------------------------------------------------------
(* aruco_bag_report: the detections of a bag                               *)

\* What a camera may see, and a bag of it.
Sightings == [board : Int, facing : Int, range : Int, incidence : Int]
Messages == [at : Int, detections : Seq(Sightings)]

\* The detections of a bag.
LEMMA DetectionsAre ==
    ASSUME NEW bag \in Seq(Messages)
    PROVE  /\ IsFiniteSet(Detections(bag))
           /\ \A md \in Detections(bag) :
                /\ md[1] \in DOMAIN bag /\ md[2] \in DOMAIN bag[md[1]].detections /\ md = <<md[1], md[2]>>
                /\ DetectionAt(bag, md) \in Sightings /\ bag[md[1]].at \in Int
           /\ \A m \in DOMAIN bag : \A d \in DOMAIN bag[m].detections :
                <<m, d>> \in Detections(bag) /\ DetectionAt(bag, <<m, d>>) = bag[m].detections[d]
<1>1. \A m \in DOMAIN bag : bag[m].detections \in Seq(Sightings) /\ bag[m].at \in Int
  <2>1. \A m \in DOMAIN bag : bag[m] \in Messages
    OBVIOUS
  <2> QED
    BY <2>1 DEF Messages
<1> DEFINE D(m) == DOMAIN bag[m].detections
           W(m) == {m} \X D(m)
           Ws == {W(m) : m \in DOMAIN bag}
<1>2. IsFiniteSet(UNION Ws)
  <2>1. IsFiniteSet(DOMAIN bag)
    <3>1. DOMAIN bag = 1..Len(bag) /\ Len(bag) \in Nat
      OBVIOUS
    <3> QED
      BY <3>1, FS_Interval
  <2>2. \A m \in DOMAIN bag : IsFiniteSet(W(m))
    <3> TAKE m \in DOMAIN bag
    <3>1. DOMAIN bag[m].detections = 1..Len(bag[m].detections) /\ Len(bag[m].detections) \in Nat
      BY <1>1
    <3>2. IsFiniteSet(D(m))
      BY <3>1, FS_Interval
    <3>3. IsFiniteSet({m})
      BY FS_Singleton
    <3> HIDE DEF D
    <3> QED
      BY <3>2, <3>3, FS_Product
  <2> HIDE DEF W
  <2>3. IsFiniteSet(Ws)
    <3> DEFINE w == [m \in DOMAIN bag |-> W(m)]
    <3>1. w \in Surjection(DOMAIN bag, Ws)
      BY DEF Surjection
    <3> HIDE DEF w, Ws
    <3> QED
      BY <2>1, <3>1, FS_Surjection
  <2>4. \A T \in Ws : IsFiniteSet(T)
    BY <2>2
  <2> HIDE DEF Ws
  <2> QED
    BY <2>3, <2>4, FS_UNION
<1>3. Detections(bag) = UNION Ws
  BY DEF Detections
<1>4. ASSUME NEW md \in Detections(bag)
      PROVE  /\ md[1] \in DOMAIN bag /\ md[2] \in DOMAIN bag[md[1]].detections /\ md = <<md[1], md[2]>>
             /\ DetectionAt(bag, md) \in Sightings /\ bag[md[1]].at \in Int
  <2>1. PICK m \in DOMAIN bag : md \in {m} \X DOMAIN bag[m].detections
    BY DEF Detections
  <2>2. md[1] \in DOMAIN bag /\ md[2] \in DOMAIN bag[md[1]].detections /\ md = <<md[1], md[2]>>
    BY <2>1
  <2>3. bag[md[1]].detections \in Seq(Sightings)
    BY <1>1, <2>2
  <2>4. bag[md[1]].detections[md[2]] \in Sightings
    BY <2>2, <2>3
  <2> QED
    BY <1>1, <2>2, <2>4 DEF DetectionAt
<1>5. ASSUME NEW m \in DOMAIN bag, NEW d \in DOMAIN bag[m].detections
      PROVE  <<m, d>> \in Detections(bag) /\ DetectionAt(bag, <<m, d>>) = bag[m].detections[d]
  <2>1. <<m, d>> \in {m} \X DOMAIN bag[m].detections
    OBVIOUS
  <2> QED
    BY <2>1 DEF Detections, DetectionAt
<1> QED
  BY <1>2, <1>3, <1>4, <1>5

\* The image of a finite set.
LEMMA Images ==
    ASSUME NEW S, IsFiniteSet(S), NEW f, DOMAIN f = S
    PROVE  IsFiniteSet({f[x] : x \in S})
<1> DEFINE T == {f[x] : x \in S}
           g == [x \in S |-> f[x]]
<1>1. g \in Surjection(S, T)
  BY DEF Surjection
<1> HIDE DEF g, T
<1> QED
  BY <1>1, FS_Surjection DEF T

\* coverage: a window is usable exactly if two boards in it face apart.
LEMMA UsableFacesApart ==
    ASSUME NEW bag \in Seq(Messages), NEW window \in Nat \ {0}, NEW spread \in Nat \ {0},
           NEW k \in Windows(bag, window)
    PROVE  UsableWindow(bag, window, spread, k) <=> FacesApart(bag, window, spread, k)
<1> DEFINE spotted == SeenIn(bag, window, k)
           facing == [md \in spotted |-> DetectionAt(bag, md).facing]
           F == {facing[md] : md \in spotted}
<1>1. /\ IsFiniteSet(spotted) /\ spotted \subseteq Detections(bag) /\ spotted # {}
  BY DetectionsAre, FS_Subset DEF SeenIn, Windows
<1>2. \A md \in spotted : DetectionAt(bag, md).facing \in Int /\ facing[md] = DetectionAt(bag, md).facing
  <2>1. \A md \in spotted : DetectionAt(bag, md) \in Sightings
    BY <1>1, DetectionsAre
  <2> QED
    BY <2>1 DEF Sightings
<1>3. DetectedIn(bag, window, k) = {DetectionAt(bag, md) : md \in spotted}
  <2>1. ASSUME NEW d \in DetectedIn(bag, window, k)
        PROVE  \E md \in spotted : d = DetectionAt(bag, md)
    <3>1. PICK m \in DOMAIN bag : bag[m].at \div window = k /\ d \in Range(bag[m].detections)
      BY DEF DetectedIn
    <3>2. PICK i \in DOMAIN bag[m].detections : d = bag[m].detections[i]
      BY <3>1 DEF Range
    <3>3. <<m, i>> \in Detections(bag) /\ DetectionAt(bag, <<m, i>>) = d
      BY <3>2, DetectionsAre
    <3>4. <<m, i>> \in spotted
      BY <3>1, <3>3 DEF SeenIn, WindowOf
    <3> QED
      BY <3>3, <3>4
  <2>2. ASSUME NEW md \in spotted PROVE DetectionAt(bag, md) \in DetectedIn(bag, window, k)
    <3>1. md[1] \in DOMAIN bag /\ md[2] \in DOMAIN bag[md[1]].detections /\ bag[md[1]].at \div window = k
      BY <1>1, DetectionsAre DEF SeenIn, WindowOf
    <3>2. DetectionAt(bag, md) \in Range(bag[md[1]].detections)
      BY <3>1 DEF DetectionAt, Range
    <3> QED
      BY <3>1, <3>2 DEF DetectedIn
  <2> QED
    BY <2>1, <2>2
<1>4. UsableWindow(bag, window, spread, k) = (Cardinality(spotted) >= 2 /\ Max(F) - Min(F) >= spread)
  <2>1. {DetectionAt(bag, md).facing : md \in spotted} = F
    BY <1>2
  <2> QED
    BY <2>1 DEF UsableWindow, SpreadOf
<1>5. FacesApart(bag, window, spread, k) = \E x, y \in spotted : facing[x] - facing[y] >= spread
  <2>1. FacesApart(bag, window, spread, k) =
            \E d, e \in {DetectionAt(bag, md) : md \in spotted} : d.facing - e.facing >= spread
    BY <1>3 DEF FacesApart
  <2> QED
    BY <1>2, <2>1
<1> HIDE DEF spotted, facing
<1>6. F \in SUBSET Int /\ F # {} /\ IsFiniteSet(F)
  <2>1. DOMAIN facing = spotted
    BY DEF facing
  <2> QED
    BY <1>1, <1>2, <2>1, Images
<1> HIDE DEF F
<1>7. Max(F) \in F /\ Min(F) \in F /\ \A x \in F : Min(F) <= x /\ x <= Max(F)
  BY <1>6, HasMax, HasMin
<1>8. ASSUME NEW x \in spotted, NEW y \in spotted, facing[x] - facing[y] >= spread
      PROVE  Cardinality(spotted) >= 2 /\ Max(F) - Min(F) >= spread
  <2>1. x # y
    BY <1>2, <1>8
  <2>2. Cardinality(spotted) \in Nat /\ Cardinality(spotted) # 0 /\ Cardinality(spotted) # 1
    <3>1. Cardinality(spotted) \in Nat /\ Cardinality(spotted) # 0
      BY <1>1, FS_CardinalityType, FS_EmptySet
    <3>2. Cardinality(spotted) # 1
      BY <1>1, <2>1, FS_Singleton
    <3> QED
      BY <3>1, <3>2
  <2>3. facing[x] \in F /\ facing[y] \in F /\ facing[x] \in Int /\ facing[y] \in Int
    BY <1>2 DEF F
  <2>4. Max(F) \in Int /\ Min(F) \in Int
    BY <1>6, <1>7
  <2> QED
    BY <1>7, <1>8, <2>2, <2>3, <2>4
<1>9. ASSUME Max(F) - Min(F) >= spread PROVE \E x, y \in spotted : facing[x] - facing[y] >= spread
  <2>1. PICK x \in spotted : facing[x] = Max(F)
    BY <1>7 DEF F
  <2>2. PICK y \in spotted : facing[y] = Min(F)
    BY <1>7 DEF F
  <2> QED
    BY <1>9, <2>1, <2>2
<1> QED
  BY <1>4, <1>5, <1>8, <1>9

-----------------------------------------------------------------------------
(* aruco_bag_report: the windows in order                                  *)

\* The elements of a set of numbers, one after the other.
UpToKey(K, k) == {j \in K : j <= k}
Ranks(K, n, key) ==
    /\ key \in [1..n -> K]
    /\ \A i, j \in 1..n : i < j => key[i] < key[j]
    /\ \A k \in K : \E i \in 1..n : key[i] = k
    /\ \A i \in 1..n : key[i] = CHOOSE k \in K : Cardinality(UpToKey(K, k)) = i

\* The elements of a finite set of numbers can be lined up by their ranks.
LEMMA RanksAre ==
    ASSUME NEW K \in SUBSET Int, IsFiniteSet(K)
    PROVE  Cardinality(K) \in Nat /\ \E key : Ranks(K, Cardinality(K), key)
<1> DEFINE n == Cardinality(K)
           D == 1..n
           rank == [k \in K |-> Cardinality(UpToKey(K, k))]
           key == [i \in D |-> CHOOSE k \in K : rank[k] = i]
<1>1. n \in Nat /\ IsFiniteSet(D) /\ Cardinality(D) = n
  <2>1. n \in Nat
    BY FS_CardinalityType
  <2> HIDE DEF n
  <2> QED
    BY <2>1, FS_Interval
<1>2. ASSUME NEW k \in K
      PROVE  /\ IsFiniteSet(UpToKey(K, k)) /\ UpToKey(K, k) \subseteq K /\ k \in UpToKey(K, k)
             /\ rank[k] \in D /\ rank[k] = Cardinality(UpToKey(K, k))
  <2>1. UpToKey(K, k) \subseteq K /\ k \in UpToKey(K, k)
    BY DEF UpToKey
  <2>2. IsFiniteSet(UpToKey(K, k)) /\ Cardinality(UpToKey(K, k)) <= n
    BY <2>1, FS_Subset
  <2>3. Cardinality(UpToKey(K, k)) \in Nat /\ Cardinality(UpToKey(K, k)) # 0
    BY <2>1, <2>2, FS_CardinalityType, FS_EmptySet
  <2>4. rank[k] = Cardinality(UpToKey(K, k))
    OBVIOUS
  <2> HIDE DEF rank, n
  <2> QED
    BY <1>1, <2>1, <2>2, <2>3, <2>4
<1> HIDE DEF rank, n
<1>3. ASSUME NEW i \in K, NEW j \in K, i < j PROVE rank[i] < rank[j]
  <2> DEFINE lower == UpToKey(K, i)
             upper == UpToKey(K, j)
  <2>1. lower \subseteq upper \ {j}
    <3>1. \A k \in K : k \in Int
      OBVIOUS
    <3>2. \A k \in K : k <= i => k <= j /\ k # j
      BY <1>3, <3>1
    <3> QED
      BY <3>2 DEF UpToKey
  <2>2. IsFiniteSet(upper) /\ j \in upper
    BY <1>2
  <2> HIDE DEF upper, lower
  <2>3. IsFiniteSet(upper \ {j}) /\ Cardinality(upper \ {j}) = Cardinality(upper) - 1
    BY <2>2, FS_RemoveElement
  <2>4. Cardinality(lower) <= Cardinality(upper \ {j})
    BY <2>1, <2>3, FS_Subset
  <2>5. rank[i] = Cardinality(lower) /\ rank[j] = Cardinality(upper) /\ rank[i] \in Int /\ rank[j] \in Int
    BY <1>1, <1>2 DEF lower, upper
  <2> QED
    BY <2>3, <2>4, <2>5
<1>4. ASSUME NEW i \in K, NEW j \in K, rank[i] = rank[j] PROVE i = j
  <2> SUFFICES ASSUME i # j PROVE FALSE
    OBVIOUS
  <2>1. rank[i] < rank[j] \/ rank[j] < rank[i]
    BY <1>3
  <2> QED
    BY <1>1, <1>2, <1>4, <2>1
<1>5. ASSUME NEW i \in D PROVE \E k \in K : rank[k] = i
  <2> SUFFICES ASSUME \A k \in K : rank[k] # i PROVE FALSE
    OBVIOUS
  <2> DEFINE f == [k \in K |-> rank[k]]
  <2>1. f \in [K -> D \ {i}]
    BY <1>2
  <2>2. IsFiniteSet(D \ {i}) /\ Cardinality(D \ {i}) = n - 1
    <3> HIDE DEF D
    <3> QED
      BY <1>1, FS_RemoveElement
  <2>3. \A k, l \in K : f[k] = f[l] => k = l
    BY <1>4
  <2>4. Cardinality(D \ {i}) < Cardinality(K)
    BY <1>1, <2>2 DEF n
  <2> HIDE DEF f, D
  <2> DEFINE E == D \ {i}
  <2>5. \E k, l \in K : k # l /\ f[k] = f[l]
    <3>1. f \in [K -> E] /\ IsFiniteSet(E) /\ Cardinality(E) < Cardinality(K)
      BY <2>1, <2>2, <2>4
    <3> HIDE DEF E
    <3> QED
      BY <3>1, FS_PigeonHole
  <2> QED
    BY <2>3, <2>5
<1>6. ASSUME NEW i \in D PROVE key[i] \in K /\ rank[key[i]] = i
  BY <1>5
<1>7. \A i \in D : key[i] = CHOOSE k \in K : Cardinality(UpToKey(K, k)) = i
  <2> TAKE i \in D
  <2>1. \A k \in K : rank[k] = Cardinality(UpToKey(K, k))
    BY <1>2
  <2> QED
    BY <2>1
<1>8. key \in [D -> K]
  BY <1>6
<1> HIDE DEF key
<1>9. ASSUME NEW k \in K PROVE \E i \in D : key[i] = k
  <2>1. rank[k] \in D
    BY <1>2
  <2>2. key[rank[k]] \in K /\ rank[key[rank[k]]] = rank[k]
    BY <1>6, <2>1
  <2> QED
    BY <1>4, <2>1, <2>2
<1>10. ASSUME NEW i \in D, NEW j \in D, i < j PROVE key[i] < key[j]
  <2> SUFFICES ASSUME ~(key[i] < key[j]) PROVE FALSE
    OBVIOUS
  <2>1. key[i] \in K /\ key[j] \in K /\ rank[key[i]] = i /\ rank[key[j]] = j
    BY <1>6
  <2>2. key[j] = key[i] \/ key[j] < key[i]
    <3>1. key[i] \in Int /\ key[j] \in Int
      BY <2>1
    <3> QED
      BY <3>1
  <2>3. j = i \/ j < i
    BY <1>3, <2>1, <2>2
  <2> QED
    BY <1>1, <1>10, <2>3
<1>11. Ranks(K, n, key)
  BY <1>7, <1>8, <1>9, <1>10 DEF Ranks
<1> QED
  BY <1>1, <1>11 DEF n

\* The elements between two of them.
Hole(K, a, b) == {k \in K : a <= k /\ k <= b}

\* A hole is the elements from one place of the line to another.
IsSpan(K, key, p, q) ==
    /\ Hole(K, key[p], key[q]) = {key[i] : i \in p..q}
    /\ Cardinality(Hole(K, key[p], key[q])) = IF p > q THEN 0 ELSE q - p + 1

\* Every hole is such a span, and as long.
LEMMA HoleIs ==
    ASSUME NEW K \in SUBSET Int, NEW n \in Nat, NEW key, Ranks(K, n, key),
           NEW p \in 1..n, NEW q \in 1..n
    PROVE  IsSpan(K, key, p, q)
<1> DEFINE H == Hole(K, key[p], key[q])
           I == p..q
           h == [i \in I |-> key[i]]
<1>1. /\ \A i \in 1..n : key[i] \in K /\ key[i] \in Int
      /\ \A i, j \in 1..n : i < j => key[i] < key[j]
      /\ \A k \in K : \E i \in 1..n : key[i] = k
  BY DEF Ranks
<1>2. \A i, j \in 1..n : key[i] <= key[j] <=> i <= j
  <2> TAKE i, j \in 1..n
  <2>1. i < j \/ i = j \/ j < i
    OBVIOUS
  <2>2. key[i] \in Int /\ key[j] \in Int
    BY <1>1
  <2> QED
    BY <1>1, <2>1, <2>2
<1>3. I \subseteq 1..n
  OBVIOUS
<1>4. ASSUME NEW k \in H PROVE \E i \in I : key[i] = k
  <2>1. PICK i \in 1..n : key[i] = k
    BY <1>1 DEF Hole
  <2>2. key[p] <= key[i] /\ key[i] <= key[q]
    BY <2>1 DEF Hole
  <2>3. i \in I
    BY <1>2, <2>2
  <2> QED
    BY <2>1, <2>3
<1>5. ASSUME NEW i \in I PROVE key[i] \in H
  BY <1>1, <1>2, <1>3 DEF Hole
<1>6. H = {key[i] : i \in I}
  BY <1>4, <1>5
<1>7. IsFiniteSet(I) /\ Cardinality(I) = IF p > q THEN 0 ELSE q - p + 1
  BY FS_Interval
<1>8. \A i, j \in I : key[i] = key[j] => i = j
  BY <1>1, <1>2, <1>3
<1> HIDE DEF I, H
<1>9. h \in Bijection(I, H)
  BY <1>4, <1>5, <1>8 DEF Bijection, Injection, Surjection, IsInjective
<1> HIDE DEF h
<1>10. Cardinality(H) = Cardinality(I)
  BY <1>7, <1>9, FS_Bijection DEF ExistsBijection
<1> QED
  BY <1>6, <1>7, <1>10 DEF H, I, IsSpan

-----------------------------------------------------------------------------
(* aruco_bag_report: the holes                                             *)

\* The holes: stretches of elements none of which is in U.
Holes(K, U) == {ab \in K \X K : \A k \in Hole(K, ab[1], ab[2]) : k \notin U}
\* How long they are, none of them being one of no windows.
Lengths(K, U) == {0} \cup {Cardinality(Hole(K, ab[1], ab[2])) : ab \in Holes(K, U)}

\* What coverage counts while it goes from one window to the next.
Counting(c, n, key, U) ==
    /\ c \in [0..n -> Nat] /\ c[0] = 0
    /\ \A i \in 1..n : c[i] = IF key[i] \in U THEN 0 ELSE c[i - 1] + 1

\* At a window it has counted back to the last usable one.
LEMMA CountedBack ==
    ASSUME NEW K \in SUBSET Int, NEW n \in Nat, NEW key, Ranks(K, n, key), NEW U,
           NEW c, Counting(c, n, key, U), NEW q \in 1..n
    PROVE  /\ c[q] \in 0..q /\ \A j \in q - c[q] + 1..q : key[j] \notin U
           /\ c[q] = q \/ key[q - c[q]] \in U
<1> DEFINE Back(i) == /\ c[i] \in 0..i /\ \A j \in i - c[i] + 1..i : key[j] \notin U
                      /\ c[i] = i \/ key[i - c[i]] \in U
           T == {i \in 0..n : Back(i)}
<1>1. 0 \in T
  BY DEF Counting
<1>2. ASSUME NEW i \in 0..n - 1, i \in T PROVE i + 1 \in T
  <2>1. Back(i) /\ i + 1 \in 1..n /\ c[i] \in Nat /\ c[i + 1] \in Nat
    BY <1>2 DEF Counting
  <2>2. c[i + 1] = IF key[i + 1] \in U THEN 0 ELSE c[i] + 1
    <3>1. c[i + 1] = IF key[i + 1] \in U THEN 0 ELSE c[(i + 1) - 1] + 1
      BY <2>1 DEF Counting
    <3>2. (i + 1) - 1 = i
      OBVIOUS
    <3> QED
      BY <3>1, <3>2
  <2>3. CASE key[i + 1] \in U
    <3>1. c[i + 1] = 0 /\ (i + 1) - c[i + 1] = i + 1
      BY <2>2, <2>3
    <3>2. \A j \in (i + 1) - c[i + 1] + 1..i + 1 : FALSE
      BY <3>1
    <3> QED
      BY <2>1, <2>3, <3>1, <3>2
  <2>4. CASE key[i + 1] \notin U
    <3>1. c[i + 1] = c[i] + 1 /\ (i + 1) - c[i + 1] = i - c[i]
      BY <2>1, <2>2, <2>4
    <3>2. \A j \in (i + 1) - c[i + 1] + 1..i + 1 : j \in i - c[i] + 1..i \/ j = i + 1
      BY <2>1, <3>1
    <3>3. \A j \in (i + 1) - c[i + 1] + 1..i + 1 : key[j] \notin U
      BY <2>1, <2>4, <3>2
    <3>4. c[i + 1] \in 0..i + 1
      BY <2>1, <3>1
    <3>5. c[i + 1] = i + 1 \/ key[(i + 1) - c[i + 1]] \in U
      BY <2>1, <3>1
    <3> QED
      BY <2>1, <3>3, <3>4, <3>5
  <2> QED
    BY <2>3, <2>4
<1> HIDE DEF T
<1>3. n \in T /\ \A m \in 0..n : m \in T
  <2> SUFFICES ASSUME NEW m \in 0..n PROVE m \in T
    OBVIOUS
  <2>1. \A k \in 0..m - 1 : k \in T => k + 1 \in T
    BY <1>2
  <2> QED
    BY <1>1, <2>1, UpTo
<1>4. q \in T
  BY <1>3
<1> QED
  BY <1>4 DEF T

\* coverage: the longest count is the length of the longest hole.
LEMMA LongestIs ==
    ASSUME NEW K \in SUBSET Int, NEW n \in Nat, NEW key, Ranks(K, n, key), NEW U,
           NEW c, Counting(c, n, key, U)
    PROVE  Max(Range(c)) = Max(Lengths(K, U))
<1> DEFINE L == Lengths(K, U)
           R == Range(c)
<1>1. R \in SUBSET Int /\ R # {} /\ IsFiniteSet(R)
  <2>1. DOMAIN c = 0..n /\ \A i \in 0..n : c[i] \in Nat
    BY DEF Counting
  <2>2. IsFiniteSet(0..n)
    BY FS_Interval
  <2>3. R = {c[i] : i \in 0..n}
    BY <2>1 DEF Range
  <2>4. IsFiniteSet({c[i] : i \in 0..n})
    BY <2>1, <2>2, Images
  <2> QED
    BY <2>1, <2>3, <2>4
<1>2. Max(R) \in R /\ \A x \in R : x <= Max(R)
  <2> HIDE DEF R
  <2> QED
    BY <1>1, HasMax
<1>3. ASSUME NEW x \in R PROVE x \in L
  <2>1. PICK q \in 0..n : x = c[q]
    BY DEF Range, Counting
  <2>2. CASE x = 0
    BY <2>2 DEF Lengths
  <2>3. CASE x # 0
    <3>1. q # 0
      BY <2>1, <2>3 DEF Counting
    <3>2. q \in 1..n
      BY <3>1
    <3>3. c[q] \in 0..q /\ \A j \in q - c[q] + 1..q : key[j] \notin U
      BY <3>2, CountedBack
    <3> DEFINE p == q - c[q] + 1
    <3>4. p \in 1..n /\ p <= q /\ q - p + 1 = c[q]
      BY <2>1, <2>3, <3>2, <3>3
    <3>5. \A j \in p..q : key[j] \notin U
      BY <3>3
    <3> HIDE DEF p
    <3>6. /\ Hole(K, key[p], key[q]) = {key[i] : i \in p..q}
          /\ Cardinality(Hole(K, key[p], key[q])) = IF p > q THEN 0 ELSE q - p + 1
      <4>1. IsSpan(K, key, p, q)
        BY <3>2, <3>4, HoleIs
      <4> QED
        BY <4>1 DEF IsSpan
    <3>7. ~(p > q)
      BY <3>2, <3>4
    <3>8. key[p] \in K /\ key[q] \in K
      BY <3>2, <3>4 DEF Ranks
    <3>9. <<key[p], key[q]>> \in Holes(K, U)
      BY <3>5, <3>6, <3>8 DEF Holes
    <3>10. Cardinality(Hole(K, key[p], key[q])) = x
      BY <2>1, <3>4, <3>6, <3>7
    <3> QED
      BY <3>9, <3>10 DEF Lengths
  <2> QED
    BY <2>2, <2>3
<1>4. ASSUME NEW x \in L PROVE x \in Int /\ \E y \in R : x <= y
  <2>1. 0 \in R /\ DOMAIN c = 0..n
    BY DEF Range, Counting
  <2>2. CASE x = 0
    BY <2>1, <2>2
  <2>3. CASE x # 0
    <3>1. PICK ab \in Holes(K, U) : x = Cardinality(Hole(K, ab[1], ab[2]))
      BY <2>3 DEF Lengths
    <3>2. ab[1] \in K /\ ab[2] \in K /\ \A k \in Hole(K, ab[1], ab[2]) : k \notin U
      BY DEF Holes
    <3>3. PICK p \in 1..n, q \in 1..n : key[p] = ab[1] /\ key[q] = ab[2]
      <4>1. \A k \in K : \E i \in 1..n : key[i] = k
        BY DEF Ranks
      <4> QED
        BY <3>2, <4>1
    <3>4. /\ Hole(K, key[p], key[q]) = {key[i] : i \in p..q}
          /\ Cardinality(Hole(K, key[p], key[q])) = IF p > q THEN 0 ELSE q - p + 1
      <4>1. IsSpan(K, key, p, q)
        BY HoleIs
      <4> QED
        BY <4>1 DEF IsSpan
    <3>5. x = q - p + 1 /\ p <= q
      BY <2>3, <3>1, <3>3, <3>4
    <3>6. \A i \in p..q : key[i] \notin U
      BY <3>2, <3>3, <3>4
    <3>7. c[q] \in 0..q /\ (c[q] = q \/ key[q - c[q]] \in U)
      BY CountedBack
    <3>8. x <= c[q]
      <4> SUFFICES ASSUME c[q] < x PROVE FALSE
        BY <3>5, <3>7
      <4>1. q - c[q] \in p..q /\ c[q] # q
        BY <3>5, <3>7
      <4> QED
        BY <3>6, <3>7, <4>1
    <3>9. c[q] \in R
      BY <2>1 DEF Range
    <3> QED
      BY <3>5, <3>8, <3>9
  <2> QED
    BY <2>2, <2>3
<1> HIDE DEF R, L
<1>5. Max(R) \in L /\ Max(R) \in Int /\ \A x \in L : x \in Int /\ x <= Max(R)
  <2>1. Max(R) \in L /\ Max(R) \in Int
    BY <1>1, <1>2, <1>3
  <2>2. ASSUME NEW x \in L PROVE x \in Int /\ x <= Max(R)
    <3>1. PICK y \in R : x <= y
      BY <1>4
    <3>2. y <= Max(R) /\ y \in Int /\ x \in Int
      BY <1>1, <1>2, <1>4
    <3> QED
      BY <2>1, <3>1, <3>2
  <2> QED
    BY <2>1, <2>2
<1>6. Max(L) = Max(R)
  <2> DEFINE m == Max(R)
  <2>1. m \in L /\ m \in Int /\ \A x \in L : x \in Int /\ m >= x
    BY <1>5
  <2> HIDE DEF m
  <2>2. (CHOOSE x \in L : \A y \in L : x >= y) = m
    <3>1. \A x \in L : (\A y \in L : x >= y) <=> x = m
      BY <2>1
    <3> QED
      BY <2>1, <3>1
  <2> QED
    BY <2>2 DEF Max, m
<1> QED
  BY <1>6 DEF R, L

-----------------------------------------------------------------------------
(* aruco_bag_report: coverage                                              *)

\* The count exists.
LEMMA CountExists ==
    ASSUME NEW n \in Nat, NEW key, NEW U
    PROVE  \E c : Counting(c, n, key, U)
<1> DEFINE G == [is \in (1..n) \X Nat |-> IF key[is[1]] \in U THEN 0 ELSE is[2] + 1]
<1>1. G \in [(1..n) \X Nat -> Nat]
  OBVIOUS
<1>2. PICK c \in [0..n -> Nat] : Iterated(c, n, 0, G)
  <2> HIDE DEF G
  <2>1. 0 \in Nat
    OBVIOUS
  <2> QED
    BY <1>1, <2>1, IterationExists, Zenon
<1>3. c[0] = 0 /\ \A i \in 1..n : c[i] = G[<<i, c[i - 1]>>]
  <2> HIDE DEF G
  <2> QED
    BY <1>2 DEF Iterated
<1>4. ASSUME NEW i \in 1..n PROVE c[i] = IF key[i] \in U THEN 0 ELSE c[i - 1] + 1
  <2>1. c[i - 1] \in Nat
    OBVIOUS
  <2>2. <<i, c[i - 1]>> \in (1..n) \X Nat
    BY <2>1
  <2>3. G[<<i, c[i - 1]>>] = IF key[i] \in U THEN 0 ELSE c[i - 1] + 1
    BY <2>2
  <2> HIDE DEF G
  <2> QED
    BY <1>3, <2>3
<1>5. Counting(c, n, key, U)
  BY <1>3, <1>4 DEF Counting
<1> QED
  BY <1>5

\* The windows of a bag, and those of them that are usable.
UsableOnes(bag, window, spread) == {k \in Windows(bag, window) : FacesApart(bag, window, spread, k)}

\* A bag has finitely many windows, and none exactly if nothing was detected.
LEMMA WindowsAre ==
    ASSUME NEW bag \in Seq(Messages), NEW window \in Nat \ {0}
    PROVE  /\ Windows(bag, window) \in SUBSET Int /\ IsFiniteSet(Windows(bag, window))
           /\ Windows(bag, window) = {} <=> Detections(bag) = {}
<1> DEFINE D == Detections(bag)
           f == [md \in D |-> WindowOf(bag, md[1], window)]
<1>1. IsFiniteSet(D) /\ \A md \in D : WindowOf(bag, md[1], window) \in Int
  <2>1. IsFiniteSet(D) /\ \A md \in D : bag[md[1]].at \in Int
    BY DetectionsAre
  <2> QED
    BY <2>1 DEF WindowOf
<1>2. Windows(bag, window) = {f[md] : md \in D}
  BY DEF Windows
<1>3. IsFiniteSet({f[md] : md \in D})
  <2>1. DOMAIN f = D
    OBVIOUS
  <2> HIDE DEF f, D
  <2> QED
    BY <1>1, <2>1, Images
<1>4. Windows(bag, window) \in SUBSET Int /\ (Windows(bag, window) = {} <=> D = {})
  BY <1>1, <1>2
<1> QED
  BY <1>2, <1>3, <1>4

\* coverage: the longest run of windows that are not usable.
LEMMA CoverageIs ==
    ASSUME NEW bag \in Seq(Messages), NEW window \in Nat \ {0}, NEW spread \in Nat \ {0}
    PROVE  Coverage(bag, window, spread).longest
                = Max(Lengths(Windows(bag, window), UsableOnes(bag, window, spread)))
<1> DEFINE K == Windows(bag, window)
           n == Cardinality(K)
           U == UsableOnes(bag, window, spread)
           at(i) == CHOOSE k \in K : Cardinality({j \in K : j <= k}) = i
           Looped(f) == [i \in 0..n |->
                            IF i = 0 \/ UsableWindow(bag, window, spread, at(i)) THEN 0 ELSE f[i - 1] + 1]
           F == CHOOSE f : f = Looped(f)
<1>1. Coverage(bag, window, spread).longest = Max(Range(F))
  BY DEF Coverage
<1>2. K \in SUBSET Int /\ IsFiniteSet(K)
  BY WindowsAre
<1>3. PICK key : Ranks(K, n, key) /\ n \in Nat
  <2> HIDE DEF K
  <2> QED
    BY <1>2, RanksAre
<1>4. \A i \in 1..n : key[i] = at(i) /\ key[i] \in K
  BY <1>3 DEF Ranks, UpToKey
<1>5. \A i \in 1..n : UsableWindow(bag, window, spread, at(i)) <=> key[i] \in U
  <2> TAKE i \in 1..n
  <2>1. key[i] = at(i) /\ key[i] \in K
    BY <1>4
  <2> HIDE DEF at, n
  <2>2. UsableWindow(bag, window, spread, key[i]) <=> FacesApart(bag, window, spread, key[i])
    BY <2>1, UsableFacesApart
  <2> QED
    BY <2>1, <2>2 DEF UsableOnes
<1> HIDE DEF at, n, K, U
<1>6. ASSUME NEW f, Counting(f, n, key, U) PROVE f = Looped(f)
  <2>1. DOMAIN f = 0..n /\ f = [i \in 0..n |-> f[i]]
    BY <1>6 DEF Counting
  <2>2. ASSUME NEW i \in 0..n
        PROVE  f[i] = IF i = 0 \/ UsableWindow(bag, window, spread, at(i)) THEN 0 ELSE f[i - 1] + 1
    <3>1. CASE i = 0
      BY <1>6, <3>1 DEF Counting
    <3>2. CASE i # 0
      <4>1. i \in 1..n
        BY <1>3, <3>2
      <4>2. f[i] = IF key[i] \in U THEN 0 ELSE f[i - 1] + 1
        BY <1>6, <4>1 DEF Counting
      <4> QED
        BY <1>5, <3>2, <4>1, <4>2
    <3> QED
      BY <3>1, <3>2
  <2> QED
    BY <2>1, <2>2, Zenon
<1>7. PICK c : Counting(c, n, key, U)
  BY <1>3, CountExists
<1>8. F = Looped(F)
  <2>1. c = Looped(c)
    BY <1>6, <1>7
  <2> HIDE DEF Looped
  <2> QED
    BY <2>1
<1> HIDE DEF F
<1>9. \A i \in 0..n : F[i] = IF i = 0 \/ UsableWindow(bag, window, spread, at(i)) THEN 0 ELSE F[i - 1] + 1
  <2> TAKE i \in 0..n
  <2>1. Looped(F)[i] = IF i = 0 \/ UsableWindow(bag, window, spread, at(i)) THEN 0 ELSE F[i - 1] + 1
    BY Zenon
  <2> QED
    BY <1>8, <2>1, Zenon
<1>10. Counting(F, n, key, U)
  <2>1. F[0] = 0
    BY <1>3, <1>9
  <2>2. \A i \in 1..n : F[i] = IF key[i] \in U THEN 0 ELSE F[i - 1] + 1
    <3> TAKE i \in 1..n
    <3>1. i \in 0..n /\ i # 0
      BY <1>3
    <3> QED
      BY <1>5, <1>9, <3>1
  <2> DEFINE T == {i \in 0..n : F[i] \in Nat}
  <2>3. ASSUME NEW m \in 0..n PROVE m \in T
    <3>1. 0 \in T
      BY <1>3, <2>1
    <3>2. \A i \in 0..m - 1 : i \in T => i + 1 \in T
      <4> SUFFICES ASSUME NEW i \in 0..m - 1, F[i] \in Nat PROVE i + 1 \in 0..n /\ F[i + 1] \in Nat
        OBVIOUS
      <4>1. i + 1 \in 1..n /\ (i + 1) - 1 = i
        BY <1>3
      <4>2. F[i + 1] = IF key[i + 1] \in U THEN 0 ELSE F[i] + 1
        BY <2>2, <4>1
      <4> QED
        BY <4>1, <4>2
    <3> HIDE DEF T
    <3> QED
      BY <1>3, <3>1, <3>2, UpTo
  <2>4. \A m \in 0..n : F[m] \in Nat
    BY <2>3
  <2>5. DOMAIN F = 0..n /\ F = [i \in 0..n |-> F[i]]
    <3>1. DOMAIN Looped(F) = 0..n /\ Looped(F) = [i \in 0..n |-> Looped(F)[i]]
      OBVIOUS
    <3> HIDE DEF Looped
    <3> QED
      BY <1>8, <3>1
  <2> HIDE DEF Looped
  <2>6. F \in [0..n -> Nat]
    BY <2>4, <2>5
  <2> QED
    BY <2>1, <2>2, <2>6 DEF Counting
<1>11. Max(Range(F)) = Max(Lengths(K, U))
  BY <1>2, <1>3, <1>10, LongestIs
<1> QED
  BY <1>1, <1>11 DEF K, U

-----------------------------------------------------------------------------
(* aruco_bag_report: the report                                            *)

\* corner_sigma and detection_rate count every detection once.
LEMMA CountsAddUp ==
    ASSUME NEW bag \in Seq(Messages), NEW min_frames
    PROVE  /\ Total(CornerSigma(bag, min_frames).boards) = Cardinality(Detections(bag))
           /\ Total(DetectionRate(bag).by_range) = Cardinality(Detections(bag))
<1> DEFINE D == Detections(bag)
           board == [md \in D |-> DetectionAt(bag, md).board]
           range == [md \in D |-> DetectionAt(bag, md).range]
<1>1. IsFiniteSet(D)
  BY DetectionsAre
<1>2. /\ DOMAIN Frames(bag) = {board[md] : md \in D}
      /\ \A b \in DOMAIN Frames(bag) : Frames(bag)[b] = Cardinality({md \in D : board[md] = b})
  <2>1. \A md \in D : board[md] = DetectionAt(bag, md).board
    OBVIOUS
  <2>2. {DetectionAt(bag, md).board : md \in D} = {board[md] : md \in D}
    BY <2>1
  <2>3. \A b : {md \in D : DetectionAt(bag, md).board = b} = {md \in D : board[md] = b}
    BY <2>1
  <2>4. Frames(bag) = [b \in {DetectionAt(bag, md).board : md \in D} |->
                        Cardinality({md \in D : DetectionAt(bag, md).board = b})]
    BY DEF Frames
  <2> HIDE DEF board, D
  <2> QED
    BY <2>2, <2>3, <2>4
<1>3. DetectionRate(bag).by_range = InBuckets(range)
  BY DEF DetectionRate
<1>4. /\ DOMAIN InBuckets(range) = {range[md] : md \in D}
      /\ \A b \in DOMAIN InBuckets(range) : InBuckets(range)[b] = Cardinality({md \in D : range[md] = b})
  <2>1. DOMAIN range = D
    OBVIOUS
  <2> HIDE DEF range, D
  <2> QED
    BY <2>1 DEF InBuckets, Range
<1>5. CornerSigma(bag, min_frames).boards = Frames(bag)
  BY DEF CornerSigma
<1> HIDE DEF D, board, range
<1>6. Total(Frames(bag)) = Cardinality(D)
  BY <1>1, <1>2, ClassesAddUp
<1>7. Total(InBuckets(range)) = Cardinality(D)
  BY <1>1, <1>4, ClassesAddUp
<1> QED
  BY <1>3, <1>5, <1>6, <1>7 DEF D

\* main: it fails exactly on a bag without a detection.
LEMMA ReportFails ==
    ASSUME NEW bag \in Seq(Messages), NEW min_frames, NEW window \in Nat \ {0}, NEW spread \in Nat \ {0}
    PROVE  Report(bag, min_frames, window, spread) = "failed" <=> Detections(bag) = {}
<1> DEFINE D == Detections(bag)
           sigma == CornerSigma(bag, min_frames).exit
           rate == DetectionRate(bag).exit
           cover == Coverage(bag, window, spread).exit
<1>1. Frames(bag) = <<>> <=> D = {}
  <2>1. DOMAIN Frames(bag) = {DetectionAt(bag, md).board : md \in D}
    BY DEF Frames
  <2>2. Frames(bag) = <<>> => DOMAIN Frames(bag) = {}
    OBVIOUS
  <2>3. D = {} => Frames(bag) = <<>>
    <3> SUFFICES ASSUME D = {} PROVE Frames(bag) = <<>>
      OBVIOUS
    <3>1. Frames(bag) = [b \in {} |-> Cardinality({md \in D : DetectionAt(bag, md).board = b})]
      BY DEF Frames
    <3> QED
      BY <3>1
  <2> QED
    BY <2>1, <2>2, <2>3
<1>2. sigma = "failed" <=> D = {}
  BY <1>1 DEF CornerSigma
<1>3. rate = "failed" <=> D = {}
  BY DEF DetectionRate
<1>4. cover = "failed" <=> D = {}
  BY WindowsAre DEF Coverage
<1>5. Report(bag, min_frames, window, spread) =
        IF sigma = "raised" THEN "raised" ELSE IF "failed" \in {sigma} \cup {rate, cover} THEN "failed" ELSE "ok"
  BY DEF Report
<1> HIDE DEF sigma, rate, cover, D
<1>6. D = {} => Report(bag, min_frames, window, spread) = "failed"
  BY <1>2, <1>3, <1>4, <1>5
<1>7. Report(bag, min_frames, window, spread) = "failed" => D = {}
  BY <1>2, <1>3, <1>4, <1>5
<1> QED
  BY <1>6, <1>7 DEF D

\* coverage: no window of the census is without a detection.
LEMMA NoneIsEmpty ==
    ASSUME NEW bag \in Seq(Messages), NEW window \in Nat \ {0}, NEW spread \in Nat \ {0}
    PROVE  /\ Coverage(bag, window, spread).total = Cardinality(Windows(bag, window))
           /\ Coverage(bag, window, spread).none = 0
<1> DEFINE K == Windows(bag, window)
           empty == {k \in K : Cardinality(SeenIn(bag, window, k)) = 0}
<1>1. ASSUME NEW k \in K PROVE Cardinality(SeenIn(bag, window, k)) # 0
  <2>1. PICK md \in Detections(bag) : WindowOf(bag, md[1], window) = k
    BY <1>1 DEF Windows
  <2>2. md \in SeenIn(bag, window, k)
    BY <2>1 DEF SeenIn
  <2>3. SeenIn(bag, window, k) \subseteq Detections(bag)
    BY DEF SeenIn
  <2>4. IsFiniteSet(SeenIn(bag, window, k))
    BY <2>3, DetectionsAre, FS_Subset
  <2> QED
    BY <2>2, <2>4, FS_EmptySet
<1>2. Coverage(bag, window, spread).total = Cardinality(K)
  BY DEF Coverage
<1>3. Coverage(bag, window, spread).none = Cardinality(empty)
  BY DEF Coverage
<1>4. empty = {}
  <2> HIDE DEF K
  <2> QED
    BY <1>1
<1>5. Cardinality(empty) = 0
  <2> HIDE DEF empty
  <2> QED
    BY <1>4, FS_EmptySet
<1> QED
  BY <1>2, <1>3, <1>5

\* aruco_bag_report: whatever a bag holds, in whatever order and at whatever
\* times, and whatever the windows, the counts by board and by range add up to the
\* detections, the report fails exactly if there is none, and the gap it tells is
\* the longest stretch of windows in which no two boards face apart.
THEOREM AnyBagIsMeasured ==
    ASSUME NEW bag \in Seq(Messages), NEW min_frames, NEW window \in Nat \ {0}, NEW spread \in Nat \ {0}
    PROVE  Measured(bag, window, spread,
                [exit |-> Report(bag, min_frames, window, spread), sigma |-> CornerSigma(bag, min_frames),
                 rate |-> DetectionRate(bag), coverage |-> Coverage(bag, window, spread)])
<1> DEFINE K == Windows(bag, window)
           U == UsableOnes(bag, window, spread)
           all == Cardinality(Detections(bag))
           found == [exit |-> Report(bag, min_frames, window, spread), sigma |-> CornerSigma(bag, min_frames),
                     rate |-> DetectionRate(bag), coverage |-> Coverage(bag, window, spread)]
           hole(a, b) == {k \in K : a <= k /\ k <= b}
           holes == {ab \in K \X K : \A k \in hole(ab[1], ab[2]) : ~FacesApart(bag, window, spread, k)}
<1>1. Total(found.sigma.boards) = all /\ Total(found.rate.by_range) = all
  BY CountsAddUp
<1>2. (found.exit = "failed") <=> (all = 0)
  <2>1. IsFiniteSet(Detections(bag))
    BY DetectionsAre
  <2>2. all = 0 <=> Detections(bag) = {}
    BY <2>1, FS_EmptySet
  <2>3. found.exit = Report(bag, min_frames, window, spread)
    OBVIOUS
  <2> HIDE DEF found, all
  <2> QED
    BY <2>2, <2>3, ReportFails
<1>3. found.coverage.longest = Max(Lengths(K, U))
  BY CoverageIs
<1>4. \A a, b : hole(a, b) = Hole(K, a, b)
  BY DEF Hole
<1>5. holes = Holes(K, U)
  <2>1. ASSUME NEW k \in K PROVE ~FacesApart(bag, window, spread, k) <=> k \notin U
    BY DEF UsableOnes
  <2>2. \A a, b : hole(a, b) \subseteq K
    OBVIOUS
  <2> HIDE DEF K, U, hole
  <2> QED
    BY <1>4, <2>1, <2>2 DEF Holes
<1>6. Lengths(K, U) = {0} \cup {Cardinality(hole(ab[1], ab[2])) : ab \in holes}
  <2> HIDE DEF hole, holes, K, U
  <2> QED
    BY <1>4, <1>5 DEF Lengths
<1>7. Measured(bag, window, spread, found) =
        /\ Total(found.sigma.boards) = all /\ Total(found.rate.by_range) = all
        /\ (found.exit = "failed") <=> (all = 0)
        /\ found.coverage.total = Cardinality(K) /\ found.coverage.none = 0
        /\ found.coverage.longest = Max({0} \cup {Cardinality(hole(ab[1], ab[2])) : ab \in holes})
  <2> HIDE DEF found
  <2> QED
    BY Zenon DEF Measured
<1>9. found.coverage.total = Cardinality(K) /\ found.coverage.none = 0
  BY NoneIsEmpty
<1> HIDE DEF found, K, U, all, hole, holes
<1>8. Measured(bag, window, spread, found)
  BY <1>1, <1>2, <1>3, <1>6, <1>7, <1>9
<1> QED
  BY <1>8 DEF found

-----------------------------------------------------------------------------
(* aruco_bag_report: the runs                                              *)

\* What a bag job asks for.
BagJob == job.tool = "bag" => job.bag \in Seq(Messages) /\ job.window \in Nat \ {0}

\* Every bag job asks for a bag.
LEMMA BagJobs == JobBag => job.tool = "bag" /\ BagJob
<1> SUFFICES ASSUME NEW seen_by \in [1..4 -> SomeDetections], NEW times \in Times, NEW n \in 0..4,
                    NEW min_frames \in {1, 2}, NEW window \in {1, 2},
                    job = [tool |-> "bag", min_frames |-> min_frames, window |-> window,
                           bag |-> [m \in 1..n |-> [at |-> times[m], detections |-> seen_by[m]]]]
             PROVE  job.tool = "bag" /\ BagJob
  BY DEF JobBag
<1> DEFINE bag == [m \in 1..n |-> [at |-> times[m], detections |-> seen_by[m]]]
<1>1. ASSUME NEW m \in 1..4 PROVE seen_by[m] \in Seq(Sightings) /\ times[m] \in Int
  <2>1. Detection(1) \in Sightings /\ Detection(3) \in Sightings
    BY DEF Detection, Sightings
  <2>2. seen_by[m] \in Seq({Detection(1), Detection(3)})
    BY SomeSeqs DEF SomeDetections
  <2>3. seen_by[m] \in Seq(Sightings)
    BY <2>1, <2>2
  <2>4. times[m] \in Int
    BY DEF Times
  <2> QED
    BY <2>3, <2>4
<1>2. ASSUME NEW m \in 1..n PROVE bag[m] \in Messages
  <2>1. m \in 1..4 /\ bag[m] = [at |-> times[m], detections |-> seen_by[m]]
    OBVIOUS
  <2> HIDE DEF bag
  <2> QED
    BY <1>1, <2>1 DEF Messages
<1>3. bag \in [1..n -> Messages]
  BY <1>2
<1>4. job.tool = "bag" /\ job.window = window /\ job.bag = bag
  OBVIOUS
<1> HIDE DEF bag
<1>5. bag \in Seq(Messages)
  BY <1>3
<1> QED
  BY <1>4, <1>5 DEF BagJob

\* aruco_bag_report: every bag of the run is measured.
THEOREM BagInRun == Spec => []HoleIsFound
<1> DEFINE Inv == BagJob /\ Ran("bag", BagResult(job))
<1>1. Init => Inv
  BY JobsOfOthers, JobsProved, BagJobs DEF Init, Ran, BagJob
<1>2. Inv /\ [Next]_vars => Inv'
  BY JobStays, RunsOnce DEF BagJob
<1>3. Inv => HoleIsFound
  <2> SUFFICES ASSUME Inv, Did("bag") PROVE Measured(job.bag, job.window, 20, out)
    BY DEF HoleIsFound
  <2> DEFINE spread == 20
             result == [exit |-> Report(job.bag, job.min_frames, job.window, spread),
                        sigma |-> CornerSigma(job.bag, job.min_frames),
                        rate |-> DetectionRate(job.bag), coverage |-> Coverage(job.bag, job.window, spread)]
  <2>1. out = result
    BY DEF Did, Ran, BagResult
  <2>2. job.bag \in Seq(Messages) /\ job.window \in Nat \ {0} /\ spread \in Nat \ {0}
    BY DEF Did, BagJob
  <2>3. SUFFICES Measured(job.bag, job.window, spread, out)
    OBVIOUS
  <2> HIDE DEF spread
  <2>4. Measured(job.bag, job.window, spread, result)
    BY <2>2, AnyBagIsMeasured
  <2> QED
    BY <2>1, <2>4
<1> QED
  BY <1>1, <1>2, <1>3, PTL DEF Spec

-----------------------------------------------------------------------------
(* vcu_status: the frames of an identifier                                 *)

\* What comes on a bus: its form, and if it is a frame whose, when, and with
\* which signs.
BusForms == {"frame", "error frame", "not hex", "nothing", "end"}
BusSigns == {"zeros", "manual", "left", "enable", "straight", "pressed"}
BusIds == KnownIds \cup {"unknown"}
BusLines == [form : BusForms, id : BusIds, at : Int, data : Int, signs : SUBSET BusSigns]

\* The stamps of an identifier are its frames.
LEMMA StampsAre ==
    ASSUME NEW lines \in Seq(BusLines), NEW id
    PROVE  /\ FramesOf(lines, id) \in SUBSET Int /\ IsFiniteSet(FramesOf(lines, id))
           /\ FramesOf(lines, id) \subseteq DOMAIN lines
           /\ \A k \in DOMAIN lines : lines[k].at \in Int /\ lines[k].signs \in SUBSET BusSigns
           /\ DOMAIN StampsOf(Heard(lines), id) = FramesOf(lines, id)
           /\ \A k \in FramesOf(lines, id) : StampsOf(Heard(lines), id)[k] = lines[k]
<1> DEFINE H == {k \in DOMAIN lines : lines[k].form = "frame"}
           heard == Heard(lines)
           stamps == StampsOf(heard, id)
<1>1. DOMAIN lines = 1..Len(lines) /\ Len(lines) \in Nat
  OBVIOUS
<1>2. IsFiniteSet(DOMAIN lines)
  BY <1>1, FS_Interval
<1>3. FramesOf(lines, id) \subseteq DOMAIN lines
  BY DEF FramesOf
<1>4. FramesOf(lines, id) \in SUBSET Int /\ IsFiniteSet(FramesOf(lines, id))
  BY <1>1, <1>2, <1>3, FS_Subset
<1>5. ASSUME NEW k \in DOMAIN lines PROVE lines[k].at \in Int /\ lines[k].signs \in SUBSET BusSigns
  <2>1. lines[k] \in BusLines
    OBVIOUS
  <2> QED
    BY <2>1 DEF BusLines
<1>6. heard = [k \in H |-> lines[k]]
  BY DEF Heard, Restrict
<1>7. stamps = [k \in {j \in DOMAIN heard : heard[j].id = id} |-> heard[k]]
  BY DEF StampsOf, Restrict
<1> HIDE DEF heard, stamps
<1>8. {j \in DOMAIN heard : heard[j].id = id} = FramesOf(lines, id)
  BY <1>6 DEF FramesOf
<1>9. DOMAIN stamps = FramesOf(lines, id) /\ \A k \in FramesOf(lines, id) : stamps[k] = lines[k]
  BY <1>6, <1>7, <1>8, <1>3 DEF FramesOf
<1> QED
  BY <1>3, <1>4, <1>5, <1>9 DEF stamps, heard

\* A note is of the signs of the last frame, if there is one.
LEMMA SignsAre ==
    ASSUME NEW lines \in Seq(BusLines), NEW id
    PROVE  IF FramesOf(lines, id) = {}
           THEN LastSigns(Heard(lines), id) = {} /\ Final(lines, id) = {}
           ELSE Final(lines, id) = {LastSigns(Heard(lines), id)}
<1> DEFINE F == FramesOf(lines, id)
           stamps == StampsOf(Heard(lines), id)
           top == Max(F)
<1>1. /\ F \in SUBSET Int /\ IsFiniteSet(F) /\ DOMAIN stamps = F /\ \A k \in F : stamps[k] = lines[k]
  BY StampsAre
<1>2. LastSigns(Heard(lines), id) = IF DOMAIN stamps = {} THEN {} ELSE stamps[Max(DOMAIN stamps)].signs
  BY DEF LastSigns, LatestOf
<1>3. Final(lines, id) = {lines[k].signs : k \in {i \in F : \A j \in F : j <= i}}
  BY DEF Final
<1> HIDE DEF F, stamps
<1>4. CASE F = {}
  BY <1>1, <1>2, <1>3, <1>4 DEF F
<1>5. CASE F # {}
  <2>1. top \in F /\ \A j \in F : j <= top
    BY <1>1, <1>5, HasMax
  <2>2. {i \in F : \A j \in F : j <= i} = {top}
    <3>1. ASSUME NEW i \in F, \A j \in F : j <= i PROVE i = top
      <4>1. i \in Int /\ top \in Int /\ i <= top /\ top <= i
        BY <1>1, <2>1, <3>1
      <4> QED
        BY <4>1
    <3> HIDE DEF top
    <3> QED
      BY <2>1, <3>1
  <2>3. LastSigns(Heard(lines), id) = lines[top].signs
    BY <1>1, <1>2, <1>5, <2>1
  <2> HIDE DEF top
  <2>4. Final(lines, id) = {LastSigns(Heard(lines), id)}
    BY <1>3, <2>2, <2>3
  <2> QED
    BY <1>5, <2>4 DEF F
<1> QED
  BY <1>4, <1>5

\* render's notes, but for the first two.
LEMMA NotesAre ==
    ASSUME NEW heard, NEW now
    PROVE  /\ "vcu" \in Notes(heard, now) <=> "vcu" \in SilenceNotes(heard, now)
           /\ "zeros" \in Notes(heard, now) <=>
                DOMAIN StampsOf(heard, "vehicle") # {} /\ AllZero(heard, "vehicle") /\ AllZero(heard, "motor")
           /\ "pressed" \in Notes(heard, now) <=> "pressed" \in LastSigns(heard, "vehicle")
           /\ "left lost" \in Notes(heard, now) <=>
                /\ {"left", "enable"} \subseteq LastSigns(heard, "c_eps")
                /\ "straight" \in LastSigns(heard, "eps")
<1>1. SilenceNotes(heard, now) \subseteq {"vcu", "ads"}
  BY DEF SilenceNotes
<1> QED
  BY <1>1 DEF Notes

\* ... and what they are of.
LEMMA NotesAreOfTheLast ==
    ASSUME NEW lines \in Seq(BusLines), NEW now
    PROVE  /\ "zeros" \in Notes(Heard(lines), now) <=>
                /\ Final(lines, "vehicle") # {}
                /\ \A signs \in Final(lines, "vehicle") \cup Final(lines, "motor") : "zeros" \in signs
           /\ "pressed" \in Notes(Heard(lines), now) <=>
                \E signs \in Final(lines, "vehicle") : "pressed" \in signs
           /\ "left lost" \in Notes(Heard(lines), now) <=>
                /\ \E signs \in Final(lines, "c_eps") : {"left", "enable"} \subseteq signs
                /\ \E signs \in Final(lines, "eps") : "straight" \in signs
<1> DEFINE LastSign(id) == LastSigns(Heard(lines), id)
           Fin(id) == Final(lines, id)
           F(id) == FramesOf(lines, id)
<1>1. \A id : IF F(id) = {} THEN LastSign(id) = {} /\ Fin(id) = {} ELSE Fin(id) = {LastSign(id)}
  BY SignsAre
<1>2. \A id : DOMAIN StampsOf(Heard(lines), id) = F(id)
  BY StampsAre
<1>3. \A id : AllZero(Heard(lines), id) <=> F(id) = {} \/ "zeros" \in LastSign(id)
  BY <1>2 DEF AllZero
<1>4. /\ "zeros" \in Notes(Heard(lines), now) <=>
            DOMAIN StampsOf(Heard(lines), "vehicle") # {} /\ AllZero(Heard(lines), "vehicle") /\ AllZero(Heard(lines), "motor")
      /\ "pressed" \in Notes(Heard(lines), now) <=> "pressed" \in LastSign("vehicle")
      /\ "left lost" \in Notes(Heard(lines), now) <=>
            /\ {"left", "enable"} \subseteq LastSign("c_eps")
            /\ "straight" \in LastSign("eps")
  BY NotesAre
<1>5. "zeros" \in Notes(Heard(lines), now) <=> F("vehicle") # {} /\ "zeros" \in LastSign("vehicle")
                                          /\ (F("motor") = {} \/ "zeros" \in LastSign("motor"))
  <2> HIDE DEF LastSign, F
  <2> QED
    BY <1>2, <1>3, <1>4
<1> HIDE DEF LastSign, Fin, F
<1>6. "zeros" \in Notes(Heard(lines), now) <=>
        Fin("vehicle") # {} /\ \A signs \in Fin("vehicle") \cup Fin("motor") : "zeros" \in signs
  <2>1. IF F("vehicle") = {} THEN LastSign("vehicle") = {} /\ Fin("vehicle") = {} ELSE Fin("vehicle") = {LastSign("vehicle")}
    BY <1>1
  <2>2. IF F("motor") = {} THEN LastSign("motor") = {} /\ Fin("motor") = {} ELSE Fin("motor") = {LastSign("motor")}
    BY <1>1
  <2> QED
    BY <1>5, <2>1, <2>2
<1>7. \A id, sign : sign \in LastSign(id) <=> \E signs \in Fin(id) : sign \in signs
  BY <1>1
<1>8. {"left", "enable"} \subseteq LastSign("c_eps") <=> \E signs \in Fin("c_eps") : {"left", "enable"} \subseteq signs
  <2>1. IF F("c_eps") = {} THEN LastSign("c_eps") = {} /\ Fin("c_eps") = {} ELSE Fin("c_eps") = {LastSign("c_eps")}
    BY <1>1
  <2> QED
    BY <2>1
<1> QED
  BY <1>4, <1>6, <1>7, <1>8 DEF Fin

-----------------------------------------------------------------------------
(* vcu_status: a steady sender                                             *)

\* A sender is steady: every frame comes one period after the one before.
Steadily(lines, period, start, sent) ==
    \A k \in sent : lines[k].at = start + period * Cardinality(UpToKey(sent, k))

\* lo is the first of n frames that came within the last w, the last of them q ago.
Earliest(lo, n, p, q, w) ==
    /\ lo \in Int /\ lo <= n /\ n - lo = (w - q) \div p
    /\ \A i \in 1..n : q + p * (n - i) <= w <=> lo <= i

\* How many of n frames came within the last `window', the last one q ago.
LEMMA HowMany ==
    ASSUME NEW n \in Nat, NEW p \in Nat \ {0}, NEW q \in Int, NEW w \in Nat, 0 <= q, q <= w
    PROVE  \E lo : Earliest(lo, n, p, q, w)
<1> DEFINE f == (w - q) \div p
<1>1. f \in Nat /\ p * f <= w - q /\ w - q < p * (f + 1)
  <2>1. w - q \in Nat
    OBVIOUS
  <2>2. f \in Int /\ p * f <= w - q /\ w - q < p * f + p
    BY <2>1, DivFacts
  <2> HIDE DEF f
  <2>3. p * (f + 1) = p * f + p * 1 /\ p * f \in Int
    BY <2>2, SumTimes
  <2>4. f \in Nat
    <3> SUFFICES ASSUME f + 1 <= 0 PROVE FALSE
      BY <2>2
    <3>1. p * (f + 1) <= p * 0
      BY <2>2, Ordered
    <3> QED
      BY <2>1, <2>2, <2>3, <3>1
  <2> QED
    BY <2>2, <2>3, <2>4
<1> HIDE DEF f
<1>2. ASSUME NEW i \in 1..n PROVE q + p * (n - i) <= w <=> n - f <= i
  <2>1. CASE n - f <= i
    <3>1. n - i <= f /\ n - i \in Nat
      BY <1>1, <2>1
    <3>2. p * (n - i) <= p * f
      BY <1>1, <3>1, Ordered
    <3>3. p * (n - i) \in Int /\ p * f \in Int
      BY <1>1
    <3> QED
      BY <1>1, <2>1, <3>2, <3>3
  <2>2. CASE ~(n - f <= i)
    <3>1. f + 1 <= n - i /\ n - i \in Nat /\ f + 1 \in Nat
      BY <1>1, <2>2
    <3>2. p * (f + 1) <= p * (n - i)
      BY <3>1, Ordered
    <3>3. p * (n - i) \in Int /\ p * (f + 1) \in Int
      BY <1>1
    <3> QED
      BY <1>1, <2>2, <3>2, <3>3
  <2> QED
    BY <2>1, <2>2
<1>3. n - f \in Int /\ n - f <= n /\ n - (n - f) = f
  BY <1>1
<1>4. Earliest(n - f, n, p, q, w)
  BY <1>2, <1>3 DEF f, Earliest
<1> QED
  BY <1>4

\* The numbers of a rank are those of the line.
LEMMA RankOf ==
    ASSUME NEW K \in SUBSET Int, IsFiniteSet(K), NEW n \in Nat, NEW key, Ranks(K, n, key)
    PROVE  /\ \A i \in 1..n : Cardinality(UpToKey(K, key[i])) = i
           /\ K # {} => n >= 1 /\ Max(K) = key[n] /\ Min(K) = key[1]
<1>1. /\ \A i \in 1..n : key[i] \in K /\ key[i] \in Int
      /\ \A i, j \in 1..n : i < j => key[i] < key[j]
      /\ \A k \in K : \E i \in 1..n : key[i] = k
  BY DEF Ranks
<1>2. ASSUME NEW i \in 1..n PROVE Cardinality(UpToKey(K, key[i])) = i
  <2>1. 1 \in 1..n /\ 1 <= i /\ i - 1 + 1 = i
    OBVIOUS
  <2>2. IsSpan(K, key, 1, i)
    BY <2>1, HoleIs
  <2>3. Cardinality(Hole(K, key[1], key[i])) = i
    BY <2>1, <2>2 DEF IsSpan
  <2>4. \A k \in K : key[1] <= k
    <3> SUFFICES ASSUME NEW k \in K PROVE key[1] <= k
      OBVIOUS
    <3>1. PICK j \in 1..n : key[j] = k
      BY <1>1
    <3>2. j = 1 \/ 1 < j
      OBVIOUS
    <3> QED
      BY <1>1, <2>1, <3>1, <3>2
  <2>5. UpToKey(K, key[i]) = Hole(K, key[1], key[i])
    BY <2>4 DEF UpToKey, Hole
  <2> QED
    BY <2>3, <2>5
<1>3. ASSUME K # {} PROVE n >= 1 /\ Max(K) = key[n] /\ Min(K) = key[1]
  <2>1. n >= 1
    <3>1. PICK k \in K : TRUE
      BY <1>3
    <3>2. \E i \in 1..n : key[i] = k
      BY <1>1
    <3> QED
      BY <3>2
  <2>2. Max(K) \in K /\ (\A x \in K : x <= Max(K)) /\ Min(K) \in K /\ (\A x \in K : Min(K) <= x)
    BY <1>3, HasMax, HasMin
  <2>3. PICK i \in 1..n, j \in 1..n : key[i] = Max(K) /\ key[j] = Min(K)
    BY <1>1, <2>2
  <2>4. n \in 1..n /\ 1 \in 1..n /\ (i = n \/ i < n) /\ (j = 1 \/ 1 < j)
    BY <2>1
  <2>5. key[n] <= key[i] /\ key[j] <= key[1] /\ key[n] \in Int /\ key[1] \in Int /\ key[i] \in Int /\ key[j] \in Int
    BY <1>1, <2>2, <2>3, <2>4
  <2>6. i = n /\ j = 1
    BY <1>1, <2>4, <2>5
  <2> QED
    BY <2>1, <2>3, <2>6
<1> QED
  BY <1>2, <1>3

-----------------------------------------------------------------------------
(* vcu_status: the frames within the window                                *)

\* The times of K are a period apart.
Paced(K, at, a, p) == \A k \in K : at[k] = a + p * Cardinality(UpToKey(K, k))

\* How many of the times of K lie in the last w.
InWindow(K, at, now, a, p, w) ==
    LET n == Cardinality(K)
        f == (w - (now - at[Max(K)])) \div p
    IN  /\ n \in Nat \ {0} /\ f \in Int
        /\ at[Max(K)] = a + p * n /\ at[Min(K)] = a + p * 1
        /\ Cardinality({k \in K : now - at[k] <= w}) = IF n <= f THEN n ELSE f + 1

\* State.rate: the frames of a steady sender that came within the window.
LEMMA RecentAre ==
    ASSUME NEW K \in SUBSET Int, IsFiniteSet(K), NEW at, NEW now \in Int, NEW a \in Int, NEW p \in Nat \ {0},
           Paced(K, at, a, p), NEW w \in Nat, K # {}, 0 <= now - at[Max(K)], now - at[Max(K)] <= w
    PROVE  InWindow(K, at, now, a, p, w)
<1> DEFINE n == Cardinality(K)
           q == now - at[Max(K)]
           f == (w - q) \div p
           recent == {k \in K : now - at[k] <= w}
<1>1. PICK key : n \in Nat /\ Ranks(K, n, key)
  BY RanksAre
<1> HIDE DEF n
<1>2. /\ \A i \in 1..n : Cardinality(UpToKey(K, key[i])) = i
      /\ n >= 1 /\ Max(K) = key[n] /\ Min(K) = key[1]
  BY <1>1, RankOf
<1>3. /\ \A i \in 1..n : key[i] \in K /\ key[i] \in Int
      /\ \A i, j \in 1..n : i < j => key[i] < key[j]
      /\ \A k \in K : \E i \in 1..n : key[i] = k
  BY <1>1 DEF Ranks
<1>4. \A i \in 1..n : at[key[i]] = a + p * i
  BY <1>2, <1>3 DEF Paced
<1>5. n \in 1..n /\ 1 \in 1..n /\ p * n \in Int
  BY <1>1, <1>2
<1>6. at[Max(K)] = a + p * n /\ at[Min(K)] = a + p * 1
  BY <1>2, <1>4, <1>5
<1>7. q \in Int /\ 0 <= q /\ q <= w /\ now = q + a + p * n
  BY <1>5, <1>6
<1> HIDE DEF q
<1>8. PICK lo : Earliest(lo, n, p, q, w)
  BY <1>1, <1>7, HowMany
<1>9. /\ f \in Int /\ lo = n - f /\ lo \in Int
      /\ lo <= n /\ \A i \in 1..n : q + p * (n - i) <= w <=> lo <= i
  BY <1>1, <1>7, <1>8 DEF Earliest
<1> DEFINE low == IF lo <= 1 THEN 1 ELSE lo
<1>10. low \in 1..n /\ low <= n /\ \A i \in 1..n : lo <= i <=> low <= i
  BY <1>1, <1>2, <1>9
<1> HIDE DEF low, f
<1>11. ASSUME NEW i \in 1..n PROVE now - at[key[i]] <= w <=> key[low] <= key[i]
  <2>1. now - at[key[i]] = q + p * (n - i)
    <3>1. p * (n - i) = p * n - p * i /\ p * n \in Int /\ p * i \in Int
      BY <1>1, SumTimes
    <3> QED
      BY <1>4, <1>7, <3>1
  <2>2. low <= i <=> key[low] <= key[i]
    <3>1. low < i \/ low = i \/ i < low
      BY <1>10
    <3>2. key[low] \in Int /\ key[i] \in Int
      BY <1>3, <1>10
    <3> QED
      BY <1>3, <1>10, <3>1, <3>2
  <2> QED
    BY <1>9, <1>10, <2>1, <2>2
<1>12. recent = Hole(K, key[low], key[n])
  <2>1. ASSUME NEW k \in K PROVE now - at[k] <= w <=> key[low] <= k /\ k <= key[n]
    <3>1. PICK i \in 1..n : key[i] = k
      BY <1>3
    <3>2. i = n \/ i < n
      BY <1>1
    <3>3. key[i] <= key[n]
      BY <1>3, <1>5, <3>2
    <3> QED
      BY <1>11, <3>1, <3>3
  <2> QED
    BY <2>1 DEF Hole
<1>13. IsSpan(K, key, low, n)
  BY <1>1, <1>5, <1>10, HoleIs
<1>14. Cardinality(recent) = n - low + 1
  <2>1. Cardinality(Hole(K, key[low], key[n])) = IF low > n THEN 0 ELSE n - low + 1
    BY <1>13 DEF IsSpan
  <2>2. ~(low > n)
    BY <1>1, <1>10
  <2> HIDE DEF recent
  <2> QED
    BY <1>12, <2>1, <2>2
<1>15. Cardinality(recent) = IF n <= f THEN n ELSE f + 1
  BY <1>1, <1>9, <1>10, <1>14 DEF low
<1> HIDE DEF recent
<1>16. n \in Nat \ {0} /\ f \in Int /\ at[Max(K)] = a + p * n /\ at[Min(K)] = a + p * 1
  BY <1>1, <1>2, <1>6, <1>9
<1> QED
  BY <1>15, <1>16 DEF n, f, q, recent, InWindow

-----------------------------------------------------------------------------
(* vcu_status: the rate                                                    *)

\* State.rate, as a fraction.
LEMMA RateIs ==
    ASSUME NEW lines \in Seq(BusLines), NEW id, NEW now \in Int
    PROVE  LET sent == FramesOf(lines, id)
               rate == Rate(StampsOf(Heard(lines), id), now)
           IN  /\ rate.num = Cardinality({k \in sent : now - lines[k].at <= 20})
               /\ sent # {} => rate.den = CanMax(2, IF Cardinality(sent) > 1
                                                    THEN CanMin(20, now - lines[Min(sent)].at) ELSE 20)
<1> DEFINE sent == FramesOf(lines, id)
           stamps == StampsOf(Heard(lines), id)
           rate == Rate(stamps, now)
<1>1. /\ sent \in SUBSET Int /\ IsFiniteSet(sent) /\ DOMAIN stamps = sent
      /\ \A k \in sent : stamps[k] = lines[k]
  BY StampsAre
<1>2. rate = IF DOMAIN stamps = {} THEN [num |-> 0, den |-> 1]
             ELSE [num |-> Recent(stamps, now), den |-> Span(stamps, now)]
  BY DEF Rate
<1>3. Recent(stamps, now) = Cardinality({k \in DOMAIN stamps : now - stamps[k].at <= 20})
  BY DEF Recent, RATE_WINDOW
<1>4. Span(stamps, now) = CanMax(2, IF Cardinality(DOMAIN stamps) > 1
              THEN CanMin(20, now - stamps[Min(DOMAIN stamps)].at) ELSE 20)
  BY DEF Span, RATE_WINDOW, FirstOf
<1> HIDE DEF sent, stamps, rate
<1>5. CASE sent = {}
  <2>1. {k \in sent : now - lines[k].at <= 20} = {}
    BY <1>5
  <2>2. rate.num = 0
    BY <1>1, <1>2, <1>5
  <2>3. rate.num = Cardinality({k \in sent : now - lines[k].at <= 20})
    BY <2>1, <2>2, FS_EmptySet
  <2> QED
    BY <1>5, <2>3 DEF sent, rate, stamps
<1>6. CASE sent # {}
  <2>1. {k \in DOMAIN stamps : now - stamps[k].at <= 20} = {k \in sent : now - lines[k].at <= 20}
    BY <1>1
  <2>2. Min(sent) \in sent
    BY <1>1, <1>6, HasMin
  <2>3. rate.num = Cardinality({k \in sent : now - lines[k].at <= 20})
    BY <1>1, <1>2, <1>3, <1>6, <2>1
  <2>4. rate.den = CanMax(2, IF Cardinality(sent) > 1 THEN CanMin(20, now - lines[Min(sent)].at) ELSE 20)
    <3>1. rate.den = Span(stamps, now)
      BY <1>1, <1>2, <1>6
    <3>2. stamps[Min(DOMAIN stamps)] = lines[Min(sent)]
      BY <1>1, <2>2
    <3> QED
      BY <1>1, <1>4, <3>1, <3>2
  <2> QED
    BY <2>3, <2>4 DEF sent, rate, stamps
<1> QED
  BY <1>5, <1>6

\* A steady sender's frames come one after the other.
LEMMA LastIsLatest ==
    ASSUME NEW lines \in Seq(BusLines), NEW id, NEW a \in Int, NEW p \in Nat \ {0},
           Steadily(lines, p, a, FramesOf(lines, id)), NEW k \in FramesOf(lines, id)
    PROVE  lines[k].at <= lines[Max(FramesOf(lines, id))].at
<1> DEFINE sent == FramesOf(lines, id)
           top == Max(sent)
           rank(j) == Cardinality(UpToKey(sent, j))
<1>1. sent \in SUBSET Int /\ IsFiniteSet(sent)
  BY StampsAre
<1> HIDE DEF sent
<1>2. top \in sent /\ k \in sent /\ k <= top /\ k \in Int /\ top \in Int
  BY <1>1, HasMax DEF sent
<1>3. lines[k].at = a + p * rank(k) /\ lines[top].at = a + p * rank(top)
  BY <1>2 DEF Steadily, sent
<1> HIDE DEF top
<1>4. UpToKey(sent, k) \subseteq UpToKey(sent, top) /\ IsFiniteSet(UpToKey(sent, top)) /\ IsFiniteSet(UpToKey(sent, k))
  <2>1. UpToKey(sent, k) \subseteq UpToKey(sent, top)
    <3>1. ASSUME NEW j \in sent, j <= k PROVE j <= top
      <4>1. j \in Int
        BY <1>1
      <4> QED
        BY <1>2, <3>1, <4>1
    <3> QED
      BY <3>1 DEF UpToKey
  <2>2. UpToKey(sent, top) \subseteq sent
    BY DEF UpToKey
  <2>3. IsFiniteSet(UpToKey(sent, top))
    BY <1>1, <2>2, FS_Subset
  <2> QED
    BY <2>1, <2>3, FS_Subset
<1>5. rank(k) \in Int /\ rank(top) \in Int /\ rank(k) <= rank(top)
  BY <1>4, FS_Subset, FS_CardinalityType
<1> HIDE DEF rank
<1>6. p * rank(k) \in Int /\ p * rank(top) \in Int /\ p * rank(k) <= p * rank(top)
  BY <1>5, Ordered
<1>7. lines[k].at <= lines[top].at
  BY <1>3, <1>6
<1> QED
  BY <1>7 DEF top, sent

-----------------------------------------------------------------------------
(* vcu_status: while the window fills, and when it is full                 *)

\* How far off num frames in den tenths are for a sender of period p.
Off(num, den, p) == Abs(num * p - den) <= p

\* State.rate, of n frames of which the last came q ago, F being f times p, P n times p.
LEMMA WindowFull ==
    ASSUME NEW p \in Nat \ {0}, NEW q \in Int, 0 <= q, q < p, NEW n \in Nat, n >= 2,
           NEW f \in Int, f = (20 - q) \div p, q <= 20
    PROVE  Off(IF n <= f THEN n ELSE f + 1, CanMax(2, CanMin(20, q + p * n - p)), p)
<1>1. f \in Int /\ p * f <= 20 - q /\ 20 - q < p * f + p
  BY DivFacts
<1>2. p * n \in Int /\ p * 2 <= p * n /\ p * 2 = p + p
  BY Ordered
<1> DEFINE F == p * f
           P == p * n
           e == q + P - p
<1>3. F \in Int /\ P \in Int /\ P >= p + p /\ F <= 20 - q /\ 20 - q < F + p /\ e = q + P - p
  BY <1>1, <1>2
<1>4. CASE n <= f
  <2>1. P <= F
    BY <1>1, <1>4, Ordered
  <2>2. n * p = P
    OBVIOUS
  <2> HIDE DEF F, P
  <2>3. e \in Int /\ e <= 20 /\ e >= 1 /\ P - e <= p /\ P - e >= 1
    BY <1>3, <2>1
  <2>4. e = 1 => P = 2
    BY <1>3
  <2> HIDE DEF e
  <2>5. CanMax(2, CanMin(20, e)) = IF e = 1 THEN 2 ELSE e
    BY <2>3 DEF CanMax, CanMin
  <2>6. Abs(P - (IF e = 1 THEN 2 ELSE e)) <= p
    BY <1>3, <2>3, <2>4 DEF Abs
  <2> QED
    BY <1>4, <2>2, <2>5, <2>6 DEF Off, e, P
<1>5. CASE n = f + 1
  <2>1. P = F + p
    BY <1>1, <1>5, SumTimes
  <2>2. (f + 1) * p = P
    BY <1>5
  <2>3. ~(n <= f)
    BY <1>5, <1>1
  <2> HIDE DEF F, P
  <2>4. e \in Int /\ e <= 20 /\ e >= 1 /\ P - e <= p /\ P - e >= 1
    BY <1>3, <2>1
  <2>5. e = 1 => P = 2
    BY <1>3
  <2> HIDE DEF e
  <2>6. CanMax(2, CanMin(20, e)) = IF e = 1 THEN 2 ELSE e
    BY <2>4 DEF CanMax, CanMin
  <2>7. Abs(P - (IF e = 1 THEN 2 ELSE e)) <= p
    BY <1>3, <2>4, <2>5 DEF Abs
  <2> QED
    BY <2>2, <2>3, <2>6, <2>7 DEF Off, e, P
<1>6. CASE n >= f + 2
  <2>1. P >= F + p + p
    <3>1. p * (f + 2) <= P
      BY <1>1, <1>6, Ordered
    <3>2. p * (f + 2) = F + p * 2
      BY <1>1, SumTimes
    <3> QED
      BY <1>2, <1>3, <3>1, <3>2
  <2>2. (f + 1) * p = F + p
    BY <1>1
  <2>3. ~(n <= f)
    BY <1>6, <1>1
  <2> HIDE DEF F, P
  <2>4. e \in Int /\ e > 20
    BY <1>3, <2>1
  <2> HIDE DEF e
  <2>5. CanMax(2, CanMin(20, e)) = 20
    BY <2>4 DEF CanMax, CanMin
  <2>6. Abs(F + p - 20) <= p
    BY <1>3 DEF Abs
  <2>7. (IF n <= f THEN n ELSE f + 1) = f + 1
    BY <2>3
  <2>8. CanMax(2, CanMin(20, q + p * n - p)) = 20
    BY <2>5 DEF e, P
  <2>9. Off(f + 1, 20, p)
    BY <1>1, <1>3, <2>2, <2>6 DEF Off, Abs
  <2> QED
    BY <2>7, <2>8, <2>9
<1> QED
  BY <1>1, <1>4, <1>5, <1>6

\* ... and if none of them came within the window.
LEMMA WindowEmpty ==
    ASSUME NEW p \in Nat \ {0}, NEW q \in Int, q < p, NEW n \in Nat, n >= 2, q > 20
    PROVE  Off(0, CanMax(2, CanMin(20, q + p * n - p)), p)
<1>1. p * n \in Int /\ p * 2 <= p * n /\ p * 2 = p + p
  BY Ordered
<1> DEFINE e == q + p * n - p
<1>2. e \in Int /\ e > 20
  BY <1>1
<1> HIDE DEF e
<1>3. CanMax(2, CanMin(20, e)) = 20
  BY <1>2 DEF CanMax, CanMin
<1>4. Abs(0 * p - 20) <= p
  BY DEF Abs
<1> QED
  BY <1>3, <1>4 DEF e, Off

\* The rate of a steady sender.
LEMMA SteadyRate ==
    ASSUME NEW lines \in Seq(BusLines), NEW id, NEW now \in Int, NEW a \in Int, NEW p \in Nat \ {0},
           Steadily(lines, p, a, FramesOf(lines, id))
    PROVE  LET sent == FramesOf(lines, id)
               quiet == now - lines[Max(sent)].at
               rate == Rate(StampsOf(Heard(lines), id), now)
           IN  /\ rate.num \in Nat
               /\ (Cardinality(sent) >= 2 /\ quiet >= 0 /\ quiet < p) => Off(rate.num, rate.den, p)
               /\ (sent = {} \/ quiet > 20) => rate.num = 0
               /\ (sent # {} /\ quiet <= 20) => rate.num > 0
<1> DEFINE sent == FramesOf(lines, id)
           top == Max(sent)
           quiet == now - lines[top].at
           rate == Rate(StampsOf(Heard(lines), id), now)
           recent == {k \in sent : now - lines[k].at <= 20}
           n == Cardinality(sent)
<1>1. /\ sent \in SUBSET Int /\ IsFiniteSet(sent) /\ \A k \in sent : lines[k].at \in Int
  BY StampsAre
<1>2. rate.num = Cardinality(recent) /\ IsFiniteSet(recent) /\ rate.num \in Nat
  <2>1. rate.num = Cardinality(recent)
    BY RateIs
  <2>2. IsFiniteSet(recent)
    BY <1>1, FS_Subset
  <2> QED
    BY <2>1, <2>2, FS_CardinalityType
<1>3. sent # {} => rate.den = CanMax(2, IF n > 1 THEN CanMin(20, now - lines[Min(sent)].at) ELSE 20)
  BY RateIs
<1>4. \A k \in sent : lines[k].at <= lines[top].at
  BY LastIsLatest
<1>5. n \in Nat /\ (n = 0 <=> sent = {})
  BY <1>1, FS_CardinalityType, FS_EmptySet
<1>6. \A k \in sent : lines[k].at = a + p * Cardinality(UpToKey(sent, k))
  BY DEF Steadily
<1> HIDE DEF sent
<1>7. sent # {} => top \in sent /\ lines[top].at \in Int /\ quiet \in Int
  <2>1. sent # {} => top \in sent
    BY <1>1, HasMax
  <2> HIDE DEF top
  <2>2. sent # {} => lines[top].at \in Int
    BY <1>1, <2>1
  <2>3. lines[top].at \in Int => quiet \in Int
    OBVIOUS
  <2> QED
    BY <2>1, <2>2, <2>3
<1>8. (sent = {} \/ quiet > 20) => rate.num = 0
  <2> SUFFICES ASSUME sent = {} \/ quiet > 20 PROVE recent = {}
    BY <1>2, FS_EmptySet
  <2> SUFFICES ASSUME NEW k \in sent, now - lines[k].at <= 20 PROVE FALSE
    OBVIOUS
  <2>1. quiet > 20 /\ lines[k].at <= lines[top].at /\ lines[k].at \in Int /\ lines[top].at \in Int
    BY <1>1, <1>4, <1>7
  <2> QED
    BY <2>1
<1>9. (sent # {} /\ quiet <= 20) => rate.num > 0
  <2> SUFFICES ASSUME sent # {}, quiet <= 20 PROVE rate.num # 0
    BY <1>2
  <2>1. top \in recent
    BY <1>7
  <2> HIDE DEF recent
  <2> QED
    BY <1>2, <2>1, FS_EmptySet
<1>10. ASSUME n >= 2, quiet >= 0, quiet < p PROVE Off(rate.num, rate.den, p)
  <2> DEFINE w == 20
             at == [k \in sent |-> lines[k].at]
             f == (w - quiet) \div p
  <2>1. sent # {} /\ top \in sent /\ Min(sent) \in sent
    BY <1>1, <1>5, <1>7, <1>10, HasMin
  <2>2. n > 1
    BY <1>5, <1>10
  <2>3. rate.den = CanMax(2, CanMin(w, now - lines[Min(sent)].at))
    BY <1>3, <2>1, <2>2
  <2>4. CASE quiet <= w
    <3>1. /\ \A k \in sent : at[k] = a + p * Cardinality(UpToKey(sent, k))
          /\ w \in Nat /\ sent # {} /\ 0 <= now - at[Max(sent)] /\ now - at[Max(sent)] <= w
      BY <1>6, <1>7, <1>10, <2>1, <2>4
    <3>2. InWindow(sent, at, now, a, p, w)
      <4>1. Paced(sent, at, a, p)
        BY <3>1 DEF Paced
      <4> HIDE DEF w, at
      <4> QED
        BY <1>1, <3>1, <4>1, RecentAre, Zenon
    <3>3. at[Max(sent)] = lines[top].at /\ at[Min(sent)] = lines[Min(sent)].at
      BY <2>1 DEF at
    <3>4. {k \in sent : now - at[k] <= w} = recent
      BY DEF at
    <3>5. f \in Int /\ rate.num = IF n <= f THEN n ELSE f + 1
      BY <1>2, <3>2, <3>3, <3>4 DEF InWindow
    <3>6. now - lines[Min(sent)].at = quiet + p * n - p
      <4>1. p * n \in Int /\ lines[top].at = a + p * n /\ lines[Min(sent)].at = a + p
        BY <1>5, <3>2, <3>3 DEF InWindow
      <4> QED
        BY <4>1
    <3>7. Off(IF n <= f THEN n ELSE f + 1, CanMax(2, CanMin(20, quiet + p * n - p)), p)
      <4>1. f = (20 - quiet) \div p /\ quiet <= 20 /\ quiet \in Int
        BY <1>7, <2>1, <2>4
      <4> HIDE DEF f, quiet, n
      <4> QED
        BY <1>5, <1>10, <3>5, <4>1, WindowFull
    <3> QED
      BY <2>3, <3>5, <3>6, <3>7
  <2>5. CASE quiet > w
    <3>1. rate.num = 0
      BY <1>8, <2>5
    <3>2. lines[top].at = a + p * n /\ lines[Min(sent)].at = a + p
      <4>1. PICK key : n \in Nat /\ Ranks(sent, n, key)
        BY <1>1, RanksAre
      <4> HIDE DEF n
      <4>2. /\ \A i \in 1..n : Cardinality(UpToKey(sent, key[i])) = i
            /\ n >= 1 /\ top = key[n] /\ Min(sent) = key[1]
        <5>1. sent \in SUBSET Int /\ IsFiniteSet(sent) /\ sent # {}
          BY <1>1, <2>1, Zenon
        <5> HIDE DEF sent
        <5> QED
          BY <4>1, <5>1, RankOf
      <4>3. n \in 1..n /\ 1 \in 1..n
        BY <4>1, <4>2
      <4> HIDE DEF top
      <4> QED
        BY <1>6, <2>1, <4>2, <4>3
    <3>3. now - lines[Min(sent)].at = quiet + p * n - p
      <4>1. p * n \in Int /\ lines[top].at \in Int
        BY <1>5, <1>7, <2>1
      <4> QED
        BY <3>2, <4>1
    <3>4. Off(0, CanMax(2, CanMin(20, quiet + p * n - p)), p)
      <4>1. quiet > 20 /\ quiet \in Int
        BY <1>7, <2>1, <2>5
      <4> HIDE DEF quiet, n
      <4> QED
        BY <1>5, <1>10, <4>1, WindowEmpty
    <3> QED
      BY <2>3, <3>1, <3>3, <3>4
  <2> QED
    BY <1>7, <2>1, <2>4, <2>5
<1> HIDE DEF rate, quiet, n
<1> QED
  BY <1>2, <1>8, <1>9, <1>10 DEF sent, rate, quiet, n, top

-----------------------------------------------------------------------------
(* vcu_status and monitor_can: what is shown                               *)

\* What vcu_status needs: the motor's frames come steadily, and only candump ends.
VcuAsked(j) ==
    /\ j.lines \in Seq(BusLines) /\ j.period \in Nat \ {0} /\ j.now \in Int
    /\ \E start \in Int : Steadily(j.lines, j.period, start, FramesOf(j.lines, "motor"))
    /\ j.remote \in BOOLEAN /\ j.snapshot \in BOOLEAN
    /\ j.remote \/ \A k \in DOMAIN j.lines : j.lines[k].form # "end"

\* main: how it ends.
LEMMA ExitIs ==
    ASSUME NEW j, VcuAsked(j)
    PROVE  (ExitCode(Reader(j.remote, j.lines), j.snapshot) = 1)
                = IF j.snapshot THEN \A id \in KnownIds : FramesOf(j.lines, id) = {}
                  ELSE \E k \in DOMAIN j.lines : j.lines[k].form = "end"
<1> DEFINE reader == Reader(j.remote, j.lines)
           lines == j.lines
           known == {k \in DOMAIN Heard(lines) : Heard(lines)[k].id \in KnownIds}
           ends == \E k \in DOMAIN lines : lines[k].form = "end"
           none == \A id \in KnownIds : FramesOf(lines, id) = {}
<1>1. reader.heard = Heard(lines) /\ reader.error = ends
  BY DEF Reader, ReaderCandump, ReaderPythonCan, VcuAsked
<1>2. Heard(lines) = [k \in {i \in DOMAIN lines : lines[i].form = "frame"} |-> lines[k]]
  BY DEF Heard, Restrict
<1>3. known = {} <=> none
  BY <1>2 DEF FramesOf
<1>4. IsFiniteSet(known)
  <2>1. lines \in Seq(BusLines)
    BY DEF VcuAsked
  <2>2. DOMAIN lines = 1..Len(lines) /\ Len(lines) \in Nat
    BY <2>1
  <2>3. IsFiniteSet(DOMAIN lines)
    BY <2>2, FS_Interval
  <2>4. known \subseteq DOMAIN lines
    BY <1>2
  <2> QED
    BY <2>3, <2>4, FS_Subset
<1>5. Cardinality(known) \in Nat /\ (Cardinality(known) = 0 <=> none)
  <2> HIDE DEF known
  <2> QED
    BY <1>3, <1>4, FS_EmptySet, FS_CardinalityType
<1>6. DecodedFrames(reader.heard) = Cardinality(known)
  BY <1>1 DEF DecodedFrames
<1>7. ExitCode(reader, j.snapshot) = IF j.snapshot THEN IF DecodedFrames(reader.heard) > 0 THEN 0 ELSE 1
                                     ELSE IF reader.error THEN 1 ELSE 0
  BY DEF ExitCode
<1>8. (DecodedFrames(reader.heard) > 0) <=> ~none
  BY <1>5, <1>6
<1>9. none \in BOOLEAN /\ ends \in BOOLEAN
  OBVIOUS
<1> HIDE DEF reader, known, ends, none
<1>10. ExitCode(reader, j.snapshot) = IF j.snapshot THEN IF none THEN 1 ELSE 0 ELSE IF ends THEN 1 ELSE 0
  BY <1>1, <1>7, <1>8
<1>11. (ExitCode(reader, j.snapshot) = 1) = IF j.snapshot THEN none ELSE ends
  <2>1. CASE j.snapshot
    BY <1>9, <1>10, <2>1
  <2>2. CASE ~j.snapshot
    BY <1>9, <1>10, <2>2
  <2> QED
    BY <2>1, <2>2
<1> QED
  BY <1>11 DEF reader, ends, none

\* monitor_can: what it keeps of an identifier, and its colour.
LEMMA MonitorIs ==
    ASSUME NEW lines \in Seq(BusLines), NEW id, NEW now \in Int
    PROVE  LET sent == FramesOf(lines, id)
               monitor == FrameState(Heard(lines), id)
               quiet == now - lines[Max(sent)].at
           IN  /\ monitor.count = Cardinality(sent)
               /\ Colour(monitor, now) = "green" => sent # {} /\ quiet < 10
               /\ Colour(monitor, now) = "dim" => sent = {} \/ quiet >= 50
<1> DEFINE sent == FramesOf(lines, id)
           stamps == StampsOf(Heard(lines), id)
           monitor == FrameState(Heard(lines), id)
<1>1. /\ sent \in SUBSET Int /\ IsFiniteSet(sent) /\ DOMAIN stamps = sent
      /\ \A k \in sent : stamps[k] = lines[k]
  BY StampsAre
<1>2. /\ monitor.count = Cardinality(DOMAIN stamps)
      /\ monitor.last_seen = IF DOMAIN stamps = {} THEN 0 ELSE stamps[Max(DOMAIN stamps)].at
  BY DEF FrameState, LatestOf
<1> HIDE DEF sent, stamps, monitor
<1>3. Cardinality(sent) = 0 <=> sent = {}
  BY <1>1, FS_EmptySet
<1>4. sent # {} => monitor.last_seen = lines[Max(sent)].at
  <2>1. sent # {} => Max(sent) \in sent
    BY <1>1, HasMax
  <2> QED
    BY <1>1, <1>2, <2>1
<1>5. Colour(monitor, now) = IF monitor.count = 0 \/ now - monitor.last_seen >= 50 THEN "dim"
                             ELSE IF now - monitor.last_seen < 10 THEN "green" ELSE "yellow"
  BY DEF Colour
<1>6. monitor.count = Cardinality(sent)
  BY <1>1, <1>2
<1>7. CASE sent = {}
  <2>1. Colour(monitor, now) = "dim"
    BY <1>3, <1>5, <1>6, <1>7
  <2> QED
    BY <1>6, <1>7, <2>1 DEF monitor, sent
<1>8. CASE sent # {}
  <2>1. monitor.last_seen = lines[Max(sent)].at /\ monitor.count # 0
    BY <1>3, <1>4, <1>6, <1>8
  <2> DEFINE quiet == now - lines[Max(sent)].at
  <2>2. Colour(monitor, now) = IF quiet >= 50 THEN "dim" ELSE IF quiet < 10 THEN "green" ELSE "yellow"
    BY <1>5, <2>1
  <2> HIDE DEF quiet
  <2>3. /\ Colour(monitor, now) = "green" => quiet < 10
        /\ Colour(monitor, now) = "dim" => quiet >= 50
    BY <2>2
  <2> QED
    BY <1>6, <1>8, <2>3 DEF monitor, sent, quiet
<1> QED
  BY <1>7, <1>8

\* vcu_status and monitor_can: whatever else is on the bus, and whatever the period
\* of the motor's frames, the rate shown is right to within one frame, the
\* screens agree and the notes are of the last frames.
THEOREM AnyBusIsShown ==
    ASSUME NEW j, VcuAsked(j)
    PROVE  IsShown(j.lines, j.period, j.now, j.snapshot, VcuResult(j))
<1> DEFINE lines == j.lines
           p == j.period
           now == j.now
           reader == Reader(j.remote, lines)
           sent == FramesOf(lines, "motor")
           quiet == now - lines[Max(sent)].at
           rate == Rate(StampsOf(Heard(lines), "motor"), now)
           notes == Notes(Heard(lines), now)
           monitor == FrameState(Heard(lines), "motor")
           colour == Colour(monitor, now)
           exit == ExitCode(reader, j.snapshot)
           found == [rate |-> rate, notes |-> notes, exit |-> exit, monitor |-> monitor, colour |-> colour]
<1>1. reader.heard = Heard(lines)
  BY DEF Reader, ReaderCandump, ReaderPythonCan
<1>2. VcuResult(j) = found
  BY <1>1 DEF VcuResult
<1>3. lines \in Seq(BusLines) /\ p \in Nat \ {0} /\ now \in Int
  BY DEF VcuAsked
<1>4. PICK start \in Int : Steadily(lines, p, start, sent)
  BY DEF VcuAsked
<1>5. (exit = 1) = IF j.snapshot THEN \A id \in KnownIds : FramesOf(lines, id) = {}
                   ELSE \E k \in DOMAIN lines : lines[k].form = "end"
  BY ExitIs
<1> HIDE DEF lines, p, now
<1>6. /\ rate.num \in Nat
      /\ (Cardinality(sent) >= 2 /\ quiet >= 0 /\ quiet < p) => Off(rate.num, rate.den, p)
      /\ (sent = {} \/ quiet > 20) => rate.num = 0
      /\ (sent # {} /\ quiet <= 20) => rate.num > 0
  BY <1>3, <1>4, SteadyRate
<1>7. rate.num > 0 => "vcu" \notin notes
  <2>1. "vcu" \in notes <=> "vcu" \in SilenceNotes(Heard(lines), now)
    BY NotesAre
  <2>2. "vcu" \in SilenceNotes(Heard(lines), now) => rate.num = 0
    BY DEF SilenceNotes, VCU_IDS
  <2> HIDE DEF rate, notes
  <2> QED
    BY <2>1, <2>2
<1>8. /\ monitor.count = Cardinality(sent)
      /\ colour = "green" => sent # {} /\ quiet < 10
      /\ colour = "dim" => sent = {} \/ quiet >= 50
  BY <1>3, MonitorIs
<1>9. sent # {} => quiet \in Int
  <2>1. sent \in SUBSET Int /\ IsFiniteSet(sent) /\ sent \subseteq DOMAIN lines /\ \A k \in DOMAIN lines : lines[k].at \in Int
    BY <1>3, StampsAre
  <2>2. sent # {} => Max(sent) \in sent
    BY <2>1, HasMax
  <2>3. sent # {} => lines[Max(sent)].at \in Int
    BY <2>1, <2>2
  <2>4. lines[Max(sent)].at \in Int => quiet \in Int
    BY <1>3
  <2> HIDE DEF sent
  <2> QED
    BY <2>3, <2>4
<1>10. colour = "green" => rate.num > 0
  <2> HIDE DEF colour, rate, quiet, sent
  <2> QED
    BY <1>6, <1>8, <1>9
<1>11. colour = "dim" => rate.num = 0
  <2> HIDE DEF colour, rate, quiet, sent
  <2>1. quiet \in Int /\ quiet >= 50 => quiet > 20
    OBVIOUS
  <2> QED
    BY <1>6, <1>8, <1>9, <2>1
<1>12. /\ "zeros" \in notes <=>
             /\ Final(lines, "vehicle") # {}
             /\ \A signs \in Final(lines, "vehicle") \cup Final(lines, "motor") : "zeros" \in signs
       /\ "pressed" \in notes <=> \E signs \in Final(lines, "vehicle") : "pressed" \in signs
       /\ "left lost" \in notes <=>
             /\ \E signs \in Final(lines, "c_eps") : {"left", "enable"} \subseteq signs
             /\ \E signs \in Final(lines, "eps") : "straight" \in signs
  BY <1>3, NotesAreOfTheLast
<1>13. (Cardinality(sent) >= 2 /\ quiet >= 0 /\ quiet < p) => Abs(rate.num * p - rate.den) <= p
  BY <1>6 DEF Off
<1>14. found.rate = rate /\ found.notes = notes /\ found.exit = exit /\ found.monitor = monitor /\ found.colour = colour
  OBVIOUS
<1> HIDE DEF sent, quiet, rate, notes, monitor, colour, exit, found
<1>15. (sent = {} \/ quiet > RATE_WINDOW) => rate.num = 0
  BY <1>6 DEF RATE_WINDOW
<1>16. IsShown(lines, p, now, j.snapshot, found) =
        /\ (Cardinality(sent) >= 2 /\ quiet >= 0 /\ quiet < p)
                => Abs(found.rate.num * p - found.rate.den) <= p
        /\ (sent = {} \/ quiet > RATE_WINDOW) => found.rate.num = 0
        /\ found.rate.num > 0 => "vcu" \notin found.notes
        /\ found.colour = "green" => found.rate.num > 0
        /\ found.colour = "dim" => found.rate.num = 0
        /\ found.monitor.count = Cardinality(sent)
        /\ "zeros" \in found.notes <=>
                /\ Final(lines, "vehicle") # {}
                /\ \A signs \in Final(lines, "vehicle") \cup Final(lines, "motor") : "zeros" \in signs
        /\ "pressed" \in found.notes <=> \E signs \in Final(lines, "vehicle") : "pressed" \in signs
        /\ "left lost" \in found.notes <=>
                /\ \E signs \in Final(lines, "c_eps") : {"left", "enable"} \subseteq signs
                /\ \E signs \in Final(lines, "eps") : "straight" \in signs
        /\ (found.exit = 1) = IF j.snapshot THEN \A id \in KnownIds : FramesOf(lines, id) = {}
                              ELSE \E k \in DOMAIN lines : lines[k].form = "end"
  BY Zenon DEF IsShown, sent, quiet
<1>17. IsShown(lines, p, now, j.snapshot, found)
  BY <1>5, <1>7, <1>8, <1>10, <1>11, <1>12, <1>13, <1>14, <1>15, <1>16
<1> QED
  BY <1>2, <1>17 DEF lines, p, now

-----------------------------------------------------------------------------
(* vcu_status and monitor_can: the runs                                    *)

\* What a vcu job asks for.
VcuJob == job.tool = "vcu" => VcuAsked(job)

\* What the jobs put on the bus.
LEMMA LinesAre ==
    /\ \A id \in BusIds, at \in Int : Frame(id, at) \in BusLines
    /\ \A id \in BusIds, at \in Int, signs \in SUBSET BusSigns : SignedFrame(id, at, signs) \in BusLines
    /\ \A form \in BusForms, at \in Int : NoFrame(form, at) \in BusLines
<1>1. ASSUME NEW id \in BusIds, NEW at \in Int PROVE Frame(id, at) \in BusLines
  <2>1. at \div 4 \in Int
    BY DivFacts
  <2>2. "frame" \in BusForms /\ {} \in SUBSET BusSigns
    BY DEF BusForms
  <2> QED
    BY <2>1, <2>2 DEF Frame, BusLines
<1>2. ASSUME NEW id \in BusIds, NEW at \in Int, NEW signs \in SUBSET BusSigns
      PROVE  SignedFrame(id, at, signs) \in BusLines
  <2>1. Frame(id, at) \in BusLines
    BY <1>1
  <2>2. SignedFrame(id, at, signs) = [Frame(id, at) EXCEPT !.signs = signs]
    BY DEF SignedFrame
  <2> QED
    BY <2>1, <2>2 DEF BusLines
<1>3. ASSUME NEW form \in BusForms, NEW at \in Int PROVE NoFrame(form, at) \in BusLines
  <2>1. "motor" \in BusIds /\ {} \in SUBSET BusSigns
    BY DEF BusIds, KnownIds, VCU_IDS
  <2> QED
    BY <2>1 DEF NoFrame, BusLines
<1> QED
  BY <1>1, <1>2, <1>3

\* The frames of a sender, followed by lines that are not its frames.
LEMMA FollowedBy ==
    ASSUME NEW p \in Nat \ {0}, NEW n \in Nat, NEW rest \in Seq(BusLines),
           \A k \in DOMAIN rest : ~(rest[k].form = "frame" /\ rest[k].id = "motor")
    PROVE  LET lines == Steady(p, 3, n) \o rest
           IN  lines \in Seq(BusLines) /\ Steadily(lines, p, 3 - p, FramesOf(lines, "motor"))
<1> DEFINE steady == Steady(p, 3, n)
           lines == steady \o rest
<1>1. ASSUME NEW k \in 1..n PROVE Frame("motor", 3 + p * (k - 1)) \in BusLines
  <2>1. p * (k - 1) \in Int /\ "motor" \in BusIds
    BY DEF BusIds, KnownIds, VCU_IDS
  <2> QED
    BY <2>1, LinesAre
<1>2. steady \in [1..n -> BusLines]
  BY <1>1 DEF Steady
<1>3. steady \in Seq(BusLines) /\ Len(steady) = n
  <2> HIDE DEF steady
  <2> QED
    BY <1>2
<1>4. \A k \in 1..n : steady[k].form = "frame" /\ steady[k].id = "motor" /\ steady[k].at = 3 + p * (k - 1)
  BY DEF Steady, Frame
<1> HIDE DEF steady
<1>5. /\ lines \in Seq(BusLines) /\ DOMAIN lines = 1..n + Len(rest) /\ Len(rest) \in Nat
      /\ \A k \in DOMAIN lines : lines[k] = IF k <= n THEN steady[k] ELSE rest[k - n]
  BY <1>3
<1> HIDE DEF lines
<1>6. FramesOf(lines, "motor") = 1..n
  <2>1. ASSUME NEW k \in DOMAIN lines PROVE lines[k].form = "frame" /\ lines[k].id = "motor" <=> k \in 1..n
    <3>1. CASE k <= n
      <4>1. k \in 1..n
        BY <1>5, <3>1
      <4> QED
        BY <1>4, <1>5, <3>1, <4>1
    <3>2. CASE ~(k <= n)
      <4>1. k - n \in DOMAIN rest /\ lines[k] = rest[k - n]
        BY <1>5, <3>2
      <4> QED
        BY <3>2, <4>1
    <3> QED
      BY <3>1, <3>2
  <2>2. 1..n \subseteq DOMAIN lines
    BY <1>5
  <2> QED
    BY <2>1, <2>2 DEF FramesOf
<1>7. ASSUME NEW k \in 1..n PROVE lines[k].at = 3 - p + p * Cardinality(UpToKey(1..n, k))
  <2>1. UpToKey(1..n, k) = 1..k
    BY DEF UpToKey
  <2>2. Cardinality(1..k) = k
    BY FS_Interval
  <2>3. lines[k].at = 3 + p * (k - 1)
    <3>1. k \in DOMAIN lines /\ k <= n
      BY <1>5
    <3> QED
      BY <1>4, <1>5, <3>1
  <2>4. p * (k - 1) = p * k - p * 1 /\ p * k \in Int
    BY SumTimes
  <2> QED
    BY <2>1, <2>2, <2>3, <2>4
<1>8. lines \in Seq(BusLines) /\ Steadily(lines, p, 3 - p, FramesOf(lines, "motor"))
  BY <1>5, <1>6, <1>7 DEF Steadily
<1> QED
  BY <1>8 DEF lines, steady

\* Every vcu job asks for such a bus: with a steady sender ...
LEMMA VcuJobs == JobVcu => VcuJob
<1> SUFFICES ASSUME JobVcu PROVE VcuAsked(job)
  BY Zenon DEF VcuJob
<1>1. PICK p \in {1, 2, 5}, n \in 0..25, later \in 0..30, snapshot \in BOOLEAN, remote \in BOOLEAN :
        \E other \in Afterwards(remote, p * n) :
            job = [tool |-> "vcu", period |-> p, now |-> p * n + later, snapshot |-> snapshot,
                   remote |-> remote, lines |-> Steady(p, 3, n) \o <<other>> \o Ends(remote, later, p * n)]
  BY Zenon DEF JobVcu
<1>2. PICK other \in Afterwards(remote, p * n) :
            job = [tool |-> "vcu", period |-> p, now |-> p * n + later, snapshot |-> snapshot,
                   remote |-> remote, lines |-> Steady(p, 3, n) \o <<other>> \o Ends(remote, later, p * n)]
  BY <1>1, Zenon
<1> DEFINE at == p * n
           end == Ends(remote, later, at)
           rest == <<other>> \o end
           steady == Steady(p, 3, n)
           lines == steady \o rest
<1>3. at \in Int /\ p \in Nat \ {0} /\ n \in Nat
  OBVIOUS
<1> HIDE DEF at
<1>4. other \in BusLines /\ other.form # "end" /\ ~(other.form = "frame" /\ other.id = "motor")
  <2>1. other \in {Frame("eps", at), Frame("unknown", at), NoFrame("not hex", at), NoFrame("error frame", at)}
    BY DEF Afterwards, at
  <2>2. /\ Frame("eps", at) \in BusLines /\ Frame("unknown", at) \in BusLines
        /\ NoFrame("not hex", at) \in BusLines /\ NoFrame("error frame", at) \in BusLines
    <3>1. "eps" \in BusIds /\ "unknown" \in BusIds /\ "not hex" \in BusForms /\ "error frame" \in BusForms
      BY DEF BusIds, KnownIds, VCU_IDS, BusForms
    <3> QED
      BY <1>3, <3>1, LinesAre
  <2>3. /\ Frame("eps", at).form = "frame" /\ Frame("eps", at).id = "eps"
        /\ Frame("unknown", at).form = "frame" /\ Frame("unknown", at).id = "unknown"
        /\ NoFrame("not hex", at).form = "not hex" /\ NoFrame("error frame", at).form = "error frame"
    BY DEF Frame, NoFrame
  <2> QED
    BY <2>1, <2>2, <2>3
<1>5. /\ end \in Seq(BusLines) /\ Len(end) \in Nat
      /\ \A k \in DOMAIN end : end[k].form # "frame" /\ (end[k].form = "end" => remote)
  <2>1. CASE later = 30
    <3> DEFINE line == NoFrame(IF remote THEN "end" ELSE "nothing", at)
    <3>1. end = <<line>>
      BY <2>1 DEF Ends
    <3>2. line \in BusLines /\ line.form # "frame" /\ (line.form = "end" => remote)
      <4>1. "end" \in BusForms /\ "nothing" \in BusForms
        BY DEF BusForms
      <4>2. NoFrame("end", at) \in BusLines /\ NoFrame("nothing", at) \in BusLines
        BY <1>3, <4>1, LinesAre
      <4>3. NoFrame("end", at).form = "end" /\ NoFrame("nothing", at).form = "nothing"
        BY DEF NoFrame
      <4> QED
        BY <4>2, <4>3
    <3> HIDE DEF line, end
    <3> QED
      BY <3>1, <3>2
  <2>2. CASE later # 30
    <3>1. end = <<>>
      BY <2>2 DEF Ends
    <3> HIDE DEF end
    <3> QED
      BY <3>1
  <2> QED
    BY <2>1, <2>2
<1> HIDE DEF end
<1>6. /\ rest \in Seq(BusLines)
      /\ \A k \in DOMAIN rest : ~(rest[k].form = "frame" /\ rest[k].id = "motor") /\ (rest[k].form = "end" => remote)
  <2>1. rest \in Seq(BusLines) /\ Len(rest) = 1 + Len(end)
    BY <1>4, <1>5
  <2>2. \A k \in DOMAIN rest : rest[k] = IF k = 1 THEN other ELSE end[k - 1]
    BY <1>4, <1>5
  <2>3. \A k \in DOMAIN rest : k = 1 \/ k - 1 \in DOMAIN end
    BY <2>1, <1>5
  <2> HIDE DEF rest
  <2> QED
    BY <1>4, <1>5, <2>1, <2>2, <2>3
<1> HIDE DEF rest
<1>7. lines \in Seq(BusLines) /\ Steadily(lines, p, 3 - p, FramesOf(lines, "motor"))
  BY <1>3, <1>6, FollowedBy
<1>8. steady \in Seq(BusLines) /\ \A k \in DOMAIN steady : steady[k].form = "frame"
  <2>1. \A k \in 1..n : Frame("motor", 3 + p * (k - 1)) \in BusLines /\ Frame("motor", 3 + p * (k - 1)).form = "frame"
    <3> TAKE k \in 1..n
    <3>1. p * (k - 1) \in Int /\ "motor" \in BusIds
      BY <1>3 DEF BusIds, KnownIds, VCU_IDS
    <3>2. Frame("motor", 3 + p * (k - 1)) \in BusLines
      BY <3>1, LinesAre
    <3> QED
      BY <3>2 DEF Frame
  <2>2. steady = [k \in 1..n |-> Frame("motor", 3 + p * (k - 1))]
    BY DEF Steady
  <2>3. DOMAIN steady = 1..n /\ \A k \in 1..n : steady[k] \in BusLines /\ steady[k].form = "frame"
    BY <2>1, <2>2
  <2>4. steady \in [1..n -> BusLines]
    BY <2>1, <2>2
  <2> HIDE DEF steady
  <2> QED
    BY <1>3, <2>3, <2>4
<1> HIDE DEF steady
<1>9. \A k \in DOMAIN lines : lines[k].form = "end" => remote
  <2>1. Len(steady) \in Nat /\ Len(rest) \in Nat
    BY <1>6, <1>8
  <2>2. DOMAIN lines = 1..Len(steady) + Len(rest)
    BY <1>6, <1>8
  <2>3. \A k \in DOMAIN lines : lines[k] = IF k <= Len(steady) THEN steady[k] ELSE rest[k - Len(steady)]
    BY <1>6, <1>8
  <2>4. \A k \in DOMAIN lines : IF k <= Len(steady) THEN k \in DOMAIN steady ELSE k - Len(steady) \in DOMAIN rest
    BY <1>6, <1>8, <2>1, <2>2
  <2> HIDE DEF lines
  <2> QED
    BY <1>6, <1>8, <2>3, <2>4
<1>10. lines = Steady(p, 3, n) \o <<other>> \o Ends(remote, later, p * n)
  <2>1. steady \o rest = steady \o <<other>> \o end
    BY <1>4, <1>5, <1>8 DEF rest
  <2> QED
    BY <2>1 DEF steady, end, at
<1> HIDE DEF lines
<1>11. /\ job.lines = lines /\ job.period = p /\ job.now = at + later
      /\ job.remote = remote /\ job.snapshot = snapshot
  BY <1>2, <1>10 DEF at
<1>12. 3 - p \in Int /\ at + later \in Int
  BY <1>3
<1> QED
  BY <1>3, <1>7, <1>9, <1>11, <1>12 DEF VcuAsked

\* A line that may stand between the motor's frames, and a frame of the motor.
Others(line) == line \in BusLines /\ ~(line.form = "frame" /\ line.id = "motor")
OfMotor(line) == line \in BusLines /\ line.form = "frame" /\ line.id = "motor" /\ line.at = 3

\* The signs of a cart that wakes are not the motor's frames.
LEMMA SignsAreOthers ==
    /\ \A line \in Signs : Others(line)
    /\ \A line \in {SignedFrame("motor", 3, {"zeros"}), Frame("motor", 3)} : OfMotor(line)
<1>1. ASSUME NEW id \in {"vehicle", "eps", "c_eps"}, NEW signs \in SUBSET BusSigns
      PROVE  Others(SignedFrame(id, 0, signs)) /\ Others(Frame(id, 0))
  <2>1. id \in BusIds
    BY DEF BusIds, KnownIds, VCU_IDS, ADS_IDS
  <2>2. SignedFrame(id, 0, signs) \in BusLines /\ Frame(id, 0) \in BusLines
    BY <2>1, LinesAre
  <2>3. SignedFrame(id, 0, signs).id = id /\ Frame(id, 0).id = id
    BY DEF SignedFrame, Frame
  <2>4. id # "motor"
    OBVIOUS
  <2> QED
    BY <2>2, <2>3, <2>4 DEF Others
<1>2. Others(NoFrame("error frame", 0))
  <2>1. "error frame" \in BusForms
    BY DEF BusForms
  <2>2. 0 \in Int
    OBVIOUS
  <2>3. NoFrame("error frame", 0) \in BusLines
    BY <2>1, <2>2, LinesAre, Zenon
  <2>4. NoFrame("error frame", 0).form = "error frame"
    BY DEF NoFrame
  <2> QED
    BY <2>3, <2>4 DEF Others
<1>3. /\ {"zeros"} \in SUBSET BusSigns /\ {"pressed"} \in SUBSET BusSigns /\ {"manual", "straight"} \in SUBSET BusSigns
      /\ {"left", "enable"} \in SUBSET BusSigns /\ {"left"} \in SUBSET BusSigns
  BY DEF BusSigns
<1>4. \A line \in Signs : Others(line)
  <2>1. /\ Others(SignedFrame("vehicle", 0, {"zeros"})) /\ Others(SignedFrame("vehicle", 0, {"pressed"}))
        /\ Others(Frame("vehicle", 0)) /\ Others(SignedFrame("eps", 0, {"manual", "straight"}))
        /\ Others(Frame("eps", 0)) /\ Others(SignedFrame("c_eps", 0, {"left", "enable"}))
        /\ Others(SignedFrame("c_eps", 0, {"left"}))
    BY <1>1, <1>3
  <2> QED
    BY <1>2, <2>1 DEF Signs
<1>5. OfMotor(SignedFrame("motor", 3, {"zeros"})) /\ OfMotor(Frame("motor", 3))
  <2>1. "motor" \in BusIds
    BY DEF BusIds, KnownIds, VCU_IDS
  <2>2. SignedFrame("motor", 3, {"zeros"}) \in BusLines /\ Frame("motor", 3) \in BusLines
    BY <1>3, <2>1, LinesAre
  <2>3. /\ Frame("motor", 3).form = "frame" /\ Frame("motor", 3).id = "motor" /\ Frame("motor", 3).at = 3
        /\ SignedFrame("motor", 3, {"zeros"}).form = "frame" /\ SignedFrame("motor", 3, {"zeros"}).id = "motor"
        /\ SignedFrame("motor", 3, {"zeros"}).at = 3
    BY DEF SignedFrame, Frame
  <2> QED
    BY <2>2, <2>3 DEF OfMotor
<1> QED
  BY <1>4, <1>5

\* ... and with a cart that wakes.
LEMMA WakeJobs == JobWake => VcuJob
<1> DEFINE Motors == {SignedFrame("motor", 3, {"zeros"}), Frame("motor", 3)}
<1> SUFFICES ASSUME NEW woken \in SeqsUpTo(Signs, 4), NEW motor \in SeqsUpTo(Motors, 1),
                    job = [tool |-> "vcu", period |-> 5, now |-> 4, snapshot |-> TRUE, remote |-> TRUE,
                           lines |-> woken \o motor]
             PROVE  VcuAsked(job)
  BY Zenon DEF JobWake, VcuJob
<1> DEFINE lines == woken \o motor
<1>1. \A line \in Signs : line \in BusLines /\ ~(line.form = "frame" /\ line.id = "motor")
  BY SignsAreOthers DEF Others
<1>2. \A line \in Motors : line \in BusLines /\ line.form = "frame" /\ line.id = "motor" /\ line.at = 3
  BY SignsAreOthers DEF OfMotor
<1> HIDE DEF Motors
<1>3. /\ woken \in Seq(Signs) /\ Len(woken) \in Nat /\ \A k \in DOMAIN woken : woken[k] \in Signs
      /\ motor \in Seq(Motors) /\ Len(motor) \in 0..1 /\ \A k \in DOMAIN motor : motor[k] \in Motors
  <2>1. woken \in Seq(Signs) /\ motor \in Seq(Motors)
    BY SomeSeqs
  <2>2. Len(motor) \in 0..1
    BY <2>1 DEF SeqsUpTo
  <2> QED
    BY <2>1, <2>2
<1>4. woken \in Seq(BusLines) /\ motor \in Seq(BusLines)
  BY <1>1, <1>2, <1>3
<1>5. /\ lines \in Seq(BusLines) /\ DOMAIN lines = 1..Len(woken) + Len(motor)
      /\ \A k \in DOMAIN lines : lines[k] = IF k <= Len(woken) THEN woken[k] ELSE motor[k - Len(woken)]
  BY <1>3, <1>4
<1> HIDE DEF lines
<1> DEFINE last == Len(woken) + 1
           sent == FramesOf(lines, "motor")
<1>6. ASSUME NEW k \in DOMAIN lines, lines[k].form = "frame", lines[k].id = "motor" PROVE k = last /\ lines[k].at = 3
  <2>1. CASE k <= Len(woken)
    <3>1. k \in DOMAIN woken
      BY <1>3, <1>5, <2>1
    <3>2. lines[k] \in Signs
      BY <1>3, <1>5, <2>1, <3>1
    <3> QED
      BY <1>1, <1>6, <3>2
  <2>2. CASE ~(k <= Len(woken))
    <3>1. k = last /\ k - Len(woken) \in DOMAIN motor
      BY <1>3, <1>5, <2>2
    <3>2. lines[k] \in Motors
      BY <1>3, <1>5, <2>2, <3>1
    <3> QED
      BY <1>2, <3>1, <3>2
  <2> QED
    BY <2>1, <2>2
<1>7. ASSUME NEW k \in sent PROVE lines[k].at = -2 + 5 * Cardinality(UpToKey(sent, k))
  <2>1. \A i \in sent : i = last /\ lines[i].at = 3
    BY <1>6 DEF FramesOf
  <2>2. last \in Int
    BY <1>3
  <2> HIDE DEF last, sent
  <2>3. UpToKey(sent, k) = {k}
    BY <2>1, <2>2 DEF UpToKey
  <2>4. Cardinality({k}) = 1
    BY FS_Singleton
  <2> QED
    BY <2>1, <2>3, <2>4
<1>8. Steadily(lines, 5, -2, FramesOf(lines, "motor")) /\ -2 \in Int
  BY <1>7 DEF Steadily
<1>9. job.lines = lines /\ job.period = 5 /\ job.now = 4 /\ job.remote = TRUE /\ job.snapshot = TRUE
  BY DEF lines
<1>10. 5 \in Nat \ {0} /\ 4 \in Int /\ TRUE \in BOOLEAN
  OBVIOUS
<1>11. \E start \in Int : Steadily(lines, 5, start, FramesOf(lines, "motor"))
  BY <1>8, Zenon
<1> QED
  BY <1>5, <1>9, <1>10, <1>11, Zenon DEF VcuAsked

\* vcu_status and monitor_can: every bus of the run is shown as it is.
THEOREM BusInRun == Spec => []RateIsShown
<1> DEFINE Inv == VcuJob /\ Ran("vcu", VcuResult(job))
<1>1. Init => Inv
  BY JobsOfOthers, JobsProved, VcuJobs, WakeJobs DEF Init, Ran, VcuJob
<1>2. Inv /\ [Next]_vars => Inv'
  BY JobStays, RunsOnce DEF VcuJob
<1>3. Inv => RateIsShown
  <2> SUFFICES ASSUME Inv, Did("vcu") PROVE IsShown(job.lines, job.period, job.now, job.snapshot, out)
    BY DEF RateIsShown
  <2>1. out = VcuResult(job) /\ VcuAsked(job)
    BY DEF Did, Ran, VcuJob
  <2>2. IsShown(job.lines, job.period, job.now, job.snapshot, VcuResult(job))
    BY <2>1, AnyBusIsShown
  <2> QED
    BY <2>1, <2>2
<1> QED
  BY <1>1, <1>2, <1>3, PTL DEF Spec

-----------------------------------------------------------------------------
(* twin_go                                                                 *)
(* It does not take an earlier arrival for its own.  That it waits for     *)
(* UNSET is enough, although it sees the planner's state late: whoever has *)
(* seen UNSET knows that the earlier goal is gone for good, and only its   *)
(* own goal is reached from then on.                                       *)

TwinTypeOK ==
    /\ go \in {"localizing", "clearing", "clear wait", "setting", "engaging", "driving"} \cup Ended
    /\ seen \in RouteStates \cup {"nothing"}
    /\ route \in RouteStates
    /\ goal \in {"nobody", "earlier", "operator", "own"}
    /\ arrived \in {"nobody", "earlier", "own"}

\* The planner's state and its goal belong together.
GoalFitsRoute ==
    /\ route = "UNSET" <=> goal = "nobody"
    /\ route = "ARRIVED" => arrived = goal

\* Once UNSET has been seen, the earlier goal is not there any more.
EarlierIsGone == seen = "UNSET" => goal # "earlier"

\* From the time that twin_go may set its route.
Cleared == {"setting", "engaging", "driving", "goal set", "arrived"}
OnlyOwnIsReached ==
    go \in Cleared => goal # "earlier" /\ (seen = "ARRIVED" => arrived = "own")

IInv == TwinTypeOK /\ GoalFitsRoute /\ EarlierIsGone /\ OnlyOwnIsReached /\ ArrivesAtOwnGoal

LEMMA TwinStarts == TwinInit => IInv
  BY DEF TwinInit, IInv, TwinTypeOK, RouteStates, Ended, GoalFitsRoute, EarlierIsGone,
         Cleared, OnlyOwnIsReached, ArrivesAtOwnGoal

\* What twin_go does leaves the planner's goal alone, but for its own route.
LEMMA ScriptKeepsGoal ==
    ASSUME IInv,
           \/ WaitLocalized \/ CallClear \/ WaitCleared \/ CallSet \/ NoEngage \/ Engage
           \/ SeesArrival \/ GiveUp
    PROVE  IInv'
<1> USE DEF IInv, TwinTypeOK, RouteStates, Ended, GoalFitsRoute, EarlierIsGone,
            Cleared, OnlyOwnIsReached, ArrivesAtOwnGoal, Goes
<1>1. CASE WaitLocalized
  BY <1>1 DEF WaitLocalized
<1>2. CASE CallClear
  BY <1>2 DEF CallClear
<1>3. CASE WaitCleared
  BY <1>3 DEF WaitCleared, MaySet
<1>4. CASE CallSet
  <2>1. CASE route = "UNSET"
    BY <1>4, <2>1 DEF CallSet
  <2>2. CASE route # "UNSET"
    BY <1>4, <2>2 DEF CallSet
  <2> QED
    BY <2>1, <2>2
<1>5. CASE NoEngage \/ Engage
  BY <1>5 DEF NoEngage, Engage
<1>6. CASE SeesArrival
  BY <1>6 DEF SeesArrival
<1>7. CASE GiveUp
  BY <1>7 DEF GiveUp
<1> QED
  BY <1>1, <1>2, <1>3, <1>4, <1>5, <1>6, <1>7

\* Nobody but the earlier drive itself has its goal, and a clear ends it.
LEMMA StackKeepsGoal ==
    ASSUME IInv, See \/ TakesClear \/ Arrives \/ OperatorSets
    PROVE  IInv'
<1> USE DEF IInv, TwinTypeOK, RouteStates, Ended, GoalFitsRoute, EarlierIsGone,
            Cleared, OnlyOwnIsReached, ArrivesAtOwnGoal
<1>1. CASE See
  BY <1>1 DEF See
<1>2. CASE TakesClear
  BY <1>2 DEF TakesClear
<1>3. CASE Arrives
  BY <1>3 DEF Arrives
<1>4. CASE OperatorSets
  BY <1>4 DEF OperatorSets
<1> QED
  BY <1>1, <1>2, <1>3, <1>4

LEMMA TwinKeeps == IInv /\ [TwinNext]_twin => IInv'
<1> SUFFICES ASSUME IInv, [TwinNext]_twin PROVE IInv'
  OBVIOUS
<1>1. CASE TwinNext
  BY <1>1, ScriptKeepsGoal, StackKeepsGoal DEF TwinNext
<1>2. CASE UNCHANGED twin
  BY <1>2 DEF twin, IInv, TwinTypeOK, GoalFitsRoute, EarlierIsGone, OnlyOwnIsReached,
              ArrivesAtOwnGoal
<1> QED
  BY <1>1, <1>2

\* twin_go reports an arrival only when the vehicle stands at the goal of its
\* own route: however late the planner acts on the clear or its state is seen,
\* whatever route stood before, and however often the operator sets his own
\* before and after.
THEOREM OwnArrival == TwinSpec => []ArrivesAtOwnGoal
<1>1. IInv => ArrivesAtOwnGoal
  BY DEF IInv
<1> QED
  BY <1>1, TwinStarts, TwinKeeps, PTL DEF TwinSpec
=============================================================================

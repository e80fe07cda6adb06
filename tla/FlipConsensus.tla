----------------------------- MODULE FlipConsensus -----------------------------
(***************************************************************************)
(* Resolving the planar flip across boards (resolveFlips,                   *)
(* golfcart_aruco_localizer/src/solver.cpp).  A sighting of a square marker *)
(* has two solutions; each one implies a pose of the vehicle, and the pose  *)
(* most sightings can agree on wins.                                        *)
(*                                                                         *)
(* The poses enter only through which of them agree.  Agreement is within   *)
(* tolerances, so that it is reflexive and symmetric and nothing else: it   *)
(* is not transitive, and the model assumes nothing more of it.             *)
(***************************************************************************)
EXTENDS Integers, FiniteSets

CONSTANTS
  MaxSightings,  \* a window holds 0 .. MaxSightings sightings
  BoardIds,      \* boards of the map
  BoardOf        \* the board that is sighted: [1 .. MaxSightings -> BoardIds]

ASSUME ConsensusAssumption ==
  /\ MaxSightings \in Nat
  /\ BoardOf \in [1..MaxSightings -> BoardIds]

VARIABLES
  sightings,  \* how many sightings the window holds
  agree,      \* the pairs of candidates that agree
  clear,      \* a lone sighting passes the ambiguity gate; not read for more
  result      \* ConsensusResult

consensusVars == <<sightings, agree, clear, result>>

\* Candidates in the order they are pushed: 2s - 1 and 2s are the first and the
\* second solution of sighting s.
Candidates(n) == 1 .. 2 * n

SightingOf(c) == (c + 1) \div 2

Agrees(c, d) == <<c, d>> \in agree

Pending == [status |-> "pending", members |-> {}, outliers |-> {}]

Fail(status) == [status |-> status, members |-> {}, outliers |-> {}]

-------------------------------------------------------------------------------
(* Clusters *)

\* Variant for the mutation runs: both solutions of a sighting may join.
ClusterOfBoth(seed) == {c \in Candidates(sightings) : Agrees(seed, c)}

\* The cluster grown about a seed: of every sighting the first of its
\* candidates that agrees with the seed.
Cluster(seed) ==
  {c \in Candidates(sightings) :
     /\ Agrees(seed, c)
     /\ \A d \in Candidates(sightings) :
          SightingOf(d) = SightingOf(c) /\ d < c => ~Agrees(seed, d)}

Size(seed) == Cardinality(Cluster(seed))

\* Variant: the best cluster is not updated while the others are scanned.
IsLargestSoFar(seed) ==
  \A other \in Candidates(sightings) : other < seed => Size(other) <= Size(seed)

IsLargest(seed) == \A other \in Candidates(sightings) : Size(other) <= Size(seed)

\* The first of the largest clusters.
IsBest(seed) ==
  /\ IsLargest(seed)
  /\ \A other \in Candidates(sightings) : other < seed => ~IsLargest(other)

\* Variant: only a larger rival counts.
IsBeaten(best) ==
  \E rival \in Candidates(sightings) :
    Size(rival) > Size(best) /\ ~Agrees(rival, best)

\* Another cluster of the same size about a pose that disagrees.
IsTied(best) ==
  \E rival \in Candidates(sightings) :
    Size(rival) = Size(best) /\ ~Agrees(rival, best)

Sightings(candidates) == {SightingOf(c) : c \in candidates}

Agreed(best) ==
  [status   |-> "ok",
   members  |-> Cluster(best),
   outliers |-> {BoardOf[s] : s \in 1..sightings \ Sightings(Cluster(best))}]

-------------------------------------------------------------------------------
(* resolveFlips, by how many sightings there are and what they agree on *)

NoSightings == sightings = 0 /\ result' = Fail("no_boards")

LoneSighting ==
  /\ sightings = 1
  /\ result' = IF clear THEN [status |-> "ok", members |-> {1}, outliers |-> {}]
                        ELSE Fail("ambiguous")

Vote ==
  /\ sightings >= 2
  /\ \E best \in Candidates(sightings) :
       /\ IsBest(best)
       /\ \/ /\ Size(best) < 2
             /\ result' = Fail("no_agreement")
          \/ /\ Size(best) >= 2
             /\ IsTied(best)
             /\ result' = Fail("tied")
          \/ /\ Size(best) >= 2
             /\ ~IsTied(best)
             /\ result' = Agreed(best)

ResolveFlips ==
  /\ result = Pending
  /\ NoSightings \/ LoneSighting \/ Vote
  /\ UNCHANGED <<sightings, agree, clear>>

\* Every way n sightings may agree: a set of unordered pairs, made symmetric
\* and reflexive.
Agreements(n) ==
  {{p \in Candidates(n) \X Candidates(n) : p[1] = p[2] \/ {p[1], p[2]} \in pairs} :
     pairs \in SUBSET {e \in SUBSET Candidates(n) : Cardinality(e) = 2}}

ConsensusInit ==
  /\ sightings \in 0..MaxSightings
  /\ agree \in Agreements(sightings)
  /\ clear \in IF sightings = 1 THEN BOOLEAN ELSE {FALSE}
  /\ result = Pending

ConsensusSpec == ConsensusInit /\ [][ResolveFlips]_consensusVars

-------------------------------------------------------------------------------
(* Properties *)

\* Candidates that one pose of the vehicle could explain: at most one solution
\* of a sighting, and any two agree.
IsConsistent(candidates) ==
  \A c, d \in candidates : Agrees(c, d) /\ (c # d => SightingOf(c) # SightingOf(d))

\* The status is ok only for the strongest explanation there is: no consistent
\* set of candidates is larger than the members.  solver.cpp:155-198.
NothingStronger ==
  result.status = "ok" =>
    \A explanation \in SUBSET Candidates(sightings) :
      IsConsistent(explanation) => Cardinality(explanation) <= Cardinality(result.members)

\* A fix is refused rather than guessed: the members share a pose, and every
\* consistent explanation as large as they are shares it with them.  Two equally
\* strong explanations of different poses give no fix.  solver.cpp:199-214.
NoGuess ==
  result.status = "ok" /\ sightings >= 2 =>
    \E seed \in Candidates(sightings) :
      /\ \A c \in result.members : Agrees(seed, c)
      /\ \A explanation \in SUBSET Candidates(sightings) :
           /\ IsConsistent(explanation)
           /\ Cardinality(explanation) = Cardinality(result.members)
           => \A c \in explanation : Agrees(c, seed)

\* Every sighting is judged once: one of its solutions is a member, or neither of
\* them agrees with the pose of the members and its board is reported to the
\* integrity monitor.  solver.cpp:217-232.
EverySightingJudged ==
  result.status = "ok" =>
    \E seed \in Candidates(sightings) : \A s \in 1..sightings :
      LET members == {c \in result.members : SightingOf(c) = s} IN
        \/ Cardinality(members) = 1 /\ \A c \in members : Agrees(seed, c)
        \/ /\ BoardOf[s] \in result.outliers
           /\ \A c \in Candidates(sightings) : SightingOf(c) = s => ~Agrees(seed, c)

\* "At most one solution per board: a board cannot corroborate itself"
\* (solver.cpp:173-174).  The members of a fix from two sightings or more come
\* from two boards or more.
NoSelfCorroboration ==
  result.status = "ok" /\ sightings >= 2 =>
    Cardinality({BoardOf[SightingOf(c)] : c \in result.members}) >= 2
===============================================================================

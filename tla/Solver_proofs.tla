---------------------------- MODULE Solver_proofs ----------------------------
(* Proofs about what the node makes of a window: about the flip consensus,   *)
(* for windows of any size and every way the candidates may agree, and about *)
(* the cold start that listens to its solves, for every cooldown, number of  *)
(* samples and set of positions.                                             *)
EXTENDS FlipConsensus, ColdStart, FiniteSetTheorems, SequenceTheorems, TLAPS

-------------------------------------------------------------------------------
(* Sightings and their two candidates *)

\* The other candidate of a sighting, where it comes first.
LEMMA EarlierCandidate ==
  ASSUME NEW c \in Nat \ {0}, NEW d \in Nat \ {0}, SightingOf(d) = SightingOf(c), d < c
  PROVE  d = c - 1 /\ \A e \in Nat \ {0} : SightingOf(e) = SightingOf(c) => d <= e
  BY DEF SightingOf

\* The window: candidates agree with themselves and with each other.
Window ==
  /\ sightings \in 0..MaxSightings
  /\ \A c, d \in Candidates(sightings) :
       Agrees(c, c) /\ (Agrees(c, d) <=> Agrees(d, c))

\* A cluster is a finite set of candidates.
LEMMA ClusterFinite ==
  ASSUME Window, NEW seed
  PROVE  /\ Cluster(seed) \subseteq Candidates(sightings)
         /\ IsFiniteSet(Cluster(seed))
         /\ Size(seed) \in Nat
<1>1. IsFiniteSet(Candidates(sightings))
  <2>1. 1 \in Int /\ 2 * sightings \in Int
    BY ConsensusAssumption DEF Window
  <2> QED
    BY <2>1, FS_Interval DEF Candidates
<1>2. Cluster(seed) \subseteq Candidates(sightings)
  BY DEF Cluster
<1> QED
  BY <1>1, <1>2, FS_Subset, FS_CardinalityType DEF Size

\* A sighting with a candidate that agrees with the seed is in its cluster.
LEMMA ClusterComplete ==
  ASSUME Window, NEW seed, NEW c \in Candidates(sightings), Agrees(seed, c)
  PROVE  \E d \in Cluster(seed) : SightingOf(d) = SightingOf(c)
<1>1. Candidates(sightings) \subseteq Nat \ {0}
  BY ConsensusAssumption DEF Candidates, Window
<1>2. CASE c \in Cluster(seed)
  BY <1>2
<1>3. CASE c \notin Cluster(seed)
  <2>1. PICK d \in Candidates(sightings) :
          SightingOf(d) = SightingOf(c) /\ d < c /\ Agrees(seed, d)
    BY <1>3 DEF Cluster
  <2>2. \A e \in Candidates(sightings) : SightingOf(e) = SightingOf(c) => d <= e
    BY <1>1, <2>1, EarlierCandidate
  <2>3. d \in Cluster(seed)
    BY <1>1, <2>1, <2>2 DEF Cluster
  <2> QED
    BY <2>1, <2>3
<1> QED
  BY <1>2, <1>3

\* It holds one candidate of a sighting at most.
LEMMA ClusterUnique ==
  ASSUME Window, NEW seed, NEW c \in Cluster(seed), NEW d \in Cluster(seed),
         SightingOf(c) = SightingOf(d)
  PROVE  c = d
<1>1. c \in Nat /\ d \in Nat
  BY ConsensusAssumption DEF Cluster, Candidates, Window
<1>2. ~(c < d) /\ ~(d < c)
  BY DEF Cluster
<1> QED
  BY <1>1, <1>2

\* A consistent set that agrees with a seed is no larger than the seed's
\* cluster: each of its sightings has a place there.
LEMMA ConsistentFits ==
  ASSUME Window, NEW X \in SUBSET Candidates(sightings), IsConsistent(X), NEW seed \in X
  PROVE  /\ IsFiniteSet(X)
         /\ Cardinality(X) <= Size(seed)
<1> DEFINE f == [x \in X |-> CHOOSE y \in Cluster(seed) : SightingOf(y) = SightingOf(x)]
<1>1. \A x \in X : f[x] \in Cluster(seed) /\ SightingOf(f[x]) = SightingOf(x)
  <2> SUFFICES ASSUME NEW x \in X
               PROVE  \E y \in Cluster(seed) : SightingOf(y) = SightingOf(x)
    OBVIOUS
  <2>1. Agrees(seed, x)
    BY DEF IsConsistent
  <2> QED
    BY <2>1, ClusterComplete
<1> HIDE DEF f
<1>2. f \in [X -> Cluster(seed)]
  BY <1>1 DEF f
<1>3. \A x, y \in X : f[x] = f[y] => x = y
  BY <1>1 DEF IsConsistent
<1>4. f \in Injection(X, Cluster(seed))
  BY <1>2, <1>3 DEF Injection, IsInjective
<1> QED
  BY <1>4, ClusterFinite, FS_Injection DEF Size

-------------------------------------------------------------------------------
(* What is known of a result *)

\* The two ways to the status ok.
ByLoneSighting ==
  sightings = 1 /\ result.members = {1} /\ result.outliers = {}

ByVote(best) ==
  /\ IsLargest(best)
  /\ ~IsTied(best)
  /\ Size(best) >= 2
  /\ result.members = Agreed(best).members
  /\ result.outliers = Agreed(best).outliers

ResultInv ==
  result.status = "ok" =>
    \/ ByLoneSighting
    \/ sightings >= 2 /\ \E best \in Candidates(sightings) : ByVote(best)

ConsensusInv == Window /\ ResultInv

LEMMA InitWindow == ConsensusInit => ConsensusInv
<1> SUFFICES ASSUME ConsensusInit PROVE ConsensusInv
  OBVIOUS
<1>1. PICK pairs : agree = {p \in Candidates(sightings) \X Candidates(sightings) :
                             p[1] = p[2] \/ {p[1], p[2]} \in pairs}
  BY DEF ConsensusInit, Agreements
<1>2. \A c, d : {c, d} = {d, c}
  OBVIOUS
<1>3. Window
  BY <1>1, <1>2 DEF ConsensusInit, Window, Agrees
<1> QED
  BY <1>3 DEF ConsensusInit, Pending, ConsensusInv, ResultInv

LEMMA NextWindow == ConsensusInv /\ [ResolveFlips]_consensusVars => ConsensusInv'
<1> SUFFICES ASSUME ConsensusInv, [ResolveFlips]_consensusVars PROVE ConsensusInv'
  OBVIOUS
<1>1. UNCHANGED <<sightings, agree>>
  BY DEF ResolveFlips, consensusVars
<1>2. Window'
  BY <1>1 DEF ConsensusInv, Window, Agrees, Candidates
<1>3. CASE NoSightings \/ LoneSighting
  BY <1>1, <1>2, <1>3
  DEF NoSightings, LoneSighting, Fail, ConsensusInv, ResultInv, ByLoneSighting
<1>4. CASE Vote
  <2> SUFFICES ASSUME result'.status = "ok"
               PROVE  sightings >= 2 /\ \E best \in Candidates(sightings) : ByVote(best)'
    BY <1>1, <1>2 DEF ConsensusInv, ResultInv, Candidates
  <2>1. PICK best \in Candidates(sightings) :
          /\ IsLargest(best) /\ Size(best) >= 2 /\ ~IsTied(best)
          /\ result' = Agreed(best)
    BY <1>4 DEF Vote, Fail, IsBest
  <2>2. /\ IsLargest(best)' = IsLargest(best)
        /\ IsTied(best)' = IsTied(best)
        /\ Size(best)' = Size(best)
        /\ Agreed(best)' = Agreed(best)
    BY <1>1 DEF IsLargest, IsTied, Size, Cluster, Agrees, Candidates, Agreed, Sightings
  <2> QED
    BY <1>4, <2>1, <2>2 DEF Vote, ByVote
<1>5. CASE UNCHANGED consensusVars
  <2>1. result' = result
    BY <1>5 DEF consensusVars
  <2>2. ByLoneSighting => ByLoneSighting'
    BY <1>1, <2>1 DEF ByLoneSighting
  <2>3. ASSUME NEW best \in Candidates(sightings), ByVote(best) PROVE ByVote(best)'
    <3>1. /\ IsLargest(best)' = IsLargest(best)
          /\ IsTied(best)' = IsTied(best)
          /\ Size(best)' = Size(best)
          /\ Agreed(best)' = Agreed(best)
      BY <1>1 DEF IsLargest, IsTied, Size, Cluster, Agrees, Candidates, Agreed, Sightings
    <3> QED
      BY <2>1, <2>3, <3>1 DEF ByVote
  <2>4. Candidates(sightings)' = Candidates(sightings)
    BY <1>1 DEF Candidates
  <2> QED
    BY <1>1, <1>2, <2>1, <2>2, <2>3, <2>4 DEF ConsensusInv, ResultInv
<1> QED
  BY <1>3, <1>4, <1>5 DEF ResolveFlips

LEMMA ConsensusInvHolds == ConsensusSpec => []ConsensusInv
  BY InitWindow, NextWindow, PTL DEF ConsensusSpec

-------------------------------------------------------------------------------
(* The properties *)

\* No consistent explanation of a window is stronger than the members of the
\* fix: the clusters, grown greedily about every candidate, miss none.
THEOREM StrongestWins == ConsensusSpec => []NothingStronger
<1>1. ConsensusInv => NothingStronger
  <2> SUFFICES ASSUME ConsensusInv, result.status = "ok",
                      NEW X \in SUBSET Candidates(sightings), IsConsistent(X)
               PROVE  Cardinality(X) <= Cardinality(result.members)
    BY DEF NothingStronger
  <2>1. Window
    BY DEF ConsensusInv
  <2>2. CASE X = {}
    <3>1. Cardinality(result.members) \in Nat
      <4>1. CASE ByLoneSighting
        <5>1. result.members = {1}
          BY <4>1 DEF ByLoneSighting
        <5>2. Cardinality({1}) = 1
          BY FS_Singleton
        <5> QED
          BY <5>1, <5>2
      <4>2. CASE \E best \in Candidates(sightings) : ByVote(best)
        BY <2>1, <4>2, ClusterFinite DEF ByVote, Agreed, Size
      <4> QED
        BY <4>1, <4>2 DEF ConsensusInv, ResultInv
    <3> QED
      BY <2>2, <3>1, FS_EmptySet
  <2>3. CASE X # {}
    <3>1. PICK c \in X : TRUE
      BY <2>3
    <3>2. CASE ByLoneSighting
      <4>1. \A d \in X : d \in 1..2
        BY <3>2 DEF ByLoneSighting, Candidates
      <4>2. \A d \in X : d = c
        BY <4>1 DEF IsConsistent, SightingOf
      <4>3. X = {c}
        BY <4>2
      <4>4. result.members = {1}
        BY <3>2 DEF ByLoneSighting
      <4>5. Cardinality({c}) = 1 /\ Cardinality({1}) = 1
        BY FS_Singleton
      <4>6. Cardinality(X) = 1 /\ Cardinality(result.members) = 1
        BY <4>3, <4>4, <4>5
      <4> QED
        BY <4>6
    <3>3. CASE \E best \in Candidates(sightings) : ByVote(best)
      <4>1. PICK best \in Candidates(sightings) : ByVote(best)
        BY <3>3
      <4>2. Cardinality(X) <= Size(c) /\ Size(c) <= Size(best)
        BY <2>1, <4>1, ConsistentFits DEF ByVote, IsLargest
      <4>3. Cardinality(X) \in Nat /\ Size(c) \in Nat /\ Size(best) \in Nat
        BY <2>1, ConsistentFits, ClusterFinite, FS_CardinalityType
      <4> QED
        BY <4>1, <4>2, <4>3 DEF ByVote, Agreed, Size
    <3> QED
      BY <3>2, <3>3 DEF ConsensusInv, ResultInv
  <2> QED
    BY <2>2, <2>3
<1> QED
  BY <1>1, ConsensusInvHolds, PTL

\* Where two explanations are equally strong and of different poses there is no
\* fix, for any window.
THEOREM NeverGuesses == ConsensusSpec => []NoGuess
<1>1. ConsensusInv => NoGuess
  <2> SUFFICES ASSUME ConsensusInv, result.status = "ok", sightings >= 2 PROVE NoGuess
    BY DEF NoGuess
  <2>1. Window
    BY DEF ConsensusInv
  <2>2. PICK best \in Candidates(sightings) : ByVote(best)
    BY DEF ConsensusInv, ResultInv, ByLoneSighting
  <2>3. result.members = Cluster(best)
    BY <2>2 DEF ByVote, Agreed
  <2>4. \A c \in result.members : Agrees(best, c)
    BY <2>3 DEF Cluster
  <2>5. ASSUME NEW X \in SUBSET Candidates(sightings), IsConsistent(X),
               Cardinality(X) = Cardinality(result.members), NEW c \in X
        PROVE  Agrees(c, best)
    <3>1. Size(best) <= Size(c)
      BY <2>1, <2>3, <2>5, ConsistentFits DEF Size
    <3>2. Size(c) <= Size(best)
      BY <2>2 DEF ByVote, IsLargest
    <3>3. Size(c) = Size(best)
      BY <2>1, <3>1, <3>2, ClusterFinite
    <3> QED
      BY <2>2, <3>3 DEF ByVote, IsTied
  <2> QED
    BY <2>4, <2>5 DEF NoGuess
<1> QED
  BY <1>1, ConsensusInvHolds, PTL

\* Every sighting is a member once or reported.
THEOREM EveryoneJudged == ConsensusSpec => []EverySightingJudged
<1>1. ConsensusInv => EverySightingJudged
  <2> SUFFICES ASSUME ConsensusInv, result.status = "ok" PROVE EverySightingJudged
    BY DEF EverySightingJudged
  <2>1. Window
    BY DEF ConsensusInv
  <2> DEFINE MembersOf(s) == {c \in result.members : SightingOf(c) = s}
  <2>2. CASE ByLoneSighting
    <3>1. 1 \in Candidates(sightings) /\ SightingOf(1) = 1 /\ Agrees(1, 1)
      BY <2>1, <2>2 DEF ByLoneSighting, Candidates, SightingOf, Window
    <3>2. MembersOf(1) = {1}
      BY <2>2, <3>1 DEF ByLoneSighting
    <3>3. Cardinality(MembersOf(1)) = 1
      BY <3>2, FS_Singleton
    <3>4. 1..sightings = {1}
      BY <2>2 DEF ByLoneSighting
    <3> QED
      BY <3>1, <3>2, <3>3, <3>4 DEF EverySightingJudged
  <2>3. CASE \E best \in Candidates(sightings) : ByVote(best)
    <3>1. PICK best \in Candidates(sightings) : ByVote(best)
      BY <2>3
    <3>2. /\ result.members = Cluster(best)
          /\ result.outliers = {BoardOf[s] : s \in 1..sightings \ Sightings(Cluster(best))}
      BY <3>1 DEF ByVote, Agreed
    <3>3. ASSUME NEW s \in 1..sightings
          PROVE  \/ Cardinality(MembersOf(s)) = 1 /\ \A c \in MembersOf(s) : Agrees(best, c)
                 \/ /\ BoardOf[s] \in result.outliers
                    /\ \A c \in Candidates(sightings) : SightingOf(c) = s => ~Agrees(best, c)
      <4>1. CASE MembersOf(s) # {}
        <5>1. PICK c \in MembersOf(s) : TRUE
          BY <4>1
        <5>2. MembersOf(s) = {c}
          BY <2>1, <3>2, <5>1, ClusterUnique
        <5>3. Agrees(best, c)
          BY <3>2, <5>1 DEF Cluster
        <5> QED
          BY <5>2, <5>3, FS_Singleton
      <4>2. CASE MembersOf(s) = {}
        <5>1. s \notin Sightings(Cluster(best))
          BY <3>2, <4>2 DEF Sightings
        <5>2. \A c \in Candidates(sightings) : SightingOf(c) = s => ~Agrees(best, c)
          BY <2>1, <3>2, <4>2, ClusterComplete
        <5> QED
          BY <3>2, <5>1, <5>2
      <4> QED
        BY <4>1, <4>2
    <3> QED
      BY <3>3 DEF EverySightingJudged
  <2> QED
    BY <2>2, <2>3 DEF ConsensusInv, ResultInv
<1> QED
  BY <1>1, ConsensusInvHolds, PTL

-------------------------------------------------------------------------------
(* The cold start *)

Sample == [place : Places, age : 0..AgeCap]

\* Until a pose has been sent the node holds no more samples than solves have
\* passed the gates in a row: every other solve clears them.
FirstInARow ==
  since_sent = Never => ~initialized /\ Len(agreeing) <= in_a_row

\* ColdTypeOK without its flags, which no count depends on.
Counts ==
  /\ since_sent \in 0..Never
  /\ agreeing \in Seq(Sample)
  /\ Len(agreeing) <= Consecutive
  /\ in_a_row \in 0..Consecutive

CountInv == Counts /\ FirstInARow

LEMMA TypesSplit == ColdTypeOK <=> Flags /\ Counts
  BY DEF ColdTypeOK, Counts, Sample

-------------------------------------------------------------------------------
(* Ages and samples *)

LEMMA AgedBounded ==
  ASSUME NEW cap \in Nat, NEW n \in 0..cap
  PROVE  Aged(n, cap) \in 0..cap /\ Aged(n, cap) >= n /\ (n < cap => Aged(n, cap) = n + 1)
  BY DEF Aged

\* A node that has sent nothing stays that way while time passes, and one that
\* has is never taken for one that has not.
LEMMA SentAgeKnown ==
  ASSUME Counts
  PROVE  /\ SentAge \in 0..Never
         /\ SentAge = Never <=> since_sent = Never
  BY ColdStartAssumption DEF Counts, SentAge, Never, Aged

LEMMA AgedSamplesKnown ==
  ASSUME Counts
  PROVE  AgedSamples \in Seq(Sample) /\ Len(AgedSamples) = Len(agreeing)
<1>1. agreeing \in Seq(Sample)
  BY DEF Counts
<1>2. DOMAIN agreeing = 1..Len(agreeing) /\ Len(agreeing) \in Nat
  BY <1>1
<1>3. \A i \in 1..Len(agreeing) : agreeing[i] \in Sample
  BY <1>1
<1>4. \A i \in 1..Len(agreeing) :
        [place |-> agreeing[i].place, age |-> Aged(agreeing[i].age, AgeCap)] \in Sample
  BY <1>3, ColdStartAssumption, AgedBounded DEF Sample
<1>5. AgedSamples \in [1..Len(agreeing) -> Sample]
  BY <1>2, <1>4 DEF AgedSamples
<1>6. DOMAIN AgedSamples = 1..Len(agreeing)
  BY <1>5
<1>7. AgedSamples \in Seq(Sample)
  BY <1>2, <1>5, SeqDef
<1> QED
  BY <1>2, <1>6, <1>7, LenProperties

\* The deque grows by one sample, up to Consecutive.
LEMMA PushedKnown ==
  ASSUME Counts, NEW p \in Places
  PROVE  /\ Pushed(p) \in Seq(Sample)
         /\ Len(Pushed(p)) <= Consecutive
         /\ Len(Pushed(p)) <= Len(agreeing) + 1
<1> DEFINE new == [place |-> p, age |-> 0]
           all == Append(AgedSamples, new)
<1>1. new \in Sample
  BY ColdStartAssumption DEF Sample
<1>2. Len(agreeing) \in Nat /\ Len(agreeing) <= Consecutive
  BY DEF Counts
<1>3. all \in Seq(Sample) /\ Len(all) = Len(agreeing) + 1
  BY <1>1, AgedSamplesKnown, AppendProperties
<1>4. all # <<>>
  <2>1. Len(all) # 0
    BY <1>2, <1>3
  <2> QED
    BY <2>1, EmptySeq
<1>5. Tail(all) \in Seq(Sample) /\ Len(Tail(all)) = Len(all) - 1
  BY <1>3, <1>4, HeadTailProperties
<1>6. Pushed(p) = IF Len(all) > Consecutive THEN Tail(all) ELSE all
  BY DEF Pushed
<1> HIDE DEF all
<1> QED
  BY <1>2, <1>3, <1>5, <1>6, ColdStartAssumption

-------------------------------------------------------------------------------
(* The invariant *)

LEMMA InitCold == ColdInit => Flags /\ CountInv
<1> SUFFICES ASSUME ColdInit PROVE Flags /\ CountInv
  OBVIOUS
<1>1. Flags
  BY DEF ColdInit, NodeInit, OutsideInit, Flags
<1>2. agreeing = <<>> /\ since_sent = Never /\ in_a_row = 0 /\ initialized = FALSE
  BY DEF ColdInit, NodeInit
<1>3. agreeing \in Seq(Sample) /\ Len(agreeing) = 0
  BY <1>2, EmptySeq
<1>4. Never \in 0..Never /\ 0 \in 0..Consecutive
  BY ColdStartAssumption DEF Never
<1>5. Counts /\ FirstInARow
  BY <1>2, <1>3, <1>4, ColdStartAssumption DEF Counts, FirstInARow
<1> QED
  BY <1>1, <1>5 DEF CountInv

\* A flag is only ever set to a truth value.
LEMMA FlagsStep == Flags /\ [ColdNext]_coldVars => Flags'
<1> SUFFICES ASSUME Flags, [ColdNext]_coldVars PROVE Flags'
  OBVIOUS
<1> USE DEF Flags, outsideVars, nodeVars
<1>1. CASE Solves
  <2>1. PICK p \in Places : GoodSolve(p)
    BY <1>1 DEF Solves
  <2>2. UNCHANGED <<odom, service, filter, settled>>
    BY <2>1 DEF GoodSolve
  <2>3. CASE Skip
    BY <2>2, <2>3 DEF Skip
  <2>4. CASE Collect(p)
    BY <2>2, <2>4 DEF Collect
  <2>5. CASE SendInitialPose(p)
    <3>1. request' \in BOOLEAN /\ initialized' \in BOOLEAN
      BY <2>5 DEF SendInitialPose
    <3> QED
      BY <2>2, <3>1
  <2> QED
    BY <2>1, <2>3, <2>4, <2>5 DEF GoodSolve
<1>2. CASE PoorSolve
  BY <1>2 DEF PoorSolve, Skip, FailGates
<1>3. CASE NoSolve
  BY <1>3 DEF NoSolve
<1>4. CASE ReceiveOdometry
  BY <1>4 DEF ReceiveOdometry
<1>5. CASE RestartLocalizer
  BY <1>5 DEF RestartLocalizer
<1>6. CASE Outside
  <2>1. UNCHANGED nodeVars
    BY <1>6 DEF Outside, Accept, Reject, ServiceComes, ServiceGoes, FilterRestarts, Settle
  <2>2. {service, request, filter, settled}' \subseteq BOOLEAN
    BY <1>6 DEF Outside, Accept, Reject, ServiceComes, ServiceGoes, FilterRestarts, Settle
  <2> QED
    BY <2>1, <2>2
<1>7. CASE UNCHANGED coldVars
  BY <1>7 DEF coldVars
<1> QED
  BY <1>1, <1>2, <1>3, <1>4, <1>5, <1>6, <1>7 DEF ColdNext

LEMMA GoodSolveStep == CountInv /\ Solves => CountInv'
<1> SUFFICES ASSUME CountInv, NEW p \in Places, GoodSolve(p) PROVE CountInv'
  BY DEF Solves
<1>1. Counts /\ FirstInARow
  BY DEF CountInv
<1>2. in_a_row' \in 0..Consecutive /\ in_a_row' >= in_a_row
      /\ (in_a_row < Consecutive => in_a_row' = in_a_row + 1)
  BY <1>1, ColdStartAssumption, AgedBounded DEF GoodSolve, Counts
<1>3. Len(agreeing) \in Nat /\ in_a_row \in Nat /\ Consecutive \in Nat
  BY <1>1, ColdStartAssumption DEF Counts
<1>4. CASE Skip
  <2>1. Counts'
    BY <1>1, <1>2, <1>4, SentAgeKnown, AgedSamplesKnown
    DEF GoodSolve, Skip, Counts
  <2>2. FirstInARow'
    BY <1>1, <1>4, SentAgeKnown DEF Skip, Returns, FirstInARow, Never
  <2> QED
    BY <2>1, <2>2 DEF CountInv
<1>5. CASE Collect(p)
  <2>1. Counts'
    BY <1>1, <1>2, <1>5, SentAgeKnown, PushedKnown DEF GoodSolve, Collect, Counts
  <2>2. Len(Pushed(p)) \in Nat
    BY <1>1, PushedKnown
  <2>3. since_sent = Never => Len(Pushed(p)) <= in_a_row'
    BY <1>1, <1>2, <1>3, <2>2, PushedKnown DEF FirstInARow
  <2>4. FirstInARow'
    BY <1>1, <1>5, <2>3, SentAgeKnown DEF Collect, FirstInARow, Never
  <2> QED
    BY <2>1, <2>4 DEF CountInv
<1>6. CASE SendInitialPose(p)
  <2>1. Counts'
    BY <1>1, <1>2, <1>6, PushedKnown, ColdStartAssumption
    DEF GoodSolve, SendInitialPose, Counts, Never
  <2>2. FirstInARow'
    BY <1>6, ColdStartAssumption DEF SendInitialPose, FirstInARow, Never
  <2> QED
    BY <2>1, <2>2 DEF CountInv
<1> QED
  BY <1>4, <1>5, <1>6 DEF GoodSolve

\* A solve that fails the gates ends the run of good ones and clears the samples.
LEMMA PoorSolveStep == CountInv /\ PoorSolve => CountInv'
<1> SUFFICES ASSUME CountInv, PoorSolve PROVE CountInv'
  OBVIOUS
<1>1. Counts /\ FirstInARow
  BY DEF CountInv
<1>2. CASE Skip
  <2>1. Counts'
    BY <1>1, <1>2, SentAgeKnown, AgedSamplesKnown, ColdStartAssumption
    DEF PoorSolve, Skip, Counts
  <2>2. FirstInARow'
    BY <1>1, <1>2, SentAgeKnown DEF Skip, Returns, FirstInARow, Never
  <2> QED
    BY <2>1, <2>2 DEF CountInv
<1>3. CASE FailGates
  <2>1. agreeing' \in Seq(Sample) /\ Len(agreeing') = 0
    BY <1>3 DEF FailGates
  <2>2. Counts'
    BY <1>1, <1>3, <2>1, SentAgeKnown, ColdStartAssumption
    DEF PoorSolve, FailGates, Counts
  <2>3. FirstInARow'
    BY <1>3, <2>1 DEF PoorSolve, FailGates, FirstInARow
  <2> QED
    BY <2>2, <2>3 DEF CountInv
<1> QED
  BY <1>2, <1>3 DEF PoorSolve

LEMMA NoSolveStep == CountInv /\ NoSolve => CountInv'
<1> SUFFICES ASSUME CountInv, NoSolve PROVE CountInv'
  OBVIOUS
<1>1. Counts /\ FirstInARow
  BY DEF CountInv
<1>2. Counts'
  BY <1>1, SentAgeKnown, AgedSamplesKnown DEF NoSolve, outsideVars, Counts
<1>3. FirstInARow'
  BY <1>1, SentAgeKnown, AgedSamplesKnown DEF NoSolve, FirstInARow, Never
<1> QED
  BY <1>2, <1>3 DEF CountInv

LEMMA RestartStep == CountInv /\ RestartLocalizer => CountInv'
<1> SUFFICES ASSUME CountInv, RestartLocalizer PROVE CountInv'
  OBVIOUS
<1>1. agreeing' \in Seq(Sample) /\ Len(agreeing') = 0
  BY DEF RestartLocalizer
<1> QED
  BY <1>1, ColdStartAssumption
  DEF RestartLocalizer, outsideVars, CountInv, Counts, FirstInARow, Never

\* Nothing outside the node reaches its samples.
\* Nothing outside the node reaches its samples.
LEMMA OutsideStep == CountInv /\ (Outside \/ ReceiveOdometry) => CountInv'
<1> SUFFICES ASSUME CountInv, Outside \/ ReceiveOdometry PROVE CountInv'
  OBVIOUS
<1>1. UNCHANGED <<initialized, since_sent, agreeing, in_a_row>>
  BY DEF Outside, Accept, Reject, ServiceComes, ServiceGoes, FilterRestarts, Settle,
         ReceiveOdometry, nodeVars
<1> QED
  BY <1>1 DEF CountInv, Counts, FirstInARow, Never

LEMMA NextCold == CountInv /\ [ColdNext]_coldVars => CountInv'
<1> SUFFICES ASSUME CountInv, [ColdNext]_coldVars PROVE CountInv'
  OBVIOUS
<1>1. CASE UNCHANGED coldVars
  BY <1>1 DEF coldVars, nodeVars, CountInv, Counts, FirstInARow, Never
<1> QED
  BY <1>1, GoodSolveStep, PoorSolveStep, NoSolveStep, RestartStep, OutsideStep DEF ColdNext

LEMMA CountInvHolds == ColdSpec => []CountInv
<1>1. ColdInit => CountInv
  BY InitCold
<1> QED
  BY <1>1, NextCold, PTL DEF ColdSpec

-------------------------------------------------------------------------------
(* The theorems *)

\* The samples stay bounded and the ages within their ranges.
THEOREM ColdTypeCorrect == ColdSpec => []ColdTypeOK
<1>1. ColdInit => Flags
  BY InitCold
<1>2. Flags /\ CountInv => ColdTypeOK
  BY TypesSplit DEF CountInv
<1> QED
  BY <1>1, <1>2, FlagsStep, CountInvHolds, PTL DEF ColdSpec

\* The first pose a node sends rests on consecutive_solves solves in a row.
THEOREM FirstPoseConfirmed == ColdSpec => FirstPoseIsConfirmed
<1>1. CountInv /\ [ColdNext]_coldVars
      => [Sends /\ since_sent = Never => in_a_row' = Consecutive]_coldVars
  <2> SUFFICES ASSUME CountInv, [ColdNext]_coldVars, since_sent = Never,
                      NEW p \in Places, SendInitialPose(p), ~UNCHANGED coldVars
               PROVE  in_a_row' = Consecutive
    BY DEF Sends
  <2>1. in_a_row' = Aged(in_a_row, Consecutive)
    <3>1. ~initialized /\ initialized'
      BY DEF CountInv, FirstInARow, SendInitialPose
    <3>2. Solves
      BY <3>1 DEF ColdNext, PoorSolve, Skip, FailGates, NoSolve, ReceiveOdometry,
          RestartLocalizer, Outside, Accept, Reject, ServiceComes, ServiceGoes,
          FilterRestarts, Settle, nodeVars, SendInitialPose
    <3> QED
      BY <3>2 DEF Solves, GoodSolve
  <2>2. Len(Pushed(p)) >= Consecutive
    BY DEF SendInitialPose, MaySend
  <2>3. Len(agreeing) + 1 >= Consecutive
    BY <2>2, PushedKnown, ColdStartAssumption DEF CountInv, Counts
  <2> QED
    BY <2>1, <2>3, ColdStartAssumption DEF CountInv, Counts, FirstInARow, Aged
<1> QED
  BY <1>1, CountInvHolds, PTL DEF ColdSpec, FirstPoseIsConfirmed
===============================================================================

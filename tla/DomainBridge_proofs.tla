-------------------------- MODULE DomainBridge_proofs --------------------------
(***************************************************************************)
(* That the link is kept, for every set of publishers, every depth, rate   *)
(* and number of requests, and whatever files the two hosts read.          *)
(*                                                                         *)
(* The argument is about places: what waits in a lane has come one and the *)
(* same way, since a lane in the other direction on the same host, the     *)
(* only other thing that could feed it, is what the file's check refuses.  *)
(***************************************************************************)
EXTENDS DomainBridge, SequenceTheorems, TLAPS

\* The way to a lane, and what may wait in it or be kept behind it.
WayTo(l) == IF l[2] = "out" THEN <<l[1]>> ELSE <<Other(l[1]), "link">>
Waiting(l) == [by : Authors, path : {WayTo(l)}]
Kept(w) == [by : Authors, path : {IF w \in Authors THEN <<w[1]>> ELSE Append(WayTo(w), To(w))}]

OneWay == built \in Plans /\ offers \in Plans

Feeds(w, l) ==
    /\ w \in Publishers /\ l[2] \in built[l[1]]
    /\ IF w \in Authors THEN w[1] = From(l) ELSE w[2] \in built[w[1]] /\ To(w) = From(l)

TopicInv ==
    /\ matched = [l \in Lanes |-> matched[l]]
    /\ queue = [l \in Lanes |-> queue[l]]
    /\ held = [w \in Publishers |-> held[w]]
    /\ \A l \in Lanes : queue[l] \in Seq(Waiting(l)) /\ \A w \in matched[l] : Feeds(w, l)
    /\ \A w \in Publishers : held[w] \in Seq(Kept(w))

RateInv ==
    /\ clock \in Nat
    /\ sent \in [Lanes -> Seq(Nat)]
    /\ \A l \in Lanes : \A i \in 1..Len(sent[l]) : sent[l][i] <= clock
    /\ spec.capped \/ \A l \in Lanes : sent[l] = <<>>
    /\ RateIsHeld

\* How far a request may have come, and the lanes that it has come through.
Route(path) ==
    \E h \in Hosts :
        \/ path = <<h>>
        \/ path = <<h, "link">> /\ "out" \in offers[h]
        \/ path = <<h, "link", Other(h)>> /\ "out" \in offers[h] /\ "in" \in offers[Other(h)]

Phases == {"idle", "asking", "unanswered", "answering", "answered"}
CallInv ==
    /\ calls \in [Calls -> [phase : Phases, path : Seq(Hosts \cup {"link"})]]
    /\ \A c \in Calls :
        /\ calls[c].phase = "idle" => calls[c].path = <<>>
        /\ calls[c].phase # "idle" => Route(calls[c].path)
        /\ calls[c].phase \in {"answering", "answered"} => c \in served

IInv == OneWay /\ TopicInv /\ RateInv /\ CallInv
-----------------------------------------------------------------------------
(* Lanes.                                                                  *)

\* A lane is a host and a direction.
LEMMA LaneParts ==
    ASSUME NEW l \in Lanes
    PROVE  l[1] \in Hosts /\ l[2] \in {"out", "in"} /\ l = <<l[1], l[2]>>
  BY DEF Lanes

\* No host has both lanes of anything.
LEMMA NotBoth ==
    ASSUME NEW p \in Plans, NEW h \in Hosts, "out" \in p[h], "in" \in p[h]
    PROVE  FALSE
<1>1. PICK directions \in SUBSET {"orin_to_master", "master_to_orin"} :
            Accepts(directions) /\ p[h] \in {{}, ForRole(directions, h)}
  BY DEF Plans
<1>2. p[h] = ForRole(directions, h)
  BY <1>1
<1>3. CASE h = "master"
  BY <1>1, <1>2, <1>3 DEF ForRole, Accepts
<1>4. CASE h = "orin"
  BY <1>1, <1>2, <1>4 DEF ForRole, Accepts
<1> QED
  BY <1>3, <1>4 DEF Hosts

\* Sequences of up to three.
LEMMA SmallSeqs ==
    ASSUME NEW a, NEW b, NEW c
    PROVE  /\ Append(<<a>>, b) = <<a, b>>
           /\ Append(<<a, b>>, c) = <<a, b, c>>
           /\ SubSeq(<<a, b>>, 1, 1) = <<a>>
           /\ SubSeq(<<a, b, c>>, 1, 2) = <<a, b>>
<1> DEFINE S == {a, b, c}
<1>1. <<a>> \in Seq(S) /\ <<a, b>> \in Seq(S) /\ <<a, b, c>> \in Seq(S)
  OBVIOUS
<1>2. Append(<<a>>, b) = <<a, b>>
  <2>1. /\ Append(<<a>>, b) \in Seq(S) /\ Len(Append(<<a>>, b)) = 2
        /\ Append(<<a>>, b)[1] = a /\ Append(<<a>>, b)[2] = b
    BY <1>1, AppendProperties
  <2>2. Len(<<a, b>>) = 2 /\ <<a, b>>[1] = a /\ <<a, b>>[2] = b
    OBVIOUS
  <2>3. \A i \in 1..2 : Append(<<a>>, b)[i] = <<a, b>>[i]
    BY <2>1, <2>2
  <2> HIDE DEF S
  <2> QED
    BY <1>1, <2>1, <2>2, <2>3, SeqEqual
<1>3. Append(<<a, b>>, c) = <<a, b, c>>
  <2>1. /\ Append(<<a, b>>, c) \in Seq(S) /\ Len(Append(<<a, b>>, c)) = 3
        /\ Append(<<a, b>>, c)[1] = a /\ Append(<<a, b>>, c)[2] = b
        /\ Append(<<a, b>>, c)[3] = c
    BY <1>1, AppendProperties
  <2>2. Len(<<a, b, c>>) = 3 /\ <<a, b, c>>[1] = a /\ <<a, b, c>>[2] = b /\ <<a, b, c>>[3] = c
    OBVIOUS
  <2>3. \A i \in 1..3 : Append(<<a, b>>, c)[i] = <<a, b, c>>[i]
    BY <2>1, <2>2
  <2> HIDE DEF S
  <2> QED
    BY <1>1, <2>1, <2>2, <2>3, SeqEqual
<1>4. SubSeq(<<a, b>>, 1, 1) = <<a>>
  <2>1. \A i \in 1..1 : <<a, b>>[i] \in S
    OBVIOUS
  <2>2. /\ SubSeq(<<a, b>>, 1, 1) \in Seq(S) /\ Len(SubSeq(<<a, b>>, 1, 1)) = 1
        /\ \A i \in 1..1 : SubSeq(<<a, b>>, 1, 1)[i] = <<a, b>>[i]
    BY <2>1, SubSeqProperties
  <2>3. Len(<<a>>) = 1 /\ <<a>>[1] = <<a, b>>[1]
    OBVIOUS
  <2>4. \A i \in 1..1 : SubSeq(<<a, b>>, 1, 1)[i] = <<a>>[i]
    BY <2>2, <2>3
  <2> HIDE DEF S
  <2> QED
    BY <1>1, <2>2, <2>3, <2>4, SeqEqual
<1>5. SubSeq(<<a, b, c>>, 1, 2) = <<a, b>>
  <2>1. \A i \in 1..2 : <<a, b, c>>[i] \in S
    OBVIOUS
  <2>2. /\ SubSeq(<<a, b, c>>, 1, 2) \in Seq(S) /\ Len(SubSeq(<<a, b, c>>, 1, 2)) = 2
        /\ \A i \in 1..2 : SubSeq(<<a, b, c>>, 1, 2)[i] = <<a, b, c>>[i]
    BY <2>1, SubSeqProperties
  <2>3. Len(<<a, b>>) = 2 /\ <<a, b>>[1] = <<a, b, c>>[1] /\ <<a, b>>[2] = <<a, b, c>>[2]
    OBVIOUS
  <2>4. \A i \in 1..2 : SubSeq(<<a, b, c>>, 1, 2)[i] = <<a, b>>[i]
    BY <2>2, <2>3
  <2> HIDE DEF S
  <2> QED
    BY <1>1, <2>2, <2>3, <2>4, SeqEqual
<1> QED
  BY <1>2, <1>3, <1>4, <1>5

\* What feeds a lane keeps what may wait in the lane.
LEMMA FeedsFit ==
    ASSUME BridgeAssumption, built \in Plans, NEW l \in Lanes, NEW w, Feeds(w, l)
    PROVE  Kept(w) = Waiting(l)
<1>1. l[1] \in Hosts /\ l[2] \in {"out", "in"}
  BY LaneParts
<1>2. CASE w \in Authors
  <2>1. w[1] \in Hosts /\ w[1] = From(l)
    BY <1>2 DEF Feeds, BridgeAssumption
  <2>2. l[2] = "out" /\ w[1] = l[1]
    BY <1>1, <2>1 DEF From, Hosts
  <2> QED
    BY <1>2, <2>2 DEF Kept, Waiting, WayTo
<1>3. CASE w \notin Authors
  <2>1. /\ w \in Lanes /\ w[1] \in Hosts /\ w[2] \in {"out", "in"}
        /\ w[2] \in built[w[1]] /\ l[2] \in built[l[1]] /\ To(w) = From(l)
    BY <1>3, LaneParts DEF Feeds, Publishers
  <2>2. CASE l[2] = "out"
    <3>1. w[2] = "in" /\ w[1] = l[1]
      BY <1>1, <2>1, <2>2 DEF From, To, Hosts
    <3> QED
      BY <1>1, <2>1, <2>2, <3>1, NotBoth
  <2>3. CASE l[2] = "in"
    <3>1. w[2] = "out"
      BY <1>1, <2>1, <2>3 DEF From, To, Hosts
    <3>2. w[1] # l[1]
      BY <1>1, <2>1, <2>3, <3>1, NotBoth
    <3>3. w[1] = Other(l[1])
      BY <1>1, <2>1, <3>2 DEF Other, Hosts
    <3>4. Append(WayTo(w), To(w)) = WayTo(l)
      <4>1. WayTo(w) = <<w[1]>> /\ To(w) = "link"
        BY <3>1 DEF WayTo, To
      <4>2. WayTo(l) = <<Other(l[1]), "link">>
        BY <2>3 DEF WayTo
      <4> QED
        BY <3>3, <4>1, <4>2, SmallSeqs
    <3> QED
      BY <1>3, <3>4 DEF Kept, Waiting
  <2> QED
    BY <1>1, <2>2, <2>3
<1> QED
  BY <1>2, <1>3

\* Dropping the oldest leaves what was there.
LEMMA KeepLastType ==
    ASSUME BridgeAssumption, NEW S, NEW s \in Seq(S)
    PROVE  KeepLast(s) \in Seq(S) /\ Keep(s) \in Seq(S)
<1>1. Len(s) \in Nat /\ Depth \in Nat \ {0}
  BY LenProperties DEF BridgeAssumption
<1>2. CASE Len(s) <= Depth
  BY <1>2, EmptySeq DEF KeepLast, Keep
<1>3. CASE Len(s) > Depth
  <2>1. \A i \in (Len(s) + 1 - Depth)..Len(s) : s[i] \in S
    BY <1>1, <1>3, ElementOfSeq
  <2>2. SubSeq(s, Len(s) + 1 - Depth, Len(s)) \in Seq(S)
    BY <1>1, <2>1, SubSeqProperties
  <2> QED
    BY <1>1, <1>3, <2>2, EmptySeq DEF KeepLast, Keep
<1> QED
  BY <1>1, <1>2, <1>3

LEMMA AppendType ==
    ASSUME NEW S, NEW s \in Seq(S), NEW e \in S
    PROVE  Append(s, e) \in Seq(S)
  OBVIOUS

-----------------------------------------------------------------------------
(* The topic.                                                              *)

LEMMA TopicStarts ==
    ASSUME BridgeAssumption, Init
    PROVE  OneWay /\ TopicInv
<1>1. [h \in Hosts |-> {}] \in Plans
  <2>1. Accepts({})
    BY DEF Accepts
  <2> QED
    BY <2>1 DEF Plans
<1>2. OneWay
  BY <1>1 DEF Init, OneWay
<1>3. \A l \in Lanes : queue[l] \in Seq(Waiting(l)) /\ matched[l] = {}
  BY EmptySeq DEF Init
<1>4. \A w \in Publishers : held[w] \in Seq(Kept(w))
  BY EmptySeq DEF Init
<1> QED
  BY <1>2, <1>3, <1>4 DEF Init, TopicInv

\* What a publisher delivers fits every lane that has found it.
LEMMA Delivered ==
    ASSUME BridgeAssumption, OneWay, TopicInv, NEW w \in Publishers, NEW sample \in Kept(w),
           NEW waiting, \A l \in Lanes : waiting[l] \in Seq(Waiting(l)),
           Deliver(w, sample, waiting)
    PROVE  /\ queue' = [l \in Lanes |-> queue'[l]]
           /\ \A l \in Lanes : queue'[l] \in Seq(Waiting(l))
<1>1. queue' = [l \in Lanes |-> queue'[l]]
  BY DEF Deliver
<1>2. ASSUME NEW l \in Lanes PROVE queue'[l] \in Seq(Waiting(l))
  <2>1. CASE w \in matched[l]
    <3>1. sample \in Waiting(l)
      BY <2>1, FeedsFit DEF TopicInv, OneWay
    <3>2. Append(waiting[l], sample) \in Seq(Waiting(l))
      BY <3>1, AppendType
    <3> QED
      BY <2>1, <3>2, KeepLastType DEF Deliver
  <2>2. CASE w \notin matched[l]
    BY <2>2 DEF Deliver
  <2> QED
    BY <2>1, <2>2
<1> QED
  BY <1>1, <1>2

LEMMA PublishKeepsTopic ==
    ASSUME BridgeAssumption, OneWay, TopicInv, NEW a \in Authors, Publish(a)
    PROVE  TopicInv'
<1> DEFINE sample == [by |-> a, path |-> <<a[1]>>]
<1>1. sample \in Kept(a) /\ a \in Publishers
  BY DEF Kept, Publishers
<1>2. /\ queue' = [l \in Lanes |-> queue'[l]]
      /\ \A l \in Lanes : queue'[l] \in Seq(Waiting(l))
  BY <1>1, Delivered DEF Publish, TopicInv
<1>3. held' = [held EXCEPT ![a] = Keep(Append(@, sample))]
      /\ matched' = matched /\ built' = built
  BY DEF Publish, fixed
<1>4. ASSUME NEW w \in Publishers PROVE held'[w] \in Seq(Kept(w))
  <2>1. Keep(Append(held[a], sample)) \in Seq(Kept(a))
    BY <1>1, AppendType, KeepLastType DEF TopicInv
  <2> QED
    BY <1>1, <1>3, <2>1 DEF TopicInv
<1>5. held' = [w \in Publishers |-> held'[w]]
  BY <1>3 DEF TopicInv
<1>6. \A l \in Lanes : \A w \in matched'[l] : Feeds(w, l)'
  BY <1>3 DEF TopicInv, Feeds, Publishers
<1> QED
  BY <1>2, <1>3, <1>4, <1>5, <1>6 DEF TopicInv

LEMMA MatchKeepsTopic ==
    ASSUME BridgeAssumption, OneWay, TopicInv, NEW l \in Lanes, NEW w \in Publishers, Match(l, w)
    PROVE  TopicInv'
<1>1. Feeds(w, l)
  <2>1. CASE w \in Authors
    BY <2>1 DEF Match, Runs, Publishes, Feeds
  <2>2. CASE w \notin Authors
    BY <2>2 DEF Match, Runs, Publishes, Feeds
  <2> QED
    BY <2>1, <2>2
<1>2. KeepLast(queue[l] \o held[w]) \in Seq(Waiting(l))
  <2>1. queue[l] \in Seq(Waiting(l)) /\ held[w] \in Seq(Waiting(l))
    BY <1>1, FeedsFit DEF TopicInv, OneWay
  <2> QED
    BY <2>1, ConcatProperties, KeepLastType
<1>3. /\ matched' = [matched EXCEPT ![l] = @ \cup {w}]
      /\ queue' = [queue EXCEPT ![l] = KeepLast(@ \o held[w])]
      /\ held' = held /\ built' = built
  BY DEF Match, fixed
<1>4. \A k \in Lanes : queue'[k] \in Seq(Waiting(k))
  BY <1>2, <1>3 DEF TopicInv
<1>5. \A k \in Lanes : \A v \in matched'[k] : Feeds(v, k)
  BY <1>1, <1>3 DEF TopicInv
<1>6. \A k \in Lanes : \A v \in matched'[k] : Feeds(v, k)'
  BY <1>3, <1>5 DEF Feeds, Publishers
<1>7. matched' = [k \in Lanes |-> matched'[k]] /\ queue' = [k \in Lanes |-> queue'[k]]
  BY <1>3 DEF TopicInv
<1> QED
  BY <1>3, <1>4, <1>6, <1>7 DEF TopicInv

LEMMA ForwardKeepsTopic ==
    ASSUME BridgeAssumption, OneWay, TopicInv, NEW l \in Lanes, Forward(l)
    PROVE  TopicInv'
<1> DEFINE sample == Head(queue[l])
           copy == [sample EXCEPT !.path = Append(@, To(l))]
           rest == [queue EXCEPT ![l] = Tail(@)]
<1>1. sample \in Waiting(l) /\ Tail(queue[l]) \in Seq(Waiting(l))
  BY HeadTailProperties DEF Forward, TopicInv
<1>2. \A k \in Lanes : rest[k] \in Seq(Waiting(k))
  BY <1>1 DEF TopicInv
<1>3. matched' = matched /\ built' = built
  BY DEF Forward, fixed
<1>4. \A k \in Lanes : \A w \in matched'[k] : Feeds(w, k)'
  BY <1>3 DEF TopicInv, Feeds, Publishers
<1>5. CASE Throttled(l)
  <2>1. queue' = rest /\ held' = held
    BY <1>5 DEF Forward
  <2>2. rest = [k \in Lanes |-> rest[k]]
    BY DEF TopicInv
  <2> QED
    BY <1>2, <1>3, <1>4, <2>1, <2>2 DEF TopicInv
<1>6. CASE ~Throttled(l)
  <2>1. l \in Publishers /\ l \notin Authors
    BY DEF Publishers, BridgeAssumption
  <2>2. copy \in Kept(l)
    BY <1>1, <2>1 DEF Waiting, Kept
  <2>3. Deliver(l, copy, rest) /\ held' = [held EXCEPT ![l] = Keep(Append(@, copy))]
    BY <1>6 DEF Forward
  <2>4. /\ queue' = [k \in Lanes |-> queue'[k]]
        /\ \A k \in Lanes : queue'[k] \in Seq(Waiting(k))
    BY <1>2, <2>1, <2>2, <2>3, Delivered
  <2>5. Keep(Append(held[l], copy)) \in Seq(Kept(l))
    BY <2>1, <2>2, AppendType, KeepLastType DEF TopicInv
  <2>6. \A w \in Publishers : held'[w] \in Seq(Kept(w))
    BY <2>3, <2>5 DEF TopicInv
  <2>7. held' = [w \in Publishers |-> held'[w]]
    BY <2>3 DEF TopicInv
  <2> QED
    BY <1>3, <1>4, <2>4, <2>6, <2>7 DEF TopicInv
<1> QED
  BY <1>5, <1>6

LEMMA StopKeepsTopic ==
    ASSUME BridgeAssumption, OneWay, TopicInv, NEW h \in Hosts, Stop(h)
    PROVE  TopicInv'
<1>1. \A l \in Lanes : queue'[l] \in {<<>>, queue[l]} /\ matched'[l] \subseteq matched[l]
  BY DEF Stop
<1>2. \A w \in Publishers : held'[w] \in {<<>>, held[w]}
  BY DEF Stop, Publishers
<1>3. built' = built
  BY DEF Stop, fixed
<1>4. \A l \in Lanes : queue'[l] \in Seq(Waiting(l))
  BY <1>1, EmptySeq, ZenonT(60) DEF TopicInv
<1>5. \A w \in Publishers : held'[w] \in Seq(Kept(w))
  BY <1>2, EmptySeq, ZenonT(60) DEF TopicInv
<1>6. \A l \in Lanes : \A w \in matched'[l] : Feeds(w, l)'
  BY <1>1, <1>3 DEF TopicInv, Feeds, Publishers
<1>7. /\ matched' = [l \in Lanes |-> matched'[l]] /\ queue' = [l \in Lanes |-> queue'[l]]
      /\ held' = [w \in Publishers |-> held'[w]]
  BY DEF Stop
<1> QED
  BY <1>4, <1>5, <1>6, <1>7 DEF TopicInv

-----------------------------------------------------------------------------
(* The rate.                                                               *)

LEMMA ForwardKeepsRate ==
    ASSUME BridgeAssumption, RateInv, NEW l \in Lanes, Forward(l)
    PROVE  RateInv'
<1>1. clock' = clock /\ spec' = spec
  BY DEF Forward, fixed
<1>2. CASE sent' = sent
  BY <1>1, <1>2 DEF RateInv, RateIsHeld
<1>3. CASE sent' # sent
  <2>1. /\ ~Throttled(l) /\ spec.capped
        /\ sent' = [sent EXCEPT ![l] = Append(@, clock)]
    BY <1>3 DEF Forward, RateInv
  <2>2. sent' \in [Lanes -> Seq(Nat)] /\ sent'[l] = Append(sent[l], clock)
    BY <2>1 DEF RateInv
  <2>3. \A k \in Lanes : k # l => sent'[k] = sent[k]
    BY <2>1 DEF RateInv
  <2>4. sent[l] \in Seq(Nat) /\ Len(sent[l]) \in Nat /\ clock \in Nat
    BY DEF RateInv
  <2>5. /\ Len(sent'[l]) = Len(sent[l]) + 1
        /\ sent'[l][Len(sent[l]) + 1] = clock
        /\ \A i \in 1..Len(sent[l]) : sent'[l][i] = sent[l][i]
    BY <2>2, <2>4
  <2>6. \A k \in Lanes : \A i \in 1..Len(sent'[k]) : sent'[k][i] <= clock
    <3>1. ASSUME NEW k \in Lanes, k # l, NEW i \in 1..Len(sent'[k]) PROVE sent'[k][i] <= clock
      <4>1. sent'[k] = sent[k]
        BY <2>3, <3>1
      <4> QED
        BY <3>1, <4>1 DEF RateInv
    <3>2. ASSUME NEW i \in 1..Len(sent'[l]) PROVE sent'[l][i] <= clock
      <4>1. CASE i = Len(sent[l]) + 1
        BY <2>4, <2>5, <4>1
      <4>2. CASE i # Len(sent[l]) + 1
        <5>1. i \in 1..Len(sent[l])
          BY <2>4, <2>5, <3>2, <4>2
        <5> QED
          BY <2>5, <5>1 DEF RateInv
      <4> QED
        BY <4>1, <4>2
    <3> QED
      BY <3>1, <3>2
  <2>7. Len(sent[l]) > 0 => clock - sent[l][Len(sent[l])] >= Gap
    <3>1. SUFFICES ASSUME Len(sent[l]) > 0 PROVE clock - sent[l][Len(sent[l])] >= Gap
      OBVIOUS
    <3>2. sent[l] # <<>> /\ sent[l][Len(sent[l])] \in Nat /\ Gap \in Nat
      BY <2>4, <3>1 DEF BridgeAssumption
    <3> QED
      BY <2>1, <2>4, <3>2 DEF Throttled
  <2>8. \A i \in 1..Len(sent'[l]) - 1 : sent'[l][i + 1] - sent'[l][i] >= Gap
    <3>1. SUFFICES ASSUME NEW i \in 1..Len(sent'[l]) - 1
                   PROVE  sent'[l][i + 1] - sent'[l][i] >= Gap
      OBVIOUS
    <3>2. CASE i = Len(sent[l])
      <4>1. i + 1 = Len(sent[l]) + 1 /\ i \in 1..Len(sent[l])
        BY <2>4, <2>5, <3>1, <3>2
      <4>2. sent'[l][i + 1] = clock /\ sent'[l][i] = sent[l][Len(sent[l])]
        BY <2>5, <3>2, <4>1
      <4> QED
        BY <2>4, <2>7, <4>1, <4>2
    <3>3. CASE i # Len(sent[l])
      <4>1. i \in 1..Len(sent[l]) - 1 /\ i + 1 \in 1..Len(sent[l])
        BY <2>4, <2>5, <3>1, <3>3
      <4> QED
        BY <2>5, <4>1 DEF RateInv, RateIsHeld
    <3> QED
      BY <3>2, <3>3
  <2> QED
    BY <1>1, <2>1, <2>2, <2>3, <2>6, <2>8 DEF RateInv, RateIsHeld
<1> QED
  BY <1>2, <1>3

LEMMA StepKeepsRate ==
    ASSUME BridgeAssumption, RateInv, [Next]_vars
    PROVE  RateInv'
<1>1. ASSUME NEW l \in Lanes, Forward(l) PROVE RateInv'
  BY <1>1, ForwardKeepsRate
<1>2. ASSUME NEW h \in Hosts, Stop(h) PROVE RateInv'
  <2>1. /\ sent' = [l \in Lanes |-> IF l[1] = h THEN <<>> ELSE sent[l]]
        /\ clock' = clock /\ spec' = spec
    BY <1>2 DEF Stop, fixed
  <2>2. sent' \in [Lanes -> Seq(Nat)] /\ \A l \in Lanes : sent'[l] \in {<<>>, sent[l]}
    BY <2>1, EmptySeq DEF RateInv
  <2>3. Len(<<>>) = 0
    BY EmptySeq
  <2> QED
    BY <2>1, <2>2, <2>3 DEF RateInv, RateIsHeld
<1>3. CASE Tick
  <2>1. clock' = clock + 1 /\ sent' = sent /\ spec' = spec
    BY <1>3 DEF Tick, fixed, topic
  <2>2. \A l \in Lanes : \A i \in 1..Len(sent[l]) : sent[l][i] \in Nat /\ sent[l][i] <= clock + 1
    BY DEF RateInv
  <2> QED
    BY <2>1, <2>2 DEF RateInv, RateIsHeld
<1>4. CASE UNCHANGED <<sent, clock, spec>>
  BY <1>4 DEF RateInv, RateIsHeld
<1>5. ASSUME NEW a \in Authors, Publish(a) PROVE UNCHANGED <<sent, clock, spec>>
  BY <1>5 DEF Publish, fixed
<1>6. ASSUME NEW l \in Lanes, NEW w \in Publishers, Match(l, w)
      PROVE  UNCHANGED <<sent, clock, spec>>
  BY <1>6 DEF Match, fixed
<1>7. ASSUME NEW c \in Calls, NEW h \in Hosts, Call(c, h)
      PROVE  UNCHANGED <<sent, clock, spec>>
  BY <1>7 DEF Call, fixed, topic
<1>8. ASSUME NEW c \in Calls, NEW l \in Lanes, NEW ready \in BOOLEAN, ForwardRequest(c, l, ready)
      PROVE  UNCHANGED <<sent, clock, spec>>
  BY <1>8 DEF ForwardRequest, fixed, topic
<1>9. ASSUME NEW c \in Calls, Answer(c) \/ SendResponse(c)
      PROVE  UNCHANGED <<sent, clock, spec>>
  BY <1>9 DEF Answer, SendResponse, fixed, topic
<1>10. ASSUME NEW h \in Hosts, Start(h) PROVE UNCHANGED <<sent, clock, spec>>
  BY <1>10 DEF Start, fixed, topic
<1>11. ASSUME UNCHANGED vars PROVE UNCHANGED <<sent, clock, spec>>
  BY <1>11 DEF vars, fixed, topic
<1> QED
  BY <1>1, <1>2, <1>3, <1>4, <1>5, <1>6, <1>7, <1>8, <1>9, <1>10, <1>11 DEF Next

-----------------------------------------------------------------------------
(* The requests.                                                           *)

\* The way of a request, and the way back, one domain at a time.
LEMMA PathsAreShort ==
    ASSUME NEW h \in Hosts
    PROVE  /\ Len(<<h>>) = 1 /\ Len(<<h, "link">>) = 2 /\ Len(<<h, "link", Other(h)>>) = 3
           /\ Append(<<h>>, "link") = <<h, "link">>
           /\ Append(<<h, "link">>, Other(h)) = <<h, "link", Other(h)>>
           /\ SubSeq(<<h, "link">>, 1, 1) = <<h>>
           /\ SubSeq(<<h, "link", Other(h)>>, 1, 2) = <<h, "link">>
           /\ Other(h) \in Hosts /\ Other(h) # h /\ h # "link" /\ Other(h) # "link"
<1>1. Len(<<h>>) = 1 /\ Len(<<h, "link">>) = 2 /\ Len(<<h, "link", Other(h)>>) = 3
  OBVIOUS
<1>2. /\ Append(<<h>>, "link") = <<h, "link">>
      /\ Append(<<h, "link">>, Other(h)) = <<h, "link", Other(h)>>
      /\ SubSeq(<<h, "link">>, 1, 1) = <<h>>
      /\ SubSeq(<<h, "link", Other(h)>>, 1, 2) = <<h, "link">>
  BY SmallSeqs
<1>3. Other(h) \in Hosts /\ Other(h) # h /\ h # "link" /\ Other(h) # "link"
  BY DEF Other, Hosts
<1> QED
  BY <1>1, <1>2, <1>3

\* A request that a lane takes on has not been where it goes.
LEMMA RouteGoesOn ==
    ASSUME OneWay, NEW path, Route(path), NEW l \in Lanes,
           l[2] \in offers[l[1]], From(l) = path[Len(path)]
    PROVE  Route(Append(path, To(l)))
<1>1. l[1] \in Hosts /\ l[2] \in {"out", "in"}
  BY LaneParts
<1>2. PICK h \in Hosts :
        \/ path = <<h>>
        \/ path = <<h, "link">> /\ "out" \in offers[h]
        \/ path = <<h, "link", Other(h)>> /\ "out" \in offers[h] /\ "in" \in offers[Other(h)]
  BY DEF Route
<1>3. CASE path = <<h>>
  <2>1. From(l) = h
    BY <1>3, PathsAreShort
  <2>2. l[2] = "out" /\ l[1] = h
    BY <1>1, <2>1, PathsAreShort DEF From
  <2>3. Append(path, To(l)) = <<h, "link">>
    BY <1>3, <2>2, PathsAreShort DEF To
  <2> QED
    BY <2>2, <2>3 DEF Route
<1>4. CASE path = <<h, "link">> /\ "out" \in offers[h]
  <2>1. From(l) = "link"
    BY <1>4, PathsAreShort
  <2>2. l[2] = "in"
    BY <1>1, <2>1 DEF From, Hosts
  <2>3. l[1] # h
    BY <1>4, <2>2, NotBoth DEF OneWay
  <2>4. l[1] = Other(h)
    BY <1>1, <2>3 DEF Other, Hosts
  <2>5. To(l) = Other(h) /\ "in" \in offers[Other(h)]
    BY <2>2, <2>4 DEF To
  <2>6. Append(path, To(l)) = <<h, "link", Other(h)>>
    BY <1>4, <2>5, PathsAreShort
  <2> QED
    BY <1>4, <2>5, <2>6 DEF Route
<1>5. CASE path = <<h, "link", Other(h)>> /\ "out" \in offers[h] /\ "in" \in offers[Other(h)]
  <2>1. From(l) = Other(h)
    BY <1>5, PathsAreShort
  <2>2. l[2] = "out" /\ l[1] = Other(h)
    BY <1>1, <2>1, PathsAreShort DEF From
  <2> QED
    BY <1>5, <2>2, NotBoth, PathsAreShort DEF OneWay
<1> QED
  BY <1>2, <1>3, <1>4, <1>5

\* An answer goes back the same way.
LEMMA RouteComesBack ==
    ASSUME NEW path, Route(path), Len(path) # 1
    PROVE  Route(SubSeq(path, 1, Len(path) - 1))
<1>1. PICK h \in Hosts :
        \/ path = <<h>>
        \/ path = <<h, "link">> /\ "out" \in offers[h]
        \/ path = <<h, "link", Other(h)>> /\ "out" \in offers[h] /\ "in" \in offers[Other(h)]
  BY DEF Route
<1>2. CASE path = <<h, "link">>
  <2>1. Len(path) - 1 = 1
    BY <1>2, PathsAreShort
  <2> QED
    BY <1>2, <2>1, PathsAreShort DEF Route
<1>3. CASE path = <<h, "link", Other(h)>> /\ "out" \in offers[h]
  <2>1. Len(path) - 1 = 2
    BY <1>3, PathsAreShort
  <2> QED
    BY <1>3, <2>1, PathsAreShort DEF Route
<1> QED
  BY <1>1, <1>2, <1>3, PathsAreShort

LEMMA RouteIsSeq ==
    ASSUME NEW path, Route(path)
    PROVE  path \in Seq(Hosts \cup {"link"})
<1>1. PICK h \in Hosts : path \in {<<h>>, <<h, "link">>, <<h, "link", Other(h)>>}
  BY DEF Route
<1>2. {h, Other(h), "link"} \subseteq Hosts \cup {"link"}
  BY PathsAreShort
<1>3. /\ <<h>> \in Seq(Hosts \cup {"link"}) /\ <<h, "link">> \in Seq(Hosts \cup {"link"})
      /\ <<h, "link", Other(h)>> \in Seq(Hosts \cup {"link"})
  BY <1>2
<1> QED
  BY <1>1, <1>3

\* One request changes its state, to one that it may have.
LEMMA CallChanges ==
    ASSUME CallInv, offers' = offers, NEW c \in Calls, NEW call,
           call = [phase |-> call.phase, path |-> call.path],
           call.phase \in Phases \ {"idle"}, Route(call.path),
           calls' = [calls EXCEPT ![c] = call],
           served \subseteq served', call.phase \in {"answering", "answered"} => c \in served'
    PROVE  CallInv'
<1>1. call.path \in Seq(Hosts \cup {"link"})
  BY RouteIsSeq
<1>2. call \in [phase : Phases, path : Seq(Hosts \cup {"link"})]
  BY <1>1
<1>3. calls' \in [Calls -> [phase : Phases, path : Seq(Hosts \cup {"link"})]]
  BY <1>2 DEF CallInv
<1>4. \A p : Route(p)' <=> Route(p)
  BY DEF Route
<1>5. calls'[c] = call /\ \A b \in Calls : b # c => calls'[b] = calls[b]
  BY DEF CallInv
<1> QED
  BY <1>3, <1>4, <1>5 DEF CallInv

LEMMA StepKeepsCalls ==
    ASSUME OneWay, CallInv, [Next]_vars
    PROVE  CallInv'
<1>1. ASSUME NEW c \in Calls, NEW h \in Hosts, Call(c, h) PROVE CallInv'
  <2>1. Route(<<h>>) /\ "asking" \in Phases \ {"idle"}
    BY DEF Route, Phases
  <2> DEFINE call == [phase |-> "asking", path |-> <<h>>]
  <2>2. calls' = [calls EXCEPT ![c] = call] /\ offers' = offers /\ served' = served
    BY <1>1 DEF Call, fixed
  <2> HIDE DEF call
  <2>3. call = [phase |-> call.phase, path |-> call.path] /\ call.phase = "asking" /\ call.path = <<h>>
    BY DEF call
  <2> QED
    BY <2>1, <2>2, <2>3, CallChanges
<1>2. ASSUME NEW c \in Calls, NEW l \in Lanes, NEW ready \in BOOLEAN, ForwardRequest(c, l, ready)
      PROVE  CallInv'
  <2> DEFINE path == calls[c].path
  <2>1. /\ calls[c].phase = "asking" /\ l[2] \in offers[l[1]] /\ From(l) = path[Len(path)]
        /\ offers' = offers /\ served' = served
    BY <1>2 DEF ForwardRequest, Serves, Here, fixed
  <2>2. Route(path) /\ calls[c] = [phase |-> "asking", path |-> path]
    BY <2>1 DEF CallInv
  <2>3. CASE ready
    <3> DEFINE call == [calls[c] EXCEPT !.path = Append(calls[c].path, To(l))]
    <3>1. calls' = [calls EXCEPT ![c] = call]
      BY <1>2, <2>3 DEF ForwardRequest
    <3>2. /\ call = [phase |-> call.phase, path |-> call.path]
          /\ call.phase = "asking" /\ call.path = Append(path, To(l))
      BY <2>2
    <3>3. Route(call.path) /\ "asking" \in Phases \ {"idle"}
      BY <2>1, <2>2, <3>2, RouteGoesOn DEF Phases
    <3> HIDE DEF call
    <3> QED
      BY <2>1, <3>1, <3>2, <3>3, CallChanges
  <2>4. CASE ~ready
    <3> DEFINE call == [calls[c] EXCEPT !.phase = "unanswered"]
    <3>1. calls' = [calls EXCEPT ![c] = call]
      BY <1>2, <2>4 DEF ForwardRequest
    <3>2. /\ call = [phase |-> call.phase, path |-> call.path]
          /\ call.phase = "unanswered" /\ call.path = path
      BY <2>2
    <3>3. Route(call.path) /\ "unanswered" \in Phases \ {"idle"}
      BY <2>2, <3>2 DEF Phases
    <3> HIDE DEF call
    <3> QED
      BY <2>1, <3>1, <3>2, <3>3, CallChanges
  <2> QED
    BY <2>3, <2>4
<1>3. ASSUME NEW c \in Calls, Answer(c) PROVE CallInv'
  <2> DEFINE call == [calls[c] EXCEPT !.phase = "answering"]
  <2>1. /\ calls[c].phase = "asking" /\ calls' = [calls EXCEPT ![c] = call]
        /\ offers' = offers /\ served' = served \cup {c}
    BY <1>3 DEF Answer, fixed
  <2>2. Route(calls[c].path) /\ calls[c] = [phase |-> "asking", path |-> calls[c].path]
    BY <2>1 DEF CallInv
  <2>3. /\ call = [phase |-> call.phase, path |-> call.path]
        /\ call.phase = "answering" /\ call.path = calls[c].path
    BY <2>2
  <2>4. Route(call.path) /\ "answering" \in Phases \ {"idle"}
    BY <2>2, <2>3 DEF Phases
  <2> HIDE DEF call
  <2> QED
    BY <2>1, <2>3, <2>4, CallChanges
<1>4. ASSUME NEW c \in Calls, SendResponse(c) PROVE CallInv'
  <2> DEFINE path == calls[c].path
  <2>1. calls[c].phase = "answering" /\ offers' = offers /\ served' = served
    BY <1>4 DEF SendResponse, fixed
  <2>2. Route(path) /\ c \in served /\ calls[c] = [phase |-> "answering", path |-> path]
    BY <2>1 DEF CallInv
  <2>3. {"answering", "answered"} \subseteq Phases \ {"idle"}
    BY DEF Phases
  <2>4. CASE Len(path) = 1
    <3> DEFINE call == [calls[c] EXCEPT !.phase = "answered"]
    <3>1. calls' = [calls EXCEPT ![c] = call]
      BY <1>4, <2>4 DEF SendResponse
    <3>2. /\ call = [phase |-> call.phase, path |-> call.path]
          /\ call.phase = "answered" /\ call.path = path
      BY <2>2
    <3>3. Route(call.path)
      BY <2>2, <3>2
    <3> HIDE DEF call
    <3> QED
      BY <2>1, <2>2, <2>3, <3>1, <3>2, <3>3, CallChanges
  <2>5. CASE Len(path) # 1
    <3> DEFINE call == [calls[c] EXCEPT !.path = SubSeq(calls[c].path, 1, Len(calls[c].path) - 1)]
    <3>1. calls' = [calls EXCEPT ![c] = call]
      BY <1>4, <2>5 DEF SendResponse
    <3>2. /\ call = [phase |-> call.phase, path |-> call.path]
          /\ call.phase = "answering" /\ call.path = SubSeq(path, 1, Len(path) - 1)
      BY <2>2
    <3>3. Route(call.path)
      BY <2>2, <2>5, <3>2, RouteComesBack
    <3> HIDE DEF call
    <3> QED
      BY <2>1, <2>2, <2>3, <3>1, <3>2, <3>3, CallChanges
  <2> QED
    BY <2>4, <2>5
<1>5. ASSUME NEW h \in Hosts, Stop(h) PROVE CallInv'
  <2>1. /\ \A c \in Calls : calls'[c] = calls[c] \/
              (calls[c].phase \in {"asking", "answering"}
               /\ calls'[c] = [calls[c] EXCEPT !.phase = "unanswered"])
        /\ calls' = [c \in Calls |-> calls'[c]]
        /\ offers' = offers /\ served' = served
    BY <1>5 DEF Stop, fixed
  <2>2. \A p : Route(p)' <=> Route(p)
    BY <2>1 DEF Route
  <2>3. \A c \in Calls : calls'[c] \in [phase : Phases, path : Seq(Hosts \cup {"link"})]
    BY <2>1, ZenonT(60) DEF CallInv, Phases
  <2>4. calls' \in [Calls -> [phase : Phases, path : Seq(Hosts \cup {"link"})]]
    BY <2>1, <2>3
  <2>5. ASSUME NEW c \in Calls
        PROVE  /\ calls'[c].phase = "idle" => calls'[c].path = <<>>
               /\ calls'[c].phase # "idle" => Route(calls'[c].path)
               /\ calls'[c].phase \in {"answering", "answered"} => c \in served
    BY <2>1 DEF CallInv
  <2> QED
    BY <2>1, <2>2, <2>4, <2>5 DEF CallInv
<1>6. ASSUME UNCHANGED <<calls, served, offers>> PROVE CallInv'
  BY <1>6 DEF CallInv, Route
<1>7. ASSUME NEW a \in Authors, Publish(a) PROVE UNCHANGED <<calls, served, offers>>
  BY <1>7 DEF Publish, fixed, service
<1>8. ASSUME NEW l \in Lanes, NEW w \in Publishers, Match(l, w)
      PROVE  UNCHANGED <<calls, served, offers>>
  BY <1>8 DEF Match, fixed, service
<1>9. ASSUME NEW l \in Lanes, Forward(l) PROVE UNCHANGED <<calls, served, offers>>
  BY <1>9 DEF Forward, fixed, service
<1>10. ASSUME NEW h \in Hosts, Start(h) PROVE UNCHANGED <<calls, served, offers>>
  BY <1>10 DEF Start, fixed, service
<1>11. ASSUME Tick \/ UNCHANGED vars PROVE UNCHANGED <<calls, served, offers>>
  BY <1>11 DEF Tick, vars, fixed, service
<1> QED
  BY <1>1, <1>2, <1>3, <1>4, <1>5, <1>6, <1>7, <1>8, <1>9, <1>10, <1>11 DEF Next

-----------------------------------------------------------------------------
(* Together.                                                               *)

LEMMA StepKeepsTopic ==
    ASSUME BridgeAssumption, OneWay, TopicInv, [Next]_vars
    PROVE  OneWay' /\ TopicInv'
<1>1. UNCHANGED fixed
  BY DEF Next, Publish, Match, Forward, Call, ForwardRequest, Answer, SendResponse,
         Start, Stop, Tick, vars
<1>2. OneWay'
  BY <1>1 DEF OneWay, fixed, Plans, Accepts, ForRole
<1>3. ASSUME NEW a \in Authors, Publish(a) PROVE TopicInv'
  BY <1>3, PublishKeepsTopic
<1>4. ASSUME NEW l \in Lanes, NEW w \in Publishers, Match(l, w) PROVE TopicInv'
  BY <1>4, MatchKeepsTopic
<1>5. ASSUME NEW l \in Lanes, Forward(l) PROVE TopicInv'
  BY <1>5, ForwardKeepsTopic
<1>6. ASSUME NEW h \in Hosts, Stop(h) PROVE TopicInv'
  BY <1>6, StopKeepsTopic
<1>7. ASSUME UNCHANGED topic PROVE TopicInv'
  BY <1>1, <1>7 DEF TopicInv, topic, fixed, Feeds, Waiting, Kept, WayTo
<1>8. ASSUME NEW c \in Calls, NEW h \in Hosts, Call(c, h) PROVE UNCHANGED topic
  BY <1>8 DEF Call
<1>9. ASSUME NEW c \in Calls, NEW l \in Lanes, NEW ready \in BOOLEAN, ForwardRequest(c, l, ready)
      PROVE  UNCHANGED topic
  BY <1>9 DEF ForwardRequest
<1>10. ASSUME NEW c \in Calls, Answer(c) \/ SendResponse(c) PROVE UNCHANGED topic
  BY <1>10 DEF Answer, SendResponse
<1>11. ASSUME NEW h \in Hosts, Start(h) PROVE UNCHANGED topic
  BY <1>11 DEF Start
<1>12. ASSUME Tick \/ UNCHANGED vars PROVE UNCHANGED topic
  BY <1>12 DEF Tick, vars
<1> QED
  BY <1>2, <1>3, <1>4, <1>5, <1>6, <1>7, <1>8, <1>9, <1>10, <1>11, <1>12 DEF Next

LEMMA InitHolds ==
    ASSUME BridgeAssumption, Init
    PROVE  IInv
<1>1. OneWay /\ TopicInv
  BY TopicStarts
<1>2. RateInv
  <2>1. \A l \in Lanes : sent[l] = <<>>
    BY DEF Init
  <2>2. sent \in [Lanes -> Seq(Nat)] /\ Len(<<>>) = 0 /\ clock = 0
    BY EmptySeq DEF Init
  <2> QED
    BY <2>1, <2>2 DEF RateInv, RateIsHeld
<1>3. CallInv
  BY EmptySeq DEF Init, CallInv, Idle, Phases
<1> QED
  BY <1>1, <1>2, <1>3 DEF IInv

\* A way goes through no domain twice.
LEMMA WaysVisitOnce ==
    ASSUME NEW h \in Hosts
    PROVE  Visits(<<h>>) /\ Visits(<<h, "link">>) /\ Visits(<<h, "link", Other(h)>>)
<1>1. h # "link" /\ Other(h) # h /\ Other(h) # "link"
  BY PathsAreShort
<1>2. Visits(<<h>>)
  BY DEF Visits
<1>3. Visits(<<h, "link">>)
  BY <1>1 DEF Visits
<1>4. Visits(<<h, "link", Other(h)>>)
  BY <1>1 DEF Visits
<1> QED
  BY <1>2, <1>3, <1>4

LEMMA IInvIsEnough ==
    ASSUME IInv
    PROVE  LinkIsKept
<1>1. ASSUME NEW l \in Lanes, NEW i \in DOMAIN queue[l] PROVE Visits(queue[l][i].path)
  <2>1. queue[l] \in Seq(Waiting(l))
    BY DEF IInv, TopicInv
  <2>2. queue[l][i] \in Waiting(l)
    BY <2>1, LenProperties, ElementOfSeq
  <2>3. queue[l][i].path = WayTo(l)
    BY <2>2 DEF Waiting
  <2>4. l[1] \in Hosts /\ Other(l[1]) \in Hosts
    BY LaneParts, PathsAreShort
  <2> QED
    BY <2>3, <2>4, WaysVisitOnce DEF WayTo
<1>2. ASSUME NEW c \in Calls PROVE Visits(calls[c].path)
  <2>1. CASE calls[c].phase = "idle"
    BY <2>1 DEF IInv, CallInv, Visits
  <2>2. CASE calls[c].phase # "idle"
    <3>1. PICK h \in Hosts : calls[c].path \in {<<h>>, <<h, "link">>, <<h, "link", Other(h)>>}
      BY <2>2 DEF IInv, CallInv, Route
    <3> QED
      BY <3>1, WaysVisitOnce
  <2> QED
    BY <2>1, <2>2
<1>3. RateIsHeld /\ NoAnswerIsInvented
  BY DEF IInv, RateInv, CallInv, NoAnswerIsInvented
<1> QED
  BY <1>1, <1>2, <1>3 DEF LinkIsKept, NothingComesBack

\* Whatever files the two hosts read, as long as each bridge accepts its own,
\* and however bridges are stopped and started: nothing comes back into a
\* domain it has been in, no lane is faster than its limit, and every answer is
\* one that the real server has given.
THEOREM LinkKept == Spec => []LinkIsKept
<1>1. Init => IInv
  BY BridgeAssumption, InitHolds
<1>2. IInv /\ [Next]_vars => IInv'
  BY BridgeAssumption, StepKeepsTopic, StepKeepsRate, StepKeepsCalls DEF IInv
<1>3. IInv => LinkIsKept
  BY IInvIsEnough
<1> QED
  BY <1>1, <1>2, <1>3, PTL DEF Spec
=============================================================================

----------------------------- MODULE DomainBridge -----------------------------
(***************************************************************************)
(* The two golfcart_domain_bridge processes between the hosts.  Each has a *)
(* node in its host's own domain and one on the link, and copies a topic,  *)
(* and forwards the requests of a service, in the direction its file says. *)
(*                                                                         *)
(* A lane is a subscription in one domain and a publisher in another: it   *)
(* is named by its host and "out" (to the link) or "in".  No lane ever     *)
(* waits for another, so that one topic or one service at a time is        *)
(* enough.  A subscription finds the publishers of its topic one by one;   *)
(* a transient-local one is then given what they keep.  Either process may *)
(* be stopped at any time and is started again.                            *)
(***************************************************************************)
EXTENDS Integers, Sequences, FiniteSets

CONSTANTS Authors,      \* publishers of the topic, of one sample each: <<host, name>>
          Depth, Gap,   \* depth, and the least time between samples of max_hz
          MaxClock, MaxStops, MaxCalls

Hosts == {"master", "orin"}
Other(h) == IF h = "master" THEN "orin" ELSE "master"
Lanes == Hosts \X {"out", "in"}
Publishers == Authors \cup Lanes
Calls == 1..MaxCalls

ASSUME BridgeAssumption ==
    /\ Authors \cap Lanes = {} /\ \A a \in Authors : Len(a) = 2 /\ a[1] \in Hosts
    /\ Depth \in Nat \ {0} /\ Gap \in Nat /\ MaxClock \in Nat
    /\ MaxStops \in Nat /\ MaxCalls \in Nat

VARIABLES
    spec,           \* the topic's entry: latched, capped
    built,          \* per host, the lanes it has while it runs: of the topic,
    offers,         \* and of the service
    up, stops,      \* whether a bridge runs; stops so far, for the bound
    made,           \* the authors that have published
    matched,        \* per lane, the publishers its subscription has found
    queue,          \* per lane, the samples it has not taken
    held,           \* per publisher, what it keeps for those that come late
    sent,           \* per lane, when it has forwarded: last_sent is the last
    clock,
    calls, served   \* the requests; those the real server has answered

topic == <<made, matched, queue, held, sent>>
service == <<calls, served>>
fixed == <<spec, built, offers>>
vars == <<fixed, up, stops, topic, clock, service>>

-----------------------------------------------------------------------------
(* The file, and the lanes of a host.                                      *)

\* Variant for the mutation runs: both directions are taken.
AcceptsAnything(directions) == TRUE

\* parse_link_config: no topic, and no service, in both directions.
Accepts(directions) == directions # {"orin_to_master", "master_to_orin"}

\* for_role
ForRole(directions, h) ==
    LET outbound == IF h = "master" THEN "master_to_orin" ELSE "orin_to_master"
    IN  {IF d = outbound THEN "out" ELSE "in" : d \in directions}

\* What a host may have of one entry: its file may not list it, or its type
\* may be one it cannot load.  The two hosts read each a file of their own.
Plans ==
    {p \in [Hosts -> SUBSET {"out", "in"}] :
        \A h \in Hosts : \E directions \in SUBSET {"orin_to_master", "master_to_orin"} :
            Accepts(directions) /\ p[h] \in {{}, ForRole(directions, h)}}

From(l) == IF l[2] = "out" THEN l[1] ELSE "link"
To(l) == IF l[2] = "out" THEN "link" ELSE l[1]

AuthorsOn(h) == {a \in Authors : a[1] = h}
Runs(l) == up[l[1]] /\ l[2] \in built[l[1]]

Publishes(w, domain) ==
    IF w \in Authors THEN w[1] = domain ELSE Runs(w) /\ To(w) = domain

KeepLast(s) == IF Len(s) <= Depth THEN s ELSE SubSeq(s, Len(s) + 1 - Depth, Len(s))

Idle == [phase |-> "idle", path |-> <<>>]

Init ==
    /\ spec \in [latched : BOOLEAN, capped : BOOLEAN]
    /\ \/ built \in Plans /\ offers = [h \in Hosts |-> {}]
       \/ offers \in Plans /\ built = [h \in Hosts |-> {}]
    /\ up = [h \in Hosts |-> FALSE]
    /\ stops = 0 /\ clock = 0
    /\ made = {}
    /\ matched = [l \in Lanes |-> {}]
    /\ queue = [l \in Lanes |-> <<>>]
    /\ held = [w \in Publishers |-> <<>>]
    /\ sent = [l \in Lanes |-> <<>>]
    /\ calls = [c \in Calls |-> Idle]
    /\ served = {}

-----------------------------------------------------------------------------
(* The topic.                                                              *)

\* Variant: the publisher keeps nothing for late comers.
KeepNothing(s) == <<>>

\* qos_of: a transient-local publisher keeps its last samples.  Of reliability
\* the model knows "reliable", as all lanes of config/link/topics.yaml are: a
\* best_effort lane (domain_bridge.cpp:134-136) may lose a sample on its way, and
\* LatchedArrives does not hold of it.
Keep(s) == IF spec.latched THEN KeepLast(s) ELSE <<>>

Deliver(w, sample, waiting) ==
    queue' = [l \in Lanes |-> IF w \in matched[l] THEN KeepLast(Append(waiting[l], sample))
                              ELSE waiting[l]]

Publish(a) ==
    LET sample == [by |-> a, path |-> <<a[1]>>]
    IN  /\ a \notin made
        /\ made' = made \cup {a}
        /\ held' = [held EXCEPT ![a] = Keep(Append(@, sample))]
        /\ Deliver(a, sample, queue)
        /\ UNCHANGED <<matched, sent, up, stops, clock>> /\ UNCHANGED <<fixed, service>>

\* add_lanes, as DDS goes about it.
Match(l, w) ==
    /\ Runs(l) /\ Publishes(w, From(l)) /\ w \notin matched[l]
    /\ matched' = [matched EXCEPT ![l] = @ \cup {w}]
    /\ queue' = [queue EXCEPT ![l] = KeepLast(@ \o held[w])]
    /\ UNCHANGED <<made, held, sent, up, stops, clock>> /\ UNCHANGED <<fixed, service>>

Throttled(l) == spec.capped /\ sent[l] # <<>> /\ clock - sent[l][Len(sent[l])] < Gap

\* The lane's callback.  Both bridges on the way throttle.
Forward(l) ==
    LET sample == Head(queue[l])
        copy == [sample EXCEPT !.path = Append(@, To(l))]
        rest == [queue EXCEPT ![l] = Tail(@)]
    IN  /\ Runs(l) /\ queue[l] # <<>>
        /\ IF Throttled(l)
           THEN queue' = rest /\ UNCHANGED <<held, sent>>
           ELSE /\ Deliver(l, copy, rest)
                /\ held' = [held EXCEPT ![l] = Keep(Append(@, copy))]
                /\ sent' = [sent EXCEPT ![l] = IF spec.capped THEN Append(@, clock) ELSE @]
        /\ UNCHANGED <<made, matched, up, stops, clock>> /\ UNCHANGED <<fixed, service>>

-----------------------------------------------------------------------------
(* The service: its path is the domains the request is in.                 *)

Here(c) == calls[c].path[Len(calls[c].path)]

Call(c, h) ==
    /\ calls[c].phase = "idle" /\ \A b \in Calls : b < c => calls[b].phase # "idle"
    /\ offers # [g \in Hosts |-> {}]
    /\ calls' = [calls EXCEPT ![c] = [phase |-> "asking", path |-> <<h>>]]
    /\ UNCHANGED <<served, up, stops, clock>> /\ UNCHANGED <<fixed, topic>>

Serves(l, domain) == up[l[1]] /\ l[2] \in offers[l[1]] /\ From(l) = domain

\* The server's callback in the bridge.  Nothing is answered when nobody
\* offers the service in the other domain, or is not known there yet.
ForwardRequest(c, l, ready) ==
    /\ calls[c].phase = "asking" /\ Serves(l, Here(c))
    /\ ready => To(l) \in Hosts \/ \E m \in Lanes : Serves(m, To(l))
    /\ calls' = [calls EXCEPT ![c] = IF ready THEN [@ EXCEPT !.path = Append(calls[c].path, To(l))]
                                     ELSE [@ EXCEPT !.phase = "unanswered"]]
    /\ UNCHANGED <<served, up, stops, clock>> /\ UNCHANGED <<fixed, topic>>

\* The real server, in the far host's domain; it may also stay silent.
Answer(c) ==
    /\ calls[c].phase = "asking" /\ Here(c) \in Hosts /\ Len(calls[c].path) > 1
    /\ served' = served \cup {c}
    /\ calls' = [calls EXCEPT ![c].phase = "answering"]
    /\ UNCHANGED <<up, stops, clock>> /\ UNCHANGED <<fixed, topic>>

\* The client's callback in the bridge, back towards the caller.
SendResponse(c) ==
    /\ calls[c].phase = "answering"
    /\ calls' = [calls EXCEPT ![c] =
            IF Len(@.path) = 1 THEN [@ EXCEPT !.phase = "answered"]
            ELSE [@ EXCEPT !.path = SubSeq(calls[c].path, 1, Len(calls[c].path) - 1)]]
    /\ UNCHANGED <<served, up, stops, clock>> /\ UNCHANGED <<fixed, topic>>

-----------------------------------------------------------------------------
(* The processes.                                                          *)

Start(h) ==
    /\ ~up[h]
    /\ up' = [up EXCEPT ![h] = TRUE]
    /\ UNCHANGED <<stops, clock>> /\ UNCHANGED <<fixed, topic, service>>

\* Both contexts are shut down; what the process had in hand is gone, the
\* requests it has forwarded among it.
Stop(h) ==
    LET mine(l) == l[1] = h
        lost(c) == calls[c].phase \in {"asking", "answering"}
                    /\ h \in {calls[c].path[i] : i \in DOMAIN calls[c].path}
    IN  /\ up[h] /\ stops < MaxStops
        /\ up' = [up EXCEPT ![h] = FALSE]
        /\ stops' = stops + 1
        /\ matched' = [l \in Lanes |-> IF mine(l) THEN {} ELSE matched[l] \ {w \in Lanes : mine(w)}]
        /\ queue' = [l \in Lanes |-> IF mine(l) THEN <<>> ELSE queue[l]]
        /\ held' = [w \in Publishers |-> IF w \in Lanes /\ mine(w) THEN <<>> ELSE held[w]]
        /\ sent' = [l \in Lanes |-> IF mine(l) THEN <<>> ELSE sent[l]]
        /\ calls' = [c \in Calls |-> IF lost(c) THEN [calls[c] EXCEPT !.phase = "unanswered"]
                                     ELSE calls[c]]
        /\ UNCHANGED <<made, served, clock>> /\ UNCHANGED fixed

Tick ==
    /\ spec.capped /\ clock < MaxClock
    /\ clock' = clock + 1
    /\ UNCHANGED <<up, stops>> /\ UNCHANGED <<fixed, topic, service>>

Next ==
    \/ \E a \in Authors : Publish(a)
    \/ \E l \in Lanes, w \in Publishers : Match(l, w)
    \/ \E l \in Lanes : Forward(l)
    \/ \E c \in Calls, h \in Hosts : Call(c, h)
    \/ \E c \in Calls, l \in Lanes, ready \in BOOLEAN : ForwardRequest(c, l, ready)
    \/ \E c \in Calls : Answer(c) \/ SendResponse(c)
    \/ \E h \in Hosts : Start(h) \/ Stop(h)
    \/ Tick

\* A subscription finds the publishers that stay, and an executor comes round to
\* every lane that has something.  Nothing starts a bridge that was stopped but
\* an operator, who may not.
Fairness ==
    /\ \A l \in Lanes : WF_vars(Forward(l))
    /\ \A l \in Lanes, w \in Publishers : WF_vars(Match(l, w))

Spec == Init /\ [][Next]_vars /\ Fairness

-----------------------------------------------------------------------------
Visits(path) == \A i, j \in DOMAIN path : path[i] = path[j] => i = j

\* No sample, and no request, comes into a domain it has been in.
NothingComesBack ==
    /\ \A l \in Lanes : \A i \in DOMAIN queue[l] : Visits(queue[l][i].path)
    /\ \A c \in Calls : Visits(calls[c].path)

\* What a lane forwards between two starts keeps the rate of its entry.
RateIsHeld ==
    \A l \in Lanes : \A i \in 1..Len(sent[l]) - 1 : sent[l][i + 1] - sent[l][i] >= Gap

\* An answer that a caller gets is the real server's, to that very request.
NoAnswerIsInvented == \A c \in Calls : calls[c].phase = "answered" => c \in served

\* Whatever files the two hosts read, as long as each bridge accepts its own,
\* and whenever bridges are stopped: there is no loop across the link, no lane
\* is faster than its limit, and no caller is told what the server has not said.
LinkIsKept == NothingComesBack /\ RateIsHeld /\ NoAnswerIsInvented

\* A latched topic without a limit, in both files in the same direction: once
\* both bridges run for good, a listener that starts in the far domain, however
\* late, is given the sample of every publisher of the near one, whichever bridge
\* was stopped before, if the depth covers those publishers.
LatchedArrives ==
    <>[](\A h \in Hosts :
            (/\ spec.latched /\ ~spec.capped
             /\ \A g \in Hosts : up[g]
             /\ "out" \in built[h] /\ "in" \in built[Other(h)]
             /\ Depth >= Cardinality(AuthorsOn(h)))
            => \A a \in AuthorsOn(h) \cap made :
                \E i \in DOMAIN held[<<Other(h), "in">>] : held[<<Other(h), "in">>][i].by = a)
=============================================================================

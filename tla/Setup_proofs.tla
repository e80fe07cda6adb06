----------------------------- MODULE Setup_proofs -----------------------------
(***************************************************************************)
(* What the state file of setup.sh can be trusted for, for every registry, *)
(* any number of sessions and any number of edits.                         *)
(***************************************************************************)
EXTENDS Setup, TLAPS

Opening(p) ==
    \/ \E profile \in Presets, skip \in Skips, force, keep \in BOOLEAN, a \in Answers :
            RunProfile(p, profile, skip, force, keep, a)
    \/ \E keep \in BOOLEAN, a \in Answers : RunAll(p, keep, a)
    \/ \E s \in Pickable, a \in Answers : RunOnly(p, s, a) \/ Rerun(p, s, a)
    \/ \E preset \in Presets, explicit, keep, osOk \in BOOLEAN :
            OpenMenu(p, preset, explicit, keep, osOk)

Choosing(p) ==
    \/ \E preset \in Presets : Apply(p, preset)
    \/ \E s \in Pickable : Toggle(p, s)
    \/ \E value \in BOOLEAN : SetAll(p, value)
    \/ Enter(p) \/ Back(p) \/ Install(p)

\* A step's own text changes: an edit, or an earlier text that comes back.
Changed(s) == Edit(s) \/ \E d \in Digest : Restore(s, d)

LEMMA NextCases ==
    ASSUME Next
    PROVE  \/ \E p \in Procs : Opening(p) \/ Choosing(p) \/ Quit(p)
           \/ \E p \in Procs, s \in Ids : Begin(p, s)
           \/ \E p \in Procs : Start(p)
           \/ \E p \in Procs, result \in {"ok", "failed"} : End(p, result)
           \/ \E s \in Editable : Changed(s)
           \/ \E s \in Calling : EditCalled(s)
           \/ LoseFile
BY DEF Next, Opening, Choosing, Changed

LEMMA NoStepsType == NoSteps \in [Ids -> Record] /\ NoRecord \in Record
BY SetupAssumption DEF NoSteps, NoRecord, Record, Digest

LEMMA ClosedType ==
    /\ Closed \in Session
    /\ Closed.phase = "closed"
BY SetupAssumption DEF Closed, Session, Digest, Words, Text, NoText

LEMMA StatusType ==
    ASSUME NEW data \in [Ids -> Record], digest \in [Ids -> Digest]
    PROVE  StatusOf(data) \in [Ids -> Words]
BY DEF StatusOf, Words, Record

LEMMA ForgetType ==
    ASSUME NEW data \in [Ids -> Record], NEW ids
    PROVE  Forget(data, ids) \in [Ids -> Record]
BY NoStepsType DEF Forget

LEMMA ImportType ==
    ASSUME NEW data \in [Ids -> Record], digest \in [Ids -> Digest]
    PROVE  ImportMarkers(data) \in [Ids -> Record]
BY NoStepsType DEF ImportMarkers, Record

\* An opening session reads a file, of which it may have forgotten a step, and
\* then owns a plan, or a menu, or nothing.
Fresh(p) ==
    \E data \in [Ids -> Record], ids \in SUBSET Ids :
        /\ data = Forget(file, ids)
        /\ file' \in {data, ImportMarkers(data)}
        /\ \/ UNCHANGED <<mem, sess>>
           \/ /\ file' = ImportMarkers(data)
              /\ mem' = [mem EXCEPT ![p] = ImportMarkers(data)]
              /\ \E next \in Session : /\ sess' = [sess EXCEPT ![p] = next]
                                       /\ next.phase \in {"ready", "preset", "steps"}

LEMMA ForgetNothing ==
    ASSUME NEW data \in [Ids -> Record] PROVE Forget(data, {}) = data
BY DEF Forget

LEMMA RunIsFresh ==
    ASSUME TypeOK, NEW p \in Procs, NEW ids \in SUBSET Ids, NEW args,
           args.only \subseteq Ids, args.keep \in BOOLEAN, NEW a \in Answers,
           CmdRun(p, Forget(file, ids), args, a)
    PROVE  Fresh(p)
<1> DEFINE data == Forget(file, ids)
           known == ImportMarkers(data)
           todo == Select(STEPS, args, StatusOf(known))
           next == [Closed EXCEPT !.phase = "ready", !.plan = todo,
                                  !.todo = todo, !.keep = args.keep]
<1>1. data \in [Ids -> Record]
  BY ForgetType DEF TypeOK
<1>2. todo \subseteq Ids
  BY DEF Select, Ids
<1>3. next \in Session /\ next.phase = "ready"
  <2> HIDE DEF todo
  <2> QED BY <1>2, ClosedType DEF Session
<1>4. file' \in {data, known}
  BY DEF CmdRun
<1>5. \/ UNCHANGED <<mem, sess>>
      \/ /\ file' = known
         /\ mem' = [mem EXCEPT ![p] = known]
         /\ sess' = [sess EXCEPT ![p] = next]
  BY DEF CmdRun, Remember, Become
<1> HIDE DEF data, known, next
<1> QED BY <1>1, <1>3, <1>4, <1>5 DEF Fresh, data, known

LEMMA OpeningIsFresh ==
    ASSUME TypeOK, NEW p \in Procs, Opening(p)
    PROVE  Opens(p) /\ Fresh(p)
<1>1. file \in [Ids -> Record] /\ digest \in [Ids -> Digest] /\ Forget(file, {}) = file
  BY ForgetNothing DEF TypeOK
<1>2. CASE \E profile \in Presets, skip \in Skips, force, keep \in BOOLEAN, a \in Answers :
                RunProfile(p, profile, skip, force, keep, a)
  BY <1>1, <1>2, RunIsFresh DEF RunProfile, Args
<1>3. CASE \E keep \in BOOLEAN, a \in Answers : RunAll(p, keep, a)
  BY <1>1, <1>3, RunIsFresh DEF RunAll, Args
<1>4. CASE \E s \in Pickable, a \in Answers : RunOnly(p, s, a)
  BY <1>1, <1>4, RunIsFresh, SetupAssumption DEF RunOnly, Args
<1>5. CASE \E s \in Pickable, a \in Answers : Rerun(p, s, a)
  BY <1>5, RunIsFresh, SetupAssumption DEF Rerun, Args
<1>6. ASSUME NEW preset \in Presets, NEW explicit \in BOOLEAN, NEW keep \in BOOLEAN,
             NEW osOk \in BOOLEAN, OpenMenu(p, preset, explicit, keep, osOk)
      PROVE  Opens(p) /\ Fresh(p)
  <2> DEFINE known == ImportMarkers(file)
             status == StatusOf(known)
             ticked == Preselect(STEPS, preset, status)
             next == [Closed EXCEPT !.phase = IF explicit THEN "steps" ELSE "preset",
                          !.preset = preset, !.seen = status, !.keep = keep,
                          !.ticked = ticked]
  <2>1. status \in [Ids -> Words]
    BY <1>1, ImportType, StatusType
  <2>2. ticked \subseteq Ids
    BY DEF Preselect, Ids
  <2>3. next \in Session /\ next.phase \in {"preset", "steps"}
    <3> HIDE DEF ticked, status
    <3> QED BY <2>1, <2>2, ClosedType DEF Session
  <2>4. /\ file' = known
        /\ \/ UNCHANGED <<mem, sess>>
           \/ mem' = [mem EXCEPT ![p] = known] /\ sess' = [sess EXCEPT ![p] = next]
    BY <1>6 DEF OpenMenu, Remember, Become
  <2> HIDE DEF next
  <2>5. Fresh(p)
    BY <1>1, <2>3, <2>4 DEF Fresh
  <2> QED BY <1>6, <2>5 DEF OpenMenu
<1> QED BY <1>2, <1>3, <1>4, <1>5, <1>6 DEF Opening

-----------------------------------------------------------------------------
(* Type correctness.                                                       *)

\* What every step on the menu's screens has in common.
LEMMA ChoosingIsLocal ==
    ASSUME TypeOK, NEW p \in Procs, Choosing(p)
    PROVE  /\ UNCHANGED <<file, mem, shared, opened>> /\ UNCHANGED world
           /\ sess[p].phase # "closed"
           /\ \E next \in Session : /\ sess' = [sess EXCEPT ![p] = next]
                                    /\ next.phase \notin {"closed", "printed", "running"}
<1> DEFINE Local(next) == /\ UNCHANGED <<file, mem, shared, opened>> /\ UNCHANGED world
                          /\ sess[p].phase # "closed"
                          /\ next \in Session /\ next.phase \notin {"closed", "printed", "running"}
                          /\ sess' = [sess EXCEPT ![p] = next]
<1>1. sess[p] \in Session
  BY DEF TypeOK
<1>2. ASSUME NEW preset \in Presets, Apply(p, preset)
      PROVE  \E next : Local(next)
  <2> DEFINE ticked == Preselect(STEPS, preset, sess[p].seen)
             next == [sess[p] EXCEPT !.phase = "steps", !.preset = preset, !.ticked = ticked]
  <2>1. ticked \subseteq Ids
    BY DEF Preselect, Ids
  <2>2. next \in Session /\ next.phase = "steps"
    <3> HIDE DEF ticked
    <3> QED BY <1>1, <2>1 DEF Session
  <2>3. sess[p].phase \in {"preset", "steps"} /\ sess' = [sess EXCEPT ![p] = next]
    BY <1>2 DEF Apply, Menu, Become
  <2> HIDE DEF next
  <2> QED BY <1>2, <2>2, <2>3 DEF Apply, Menu
<1>3. ASSUME NEW s \in Pickable, Toggle(p, s)
      PROVE  \E next : Local(next)
  <2> DEFINE ticked == IF s \in sess[p].ticked THEN sess[p].ticked \ {s}
                       ELSE sess[p].ticked \cup {s}
             next == [sess[p] EXCEPT !.ticked = ticked]
  <2>1. ticked \subseteq Ids
    BY <1>1, SetupAssumption DEF Session
  <2>2. sess[p].phase = "steps" /\ sess' = [sess EXCEPT ![p] = next]
    BY <1>3 DEF Toggle, Menu, Become
  <2>3. next \in Session /\ next.phase = "steps"
    <3> HIDE DEF ticked
    <3> QED BY <1>1, <2>1, <2>2 DEF Session
  <2> HIDE DEF next
  <2> QED BY <1>3, <2>2, <2>3 DEF Toggle, Menu
<1>4. ASSUME NEW value \in BOOLEAN, SetAll(p, value)
      PROVE  \E next : Local(next)
  <2> DEFINE ticked == IF value THEN Ids ELSE {}
             next == [sess[p] EXCEPT !.ticked = ticked]
  <2>1. ticked \subseteq Ids
    OBVIOUS
  <2>2. sess[p].phase = "steps" /\ sess' = [sess EXCEPT ![p] = next]
    BY <1>4 DEF SetAll, Menu, Become
  <2>3. next \in Session /\ next.phase = "steps"
    <3> HIDE DEF ticked
    <3> QED BY <1>1, <2>1, <2>2 DEF Session
  <2> HIDE DEF next
  <2> QED BY <1>4, <2>2, <2>3 DEF SetAll, Menu
<1>5. ASSUME Enter(p)
      PROVE  \E next : Local(next)
  <2> DEFINE next == [sess[p] EXCEPT !.phase = "review", !.plan = sess[p].ticked]
  <2>1. sess[p].phase = "steps" /\ sess' = [sess EXCEPT ![p] = next]
    BY <1>5 DEF Enter, Menu, Become
  <2>2. next \in Session /\ next.phase = "review"
    BY <1>1 DEF Session
  <2> HIDE DEF next
  <2> QED BY <1>5, <2>1, <2>2 DEF Enter, Menu
<1>6. ASSUME Back(p)
      PROVE  \E next : Local(next)
  <2> DEFINE next == [sess[p] EXCEPT !.phase = "steps", !.plan = {}]
  <2>1. sess[p].phase = "review" /\ sess' = [sess EXCEPT ![p] = next]
    BY <1>6 DEF Back, Menu, Become
  <2>2. next \in Session /\ next.phase = "steps"
    BY <1>1 DEF Session
  <2> HIDE DEF next
  <2> QED BY <1>6, <2>1, <2>2 DEF Back, Menu
<1>7. ASSUME Install(p)
      PROVE  \E next : Local(next)
  <2> DEFINE next == [Closed EXCEPT !.phase = "ready", !.plan = sess[p].plan,
                                    !.todo = sess[p].plan, !.keep = sess[p].keep]
  <2>1. sess[p].phase = "review" /\ sess' = [sess EXCEPT ![p] = next]
    BY <1>7 DEF Install, Menu, Become
  <2>2. next \in Session /\ next.phase = "ready"
    BY <1>1, ClosedType DEF Session
  <2> HIDE DEF next
  <2> QED BY <1>7, <2>1, <2>2 DEF Install, Menu
<1> QED BY <1>2, <1>3, <1>4, <1>5, <1>6, <1>7 DEF Choosing

LEMMA InitType == Init => TypeOK
<1>1. 0 \in Digest /\ 0 \in 0..MaxSessions
  BY SetupAssumption DEF Digest
<1>2. SUFFICES ASSUME Init PROVE TypeOK
  OBVIOUS
<1>3. /\ file \in [Ids -> Record] /\ ended \in [Ids -> Record]
      /\ mem \in [Procs -> [Ids -> Record]]
  BY <1>2, NoStepsType DEF Init
<1>4. /\ sess \in [Procs -> Session]
      /\ \A p \in Procs : sess[p].phase \notin {"printed", "running"}
  BY <1>2, ClosedType DEF Init
<1>5. /\ digest \in [Ids -> Digest] /\ called \in [Ids -> Digest]
      /\ won \in [Ids -> SUBSET Text]
  BY <1>1, <1>2 DEF Init
<1> QED BY <1>1, <1>2, <1>3, <1>4, <1>5 DEF Init, TypeOK

LEMMA EndType ==
    ASSUME TypeOK, NEW p \in Procs, NEW result \in {"ok", "failed"}, End(p, result)
    PROVE  /\ TypeOK'
           /\ sess[p].run \in Ids /\ sess[p].dig \in Digest /\ sess[p].ran \in Text
<1> DEFINE s == sess[p].run
           rec == Mark(result, sess[p].dig)
           data == [mem[p] EXCEPT ![s] = rec]
           todo == sess[p].todo \ {s}
           next == [sess[p] EXCEPT !.phase = "ready", !.todo = todo, !.run = "none", !.dig = 0,
                        !.ran = NoText, !.bad = IF result = "failed" THEN @ \cup {s} ELSE @]
<1>1. sess[p] \in Session /\ s \in sess[p].todo
  BY DEF TypeOK, End, MarkRun, Recorded, Stops
<1>2. s \in Ids /\ sess[p].dig \in Digest /\ sess[p].ran \in Text
  BY <1>1 DEF Session
<1>3. rec \in Record
  BY <1>2 DEF Mark, Record
<1>4. data \in [Ids -> Record]
  BY <1>2, <1>3 DEF TypeOK
<1>5. next \in Session /\ next.phase = "ready"
  <2> DEFINE bad == IF result = "failed" THEN sess[p].bad \cup {s} ELSE sess[p].bad
  <2>1. bad \subseteq Ids /\ todo \subseteq Ids
    BY <1>1, <1>2 DEF Session
  <2>2. next = [sess[p] EXCEPT !.phase = "ready", !.todo = todo, !.run = "none", !.dig = 0,
                               !.ran = NoText, !.bad = bad]
    OBVIOUS
  <2>3. 0 \in Digest /\ NoText \in Text
    BY SetupAssumption DEF Digest, Text, NoText
  <2> HIDE DEF bad, todo, next
  <2> QED BY <1>1, <2>1, <2>2, <2>3 DEF Session
<1>6. \/ sess' = [sess EXCEPT ![p] = Closed] /\ mem' = [mem EXCEPT ![p] = NoSteps]
      \/ sess' = [sess EXCEPT ![p] = next] /\ mem' = [mem EXCEPT ![p] = data]
  BY DEF End, MarkRun, Recorded, Stops, Leave, Become, Remember
<1>7. file' = data /\ ended' = [ended EXCEPT ![s] = rec] /\ UNCHANGED <<texts, shared, opened>>
  BY DEF End, MarkRun, Recorded, Stops
<1>8. won' = [won EXCEPT ![s] = IF result = "ok" THEN @ \cup {sess[p].ran} ELSE @]
  BY DEF End, MarkRun, Recorded, Stops
<1>9. won' \in [Ids -> SUBSET Text]
  BY <1>2, <1>8 DEF TypeOK
<1> HIDE DEF next, data, rec
<1>10. /\ mem' \in [Procs -> [Ids -> Record]]
       /\ sess' \in [Procs -> Session]
       /\ \A q \in Procs : sess'[q].phase \in {"printed", "running"} =>
                                sess'[q].run \in sess'[q].todo
  BY <1>4, <1>5, <1>6, ClosedType, NoStepsType DEF TypeOK
<1> QED BY <1>2, <1>3, <1>4, <1>7, <1>9, <1>10 DEF TypeOK, texts

LEMMA FreshType ==
    ASSUME TypeOK, NEW p \in Procs, Opens(p), Fresh(p)
    PROVE  TypeOK'
<1>1. PICK data \in [Ids -> Record], ids \in SUBSET Ids :
        /\ data = Forget(file, ids)
        /\ file' \in {data, ImportMarkers(data)}
        /\ \/ UNCHANGED <<mem, sess>>
           \/ /\ file' = ImportMarkers(data)
              /\ mem' = [mem EXCEPT ![p] = ImportMarkers(data)]
              /\ \E next \in Session : /\ sess' = [sess EXCEPT ![p] = next]
                                       /\ next.phase \in {"ready", "preset", "steps"}
  BY DEF Fresh
<1>2. ImportMarkers(data) \in [Ids -> Record]
  BY ImportType DEF TypeOK
<1>3. /\ mem' \in [Procs -> [Ids -> Record]]
      /\ sess' \in [Procs -> Session]
      /\ \A q \in Procs : sess'[q].phase \in {"printed", "running"} =>
                                sess'[q].run \in sess'[q].todo
  BY <1>1, <1>2 DEF TypeOK
<1>4. shared' \in BOOLEAN /\ opened' \in 0..MaxSessions
  BY SetupAssumption DEF Opens, TypeOK
<1> QED BY <1>1, <1>2, <1>3, <1>4 DEF TypeOK, Opens, world, texts

LEMMA NextType == TypeOK /\ [Next]_vars => TypeOK'
<1> SUFFICES ASSUME TypeOK, [Next]_vars PROVE TypeOK'
  OBVIOUS
<1>1. ASSUME NEW p \in Procs, Opening(p) PROVE TypeOK'
  BY <1>1, OpeningIsFresh, FreshType
<1>2. ASSUME NEW p \in Procs, Choosing(p) PROVE TypeOK'
  BY <1>2, ChoosingIsLocal DEF TypeOK, world, texts
<1>3. ASSUME NEW p \in Procs, Quit(p) PROVE TypeOK'
  BY <1>3, ClosedType, NoStepsType DEF TypeOK, Quit, Leave, Become, Remember, world, texts
<1>4. ASSUME NEW p \in Procs, NEW s \in Ids, Begin(p, s) PROVE TypeOK'
  <2> DEFINE next == [sess[p] EXCEPT !.phase = "printed", !.run = s, !.dig = digest[s]]
  <2>0. sess[p] \in Session /\ s \in sess[p].todo /\ digest[s] \in Digest
    BY <1>4 DEF TypeOK, Begin
  <2>1. next \in Session /\ next.run \in next.todo
    BY <2>0 DEF Session
  <2>2. sess' = [sess EXCEPT ![p] = next] /\ UNCHANGED <<file, mem, shared, opened, world>>
    BY <1>4 DEF Begin, Become
  <2> HIDE DEF next
  <2> QED BY <2>1, <2>2 DEF TypeOK, world, texts
<1>5. ASSUME NEW p \in Procs, Start(p) PROVE TypeOK'
  <2> DEFINE next == [sess[p] EXCEPT !.phase = "running", !.ran = TextOf(sess[p].run)]
  <2>0. sess[p] \in Session /\ sess[p].run \in sess[p].todo /\ sess[p].run \in Ids
    BY <1>5 DEF TypeOK, Start, Session
  <2>1. TextOf(sess[p].run) \in Text
    BY <2>0 DEF TypeOK, TextOf, Text
  <2>2. next \in Session /\ next.run \in next.todo
    BY <2>0, <2>1 DEF Session
  <2>3. sess' = [sess EXCEPT ![p] = next] /\ UNCHANGED <<file, mem, shared, opened, world>>
    BY <1>5 DEF Start, Become
  <2> HIDE DEF next
  <2> QED BY <2>2, <2>3 DEF TypeOK, world, texts
<1>6. ASSUME NEW p \in Procs, NEW result \in {"ok", "failed"}, End(p, result) PROVE TypeOK'
  BY <1>6, EndType
<1>7. ASSUME NEW s \in Editable, Changed(s) PROVE TypeOK'
  <2>1. s \in Ids /\ digest[s] + 1 \in Nat
    BY SetupAssumption DEF TypeOK, Digest
  <2>2. PICK d \in Digest : Rewrite(s, d) /\ restored' \in {restored, restored \cup {s}}
    BY <1>7, <2>1, SetupAssumption DEF Changed, Edit, Restore, TypeOK, Digest
  <2> QED BY <2>1, <2>2 DEF Rewrite, TypeOK
<1>8. ASSUME NEW s \in Calling, EditCalled(s) PROVE TypeOK'
  <2>1. s \in Ids /\ called[s] + 1 \in Digest
    BY <1>8, SetupAssumption DEF EditCalled, TypeOK, Digest
  <2> QED BY <1>8, <2>1 DEF EditCalled, TypeOK
<1>9. ASSUME LoseFile PROVE TypeOK'
  BY <1>9, NoStepsType DEF LoseFile, TypeOK, world, texts
<1>10. CASE UNCHANGED vars
  BY <1>10 DEF vars, TypeOK, texts
<1> QED BY <1>1, <1>2, <1>3, <1>4, <1>5, <1>6, <1>7, <1>8, <1>9, <1>10, NextCases

\* The state of setup.sh is well formed, and the step that runs is one that is
\* still to be passed.
THEOREM SetupType == Spec => []TypeOK
BY InitType, NextType, PTL DEF Spec

-----------------------------------------------------------------------------
(* No record without the run it speaks of.  InstalledWasEarned is about the*)
(* file; sessions carry records in memory and write them back later, so the*)
(* invariant is about those too, and about every fingerprint, not only     *)
(* today's.  A fingerprint that an edit has made worthless is older than   *)
(* the text of today, and stays so until the edit is undone.               *)

Outdated(s, d) == s \in raced /\ d < digest[s]
Backed(s, d) == s \in Undone \/ Outdated(s, d) \/ Succeeded(s, d)

\* The same after a step, of a step and a fingerprint named before it.
WorthlessNext(s, d) == s \in Undone' \/ (s \in raced' /\ d < digest'[s])
BackedNext(s, d) == WorthlessNext(s, d) \/ \E t \in won'[s] : t.digest = d

Earned(data) ==
    \A s \in Ids : (data[s].status = "ok" /\ ~data[s].imported) => Backed(s, data[s].digest)

\* A fingerprint that was taken is that of the text until the child starts, and
\* of what it runs from then on, or an edit has come in between.
Fits(x) ==
    LET s == x.run
    IN  /\ x.phase = "printed" => s \in Undone \/ Outdated(s, x.dig) \/ x.dig = digest[s]
        /\ x.phase = "running" => s \in Undone \/ Outdated(s, x.dig) \/ x.dig = x.ran.digest

EarnedInv == /\ Earned(file)
             /\ \A p \in Procs : Earned(mem[p]) /\ Fits(sess[p])

LEMMA NoStepsEarned == Earned(NoSteps) /\ Fits(Closed)
BY DEF Earned, NoSteps, NoRecord, Fits, Closed

LEMMA ImportKeepsEarned ==
    ASSUME NEW data \in [Ids -> Record], NEW ids, Earned(data)
    PROVE  Earned(Forget(data, ids)) /\ Earned(ImportMarkers(data))
BY DEF Earned, Forget, ImportMarkers, NoRecord

\* An edit, or undoing one, makes no fingerprint worth less.
LEMMA RewriteKeepsBacked ==
    ASSUME TypeOK, NEW s \in Editable, Changed(s), NEW t \in Ids, NEW d \in Digest
    PROVE  /\ Backed(t, d) => BackedNext(t, d)
           /\ (t \in Undone \/ Outdated(t, d)) => WorthlessNext(t, d)
<1>1. s \in Ids /\ digest[s] \in Nat /\ d \in Nat /\ digest[t] \in Nat
  BY SetupAssumption DEF TypeOK, Digest
<1>2. /\ won' = won /\ raced \subseteq raced' /\ restored \subseteq restored'
      /\ t # s => digest'[t] = digest[t]
  BY <1>1 DEF Changed, Edit, Restore, Rewrite, TypeOK
<1>3. (digest'[s] = digest[s] + 1) \/ s \in restored'
  BY <1>1 DEF Changed, Edit, Restore, Rewrite, TypeOK
<1>4. (t \in Undone \/ Outdated(t, d)) => WorthlessNext(t, d)
  BY <1>1, <1>2, <1>3 DEF Undone, Outdated, WorthlessNext
<1> QED BY <1>2, <1>4 DEF Backed, Succeeded, BackedNext

LEMMA RewriteKeepsFits ==
    ASSUME TypeOK, NEW s \in Editable, Changed(s), NEW p \in Procs, Fits(sess[p])
    PROVE  Fits(sess[p])'
<1>0. sess' = sess /\ s \in Ids
  BY SetupAssumption DEF Changed, Edit, Restore, Rewrite
<1> SUFFICES ASSUME NEW t, NEW d, t = sess[p].run, d = sess[p].dig
             PROVE  Fits(sess[p])'
  OBVIOUS
<1>1. CASE sess[p].phase \notin {"printed", "running"}
  BY <1>0, <1>1 DEF Fits
<1>2. CASE sess[p].phase \in {"printed", "running"}
  <2>1. sess[p] \in Session /\ t \in Ids /\ d \in Digest
    BY <1>2 DEF TypeOK, Session
  <2>2. (t \in Undone \/ Outdated(t, d)) => WorthlessNext(t, d)
    BY <2>1, RewriteKeepsBacked
  <2>3. ASSUME sess[p].phase = "printed", d = digest[t]
        PROVE  WorthlessNext(t, d) \/ d = digest'[t]
    <3>1. CASE t # s
      BY <2>1, <2>3, <3>1 DEF Changed, Edit, Restore, Rewrite, TypeOK
    <3>2. CASE t = s
      <4>1. s \in raced'
        BY <2>3, <3>2 DEF Changed, Edit, Restore, Rewrite, AboutToStart
      <4>2. digest[s] \in Nat
        BY <1>0, SetupAssumption DEF TypeOK, Digest
      <4>3. (digest'[s] = digest[s] + 1) \/ s \in restored'
        BY <1>0 DEF Changed, Edit, Restore, Rewrite, TypeOK
      <4> QED BY <2>1, <2>3, <3>2, <4>1, <4>2, <4>3 DEF Undone, WorthlessNext
    <3> QED BY <3>1, <3>2
  <2>4. sess[p].phase = "printed" => WorthlessNext(t, d) \/ d = digest'[t]
    BY <2>2, <2>3 DEF Fits
  <2>5. sess[p].phase = "running" => WorthlessNext(t, d) \/ d = sess[p].ran.digest
    BY <2>2 DEF Fits
  <2> QED BY <1>0, <2>4, <2>5 DEF Fits, WorthlessNext, Outdated, Undone
<1> QED BY <1>1, <1>2

LEMMA NextEarned == TypeOK /\ EarnedInv /\ [Next]_vars => EarnedInv'
<1> SUFFICES ASSUME TypeOK, EarnedInv, [Next]_vars PROVE EarnedInv'
  OBVIOUS
\* What is worth something stays so while the texts and what has run do.
<1>0. ASSUME UNCHANGED world, Earned(file'), \A p \in Procs : Earned(mem'[p]),
             \A p \in Procs : Fits(sess'[p])
      PROVE  EarnedInv'
  BY <1>0 DEF EarnedInv, Earned, Fits, Backed, Succeeded, Outdated, Undone, world, texts
<1>1. ASSUME NEW p \in Procs, Opening(p) PROVE EarnedInv'
  <2>1. Fresh(p) /\ UNCHANGED world
    BY <1>1, OpeningIsFresh DEF Opens
  <2>2. PICK data \in [Ids -> Record], ids \in SUBSET Ids :
        /\ data = Forget(file, ids)
        /\ file' \in {data, ImportMarkers(data)}
        /\ mem' = mem \/ mem' = [mem EXCEPT ![p] = ImportMarkers(data)]
        /\ \/ sess' = sess
           \/ \E next \in Session : /\ sess' = [sess EXCEPT ![p] = next]
                                     /\ next.phase \in {"ready", "preset", "steps"}
    BY <2>1 DEF Fresh
  <2>3. Earned(data) /\ Earned(ImportMarkers(data))
    BY <2>2, ImportKeepsEarned DEF EarnedInv, TypeOK
  <2>4. Earned(file') /\ \A q \in Procs : Earned(mem'[q])
    BY <2>2, <2>3 DEF EarnedInv, TypeOK
  <2>5. \A next : next.phase \in {"ready", "preset", "steps"} => Fits(next)
    BY DEF Fits
  <2>6. \A q \in Procs : Fits(sess'[q])
    BY <2>2, <2>5 DEF EarnedInv, TypeOK
  <2> QED BY <1>0, <2>1, <2>4, <2>6
<1>2. ASSUME NEW p \in Procs, Choosing(p) PROVE EarnedInv'
  <2>1. PICK next \in Session : /\ sess' = [sess EXCEPT ![p] = next]
                                /\ next.phase \notin {"closed", "printed", "running"}
    BY <1>2, ChoosingIsLocal
  <2>2. Fits(next)
    BY <2>1 DEF Fits
  <2>3. UNCHANGED <<file, mem>> /\ UNCHANGED world
    BY <1>2, ChoosingIsLocal
  <2>4. \A q \in Procs : Fits(sess'[q])
    BY <2>1, <2>2 DEF EarnedInv, TypeOK
  <2> QED BY <1>0, <2>3, <2>4 DEF EarnedInv
<1>3. ASSUME NEW p \in Procs, Quit(p) PROVE EarnedInv'
  <2>1. Earned(file') /\ \A q \in Procs : Earned(mem'[q]) /\ Fits(sess'[q])
    BY <1>3, NoStepsEarned DEF Quit, Leave, Remember, Become, EarnedInv, TypeOK
  <2> QED BY <1>0, <1>3, <2>1 DEF Quit
<1>4. ASSUME NEW p \in Procs, NEW s \in Ids, Begin(p, s) PROVE EarnedInv'
  <2> DEFINE next == [sess[p] EXCEPT !.phase = "printed", !.run = s, !.dig = digest[s]]
  <2>1. sess' = [sess EXCEPT ![p] = next] /\ UNCHANGED <<file, mem>> /\ UNCHANGED world
    BY <1>4 DEF Begin, Become
  <2>2. next.phase = "printed" /\ next.run = s /\ next.dig = digest[s]
    BY DEF TypeOK, Session
  <2> HIDE DEF next
  <2>3. Fits(next)
    BY <2>2 DEF Fits
  <2>4. \A q \in Procs : Fits(sess'[q])
    BY <2>1, <2>3 DEF EarnedInv, TypeOK
  <2> QED BY <1>0, <2>1, <2>4 DEF EarnedInv
<1>5. ASSUME NEW p \in Procs, Start(p) PROVE EarnedInv'
  <2> DEFINE next == [sess[p] EXCEPT !.phase = "running", !.ran = TextOf(sess[p].run)]
  <2>1. /\ sess' = [sess EXCEPT ![p] = next] /\ UNCHANGED <<file, mem>> /\ UNCHANGED world
        /\ sess[p].phase = "printed"
    BY <1>5 DEF Start, Become
  <2>2. /\ next.phase = "running" /\ next.run = sess[p].run /\ next.dig = sess[p].dig
        /\ next.ran.digest = digest[sess[p].run]
    BY DEF TypeOK, Session, TextOf
  <2> HIDE DEF next
  <2>3. Fits(next)
    BY <2>1, <2>2 DEF Fits, EarnedInv
  <2>4. \A q \in Procs : Fits(sess'[q])
    BY <2>1, <2>3 DEF EarnedInv, TypeOK
  <2> QED BY <1>0, <2>1, <2>4 DEF EarnedInv
<1>6. ASSUME NEW p \in Procs, NEW result \in {"ok", "failed"}, End(p, result) PROVE EarnedInv'
  <2> DEFINE s == sess[p].run
             d == sess[p].dig
             data == [mem[p] EXCEPT ![s] = Mark(result, d)]
             next == [sess[p] EXCEPT !.phase = "ready", !.todo = sess[p].todo \ {s},
                        !.run = "none", !.dig = 0, !.ran = NoText,
                        !.bad = IF result = "failed" THEN @ \cup {s} ELSE @]
  <2>1. s \in Ids /\ d \in Digest /\ sess[p].ran \in Text
    BY <1>6, EndType
  <2>2. /\ file' = data /\ UNCHANGED texts
        /\ won' = [won EXCEPT ![s] = IF result = "ok" THEN @ \cup {sess[p].ran} ELSE @]
        /\ mem' \in {[mem EXCEPT ![p] = NoSteps], [mem EXCEPT ![p] = data]}
        /\ sess' \in {[sess EXCEPT ![p] = Closed], [sess EXCEPT ![p] = next]}
        /\ sess[p].phase = "running" \/ result = "failed"
    BY <1>6 DEF End, MarkRun, Recorded, Stops, Leave, Remember, Become
  <2>3. next.phase = "ready"
    BY DEF TypeOK, Session
  <2> HIDE DEF next
  <2>4. \A t \in Ids : won[t] \subseteq won'[t]
    BY <2>1, <2>2 DEF TypeOK
  <2>5. \A t \in Ids : \A e : Backed(t, e) => BackedNext(t, e)
    BY <2>2, <2>4 DEF Backed, Succeeded, Outdated, Undone, texts, BackedNext, WorthlessNext
  <2>6. result = "ok" => BackedNext(s, d)
    <3> SUFFICES ASSUME result = "ok" PROVE BackedNext(s, d)
      OBVIOUS
    <3>1. sess[p].phase = "running" /\ sess[p].ran \in won'[s]
      BY <2>1, <2>2 DEF TypeOK
    <3>2. s \in Undone \/ Outdated(s, d) \/ d = sess[p].ran.digest
      BY <3>1 DEF EarnedInv, Fits
    <3>3. (s \in Undone \/ Outdated(s, d)) => BackedNext(s, d)
      BY <2>1, <2>5 DEF Backed
    <3>4. d = sess[p].ran.digest => BackedNext(s, d)
      BY <3>1 DEF BackedNext
    <3> QED BY <3>2, <3>3, <3>4
  <2> DEFINE Good(x) == \A t \in Ids : (x[t].status = "ok" /\ ~x[t].imported)
                                            => BackedNext(t, x[t].digest)
  <2>7. Good(NoSteps) /\ \A q \in Procs : Good(mem[q])
    BY <2>5 DEF EarnedInv, Earned, NoSteps, NoRecord
  <2>8. Good(data)
    <3> SUFFICES ASSUME NEW t \in Ids, data[t].status = "ok", ~data[t].imported
                 PROVE  BackedNext(t, data[t].digest)
      OBVIOUS
    <3>1. CASE t = s
      <4>1. data[t] = Mark(result, d)
        BY <2>1, <3>1 DEF TypeOK
      <4>2. result = "ok" /\ data[t].digest = d
        BY <4>1 DEF Mark
      <4> HIDE DEF data
      <4> QED BY <2>6, <3>1, <4>2
    <3>2. CASE t # s
      <4>1. data[t] = mem[p][t]
        BY <3>2 DEF TypeOK
      <4> HIDE DEF data
      <4> QED BY <2>7, <4>1
    <3> QED BY <3>1, <3>2
  <2>9. \A q \in Procs : Fits(sess'[q])
    <3>1. \A q \in Procs : sess'[q].phase \notin {"printed", "running"} \/ sess'[q] = sess[q]
      BY <2>2, <2>3, ClosedType DEF TypeOK
    <3> QED BY <3>1 DEF Fits, EarnedInv
  <2> HIDE DEF data, Good
  <2>10. Good(file') /\ \A q \in Procs : Good(mem'[q])
    BY <2>2, <2>7, <2>8 DEF TypeOK
  <2>11. UNCHANGED texts
    BY <2>2
  <2> QED BY <2>9, <2>10, <2>11
          DEF EarnedInv, Earned, Good, Fits, Backed, BackedNext, WorthlessNext, Succeeded,
              Outdated, Undone, texts
<1>7. ASSUME NEW s \in Editable, Changed(s) PROVE EarnedInv'
  <2>1. UNCHANGED <<file, mem>>
    BY <1>7 DEF Changed, Edit, Restore, Rewrite
  <2>2. \A t \in Ids, d \in Digest : Backed(t, d) => BackedNext(t, d)
    BY <1>7, RewriteKeepsBacked
  <2>3. \A data \in [Ids -> Record], t \in Ids : data[t].digest \in Digest
    BY DEF Record
  <2>4. \A p \in Procs : Fits(sess[p])'
    BY <1>7, RewriteKeepsFits DEF EarnedInv
  <2>5. \A t \in Ids : \A d : BackedNext(t, d) => Backed(t, d)'
    BY DEF Backed, BackedNext, WorthlessNext, Succeeded, Outdated, Undone
  <2>6. Earned(file)' /\ \A p \in Procs : Earned(mem[p])'
    <3>1. \A data \in [Ids -> Record] : Earned(data) =>
            \A t \in Ids : (data[t].status = "ok" /\ ~data[t].imported)
                                => BackedNext(t, data[t].digest)
      BY <2>2, <2>3 DEF Earned
    <3> QED BY <2>1, <3>1
            DEF EarnedInv, TypeOK, Earned, Backed, BackedNext, WorthlessNext, Succeeded,
                Outdated, Undone
  <2> QED BY <2>4, <2>6 DEF EarnedInv
<1>8. ASSUME NEW s \in Calling, EditCalled(s) PROVE EarnedInv'
  BY <1>8 DEF EditCalled, EarnedInv, Earned, Fits, Backed, Succeeded, Outdated, Undone
<1>9. ASSUME LoseFile PROVE EarnedInv'
  BY <1>0, <1>9, NoStepsEarned DEF LoseFile, EarnedInv
<1>10. CASE UNCHANGED vars
  BY <1>0, <1>10 DEF vars, EarnedInv, world
<1> QED BY <1>1, <1>2, <1>3, <1>4, <1>5, <1>6, <1>7, <1>8, <1>9, <1>10, NextCases

\* However sessions overlap and are interrupted, and whatever is edited while
\* they run, between the fingerprint and the start included: what reads
\* "installed" has been run with success with the fingerprint it has today, or
\* was adopted from the previous setup's markers, unless such an edit has been
\* undone since.
THEOREM InstalledIsEarned == Spec => []InstalledWasEarned
<1>1. Init => EarnedInv
  BY NoStepsEarned DEF Init, EarnedInv
<1>2. TypeOK /\ EarnedInv => InstalledWasEarned
  <2> SUFFICES ASSUME TypeOK, EarnedInv, NEW s \in Ids, s \notin Undone,
                      StatusOf(file)[s] = "ok", ~file[s].imported
               PROVE  Succeeded(s, digest[s])
    BY DEF InstalledWasEarned
  <2>1. file[s].status = "ok" /\ file[s].digest = digest[s]
    BY DEF StatusOf, TypeOK, Record
  <2>2. digest[s] \in Nat
    BY SetupAssumption DEF TypeOK, Digest
  <2> QED BY <2>1, <2>2 DEF EarnedInv, Earned, Backed, Outdated
<1> QED BY <1>1, <1>2, NextEarned, SetupType, PTL DEF Spec

-----------------------------------------------------------------------------
(* Without overlapping sessions a record is that of the last run.          *)

Truthful(data) ==
    \A s \in Ids : (data[s].status # "pending" /\ ~data[s].imported) => data[s] = ended[s]

LastInv ==
    /\ \A p \in Procs : sess[p].phase = "closed" => mem[p] = NoSteps
    /\ ~shared => /\ Truthful(file)
                  /\ \A p \in Procs : Truthful(mem[p])
                  /\ \A p, q \in Open : p = q

LEMMA ImportKeepsTruthful ==
    ASSUME NEW data \in [Ids -> Record], NEW ids, Truthful(data)
    PROVE  Truthful(Forget(data, ids)) /\ Truthful(ImportMarkers(data))
BY DEF Truthful, Forget, ImportMarkers, NoRecord

LEMMA NoStepsTruthful == Truthful(NoSteps)
BY DEF Truthful, NoSteps, NoRecord

LEMMA NextLast == TypeOK /\ LastInv /\ [Next]_vars => LastInv'
<1> SUFFICES ASSUME TypeOK, LastInv, [Next]_vars PROVE LastInv'
  OBVIOUS
<1>1. ASSUME NEW p \in Procs, Opening(p) PROVE LastInv'
  <2>1. Opens(p) /\ Fresh(p)
    BY <1>1, OpeningIsFresh
  <2>2. PICK data \in [Ids -> Record], ids \in SUBSET Ids :
        /\ data = Forget(file, ids)
        /\ file' \in {data, ImportMarkers(data)}
        /\ \/ UNCHANGED <<mem, sess>>
           \/ /\ file' = ImportMarkers(data)
              /\ mem' = [mem EXCEPT ![p] = ImportMarkers(data)]
              /\ \E next \in Session : /\ sess' = [sess EXCEPT ![p] = next]
                                       /\ next.phase \in {"ready", "preset", "steps"}
    BY <2>1 DEF Fresh
  <2>3. \A q \in Procs : sess'[q].phase = "closed" => mem'[q] = NoSteps
    BY <2>2 DEF LastInv, TypeOK
  <2>4. ASSUME ~shared'
        PROVE  /\ Truthful(file') /\ \A q \in Procs : Truthful(mem'[q])
               /\ \A q, r \in Procs : (sess'[q].phase # "closed" /\ sess'[r].phase # "closed")
                                            => q = r
    <3>1. ~shared /\ \A q \in Procs : sess[q].phase = "closed"
      BY <2>1, <2>4 DEF Opens, Open
    <3>2. Truthful(data) /\ Truthful(ImportMarkers(data))
      BY <2>2, <3>1, ImportKeepsTruthful DEF LastInv, TypeOK
    <3>3. Truthful(file') /\ \A q \in Procs : Truthful(mem'[q])
      BY <2>2, <3>1, <3>2 DEF LastInv, TypeOK
    <3> QED BY <2>2, <3>1, <3>3 DEF TypeOK
  <2> QED BY <2>1, <2>3, <2>4 DEF LastInv, Truthful, Open, Opens, world
<1>2. ASSUME NEW p \in Procs, Choosing(p) PROVE LastInv'
  <2>1. PICK next \in Session : /\ sess' = [sess EXCEPT ![p] = next]
                                /\ next.phase \notin {"closed", "printed", "running"}
    BY <1>2, ChoosingIsLocal
  <2>2. UNCHANGED <<file, mem, shared, ended>> /\ sess[p].phase # "closed"
    BY <1>2, ChoosingIsLocal DEF world
  <2>3. Open' = Open
    BY <2>1, <2>2 DEF Open, TypeOK
  <2>4. \A q \in Procs : sess'[q].phase = "closed" => sess[q].phase = "closed"
    BY <2>1, <2>2 DEF TypeOK
  <2> QED BY <2>2, <2>3, <2>4 DEF LastInv, Truthful
<1>3. ASSUME NEW p \in Procs, Quit(p) PROVE LastInv'
  <2>1. /\ sess' = [sess EXCEPT ![p] = Closed]
        /\ mem' = [mem EXCEPT ![p] = NoSteps]
        /\ UNCHANGED <<file, shared, ended>>
    BY <1>3 DEF Quit, Leave, Become, Remember, world
  <2>2. Open' \subseteq Open
    BY <2>1, ClosedType DEF Open, TypeOK
  <2>3. \A q \in Procs : sess'[q].phase = "closed" => mem'[q] = NoSteps
    BY <2>1 DEF TypeOK, LastInv
  <2>4. ~shared => \A q \in Procs : Truthful(mem'[q])
    BY <2>1, NoStepsTruthful DEF TypeOK, LastInv
  <2> QED BY <2>1, <2>2, <2>3, <2>4 DEF LastInv, Truthful
<1>4. ASSUME NEW p \in Procs, NEW s \in Ids, Begin(p, s) PROVE LastInv'
  <2>1. /\ UNCHANGED <<file, mem, shared, ended>>
        /\ sess' = [sess EXCEPT ![p] = [sess[p] EXCEPT !.phase = "printed", !.run = s,
                                                       !.dig = digest[s]]]
        /\ sess[p].phase = "ready"
    BY <1>4 DEF Begin, Become, world
  <2>2. \A q \in Procs : (sess'[q].phase = "closed") <=> (sess[q].phase = "closed")
    BY <2>1 DEF TypeOK, Session
  <2> QED BY <2>1, <2>2 DEF LastInv, Truthful, Open
<1>5. ASSUME NEW p \in Procs, Start(p) PROVE LastInv'
  <2>1. /\ UNCHANGED <<file, mem, shared, ended>>
        /\ sess' = [sess EXCEPT ![p] = [sess[p] EXCEPT !.phase = "running",
                                                       !.ran = TextOf(sess[p].run)]]
        /\ sess[p].phase = "printed"
    BY <1>5 DEF Start, Become, world
  <2>2. \A q \in Procs : (sess'[q].phase = "closed") <=> (sess[q].phase = "closed")
    BY <2>1 DEF TypeOK, Session
  <2> QED BY <2>1, <2>2 DEF LastInv, Truthful, Open
<1>6. ASSUME NEW p \in Procs, NEW result \in {"ok", "failed"}, End(p, result) PROVE LastInv'
  <2> DEFINE s == sess[p].run
             rec == Mark(result, sess[p].dig)
             data == [mem[p] EXCEPT ![s] = rec]
  <2>1. s \in Ids
    BY <1>6, EndType
  <2>2. /\ file' = data
        /\ ended' = [ended EXCEPT ![s] = rec]
        /\ shared' = shared
        /\ sess[p].phase # "closed"
        /\ \/ /\ mem' = [mem EXCEPT ![p] = NoSteps]
              /\ sess' = [sess EXCEPT ![p] = Closed]
           \/ /\ mem' = [mem EXCEPT ![p] = data]
              /\ sess'[p].phase = "ready"
              /\ \A q \in Procs : q # p => sess'[q] = sess[q]
    <3> DEFINE next == [sess[p] EXCEPT !.phase = "ready", !.todo = sess[p].todo \ {s},
                            !.run = "none", !.dig = 0, !.ran = NoText,
                            !.bad = IF result = "failed" THEN @ \cup {s} ELSE @]
    <3>1. /\ file' = data /\ ended' = [ended EXCEPT ![s] = rec] /\ shared' = shared
          /\ sess[p].phase # "closed"
          /\ \/ mem' = [mem EXCEPT ![p] = NoSteps] /\ sess' = [sess EXCEPT ![p] = Closed]
             \/ mem' = [mem EXCEPT ![p] = data] /\ sess' = [sess EXCEPT ![p] = next]
      BY <1>6 DEF End, MarkRun, Recorded, Stops, Leave, Become, Remember
    <3>2. next.phase = "ready"
      BY DEF TypeOK, Session
    <3> HIDE DEF next
    <3> QED BY <3>1, <3>2 DEF TypeOK
  <2>3. \A q \in Procs : sess'[q].phase = "closed" => mem'[q] = NoSteps
    BY <2>2 DEF LastInv, TypeOK
  <2>4. Open' \subseteq Open
    BY <2>2, ClosedType DEF Open, TypeOK
  <2> DEFINE True(x) == \A t \in Ids : (x[t].status # "pending" /\ ~x[t].imported)
                                            => x[t] = ended'[t]
  <2>5. ASSUME ~shared PROVE True(file') /\ \A q \in Procs : True(mem'[q])
    <3>1. True(data)
      <4>1. Truthful(mem[p]) /\ mem[p] \in [Ids -> Record] /\ ended \in [Ids -> Record]
        BY <2>5 DEF LastInv, TypeOK
      <4> QED BY <2>1, <2>2, <4>1 DEF Truthful
    <3>2. True(NoSteps)
      BY DEF NoSteps, NoRecord
    <3>3. \A q \in Procs : q # p => mem[q] = NoSteps
      BY <2>2, <2>5 DEF LastInv, Open
    <3> HIDE DEF True, data
    <3> QED BY <2>2, <3>1, <3>2, <3>3 DEF TypeOK
  <2> QED BY <2>2, <2>3, <2>4, <2>5 DEF LastInv, Truthful
<1>7. ASSUME NEW s \in Editable, Changed(s) PROVE LastInv'
  BY <1>7 DEF Changed, Edit, Restore, Rewrite, LastInv, Truthful, Open
<1>8. ASSUME NEW s \in Calling, EditCalled(s) PROVE LastInv'
  BY <1>8 DEF EditCalled, LastInv, Truthful, Open
<1>9. ASSUME LoseFile PROVE LastInv'
  BY <1>9, NoStepsTruthful DEF LoseFile, LastInv, Truthful, Open, world
<1>10. CASE UNCHANGED vars
  BY <1>10 DEF vars, LastInv, Truthful, Open
<1> QED BY <1>1, <1>2, <1>3, <1>4, <1>5, <1>6, <1>7, <1>8, <1>9, <1>10, NextCases

\* While one session is open at a time, whatever interrupts it and whenever the
\* file is lost, the file never shows an older outcome than the last.
THEOREM LastRunRecorded == Spec => []LastRunIsRecorded
<1>1. Init => LastInv
  BY NoStepsTruthful, ClosedType DEF Init, LastInv, Open
<1>2. LastInv => LastRunIsRecorded
  BY DEF LastInv, Truthful, LastRunIsRecorded
<1> QED BY <1>1, <1>2, NextLast, SetupType, PTL DEF Spec

-----------------------------------------------------------------------------
(* A resumed menu leaves nothing out: an action property, from EarnedInv.  *)

LEMMA OnlyOpenMenuShows ==
    ASSUME TypeOK, [Next]_vars, NEW p \in Procs,
           sess[p].phase = "closed", sess'[p].phase \in {"preset", "steps"}
    PROVE  \E preset \in Presets, explicit, keep, osOk \in BOOLEAN :
                OpenMenu(p, preset, explicit, keep, osOk)
<1>1. ASSUME NEW q \in Procs, Opening(q), q # p PROVE FALSE
  <2>1. \/ UNCHANGED sess
        \/ \E next \in Session : sess' = [sess EXCEPT ![q] = next]
    BY <1>1, OpeningIsFresh DEF Fresh
  <2> QED BY <1>1, <2>1 DEF TypeOK
<1>2. ASSUME NEW ids, NEW args, NEW a, CmdRun(p, ids, args, a) PROVE FALSE
  <2>1. \/ sess' = sess
        \/ \E todo : sess' = [sess EXCEPT ![p] =
                [Closed EXCEPT !.phase = "ready", !.plan = todo,
                               !.todo = todo, !.keep = args.keep]]
    BY <1>2 DEF CmdRun, Become
  <2> QED BY <2>1 DEF TypeOK, Closed
<1>3. ASSUME Opening(p)
      PROVE  \E preset \in Presets, explicit, keep, osOk \in BOOLEAN :
                OpenMenu(p, preset, explicit, keep, osOk)
  BY <1>2, <1>3 DEF Opening, RunProfile, RunAll, RunOnly, Rerun
<1>4. ASSUME NEW q \in Procs, Choosing(q) PROVE FALSE
  <2>1. sess[q].phase # "closed" /\ \E next \in Session : sess' = [sess EXCEPT ![q] = next]
    BY <1>4, ChoosingIsLocal
  <2> QED BY <2>1 DEF TypeOK
<1>5. ASSUME NEW q \in Procs, Quit(q) PROVE FALSE
  BY <1>5, ClosedType DEF Quit, Leave, Become, TypeOK
<1>6. ASSUME NEW q \in Procs, NEW s \in Ids, Begin(q, s) PROVE FALSE
  BY <1>6 DEF Begin, Become, TypeOK
<1>7. ASSUME NEW q \in Procs, NEW result \in {"ok", "failed"}, End(q, result) PROVE FALSE
  <2> DEFINE next == [sess[q] EXCEPT !.phase = "ready", !.todo = sess[q].todo \ {sess[q].run},
                        !.run = "none", !.dig = 0, !.ran = NoText,
                        !.bad = IF result = "failed" THEN @ \cup {sess[q].run} ELSE @]
  <2>0. /\ sess[q].phase # "closed"
        /\ sess' = [sess EXCEPT ![q] = Closed] \/ sess' = [sess EXCEPT ![q] = next]
    BY <1>7 DEF End, MarkRun, Recorded, Stops, Leave, Become
  <2> HIDE DEF next
  <2>1. sess[q].phase # "closed" /\ \E x : sess' = [sess EXCEPT ![q] = x]
    BY <2>0
  <2>2. \A r \in Procs : r # q => sess'[r] = sess[r]
    BY <2>1 DEF TypeOK
  <2> QED BY <2>1, <2>2
<1>8. ASSUME NEW q \in Procs, Start(q) PROVE FALSE
  <2>1. /\ sess[q].phase = "printed"
        /\ sess' = [sess EXCEPT ![q] = [sess[q] EXCEPT !.phase = "running",
                                                       !.ran = TextOf(sess[q].run)]]
    BY <1>8 DEF Start, Become
  <2>2. sess'[q].phase = "running" /\ \A r \in Procs : r # q => sess'[r] = sess[r]
    BY <2>1 DEF TypeOK, Session
  <2> QED BY <2>1, <2>2
<1>9. ASSUME \/ \E s \in Editable : Changed(s)
             \/ \E s \in Calling : EditCalled(s)
             \/ LoseFile
             \/ UNCHANGED vars
      PROVE  FALSE
  BY <1>9 DEF Changed, Edit, Restore, Rewrite, EditCalled, LoseFile, vars
<1> QED BY <1>1, <1>3, <1>4, <1>5, <1>6, <1>7, <1>8, <1>9, NextCases

\* A menu opened after any history of failures, interrupts, edits and overlaps
\* has every unfinished step of its preset ticked.
THEOREM MenuLeavesNothingOut == Spec => MenuResumes
<1> DEFINE Resumes ==
        \A p \in Procs, s \in Ids :
            (/\ sess[p].phase = "closed" /\ sess'[p].phase \in {"preset", "steps"}
             /\ DefaultFor(ById(STEPS, s), sess'[p].preset)
             /\ s \notin Undone /\ ~Succeeded(s, digest[s]) /\ ~file'[s].imported)
            => s \in sess'[p].ticked
<1>1. ASSUME TypeOK, EarnedInv, [Next]_vars PROVE Resumes
  <2> SUFFICES ASSUME NEW p \in Procs, NEW s \in Ids,
                      sess[p].phase = "closed", sess'[p].phase \in {"preset", "steps"},
                      DefaultFor(ById(STEPS, s), sess'[p].preset),
                      s \notin Undone, ~Succeeded(s, digest[s]), ~file'[s].imported
               PROVE  s \in sess'[p].ticked
    OBVIOUS
  <2>1. PICK preset \in Presets, explicit \in BOOLEAN, keep \in BOOLEAN, osOk \in BOOLEAN :
            OpenMenu(p, preset, explicit, keep, osOk)
    BY <1>1, OnlyOpenMenuShows
  <2> DEFINE known == ImportMarkers(file)
             status == StatusOf(known)
             ticked == Preselect(STEPS, preset, status)
  <2>2. file' = known /\ sess'[p].preset = preset /\ sess'[p].ticked = ticked
    <3> DEFINE shown == [Closed EXCEPT
                    !.phase = IF explicit THEN "steps" ELSE "preset",
                    !.preset = preset, !.seen = status, !.keep = keep, !.ticked = ticked]
    <3>1. file' = known
      BY <2>1 DEF OpenMenu
    <3>2. sess' # sess
      OBVIOUS
    <3>3. sess' = [sess EXCEPT ![p] = shown]
      BY <2>1, <3>2 DEF OpenMenu, Become
    <3>4. sess'[p] = shown
      <4> HIDE DEF shown
      <4> QED BY <1>1, <3>3 DEF TypeOK
    <3>5. shown.preset = preset /\ shown.ticked = ticked
      <4> HIDE DEF known, status, ticked
      <4> QED BY DEF Closed
    <3> QED BY <3>1, <3>4, <3>5
  <2>3. Earned(known)
    BY <1>1, ImportKeepsEarned DEF EarnedInv, TypeOK
  <2>4. status[s] # "ok"
    <3>1. digest[s] \in Nat
      BY <1>1, SetupAssumption DEF TypeOK, Digest
    <3> QED BY <2>2, <2>3, <3>1 DEF Earned, StatusOf, Backed, Outdated
  <2> QED BY <2>2, <2>4 DEF Preselect, Ids
<1>2. Spec => []EarnedInv
  <2>1. Init => EarnedInv
    BY NoStepsEarned DEF Init, EarnedInv
  <2> QED BY <2>1, NextEarned, SetupType, PTL DEF Spec
<1>3. TypeOK /\ EarnedInv /\ [Next]_vars => [Resumes]_vars
  BY <1>1
<1> QED BY <1>2, <1>3, SetupType, PTL DEF Spec, MenuResumes

-----------------------------------------------------------------------------
(* Order.  What `after' promises follows from ordered()'s check and the    *)
(* stop at the first failure, whatever the registry says.                  *)

GroundInv ==
    \A p \in Procs : sess[p].phase \in {"ready", "printed", "running"} =>
        /\ ~OrderedFails(STEPS, sess[p].plan)
        /\ sess[p].todo \subseteq sess[p].plan
        /\ ~sess[p].keep => sess[p].bad = {}
        /\ sess[p].phase \in {"printed", "running"} =>
            /\ sess[p].run \in sess[p].todo
            /\ \A t \in sess[p].todo : Rank(STEPS, sess[p].run) <= Rank(STEPS, t)

LEMMA RankIsInjective ==
    ASSUME NEW s \in Ids
    PROVE  Rank(STEPS, s) \in DOMAIN STEPS /\ STEPS[Rank(STEPS, s)].id = s
BY DEF Rank, Ids, IdsOf

LEMMA FirstIsAfterNothing ==
    ASSUME NEW plan \in SUBSET Ids, NEW todo \in SUBSET plan, NEW s \in todo,
           ~OrderedFails(STEPS, plan),
           \A t \in todo : Rank(STEPS, s) <= Rank(STEPS, t)
    PROVE  ById(STEPS, s).after \cap todo = {}
<1> SUFFICES ASSUME NEW d \in todo, d \in ById(STEPS, s).after PROVE FALSE
  OBVIOUS
<1> DEFINE i == Rank(STEPS, s)
           j == Rank(STEPS, d)
<1>1. i \in DOMAIN STEPS /\ STEPS[i].id = s /\ j \in DOMAIN STEPS /\ STEPS[j].id = d
  BY RankIsInjective
<1>2. i <= j /\ STEPS[j].id \in STEPS[i].after
  BY <1>1 DEF ById
<1> HIDE DEF i, j
<1> QED BY <1>1, <1>2 DEF OrderedFails

\* A plan is born whole and in order, with nothing failed.
Born(next) ==
    next.phase = "ready" => /\ ~OrderedFails(STEPS, next.plan)
                            /\ next.todo = next.plan /\ next.bad = {}

LEMMA OpeningIsBorn ==
    ASSUME TypeOK, NEW p \in Procs, Opening(p)
    PROVE  \/ sess' = sess
           \/ \E next : /\ sess' = [sess EXCEPT ![p] = next]
                        /\ next.phase \in {"ready", "preset", "steps"} /\ Born(next)
<1>1. ASSUME NEW data, NEW args, NEW a, CmdRun(p, data, args, a)
      PROVE  \/ sess' = sess
             \/ \E next : /\ sess' = [sess EXCEPT ![p] = next]
                          /\ next.phase \in {"ready", "preset", "steps"} /\ Born(next)
  <2> DEFINE todo == Select(STEPS, args, StatusOf(ImportMarkers(data)))
             next == [Closed EXCEPT !.phase = "ready", !.plan = todo,
                                    !.todo = todo, !.keep = args.keep]
  <2>1. \/ sess' = sess
        \/ ~OrderedFails(STEPS, todo) /\ sess' = [sess EXCEPT ![p] = next]
    BY <1>1 DEF CmdRun, Become
  <2>2. next.phase = "ready" /\ next.plan = todo /\ next.todo = todo /\ next.bad = {}
    BY DEF Closed
  <2> HIDE DEF todo, next
  <2> QED BY <2>1, <2>2 DEF Born
<1>2. ASSUME NEW preset, NEW explicit, NEW keep, NEW osOk,
             OpenMenu(p, preset, explicit, keep, osOk)
      PROVE  \/ sess' = sess
             \/ \E next : /\ sess' = [sess EXCEPT ![p] = next]
                          /\ next.phase \in {"ready", "preset", "steps"} /\ Born(next)
  <2> DEFINE status == StatusOf(ImportMarkers(file))
             next == [Closed EXCEPT !.phase = IF explicit THEN "steps" ELSE "preset",
                          !.preset = preset, !.seen = status, !.keep = keep,
                          !.ticked = Preselect(STEPS, preset, status)]
  <2>1. sess' = sess \/ sess' = [sess EXCEPT ![p] = next]
    BY <1>2 DEF OpenMenu, Become
  <2>2. next.phase \in {"steps", "preset"}
    BY DEF Closed
  <2> HIDE DEF next
  <2> QED BY <2>1, <2>2 DEF Born
<1> QED BY <1>1, <1>2 DEF Opening, RunProfile, RunAll, RunOnly, Rerun

\* In the menu, the selection is checked where it becomes a plan.
MenuInv ==
    \A p \in Procs : sess[p].phase = "review" => ~OrderedFails(STEPS, sess[p].plan)

LEMMA NextMenu == TypeOK /\ MenuInv /\ GroundInv /\ [Next]_vars => MenuInv' /\ GroundInv'
<1> DEFINE Fine(x) ==
        /\ x.phase = "review" => ~OrderedFails(STEPS, x.plan)
        /\ x.phase \in {"ready", "printed", "running"} =>
            /\ ~OrderedFails(STEPS, x.plan)
            /\ x.todo \subseteq x.plan
            /\ ~x.keep => x.bad = {}
            /\ x.phase \in {"printed", "running"} =>
                /\ x.run \in x.todo
                /\ \A t \in x.todo : Rank(STEPS, x.run) <= Rank(STEPS, t)
<1> SUFFICES ASSUME TypeOK, \A p \in Procs : Fine(sess[p]), [Next]_vars
             PROVE  \A p \in Procs : Fine(sess'[p])
  BY DEF MenuInv, GroundInv
<1>0. ASSUME NEW p \in Procs, NEW next, sess' = [sess EXCEPT ![p] = next], Fine(next)
      PROVE  \A q \in Procs : Fine(sess'[q])
  <2> HIDE DEF Fine
  <2> QED BY <1>0 DEF TypeOK
<1>1. ASSUME NEW p \in Procs, Opening(p) PROVE \A q \in Procs : Fine(sess'[q])
  <2>1. CASE sess' = sess
    BY <2>1
  <2>2. CASE sess' # sess
    <3>1. PICK next : /\ sess' = [sess EXCEPT ![p] = next]
                      /\ next.phase \in {"ready", "preset", "steps"} /\ Born(next)
      BY <1>1, <2>2, OpeningIsBorn
    <3>2. Fine(next)
      BY <3>1 DEF Born
    <3> QED BY <1>0, <3>1, <3>2
  <2> QED BY <2>1, <2>2
<1>2. ASSUME NEW p \in Procs, Choosing(p) PROVE \A q \in Procs : Fine(sess'[q])
  <2> DEFINE On == \E next : sess' = [sess EXCEPT ![p] = next] /\ Fine(next)
  <2>0. sess[p] \in Session
    BY DEF TypeOK
  <2>1. ASSUME NEW preset, Apply(p, preset) PROVE On
    <3> DEFINE next == [sess[p] EXCEPT !.phase = "steps", !.preset = preset,
                            !.ticked = Preselect(STEPS, preset, sess[p].seen)]
    <3>1. sess' = [sess EXCEPT ![p] = next] /\ next.phase = "steps"
      BY <2>0, <2>1 DEF Apply, Menu, Become, Session
    <3> HIDE DEF next
    <3> QED BY <3>1
  <2>2. ASSUME NEW ticked, sess[p].phase = "steps",
               sess' = [sess EXCEPT ![p] = [sess[p] EXCEPT !.ticked = ticked]]
        PROVE  On
    <3> DEFINE next == [sess[p] EXCEPT !.ticked = ticked]
    <3>1. next.phase = "steps"
      BY <2>0, <2>2 DEF Session
    <3>2. sess' = [sess EXCEPT ![p] = next]
      BY <2>2
    <3> HIDE DEF next
    <3> QED BY <3>1, <3>2
  <2>3. ASSUME (\E s : Toggle(p, s)) \/ (\E value : SetAll(p, value)) PROVE On
    <3> HIDE DEF On
    <3>1. ASSUME NEW s, Toggle(p, s) PROVE On
      <4> DEFINE ticked == IF s \in sess[p].ticked THEN sess[p].ticked \ {s}
                           ELSE sess[p].ticked \cup {s}
      <4>1. /\ sess[p].phase = "steps"
            /\ sess' = [sess EXCEPT ![p] = [sess[p] EXCEPT !.ticked = ticked]]
        BY <3>1 DEF Toggle, Menu, Become
      <4> HIDE DEF ticked
      <4> QED BY <2>2, <4>1
    <3>2. ASSUME NEW value, SetAll(p, value) PROVE On
      <4> DEFINE ticked == IF value THEN Ids ELSE {}
      <4>1. /\ sess[p].phase = "steps"
            /\ sess' = [sess EXCEPT ![p] = [sess[p] EXCEPT !.ticked = ticked]]
        BY <3>2 DEF SetAll, Menu, Become
      <4> HIDE DEF ticked
      <4> QED BY <2>2, <4>1
    <3> QED BY <2>3, <3>1, <3>2
  <2>4. ASSUME Enter(p) PROVE On
    <3> DEFINE next == [sess[p] EXCEPT !.phase = "review", !.plan = sess[p].ticked]
    <3>1. sess' = [sess EXCEPT ![p] = next] /\ ~OrderedFails(STEPS, sess[p].ticked)
      BY <2>4 DEF Enter, Menu, Become
    <3>2. next.phase = "review" /\ next.plan = sess[p].ticked
      BY <2>0 DEF Session
    <3> HIDE DEF next
    <3> QED BY <3>1, <3>2
  <2>5. ASSUME Back(p) PROVE On
    <3> DEFINE next == [sess[p] EXCEPT !.phase = "steps", !.plan = {}]
    <3>1. sess' = [sess EXCEPT ![p] = next] /\ next.phase = "steps"
      BY <2>0, <2>5 DEF Back, Menu, Become, Session
    <3> HIDE DEF next
    <3> QED BY <3>1
  <2>6. ASSUME Install(p) PROVE On
    <3> DEFINE next == [Closed EXCEPT !.phase = "ready", !.plan = sess[p].plan,
                                      !.todo = sess[p].plan, !.keep = sess[p].keep]
    <3>1. sess' = [sess EXCEPT ![p] = next] /\ ~OrderedFails(STEPS, sess[p].plan)
      BY <2>6 DEF Install, Menu, Become
    <3>2. next.phase = "ready" /\ next.plan = sess[p].plan /\ next.todo = sess[p].plan
          /\ next.bad = {}
      BY DEF Closed
    <3> HIDE DEF next
    <3> QED BY <3>1, <3>2
  <2> HIDE DEF Fine
  <2> QED BY <1>0, <1>2, <2>1, <2>3, <2>4, <2>5, <2>6 DEF Choosing
<1>3. ASSUME NEW p \in Procs, Quit(p) PROVE \A q \in Procs : Fine(sess'[q])
  BY <1>0, <1>3, ClosedType DEF Quit, Leave, Become
<1>4. ASSUME NEW p \in Procs, NEW s \in Ids, Begin(p, s) PROVE \A q \in Procs : Fine(sess'[q])
  <2> DEFINE next == [sess[p] EXCEPT !.phase = "printed", !.run = s, !.dig = digest[s]]
  <2>1. sess' = [sess EXCEPT ![p] = next] /\ sess[p] \in Session /\ Fine(sess[p])
        /\ sess[p].phase = "ready"
    BY <1>4 DEF Begin, Become, TypeOK
  <2>2. next.run = s /\ next.todo = sess[p].todo /\ next.plan = sess[p].plan
        /\ next.bad = sess[p].bad /\ next.keep = sess[p].keep /\ next.phase = "printed"
    BY <2>1 DEF Session
  <2>3. s \in sess[p].todo /\ \A t \in sess[p].todo : Rank(STEPS, s) <= Rank(STEPS, t)
    BY <1>4 DEF Begin
  <2> HIDE DEF next
  <2>4. Fine(next)
    BY <2>1, <2>2, <2>3
  <2> HIDE DEF Fine
  <2> QED BY <1>0, <2>1, <2>4
<1>5. ASSUME NEW p \in Procs, NEW result \in {"ok", "failed"}, End(p, result)
      PROVE  \A q \in Procs : Fine(sess'[q])
  <2> DEFINE s == sess[p].run
             todo == sess[p].todo \ {s}
             bad == IF result = "failed" THEN sess[p].bad \cup {s} ELSE sess[p].bad
             next == [sess[p] EXCEPT !.phase = "ready", !.todo = todo, !.run = "none",
                                     !.dig = 0, !.ran = NoText, !.bad = bad]
  <2>1. sess[p] \in Session /\ sess[p].phase \in {"printed", "running"} /\ Fine(sess[p])
    BY <1>5 DEF End, MarkRun, Recorded, Stops, TypeOK
  <2>2. \/ sess' = [sess EXCEPT ![p] = Closed]
        \/ sess' = [sess EXCEPT ![p] = next] /\ (result # "failed" \/ sess[p].keep)
    BY <1>5 DEF End, MarkRun, Recorded, Stops, Leave, Become
  <2>3. next.todo = todo /\ next.plan = sess[p].plan /\ next.bad = bad
        /\ next.keep = sess[p].keep /\ next.phase = "ready"
    <3> HIDE DEF todo, bad
    <3> QED BY <2>1 DEF Session
  <2> HIDE DEF next
  <2>4. (result # "failed" \/ sess[p].keep) => Fine(next)
    BY <2>1, <2>3
  <2>5. Fine(Closed)
    BY ClosedType
  <2> HIDE DEF Fine
  <2> QED BY <1>0, <2>2, <2>4, <2>5
<1>6. ASSUME NEW p \in Procs, Start(p) PROVE \A q \in Procs : Fine(sess'[q])
  <2> DEFINE next == [sess[p] EXCEPT !.phase = "running", !.ran = TextOf(sess[p].run)]
  <2>1. /\ sess' = [sess EXCEPT ![p] = next] /\ sess[p] \in Session /\ Fine(sess[p])
        /\ sess[p].phase = "printed"
    BY <1>6 DEF Start, Become, TypeOK
  <2>2. /\ next.run = sess[p].run /\ next.todo = sess[p].todo /\ next.plan = sess[p].plan
        /\ next.bad = sess[p].bad /\ next.keep = sess[p].keep /\ next.phase = "running"
    BY <2>1 DEF Session
  <2> HIDE DEF next
  <2>3. Fine(next)
    BY <2>1, <2>2
  <2> HIDE DEF Fine
  <2> QED BY <1>0, <2>1, <2>3
<1>7. ASSUME \/ \E s \in Editable : Changed(s)
             \/ \E s \in Calling : EditCalled(s)
             \/ LoseFile
             \/ UNCHANGED vars
      PROVE  UNCHANGED sess
  BY <1>7 DEF Changed, Edit, Restore, Rewrite, EditCalled, LoseFile, vars
<1> HIDE DEF Fine
<1> QED BY <1>1, <1>2, <1>3, <1>4, <1>5, <1>6, <1>7, NextCases

\* Whatever the registry says and whatever is selected, in the menu or outside
\* it: without --keep-going no step runs before, or on top of the failure of, a
\* step of the same run that it comes after.
THEOREM GroundIsFirm == Spec => []RunsOnFirmGround
<1>1. Init => MenuInv /\ GroundInv
  BY ClosedType DEF Init, MenuInv, GroundInv
<1>2. TypeOK /\ GroundInv => RunsOnFirmGround
  <2> SUFFICES ASSUME TypeOK, GroundInv, NEW p \in Procs,
                      sess[p].phase = "running", ~sess[p].keep
               PROVE  ById(STEPS, sess[p].run).after \cap sess[p].plan
                        \cap (sess[p].todo \cup sess[p].bad) = {}
    BY DEF RunsOnFirmGround
  <2>1. /\ sess[p].plan \in SUBSET Ids /\ sess[p].todo \in SUBSET sess[p].plan
        /\ sess[p].run \in sess[p].todo /\ sess[p].bad = {}
        /\ ~OrderedFails(STEPS, sess[p].plan)
        /\ \A t \in sess[p].todo : Rank(STEPS, sess[p].run) <= Rank(STEPS, t)
    BY DEF TypeOK, GroundInv, Session
  <2>2. ById(STEPS, sess[p].run).after \cap sess[p].todo = {}
    BY <2>1, FirstIsAfterNothing
  <2> QED BY <2>1, <2>2
<1> QED BY <1>1, <1>2, NextMenu, SetupType, PTL DEF Spec
=============================================================================

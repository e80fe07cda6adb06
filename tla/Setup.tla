-------------------------------- MODULE Setup --------------------------------
(***************************************************************************)
(* setup.sh: sessions that pick steps, in the menu or from the command     *)
(* line, run them, and record what happened in setup/.state.json.          *)
(*                                                                         *)
(* A session reads the file once, when it starts, and writes the whole of  *)
(* it back after every step.  Sessions may overlap (two terminals), be     *)
(* interrupted at any point, and the scripts of the steps may be edited at *)
(* any time, undone again, and a step may call scripts of the repository   *)
(* its fingerprint does not cover.  A child cut short may have done        *)
(* anything.                                                               *)
(*                                                                         *)
(* file, mem, sess, digest and called are the program's and the            *)
(* repository's.  won, ended, shared, raced and restored are history: what *)
(* really ran and happened, whatever the file says of it.                  *)
(***************************************************************************)
EXTENDS SetupRegistry

CONSTANTS STEPS,        \* the registry, or a part of it, in its order
          Procs,        \* sessions that may be open at a time
          Presets,      \* profiles the operators ask for
          Pickable,     \* ids named or ticked by hand
          Editable,     \* ids whose command or script changes
          Calling,      \* ids whose command calls a script by a longer text
          Markers,      \* ids with a marker of the previous setup system
          MaxEdits, MaxSessions

Ids == IdsOf(STEPS)
Digest == 0..MaxEdits

ASSUME SetupAssumption ==
    /\ Pickable \subseteq Ids /\ Editable \subseteq Ids /\ Calling \subseteq Ids
    /\ Presets \subseteq {"dev", "vehicle", "all", "none", "ci"}
    /\ MaxEdits \in Nat /\ MaxSessions \in Nat

VARIABLES
    file,       \* .state.json: the record of every step
    mem,        \* per session, State.data
    sess,       \* per session, where it is
    digest,     \* the fingerprint each step has now
    called,     \* the scripts it calls as they are now, which digest() does not read
    won,        \* the texts that have run to their end with success
    ended,      \* the record the last run of the step to end deserves
    shared,     \* two sessions have been open at a time
    raced,      \* steps edited between their fingerprint and their start
    restored,   \* steps put back to an earlier text
    opened      \* sessions so far, for the bound

texts == <<digest, called, raced, restored>>
vars == <<file, mem, sess, won, ended, shared, opened, texts>>
world == <<texts, won, ended>>

Record == [status : {"pending", "ok", "failed"}, digest : Digest, imported : BOOLEAN]
NoRecord == [status |-> "pending", digest |-> 0, imported |-> FALSE]
NoSteps == [s \in Ids |-> NoRecord]

\* What runs when the command of a step is started.
Text == [digest : Digest, called : Digest]
NoText == [digest |-> 0, called |-> 0]
TextOf(s) == [digest |-> digest[s], called |-> called[s]]
Mark(status, d) == [status |-> status, digest |-> d, imported |-> FALSE]

\* Variant for the mutation runs: a record counts whatever the script is by now.
StatusOfRecord(data) == [s \in Ids |-> data[s].status]

StatusOf(data) ==
    [s \in Ids |-> IF data[s].status = "ok" /\ data[s].digest # digest[s] THEN "stale"
                   ELSE data[s].status]

Forget(data, ids) == [s \in Ids |-> IF s \in ids THEN NoRecord ELSE data[s]]

\* Markers are adopted, as done with the script of today, by an empty state.
ImportMarkers(data) ==
    IF data # NoSteps THEN data
    ELSE [s \in Ids |-> IF s \in Markers
                        THEN [status |-> "ok", digest |-> digest[s], imported |-> TRUE]
                        ELSE NoRecord]

Closed == [phase |-> "closed", preset |-> "none",
           seen |-> [s \in Ids |-> "pending"], ticked |-> {},
           plan |-> {}, todo |-> {}, bad |-> {}, keep |-> FALSE, run |-> "none", dig |-> 0,
           ran |-> NoText]

Words == {"pending", "ok", "failed", "stale"}
Session ==
    [phase : {"closed", "preset", "steps", "review", "ready", "printed", "running"},
     preset : Presets \cup {"none"}, \* Selection.preset
     seen : [Ids -> Words],         \* Selection.status, read once
     ticked : SUBSET Ids,           \* Selection.ticked
     plan : SUBSET Ids,             \* what run_all was given
     todo : SUBSET Ids,             \* and has not passed yet
     bad : SUBSET Ids,              \* steps that failed in this session
     keep : BOOLEAN,                \* --keep-going
     run : Ids \cup {"none"},       \* the step in hand
     dig : Digest,                  \* its fingerprint, taken before it starts
     ran : Text]                    \* what its child runs

Open == {p \in Procs : sess[p].phase # "closed"}

Become(p, next) == sess' = [sess EXCEPT ![p] = next]
Remember(p, data) == mem' = [mem EXCEPT ![p] = data]
Leave(p) == Become(p, Closed) /\ Remember(p, NoSteps)

Init ==
    /\ file = NoSteps
    /\ mem = [p \in Procs |-> NoSteps]
    /\ sess = [p \in Procs |-> Closed]
    /\ digest = [s \in Ids |-> 0] /\ called = [s \in Ids |-> 0]
    /\ won = [s \in Ids |-> {}]
    /\ ended = [s \in Ids |-> NoRecord]
    /\ shared = FALSE
    /\ raced = {} /\ restored = {}
    /\ opened = 0

-----------------------------------------------------------------------------
(* Opening a session.                                                      *)

Opens(p) ==
    /\ p \notin Open
    /\ opened < MaxSessions
    /\ opened' = opened + 1
    /\ shared' = (shared \/ Open # {})
    /\ UNCHANGED world

\* cmd_run.  proceed is "no_os" when check_os refuses, "no" for a dry run or
\* when the operator cancels at the prompt, "yes" otherwise.
CmdRun(p, data, args, proceed) ==
    LET known == ImportMarkers(data)
        todo == Select(STEPS, args, StatusOf(known))
    IN  /\ file' = IF proceed = "no_os" THEN data ELSE known
        /\ IF proceed = "yes" /\ todo # {} /\ ~OrderedFails(STEPS, todo)
           THEN /\ Remember(p, known)
                /\ Become(p, [Closed EXCEPT !.phase = "ready", !.plan = todo,
                                            !.todo = todo, !.keep = args.keep])
           ELSE UNCHANGED <<mem, sess>>

Args(all, profile, only, skip, force, keep) ==
    [all |-> all, profile |-> profile, only |-> only, skip |-> skip,
     force |-> force, keep |-> keep]

RunProfile(p, profile, skip, force, keep, proceed) ==
    /\ Opens(p)
    /\ CmdRun(p, file, Args(FALSE, profile, {}, skip, force, keep), proceed)

RunAll(p, keep, proceed) ==
    /\ Opens(p)
    /\ CmdRun(p, file, Args(TRUE, "dev", {}, {}, FALSE, keep), proceed)

RunOnly(p, s, proceed) ==
    /\ Opens(p)
    /\ CmdRun(p, file, Args(FALSE, "dev", {s}, {}, FALSE, FALSE), proceed)

\* cmd_rerun forgets the step, and saves, before cmd_run looks at anything.
Rerun(p, s, proceed) ==
    /\ Opens(p)
    /\ CmdRun(p, Forget(file, {s}), Args(FALSE, "dev", {s}, {}, TRUE, FALSE), proceed)

\* run_menu; an explicit profile has already answered the first screen.
OpenMenu(p, preset, explicit, keep, osOk) ==
    LET known == ImportMarkers(file)
        status == StatusOf(known)
    IN  /\ Opens(p)
        /\ file' = known
        /\ IF osOk
           THEN /\ Remember(p, known)
                /\ Become(p, [Closed EXCEPT
                        !.phase = IF explicit THEN "steps" ELSE "preset",
                        !.preset = preset, !.seen = status, !.keep = keep,
                        !.ticked = Preselect(STEPS, preset, status)])
           ELSE UNCHANGED <<mem, sess>>

-----------------------------------------------------------------------------
(* The menu, on the full screen or line by line.                           *)

Menu(p, phases, next) ==
    /\ sess[p].phase \in phases
    /\ Become(p, next)
    /\ UNCHANGED <<file, mem, shared, opened>> /\ UNCHANGED world

\* choose_preset's answer, `p' and `r' on the list of steps: Selection.apply.
Apply(p, preset) ==
    Menu(p, {"preset", "steps"},
         [sess[p] EXCEPT !.phase = "steps", !.preset = preset,
                         !.ticked = Preselect(STEPS, preset, sess[p].seen)])

Toggle(p, s) ==
    Menu(p, {"steps"}, [sess[p] EXCEPT !.ticked = IF s \in @ THEN @ \ {s} ELSE @ \cup {s}])

SetAll(p, value) ==
    Menu(p, {"steps"}, [sess[p] EXCEPT !.ticked = IF value THEN Ids ELSE {}])

Enter(p) ==
    /\ sess[p].ticked # {} /\ ~OrderedFails(STEPS, sess[p].ticked)
    /\ Menu(p, {"steps"}, [sess[p] EXCEPT !.phase = "review", !.plan = sess[p].ticked])

Back(p) ==
    Menu(p, {"review"}, [sess[p] EXCEPT !.phase = "steps", !.plan = {}])

Install(p) ==
    Menu(p, {"review"}, [Closed EXCEPT !.phase = "ready", !.plan = sess[p].plan,
                                       !.todo = sess[p].plan, !.keep = sess[p].keep])

\* Quitting the menu, a refused sudo, an interrupt, a power cut: nothing is
\* recorded of a step that is running.
Quit(p) ==
    /\ p \in Open
    /\ Leave(p)
    /\ UNCHANGED <<file, shared, opened>> /\ UNCHANGED world

-----------------------------------------------------------------------------
(* Running the plan.                                                       *)

\* Variant for the mutation runs: a step is taken off the list before it has run.
BeginTaking(p, s) ==
    /\ sess[p].phase = "ready"
    /\ s \in sess[p].todo
    /\ \A t \in sess[p].todo : Rank(STEPS, s) <= Rank(STEPS, t)
    /\ Become(p, [sess[p] EXCEPT !.phase = "printed", !.run = s, !.dig = digest[s],
                                 !.todo = @ \ {s}])
    /\ UNCHANGED <<file, mem, shared, opened>> /\ UNCHANGED world

\* run_one takes the fingerprint first.
Begin(p, s) ==
    /\ sess[p].phase = "ready"
    /\ s \in sess[p].todo
    /\ \A t \in sess[p].todo : Rank(STEPS, s) <= Rank(STEPS, t)
    /\ Become(p, [sess[p] EXCEPT !.phase = "printed", !.run = s, !.dig = digest[s]])
    /\ UNCHANGED <<file, mem, shared, opened>> /\ UNCHANGED world

\* The child runs its text as it is by then.
Start(p) ==
    /\ sess[p].phase = "printed"
    /\ Become(p, [sess[p] EXCEPT !.phase = "running", !.ran = TextOf(sess[p].run)])
    /\ UNCHANGED <<file, mem, shared, opened>> /\ UNCHANGED world

\* Variant for the mutation runs: the fingerprint is taken when the child has ended.
MarkAtTheEnd(p, result) == Mark(result, digest[sess[p].run])

MarkRun(p, result) == Mark(result, sess[p].dig)

\* Variant for the mutation runs: a failure is not recorded.
RecordedIfOk(data, s, rec) == IF rec.status = "ok" THEN [data EXCEPT ![s] = rec] ELSE data

Recorded(data, s, rec) == [data EXCEPT ![s] = rec]

\* Variant for the mutation runs: run_all goes on after a failure.
StopsAtTheEnd(p, todo, result) == todo = {}

Stops(p, todo, result) == todo = {} \/ (result = "failed" /\ ~sess[p].keep)

\* run_one from the child's end, or from the error that kept it from starting,
\* and what run_all does with the answer.
End(p, result) ==
    LET s == sess[p].run
        data == Recorded(mem[p], s, MarkRun(p, result))
        todo == sess[p].todo \ {s}
    IN  /\ \/ sess[p].phase = "running"
           \/ sess[p].phase = "printed" /\ result = "failed"
        /\ file' = data
        /\ ended' = [ended EXCEPT ![s] = Mark(result, sess[p].dig)]
        /\ won' = [won EXCEPT ![s] = IF result = "ok" THEN @ \cup {sess[p].ran} ELSE @]
        /\ IF Stops(p, todo, result) THEN Leave(p)
           ELSE /\ Remember(p, data)
                /\ Become(p, [sess[p] EXCEPT !.phase = "ready", !.todo = todo,
                        !.run = "none", !.dig = 0, !.ran = NoText,
                        !.bad = IF result = "failed" THEN @ \cup {s} ELSE @])
        /\ UNCHANGED <<texts, shared, opened>>

-----------------------------------------------------------------------------
(* The world.                                                              *)

AboutToStart(s) == \E p \in Procs : sess[p].phase = "printed" /\ sess[p].run = s

Rewrite(s, d) ==
    /\ digest' = [digest EXCEPT ![s] = d]
    /\ raced' = IF AboutToStart(s) THEN raced \cup {s} ELSE raced
    /\ UNCHANGED <<file, mem, sess, called, won, ended, shared, opened>>

Edit(s) ==
    /\ digest[s] < MaxEdits
    /\ Rewrite(s, digest[s] + 1)
    /\ UNCHANGED restored

Restore(s, d) ==
    /\ d < digest[s]
    /\ Rewrite(s, d)
    /\ restored' = restored \cup {s}

EditCalled(s) ==
    /\ called[s] < MaxEdits
    /\ called' = [called EXCEPT ![s] = @ + 1]
    /\ UNCHANGED <<file, mem, sess, digest, raced, restored, won, ended, shared, opened>>

\* The file is deleted to start over, or found unreadable: State.__init__
\* starts clean in both cases.
LoseFile ==
    /\ file' = NoSteps
    /\ UNCHANGED <<mem, sess, shared, opened>> /\ UNCHANGED world

Answers == {"no_os", "no", "yes"}
Skips == {{}} \cup {{s} : s \in Pickable}

Next ==
    \/ \E p \in Procs :
        \/ \E profile \in Presets, skip \in Skips, force, keep \in BOOLEAN, a \in Answers :
                RunProfile(p, profile, skip, force, keep, a)
        \/ \E keep \in BOOLEAN, a \in Answers : RunAll(p, keep, a)
        \/ \E s \in Pickable, a \in Answers : RunOnly(p, s, a) \/ Rerun(p, s, a)
        \/ \E preset \in Presets, explicit, keep, osOk \in BOOLEAN :
                OpenMenu(p, preset, explicit, keep, osOk)
        \/ \E preset \in Presets : Apply(p, preset)
        \/ \E s \in Pickable : Toggle(p, s)
        \/ \E value \in BOOLEAN : SetAll(p, value)
        \/ Enter(p) \/ Back(p) \/ Install(p) \/ Quit(p)
        \/ \E s \in Ids : Begin(p, s)
        \/ Start(p)
        \/ \E result \in {"ok", "failed"} : End(p, result)
    \/ \E s \in Editable : Edit(s) \/ \E d \in Digest : Restore(s, d)
    \/ \E s \in Calling : EditCalled(s)
    \/ LoseFile

Spec == Init /\ [][Next]_vars

-----------------------------------------------------------------------------
TypeOK ==
    /\ file \in [Ids -> Record]
    /\ mem \in [Procs -> [Ids -> Record]]
    /\ sess \in [Procs -> Session]
    /\ \A p \in Procs : sess[p].phase \in {"printed", "running"} =>
                            sess[p].run \in sess[p].todo
    /\ digest \in [Ids -> Digest] /\ called \in [Ids -> Digest]
    /\ won \in [Ids -> SUBSET Text]
    /\ ended \in [Ids -> Record]
    /\ shared \in BOOLEAN /\ opened \in 0..MaxSessions
    /\ raced \subseteq Ids /\ restored \subseteq Ids

\* A text with the fingerprint d has run to its end with success.
Succeeded(s, d) == \E t \in won[s] : t.digest = d

\* The one way to mislead the fingerprint: an edit between it and the start of
\* the child, that is undone later.
Undone == raced \cap restored

\* A step reads "installed" only if what its fingerprint covers, as it is
\* today, is what a child has run to its end with success at some time, or a
\* marker was adopted for it: however sessions overlap, whatever is edited or
\* interrupted meanwhile.  An edit that slips in between the fingerprint and
\* the start makes the step read "stale", never installed, unless it is undone.
\* A script that is called inside a shell text is not covered: the step reads
\* "installed" after such a script has changed, where the comment on digest()
\* has it that the fingerprint lets one say "the script has changed since".
InstalledWasEarned ==
    \A s \in Ids \ Undone :
        (StatusOf(file)[s] = "ok" /\ ~file[s].imported) => Succeeded(s, digest[s])

\* As long as sessions do not overlap, a record says how the last run of the
\* step to end has ended: a failure is never forgotten in favour of an older
\* success.  (Overlapping sessions do lose it: each writes back the whole of
\* what it read when it started.)
LastRunIsRecorded ==
    \A s \in Ids : (~shared /\ file[s].status # "pending" /\ ~file[s].imported)
                        => file[s] = ended[s]

\* Without --keep-going, a step is never run on top of one that it comes after,
\* that the same session was to run, and that has not succeeded in it.
RunsOnFirmGround ==
    \A p \in Procs : (sess[p].phase = "running" /\ ~sess[p].keep) =>
        ById(STEPS, sess[p].run).after \cap sess[p].plan
            \cap (sess[p].todo \cup sess[p].bad) = {}

\* A menu that opens on a preset has ticked every step of it of which no text
\* with today's fingerprint has succeeded, unless a marker speaks for it: a
\* resumed setup leaves nothing out.
MenuResumes ==
    [][\A p \in Procs, s \in Ids :
        (/\ sess[p].phase = "closed" /\ sess'[p].phase \in {"preset", "steps"}
         /\ DefaultFor(ById(STEPS, s), sess'[p].preset)
         /\ s \notin Undone /\ ~Succeeded(s, digest[s]) /\ ~file'[s].imported)
        => s \in sess'[p].ticked]_vars
=============================================================================

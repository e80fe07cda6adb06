---------------------------- MODULE DiagnosticDrill ----------------------------
(***************************************************************************)
(* diag_inject: forces leaves of the live diagnostic graph to a level, for *)
(* a drill.  A pattern is the set of leaves whose name contains it.  The   *)
(* clock is read at each call of the timer and may go back when it is set. *)
(***************************************************************************)
EXTENDS Integers, Sequences

LEVELS == {"OK", "WARN", "ERROR", "STALE"}
Never == -1

\* What may stand for a level on the command line; "LOUD" is any other word.
Words == LEVELS \cup {"LOUD"}

DrillArgs(leaves) ==
    [faults : Seq([hits : SUBSET leaves, level : Words]), at : Int, clear_at : Int,
     list : BOOLEAN, allow_conflict : BOOLEAN]

\* resolve: a later pattern overrides an earlier one on the leaves both name.
Malformed(faults) ==
    \E k \in DOMAIN faults : faults[k].hits = {} \/ faults[k].level \notin LEVELS

Wanted(faults, leaf) ==
    LET naming == {k \in DOMAIN faults : leaf \in faults[k].hits}
    IN  IF naming = {} THEN "OK"
        ELSE faults[CHOOSE k \in naming : \A j \in naming : j <= k].level

\* main, up to the publisher: `others' were publishing before it.
Refuses(leaves, args, others) ==
    \/ leaves = {}
    \/ Malformed(args.faults)
    \/ others > 0 /\ ~args.allow_conflict

\* Variant for the mutation runs: the two times are looked at one by one, so
\* that what was cleared is applied again.
ActiveTwice(active, args, now) == now >= args.at

\* tick: whether the faults are applied after it.
Active(active, args, now) ==
    IF args.clear_at # Never /\ now >= args.clear_at THEN FALSE
    ELSE now >= args.at \/ active

Message(leaves, args, active) ==
    [leaf \in leaves |-> IF active THEN Wanted(args.faults, leaf) ELSE "OK"]

\* Whether the faults are applied after each call of the timer, at the readings
\* `clock'; before the first call they are if there is nothing to wait for.
Applied(args, clock) ==
    LET active[k \in 0..Len(clock)] ==
            IF k = 0 THEN args.at <= 0 ELSE Active(active[k - 1], args, clock[k])
    IN  active

\* What each call publishes, until --stop-at or the keyboard ends the run.
Inject(leaves, args, others, clock) ==
    IF args.list \/ Refuses(leaves, args, others) THEN <<>>
    ELSE [k \in DOMAIN clock |-> Message(leaves, args, Applied(args, clock)[k])]

Exit(leaves, args, others) ==
    IF leaves = {} \/ (~args.list /\ Refuses(leaves, args, others)) THEN 1 ELSE 0
=============================================================================

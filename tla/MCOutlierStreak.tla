--------------------------- MODULE MCOutlierStreak ---------------------------
(* IntegrityMonitor for TLC, remembering for how many solves in a row each   *)
(* board has been thrown out of the consensus.                               *)
EXTENDS IntegrityMonitor

VARIABLE streak   \* history: solves in a row that threw the board out

streakVars == <<ladder, flagged, streak>>

\* A board takes part in a solve or it is thrown out; it is seen once.
StreakSolve ==
  \E thrownOut \in SUBSET (Board \ flagged), v \in Verdicts :
    /\ v.solved # {} /\ v.solved \cap (flagged \cup thrownOut) = {}
    /\ Judge([b \in Board |-> IF b \in thrownOut THEN 1 ELSE 0], v)
    /\ streak' = [b \in Board |->
                    IF b \notin thrownOut
                    THEN IF b \in v.solved THEN 0 ELSE streak[b]
                    ELSE IF streak[b] < FlagCount THEN streak[b] + 1 ELSE streak[b]]

StreakInit == MonitorInit /\ streak = [b \in Board |-> 0]

StreakSpec == StreakInit /\ [][StreakSolve]_streakVars

\* "One disagreeing frame is still noise and a persistent one still becomes a
\* maintenance event" (health.cpp:83-84); "ten in a row is a board that has
\* moved" (health.hpp:38-39).  A board thrown out of FlagCount solves in a row
\* is flagged.
PersistentOutlierIsFlagged ==
  \A b \in Board : streak[b] >= FlagCount => b \in flagged
===============================================================================

--------------------------- MODULE MCFlipConsensus ---------------------------
(* FlipConsensus for TLC. *)
EXTENDS FlipConsensus

\* Every sighting is of another board.
MCDistinctBoards == [s \in 1..3 |-> s]

\* Two cameras see the same board.
MCRepeatedBoard == [s \in 1..3 |-> IF s = 3 THEN 2 ELSE 1]
===============================================================================

------------------------------- MODULE MCSetup -------------------------------
(* Two or three steps of the registry, in its order, for model checking.   *)
EXTENDS Setup, TLC

CONSTANT Focus
SomeSteps == SelectSeq(REGISTRY, LAMBDA step : step.id \in Focus)

ProcSymmetry == Permutations(Procs)
=============================================================================

------------------------ MODULE MCLocalizationState ------------------------
(* LocalizationState for TLC. *)
EXTENDS LocalizationState

\* Negative: the clock jumped back.  6: a jump past every budget at once.
MCClockSteps == {-1, 0, 1, 2, 6}
===============================================================================

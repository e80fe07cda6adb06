--------------------------- MODULE MCArucoLocalizer ---------------------------
(* ArucoLocalizer for TLC. *)
EXTENDS ArucoLocalizer, TLC

CONSTANTS b1, b2, b3

\* b1 hangs on another wall than b2 and b3.
MCAngled == {{b1, b2}, {b1, b3}}

MCSymmetry == Permutations({b2, b3})
===============================================================================

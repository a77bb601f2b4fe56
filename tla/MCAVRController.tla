--------------------------- MODULE MCAVRController ---------------------------
(* Small instances of AVRController for TLC. *)
EXTENDS AVRController, TLC

CONSTANTS c1, c2, f1, f2

\* Clients are interchangeable: no property names one.
MCSymmetry == Permutations(Clients)
=============================================================================

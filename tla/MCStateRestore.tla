--------------------------- MODULE MCStateRestore ---------------------------
(* Instances of StateRestore for TLC. *)
EXTENDS StateRestore

CONSTANTS presets, settings, reports

TwoParts == <<presets, reports>>
ThreeParts == <<presets, settings, reports>>
=============================================================================

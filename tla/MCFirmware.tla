----------------------------- MODULE MCFirmware -----------------------------
(* Small instances of Firmware.                                            *)
EXTENDS Firmware, TLC

CONSTANTS s1, s2, c1

MCSymmetry == Permutations(Sessions)
=============================================================================

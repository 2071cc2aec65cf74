----------------------------- MODULE MCSimDevice -----------------------------
(* Small instances of SimDevice.                                           *)
EXTENDS SimDevice, TLC

CONSTANTS s1, s2, t1, t2, p1, p2, c1

MCSymmetry ==
  Permutations(Sessions) \cup Permutations(Ticks) \cup Permutations(Presses)
=============================================================================

------------------------- MODULE MCSharedConnection -------------------------
(* Small instances of SharedConnection.                                    *)
EXTENDS SharedConnection, TLC

CONSTANTS a1, a2, a3, b1, b2, n1, n2

MCSymmetry ==
  Permutations(Approvals) \cup Permutations(Presses) \cup Permutations(Reservations)
=============================================================================

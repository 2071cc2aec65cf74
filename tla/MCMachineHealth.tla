--------------------------- MODULE MCMachineHealth ---------------------------
(* Small instances of MachineHealth.                                       *)
EXTENDS MachineHealth, TLC

CONSTANTS m1, m2, r1, r2, p1

MCSymmetry == Permutations(Machines) \cup Permutations(Rounds)
=============================================================================

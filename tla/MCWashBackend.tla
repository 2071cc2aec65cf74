--------------------------- MODULE MCWashBackend ---------------------------
(* Instances of WashBackend for TLC.                                       *)
EXTENDS WashBackend, TLC

CONSTANTS m1, m2, s1, s2, p1

(* Every purchase on one machine, or one machine each.                     *)
SameMachine == [ s \in Sessions |-> m1 ]
OwnMachine  == [ s \in Sessions |-> IF s = s1 THEN m1 ELSE m2 ]

(* Every purchase with the same plate.                                     *)
SamePlate == [ s \in Sessions |-> p1 ]

AllOutcomes     == Verdicts
ApprovalsOnly   == { "PENDING", "APPROVED" }
SettledOutcomes == { "APPROVED", "REJECTED" }

(* Purchases on one machine, and overlapping sweeps, are interchangeable.  *)
SessionSymmetry == Permutations(Sessions)
SweepSymmetry   == Permutations(Sweepers)

=============================================================================

---------------------------- MODULE MCWashSystem ----------------------------
(* Small instances of WashSystem.                                          *)
EXTENDS WashSystem, TLC

CONSTANTS s1, s2, c1, c2

MCCommandRank == [ c \in Commands |-> IF c = c1 THEN 1 ELSE 2 ]
MCSymmetry == Permutations(Sessions)
=============================================================================

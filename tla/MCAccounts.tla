----------------------------- MODULE MCAccounts -----------------------------
(* The instances of Accounts that TLC checks.                              *)
EXTENDS Accounts, TLC

CONSTANTS t, a, b, o, c1, c2

MCRoles == [ u \in Users |-> CASE u = t -> "tecnico" [] u = o -> "none" [] OTHER -> "admin" ]

MCSymmetry == Permutations(Calls)
=============================================================================

---------------------------- MODULE MCCustomerPage ----------------------------
(* The instances of CustomerPage that TLC checks.                          *)
EXTENDS CustomerPage, TLC

CONSTANTS s1, s2

MCPins == { "", "pin" }
MCVehicle == [ category |-> "socio", enabled |-> TRUE, pin |-> "pin" ]
MCTariff == [ remis |-> 1, socio |-> 2, externo |-> 3 ]

MCSymmetry == Permutations(Sessions)
=============================================================================

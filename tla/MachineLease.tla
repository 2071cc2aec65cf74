---------------------------- MODULE MachineLease ----------------------------
(***************************************************************************)
(* What the car wash promises, without payments rows, authorizations,      *)
(* sweeps or messages: a machine is leased to one customer at a time, in   *)
(* the order of the reservations; only a lease that was paid for is armed; *)
(* an armed lease gives water at most once.                                *)
(***************************************************************************)
EXTENDS Naturals

CONSTANTS Sessions, Machines, MachineOf

VARIABLES
  phase,   \* none, reserved, lapsed, armed, washing, served or void
  turn,    \* the rank of the reservation (0: none yet)
  turns,   \* reservations so far
  paid     \* the leases somebody paid for

leaseVars == << phase, turn, turns, paid >>

Holding == { "reserved", "armed", "washing" }

Rivals(s) == { t \in Sessions \ {s} : MachineOf[t] = MachineOf[s] }

Init ==
  /\ phase = [ s \in Sessions |-> "none" ]
  /\ turn = [ s \in Sessions |-> 0 ]
  /\ turns = 0
  /\ paid = {}

Reserve(s) ==
  /\ phase[s] = "none"
  /\ \A t \in Rivals(s) : phase[t] \notin Holding
  /\ phase' = [ phase EXCEPT ![s] = "reserved" ]
  /\ turns' = turns + 1
  /\ turn' = [ turn EXCEPT ![s] = turns + 1 ]
  /\ UNCHANGED paid

Pay(s) ==
  /\ phase[s] # "none"
  /\ paid' = paid \cup {s}
  /\ UNCHANGED << phase, turn, turns >>

Move(s, from, to) ==
  /\ phase[s] = from
  /\ phase' = [ phase EXCEPT ![s] = to ]
  /\ UNCHANGED << turn, turns, paid >>

(* The reservation is given up: for good, or until late money shows up.    *)
Refuse(s) == Move(s, "reserved", "void")
Lapse(s)  == Move(s, "reserved", "lapsed")

Arm(s) == s \in paid /\ Move(s, "reserved", "armed")

(* Late money gets the machine back only from nobody: every rival came     *)
(* before, and is through.                                                 *)
Rearm(s) ==
  /\ s \in paid
  /\ \A t \in Rivals(s) : turn[t] < turn[s] /\ phase[t] \notin Holding
  /\ Move(s, "lapsed", "armed")

Withdraw(s) == Move(s, "armed", "void")
Start(s)    == Move(s, "armed", "washing")
End(s)      == Move(s, "washing", "served")

Next ==
  \E s \in Sessions :
    \/ Reserve(s) \/ Pay(s) \/ Refuse(s) \/ Lapse(s) \/ Arm(s) \/ Rearm(s)
    \/ Withdraw(s) \/ Start(s) \/ End(s)

Spec == Init /\ [][Next]_leaseVars

=============================================================================

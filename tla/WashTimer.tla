------------------------------ MODULE WashTimer ------------------------------
(***************************************************************************)
(* What the controller of a machine promises about its relay, whatever the *)
(* server answers and whenever it restarts: water flows for one confirmed  *)
(* wash at a time, a restart may pause it and a short one resume it, and a *)
(* wash that is over never gets water again.                               *)
(***************************************************************************)
CONSTANT Sessions

VARIABLE phase   \* of each session: "waiting", "on", "paused" or "over"

Phases == { "waiting", "on", "paused", "over" }

TimerInit == phase = [ s \in Sessions |-> "waiting" ]

Idle == \A t \in Sessions : phase[t] \notin { "on", "paused" }

(* The server confirmed the start.  Power may fail before the relay        *)
(* closes, with the wash already on record.                                *)
Start(s) ==
  /\ phase[s] = "waiting"
  /\ Idle
  /\ \E p \in { "on", "paused" } : phase' = [ phase EXCEPT ![s] = p ]

(* The relay opens and the wash is not yet forgotten.                      *)
Pause(s) ==
  /\ phase[s] = "on"
  /\ phase' = [ phase EXCEPT ![s] = "paused" ]

Resume(s) ==
  /\ phase[s] = "paused"
  /\ phase' = [ phase EXCEPT ![s] = "on" ]

(* A wash may be lost before its first drop, when not even its record was  *)
(* written.                                                                *)
Over(s) ==
  /\ phase[s] # "over"
  /\ phase' = [ phase EXCEPT ![s] = "over" ]

TimerNext == \E s \in Sessions : Start(s) \/ Pause(s) \/ Resume(s) \/ Over(s)

TimerSpec == TimerInit /\ [][TimerNext]_phase

=============================================================================

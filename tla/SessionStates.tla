--------------------------- MODULE SessionStates ---------------------------
(***************************************************************************)
(* The vocabulary shared by the services: the status values of a wash      *)
(* session, of its payment and of its authorization, the groups of session *)
(* statuses the services test, and the transition table of the             *)
(* @hidro/state-machine package.                                           *)
(***************************************************************************)

(* Statuses that occupy the machine: they block a new charge and are the   *)
(* predicate of the partial unique index uq_sessions_active_machine.       *)
ActiveStatuses ==
  { "IDLE", "PAYMENT_PENDING", "PAYMENT_APPROVED", "AUTHORIZED",
    "WAITING_FOR_BUTTON", "RUNNING" }

TerminalStatuses ==
  { "FINISHED", "PAYMENT_FAILED", "PAYMENT_EXPIRED", "AUTHORIZATION_EXPIRED",
    "MACHINE_OFFLINE", "SESSION_INTERRUPTED", "EMERGENCY_STOP",
    "DEVICE_ERROR" }

SessionStatuses == ActiveStatuses \cup TerminalStatuses

(* Statuses that use up a wash of the plate's daily allowance.             *)
WashCountingStatuses ==
  SessionStatuses \ { "IDLE", "PAYMENT_FAILED", "PAYMENT_EXPIRED" }

(* The only terminal status a late approval may reopen.                    *)
RecoverableStatuses == { "PAYMENT_EXPIRED" }

PaymentStatuses == { "PENDING", "APPROVED", "REJECTED", "EXPIRED", "REFUNDED" }

AuthorizationStatuses == { "AUTHORIZED", "CONSUMED", "EXPIRED", "REVOKED" }

(* The declared edges of the session state machine.                        *)
TRANSITIONS ==
  [ IDLE               |-> { "PAYMENT_PENDING", "MACHINE_OFFLINE" },
    PAYMENT_PENDING    |-> { "PAYMENT_APPROVED", "PAYMENT_FAILED",
                             "PAYMENT_EXPIRED", "MACHINE_OFFLINE" },
    PAYMENT_APPROVED   |-> { "AUTHORIZED", "MACHINE_OFFLINE" },
    AUTHORIZED         |-> { "WAITING_FOR_BUTTON", "AUTHORIZATION_EXPIRED",
                             "EMERGENCY_STOP" },
    WAITING_FOR_BUTTON |-> { "RUNNING", "AUTHORIZATION_EXPIRED",
                             "EMERGENCY_STOP" },
    RUNNING            |-> { "FINISHED", "SESSION_INTERRUPTED",
                             "EMERGENCY_STOP", "DEVICE_ERROR" },
    PAYMENT_EXPIRED    |-> { "AUTHORIZED" },
    FINISHED           |-> {}, PAYMENT_FAILED        |-> {},
    MACHINE_OFFLINE    |-> {}, AUTHORIZATION_EXPIRED |-> {},
    EMERGENCY_STOP     |-> {}, SESSION_INTERRUPTED   |-> {},
    DEVICE_ERROR       |-> {} ]

(* assertTransition lets a status stay where it is, and otherwise wants a  *)
(* declared edge.                                                          *)
CanTransition(from, to) == from = to \/ to \in TRANSITIONS[from]

=============================================================================

-------------------------- MODULE MCCheckoutQuota --------------------------
(* The instances of CheckoutQuota that TLC checks.                         *)
EXTENDS CheckoutQuota

\* In Ushuaia and in UTC, where a container runs unless it is told otherwise.
Ushuaia == -3
UTC == 0
=============================================================================

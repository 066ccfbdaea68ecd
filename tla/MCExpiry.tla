------------------------------ MODULE MCExpiry ------------------------------
(* Instances of Expiry for TLC. *)
EXTENDS Expiry

CONSTANTS a1, a2

OneAccount == {a1}
TwoAccounts == {a1, a2}
=============================================================================

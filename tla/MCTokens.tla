------------------------------ MODULE MCTokens ------------------------------
(* Instances of Tokens for TLC. *)
EXTENDS Tokens

CONSTANTS a1, a2, a3, t1, t2, t3, t4, t5, p1

ThreeAccounts == {a1, a2, a3}

OnePort == {p1}

FiveTokens == {t1, t2, t3, t4, t5, p1}
=============================================================================

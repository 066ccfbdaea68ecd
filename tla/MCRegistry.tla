----------------------------- MODULE MCRegistry -----------------------------
(* Instances of Registry for TLC. *)
EXTENDS Registry, TLC

CONSTANTS c1, c2, n1, n2

TwoClients == {c1, c2}
TwoNames == {n1, n2}
OneName == {n1}

Symmetry == Permutations(Clients) \cup Permutations(Names)
=============================================================================

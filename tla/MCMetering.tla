----------------------------- MODULE MCMetering -----------------------------
(* Instances of Metering for TLC. *)
EXTENDS Metering

CONSTANTS a1, p1, loop, rpc

OneAccount == {a1}
OnePort == {p1}
OwnedByA1 == [p \in OnePort |-> a1]
LoopAndRpc == {loop, rpc}
LoopOnly == {loop}
=============================================================================

------------------------------ MODULE MCPolicy ------------------------------
(* Instances of Policy for TLC. *)
EXTENDS Policy, TLC

\* a range and a single port of one account, between them one of another
ThreePorts ==
    (1 :> [acct |-> "metered", lo |-> 5, hi |-> 6])
    @@ (2 :> [acct |-> "metered", lo |-> 2, hi |-> 2])
    @@ (3 :> [acct |-> "free", lo |-> 3, hi |-> 4])

\* every number of the range, its neighbours, and the other way round
Traffic ==
    {[dir |-> d, dport |-> IF d = "in" THEN n ELSE 9, sport |-> IF d = "in" THEN 9 ELSE n,
      len |-> 1] : d \in {"in", "out"}, n \in 2..7}
    \cup {[dir |-> "in", dport |-> 9, sport |-> 2, len |-> 1],
          [dir |-> "out", dport |-> 5, sport |-> 9, len |-> 1],
          [dir |-> "in", dport |-> 2, sport |-> 9, len |-> 2]}

\* months of two and three days, the third day of the calendar is a long one
Months == (0 :> 0) @@ (1 :> 2) @@ (2 :> 5) @@ (3 :> 7) @@ (4 :> 9)
Days == [d \in 0..9 |-> IF d <= 2 THEN d ELSE d + 1]
=============================================================================

----------------------------- MODULE MCConsole ------------------------------
(* Instances of Console for TLC. *)
EXTENDS Console

Single(n) == [lo |-> n, hi |-> n]
ThreeSpans == {Single(n) : n \in 1..3}

NoScene == [accts |-> [a \in {} |-> 0], ports |-> [p \in {} |-> 0], screen |-> FALSE,
            keys |-> {}, commands |-> {}, others |-> {}]

\* account 1 is called 2; account 2 is called 3
Two(t1, t2) == <<[name |-> 2, tier |-> t1, expires |-> FALSE],
                 [name |-> 3, tier |-> t2, expires |-> FALSE]>>

OnePort == <<[acct |-> 1, span |-> Single(1)]>>
TwoPorts == OnePort \o <<[acct |-> 1, span |-> Single(2)]>>

Screen(as, ps, ks, os) ==
    [NoScene EXCEPT !.accts = as, !.ports = ps, !.screen = TRUE, !.keys = ks, !.others = os]

Commands(as, ps, cs, os) ==
    [NoScene EXCEPT !.accts = as, !.ports = ps, !.commands = cs, !.others = os]

PortOps == {"AddPort", "EditPort", "DeletePort", "MovePort"}

Explored ==
    {Screen(Two("a", "a"), TwoPorts, {},
            {"DeleteAccount", "EditPort", "DeletePort", "MovePort"}),
     Screen(Two("a", "a"), OnePort, {"d", "p"}, {"AddPort", "DeleteAccount", "MovePort"}),
     Screen(Two("a", "a"), TwoPorts, {"e", "x", "m"}, {"DeletePort", "DeleteAccount"}),
     Screen(Two("a", "c"), OnePort, {"t", "r", "u", "v"},
            {"SetTier", "SetExpiry", "DeleteAccount"}),
     Screen(Two("a", "c"), OnePort, {"a"}, {"SetTier", "DeleteAccount"}),
     Commands(Two("a", "c"), OnePort, Ops \ PortOps, {"AddAccount", "DeleteAccount", "SetTier"}),
     Commands(Two("a", "a"), OnePort, PortOps, {"AddAccount", "DeleteAccount", "MovePort"})}
=============================================================================

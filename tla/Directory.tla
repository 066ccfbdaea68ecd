----------------------------- MODULE Directory ------------------------------
(***************************************************************************)
(* What the registry of accounts and ports promises, whatever goroutines,  *)
(* caches, replayed calls and crashes are involved: one directory that     *)
(* changes by one whole operation at a time, each judged by the directory  *)
(* as it is at that moment.  Registry is shown to implement it.            *)
(***************************************************************************)
EXTENDS Integers

CONSTANTS
    Names,        \* account names
    Tiers,        \* account tiers; "c" is the one without quota
    Spans         \* port intervals, records with fields lo and hi

VARIABLES
    accts,        \* account id -> [name, tier, expires]
    ports,        \* port id -> [acct, span]
    lastA,        \* the last account id given out
    lastP         \* the last port id given out

vars == <<accts, ports, lastA, lastP>>

Overlap(s, t) == s.lo <= t.hi /\ t.lo <= s.hi

\* span s is free of every port but those in Except
Free(s, Except) ==
    \A p \in DOMAIN ports \ Except : ~Overlap(ports[p].span, s)

PortsOf(a) == {p \in DOMAIN ports : ports[p].acct = a}

Init ==
    /\ accts = [a \in {} |-> 0]
    /\ ports = [p \in {} |-> 0]
    /\ lastA = 0
    /\ lastP = 0

\* Ids are given out in order, and none a second time.
AddAccount(name, tier) ==
    /\ \A b \in DOMAIN accts : accts[b].name # name
    /\ lastA' = lastA + 1
    /\ accts' = [b \in DOMAIN accts \cup {lastA'} |->
                    IF b = lastA' THEN [name |-> name, tier |-> tier,
                                        expires |-> FALSE]
                                  ELSE accts[b]]
    /\ UNCHANGED <<ports, lastP>>

\* Ports go with their account when that is asked for, never otherwise.
DeleteAccount(a, cascade) ==
    /\ a \in DOMAIN accts
    /\ cascade \/ PortsOf(a) = {}
    /\ accts' = [b \in DOMAIN accts \ {a} |-> accts[b]]
    /\ ports' = [p \in DOMAIN ports \ PortsOf(a) |-> ports[p]]
    /\ UNCHANGED <<lastA, lastP>>

SetTier(a, tier) ==
    /\ a \in DOMAIN accts
    /\ accts' = [accts EXCEPT ![a].tier = tier]
    /\ UNCHANGED <<ports, lastA, lastP>>

\* Only an account with a quota is given an expiry.
SetExpiry(a, on) ==
    /\ a \in DOMAIN accts
    /\ on => accts[a].tier # "c"
    /\ accts' = [accts EXCEPT ![a].expires = on]
    /\ UNCHANGED <<ports, lastA, lastP>>

AddPort(a, span) ==
    /\ a \in DOMAIN accts
    /\ Free(span, {})
    /\ lastP' = lastP + 1
    /\ ports' = [q \in DOMAIN ports \cup {lastP'} |->
                    IF q = lastP' THEN [acct |-> a, span |-> span] ELSE ports[q]]
    /\ UNCHANGED <<accts, lastA>>

EditPort(p, span) ==
    /\ p \in DOMAIN ports
    /\ Free(span, {p})
    /\ ports' = [ports EXCEPT ![p].span = span]
    /\ UNCHANGED <<accts, lastA, lastP>>

DeletePort(p) ==
    /\ p \in DOMAIN ports
    /\ ports' = [q \in DOMAIN ports \ {p} |-> ports[q]]
    /\ UNCHANGED <<accts, lastA, lastP>>

MovePort(p, a) ==
    /\ p \in DOMAIN ports
    /\ a \in DOMAIN accts
    /\ ports' = [ports EXCEPT ![p].acct = a]
    /\ UNCHANGED <<accts, lastA, lastP>>

Next ==
    \/ \E n \in Names, t \in Tiers : AddAccount(n, t)
    \/ \E a \in DOMAIN accts :
          \/ \E cascade \in BOOLEAN : DeleteAccount(a, cascade)
          \/ \E t \in Tiers : SetTier(a, t)
          \/ \E on \in BOOLEAN : SetExpiry(a, on)
          \/ \E s \in Spans : AddPort(a, s)
          \/ \E p \in DOMAIN ports : MovePort(p, a)
    \/ \E p \in DOMAIN ports : DeletePort(p) \/ \E s \in Spans : EditPort(p, s)

Spec == Init /\ [][Next]_vars

=============================================================================

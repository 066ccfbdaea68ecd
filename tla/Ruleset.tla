------------------------------ MODULE Ruleset -------------------------------
(***************************************************************************)
(* The rules internal/nft renders for the ports of a snapshot, what        *)
(* netfilter does to a packet that meets them, and what the accounts were  *)
(* promised.  Accounts are records with tier, limit and expires (0 means   *)
(* never); packets are TCP or UDP, others match no rule.                   *)
(***************************************************************************)
EXTENDS Sorting, SequencesExt

CONSTANT PortTable   \* port id -> [acct, lo, hi]

PortIds == DOMAIN PortTable

Span(p) == PortTable[p].lo .. PortTable[p].hi

\* CreatePort refuses intervals that overlap (KernelIsUnambiguous of Registry)
ASSUME TableAssumption ==
    /\ IsFiniteSet(PortIds)
    /\ \A p \in PortIds : PortTable[p].lo \in Nat /\ PortTable[p].hi \in Nat
    /\ \A p, q \in PortIds : p # q => Span(p) \cap Span(q) = {}

HasQuota(acct) == acct.tier # "c"

HasExpiry(acct) == HasQuota(acct) /\ acct.expires > 0

ExpiredAt(acct, now) == HasExpiry(acct) /\ now >= acct.expires

-----------------------------------------------------------------------------
(* buildScript.                                                            *)

SortedPorts == SortedBy(PortIds, [p \in PortIds |-> PortTable[p].lo])

\* portMatch: what a rule of this port looks at in this direction
Match(p, dir) ==
    [field |-> IF dir = "in" THEN "dport" ELSE "sport",
     lo |-> PortTable[p].lo, hi |-> PortTable[p].hi]

Rule(p, dir, verb, object) ==
    [chain |-> dir, match |-> Match(p, dir), verb |-> verb, object |-> object]

\* mutant of RulesFor: the counter comes before the breaker
RulesForCounterFirst(accts, now, p, dir) ==
    LET acct == accts[PortTable[p].acct]
        count == Rule(p, dir, "counter", <<p, dir>>)
        break == Rule(p, dir, "quota", PortTable[p].acct)
    IN  IF ExpiredAt(acct, now) THEN <<Rule(p, dir, "drop", <<>>)>>
        ELSE IF HasQuota(acct) THEN <<count, break>> ELSE <<count>>

\* expired: a drop; otherwise the breaker, if there is a quota, and the counter
RulesFor(accts, now, p, dir) ==
    LET acct == accts[PortTable[p].acct]
        count == Rule(p, dir, "counter", <<p, dir>>)
        break == Rule(p, dir, "quota", PortTable[p].acct)
    IN  IF ExpiredAt(acct, now) THEN <<Rule(p, dir, "drop", <<>>)>>
        ELSE IF HasQuota(acct) THEN <<break, count>> ELSE <<count>>

Script(accts, now) ==
    [limits |-> [a \in {b \in DOMAIN accts : HasQuota(accts[b])} |-> accts[a].limit],
     rules  |-> FlattenSeq([i \in 1..Len(SortedPorts) |->
                   RulesFor(accts, now, SortedPorts[i], "in")
                   \o RulesFor(accts, now, SortedPorts[i], "out")])]

-----------------------------------------------------------------------------
(* netfilter: a packet meets the rules of its hook in order.  A quota      *)
(* charges every packet that comes to it, those it drops too.              *)

Matches(rule, pkt) ==
    /\ rule.chain = pkt.dir
    /\ pkt[rule.match.field] \in rule.match.lo .. rule.match.hi

Untouched(used) == [dropped |-> FALSE, used |-> used, counted |-> {}]

Meets(limits, pkt, seen, rule) ==
    IF seen.dropped \/ ~Matches(rule, pkt) THEN seen
    ELSE IF rule.verb = "drop" THEN [seen EXCEPT !.dropped = TRUE]
    ELSE IF rule.verb = "counter" THEN [seen EXCEPT !.counted = @ \cup {rule.object}]
    ELSE [dropped |-> seen.used[rule.object] + pkt.len > limits[rule.object],
          used    |-> [seen.used EXCEPT ![rule.object] = @ + pkt.len],
          counted |-> seen.counted]

Verdict(script, used, pkt) ==
    LET after[n \in 0..Len(script.rules)] ==
            IF n = 0 THEN Untouched(used)
            ELSE Meets(script.limits, pkt, after[n - 1], script.rules[n])
    IN  after[Len(script.rules)]

\* what nft lists for a quota is never more than its limit
Dump(script, used) ==
    [a \in DOMAIN script.limits |->
        IF used[a] > script.limits[a] THEN script.limits[a] ELSE used[a]]

-----------------------------------------------------------------------------
(* The promise: every packet of a port is blocked, or charged to the       *)
(* account's budget and counted once, and others are left alone.           *)

OwnPorts(pkt) ==
    LET n == IF pkt.dir = "in" THEN pkt.dport ELSE pkt.sport IN
    {p \in PortIds : n \in Span(p)}

Promise(accts, now, used, pkt) ==
    IF OwnPorts(pkt) = {} THEN Untouched(used)
    ELSE LET p == CHOOSE q \in OwnPorts(pkt) : TRUE
             a == PortTable[p].acct
             over == HasQuota(accts[a]) /\ used[a] + pkt.len > accts[a].limit
         IN  IF ExpiredAt(accts[a], now)
             THEN [dropped |-> TRUE, used |-> used, counted |-> {}]
             ELSE [dropped |-> over,
                   used |-> [b \in DOMAIN used |->
                                IF b = a THEN used[b] + pkt.len ELSE used[b]],
                   counted |-> IF over THEN {} ELSE {<<p, pkt.dir>>}]

AsPromised(script, accts, now, used, pkt) ==
    Verdict(script, used, pkt) = Promise(accts, now, used, pkt)
=============================================================================

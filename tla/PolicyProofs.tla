---------------------------- MODULE PolicyProofs ----------------------------
(***************************************************************************)
(* Theorems about Policy, for every instance: the rules keep the promise   *)
(* whatever ports there are, nobody gets more than the limit, clients are  *)
(* told the truth about it, and resets are due on billing days whatever    *)
(* the calendar.                                                           *)
(***************************************************************************)
EXTENDS Policy, SortingProofs

-----------------------------------------------------------------------------
(* What one rule does to a packet.                                         *)

Kinds == {"in", "out"}

\* A rule of a port matches the packets of its direction that are the port's.
LEMMA MatchesOwn ==
    ASSUME NEW p \in PortIds, NEW dir \in Kinds, NEW pkt \in Packets,
           NEW verb, NEW object
    PROVE  Matches(Rule(p, dir, verb, object), pkt)
              <=> pkt.dir = dir /\ p \in OwnPorts(pkt)
<1>1. pkt \in [dir : Kinds, sport : Nat, dport : Nat, len : Nat \ {0}]
  BY PolicyAssumption DEF PolicyAssumption, Kinds
<1>2. CASE dir = "in"
  BY <1>1, <1>2 DEF Matches, Rule, Match, OwnPorts, Span, Kinds
<1>3. CASE dir = "out"
  BY <1>1, <1>3 DEF Matches, Rule, Match, OwnPorts, Span, Kinds
<1> QED
  BY <1>2, <1>3 DEF Kinds

Passed(u, c)  == [dropped |-> FALSE, used |-> u, counted |-> c]
Stopped(u, c) == [dropped |-> TRUE, used |-> u, counted |-> c]

Spent(u, a, n) == [d \in DOMAIN u |-> IF d = a THEN u[d] + n ELSE u[d]]

\* A rule that does not match does nothing, and none does after a drop.
LEMMA MeetsNothing ==
    ASSUME NEW limits, NEW pkt, NEW seen, NEW rule,
           seen.dropped \/ ~Matches(rule, pkt)
    PROVE  Meets(limits, pkt, seen, rule) = seen
BY DEF Meets

LEMMA MeetsDrop ==
    ASSUME NEW limits, NEW pkt, NEW u, NEW c, NEW rule,
           Matches(rule, pkt), rule.verb = "drop"
    PROVE  Meets(limits, pkt, Passed(u, c), rule) = Stopped(u, c)
BY DEF Meets, Passed, Stopped

LEMMA MeetsCounter ==
    ASSUME NEW limits, NEW pkt, NEW u, NEW rule, NEW object,
           Matches(rule, pkt), rule.verb = "counter", rule.object = object
    PROVE  Meets(limits, pkt, Passed(u, {}), rule) = Passed(u, {object})
BY DEF Meets, Passed

LEMMA MeetsQuota ==
    ASSUME NEW limits, NEW pkt, NEW u, NEW c, NEW rule,
           Matches(rule, pkt), rule.verb = "quota", u \in [DOMAIN u -> Nat]
    PROVE  Meets(limits, pkt, Passed(u, c), rule) =
              IF u[rule.object] + pkt.len > limits[rule.object]
              THEN Stopped(Spent(u, rule.object, pkt.len), c)
              ELSE Passed(Spent(u, rule.object, pkt.len), c)
<1>1. [u EXCEPT ![rule.object] = @ + pkt.len] = Spent(u, rule.object, pkt.len)
  BY DEF Spent
<1> DEFINE spent == Spent(u, rule.object, pkt.len)
           seen == Passed(u, c)
           over == u[rule.object] + pkt.len > limits[rule.object]
<1>2. ~seen.dropped /\ seen.used = u
  BY DEF Passed
<1>3. Meets(limits, pkt, seen, rule) = [dropped |-> over, used |-> spent, counted |-> c]
  BY <1>1, <1>2 DEF Meets, Passed
<1> HIDE DEF spent
<1>4. CASE over
  BY <1>3, <1>4 DEF Passed, Stopped, spent
<1>5. CASE ~over
  <2>1. over = FALSE
    BY <1>5
  <2> HIDE DEF over
  <2>2. Meets(limits, pkt, seen, rule) = Passed(spent, c)
    BY <1>3, <2>1 DEF Passed
  <2> QED
    BY <1>5, <2>2 DEF spent, over
<1> QED
  BY <1>4, <1>5

-----------------------------------------------------------------------------
(* What the rules of one port do.                                          *)

\* the rules of port p, both directions
Chunk(accts, t, p) == RulesFor(accts, t, p, "in") \o RulesFor(accts, t, p, "out")

\* after[b] .. after[b + Len(c)] are what a packet has seen along c
Along(after, b, c, limits, pkt) ==
    \A k \in 1..Len(c) : after[b + k] = Meets(limits, pkt, after[b + k - 1], c[k])

Count(p, dir) == Rule(p, dir, "counter", <<p, dir>>)
Break(p, dir) == Rule(p, dir, "quota", PortTable[p].acct)
Drop(p, dir)  == Rule(p, dir, "drop", <<>>)

\* The rules of a port, one by one.
LEMMA ChunkRules ==
    ASSUME NEW accts, NEW t, NEW p
    PROVE  LET acct == accts[PortTable[p].acct] IN
           Chunk(accts, t, p) =
              IF ExpiredAt(acct, t) THEN <<Drop(p, "in"), Drop(p, "out")>>
              ELSE IF HasQuota(acct)
              THEN <<Break(p, "in"), Count(p, "in"), Break(p, "out"), Count(p, "out")>>
              ELSE <<Count(p, "in"), Count(p, "out")>>
<1> DEFINE acct == accts[PortTable[p].acct]
<1> HIDE DEF acct
<1>1. CASE ExpiredAt(acct, t)
  <2>1. /\ RulesFor(accts, t, p, "in") = <<Drop(p, "in")>>
        /\ RulesFor(accts, t, p, "out") = <<Drop(p, "out")>>
    BY <1>1 DEF RulesFor, Drop, acct
  <2>2. Chunk(accts, t, p) = <<Drop(p, "in"), Drop(p, "out")>>
    BY <2>1, ConcatOnes DEF Chunk
  <2> QED
    BY <1>1, <2>2 DEF acct
<1>2. CASE ~ExpiredAt(acct, t) /\ HasQuota(acct)
  <2>1. /\ RulesFor(accts, t, p, "in") = <<Break(p, "in"), Count(p, "in")>>
        /\ RulesFor(accts, t, p, "out") = <<Break(p, "out"), Count(p, "out")>>
    BY <1>2 DEF RulesFor, Break, Count, acct
  <2>2. Chunk(accts, t, p)
           = <<Break(p, "in"), Count(p, "in"), Break(p, "out"), Count(p, "out")>>
    BY <2>1, ConcatTwos DEF Chunk
  <2> QED
    BY <1>2, <2>2 DEF acct
<1>3. CASE ~ExpiredAt(acct, t) /\ ~HasQuota(acct)
  <2>1. /\ RulesFor(accts, t, p, "in") = <<Count(p, "in")>>
        /\ RulesFor(accts, t, p, "out") = <<Count(p, "out")>>
    BY <1>3 DEF RulesFor, Count, acct
  <2>2. Chunk(accts, t, p) = <<Count(p, "in"), Count(p, "out")>>
    BY <2>1, ConcatOnes DEF Chunk
  <2> QED
    BY <1>3, <2>2 DEF acct
<1> QED
  BY <1>1, <1>2, <1>3 DEF acct

\* The rules of other ports leave what a packet has seen alone.
LEMMA ChunkOther ==
    ASSUME NEW accts, NEW t, NEW p \in PortIds, NEW pkt \in Packets,
           p \notin OwnPorts(pkt), NEW limits, NEW after, NEW b \in Nat,
           Along(after, b, Chunk(accts, t, p), limits, pkt)
    PROVE  after[b + Len(Chunk(accts, t, p))] = after[b]
<1> DEFINE acct == accts[PortTable[p].acct]
           c == Chunk(accts, t, p)
<1>0. \A rule : ~Matches(rule, pkt) => \A seen : Meets(limits, pkt, seen, rule) = seen
  BY MeetsNothing
<1>1. \A dir \in Kinds : /\ ~Matches(Drop(p, dir), pkt) /\ ~Matches(Break(p, dir), pkt)
                         /\ ~Matches(Count(p, dir), pkt)
  BY MatchesOwn DEF Drop, Break, Count
<1>2. \A k \in 1..Len(c) : ~Matches(c[k], pkt)
  <2>1. CASE ExpiredAt(acct, t)
    <3>1. c = <<Drop(p, "in"), Drop(p, "out")>>
      BY <2>1, ChunkRules
    <3> QED
      BY <1>1, <3>1 DEF Kinds
  <2>2. CASE ~ExpiredAt(acct, t) /\ HasQuota(acct)
    <3>1. c = <<Break(p, "in"), Count(p, "in"), Break(p, "out"), Count(p, "out")>>
      BY <2>2, ChunkRules
    <3> QED
      BY <1>1, <3>1 DEF Kinds
  <2>3. CASE ~ExpiredAt(acct, t) /\ ~HasQuota(acct)
    <3>1. c = <<Count(p, "in"), Count(p, "out")>>
      BY <2>3, ChunkRules
    <3> QED
      BY <1>1, <3>1 DEF Kinds
  <2> QED
    BY <2>1, <2>2, <2>3
<1>3. Len(c) \in Nat
  <2>1. Len(c) \in {2, 4}
    BY ChunkRules
  <2> QED
    BY <2>1
<1>4. \A k \in 1..Len(c) : after[b + k] = after[b + k - 1]
  BY <1>0, <1>2 DEF Along
<1> HIDE DEF c
<1> DEFINE S == {k \in 0..Len(c) : after[b + k] = after[b]}
<1>5. 0 \in S
  BY <1>3
<1>6. ASSUME NEW k \in 1..Len(c), k - 1 \in S PROVE k \in S
  BY <1>3, <1>4, <1>6
<1> HIDE DEF S
<1>7. \A k \in 0..Len(c) : k \in S
  BY <1>3, <1>5, <1>6, Induct
<1> QED
  BY <1>3, <1>7 DEF S, c



\* What the promise says of a packet of port p, of account a.
Promised(accts, t, u, pkt, p, a) ==
    /\ ExpiredAt(accts[a], t) => Promise(accts, t, u, pkt) = Stopped(u, {})
    /\ ~ExpiredAt(accts[a], t) =>
          Promise(accts, t, u, pkt) =
             IF HasQuota(accts[a]) /\ u[a] + pkt.len > accts[a].limit
             THEN Stopped(Spent(u, a, pkt.len), {})
             ELSE Passed(Spent(u, a, pkt.len), {<<p, pkt.dir>>})

LEMMA PromiseOwn ==
    ASSUME NEW accts, NEW t, NEW u, NEW pkt \in Packets, NEW p, p \in OwnPorts(pkt),
           NEW a, a = PortTable[p].acct
    PROVE  Promised(accts, t, u, pkt, p, a)
<1>1. p \in PortIds
  BY DEF OwnPorts
<1>2. OwnPorts(pkt) = {p}
  BY TableAssumption DEF TableAssumption, OwnPorts
<1>3. (CHOOSE q \in OwnPorts(pkt) : TRUE) = p
  BY <1>2
<1>4. CASE ExpiredAt(accts[a], t)
  BY <1>1, <1>2, <1>3, <1>4 DEF Promised, Promise, Stopped
<1>5. CASE ~ExpiredAt(accts[a], t) /\ HasQuota(accts[a]) /\ u[a] + pkt.len > accts[a].limit
  BY <1>1, <1>2, <1>3, <1>5 DEF Promised, Promise, Stopped, Spent
<1>6. CASE ~ExpiredAt(accts[a], t) /\ ~(HasQuota(accts[a]) /\ u[a] + pkt.len > accts[a].limit)
  BY <1>1, <1>2, <1>3, <1>6 DEF Promised, Promise, Passed, Spent
<1> QED
  BY <1>4, <1>5, <1>6 DEF Promised

\* No rule of the other direction does anything.
LEMMA OtherWay ==
    ASSUME NEW p \in PortIds, NEW pkt \in Packets, NEW dir \in Kinds, dir # pkt.dir,
           NEW limits, NEW seen
    PROVE  /\ Meets(limits, pkt, seen, Drop(p, dir)) = seen
           /\ Meets(limits, pkt, seen, Break(p, dir)) = seen
           /\ Meets(limits, pkt, seen, Count(p, dir)) = seen
<1>1. /\ ~Matches(Drop(p, dir), pkt) /\ ~Matches(Break(p, dir), pkt)
      /\ ~Matches(Count(p, dir), pkt)
  BY MatchesOwn DEF Drop, Break, Count
<1> QED
  BY <1>1, MeetsNothing

\* Nothing happens after a drop.
LEMMA AfterDrop ==
    ASSUME NEW limits, NEW pkt, NEW u, NEW c, NEW rule
    PROVE  Meets(limits, pkt, Stopped(u, c), rule) = Stopped(u, c)
<1>1. Stopped(u, c).dropped
  BY DEF Stopped
<1> QED
  BY <1>1, MeetsNothing


\* What a port's own rules of the packet's direction do.
Obeyed(limits, u, pkt, p, a) ==
    /\ Meets(limits, pkt, Passed(u, {}), Drop(p, pkt.dir)) = Stopped(u, {})
    /\ Meets(limits, pkt, Passed(u, {}), Count(p, pkt.dir)) = Passed(u, {<<p, pkt.dir>>})
    /\ Meets(limits, pkt, Passed(u, {}), Break(p, pkt.dir)) =
          IF u[a] + pkt.len > limits[a] THEN Stopped(Spent(u, a, pkt.len), {})
          ELSE Passed(Spent(u, a, pkt.len), {})

LEMMA OwnRules ==
    ASSUME NEW p \in PortIds, NEW pkt \in Packets, p \in OwnPorts(pkt),
           NEW limits, NEW u, u \in [DOMAIN u -> Nat],
           NEW a, a = PortTable[p].acct
    PROVE  Obeyed(limits, u, pkt, p, a)
<1>1. pkt.dir \in Kinds
  BY PolicyAssumption DEF PolicyAssumption, Kinds
<1>2. /\ Matches(Drop(p, pkt.dir), pkt) /\ Matches(Break(p, pkt.dir), pkt)
      /\ Matches(Count(p, pkt.dir), pkt)
  BY <1>1, MatchesOwn DEF Drop, Break, Count
<1>3. /\ Drop(p, pkt.dir).verb = "drop"
      /\ Count(p, pkt.dir).verb = "counter" /\ Count(p, pkt.dir).object = <<p, pkt.dir>>
      /\ Break(p, pkt.dir).verb = "quota" /\ Break(p, pkt.dir).object = a
  BY DEF Drop, Break, Count, Rule
<1>4. Meets(limits, pkt, Passed(u, {}), Drop(p, pkt.dir)) = Stopped(u, {})
  BY <1>2, <1>3, MeetsDrop
<1>5. Meets(limits, pkt, Passed(u, {}), Count(p, pkt.dir)) = Passed(u, {<<p, pkt.dir>>})
  BY <1>2, <1>3, MeetsCounter
<1>6. Meets(limits, pkt, Passed(u, {}), Break(p, pkt.dir)) =
         IF u[a] + pkt.len > limits[a] THEN Stopped(Spent(u, a, pkt.len), {})
         ELSE Passed(Spent(u, a, pkt.len), {})
  BY <1>2, <1>3, MeetsQuota
<1> QED
  BY <1>4, <1>5, <1>6 DEF Obeyed

\* What account a may use, in the limits of a script and in its quotas' usage.
Quotas(accts, a, limits, u) ==
    /\ HasQuota(accts[a]) => limits[a] = accts[a].limit /\ a \in DOMAIN u
    /\ ~HasQuota(accts[a]) => a \notin DOMAIN u
    /\ u \in [DOMAIN u -> Nat]

\* A port's own rules do what was promised.
LEMMA ChunkOwn ==
    ASSUME NEW accts, NEW t, NEW pkt \in Packets, NEW p, p \in OwnPorts(pkt),
           NEW limits, NEW u, NEW a, a = PortTable[p].acct, Quotas(accts, a, limits, u),
           NEW after, NEW b \in Nat, after[b] = Untouched(u),
           Along(after, b, Chunk(accts, t, p), limits, pkt)
    PROVE  after[b + Len(Chunk(accts, t, p))] = Promise(accts, t, u, pkt)
<1> DEFINE c == Chunk(accts, t, p)
           spent == Spent(u, a, pkt.len)
           over == u[a] + pkt.len > limits[a]
           counted == Passed(u, {<<p, pkt.dir>>})
           Idle(rule) == \A seen : Meets(limits, pkt, seen, rule) = seen
<1>1. p \in PortIds /\ u \in [DOMAIN u -> Nat]
  BY DEF Quotas, OwnPorts
<1>2. after[b] = Passed(u, {})
  BY DEF Untouched, Passed
<1>3. Promised(accts, t, u, pkt, p, a)
  BY PromiseOwn
<1>4. Obeyed(limits, u, pkt, p, a)
  BY <1>1, OwnRules
<1>5. pkt.dir \in Kinds
  BY PolicyAssumption DEF PolicyAssumption, Kinds
<1>6. CASE ExpiredAt(accts[a], t)
  <2>1. c = <<Drop(p, "in"), Drop(p, "out")>>
    BY <1>6, ChunkRules
  <2>2. Len(c) = 2 /\ c[1] = Drop(p, "in") /\ c[2] = Drop(p, "out")
    BY <2>1
  <2> HIDE DEF c
  <2>3. /\ after[b + 1] = Meets(limits, pkt, after[b], Drop(p, "in"))
        /\ after[b + 2] = Meets(limits, pkt, after[b + 1], Drop(p, "out"))
    BY <2>2 DEF Along, c
  <2>4. Promise(accts, t, u, pkt) = Stopped(u, {})
    BY <1>3, <1>6 DEF Promised
  <2>5. Meets(limits, pkt, Passed(u, {}), Drop(p, pkt.dir)) = Stopped(u, {})
    BY <1>4 DEF Obeyed
  <2>6. after[b + 2] = Stopped(u, {})
    <3>1. CASE pkt.dir = "in"
      <4>1. after[b + 1] = Stopped(u, {})
        BY <1>2, <2>3, <2>5, <3>1
      <4> QED
        BY <2>3, <4>1, AfterDrop
    <3>2. CASE pkt.dir = "out"
      <4>1. after[b + 1] = Passed(u, {})
        BY <1>1, <1>2, <2>3, <3>2, OtherWay DEF Kinds
      <4> QED
        BY <2>3, <2>5, <3>2, <4>1
    <3> QED
      BY <1>5, <3>1, <3>2 DEF Kinds
  <2> QED
    BY <2>2, <2>4, <2>6 DEF c
<1>7. CASE ~ExpiredAt(accts[a], t) /\ HasQuota(accts[a])
  <2> DEFINE e == Promise(accts, t, u, pkt)
             s == Meets(limits, pkt, Passed(u, {}), Break(p, pkt.dir))
  <2>1. c = <<Break(p, "in"), Count(p, "in"), Break(p, "out"), Count(p, "out")>>
    BY <1>7, ChunkRules
  <2>2. /\ Len(c) = 4 /\ c[1] = Break(p, "in") /\ c[2] = Count(p, "in")
        /\ c[3] = Break(p, "out") /\ c[4] = Count(p, "out")
    BY <2>1
  <2> HIDE DEF c
  <2>3. /\ after[b + 1] = Meets(limits, pkt, after[b], Break(p, "in"))
        /\ after[b + 2] = Meets(limits, pkt, after[b + 1], Count(p, "in"))
        /\ after[b + 3] = Meets(limits, pkt, after[b + 2], Break(p, "out"))
        /\ after[b + 4] = Meets(limits, pkt, after[b + 3], Count(p, "out"))
    BY <2>2 DEF Along, c
  <2>4. limits[a] = accts[a].limit
    BY <1>7 DEF Quotas
  <2>5. Meets(limits, pkt, s, Count(p, pkt.dir)) = e
    <3>1. CASE over
      <4>1. s = Stopped(spent, {})
        BY <1>4, <3>1 DEF Obeyed
      <4>2. e = Stopped(spent, {})
        BY <1>3, <1>7, <2>4, <3>1 DEF Promised
      <4> HIDE DEF s, e, spent
      <4> QED
        BY <4>1, <4>2, AfterDrop
    <3>2. CASE ~over
      <4>1. s = Passed(spent, {})
        BY <1>4, <3>2 DEF Obeyed
      <4>2. e = Passed(spent, {<<p, pkt.dir>>})
        BY <1>3, <1>7, <2>4, <3>2 DEF Promised
      <4>3. spent \in [DOMAIN spent -> Nat]
        BY <1>1, PolicyAssumption DEF PolicyAssumption, Spent
      <4> HIDE DEF s, e, spent
      <4>4. Obeyed(limits, spent, pkt, p, a)
        BY <1>1, <4>3, OwnRules
      <4> QED
        BY <4>1, <4>2, <4>4 DEF Obeyed
    <3> QED
      BY <3>1, <3>2
  <2> HIDE DEF e
  <2>6. after[b + 4] = e
    <3>1. CASE pkt.dir = "in"
      <4>1. Idle(Break(p, "out")) /\ Idle(Count(p, "out"))
        BY <1>1, <3>1, OtherWay DEF Kinds
      <4> QED
        BY <1>2, <2>3, <2>5, <3>1, <4>1
    <3>2. CASE pkt.dir = "out"
      <4>1. Idle(Break(p, "in")) /\ Idle(Count(p, "in"))
        BY <1>1, <3>2, OtherWay DEF Kinds
      <4> QED
        BY <1>2, <2>3, <2>5, <3>2, <4>1
    <3> QED
      BY <1>5, <3>1, <3>2 DEF Kinds
  <2> QED
    BY <2>2, <2>6 DEF c, e
<1>8. CASE ~ExpiredAt(accts[a], t) /\ ~HasQuota(accts[a])
  <2>1. c = <<Count(p, "in"), Count(p, "out")>>
    BY <1>8, ChunkRules
  <2>2. Len(c) = 2 /\ c[1] = Count(p, "in") /\ c[2] = Count(p, "out")
    BY <2>1
  <2> HIDE DEF c
  <2>3. /\ after[b + 1] = Meets(limits, pkt, after[b], Count(p, "in"))
        /\ after[b + 2] = Meets(limits, pkt, after[b + 1], Count(p, "out"))
    BY <2>2 DEF Along, c
  <2>4. Promise(accts, t, u, pkt) = counted
    <3>1. spent = u
      BY <1>8 DEF Quotas, Spent
    <3>2. Promise(accts, t, u, pkt) = Passed(spent, {<<p, pkt.dir>>})
      BY <1>3, <1>8 DEF Promised
    <3> QED
      BY <3>1, <3>2
  <2>5. Meets(limits, pkt, Passed(u, {}), Count(p, pkt.dir)) = counted
    BY <1>4 DEF Obeyed
  <2> HIDE DEF counted
  <2>6. after[b + 2] = counted
    <3>1. CASE pkt.dir = "in"
      <4>1. Idle(Count(p, "out"))
        BY <1>1, <3>1, OtherWay DEF Kinds
      <4> QED
        BY <1>2, <2>3, <2>5, <3>1, <4>1
    <3>2. CASE pkt.dir = "out"
      <4>1. Idle(Count(p, "in"))
        BY <1>1, <3>2, OtherWay DEF Kinds
      <4> QED
        BY <1>2, <2>3, <2>5, <3>2, <4>1
    <3> QED
      BY <1>5, <3>1, <3>2 DEF Kinds
  <2> QED
    BY <2>2, <2>4, <2>6 DEF c
<1> QED
  BY <1>6, <1>7, <1>8

-----------------------------------------------------------------------------
(* What all rules of a script do.                                          *)

\* after[n] is what a packet has seen of the first n rules.
Sees(after, limits, rules, u, pkt) ==
    /\ after[0] = Untouched(u)
    /\ \A n \in 1..Len(rules) : after[n] = Meets(limits, pkt, after[n - 1], rules[n])

\* Verdict's recursive function exists.
LEMMA VerdictFunction ==
    ASSUME NEW L \in Nat, NEW limits, NEW rules, NEW u, NEW pkt
    PROVE  \E f : f = [n \in 0..L |-> IF n = 0 THEN Untouched(u)
                                     ELSE Meets(limits, pkt, f[n - 1], rules[n])]
<1> DEFINE Is(f, m) == f = [n \in 0..m |-> IF n = 0 THEN Untouched(u)
                                          ELSE Meets(limits, pkt, f[n - 1], rules[n])]
           S == {m \in Nat : \E f : Is(f, m)}
<1>1. 0 \in S
  <2> DEFINE g == [n \in 0..0 |-> Untouched(u)]
  <2>1. Is(g, 0)
    OBVIOUS
  <2> QED
    BY <2>1
<1>2. ASSUME NEW m \in 1..L, m - 1 \in S PROVE m \in S
  <2>1. PICK g : Is(g, m - 1)
    BY <1>2
  <2> DEFINE f == [n \in 0..m |-> IF n = m THEN Meets(limits, pkt, g[m - 1], rules[m])
                                  ELSE g[n]]
  <2>2. \A n \in 0..(m - 1) : g[n] = IF n = 0 THEN Untouched(u)
                                    ELSE Meets(limits, pkt, g[n - 1], rules[n])
    BY <2>1
  <2>3. ASSUME NEW n \in 0..m
        PROVE  f[n] = IF n = 0 THEN Untouched(u) ELSE Meets(limits, pkt, f[n - 1], rules[n])
    <3>1. CASE n = 0
      BY <2>2, <3>1
    <3>2. CASE n # 0
      <4>1. n - 1 \in 0..m /\ n - 1 # m
        BY <3>2
      <4>2. f[n - 1] = g[n - 1]
        BY <4>1
      <4>3. n # m => n \in 0..(m - 1)
        OBVIOUS
      <4> QED
        BY <2>2, <3>2, <4>2, <4>3
    <3> QED
      BY <3>1, <3>2
  <2> HIDE DEF f
  <2>4. f = [n \in 0..m |-> f[n]]
    BY DEF f
  <2>5. Is(f, m)
    BY <2>3, <2>4
  <2> HIDE DEF Is
  <2>6. \E h : Is(h, m)
    BY <2>5
  <2> QED
    BY <2>6
<1> HIDE DEF S
<1>3. L \in S
  BY <1>1, <1>2, Induct
<1> QED
  BY <1>3 DEF S

\* Verdict goes through the rules one by one.
LEMMA VerdictSees ==
    ASSUME NEW scr, Len(scr.rules) \in Nat, NEW u, NEW pkt
    PROVE  \E after : /\ Sees(after, scr.limits, scr.rules, u, pkt)
                      /\ Verdict(scr, u, pkt) = after[Len(scr.rules)]
<1> DEFINE L == Len(scr.rules)
           f == CHOOSE g : g = [n \in 0..L |->
                   IF n = 0 THEN Untouched(u)
                   ELSE Meets(scr.limits, pkt, g[n - 1], scr.rules[n])]
<1>1. Verdict(scr, u, pkt) = f[L]
  BY DEF Verdict
<1>2. f = [n \in 0..L |-> IF n = 0 THEN Untouched(u)
                          ELSE Meets(scr.limits, pkt, f[n - 1], scr.rules[n])]
  BY VerdictFunction
<1> HIDE DEF f
<1>3. Sees(f, scr.limits, scr.rules, u, pkt)
  BY <1>2 DEF Sees
<1> QED
  BY <1>1, <1>3

\* The list of ports has every port once.
LEMMA PortsOnce ==
    \E n \in Nat : /\ SortedPorts \in [1..n -> PortIds]
                   /\ Len(SortedPorts) = n
                   /\ \A i, j \in 1..n : i < j => SortedPorts[i] # SortedPorts[j]
                   /\ \A p \in PortIds : \E i \in 1..n : SortedPorts[i] = p
<1> DEFINE n == Cardinality(PortIds)
           key == [p \in PortIds |-> PortTable[p].lo]
<1>1. IsFiniteSet(PortIds) /\ \A p \in PortIds : key[p] \in Nat
  BY TableAssumption DEF TableAssumption
<1> HIDE DEF key
<1>2. /\ n \in Nat
      /\ InOrder(SortedBy(PortIds, key), PortIds, key)
      /\ \A p \in PortIds : \E i \in 1..n : SortedBy(PortIds, key)[i] = p
  BY <1>1, SortedProperties
<1>3. SortedPorts = SortedBy(PortIds, key)
  BY DEF SortedPorts, key
<1>4. SortedPorts \in [1..n -> PortIds]
  BY <1>2, <1>3 DEF InOrder
<1>5. \A i, j \in 1..n : i < j => SortedPorts[i] # SortedPorts[j]
  BY <1>2, <1>3 DEF InOrder
<1>6. Len(SortedPorts) = n
  BY <1>2, <1>4
<1> QED
  BY <1>2, <1>3, <1>4, <1>5, <1>6

\* the rules there are
RulesOf(p) == {Drop(p, "in"), Drop(p, "out"), Break(p, "in"), Break(p, "out"),
               Count(p, "in"), Count(p, "out")}

\* A port's rules make a sequence.
LEMMA ChunkSeq ==
    ASSUME NEW accts, NEW t, NEW p, NEW Elems, RulesOf(p) \subseteq Elems
    PROVE  Chunk(accts, t, p) \in Seq(Elems)
<1>1. /\ Drop(p, "in") \in Elems /\ Drop(p, "out") \in Elems
      /\ Break(p, "in") \in Elems /\ Break(p, "out") \in Elems
      /\ Count(p, "in") \in Elems /\ Count(p, "out") \in Elems
  BY DEF RulesOf
<1>2. /\ <<Drop(p, "in"), Drop(p, "out")>> \in Seq(Elems)
      /\ <<Count(p, "in"), Count(p, "out")>> \in Seq(Elems)
      /\ <<Break(p, "in"), Count(p, "in"), Break(p, "out"), Count(p, "out")>> \in Seq(Elems)
  BY <1>1
<1> QED
  BY <1>2, ChunkRules, Zenon

\* A script treats every packet as promised.
LEMMA VerdictIsPromise ==
    ASSUME NEW accts, NEW t, NEW u,
           \A a \in Accounts : Quotas(accts, a, Script(accts, t).limits, u),
           NEW pkt \in Packets
    PROVE  Verdict(Script(accts, t), u, pkt) = Promise(accts, t, u, pkt)
<1> DEFINE limits == Script(accts, t).limits
           rules == Script(accts, t).rules
           own == OwnPorts(pkt)
           Elems == UNION {RulesOf(p) : p \in PortIds}
<1>1. PICK n \in Nat : /\ SortedPorts \in [1..n -> PortIds]
                       /\ Len(SortedPorts) = n
                       /\ \A i, j \in 1..n : i < j => SortedPorts[i] # SortedPorts[j]
                       /\ \A p \in PortIds : \E i \in 1..n : SortedPorts[i] = p
  BY PortsOnce
<1> DEFINE s == [i \in 1..n |-> Chunk(accts, t, SortedPorts[i])]
<1>2. rules = FlattenSeq(s)
  BY <1>1 DEF Script, Chunk
<1>3. s \in [1..n -> Seq(Elems)]
  <2>1. ASSUME NEW i \in 1..n PROVE Chunk(accts, t, SortedPorts[i]) \in Seq(Elems)
    <3>1. SortedPorts[i] \in PortIds
      BY <1>1
    <3>2. RulesOf(SortedPorts[i]) \subseteq Elems
      BY <3>1
    <3> HIDE DEF Elems
    <3> QED
      BY <3>2, ChunkSeq
  <2> HIDE DEF Elems
  <2> QED
    BY <2>1
<1>4. \A i \in 1..n : s[i] = Chunk(accts, t, SortedPorts[i])
  OBVIOUS
<1> HIDE DEF s, Elems
<1>5. PICK flat : /\ Grows(flat, s, n, Elems)
                  /\ rules = flat[n]
                  /\ Laid(flat, s, n)
  BY <1>2, <1>3, FlattenProperties
<1>6. \A i \in 0..n : flat[i] \in Seq(Elems)
  BY <1>5 DEF Grows
<1>7. Len(rules) \in Nat /\ \A i \in 0..n : Len(flat[i]) \in Nat
  BY <1>5, <1>6, LenProperties
<1>8. PICK after : /\ Sees(after, limits, rules, u, pkt)
                   /\ Verdict(Script(accts, t), u, pkt) = after[Len(rules)]
  BY <1>7, VerdictSees
<1>9. ASSUME NEW i \in 1..n
      PROVE  /\ Len(flat[i]) = Len(flat[i - 1]) + Len(s[i])
             /\ Along(after, Len(flat[i - 1]), s[i], limits, pkt)
  <2>1. Len(flat[i]) = Len(flat[i - 1]) + Len(s[i])
    <3>1. Grown(flat, s, i)
      BY <1>3, <1>5, PrefixStep
    <3> QED
      BY <3>1 DEF Grown
  <2>2. \A k \in 1..Len(s[i]) : /\ Len(flat[i - 1]) + k \in 1..Len(rules)
                                /\ rules[Len(flat[i - 1]) + k] = s[i][k]
    BY <1>5 DEF Laid
  <2>3. \A j \in 1..Len(rules) : after[j] = Meets(limits, pkt, after[j - 1], rules[j])
    BY <1>8 DEF Sees
  <2> HIDE DEF limits, rules
  <2>4. ASSUME NEW k \in 1..Len(s[i])
        PROVE  after[Len(flat[i - 1]) + k]
                  = Meets(limits, pkt, after[Len(flat[i - 1]) + k - 1], s[i][k])
    <3> DEFINE j == Len(flat[i - 1]) + k
    <3>1. j \in 1..Len(rules) /\ rules[j] = s[i][k]
      BY <2>2
    <3> HIDE DEF j
    <3>2. after[j] = Meets(limits, pkt, after[j - 1], s[i][k])
      BY <2>3, <3>1
    <3> QED
      BY <3>2 DEF j
  <2>5. Along(after, Len(flat[i - 1]), s[i], limits, pkt)
    BY <2>4 DEF Along
  <2> QED
    BY <2>1, <2>5
<1> DEFINE Done(i) == \E j \in 1..i : SortedPorts[j] \in own
           S == {i \in 0..n : /\ Done(i) => after[Len(flat[i])] = Promise(accts, t, u, pkt)
                              /\ ~Done(i) => after[Len(flat[i])] = Untouched(u)}
<1>10. 0 \in S
  <2>1. flat[0] = <<>> /\ ~Done(0)
    BY <1>5 DEF Grows
  <2>2. after[0] = Untouched(u)
    BY <1>8 DEF Sees
  <2> QED
    BY <2>1, <2>2
<1>11. ASSUME NEW i \in 1..n, i - 1 \in S PROVE i \in S
  <2> DEFINE p == SortedPorts[i]
             b == Len(flat[i - 1])
  <2>1. p \in PortIds /\ b \in Nat /\ s[i] = Chunk(accts, t, p)
    BY <1>1, <1>4, <1>7
  <2>2. /\ Len(flat[i]) = b + Len(Chunk(accts, t, p))
        /\ Along(after, b, Chunk(accts, t, p), limits, pkt)
    BY <1>9, <2>1
  <2>3. CASE p \in own
    <3>1. Done(i)
      BY <2>3
    <3>2. own = {p}
      BY <2>3, TableAssumption DEF TableAssumption, OwnPorts
    <3>3. ~Done(i - 1)
      BY <1>1, <3>2
    <3>4. after[b] = Untouched(u)
      BY <1>11, <3>3
    <3>5. PortTable[p].acct \in Accounts
      BY <2>1, PolicyAssumption DEF PolicyAssumption
    <3> HIDE DEF p, b
    <3>6. after[b + Len(Chunk(accts, t, p))] = Promise(accts, t, u, pkt)
      BY <2>1, <2>2, <2>3, <3>4, <3>5, ChunkOwn
    <3> QED
      BY <2>2, <3>1, <3>6
  <2>4. CASE p \notin own
    <3>1. Done(i) <=> Done(i - 1)
      BY <2>4
    <3> HIDE DEF p
    <3>2. after[b + Len(Chunk(accts, t, p))] = after[b]
      BY <2>1, <2>2, <2>4, ChunkOther
    <3> HIDE DEF Done
    <3> QED
      BY <1>11, <2>2, <3>1, <3>2
  <2> QED
    BY <2>3, <2>4
<1> HIDE DEF S
<1>12. \A i \in 0..n : i \in S
  BY <1>10, <1>11, Induct
<1>13. n \in S
  BY <1>12
<1>14. CASE own = {}
  <2>1. Promise(accts, t, u, pkt) = Untouched(u) /\ ~Done(n)
    BY <1>14 DEF Promise
  <2> QED
    BY <1>5, <1>8, <1>13, <2>1 DEF S
<1>15. CASE own # {}
  <2>1. PICK p \in own : p \in PortIds
    BY <1>15 DEF OwnPorts
  <2>2. Done(n)
    BY <1>1, <2>1
  <2> QED
    BY <1>5, <1>8, <1>13, <2>2 DEF S
<1> QED
  BY <1>14, <1>15

-----------------------------------------------------------------------------
(* Billing dates: nextReset is the next boundary.                          *)

\* Later days begin later.
LEMMA LaterDay ==
    ASSUME NEW d \in 0..LastDay, NEW e \in 0..LastDay
    PROVE  /\ d <= e => Midnight[d] <= Midnight[e]
           /\ Midnight[d] <= Midnight[e] => d <= e
           /\ Midnight[d] < Midnight[e] => d < e
           /\ Midnight[d] \in Int
BY CalendarAssumption DEF CalendarAssumption

\* A billing day is a day of every month that the calendar has to its end.
LEMMA DayInMonth ==
    ASSUME NEW anchorDay \in Int, NEW m \in 0..(LastMonth - 1)
    PROVE  LET d == First[m] + BillingDay(anchorDay) - 1 IN
           /\ d \in 0..LastDay
           /\ First[m] <= d
           /\ d < First[m + 1]
           /\ First[m] \in 0..LastDay /\ First[m + 1] \in 0..LastDay
<1>1. BillingDay(anchorDay) \in 1..Shortest
  BY CalendarAssumption DEF CalendarAssumption, BillingDay
<1>2. m \in 0..LastMonth /\ m + 1 \in 0..LastMonth /\ m < m + 1
  BY CalendarAssumption DEF CalendarAssumption
<1>3. First[m] \in 0..LastDay /\ First[m + 1] \in 0..LastDay
  BY <1>2, CalendarAssumption DEF CalendarAssumption
<1>4. First[m] + Shortest <= First[m + 1]
  BY <1>2, CalendarAssumption DEF CalendarAssumption
<1>5. Shortest \in Nat /\ LastDay \in Nat
  BY CalendarAssumption DEF CalendarAssumption
<1> QED
  BY <1>1, <1>3, <1>4, <1>5

\* A month that comes later begins no earlier than an earlier one ends.
LEMMA LaterMonth ==
    ASSUME NEW m \in 0..(LastMonth - 1), NEW n \in 0..(LastMonth - 1), m < n
    PROVE  /\ Midnight[First[m + 1]] \in Int /\ Midnight[First[n]] \in Int
           /\ Midnight[First[m + 1]] <= Midnight[First[n]]
<1>1. m + 1 \in 0..LastMonth /\ n \in 0..LastMonth
  BY CalendarAssumption DEF CalendarAssumption
<1>2. First[m + 1] \in 0..LastDay /\ First[n] \in 0..LastDay
  BY <1>1, CalendarAssumption DEF CalendarAssumption
<1>3. First[m + 1] <= First[n]
  <2>1. CASE m + 1 = n
    BY <2>1, <1>2
  <2>2. CASE m + 1 < n
    <3>1. First[m + 1] + Shortest <= First[n]
      BY <2>2, <1>1, CalendarAssumption DEF CalendarAssumption
    <3>2. Shortest \in Nat
      BY CalendarAssumption DEF CalendarAssumption
    <3> QED
      BY <3>1, <3>2, <1>2
  <2> QED
    BY <2>1, <2>2, <1>1
<1> QED
  BY <1>2, <1>3, LaterDay

\* A billing day begins within its month.
LEMMA BoundaryInMonth ==
    ASSUME NEW anchorDay \in Int, NEW m \in 0..(LastMonth - 1)
    PROVE  /\ DayOf(m, BillingDay(anchorDay)) \in Int
           /\ Midnight[First[m]] <= DayOf(m, BillingDay(anchorDay))
           /\ DayOf(m, BillingDay(anchorDay)) < Midnight[First[m + 1]]
<1> DEFINE d == First[m] + BillingDay(anchorDay) - 1
<1>1. /\ d \in 0..LastDay /\ First[m] <= d /\ d < First[m + 1]
      /\ First[m] \in 0..LastDay /\ First[m + 1] \in 0..LastDay
  BY DayInMonth
<1>2. Midnight[First[m]] <= Midnight[d] /\ Midnight[d] \in Int
  BY <1>1, LaterDay
<1>3. Midnight[d] < Midnight[First[m + 1]]
  BY <1>1, CalendarAssumption DEF CalendarAssumption
<1> QED
  BY <1>2, <1>3 DEF DayOf

\* Every instant of the calendar is a number.
LEMMA InstantsAreInts == Instants \subseteq Int
BY DEF Instants

\* There is no instant between two months: the one that ends next has t.
LEMMA NoGap ==
    ASSUME NEW t \in Instants
    PROVE  \E m \in 0..(LastMonth - 2) : InMonth(t, m)
<1> DEFINE Over == {n \in 1..(LastMonth - 1) : t < Midnight[First[n]]}
<1>1. /\ LastMonth \in Nat \ {0} /\ t \in Int
      /\ Midnight[First[0]] <= t /\ t < Midnight[First[LastMonth - 1]]
  BY CalendarAssumption DEF Instants
<1>2. \A n \in 0..LastMonth : Midnight[First[n]] \in Int
  BY CalendarAssumption
<1>3. LastMonth - 1 \in Over
  <2>1. 0 \in 0..LastMonth
    BY <1>1
  <2>2. LastMonth - 1 # 0
    BY <1>1, <1>2, <2>1
  <2> QED
    BY <1>1, <2>2
<1>4. Over \subseteq Nat
  OBVIOUS
<1> HIDE DEF Over
<1>5. PICK n \in Over : \A k \in Over : n <= k
  BY <1>3, <1>4, Least
<1>6. n \in 1..(LastMonth - 1) /\ t < Midnight[First[n]]
  BY DEF Over
<1> DEFINE m == n - 1
<1>7. m \in 0..(LastMonth - 2) /\ m + 1 = n /\ ~(n <= m) /\ m \in 0..LastMonth
  BY <1>1, <1>6
<1> HIDE DEF m
<1>8. Midnight[First[m]] <= t
  <2>1. CASE m = 0
    BY <1>1, <2>1
  <2>2. CASE m # 0
    <3>1. m \notin Over
      BY <1>5, <1>7
    <3>2. ~(t < Midnight[First[m]])
      BY <1>1, <1>7, <2>2, <3>1 DEF Over
    <3> QED
      BY <1>1, <1>2, <1>7, <3>2
  <2> QED
    BY <2>1, <2>2
<1> QED
  BY <1>6, <1>7, <1>8 DEF InMonth

\* The boundary after an instant of month m is the first that is later.
LEMMA NextInMonth ==
    ASSUME NEW anchorDay \in Int, NEW last \in Int,
           NEW m \in 0..(LastMonth - 2), InMonth(last, m)
    PROVE  /\ nextReset(last, anchorDay) \in Boundaries(anchorDay)
           /\ last < nextReset(last, anchorDay)
           /\ \A b \in Boundaries(anchorDay) :
                 last < b => nextReset(last, anchorDay) <= b
<1> DEFINE day == BillingDay(anchorDay)
           c == DayOf(m, day)
           n == DayOf(m + 1, day)
<1>0. LastMonth \in Nat /\ m \in 0..(LastMonth - 1) /\ m + 1 \in 0..(LastMonth - 1)
  BY CalendarAssumption DEF CalendarAssumption
<1>1. MonthOf(last) = m
  <2>1. \A k \in 0..(LastMonth - 1) : InMonth(last, k) => k = m
    <3> SUFFICES ASSUME NEW k \in 0..(LastMonth - 1), InMonth(last, k), k # m
                 PROVE  FALSE
      OBVIOUS
    <3>1. CASE k < m
      BY <3>1, <1>0, LaterMonth DEF InMonth
    <3>2. CASE m < k
      BY <3>2, <1>0, LaterMonth DEF InMonth
    <3> QED
      BY <3>1, <3>2, <1>0
  <2> QED
    BY <1>0, <2>1 DEF MonthOf
<1>2. nextReset(last, anchorDay) = IF c > last THEN c ELSE n
  BY <1>1 DEF nextReset
<1>3. c \in Int /\ Midnight[First[m]] <= c /\ c < Midnight[First[m + 1]]
  BY <1>0, BoundaryInMonth
<1>4. n \in Int /\ Midnight[First[m + 1]] <= n
  BY <1>0, BoundaryInMonth
<1>5. /\ Midnight[First[m]] \in Int /\ Midnight[First[m + 1]] \in Int
      /\ last < Midnight[First[m + 1]] /\ Midnight[First[m]] <= last
  <2>1. m + 1 \in 0..LastMonth /\ m \in 0..LastMonth
    BY <1>0
  <2> QED
    BY <2>1, CalendarAssumption DEF CalendarAssumption, InMonth
<1>6. c \in Boundaries(anchorDay) /\ n \in Boundaries(anchorDay)
  BY <1>0 DEF Boundaries
<1>7. last < n
  BY <1>4, <1>5
<1>8. ASSUME NEW b \in Boundaries(anchorDay), last < b
      PROVE  b \in Int /\ (b = c \/ n <= b)
  <2>1. PICK k \in 0..(LastMonth - 1) : b = DayOf(k, day)
    BY DEF Boundaries
  <2>2. b \in Int /\ Midnight[First[k]] <= b /\ b < Midnight[First[k + 1]]
    BY <2>1, BoundaryInMonth
  <2>3. CASE k < m
    <3>1. Midnight[First[k + 1]] \in Int /\ Midnight[First[k + 1]] <= Midnight[First[m]]
      BY <2>3, <1>0, LaterMonth
    <3> QED
      BY <3>1, <2>2, <1>5, <1>8
  <2>4. CASE k = m
    BY <2>4, <2>1, <2>2
  <2>5. CASE k = m + 1
    BY <2>5, <2>1, <2>2, <1>4
  <2>6. CASE m + 1 < k
    <3>1. /\ Midnight[First[(m + 1) + 1]] \in Int /\ Midnight[First[k]] \in Int
          /\ Midnight[First[(m + 1) + 1]] <= Midnight[First[k]]
      BY <2>6, <1>0, LaterMonth
    <3>2. n < Midnight[First[(m + 1) + 1]]
      BY <1>0, BoundaryInMonth
    <3> QED
      BY <3>1, <3>2, <2>2, <1>4
  <2> QED
    BY <2>3, <2>4, <2>5, <2>6, <1>0
<1>9. CASE c > last
  <2>1. c < n
    BY <1>3, <1>4, <1>5
  <2> QED
    <3>1. nextReset(last, anchorDay) = c
      BY <1>2, <1>9
    <3>2. \A b \in Boundaries(anchorDay) : last < b => c <= b
      BY <1>8, <2>1, <1>3, <1>4
    <3> QED
      BY <3>1, <3>2, <1>6, <1>9, <1>3
<1>10. CASE ~(c > last)
  <2>1. nextReset(last, anchorDay) = n
    BY <1>2, <1>10
  <2> QED
    BY <2>1, <1>6, <1>7, <1>8, <1>10
<1> QED
  BY <1>9, <1>10

\* nextReset returns the first boundary strictly after last, at every instant of
\* every calendar (the claim of engine.go 832-833).
THEOREM NextResetIsNext ==
    ASSUME NEW anchorDay \in Int, NEW last \in Instants
    PROVE  /\ nextReset(last, anchorDay) \in Boundaries(anchorDay)
           /\ last < nextReset(last, anchorDay)
           /\ \A b \in Boundaries(anchorDay) :
                 last < b => nextReset(last, anchorDay) <= b
<1>1. last \in Int
  BY InstantsAreInts
<1>2. PICK m \in 0..(LastMonth - 2) : InMonth(last, m)
  BY NoGap
<1> QED
  BY <1>1, <1>2, NextInMonth

\* A reset is due exactly when a boundary has passed since the last one
\* (runDueResets).
THEOREM DueMeansBoundaryPassed ==
    ASSUME NEW anchorDay \in Int, NEW last \in Instants, NEW today \in Int
    PROVE  Due(today, last, anchorDay) <=> BoundaryIn(last, today, anchorDay)
<1> DEFINE r == nextReset(last, anchorDay)
<1>1. /\ r \in Boundaries(anchorDay)
      /\ last < r
      /\ \A b \in Boundaries(anchorDay) : last < b => r <= b
  BY NextResetIsNext
<1>2. \A b \in Boundaries(anchorDay) : b \in Int
  BY BoundaryInMonth DEF Boundaries
<1>3. r \in Int
  BY <1>1, <1>2
<1>4. Due(today, last, anchorDay) => BoundaryIn(last, today, anchorDay)
  BY <1>1, <1>3 DEF Due, BoundaryIn
<1>5. BoundaryIn(last, today, anchorDay) => Due(today, last, anchorDay)
  BY <1>1, <1>2, <1>3, InstantsAreInts DEF Due, BoundaryIn
<1> QED
  BY <1>4, <1>5

-----------------------------------------------------------------------------
(* Resets are due on billing days.                                         *)

\* a row that has a reset to count from and a billing day
Dated(r) ==
    /\ DOMAIN r = {"tier", "limit", "anchor", "expires", "used", "last"}
    /\ r.last \in Instants
    /\ r.anchor \in Int

\* The inductive invariant: the clock and all rows have dates the calendar knows.
DatesOK ==
    /\ now \in Instants
    /\ \A a \in Accounts : Dated(rows[a])

\* Setting the usage of rows leaves their dates alone.
LEMMA UsageDated ==
    ASSUME DatesOK, NEW usage
    PROVE  \A a \in Accounts : Dated(WithUsage(usage)[a])
<1> SUFFICES ASSUME NEW a \in Accounts PROVE Dated(WithUsage(usage)[a])
  OBVIOUS
<1>1. Dated(rows[a])
  BY DEF DatesOK
<1>2. PICK u : WithUsage(usage)[a] = [rows[a] EXCEPT !.used = u]
  BY DEF WithUsage
<1> QED
  BY <1>1, <1>2 DEF Dated

\* The initial rows are dated.
LEMMA DatesInit == Init => DatesOK
<1> SUFFICES ASSUME Init PROVE DatesOK
  OBVIOUS
<1>1. now \in Instants
  BY PolicyAssumption DEF Init, PolicyAssumption
<1>2. ASSUME NEW t, NEW l, NEW d \in Int PROVE Dated(NewRow(t, l, d))
  BY PolicyAssumption DEF PolicyAssumption, Dated, NewRow
<1>3. PICK t \in Tiers, l \in Limits, d \in Anchors :
         rows = [a \in Accounts |-> IF a \in Customers THEN NewRow(t, l, d)
                                                     ELSE NewRow("c", 0, 1)]
  BY DEF Init
<1>4. Dated(NewRow(t, l, d))
  BY <1>2, PolicyAssumption DEF PolicyAssumption
<1>5. Dated(NewRow("c", 0, 1))
  BY <1>2
<1> QED
  BY <1>1, <1>3, <1>4, <1>5 DEF DatesOK

\* Every step keeps dates in the calendar.
LEMMA DatesNext == DatesOK /\ [Next]_vars => DatesOK'
<1> SUFFICES ASSUME DatesOK, [Next]_vars PROVE DatesOK'
  OBVIOUS
<1>0. \A a \in Accounts : Dated(Folded[a])
  BY UsageDated DEF Folded
<1>1. DOMAIN Folded = Accounts
  BY DEF Folded, WithUsage
<1>2. CASE UNCHANGED vars
  BY <1>2 DEF vars, DatesOK, Dated
<1>3. ASSUME NEW pkt \in Packets, Packet(pkt) PROVE DatesOK'
  BY <1>3 DEF Packet, DatesOK, Dated
<1>4. CASE Tick
  BY <1>4 DEF Tick, DatesOK, Dated
<1>5. CASE Sample
  BY <1>5 DEF Sample, DatesOK, Dated
<1>6. CASE Apply
  <2>1. rows' = WithUsage(stored) /\ now' = now
    BY <1>6 DEF Apply
  <2> QED
    BY <2>1, UsageDated DEF DatesOK, Dated
<1>7. CASE SyncKernel
  BY <1>7, <1>0 DEF SyncKernel, Reconcile, DatesOK, Dated
<1>8. ASSUME NEW a \in Customers, NEW t \in Tiers, NEW l \in Limits,
             NEW d \in Anchors, SetTier(a, t, l, d)
      PROVE  DatesOK'
  <2>1. rows' = [Folded EXCEPT ![a].tier = t, ![a].limit = l, ![a].anchor = d]
    BY <1>8 DEF SetTier, Reconcile
  <2>2. d \in Int
    BY PolicyAssumption DEF PolicyAssumption
  <2>3. ASSUME NEW b \in Accounts PROVE Dated(rows[b])'
    <3>1. CASE a = b
      <4>1. rows'[b] = [Folded[b] EXCEPT !.tier = t, !.limit = l, !.anchor = d]
        BY <2>1, <3>1, <1>1
      <4>2. Dated(Folded[b])
        BY <1>0
      <4> QED
        BY <4>1, <4>2, <2>2 DEF Dated
    <3>2. CASE a # b
      BY <2>1, <3>2, <1>0, <1>1 DEF Dated
    <3> QED
      BY <3>1, <3>2
  <2> QED
    BY <2>3, <1>8 DEF SetTier, Reconcile, DatesOK
<1>9. ASSUME NEW a \in Customers, NEW t \in Expiries, SetExpiry(a, t)
      PROVE  DatesOK'
  <2>1. rows' = [Folded EXCEPT ![a].expires = t]
    BY <1>9 DEF SetExpiry, Reconcile
  <2>2. ASSUME NEW b \in Accounts PROVE Dated(rows[b])'
    <3>1. CASE a = b
      <4>1. rows'[b] = [Folded[b] EXCEPT !.expires = t]
        BY <2>1, <3>1, <1>1
      <4>2. Dated(Folded[b])
        BY <1>0
      <4> QED
        BY <4>1, <4>2 DEF Dated
    <3>2. CASE a # b
      BY <2>1, <3>2, <1>0, <1>1 DEF Dated
    <3> QED
      BY <3>1, <3>2
  <2> QED
    BY <2>2, <1>9 DEF SetExpiry, Reconcile, DatesOK
<1>10. ASSUME NEW a \in Customers, ResetAccount(a) PROVE DatesOK'
  <2>1. rows' = [Folded EXCEPT ![a].used = 0, ![a].last = now]
    BY <1>10 DEF ResetAccount, Reconcile
  <2>2. now \in Instants
    BY DEF DatesOK
  <2>3. ASSUME NEW b \in Accounts PROVE Dated(rows[b])'
    <3>1. CASE a = b
      <4>1. rows'[b] = [Folded[b] EXCEPT !.used = 0, !.last = now]
        BY <2>1, <3>1, <1>1
      <4>2. Dated(Folded[b])
        BY <1>0
      <4> QED
        BY <4>1, <4>2, <2>2 DEF Dated
    <3>2. CASE a # b
      BY <2>1, <3>2, <1>0, <1>1 DEF Dated
    <3> QED
      BY <3>1, <3>2
  <2> QED
    BY <2>3, <1>10 DEF ResetAccount, Reconcile, DatesOK
<1>11. ASSUME NEW a \in Customers, DueReset(a) PROVE DatesOK'
  BY <1>10, <1>11 DEF DueReset
<1>12. ASSUME NEW p \in Persisters, PersistCopies(p) PROVE DatesOK'
  <2>1. rows' = WithUsage(live) /\ now' = now
    BY <1>12 DEF PersistCopies
  <2> QED
    BY <2>1, UsageDated DEF DatesOK, Dated
<1>13. ASSUME NEW p \in Persisters, PersistWrites(p) PROVE DatesOK'
  BY <1>13 DEF PersistWrites, DatesOK, Dated
<1> QED
  BY <1>2, <1>3, <1>4, <1>5, <1>6, <1>7, <1>8, <1>9, <1>10, <1>11, <1>12, <1>13 DEF Next

\* Dated rows are due exactly on the billing days since their last reset.
LEMMA DatesMeanDue == DatesOK => ResetsAreDue
<1> SUFFICES ASSUME DatesOK, NEW a \in Accounts
             PROVE  Due(now, rows[a].last, rows[a].anchor)
                       <=> BoundaryIn(rows[a].last, now, rows[a].anchor)
  BY DEF ResetsAreDue
<1>1. /\ now \in Int /\ rows[a].last \in Instants /\ rows[a].anchor \in Int
      /\ rows[a].last \in Int
  BY InstantsAreInts DEF DatesOK, Dated
<1> QED
  BY <1>1, DueMeansBoundaryPassed

\* The engine takes an account for due exactly when one of its billing days has
\* begun since the last reset, whatever switches, renewals and resets there were
\* (runDueResets).
THEOREM DueTheorem == Spec => []ResetsAreDue
<1>1. Init => DatesOK
  BY DatesInit
<1>2. DatesOK /\ [Next]_vars => DatesOK'
  BY DatesNext
<1>3. DatesOK => ResetsAreDue
  BY DatesMeanDue
<1> QED
  BY <1>1, <1>2, <1>3, PTL DEF Spec

-----------------------------------------------------------------------------
(* The inductive invariant.                                                *)

Row == [tier : Tiers, limit : {0} \cup Limits, anchor : {1} \cup Anchors,
        expires : {0} \cup Expiries, used : Nat, last : Nat]

\* only customers have a quota
Rows == {r \in [Accounts -> Row] : \A a \in Accounts \ Customers : r[a].tier = "c"}

\* the same policy for everybody, whatever has been used
Agree(r1, r2) ==
    \A a \in Accounts : /\ r1[a].tier = r2[a].tier /\ r1[a].limit = r2[a].limit
                        /\ r1[a].expires = r2[a].expires

\* The kernel has the script of some rows at some time, whose policy is that of
\* today's rows unless a reconcile runs.
KernelInv ==
    \E r \in Rows, t \in Nat :
        /\ script = Script(r, t)
        /\ expired = {a \in Accounts : ExpiredAt(r[a], t)}
        /\ ~pending => Agree(r, rows)

\* what some of the accounts have used
Usages == UNION {[as -> Nat] : as \in SUBSET Accounts}

TypeInv ==
    /\ now \in Instants /\ now \in Nat
    /\ rows \in Rows /\ \A a \in Accounts : rows[a].last <= now
    /\ pending \in BOOLEAN
    /\ stored \in [Accounts -> Nat]
    /\ passed \in [Accounts -> Nat] /\ forgotten \in [Accounts -> Nat]
    /\ ahead \subseteq Accounts
    /\ used \in [DOMAIN script.limits -> Nat]
    /\ live \in Usages
    /\ DOMAIN held \subseteq Persisters /\ \A p \in DOMAIN held : held[p] \in Usages

\* A sample or row at its limit was taken from a quota that had got there, but
\* where a write overtook the rebuild.
BreachInv ==
    /\ ~pending => \A a \in DOMAIN script.limits \ ahead :
          ViewUsed(a) >= rows[a].limit => used[a] >= rows[a].limit
    /\ pending => \A a \in DOMAIN live \ ahead : live[a] <= stored[a]

\* What passed was charged or forgotten.
BudgetInv ==
    /\ ~pending => \A a \in DOMAIN script.limits :
          /\ passed[a] <= used[a] + forgotten[a]
          /\ passed[a] <= rows[a].limit + forgotten[a]
    /\ pending => \A a \in Accounts : HasQuota(rows[a]) =>
          /\ passed[a] <= stored[a] + forgotten[a]
          /\ passed[a] <= rows[a].limit + forgotten[a]

PolicyInv == KernelInv /\ TypeInv /\ BreachInv /\ BudgetInv

-----------------------------------------------------------------------------
(* Facts about the parts.                                                  *)

\* The fields of a row.
LEMMA RowFields ==
    ASSUME NEW r \in Rows, NEW a \in Accounts
    PROVE  /\ DOMAIN r = Accounts /\ r[a] \in Row
           /\ r[a].tier \in Tiers /\ r[a].limit \in Nat /\ r[a].used \in Nat
           /\ r[a].expires \in Nat /\ r[a].last \in Nat
           /\ HasQuota(r[a]) => a \in Customers
BY PolicyAssumption DEF PolicyAssumption, Rows, Row, HasQuota

\* A script has a limit for every account with a quota.
LEMMA ScriptLimits ==
    ASSUME NEW r \in Rows, NEW t
    PROVE  /\ DOMAIN Script(r, t).limits = {a \in Accounts : HasQuota(r[a])}
           /\ \A a \in Accounts : HasQuota(r[a]) => Script(r, t).limits[a] = r[a].limit
<1>1. DOMAIN r = Accounts
  BY DEF Rows
<1> QED
  BY <1>1 DEF Script

\* Usage that a script has quotas for meets the condition of VerdictIsPromise.
LEMMA QuotasHold ==
    ASSUME NEW r \in Rows, NEW t, NEW u \in [DOMAIN Script(r, t).limits -> Nat],
           NEW pkt \in Packets
    PROVE  Verdict(Script(r, t), u, pkt) = Promise(r, t, u, pkt)
<1>1. \A a \in Accounts : Quotas(r, a, Script(r, t).limits, u)
  BY ScriptLimits DEF Quotas
<1> QED
  BY <1>1, VerdictIsPromise

\* What a sample is like.
LEMMA DumpFacts ==
    ASSUME KernelInv, TypeInv
    PROVE  /\ DOMAIN script.limits \subseteq Accounts
           /\ DOMAIN Dump(script, used) = DOMAIN script.limits
           /\ \A a \in DOMAIN script.limits :
                 /\ script.limits[a] \in Nat /\ used[a] \in Nat
                 /\ Dump(script, used)[a] \in Nat
                 /\ Dump(script, used)[a] <= script.limits[a]
                 /\ Dump(script, used)[a] = used[a]
                    \/ (Dump(script, used)[a] = script.limits[a] /\ used[a] >= script.limits[a])
<1>1. PICK r \in Rows, t \in Nat : script = Script(r, t)
  BY DEF KernelInv
<1>2. /\ DOMAIN script.limits = {a \in Accounts : HasQuota(r[a])}
      /\ \A a \in DOMAIN script.limits : script.limits[a] = r[a].limit
  BY <1>1, ScriptLimits
<1>3. \A a \in DOMAIN script.limits : script.limits[a] \in Nat /\ used[a] \in Nat
  BY <1>2, RowFields DEF TypeInv
<1> QED
  BY <1>2, <1>3 DEF Dump

\* the account whose packet it is, if it has a quota
LEMMA ChargedFacts ==
    ASSUME NEW pkt \in Packets, NEW a \in Charged(pkt)
    PROVE  a \in DOMAIN script.limits /\ \E p \in OwnPorts(pkt) : a = PortTable[p].acct
BY DEF Charged

\* What a packet does to quotas.
LEMMA PacketSpends ==
    ASSUME KernelInv, TypeInv, NEW pkt \in Packets
    PROVE  LET seen == Verdict(script, used, pkt) IN
           /\ seen.used \in [DOMAIN script.limits -> Nat]
           /\ \A a \in DOMAIN script.limits :
                 /\ seen.used[a] >= used[a]
                 /\ a \in Charged(pkt) /\ ~seen.dropped =>
                       /\ seen.used[a] = used[a] + pkt.len
                       /\ used[a] + pkt.len <= script.limits[a]
<1> DEFINE seen == Verdict(script, used, pkt)
<1>1. PICK r \in Rows, t \in Nat : script = Script(r, t)
  BY DEF KernelInv
<1>2. used \in [DOMAIN script.limits -> Nat]
  BY DEF TypeInv
<1>3. seen = Promise(r, t, used, pkt)
  BY <1>1, <1>2, QuotasHold
<1>4. pkt.len \in Nat
  BY PolicyAssumption DEF PolicyAssumption
<1> HIDE DEF seen
<1>5. CASE OwnPorts(pkt) = {}
  <2>1. Charged(pkt) = {}
    BY <1>5 DEF Charged
  <2>2. seen = Untouched(used)
    BY <1>3, <1>5 DEF Promise
  <2>3. seen.used = used
    BY <2>2 DEF Untouched
  <2> QED
    BY <1>2, <2>1, <2>3 DEF seen
<1>6. CASE OwnPorts(pkt) # {}
  <2>1. PICK p : p \in OwnPorts(pkt)
    BY <1>6
  <2> DEFINE a == PortTable[p].acct
  <2>2. OwnPorts(pkt) = {p} /\ a \in Accounts
    BY <2>1, TableAssumption, PolicyAssumption DEF TableAssumption, PolicyAssumption, OwnPorts
  <2>3. Promised(r, t, used, pkt, p, a)
    BY <2>1, PromiseOwn
  <2>4. \A b \in Charged(pkt) : b = a
    BY <2>2 DEF Charged
  <2>5. Spent(used, a, pkt.len) \in [DOMAIN script.limits -> Nat]
    BY <1>2, <1>4 DEF Spent
  <2>6. \A b \in DOMAIN script.limits :
           /\ Spent(used, a, pkt.len)[b] >= used[b]
           /\ b = a => Spent(used, a, pkt.len)[b] = used[b] + pkt.len
    BY <1>2, <1>4 DEF Spent
  <2> HIDE DEF a
  <2>7. CASE ExpiredAt(r[a], t)
    <3>1. seen = Stopped(used, {})
      BY <1>3, <2>3, <2>7 DEF Promised
    <3>2. seen.used = used /\ seen.dropped
      BY <3>1 DEF Stopped
    <3> QED
      BY <1>2, <3>2 DEF seen
  <2>8. CASE ~ExpiredAt(r[a], t) /\ HasQuota(r[a]) /\ used[a] + pkt.len > r[a].limit
    <3>1. seen = Stopped(Spent(used, a, pkt.len), {})
      BY <1>3, <2>3, <2>8 DEF Promised
    <3>2. seen.used = Spent(used, a, pkt.len) /\ seen.dropped
      BY <3>1 DEF Stopped
    <3> QED
      BY <2>5, <2>6, <3>2 DEF seen
  <2>9. CASE ~ExpiredAt(r[a], t) /\ ~(HasQuota(r[a]) /\ used[a] + pkt.len > r[a].limit)
    <3>1. seen = Passed(Spent(used, a, pkt.len), {<<p, pkt.dir>>})
      BY <1>3, <2>3, <2>9 DEF Promised
    <3>2. seen.used = Spent(used, a, pkt.len)
      BY <3>1 DEF Passed
    <3>3. a \in DOMAIN script.limits =>
             /\ HasQuota(r[a]) /\ script.limits[a] = r[a].limit
             /\ r[a].limit \in Nat /\ used[a] \in Nat
      BY <1>1, <1>2, <2>2, ScriptLimits, RowFields
    <3>4. a \in DOMAIN script.limits => used[a] + pkt.len <= script.limits[a]
      BY <1>4, <2>9, <3>3
    <3> QED
      BY <2>4, <2>5, <2>6, <3>2, <3>4 DEF seen
  <2> QED
    BY <2>7, <2>8, <2>9
<1> QED
  BY <1>5, <1>6

-----------------------------------------------------------------------------
(* Steps.                                                                  *)

\* KernelInv with its witnesses.
LEMMA KernelRows ==
    ASSUME KernelInv, TypeInv, ~pending
    PROVE  /\ rows \in Rows
           /\ DOMAIN script.limits = {a \in Accounts : HasQuota(rows[a])}
           /\ \A a \in DOMAIN script.limits : script.limits[a] = rows[a].limit
<1>1. PICK r \in Rows, t \in Nat : script = Script(r, t) /\ Agree(r, rows)
  BY DEF KernelInv
<1>2. /\ DOMAIN script.limits = {a \in Accounts : HasQuota(r[a])}
      /\ \A a \in Accounts : HasQuota(r[a]) => script.limits[a] = r[a].limit
  BY <1>1, ScriptLimits
<1>3. \A a \in Accounts : (HasQuota(r[a]) <=> HasQuota(rows[a])) /\ r[a].limit = rows[a].limit
  BY <1>1 DEF Agree, HasQuota
<1> QED
  BY <1>2, <1>3 DEF TypeInv

\* A usage is a function.
LEMMA UsageFunction ==
    ASSUME NEW u \in Usages
    PROVE  DOMAIN u \subseteq Accounts /\ u \in [DOMAIN u -> Nat]
BY DEF Usages

\* Rows with another usage.
LEMMA UsageRows ==
    ASSUME rows \in Rows, NEW usage, \A a \in DOMAIN usage \cap Accounts : usage[a] \in Nat
    PROVE  /\ WithUsage(usage) \in Rows
           /\ Agree(WithUsage(usage), rows)
           /\ \A a \in Accounts :
                 /\ WithUsage(usage)[a].last = rows[a].last
                 /\ WithUsage(usage)[a].used =
                       IF a \in DOMAIN usage THEN usage[a] ELSE rows[a].used
<1> DEFINE n == WithUsage(usage)
<1>1. ASSUME NEW a \in Accounts
      PROVE  /\ n[a] \in Row
             /\ n[a].tier = rows[a].tier /\ n[a].limit = rows[a].limit
             /\ n[a].expires = rows[a].expires /\ n[a].last = rows[a].last
             /\ n[a].used = IF a \in DOMAIN usage THEN usage[a] ELSE rows[a].used
  <2> DEFINE u == IF a \in DOMAIN usage THEN usage[a] ELSE rows[a].used
  <2>1. rows[a] \in Row /\ rows[a].used \in Nat
    BY RowFields
  <2>2. u \in Nat
    BY <2>1
  <2>3. n[a] = [rows[a] EXCEPT !.used = u]
    BY DEF WithUsage
  <2> HIDE DEF u, n
  <2>4. n[a].used = u
    BY <2>1, <2>3 DEF Row
  <2> QED
    BY <2>1, <2>2, <2>3, <2>4 DEF Row, u
<1>2. n = [a \in Accounts |-> n[a]]
  BY DEF WithUsage
<1> HIDE DEF n
<1>3. n \in Rows
  <2>1. n \in [Accounts -> Row]
    BY <1>1, <1>2
  <2> QED
    BY <1>1, <2>1 DEF Rows
<1> QED
  BY <1>1, <1>3 DEF n, Agree

\* The rows after a fold.
LEMMA FoldedFacts ==
    ASSUME PolicyInv, ~pending
    PROVE  /\ Folded \in Rows
           /\ \A a \in Accounts :
                 /\ Folded[a].last <= now
                 /\ Folded[a].limit = rows[a].limit /\ Folded[a].tier = rows[a].tier
                 /\ HasQuota(Folded[a]) => /\ passed[a] <= Folded[a].used + forgotten[a]
                                           /\ passed[a] <= Folded[a].limit + forgotten[a]
                 /\ a \in DOMAIN script.limits => Folded[a].used = Dump(script, used)[a]
<1>1. KernelInv /\ TypeInv /\ BudgetInv
  BY DEF PolicyInv
<1>2. /\ rows \in Rows
      /\ DOMAIN script.limits = {a \in Accounts : HasQuota(rows[a])}
      /\ \A a \in DOMAIN script.limits : script.limits[a] = rows[a].limit
  BY <1>1, KernelRows
<1> DEFINE usage == [a \in Accounts |-> IF a \in DOMAIN script.limits
                                       THEN Dump(script, used)[a] ELSE stored[a]]
<1>3. \A a \in DOMAIN usage \cap Accounts : usage[a] \in Nat
  BY <1>1, DumpFacts DEF TypeInv
<1>4. DOMAIN usage = Accounts
  OBVIOUS
<1>5. \A a \in DOMAIN script.limits \cap Accounts : usage[a] = Dump(script, used)[a]
  OBVIOUS
<1>6. Folded = WithUsage(usage)
  BY DEF Folded
<1> HIDE DEF usage
<1>7. Folded \in Rows /\ Agree(Folded, rows)
  BY <1>2, <1>3, <1>6, UsageRows
<1>8. \A a \in Accounts : Folded[a].last = rows[a].last /\ Folded[a].used = usage[a]
  BY <1>2, <1>3, <1>4, <1>6, UsageRows
<1>9. ASSUME NEW a \in Accounts, HasQuota(Folded[a])
      PROVE  /\ passed[a] <= Folded[a].used + forgotten[a]
             /\ passed[a] <= Folded[a].limit + forgotten[a]
  <2>1. a \in DOMAIN script.limits
    BY <1>2, <1>7, <1>9 DEF HasQuota, Agree
  <2>2. /\ passed[a] <= used[a] + forgotten[a]
        /\ passed[a] <= rows[a].limit + forgotten[a]
    BY <1>1, <2>1 DEF BudgetInv
  <2>3. Folded[a].used = used[a] \/ Folded[a].used = rows[a].limit
    BY <1>1, <1>2, <1>5, <1>8, <2>1, DumpFacts
  <2>4. Folded[a].limit = rows[a].limit
    BY <1>7 DEF Agree
  <2> QED
    BY <2>2, <2>3, <2>4
<1> QED
  BY <1>1, <1>5, <1>7, <1>8, <1>9 DEF Agree, TypeInv

\* A reconcile keeps the invariant if its rows and its live view are in step.
LEMMA ReconcileInv ==
    ASSUME PolicyInv, NEW newRows \in Rows, NEW newLive \in Usages, NEW newly,
           Reconcile(newRows, newLive, newly),
           \A a \in DOMAIN newLive : newLive[a] = newRows[a].used,
           \A a \in Accounts : newRows[a].last <= now,
           \A a \in Accounts : HasQuota(newRows[a]) /\ a \notin newly =>
              /\ passed[a] <= newRows[a].used + forgotten[a]
              /\ passed[a] <= newRows[a].limit + forgotten[a]
    PROVE  PolicyInv'
<1>1. /\ rows' = newRows /\ live' = newLive /\ pending' = TRUE /\ ahead' = {}
      /\ stored' = [a \in Accounts |-> newRows[a].used]
      /\ passed' = [a \in Accounts |-> IF a \in newly THEN Budgeted(newRows[a])
                                                      ELSE passed[a]]
      /\ forgotten' = [a \in Accounts |-> IF a \in newly THEN 0 ELSE forgotten[a]]
      /\ now' = now /\ expired' = expired /\ script' = script /\ used' = used
      /\ held' = held
  BY DEF Reconcile
<1>2. PICK r \in Rows, t \in Nat :
         script = Script(r, t) /\ expired = {a \in Accounts : ExpiredAt(r[a], t)}
  BY DEF PolicyInv, KernelInv
<1>3. KernelInv'
  <2>1. /\ script' = Script(r, t) /\ expired' = {a \in Accounts : ExpiredAt(r[a], t)}
        /\ pending'
    BY <1>1, <1>2
  <2> QED
    BY <2>1 DEF KernelInv
<1>4. \A a \in Accounts :
         /\ newRows[a].used \in Nat /\ newRows[a].limit \in Nat
         /\ Budgeted(newRows[a]) \in Nat
         /\ Budgeted(newRows[a]) <= newRows[a].used
         /\ Budgeted(newRows[a]) <= newRows[a].limit
  BY RowFields DEF Budgeted
<1>5. passed \in [Accounts -> Nat] /\ forgotten \in [Accounts -> Nat]
  BY DEF PolicyInv, TypeInv
<1>6. /\ stored' \in [Accounts -> Nat] /\ passed' \in [Accounts -> Nat]
      /\ forgotten' \in [Accounts -> Nat]
  BY <1>1, <1>4, <1>5
<1>7. TypeInv'
  BY <1>1, <1>6 DEF PolicyInv, TypeInv
<1>8. BreachInv'
  <2>1. \A a \in DOMAIN newLive : newLive[a] <= stored'[a]
    BY <1>1, <1>4, UsageFunction
  <2> QED
    BY <1>1, <2>1 DEF BreachInv
<1>9. BudgetInv'
  <2>1. ASSUME NEW a \in Accounts, HasQuota(newRows[a])
        PROVE  /\ passed'[a] <= stored'[a] + forgotten'[a]
               /\ passed'[a] <= newRows[a].limit + forgotten'[a]
    <3>1. CASE a \in newly
      <4>1. /\ passed'[a] = Budgeted(newRows[a]) /\ forgotten'[a] = 0
            /\ stored'[a] = newRows[a].used
        BY <1>1, <3>1
      <4> QED
        BY <1>4, <4>1
    <3>2. CASE a \notin newly
      <4>1. /\ passed'[a] = passed[a] /\ forgotten'[a] = forgotten[a]
            /\ stored'[a] = newRows[a].used
        BY <1>1, <3>2
      <4> QED
        BY <2>1, <3>2, <4>1
    <3> QED
      BY <3>1, <3>2
  <2> QED
    BY <1>1, <2>1 DEF BudgetInv
<1> QED
  BY <1>3, <1>7, <1>8, <1>9 DEF PolicyInv

\* What the sample of a reconcile is like.
LEMMA FoldedLive ==
    ASSUME PolicyInv, ~pending
    PROVE  LET d == Dump(script, used) IN
           /\ d \in Usages /\ DOMAIN d = DOMAIN script.limits
           /\ \A a \in DOMAIN d : d[a] = Folded[a].used
<1> DEFINE d == Dump(script, used)
<1>1. /\ DOMAIN d = DOMAIN script.limits /\ DOMAIN d \subseteq Accounts
      /\ \A a \in DOMAIN d : d[a] \in Nat
  BY DumpFacts DEF PolicyInv
<1>2. d = [a \in DOMAIN d |-> d[a]]
  BY <1>1 DEF Dump
<1>3. \A a \in DOMAIN d : d[a] = Folded[a].used
  BY <1>1, FoldedFacts
<1> HIDE DEF d
<1>4. d \in [DOMAIN d -> Nat]
  BY <1>1, <1>2
<1>5. d \in Usages
  BY <1>1, <1>4 DEF Usages
<1> QED
  BY <1>1, <1>3, <1>5 DEF d

LEMMA SyncKernelInv == PolicyInv /\ SyncKernel => PolicyInv'
<1> SUFFICES ASSUME PolicyInv, SyncKernel PROVE PolicyInv'
  OBVIOUS
<1>1. Reconcile(Folded, Dump(script, used), {}) /\ ~pending
  BY DEF SyncKernel, Reconcile
<1> QED
  BY <1>1, ReconcileInv, FoldedFacts, FoldedLive

\* Changing one row of Folded.
LEMMA ChangedRow ==
    ASSUME PolicyInv, ~pending, NEW a \in Customers, NEW r \in Row, r.last <= now
    PROVE  LET n == [Folded EXCEPT ![a] = r] IN
           /\ n \in Rows
           /\ n[a] = r /\ \A b \in Accounts : b # a => n[b] = Folded[b]
           /\ \A b \in Accounts : n[b].last <= now
<1>1. Folded \in Rows /\ \A b \in Accounts : Folded[b].last <= now
  BY FoldedFacts
<1>2. a \in Accounts
  BY PolicyAssumption DEF PolicyAssumption
<1> QED
  BY <1>1, <1>2 DEF Rows

LEMMA SetTierInv ==
    ASSUME PolicyInv, NEW a \in Customers, NEW t \in Tiers, NEW l \in Limits,
           NEW d \in Anchors, SetTier(a, t, l, d)
    PROVE  PolicyInv'
<1> DEFINE r == [Folded[a] EXCEPT !.tier = t, !.limit = l, !.anchor = d]
           n == [Folded EXCEPT ![a] = r]
           live1 == Dump(script, used)
<1>1. ~pending
  BY DEF SetTier, Reconcile
<1>2. a \in Accounts
  BY PolicyAssumption DEF PolicyAssumption
<1>3. Folded[a] \in Row /\ Folded[a].last <= now /\ DOMAIN Folded = Accounts
  BY <1>1, <1>2, FoldedFacts, RowFields
<1>4. r \in Row /\ r.last <= now /\ r.used = Folded[a].used
  BY <1>3 DEF Row
<1>5. [Folded EXCEPT ![a].tier = t, ![a].limit = l, ![a].anchor = d] = n
  BY <1>2, <1>3
<1>6. Reconcile(n, live1, {a})
  BY <1>5 DEF SetTier
<1> HIDE DEF r
<1>7. /\ n \in Rows /\ n[a] = r
      /\ \A b \in Accounts : b # a => n[b] = Folded[b]
      /\ \A b \in Accounts : n[b].last <= now
  BY <1>1, <1>4, ChangedRow
<1> HIDE DEF n
<1>8. \A b \in Accounts : n[b].used = Folded[b].used
  BY <1>4, <1>7
<1>9. live1 \in Usages /\ \A b \in DOMAIN live1 : live1[b] = n[b].used
  BY <1>1, <1>8, FoldedLive, UsageFunction
<1>10. \A b \in Accounts : HasQuota(n[b]) /\ b \notin {a} =>
          /\ passed[b] <= n[b].used + forgotten[b]
          /\ passed[b] <= n[b].limit + forgotten[b]
  BY <1>1, <1>7, FoldedFacts
<1> HIDE DEF live1
<1> QED
  BY <1>6, <1>7, <1>9, <1>10, ReconcileInv

LEMMA SetExpiryInv ==
    ASSUME PolicyInv, NEW a \in Customers, NEW t \in Expiries, SetExpiry(a, t)
    PROVE  PolicyInv'
<1> DEFINE r == [Folded[a] EXCEPT !.expires = t]
           n == [Folded EXCEPT ![a] = r]
           live1 == Dump(script, used)
<1>1. ~pending
  BY DEF SetExpiry, Reconcile
<1>2. a \in Accounts
  BY PolicyAssumption DEF PolicyAssumption
<1>3. Folded[a] \in Row /\ Folded[a].last <= now /\ DOMAIN Folded = Accounts
  BY <1>1, <1>2, FoldedFacts, RowFields
<1>4. /\ r \in Row /\ r.last <= now /\ r.used = Folded[a].used
      /\ r.tier = Folded[a].tier /\ r.limit = Folded[a].limit
  BY <1>3 DEF Row
<1>5. [Folded EXCEPT ![a].expires = t] = n
  BY <1>2, <1>3
<1>6. Reconcile(n, live1, {})
  BY <1>5 DEF SetExpiry
<1> HIDE DEF r
<1>7. /\ n \in Rows /\ n[a] = r
      /\ \A b \in Accounts : b # a => n[b] = Folded[b]
      /\ \A b \in Accounts : n[b].last <= now
  BY <1>1, <1>4, ChangedRow
<1> HIDE DEF n
<1>8. \A b \in Accounts : /\ n[b].used = Folded[b].used /\ n[b].tier = Folded[b].tier
                          /\ n[b].limit = Folded[b].limit
  BY <1>4, <1>7
<1>9. live1 \in Usages /\ \A b \in DOMAIN live1 : live1[b] = n[b].used
  BY <1>1, <1>8, FoldedLive, UsageFunction
<1>10. \A b \in Accounts : HasQuota(n[b]) =>
          /\ passed[b] <= n[b].used + forgotten[b]
          /\ passed[b] <= n[b].limit + forgotten[b]
  BY <1>1, <1>8, FoldedFacts DEF HasQuota
<1> HIDE DEF live1
<1> QED
  BY <1>6, <1>7, <1>9, <1>10, ReconcileInv

LEMMA ResetInv ==
    ASSUME PolicyInv, NEW a \in Customers, ResetAccount(a)
    PROVE  PolicyInv'
<1> DEFINE r == [Folded[a] EXCEPT !.used = 0, !.last = now]
           n == [Folded EXCEPT ![a] = r]
           d == Dump(script, used)
           live1 == [d EXCEPT ![a] = 0]
<1>1. ~pending
  BY DEF ResetAccount, Reconcile
<1>2. a \in Accounts
  BY PolicyAssumption DEF PolicyAssumption
<1>3. Folded[a] \in Row /\ DOMAIN Folded = Accounts /\ now \in Nat
  BY <1>1, <1>2, FoldedFacts, RowFields DEF PolicyInv, TypeInv
<1>4. r \in Row /\ r.last <= now /\ r.used = 0
  <2>1. r \in Row
    BY <1>3 DEF Row
  <2>2. r.last = now /\ r.used = 0
    BY <1>3 DEF Row
  <2> QED
    BY <1>3, <2>1, <2>2
<1>5. [Folded EXCEPT ![a].used = 0, ![a].last = now] = n
  BY <1>2, <1>3
<1>6. Reconcile(n, live1, {a})
  BY <1>5 DEF ResetAccount
<1> HIDE DEF r
<1>7. /\ n \in Rows /\ n[a] = r
      /\ \A b \in Accounts : b # a => n[b] = Folded[b]
      /\ \A b \in Accounts : n[b].last <= now
  BY <1>1, <1>4, ChangedRow
<1> HIDE DEF n
<1>8. n[a].used = 0
  BY <1>4, <1>7
<1>9. d \in Usages /\ \A b \in DOMAIN d : d[b] = Folded[b].used
  BY <1>1, FoldedLive
<1> HIDE DEF d
<1>10. DOMAIN d \subseteq Accounts /\ d \in [DOMAIN d -> Nat]
  BY <1>9, UsageFunction
<1>11. /\ DOMAIN live1 \subseteq Accounts /\ live1 \in [DOMAIN live1 -> Nat]
       /\ \A b \in DOMAIN live1 : live1[b] = n[b].used
  BY <1>7, <1>8, <1>9, <1>10
<1>12. live1 \in Usages
  BY <1>11 DEF Usages
<1>13. \A b \in Accounts : HasQuota(n[b]) /\ b \notin {a} =>
          /\ passed[b] <= n[b].used + forgotten[b]
          /\ passed[b] <= n[b].limit + forgotten[b]
  BY <1>1, <1>7, FoldedFacts
<1> HIDE DEF live1
<1> QED
  BY <1>6, <1>7, <1>11, <1>12, <1>13, ReconcileInv

\* What the cap leaves of a usage.
LEMMA CappedFacts ==
    ASSUME KernelInv, NEW u \in [DOMAIN script.limits -> Nat]
    PROVE  /\ Capped(u) \in [DOMAIN script.limits -> Nat]
           /\ \A a \in DOMAIN script.limits :
                 /\ u[a] \in Nat /\ script.limits[a] \in Nat
                 /\ Capped(u)[a] = u[a]
                    \/ (u[a] > script.limits[a] /\ Capped(u)[a] = script.limits[a] + 1)
<1>1. PICK r \in Rows, t \in Nat : script = Script(r, t)
  BY DEF KernelInv
<1>2. \A a \in DOMAIN script.limits : script.limits[a] \in Nat
  BY <1>1, ScriptLimits, RowFields
<1> QED
  BY <1>2 DEF Capped

\* A packet keeps the invariant, and none goes through beyond a limit.
LEMMA PacketInv ==
    ASSUME PolicyInv, NEW pkt \in Packets, Packet(pkt)
    PROVE  /\ PolicyInv'
           /\ \A a \in DOMAIN script.limits :
                 passed'[a] > passed[a] => passed'[a] <= script.limits[a] + forgotten[a]
<1> DEFINE seen == Verdict(script, used, pkt)
           limits == script.limits
           Through(a) == a \in Charged(pkt) /\ ~seen.dropped /\ ~pending
<1>1. KernelInv /\ TypeInv /\ BreachInv /\ BudgetInv
  BY DEF PolicyInv
<1>2. /\ used' = Capped(seen.used)
      /\ passed' = [a \in Accounts |->
                       IF Through(a) THEN passed[a] + pkt.len ELSE passed[a]]
      /\ now' = now /\ rows' = rows /\ expired' = expired /\ script' = script
      /\ live' = live /\ pending' = pending /\ stored' = stored /\ held' = held
      /\ forgotten' = forgotten /\ ahead' = ahead
  BY DEF Packet
<1>3. pkt.len \in Nat \ {0}
  BY PolicyAssumption DEF PolicyAssumption
<1>4. /\ seen.used \in [DOMAIN limits -> Nat]
      /\ \A a \in DOMAIN limits :
            /\ seen.used[a] >= used[a]
            /\ Through(a) => /\ seen.used[a] = used[a] + pkt.len
                             /\ used[a] + pkt.len <= limits[a]
  BY <1>1, PacketSpends
<1> HIDE DEF seen
<1>5. /\ used' \in [DOMAIN limits -> Nat]
      /\ \A a \in DOMAIN limits :
            /\ seen.used[a] \in Nat /\ limits[a] \in Nat
            /\ used'[a] = seen.used[a]
               \/ (seen.used[a] > limits[a] /\ used'[a] = limits[a] + 1)
  BY <1>1, <1>2, <1>4, CappedFacts
<1>6. \A a \in DOMAIN limits : used[a] \in Nat /\ passed[a] \in Nat /\ a \in Accounts
  BY <1>1, DumpFacts DEF TypeInv
<1>7. \A a \in DOMAIN limits : passed'[a] = IF Through(a) THEN passed[a] + pkt.len
                                                          ELSE passed[a]
  BY <1>2, <1>6
<1>8. ~pending => \A a \in DOMAIN limits : limits[a] = rows[a].limit
  BY <1>1, KernelRows
<1>9. KernelInv'
  BY <1>1, <1>2 DEF KernelInv
<1>10. TypeInv'
  <2>1. passed' \in [Accounts -> Nat]
    BY <1>1, <1>2, <1>3 DEF TypeInv
  <2> QED
    BY <1>1, <1>2, <1>5, <2>1 DEF TypeInv
<1> HIDE DEF Through
<1>11. BreachInv'
  <2>1. ASSUME ~pending, NEW a \in DOMAIN limits \ ahead, ViewUsed(a) >= rows[a].limit
        PROVE  used'[a] >= rows[a].limit
    <3>1. used[a] >= limits[a]
      BY <1>1, <1>8, <2>1 DEF BreachInv
    <3> QED
      BY <1>4, <1>5, <1>6, <1>8, <2>1, <3>1
  <2>2. ASSUME pending PROVE \A a \in DOMAIN live \ ahead : live[a] <= stored[a]
    BY <1>1, <2>2 DEF BreachInv
  <2> QED
    BY <1>1, <1>2, <2>1, <2>2 DEF BreachInv, ViewUsed
<1>12. ASSUME ~pending, NEW a \in DOMAIN limits
       PROVE  /\ passed'[a] <= used'[a] + forgotten[a]
              /\ passed'[a] <= limits[a] + forgotten[a]
  <2>1. passed[a] <= used[a] + forgotten[a] /\ passed[a] <= limits[a] + forgotten[a]
    BY <1>1, <1>8, <1>12 DEF BudgetInv
  <2>2. forgotten[a] \in Nat
    BY <1>1, <1>6, <1>12 DEF TypeInv
  <2>3. CASE Through(a)
    BY <1>3, <1>4, <1>5, <1>6, <1>7, <1>12, <2>1, <2>2, <2>3
  <2>4. CASE ~Through(a)
    BY <1>4, <1>5, <1>6, <1>7, <1>12, <2>1, <2>2, <2>4
  <2> QED
    BY <2>3, <2>4
<1>13. BudgetInv'
  <2>1. ASSUME pending PROVE passed' = passed
    BY <1>1, <1>2, <2>1 DEF Through, TypeInv
  <2> QED
    BY <1>1, <1>2, <1>8, <1>12, <2>1 DEF BudgetInv
<1>14. ASSUME NEW a \in DOMAIN limits, passed'[a] > passed[a]
       PROVE  passed'[a] <= limits[a] + forgotten[a]
  <2>1. ~pending
    BY <1>6, <1>7, <1>14 DEF Through
  <2> QED
    BY <1>12, <1>14, <2>1
<1> QED
  BY <1>9, <1>10, <1>11, <1>13, <1>14 DEF PolicyInv

LEMMA TickInv == PolicyInv /\ Tick => PolicyInv'
<1> SUFFICES ASSUME PolicyInv, Tick PROVE PolicyInv'
  OBVIOUS
<1>1. /\ now' = now + 1 /\ now' \in Instants
      /\ rows' = rows /\ expired' = expired /\ script' = script /\ used' = used
      /\ live' = live /\ pending' = pending /\ passed' = passed
      /\ stored' = stored /\ held' = held /\ forgotten' = forgotten /\ ahead' = ahead
  BY DEF Tick, historyVars
<1>2. KernelInv' /\ BreachInv' /\ BudgetInv'
  BY <1>1 DEF PolicyInv, KernelInv, BreachInv, ViewUsed, BudgetInv
<1>3. TypeInv'
  <2>1. now \in Nat /\ \A a \in Accounts : rows[a].last \in Nat /\ rows[a].last <= now
    BY RowFields DEF PolicyInv, TypeInv
  <2>2. now' \in Nat /\ \A a \in Accounts : rows'[a].last <= now'
    BY <1>1, <2>1
  <2> QED
    BY <1>1, <2>2 DEF PolicyInv, TypeInv
<1> QED
  BY <1>2, <1>3 DEF PolicyInv

LEMMA SampleInv == PolicyInv /\ Sample => PolicyInv'
<1> SUFFICES ASSUME PolicyInv, Sample PROVE PolicyInv'
  OBVIOUS
<1>1. /\ live' = Dump(script, used) /\ ~pending /\ ahead' = {}
      /\ rows' = rows /\ expired' = expired /\ script' = script /\ used' = used
      /\ now' = now /\ pending' = pending /\ passed' = passed
      /\ stored' = stored /\ held' = held /\ forgotten' = forgotten
  BY DEF Sample
<1>2. KernelInv' /\ BudgetInv'
  BY <1>1 DEF PolicyInv, KernelInv, BudgetInv
<1>3. live' \in Usages
  BY <1>1, FoldedLive
<1>4. TypeInv'
  BY <1>1, <1>3 DEF PolicyInv, TypeInv
<1>5. ASSUME NEW a \in DOMAIN script.limits, live'[a] >= rows[a].limit
      PROVE  used[a] >= rows[a].limit
  <2>1. script.limits[a] = rows[a].limit
    BY <1>1, KernelRows DEF PolicyInv
  <2> QED
    BY <1>1, <1>5, <2>1, DumpFacts DEF PolicyInv
<1>6. DOMAIN live' = DOMAIN script.limits
  BY <1>1, DumpFacts DEF PolicyInv
<1>7. BreachInv'
  BY <1>1, <1>5, <1>6 DEF BreachInv, ViewUsed
<1> QED
  BY <1>2, <1>4, <1>7 DEF PolicyInv

\* A persister's copy shows in the rows and nowhere else.
LEMMA PersistCopiesInv ==
    ASSUME PolicyInv, NEW p \in Persisters, PersistCopies(p)
    PROVE  PolicyInv'
<1>1. /\ rows' = WithUsage(live) /\ ~pending
      /\ held' = [q \in DOMAIN held \cup {p} |-> IF q = p THEN live ELSE held[q]]
      /\ expired' = expired /\ script' = script /\ used' = used /\ live' = live
      /\ now' = now /\ pending' = pending /\ passed' = passed
      /\ stored' = stored /\ forgotten' = forgotten /\ ahead' = ahead
  BY DEF PersistCopies, historyVars
<1>2. KernelInv /\ TypeInv /\ BreachInv /\ BudgetInv
  BY DEF PolicyInv
<1>3. rows \in Rows /\ \A a \in DOMAIN live \cap Accounts : live[a] \in Nat
  BY <1>2, UsageFunction DEF TypeInv
<1>4. /\ rows' \in Rows /\ Agree(rows', rows)
      /\ \A a \in Accounts :
            /\ rows'[a].last = rows[a].last
            /\ rows'[a].used = IF a \in DOMAIN live THEN live[a] ELSE rows[a].used
  BY <1>1, <1>3, UsageRows
<1>5. KernelInv'
  <2>1. PICK r \in Rows, t \in Nat :
           /\ script = Script(r, t)
           /\ expired = {a \in Accounts : ExpiredAt(r[a], t)}
           /\ Agree(r, rows)
    BY <1>1, <1>2 DEF KernelInv
  <2>2. Agree(r, rows')
    BY <1>4, <2>1 DEF Agree
  <2>3. script' = Script(r, t) /\ expired' = {a \in Accounts : ExpiredAt(r[a], t)}
    BY <1>1, <2>1
  <2> QED
    BY <2>2, <2>3 DEF KernelInv
<1>6. TypeInv'
  <2>1. \A q \in DOMAIN held' : held'[q] \in Usages
    BY <1>1, <1>2 DEF TypeInv
  <2>2. DOMAIN held' \subseteq Persisters
    BY <1>1, <1>2 DEF TypeInv
  <2> QED
    BY <1>1, <1>2, <1>4, <2>1, <2>2 DEF TypeInv
<1>7. \A a \in DOMAIN script.limits : a \in Accounts
  BY <1>2, DumpFacts
<1>8. \A a \in Accounts : ViewUsed(a)' = ViewUsed(a) /\ rows'[a].limit = rows[a].limit
  BY <1>1, <1>4 DEF ViewUsed, Agree
<1>9. BreachInv' /\ BudgetInv'
  BY <1>1, <1>2, <1>7, <1>8 DEF BreachInv, BudgetInv
<1> QED
  BY <1>5, <1>6, <1>9 DEF PolicyInv

\* What a persister's write takes from SQLite is forgotten, if a rebuild reads it.
LEMMA PersistWritesInv ==
    ASSUME PolicyInv, NEW p \in Persisters, PersistWrites(p)
    PROVE  PolicyInv'
<1> DEFINE copy == held[p]
           lower == {a \in DOMAIN copy : copy[a] < stored[a]}
<1>1. /\ rows' = rows /\ expired' = expired /\ script' = script /\ used' = used
      /\ live' = live /\ now' = now /\ pending' = pending /\ passed' = passed
      /\ p \in DOMAIN held
  BY DEF PersistWrites
<1>2. /\ held' = [q \in DOMAIN held \ {p} |-> held[q]]
      /\ stored' = [a \in Accounts |-> IF a \in DOMAIN copy THEN copy[a] ELSE stored[a]]
      /\ forgotten' = [a \in Accounts |-> IF pending /\ a \in lower
                                          THEN forgotten[a] + (stored[a] - copy[a])
                                          ELSE forgotten[a]]
      /\ ahead' = IF pending THEN ahead \cup lower ELSE ahead
  BY DEF PersistWrites
<1>3. KernelInv /\ TypeInv /\ BreachInv /\ BudgetInv
  BY DEF PolicyInv
<1>4. DOMAIN copy \subseteq Accounts /\ copy \in [DOMAIN copy -> Nat]
  BY <1>1, <1>3, UsageFunction DEF TypeInv
<1>5. stored \in [Accounts -> Nat] /\ forgotten \in [Accounts -> Nat]
  BY <1>3 DEF TypeInv
<1> HIDE DEF copy
<1>6. ASSUME NEW a \in Accounts
      PROVE  /\ stored'[a] \in Nat /\ forgotten'[a] \in Nat
             /\ pending => stored[a] + forgotten[a] <= stored'[a] + forgotten'[a]
             /\ forgotten[a] <= forgotten'[a]
             /\ stored'[a] < stored[a] => a \in lower
             /\ ~pending => forgotten'[a] = forgotten[a]
  <2>1. stored[a] \in Nat /\ forgotten[a] \in Nat
    BY <1>5
  <2>2. CASE a \in lower
    <3>1. stored'[a] = copy[a] /\ copy[a] \in Nat /\ copy[a] < stored[a]
      BY <1>2, <1>4, <2>2
    <3>2. forgotten'[a] = IF pending THEN forgotten[a] + (stored[a] - copy[a])
                                     ELSE forgotten[a]
      BY <1>2, <2>2
    <3> QED
      BY <2>1, <2>2, <3>1, <3>2
  <2>3. CASE a \notin lower
    <3>1. forgotten'[a] = forgotten[a]
      BY <1>2, <2>3
    <3>2. stored'[a] \in Nat /\ stored'[a] >= stored[a]
      BY <1>2, <1>4, <2>1, <2>3
    <3> QED
      BY <2>1, <3>1, <3>2
  <2> QED
    BY <2>2, <2>3
<1>7. lower \subseteq Accounts
  BY <1>4
<1> HIDE DEF lower
<1>8. KernelInv'
  BY <1>1, <1>3 DEF KernelInv
<1>9. TypeInv'
  <2>1. stored' \in [Accounts -> Nat]
    <3>1. stored' = [a \in Accounts |-> stored'[a]]
      BY <1>2
    <3> QED
      BY <1>6, <3>1
  <2>2. forgotten' \in [Accounts -> Nat]
    <3>1. forgotten' = [a \in Accounts |-> forgotten'[a]]
      BY <1>2
    <3> QED
      BY <1>6, <3>1
  <2>3. ahead' \subseteq Accounts
    BY <1>2, <1>3, <1>7 DEF TypeInv
  <2>4. DOMAIN held' \subseteq Persisters /\ \A q \in DOMAIN held' : held'[q] \in Usages
    BY <1>2, <1>3 DEF TypeInv
  <2> QED
    BY <1>1, <1>3, <2>1, <2>2, <2>3, <2>4 DEF TypeInv
<1>10. BreachInv'
  <2>1. CASE ~pending
    BY <1>1, <1>2, <1>3, <2>1 DEF BreachInv, ViewUsed
  <2>2. CASE pending
    <3>1. ASSUME NEW a \in DOMAIN live \ ahead'
          PROVE  live[a] <= stored'[a]
      <4>1. a \notin ahead /\ a \notin lower
        BY <1>2, <2>2, <3>1
      <4>2. a \in Accounts /\ live[a] \in Nat
        BY <1>3, UsageFunction DEF TypeInv
      <4>3. live[a] <= stored[a]
        BY <1>3, <2>2, <4>1 DEF BreachInv
      <4>4. stored[a] \in Nat /\ stored'[a] \in Nat /\ ~(stored'[a] < stored[a])
        BY <1>5, <1>6, <4>1, <4>2
      <4> QED
        BY <4>2, <4>3, <4>4
    <3> QED
      BY <1>1, <2>2, <3>1 DEF BreachInv
  <2> QED
    BY <2>1, <2>2
<1>11. BudgetInv'
  <2>1. CASE ~pending
    <3>1. \A a \in DOMAIN script.limits : a \in Accounts
      BY <1>3, DumpFacts
    <3> QED
      BY <1>1, <1>3, <1>6, <2>1, <3>1 DEF BudgetInv
  <2>2. CASE pending
    <3>1. ASSUME NEW a \in Accounts, HasQuota(rows[a])
          PROVE  /\ passed[a] <= stored'[a] + forgotten'[a]
                 /\ passed[a] <= rows[a].limit + forgotten'[a]
      <4>1. /\ passed[a] <= stored[a] + forgotten[a]
            /\ passed[a] <= rows[a].limit + forgotten[a]
        BY <1>3, <2>2, <3>1 DEF BudgetInv
      <4>2. passed[a] \in Nat /\ rows[a].limit \in Nat
        BY <1>3, RowFields DEF TypeInv
      <4> QED
        BY <1>5, <1>6, <2>2, <4>1, <4>2
    <3> QED
      BY <1>1, <2>2, <3>1 DEF BudgetInv
  <2> QED
    BY <2>1, <2>2
<1> QED
  BY <1>8, <1>9, <1>10, <1>11 DEF PolicyInv

\* What an apply puts where.
LEMMA ApplyFacts ==
    ASSUME PolicyInv, Apply
    PROVE  /\ rows' \in Rows /\ Agree(rows', rows)
           /\ \A a \in Accounts : rows'[a].last = rows[a].last /\ rows'[a].used = stored[a]
           /\ script' = Script(rows', now)
           /\ DOMAIN script'.limits = {a \in Accounts : HasQuota(rows'[a])}
           /\ used' = [a \in DOMAIN script'.limits |-> stored[a]]
           /\ used' \in [DOMAIN script'.limits -> Nat]
<1>1. /\ rows' = WithUsage(stored) /\ script' = Script(rows', now)
      /\ used' = [a \in DOMAIN script'.limits |-> stored[a]]
  BY DEF Apply
<1>2. rows \in Rows /\ stored \in [Accounts -> Nat]
  BY DEF PolicyInv, TypeInv
<1>3. /\ rows' \in Rows /\ Agree(rows', rows)
      /\ \A a \in Accounts : rows'[a].last = rows[a].last /\ rows'[a].used = stored[a]
  BY <1>1, <1>2, UsageRows
<1>4. DOMAIN script'.limits = {a \in Accounts : HasQuota(rows'[a])}
  BY <1>1, <1>3, ScriptLimits
<1>5. used' \in [DOMAIN script'.limits -> Nat]
  BY <1>1, <1>2, <1>4
<1> QED
  BY <1>1, <1>3, <1>4, <1>5

LEMMA ApplyInv == PolicyInv /\ Apply => PolicyInv'
<1> SUFFICES ASSUME PolicyInv, Apply PROVE PolicyInv'
  OBVIOUS
<1>1. /\ expired' = {a \in Accounts : ExpiredAt(rows[a], now)}
      /\ pending /\ pending' = FALSE
      /\ now' = now /\ live' = live /\ passed' = passed
      /\ stored' = stored /\ held' = held /\ forgotten' = forgotten /\ ahead' = ahead
  BY DEF Apply, historyVars
<1>2. KernelInv /\ TypeInv /\ BreachInv /\ BudgetInv
  BY DEF PolicyInv
<1>3. /\ rows' \in Rows /\ Agree(rows', rows)
      /\ \A a \in Accounts : rows'[a].last = rows[a].last /\ rows'[a].used = stored[a]
      /\ script' = Script(rows', now)
      /\ DOMAIN script'.limits = {a \in Accounts : HasQuota(rows'[a])}
      /\ used' = [a \in DOMAIN script'.limits |-> stored[a]]
      /\ used' \in [DOMAIN script'.limits -> Nat]
  BY ApplyFacts
<1>4. \A a \in Accounts : /\ HasQuota(rows'[a]) <=> HasQuota(rows[a])
                          /\ ExpiredAt(rows'[a], now) <=> ExpiredAt(rows[a], now)
                          /\ rows'[a].limit = rows[a].limit
  BY <1>3 DEF Agree, HasQuota, HasExpiry, ExpiredAt
<1>5. KernelInv'
  <2>1. expired' = {a \in Accounts : ExpiredAt(rows'[a], now)}
    BY <1>1, <1>4
  <2>2. Agree(rows', rows') /\ now \in Nat
    BY <1>2 DEF Agree, TypeInv
  <2> QED
    BY <1>3, <2>1, <2>2 DEF KernelInv
<1>6. TypeInv'
  BY <1>1, <1>2, <1>3 DEF TypeInv
<1>7. BreachInv'
  <2>1. ASSUME NEW a \in DOMAIN script'.limits, a \notin ahead
        PROVE  ViewUsed(a)' <= used'[a] /\ ViewUsed(a)' \in Nat /\ used'[a] \in Nat
    <3>1. a \in Accounts /\ used'[a] = stored[a] /\ rows'[a].used = stored[a]
      BY <1>3, <2>1
    <3>2. stored[a] \in Nat
      BY <1>2, <3>1 DEF TypeInv
    <3>3. CASE a \in DOMAIN live
      <4>1. live[a] <= stored[a]
        BY <1>1, <1>2, <2>1, <3>3 DEF BreachInv
      <4>2. live[a] \in Nat
        BY <1>2, <3>3, UsageFunction DEF TypeInv
      <4> QED
        BY <1>1, <3>1, <3>2, <3>3, <4>1, <4>2 DEF ViewUsed
    <3>4. CASE a \notin DOMAIN live
      BY <1>1, <3>1, <3>2, <3>4 DEF ViewUsed
    <3> QED
      BY <3>3, <3>4
  <2>2. \A a \in DOMAIN script'.limits : rows'[a].limit \in Nat
    BY <1>3, RowFields
  <2>3. \A a \in DOMAIN script'.limits \ ahead :
           ViewUsed(a)' >= rows'[a].limit => used'[a] >= rows'[a].limit
    BY <2>1, <2>2
  <2> QED
    BY <1>1, <2>3 DEF BreachInv
<1>8. BudgetInv'
  <2>1. ASSUME NEW a \in DOMAIN script'.limits
        PROVE  /\ passed[a] <= used'[a] + forgotten[a]
               /\ passed[a] <= rows'[a].limit + forgotten[a]
    <3>1. a \in Accounts /\ HasQuota(rows[a]) /\ used'[a] = stored[a]
      BY <1>3, <1>4, <2>1
    <3> QED
      BY <1>1, <1>2, <1>4, <3>1 DEF BudgetInv
  <2> QED
    BY <1>1, <2>1 DEF BudgetInv
<1> QED
  BY <1>5, <1>6, <1>7, <1>8 DEF PolicyInv

LEMMA PolicyInit == Init => PolicyInv
<1> SUFFICES ASSUME Init PROVE PolicyInv
  OBVIOUS
<1>1. PICK t \in Tiers, l \in Limits, d \in Anchors :
         rows = [a \in Accounts |-> IF a \in Customers THEN NewRow(t, l, d)
                                                     ELSE NewRow("c", 0, 1)]
  BY DEF Init
<1>2. NewRow(t, l, d) \in Row /\ NewRow("c", 0, 1) \in Row /\ NewRow("c", 0, 1).tier = "c"
  BY DEF NewRow, Row, Tiers
<1>3. /\ rows \in Rows
      /\ \A a \in Accounts : rows[a].last = 0 /\ rows[a].used = 0
  BY <1>1, <1>2 DEF Rows, NewRow
<1>4. /\ now = 0 /\ expired = {} /\ pending = FALSE /\ live = used
      /\ script = Script(rows, now) /\ passed = [a \in Accounts |-> 0]
      /\ used = [a \in DOMAIN script.limits |-> 0]
      /\ stored = [a \in Accounts |-> 0] /\ forgotten = [a \in Accounts |-> 0]
      /\ held = [p \in {} |-> live] /\ ahead = {}
  BY DEF Init
<1>5. \A a \in Accounts : ~ExpiredAt(rows[a], 0)
  BY <1>1 DEF NewRow, ExpiredAt, HasExpiry
<1>6. KernelInv
  <2>1. now \in Nat /\ expired = {a \in Accounts : ExpiredAt(rows[a], now)}
    BY <1>4, <1>5
  <2> QED
    BY <1>3, <1>4, <2>1 DEF KernelInv, Agree
<1>7. DOMAIN script.limits \subseteq Accounts
  BY <1>3, <1>4, ScriptLimits
<1>8. TypeInv
  <2>1. used \in [DOMAIN script.limits -> Nat] /\ DOMAIN used = DOMAIN script.limits
    BY <1>4
  <2>2. now \in Instants /\ now \in Nat
    BY <1>4, PolicyAssumption DEF PolicyAssumption
  <2>3. /\ passed \in [Accounts -> Nat] /\ pending \in BOOLEAN
        /\ stored \in [Accounts -> Nat] /\ forgotten \in [Accounts -> Nat]
        /\ ahead \subseteq Accounts /\ DOMAIN held = {}
    BY <1>4
  <2>4. \A a \in Accounts : rows[a].last <= now
    BY <1>3, <1>4
  <2>5. live \in Usages
    BY <1>4, <1>7, <2>1 DEF Usages
  <2> QED
    BY <1>3, <2>1, <2>2, <2>3, <2>4, <2>5 DEF TypeInv
<1>9. \A a \in Accounts : rows[a].limit \in Nat
  BY <1>3, RowFields
<1>10. BreachInv /\ BudgetInv
  BY <1>4, <1>7, <1>9 DEF BreachInv, BudgetInv, ViewUsed
<1> QED
  BY <1>6, <1>8, <1>10 DEF PolicyInv

LEMMA PolicyNext == PolicyInv /\ [Next]_vars => PolicyInv'
<1> SUFFICES ASSUME PolicyInv, [Next]_vars PROVE PolicyInv'
  OBVIOUS
<1>1. CASE UNCHANGED vars
  BY <1>1 DEF vars, historyVars, PolicyInv, KernelInv, TypeInv, BreachInv, BudgetInv,
              ViewUsed
<1>2. ASSUME NEW pkt \in Packets, Packet(pkt) PROVE PolicyInv'
  BY <1>2, PacketInv
<1>3. CASE Tick \/ Sample \/ Apply \/ SyncKernel
  BY <1>3, TickInv, SampleInv, ApplyInv, SyncKernelInv
<1>4. ASSUME NEW a \in Customers, NEW t \in Tiers, NEW l \in Limits,
             NEW d \in Anchors, SetTier(a, t, l, d)
      PROVE  PolicyInv'
  BY <1>4, SetTierInv
<1>5. ASSUME NEW a \in Customers, NEW t \in Expiries, SetExpiry(a, t)
      PROVE  PolicyInv'
  BY <1>5, SetExpiryInv
<1>6. ASSUME NEW a \in Customers, ResetAccount(a) \/ DueReset(a)
      PROVE  PolicyInv'
  <2>1. ResetAccount(a)
    BY <1>6 DEF DueReset
  <2> QED
    BY <2>1, ResetInv
<1>7. ASSUME NEW p \in Persisters, PersistCopies(p) \/ PersistWrites(p)
      PROVE  PolicyInv'
  BY <1>7, PersistCopiesInv, PersistWritesInv
<1> QED
  BY <1>1, <1>2, <1>3, <1>4, <1>5, <1>6, <1>7 DEF Next

-----------------------------------------------------------------------------
(* What follows.                                                           *)

LEMMA PolicyTyped == PolicyInv => TypeOK
<1> SUFFICES ASSUME PolicyInv PROVE TypeOK
  OBVIOUS
<1>1. PICK r \in Rows, t \in Nat :
         script = Script(r, t) /\ expired = {a \in Accounts : ExpiredAt(r[a], t)}
  BY DEF PolicyInv, KernelInv
<1>2. expired \subseteq Customers
  BY <1>1, RowFields DEF ExpiredAt, HasExpiry
<1>3. /\ now \in Instants /\ pending \in BOOLEAN
      /\ \A a \in DOMAIN script.limits : used[a] \in Nat
      /\ \A a \in DOMAIN live : live[a] \in Nat
      /\ ahead \subseteq Accounts /\ DOMAIN held \subseteq Persisters
      /\ \A p \in DOMAIN held : \A a \in DOMAIN held[p] : held[p][a] \in Nat
  BY UsageFunction DEF PolicyInv, TypeInv
<1>4. ASSUME NEW a \in Accounts
      PROVE  /\ rows[a].tier \in Tiers /\ rows[a].limit \in {0} \cup Limits
             /\ rows[a].anchor \in {1} \cup Anchors /\ rows[a].expires \in {0} \cup Expiries
             /\ rows[a].used \in Nat /\ rows[a].last \in 0..now
             /\ stored[a] \in Nat /\ passed[a] \in Nat /\ forgotten[a] \in Nat
  <2>1. /\ rows[a] \in Row /\ rows[a].last <= now /\ now \in Nat
        /\ stored[a] \in Nat /\ passed[a] \in Nat /\ forgotten[a] \in Nat
    BY RowFields DEF PolicyInv, TypeInv
  <2> QED
    BY <2>1 DEF Row
<1> QED
  BY <1>2, <1>3, <1>4 DEF TypeOK

\* Every variable has its type, in every state.
THEOREM PolicyTypeTheorem == Spec => []TypeOK
BY PolicyInit, PolicyNext, PolicyTyped, PTL DEF Spec

\* When an account is blocked.
LEMMA BlockedMeans ==
    ASSUME PolicyInv, ~pending, NEW a \in Accounts
    PROVE  /\ a \in expired => Blocked(a)
           /\ HasQuota(rows[a]) /\ used[a] >= rows[a].limit => Blocked(a)
           /\ Blocked(a) => \/ a \in expired
                            \/ HasQuota(rows[a]) /\ used[a] >= rows[a].limit
<1>1. KernelInv /\ TypeInv
  BY DEF PolicyInv
<1>2. PICK r \in Rows, t \in Nat :
         /\ script = Script(r, t) /\ Agree(r, rows)
         /\ expired = {b \in Accounts : ExpiredAt(r[b], t)}
  BY <1>1 DEF KernelInv
<1>3. \A pkt \in Packets : Verdict(script, used, pkt) = Promise(r, t, used, pkt)
  BY <1>1, <1>2, QuotasHold DEF TypeInv
<1>4. HasQuota(rows[a]) => used[a] \in Nat /\ rows[a].limit \in Nat
  BY <1>1, KernelRows, RowFields DEF TypeInv
<1>0. (HasQuota(r[a]) <=> HasQuota(rows[a])) /\ r[a].limit = rows[a].limit
  BY <1>2 DEF Agree, HasQuota
<1>5. ASSUME NEW pkt \in Packets, NEW p, p \in OwnPorts(pkt), a = PortTable[p].acct
      PROVE  Verdict(script, used, pkt).dropped <=>
                \/ a \in expired
                \/ HasQuota(rows[a]) /\ used[a] + pkt.len > rows[a].limit
  <2>1. Promised(r, t, used, pkt, p, a)
    BY <1>5, PromiseOwn
  <2>2. CASE ExpiredAt(r[a], t)
    <3>1. Verdict(script, used, pkt) = Stopped(used, {})
      BY <1>3, <2>1, <2>2 DEF Promised
    <3> QED
      BY <1>2, <2>2, <3>1 DEF Stopped
  <2>3. CASE ~ExpiredAt(r[a], t) /\ HasQuota(r[a]) /\ used[a] + pkt.len > r[a].limit
    <3>1. Verdict(script, used, pkt) = Stopped(Spent(used, a, pkt.len), {})
      BY <1>3, <2>1, <2>3 DEF Promised
    <3> QED
      BY <1>0, <2>3, <3>1 DEF Stopped
  <2>4. CASE ~ExpiredAt(r[a], t) /\ ~(HasQuota(r[a]) /\ used[a] + pkt.len > r[a].limit)
    <3>1. Verdict(script, used, pkt)
             = Passed(Spent(used, a, pkt.len), {<<p, pkt.dir>>})
      BY <1>3, <2>1, <2>4 DEF Promised
    <3> QED
      BY <1>0, <1>2, <2>4, <3>1 DEF Passed
  <2> QED
    BY <2>2, <2>3, <2>4
<1>6. \A pkt \in Packets : pkt.len \in Nat \ {0}
  BY PolicyAssumption DEF PolicyAssumption
<1>7. a \in expired => Blocked(a)
  BY <1>5 DEF Blocked
<1>8. HasQuota(rows[a]) /\ used[a] >= rows[a].limit => Blocked(a)
  BY <1>4, <1>5, <1>6 DEF Blocked
<1>9. ASSUME Blocked(a)
      PROVE  a \in expired \/ (HasQuota(rows[a]) /\ used[a] >= rows[a].limit)
  <2>1. PICK pkt \in Packets : \E p \in OwnPorts(pkt) : PortTable[p].acct = a /\ pkt.len = 1
    BY TrafficAssumption DEF TrafficAssumption
  <2>2. PICK p : p \in OwnPorts(pkt) /\ PortTable[p].acct = a
    BY <2>1
  <2>3. Verdict(script, used, pkt).dropped
    BY <1>9, <2>2 DEF Blocked
  <2> QED
    BY <1>4, <1>5, <2>1, <2>2, <2>3
<1> QED
  BY <1>7, <1>8, <1>9

LEMMA StatusLemma == PolicyInv => StatusIsTruth
<1> SUFFICES ASSUME PolicyInv, ~pending, NEW a \in Accounts
             PROVE  /\ Status(a) = "EXPIRED" => Blocked(a)
                    /\ Status(a) = "BREACHED" => Blocked(a) \/ a \in ahead
                    /\ Blocked(a) /\ live = Dump(script, used)
                          => Status(a) \in {"EXPIRED", "BREACHED"}
  BY DEF StatusIsTruth
<1>1. KernelInv /\ TypeInv /\ BreachInv
  BY DEF PolicyInv
<1>2. /\ rows \in Rows
      /\ DOMAIN script.limits = {b \in Accounts : HasQuota(rows[b])}
      /\ \A b \in DOMAIN script.limits : script.limits[b] = rows[b].limit
  BY <1>1, KernelRows
<1>3. a \in expired => HasQuota(rows[a])
  <2>1. PICK r \in Rows, t \in Nat :
           expired = {b \in Accounts : ExpiredAt(r[b], t)} /\ Agree(r, rows)
    BY <1>1 DEF KernelInv
  <2> QED
    BY <2>1 DEF Agree, ExpiredAt, HasExpiry, HasQuota
<1>4. HasQuota(rows[a]) /\ ViewUsed(a) >= rows[a].limit
         => used[a] >= rows[a].limit \/ a \in ahead
  BY <1>1, <1>2 DEF BreachInv
<1>5. /\ Status(a) = "EXPIRED" <=> HasQuota(rows[a]) /\ a \in expired
      /\ Status(a) = "BREACHED" => HasQuota(rows[a]) /\ ViewUsed(a) >= rows[a].limit
      /\ HasQuota(rows[a]) /\ ViewUsed(a) >= rows[a].limit
            => Status(a) \in {"EXPIRED", "BREACHED"}
  BY DEF Status, StatusOf
<1>6. ASSUME live = Dump(script, used), HasQuota(rows[a]), used[a] >= rows[a].limit
      PROVE  ViewUsed(a) >= rows[a].limit
  <2>1. a \in DOMAIN script.limits /\ script.limits[a] = rows[a].limit
    BY <1>2, <1>6
  <2>2. ViewUsed(a) = Dump(script, used)[a]
    BY <1>1, <1>6, <2>1, DumpFacts DEF ViewUsed
  <2> QED
    BY <1>1, <1>6, <2>1, <2>2, DumpFacts
<1>7. Blocked(a) /\ live = Dump(script, used) => Status(a) \in {"EXPIRED", "BREACHED"}
  BY <1>3, <1>5, <1>6, BlockedMeans
<1>8. Status(a) = "EXPIRED" => Blocked(a)
  BY <1>5, BlockedMeans
<1>9. Status(a) = "BREACHED" => Blocked(a) \/ a \in ahead
  BY <1>4, <1>5, BlockedMeans
<1> QED
  BY <1>7, <1>8, <1>9

\* Clients are told EXPIRED or BREACHED only if no packet gets through, and are
\* told so whenever the sample is fresh: for every table of ports, every traffic,
\* every calendar and any number of persisters, of which one may make BREACHED
\* early until the next sample (viewLocked, persistNow, httpapi, tui).
THEOREM StatusTheorem == Spec => []StatusIsTruth
BY PolicyInit, PolicyNext, StatusLemma, PTL DEF Spec

\* An apply puts the promise into the kernel.
LEMMA ApplyKeepsPromise ==
    ASSUME PolicyInv, [Next]_vars, pending, ~pending', NEW pkt \in Packets
    PROVE  AsPromised(script', rows', now, used', pkt)
<1>1. Apply
  <2>1. CASE UNCHANGED vars
    <3>1. pending' = pending
      BY <2>1 DEF vars
    <3> QED
      BY <3>1
  <2>2. ASSUME NEW q \in Packets, Packet(q)
        PROVE  pending' = pending
    BY <2>2 DEF Packet
  <2>3. Tick \/ Sample => pending' = pending
    BY DEF Tick, Sample
  <2>4. ASSUME NEW p \in Persisters, PersistCopies(p) \/ PersistWrites(p)
        PROVE  pending' = pending
    BY <2>4 DEF PersistCopies, PersistWrites
  <2>5. ~SyncKernel
    BY DEF SyncKernel, Reconcile
  <2>6. ASSUME NEW a \in Customers
        PROVE  /\ \A t \in Tiers, l \in Limits, d \in Anchors : ~SetTier(a, t, l, d)
               /\ \A t \in Expiries : ~SetExpiry(a, t)
               /\ ~ResetAccount(a) /\ ~DueReset(a)
    BY DEF SetTier, SetExpiry, DueReset, ResetAccount, Reconcile
  <2> QED
    BY <2>1, <2>2, <2>3, <2>4, <2>5, <2>6 DEF Next
<1>2. /\ script' = Script(rows', now) /\ rows' \in Rows
      /\ used' \in [DOMAIN script'.limits -> Nat]
  BY <1>1, ApplyFacts
<1> QED
  BY <1>2, QuotasHold DEF AsPromised

\* Whatever is rendered treats every packet as promised, at every usage: for
\* every number of ports and ranges that do not overlap, in whatever order
\* (buildScript).
THEOREM PromiseTheorem == Spec => RulesetKeepsPromise
<1>1. PolicyInv /\ [Next]_vars =>
         [pending /\ ~pending'
            => \A pkt \in Packets : AsPromised(script', rows', now, used', pkt)]_vars
  BY ApplyKeepsPromise
<1> QED
  BY <1>1, PolicyInit, PolicyNext, PTL DEF Spec, RulesetKeepsPromise

\* No step lets an account beyond its limit and what was forgotten of it.
LEMMA BudgetStep ==
    ASSUME PolicyInv, [Next]_vars, NEW a \in DOMAIN script.limits, passed'[a] > passed[a]
    PROVE  passed'[a] <= script.limits[a] + forgotten[a]
<1>1. KernelInv /\ TypeInv
  BY DEF PolicyInv
<1>2. /\ a \in Accounts /\ passed[a] \in Nat /\ script.limits[a] \in Nat
      /\ forgotten[a] \in Nat
  BY <1>1, DumpFacts DEF TypeInv
<1>3. CASE passed' = passed
  BY <1>2, <1>3
<1>4. ASSUME NEW pkt \in Packets, Packet(pkt)
      PROVE  passed'[a] <= script.limits[a] + forgotten[a]
  BY <1>4, PacketInv
<1>5. ASSUME NEW b \in Customers, NEW t \in Tiers, NEW l \in Limits,
             NEW d \in Anchors, SetTier(b, t, l, d)
      PROVE  passed'[a] <= script.limits[a] + forgotten[a]
  <2> DEFINE n == [Folded EXCEPT ![b].tier = t, ![b].limit = l, ![b].anchor = d]
  <2>1. Reconcile(n, Dump(script, used), {b}) /\ ~pending
    BY <1>5 DEF SetTier, Reconcile
  <2>2. CASE a # b
    <3>1. passed'[a] = passed[a]
      BY <1>2, <2>1, <2>2 DEF Reconcile
    <3> QED
      BY <1>2, <3>1
  <2>3. CASE a = b
    <3>1. Folded \in Rows /\ Folded[a].used = Dump(script, used)[a]
      BY <1>2, <2>1, FoldedFacts
    <3>2. Folded[a] \in Row /\ DOMAIN Folded = Accounts
      BY <1>2, <3>1, RowFields
    <3>3. n[a] = [Folded[a] EXCEPT !.tier = t, !.limit = l, !.anchor = d]
      BY <1>2, <2>3, <3>2
    <3>4. n[a].used = Folded[a].used /\ n[a].limit = l /\ l \in Nat
      BY <3>2, <3>3, PolicyAssumption DEF Row, PolicyAssumption
    <3>5. passed'[a] = Budgeted(n[a])
      BY <1>2, <2>1, <2>3 DEF Reconcile
    <3>6. Dump(script, used)[a] \in Nat /\ Dump(script, used)[a] <= script.limits[a]
      BY <1>1, DumpFacts
    <3> HIDE DEF n
    <3>7. passed'[a] <= Dump(script, used)[a] /\ passed'[a] \in Nat
      BY <3>1, <3>4, <3>5, <3>6 DEF Budgeted
    <3> QED
      BY <1>2, <3>6, <3>7
  <2> QED
    BY <2>2, <2>3
<1>6. ASSUME NEW b \in Customers, ResetAccount(b)
      PROVE  passed'[a] <= script.limits[a] + forgotten[a]
  <2> DEFINE n == [Folded EXCEPT ![b].used = 0, ![b].last = now]
             live1 == [Dump(script, used) EXCEPT ![b] = 0]
  <2>1. Reconcile(n, live1, {b}) /\ ~pending
    BY <1>6 DEF ResetAccount, Reconcile
  <2>2. CASE a # b
    <3>1. passed'[a] = passed[a]
      BY <1>2, <2>1, <2>2 DEF Reconcile
    <3> QED
      BY <1>2, <3>1
  <2>3. CASE a = b
    <3>1. Folded[a] \in Row /\ DOMAIN Folded = Accounts
      BY <1>2, <2>1, FoldedFacts, RowFields
    <3>2. n[a] = [Folded[a] EXCEPT !.used = 0, !.last = now]
      BY <1>2, <2>3, <3>1
    <3>3. n[a].used = 0 /\ n[a].limit = Folded[a].limit /\ n[a].limit \in Nat
      BY <1>2, <2>1, <3>1, <3>2, FoldedFacts, RowFields DEF Row
    <3>4. passed'[a] = Budgeted(n[a])
      BY <1>2, <2>1, <2>3 DEF Reconcile
    <3> HIDE DEF n
    <3>5. passed'[a] = 0
      BY <3>3, <3>4 DEF Budgeted
    <3> QED
      BY <1>2, <3>5
  <2> QED
    BY <2>2, <2>3
<1>7. ASSUME NEW newRows, Reconcile(newRows, Dump(script, used), {})
      PROVE  passed'[a] <= script.limits[a] + forgotten[a]
  <2>1. passed'[a] = passed[a]
    BY <1>2, <1>7 DEF Reconcile
  <2> QED
    BY <1>2, <2>1
<1> QED
  BY <1>3, <1>4, <1>5, <1>6, <1>7
     DEF Next, vars, historyVars, Tick, Sample, PersistCopies, PersistWrites, Apply,
         SyncKernel, SetExpiry, DueReset

\* Since its usage was last set, a quota account never gets more than its limit
\* and what persisters' writes took back between the folds and the reloads of
\* reconciles; what passes during a reconcile is not counted (reconcile,
\* persistNow, applyLocked, buildScript).
THEOREM BudgetTheorem == Spec => WithinBudget
<1>1. PolicyInv /\ [Next]_vars =>
         [\A a \in DOMAIN script.limits :
             passed'[a] > passed[a] => passed'[a] <= script.limits[a] + forgotten[a]]_vars
  BY BudgetStep
<1> QED
  BY <1>1, PolicyInit, PolicyNext, PTL DEF Spec, WithinBudget
=============================================================================

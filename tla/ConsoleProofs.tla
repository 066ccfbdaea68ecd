--------------------------- MODULE ConsoleProofs ----------------------------
(***************************************************************************)
(* For any accounts, ports, keys, commands and other programs: the         *)
(* highlight stays, what is confirmed or named is what changes, and        *)
(* success means all of it.                                                *)
(***************************************************************************)
EXTENDS Console, SortingProofs

AccountRecords == [name : Names, tier : Tiers, expires : BOOLEAN]
PortRecords == [acct : DOMAIN accts, span : Spans]

\* ids are given out in order and every port has its account
DirectoryInv ==
    /\ lastA \in Nat /\ 1..lastA \subseteq AccountIds /\ DOMAIN accts \subseteq 1..lastA
    /\ lastP \in Nat /\ 1..lastP \subseteq PortIds /\ DOMAIN ports \subseteq 1..lastP
    /\ accts \in [DOMAIN accts -> AccountRecords]
    /\ ports \in [DOMAIN ports -> PortRecords]

\* e stands for an account or a port that was given its id
Known(e) ==
    /\ e.acct \in 1..lastA
    /\ \/ e.kind = "account" /\ e.port = 0
       \/ e.kind = "port" /\ e.port \in 1..lastP

\* e stands for an account or a port that exists
Present(e) ==
    \/ e.kind = "account" /\ e.acct \in DOMAIN accts
    \/ e.kind = "port" /\ e.port \in DOMAIN ports

TableInv ==
    /\ \A i \in DOMAIN rows : Known(rows[i])
    /\ rows # <<>> => cursor \in DOMAIN rows /\ sel = Entity(rows[cursor])
    /\ chosen = Nothing \/ Known(chosen)

\* the highlight is lost only when what had it is gone, and then for good
HighlightInv ==
    /\ Present(chosen) => Same(sel, chosen)
    /\ RowsOf(rows, chosen) # {} => Same(sel, chosen)

\* a dialog about a port knows which
BoxInv ==
    /\ box.op \in Keys \cup {"none", "message", "adding", "redraw"}
    /\ box.op \in {"e", "x", "m"} => box.on.port # 0

\* between its two calls a command holds the id of what was named
CommandInv ==
    /\ cmd.pc \in {"idle", "looked", "adding", "done"}
    /\ cmd.pc = "looked" =>
          /\ cmd.call = NoCall
          /\ cmd.acct \in 1..lastA
          /\ cmd.acct \in DOMAIN accts =>
                accts[cmd.acct].name = cmd.ref \/ (cmd.acct = cmd.ref /\ ~cmd.taken)

ConsoleInv == DirectoryInv /\ TableInv /\ HighlightInv /\ BoxInv /\ CommandInv

-----------------------------------------------------------------------------
(* Calls.                                                                  *)

Is(c, op, a, p) == c.op = op /\ c.acct = a /\ c.port = p

\* a call has the arguments its operation needs
WellFormed(c) ==
    /\ c.op = "AddAccount" => c.name \in Names /\ c.tier \in Tiers
    /\ c.op = "SetTier" => c.tier \in Tiers
    /\ c.op = "SetExpiry" => c.on \in BOOLEAN
    /\ c.op \in {"AddPort", "EditPort"} => c.span \in Spans

\* What the calls of each kind are.
LEMMA OnFields ==
    ASSUME NEW op, NEW a
    PROVE  Is(On(op, a), op, a, 0)
BY DEF On, Is

LEMMA DeleteAccountCalls ==
    ASSUME NEW a, NEW d, NEW c \in DeleteAccount(a, d)
    PROVE  Is(c, "DeleteAccount", a, 0) /\ c.cascade = d /\ WellFormed(c)
BY DEF DeleteAccount, Is, WellFormed

LEMMA SetTierCalls ==
    ASSUME NEW a, NEW c \in SetTier(a)
    PROVE  Is(c, "SetTier", a, 0) /\ WellFormed(c)
BY DEF SetTier, Is, WellFormed

LEMMA SetExpiryCalls ==
    ASSUME NEW a, NEW S, S \subseteq BOOLEAN, NEW c \in SetExpiry(a, S)
    PROVE  Is(c, "SetExpiry", a, 0) /\ c.on \in S /\ WellFormed(c)
BY DEF SetExpiry, Is, WellFormed

LEMMA AddPortCalls ==
    ASSUME NEW a, NEW c \in AddPort(a)
    PROVE  Is(c, "AddPort", a, 0) /\ WellFormed(c)
BY DEF AddPort, Is, WellFormed

LEMMA AddAccountCalls ==
    ASSUME NEW c \in AddAccount
    PROVE  Is(c, "AddAccount", 0, 0) /\ WellFormed(c)
BY DEF AddAccount, Is, WellFormed

LEMMA MovePortCalls ==
    ASSUME NEW p, NEW S, NEW c \in MovePort(p, S)
    PROVE  Is(c, "MovePort", c.acct, p) /\ c.acct \in S /\ WellFormed(c)
BY DEF MovePort, Is, WellFormed

LEMMA PortCalls ==
    ASSUME NEW p
    PROVE  /\ \A c \in EditPort(p) : Is(c, "EditPort", 0, p) /\ WellFormed(c)
           /\ \A c \in DeletePort(p) : Is(c, "DeletePort", 0, p) /\ WellFormed(c)
BY DEF EditPort, DeletePort, Is, WellFormed

LEMMA AnyCallWellFormed ==
    ASSUME NEW c \in AnyCall PROVE WellFormed(c)
<1>1. CASE c \in AddAccount
  BY <1>1, AddAccountCalls
<1>2. CASE \E a \in DOMAIN accts :
              c \in DeleteAccount(a, TRUE) \cup SetTier(a) \cup SetExpiry(a, BOOLEAN)
                    \cup AddPort(a)
  BY <1>2, DeleteAccountCalls, SetTierCalls, SetExpiryCalls, AddPortCalls
<1>3. CASE \E p \in DOMAIN ports :
              c \in MovePort(p, DOMAIN accts) \cup EditPort(p) \cup DeletePort(p)
  BY <1>3, PortCalls, MovePortCalls
<1> QED
  BY <1>1, <1>2, <1>3 DEF AnyCall

\* A command on an account calls for that account.
LEMMA AccountCallsWellFormed ==
    ASSUME NEW a, NEW c \in AccountCalls(a) PROVE c.acct = a /\ WellFormed(c)
<1>1. ASSUME NEW r \in DeleteAccount(a, TRUE) \cup DeleteAccount(a, FALSE) \cup SetTier(a)
                      \cup SetExpiry(a, BOOLEAN) \cup AddPort(a)
      PROVE  r.acct = a /\ WellFormed(r)
  <2>1. CASE r \in SetExpiry(a, BOOLEAN)
    BY <2>1, SetExpiryCalls DEF Is
  <2>2. CASE r \in DeleteAccount(a, TRUE) \cup DeleteAccount(a, FALSE)
    BY <2>2, DeleteAccountCalls DEF Is
  <2> QED
    BY <1>1, <2>1, <2>2, SetTierCalls, AddPortCalls DEF Is
<1>2. ASSUME NEW p, NEW r \in MovePort(p, {a}) PROVE r.acct = a /\ WellFormed(r)
  BY <1>2, MovePortCalls
<1>3. \A op \in {"ResetAccount", "SetUsage", "ShowToken", "RegenerateToken"} :
         On(op, a).acct = a /\ WellFormed(On(op, a))
  BY DEF On, WellFormed
<1> QED
  BY <1>1, <1>2, <1>3 DEF AccountCalls, cmdRm, cmdSetTier, cmdReset, cmdSetUsage,
     cmdSetExpire, cmdTokenShow, cmdTokenNew, cmdPortAdd, cmdPortMove

\* A call for what the dialog named.
ForShown(c, b) ==
    IF b.op \in {"e", "x", "m"} THEN c.port = b.on.port
                                ELSE c.port = 0 /\ c.acct = b.on.acct

\* What a button may call.
LEMMA HandlerCalls ==
    ASSUME NEW b, b.op \in Keys, NEW c \in Handler(b).calls
    PROVE  /\ WellFormed(c)
           /\ b.op # "a" => ForShown(c, b)
           /\ b.op = "a" => c.op = "AddAccount"
           /\ b.op = "d" => c.op = "DeleteAccount" /\ c.acct = b.on.acct
                            /\ c.cascade = (b.count > 0)
<1> DEFINE a == b.on.acct
           p == b.on.port
<1>1. CASE b.op = "a"
  <2>1. c \in AddAccount
    BY <1>1 DEF Handler, formAddAccount, ForRows
  <2> QED
    BY <1>1, <2>1, AddAccountCalls DEF Is
<1>2. CASE b.op = "d"
  <2>1. c \in DeleteAccount(a, b.count > 0)
    BY <1>2 DEF Handler, doDeleteAccount, ForRows, Target, Cascades
  <2> QED
    BY <1>2, <2>1, DeleteAccountCalls DEF Is, ForShown
<1>3. CASE b.op = "p"
  <2>1. c \in AddPort(a)
    BY <1>3 DEF Handler, formAddPort, ForRows, Target
  <2> QED
    BY <1>3, <2>1, AddPortCalls DEF Is, ForShown
<1>4. CASE b.op = "e"
  <2>1. c \in EditPort(p)
    BY <1>4 DEF Handler, formEditPort, ForRows, Target
  <2> QED
    BY <1>4, <2>1, PortCalls DEF Is, ForShown
<1>5. CASE b.op = "x"
  <2>1. c \in DeletePort(p)
    BY <1>5 DEF Handler, doDeletePort, ForRows, Target
  <2> QED
    BY <1>5, <2>1, PortCalls DEF Is, ForShown
<1>6. CASE b.op = "m"
  <2>1. c \in MovePort(p, b.dests)
    BY <1>6 DEF Handler, formMovePort, ForRows, Target
  <2> QED
    BY <1>6, <2>1, MovePortCalls DEF Is, ForShown
<1>7. CASE b.op = "t"
  <2>1. c \in SetTier(a)
    BY <1>7 DEF Handler, formChangeTier, ForRows, Target
  <2> QED
    BY <1>7, <2>1, SetTierCalls DEF Is, ForShown
<1>8. CASE b.op = "r"
  <2>1. c = On("ResetAccount", a)
    BY <1>8 DEF Handler, doReset, ForRows, Target
  <2> QED
    BY <1>8, <2>1, OnFields DEF Is, ForShown, WellFormed
<1>9. CASE b.op = "u"
  <2>1. c = On("SetUsage", a)
    BY <1>9 DEF Handler, formSetUsage, ForRows, Target
  <2> QED
    BY <1>9, <2>1, OnFields DEF Is, ForShown, WellFormed
<1>10. CASE b.op = "v"
  <2>1. c \in SetExpiry(a, BOOLEAN)
    BY <1>10 DEF Handler, formSetExpiry, ForRows, Target
  <2> QED
    BY <1>10, <2>1, SetExpiryCalls DEF Is, ForShown
<1> QED
  BY <1>1, <1>2, <1>3, <1>4, <1>5, <1>6, <1>7, <1>8, <1>9, <1>10 DEF Keys

-----------------------------------------------------------------------------
(* The directory.                                                          *)

\* no id comes back, and no account changes its name
IdsOnce ==
    /\ 1..lastA \subseteq 1..lastA' /\ 1..lastP \subseteq 1..lastP'
    /\ \A a \in 1..lastA : a \in DOMAIN accts' =>
          a \in DOMAIN accts /\ accts'[a].name = accts[a].name
    /\ \A p \in 1..lastP : p \in DOMAIN ports' => p \in DOMAIN ports

\* Ids up to the bound of the model, whichever it is.
LEMMA IdsAreInitial ==
    /\ \A i \in AccountIds : i \in Nat /\ 1..i \subseteq AccountIds
    /\ \A i \in PortIds : i \in Nat /\ 1..i \subseteq PortIds
<1>1. Cardinality(AccountIds) \in Nat /\ Cardinality(PortIds) \in Nat
  BY ConsoleAssumption, FS_CardinalityType
<1>2. \A n \in Nat : \A i \in 1..n : i \in Nat /\ 1..i \subseteq 1..n
  OBVIOUS
<1> QED
  BY <1>1, <1>2, ConsoleAssumption

LEMMA NothingHappens ==
    ASSUME DirectoryInv, UNCHANGED directory PROVE DirectoryInv' /\ IdsOnce
BY DEF DirectoryInv, PortRecords, directory, IdsOnce

LEMMA AccountAdded ==
    ASSUME DirectoryInv, NEW n \in Names, NEW t \in Tiers, Dir!AddAccount(n, t),
           lastA' \in {lastA} \cup AccountIds
    PROVE  DirectoryInv' /\ IdsOnce
<1>1. /\ lastA \in Nat /\ DOMAIN accts \subseteq 1..lastA
      /\ accts \in [DOMAIN accts -> AccountRecords]
      /\ ports \in [DOMAIN ports -> PortRecords]
  BY DEF DirectoryInv
<1>2. lastA' = lastA + 1 /\ UNCHANGED <<ports, lastP>>
  BY DEF Dir!AddAccount
<1>3. lastA' \in Nat /\ 1..lastA' \subseteq AccountIds /\ lastA' \in 1..lastA'
      /\ 1..lastA \subseteq 1..lastA' /\ lastA' \notin 1..lastA
  BY <1>1, <1>2, IdsAreInitial
<1> DEFINE new == [name |-> n, tier |-> t, expires |-> FALSE]
<1>4. new \in AccountRecords
  BY DEF AccountRecords
<1> HIDE DEF new
<1>5. accts' = [b \in DOMAIN accts \cup {lastA'} |-> IF b = lastA' THEN new ELSE accts[b]]
  BY DEF Dir!AddAccount, new
<1>6. DOMAIN accts' = DOMAIN accts \cup {lastA'}
  BY <1>5
<1>7. accts' \in [DOMAIN accts' -> AccountRecords]
  BY <1>1, <1>4, <1>5
<1>8. \A a \in 1..lastA : a \in DOMAIN accts' => a \in DOMAIN accts /\ accts'[a] = accts[a]
  BY <1>3, <1>5
<1>9. ports' \in [DOMAIN ports' -> PortRecords']
  BY <1>1, <1>2, <1>6 DEF PortRecords
<1>10. DirectoryInv'
  BY <1>1, <1>2, <1>3, <1>6, <1>7, <1>9 DEF DirectoryInv
<1> QED
  BY <1>2, <1>3, <1>8, <1>10 DEF IdsOnce

LEMMA AccountDeleted ==
    ASSUME DirectoryInv, NEW a, NEW d, Dir!DeleteAccount(a, d)
    PROVE  DirectoryInv' /\ IdsOnce
<1>1. /\ accts \in [DOMAIN accts -> AccountRecords]
      /\ ports \in [DOMAIN ports -> PortRecords]
  BY DEF DirectoryInv
<1>2. /\ accts' = [b \in DOMAIN accts \ {a} |-> accts[b]]
      /\ ports' = [p \in DOMAIN ports \ Dir!PortsOf(a) |-> ports[p]]
      /\ UNCHANGED <<lastA, lastP>>
  BY DEF Dir!DeleteAccount
<1>3. DOMAIN accts' = DOMAIN accts \ {a} /\ DOMAIN ports' = DOMAIN ports \ Dir!PortsOf(a)
  BY <1>2
<1>4. accts' \in [DOMAIN accts' -> AccountRecords]
  BY <1>1, <1>2
<1>5. ASSUME NEW p \in DOMAIN ports' PROVE ports'[p] \in PortRecords'
  <2>1. p \in DOMAIN ports /\ ports'[p] = ports[p] /\ ports[p].acct # a
    BY <1>2, <1>3 DEF Dir!PortsOf
  <2>2. ports[p] \in PortRecords
    BY <1>1, <2>1
  <2> QED
    BY <1>3, <2>1, <2>2 DEF PortRecords
<1>6. ports' \in [DOMAIN ports' -> PortRecords']
  BY <1>2, <1>5
<1>7. DirectoryInv'
  BY <1>2, <1>3, <1>4, <1>6 DEF DirectoryInv
<1> QED
  BY <1>2, <1>3, <1>7 DEF IdsOnce

LEMMA AccountChanged ==
    ASSUME DirectoryInv, NEW a,
           \/ \E t \in Tiers : Dir!SetTier(a, t)
           \/ \E b \in BOOLEAN : Dir!SetExpiry(a, b)
    PROVE  DirectoryInv' /\ IdsOnce
<1>1. /\ a \in DOMAIN accts
      /\ accts \in [DOMAIN accts -> AccountRecords]
      /\ ports \in [DOMAIN ports -> PortRecords]
  BY DEF DirectoryInv, Dir!SetTier, Dir!SetExpiry
<1>2. UNCHANGED <<ports, lastA, lastP>>
  BY DEF Dir!SetTier, Dir!SetExpiry
<1>3. PICK r \in AccountRecords : accts' = [accts EXCEPT ![a] = r] /\ r.name = accts[a].name
  <2>1. accts[a] \in AccountRecords
    BY <1>1
  <2>2. CASE \E t \in Tiers : Dir!SetTier(a, t)
    <3>1. PICK t \in Tiers : accts' = [accts EXCEPT ![a].tier = t]
      BY <2>2 DEF Dir!SetTier
    <3>2. [accts[a] EXCEPT !.tier = t] \in AccountRecords
      BY <2>1 DEF AccountRecords
    <3>3. [accts[a] EXCEPT !.tier = t].name = accts[a].name
      BY <2>1 DEF AccountRecords
    <3> QED
      BY <3>1, <3>2, <3>3
  <2>3. CASE \E b \in BOOLEAN : Dir!SetExpiry(a, b)
    <3>1. PICK b \in BOOLEAN : accts' = [accts EXCEPT ![a].expires = b]
      BY <2>3 DEF Dir!SetExpiry
    <3>2. [accts[a] EXCEPT !.expires = b] \in AccountRecords
      BY <2>1 DEF AccountRecords
    <3>3. [accts[a] EXCEPT !.expires = b].name = accts[a].name
      BY <2>1 DEF AccountRecords
    <3> QED
      BY <3>1, <3>2, <3>3
  <2> QED
    BY <2>2, <2>3
<1>4. DOMAIN accts' = DOMAIN accts /\ accts' \in [DOMAIN accts' -> AccountRecords]
  BY <1>1, <1>3
<1>5. \A b \in DOMAIN accts : accts'[b].name = accts[b].name
  BY <1>1, <1>3
<1>6. DirectoryInv'
  BY <1>1, <1>2, <1>4 DEF DirectoryInv, PortRecords
<1> QED
  BY <1>2, <1>4, <1>5, <1>6 DEF IdsOnce

LEMMA PortAdded ==
    ASSUME DirectoryInv, NEW a, NEW s \in Spans, Dir!AddPort(a, s),
           lastP' \in {lastP} \cup PortIds
    PROVE  DirectoryInv' /\ IdsOnce
<1>1. /\ lastP \in Nat /\ DOMAIN ports \subseteq 1..lastP /\ a \in DOMAIN accts
      /\ accts \in [DOMAIN accts -> AccountRecords]
      /\ ports \in [DOMAIN ports -> PortRecords]
  BY DEF DirectoryInv, Dir!AddPort
<1>2. lastP' = lastP + 1 /\ UNCHANGED <<accts, lastA>>
  BY DEF Dir!AddPort
<1>3. lastP' \in Nat /\ 1..lastP' \subseteq PortIds /\ lastP' \in 1..lastP'
      /\ 1..lastP \subseteq 1..lastP' /\ lastP' \notin 1..lastP
  BY <1>1, <1>2, IdsAreInitial
<1> DEFINE new == [acct |-> a, span |-> s]
<1>4. new \in PortRecords
  BY <1>1 DEF PortRecords
<1> HIDE DEF new
<1>5. ports' = [q \in DOMAIN ports \cup {lastP'} |-> IF q = lastP' THEN new ELSE ports[q]]
  BY DEF Dir!AddPort, new
<1>6. DOMAIN ports' = DOMAIN ports \cup {lastP'} /\ ports' \in [DOMAIN ports' -> PortRecords]
  BY <1>1, <1>4, <1>5
<1>7. DirectoryInv'
  BY <1>1, <1>2, <1>3, <1>6 DEF DirectoryInv, PortRecords
<1> QED
  BY <1>2, <1>3, <1>6, <1>7 DEF IdsOnce

LEMMA PortChanged ==
    ASSUME DirectoryInv, NEW p,
           \/ \E s \in Spans : Dir!EditPort(p, s)
           \/ \E a : Dir!MovePort(p, a)
           \/ Dir!DeletePort(p)
    PROVE  DirectoryInv' /\ IdsOnce
<1>1. /\ p \in DOMAIN ports
      /\ accts \in [DOMAIN accts -> AccountRecords]
      /\ ports \in [DOMAIN ports -> PortRecords]
  BY DEF DirectoryInv, Dir!EditPort, Dir!MovePort, Dir!DeletePort
<1>2. UNCHANGED <<accts, lastA, lastP>>
  BY DEF Dir!EditPort, Dir!MovePort, Dir!DeletePort
<1>3. DOMAIN ports' \subseteq DOMAIN ports /\ ports' \in [DOMAIN ports' -> PortRecords]
  <2>1. ports[p] \in PortRecords
    BY <1>1
  <2>2. CASE \E s \in Spans : Dir!EditPort(p, s)
    <3>1. PICK s \in Spans : ports' = [ports EXCEPT ![p].span = s]
      BY <2>2 DEF Dir!EditPort
    <3>2. [ports[p] EXCEPT !.span = s] \in PortRecords
      BY <2>1 DEF PortRecords
    <3> QED
      BY <1>1, <3>1, <3>2
  <2>3. CASE \E a : Dir!MovePort(p, a)
    <3>1. PICK a : a \in DOMAIN accts /\ ports' = [ports EXCEPT ![p].acct = a]
      BY <2>3 DEF Dir!MovePort
    <3>2. [ports[p] EXCEPT !.acct = a] \in PortRecords
      BY <2>1, <3>1 DEF PortRecords
    <3> QED
      BY <1>1, <3>1, <3>2
  <2>4. CASE Dir!DeletePort(p)
    BY <1>1, <2>4 DEF Dir!DeletePort
  <2> QED
    BY <2>2, <2>3, <2>4
<1>4. DirectoryInv'
  BY <1>1, <1>2, <1>3 DEF DirectoryInv, PortRecords
<1> QED
  BY <1>2, <1>3, <1>4 DEF IdsOnce

\* A call changes the directory as it should.
LEMMA Performed ==
    ASSUME DirectoryInv, NEW c, WellFormed(c), Perform(c)
    PROVE  DirectoryInv' /\ IdsOnce
<1>1. lastA' \in {lastA} \cup AccountIds /\ lastP' \in {lastP} \cup PortIds
  BY DEF Perform
<1>2. CASE c.op = "AddAccount" /\ Dir!AddAccount(c.name, c.tier)
  BY <1>1, <1>2, AccountAdded DEF WellFormed
<1>3. CASE c.op = "DeleteAccount" /\ Dir!DeleteAccount(c.acct, c.cascade)
  BY <1>3, AccountDeleted
<1>4. CASE c.op = "SetTier" /\ Dir!SetTier(c.acct, c.tier)
  BY <1>4, AccountChanged DEF WellFormed
<1>5. CASE c.op = "SetExpiry" /\ Dir!SetExpiry(c.acct, c.on)
  BY <1>5, AccountChanged DEF WellFormed
<1>6. CASE c.op = "AddPort" /\ Dir!AddPort(c.acct, c.span)
  BY <1>1, <1>6, PortAdded DEF WellFormed
<1>7. CASE c.op = "EditPort" /\ Dir!EditPort(c.port, c.span)
  BY <1>7, PortChanged DEF WellFormed
<1>8. CASE c.op = "DeletePort" /\ Dir!DeletePort(c.port)
  BY <1>8, PortChanged
<1>9. CASE c.op = "MovePort" /\ Dir!MovePort(c.port, c.acct)
  BY <1>9, PortChanged
<1>10. CASE UNCHANGED directory
  BY <1>10, NothingHappens
<1> QED
  BY <1>2, <1>3, <1>4, <1>5, <1>6, <1>7, <1>8, <1>9, <1>10 DEF Perform

LEMMA AnsweredStep ==
    ASSUME DirectoryInv, NEW c, WellFormed(c), NEW ok, Answered(c, ok)
    PROVE  DirectoryInv' /\ IdsOnce
BY Performed, NothingHappens DEF Answered

-----------------------------------------------------------------------------
(* The table.                                                              *)

TableRows ==
    {AccountRow(a) : a \in DOMAIN accts} \cup {PortRow(p) : p \in DOMAIN ports}

\* The rows of one account.
LEMMA RowsUnderAccount ==
    ASSUME DirectoryInv, NEW a \in DOMAIN accts
    PROVE  /\ RowsUnder(a) \in Seq(TableRows)
           /\ \E k \in 1..Len(RowsUnder(a)) : RowsUnder(a)[k] = AccountRow(a)
           /\ \A p \in Dir!PortsOf(a) :
                 \E k \in 1..Len(RowsUnder(a)) : RowsUnder(a)[k] = PortRow(p)
<1> DEFINE S == Dir!PortsOf(a)
           n == Cardinality(S)
           key == [p \in S |-> ports[p].span.lo]
           own == SortedBy(S, key)
           head == <<AccountRow(a)>>
           tail == [j \in 1..n |-> PortRow(own[j])]
<1>1. S \subseteq DOMAIN ports /\ IsFiniteSet(S)
  <2>1. lastP \in Nat /\ DOMAIN ports \subseteq 1..lastP
    BY DEF DirectoryInv
  <2>2. IsFiniteSet(1..lastP)
    BY <2>1, FS_Interval
  <2> QED
    BY <2>1, <2>2, FS_Subset DEF Dir!PortsOf
<1>2. \A p \in S : key[p] \in Nat
  <2>1. \A p \in S : ports[p].span \in Spans
    BY <1>1 DEF DirectoryInv, PortRecords
  <2> QED
    BY <2>1, ConsoleAssumption
<1>3. RowsUnder(a) = head \o tail
  BY DEF RowsUnder
<1> HIDE DEF S, key
<1>4. /\ n \in Nat /\ own \in [1..n -> S]
      /\ \A p \in S : \E j \in 1..n : own[j] = p
  BY <1>1, <1>2, SortedProperties DEF InOrder
<1> HIDE DEF n, own
<1>5. head \in Seq(TableRows) /\ Len(head) = 1 /\ head[1] = AccountRow(a)
  BY DEF TableRows
<1>6. tail \in Seq(TableRows) /\ Len(tail) = n /\ \A j \in 1..n : tail[j] = PortRow(own[j])
  <2>1. \A j \in 1..n : PortRow(own[j]) \in TableRows
    BY <1>1, <1>4 DEF TableRows
  <2>2. tail \in [1..n -> TableRows]
    BY <2>1
  <2> QED
    BY <1>4, <2>2
<1> HIDE DEF head, tail
<1>7. /\ head \o tail \in Seq(TableRows) /\ Len(head \o tail) = 1 + n
      /\ \A i \in 1..(1 + n) : (head \o tail)[i] = IF i <= 1 THEN head[i] ELSE tail[i - 1]
  <2>1. /\ head \o tail \in Seq(TableRows) /\ Len(head \o tail) = Len(head) + Len(tail)
        /\ \A i \in 1..Len(head) + Len(tail) :
              (head \o tail)[i] = IF i <= Len(head) THEN head[i] ELSE tail[i - Len(head)]
    BY <1>5, <1>6, ConcatProperties
  <2> QED
    BY <1>4, <1>5, <1>6, <2>1
<1>8. \E k \in 1..(1 + n) : (head \o tail)[k] = AccountRow(a)
  <2>1. 1 \in 1..(1 + n) /\ (head \o tail)[1] = head[1]
    BY <1>4, <1>7
  <2> QED
    BY <1>5, <2>1
<1>9. ASSUME NEW p \in S PROVE \E k \in 1..(1 + n) : (head \o tail)[k] = PortRow(p)
  <2>1. PICK j \in 1..n : own[j] = p
    BY <1>4
  <2>2. j + 1 \in 1..(1 + n) /\ ~(j + 1 <= 1) /\ (j + 1) - 1 = j
    BY <1>4
  <2>3. (head \o tail)[j + 1] = tail[j]
    BY <1>7, <2>2
  <2> QED
    BY <1>6, <2>1, <2>2, <2>3
<1> QED
  BY <1>3, <1>7, <1>8, <1>9 DEF S

\* A redraw shows every account and every port, and nothing else.
LEMMA ViewIsComplete ==
    ASSUME DirectoryInv
    PROVE  /\ View \in Seq(TableRows)
           /\ \A r \in TableRows : \E i \in 1..Len(View) : View[i] = r
<1> DEFINE S == DOMAIN accts
           n == Cardinality(S)
           key == [a \in S |-> a]
           ids == SortedBy(S, key)
           s == [i \in 1..n |-> RowsUnder(ids[i])]
<1>1. IsFiniteSet(S) /\ \A a \in S : key[a] \in Nat
  <2>1. lastA \in Nat /\ S \subseteq 1..lastA
    BY DEF DirectoryInv
  <2>2. IsFiniteSet(1..lastA)
    BY <2>1, FS_Interval
  <2> QED
    BY <2>1, <2>2, FS_Subset
<1>2. View = FlattenSeq(s)
  BY DEF View
<1> HIDE DEF key
<1>3. /\ n \in Nat /\ ids \in [1..n -> S]
      /\ \A a \in S : \E j \in 1..n : ids[j] = a
  BY <1>1, SortedProperties DEF InOrder
<1> HIDE DEF n, ids
<1>4. s \in [1..n -> Seq(TableRows)]
  BY <1>3, RowsUnderAccount
<1>5. \A i \in 1..n : s[i] = RowsUnder(ids[i])
  OBVIOUS
<1> HIDE DEF s
<1>6. PICK flat : /\ Grows(flat, s, n, TableRows)
                  /\ FlattenSeq(s) = flat[n]
                  /\ Laid(flat, s, n)
  BY <1>3, <1>4, FlattenProperties
<1>7. View \in Seq(TableRows)
  BY <1>2, <1>3, <1>6 DEF Grows
<1>8. ASSUME NEW i \in 1..n, NEW k \in 1..Len(s[i])
      PROVE  \E j \in 1..Len(View) : View[j] = s[i][k]
  <2> DEFINE j == Len(flat[i - 1]) + k
  <2>1. j \in 1..Len(flat[n]) /\ flat[n][j] = s[i][k]
    BY <1>6 DEF Laid
  <2>2. flat[n] = View
    BY <1>2, <1>6
  <2> HIDE DEF j
  <2> QED
    BY <2>1, <2>2
<1>9. ASSUME NEW a \in S, NEW k \in 1..Len(RowsUnder(a))
      PROVE  \E j \in 1..Len(View) : View[j] = RowsUnder(a)[k]
  BY <1>3, <1>5, <1>8
<1>10. ASSUME NEW a \in S PROVE \E j \in 1..Len(View) : View[j] = AccountRow(a)
  <2>1. PICK k \in 1..Len(RowsUnder(a)) : RowsUnder(a)[k] = AccountRow(a)
    BY RowsUnderAccount
  <2> QED
    BY <1>9, <2>1
<1>11. ASSUME NEW p \in DOMAIN ports PROVE \E j \in 1..Len(View) : View[j] = PortRow(p)
  <2>1. ports[p].acct \in S /\ p \in Dir!PortsOf(ports[p].acct)
    BY DEF DirectoryInv, PortRecords, Dir!PortsOf
  <2>2. PICK k \in 1..Len(RowsUnder(ports[p].acct)) : RowsUnder(ports[p].acct)[k] = PortRow(p)
    BY <2>1, RowsUnderAccount
  <2> QED
    BY <1>9, <2>1, <2>2
<1> QED
  BY <1>7, <1>10, <1>11 DEF TableRows

\* What a redraw shows is what there is.
LEMMA ShownIsPresent ==
    ASSUME DirectoryInv
    PROVE  /\ \A i \in DOMAIN View : Known(View[i])
           /\ \A e : RowsOf(View, e) # {} => Present(e)
           /\ \A e : Known(e) /\ Present(e) => RowsOf(View, e) # {}
           /\ View # <<>> => 1 \in DOMAIN View
<1>1. View \in Seq(TableRows) /\ \A r \in TableRows : \E i \in 1..Len(View) : View[i] = r
  BY ViewIsComplete
<1>2. DOMAIN View = 1..Len(View) /\ Len(View) \in Nat
  BY <1>1
<1>3. \A i \in DOMAIN View : View[i] \in TableRows
  BY <1>1
<1>4. \A a \in DOMAIN accts : a \in 1..lastA
  BY DEF DirectoryInv
<1>5. \A p \in DOMAIN ports : p \in 1..lastP /\ ports[p].acct \in DOMAIN accts
  BY DEF DirectoryInv, PortRecords
<1>6. \A r \in TableRows : Known(r) /\ Present(r)
  BY <1>4, <1>5 DEF TableRows, AccountRow, PortRow, Known, Present
<1>7. ASSUME NEW e, RowsOf(View, e) # {} PROVE Present(e)
  <2>1. PICK i \in DOMAIN View : Same(View[i], e)
    BY <1>7 DEF RowsOf
  <2>2. Present(View[i])
    BY <1>3, <1>6
  <2> QED
    BY <2>1, <2>2 DEF Present, Same
<1>8. ASSUME NEW e, Known(e), Present(e) PROVE RowsOf(View, e) # {}
  <2>1. PICK r \in TableRows : Same(r, e)
    <3>1. CASE e.kind = "account"
      <4>1. Same(AccountRow(e.acct), e)
        BY <1>8, <3>1 DEF AccountRow, Same, Known
      <4>2. e.acct \in DOMAIN accts
        BY <1>8, <3>1 DEF Present
      <4> QED
        BY <4>1, <4>2 DEF TableRows
    <3>2. CASE e.kind = "port"
      <4>1. Same(PortRow(e.port), e)
        BY <3>2 DEF PortRow, Same
      <4>2. e.port \in DOMAIN ports
        BY <1>8, <3>2 DEF Present
      <4> QED
        BY <4>1, <4>2 DEF TableRows
    <3> QED
      BY <1>8, <3>1, <3>2 DEF Present
  <2>2. PICK i \in 1..Len(View) : View[i] = r
    BY <1>1
  <2> QED
    BY <1>2, <2>1, <2>2 DEF RowsOf
<1>9. View # <<>> => 1 \in DOMAIN View
  <2>1. View # <<>> => Len(View) # 0
    BY <1>1
  <2> QED
    BY <1>2, <2>1
<1> QED
  BY <1>3, <1>6, <1>7, <1>8, <1>9

\* The highlight is restored to what had it, if that is shown.
LEMMA RestoredRow ==
    ASSUME NEW view, 1 \in DOMAIN view
    PROVE  /\ Restored(view) \in DOMAIN view
           /\ RowsOf(view, sel) # {} => Same(view[Restored(view)], sel)
<1>1. \A e : RowsOf(view, e) \subseteq DOMAIN view
  BY DEF RowsOf
<1>2. CASE RowsOf(view, sel) # {}
  <2>1. Restored(view) \in RowsOf(view, sel)
    BY <1>2 DEF Restored
  <2> QED
    BY <2>1 DEF RowsOf
<1>3. CASE RowsOf(view, sel) = {}
  BY <1>1, <1>3 DEF Restored
<1> QED
  BY <1>2, <1>3

LEMMA SameEntity ==
    /\ \A r, e : Same(Entity(r), e) <=> Same(r, e)
    /\ \A r, e, f : Same(r, e) /\ Same(e, f) => Same(r, f)
    /\ \A e : Same(e, e)
BY DEF Same, Entity

LEMMA KnownStays ==
    ASSUME IdsOnce, NEW e, Known(e) PROVE Known(e)'
BY DEF IdsOnce, Known

\* While the table is left alone, things may go but do not come back.
LEMMA TableStays ==
    ASSUME IdsOnce, TableInv, HighlightInv, UNCHANGED table
    PROVE  TableInv' /\ HighlightInv'
<1>1. UNCHANGED <<rows, cursor, sel, chosen>>
  BY DEF table
<1>2. TableInv'
  BY <1>1, KnownStays DEF TableInv, Known, IdsOnce
<1>3. Present(chosen)' => Present(chosen)
  <2>1. CASE chosen = Nothing
    BY <1>1, <2>1 DEF Nothing, Present
  <2>2. CASE Known(chosen)
    BY <1>1, <2>2 DEF Known, Present, IdsOnce
  <2> QED
    BY <2>1, <2>2 DEF TableInv
<1>4. RowsOf(rows, chosen)' = RowsOf(rows, chosen) /\ Same(sel, chosen)' = Same(sel, chosen)
  BY <1>1 DEF RowsOf, Same
<1> QED
  BY <1>2, <1>3, <1>4 DEF HighlightInv

LEMMA Redrawn ==
    ASSUME DirectoryInv, TableInv, HighlightInv, Redraw, UNCHANGED directory
    PROVE  TableInv' /\ HighlightInv'
<1>1. PICK view \in {View, <<>>} :
         /\ rows' = view
         /\ IF view = <<>> THEN UNCHANGED <<cursor, sel, chosen>>
            ELSE /\ cursor' = Restored(view)
                 /\ sel' = Entity(view[cursor'])
                 /\ chosen' = IF chosen = Nothing THEN sel' ELSE chosen
  BY DEF Redraw
<1>2. \A e : Known(e)' = Known(e) /\ Present(e)' = Present(e)
  BY DEF directory, Known, Present
<1>3. CASE view = <<>>
  <2>1. rows' = <<>> /\ UNCHANGED <<cursor, sel, chosen>>
    BY <1>1, <1>3
  <2>2. DOMAIN rows' = {}
    BY <2>1
  <2>3. RowsOf(rows, chosen)' = {}
    BY <2>2 DEF RowsOf
  <2>4. TableInv'
    BY <1>2, <2>1, <2>2 DEF TableInv
  <2> QED
    BY <1>2, <2>1, <2>3, <2>4 DEF HighlightInv
<1>4. CASE view # <<>>
  <2>1. /\ rows' = View /\ View # <<>>
        /\ cursor' = Restored(View) /\ sel' = Entity(View[cursor'])
        /\ chosen' = IF chosen = Nothing THEN sel' ELSE chosen
    BY <1>1, <1>4
  <2>2. 1 \in DOMAIN View /\ \A i \in DOMAIN View : Known(View[i])
    BY <2>1, ShownIsPresent
  <2>3. /\ cursor' \in DOMAIN View
        /\ RowsOf(View, sel) # {} => Same(View[cursor'], sel)
    BY <2>1, <2>2, RestoredRow
  <2>4. Known(sel')
    <3>1. Known(View[cursor'])
      BY <2>2, <2>3
    <3> QED
      BY <2>1, <3>1 DEF Known, Entity
  <2>5. chosen' = Nothing \/ Known(chosen')
    BY <2>1, <2>4 DEF TableInv
  <2>6. TableInv'
    BY <1>2, <2>1, <2>2, <2>3, <2>5 DEF TableInv
  <2>7. ASSUME Present(chosen') PROVE Same(sel', chosen')
    <3>1. CASE chosen = Nothing
      BY <2>1, <3>1, SameEntity
    <3>2. CASE chosen # Nothing
      <4>1. Known(chosen) /\ Present(chosen) /\ Same(sel, chosen)
        BY <2>1, <2>7, <3>2 DEF TableInv, HighlightInv
      <4>2. RowsOf(View, chosen) # {}
        BY <4>1, ShownIsPresent
      <4>3. RowsOf(View, sel) # {}
        <5>1. PICK i \in DOMAIN View : Same(View[i], chosen)
          BY <4>2 DEF RowsOf
        <5>2. Same(View[i], sel)
          BY <4>1, <5>1 DEF Same
        <5> QED
          BY <5>2 DEF RowsOf
      <4>4. Same(View[cursor'], sel)
        BY <2>3, <4>3
      <4> QED
        BY <2>1, <3>2, <4>1, <4>4, SameEntity
    <3> QED
      BY <3>1, <3>2
  <2>8. RowsOf(View, chosen') # {} => Present(chosen')
    BY ShownIsPresent
  <2>9. RowsOf(rows, chosen)' = RowsOf(View, chosen')
    BY <2>1 DEF RowsOf
  <2>10. Present(chosen)' = Present(chosen') /\ Same(sel, chosen)' = Same(sel', chosen')
    BY <1>2 DEF Same
  <2> QED
    BY <2>6, <2>7, <2>8, <2>9, <2>10 DEF HighlightInv
<1> QED
  BY <1>3, <1>4

LEMMA CursorMoved ==
    ASSUME TableInv, MoveCursor PROVE TableInv' /\ HighlightInv'
<1>1. /\ cursor' \in DOMAIN rows /\ sel' = Entity(rows[cursor']) /\ chosen' = sel'
      /\ UNCHANGED <<rows, directory>>
  BY DEF MoveCursor
<1>2. Known(sel')
  BY <1>1 DEF TableInv, Known, Entity
<1>3. \A e : Known(e)' = Known(e)
  BY <1>1 DEF directory, Known
<1>4. TableInv'
  BY <1>1, <1>2, <1>3 DEF TableInv
<1>5. Same(sel, chosen)'
  BY <1>1, SameEntity DEF Same
<1> QED
  BY <1>4, <1>5 DEF HighlightInv

-----------------------------------------------------------------------------
(* The inductive invariant.                                                *)

LEMMA InitEstablishes == Init => ConsoleInv
<1> SUFFICES ASSUME Init PROVE ConsoleInv
  OBVIOUS
<1>1. Stored(accts, ports)
  BY ConsoleAssumption DEF Init
<1> DEFINE n == Cardinality(DOMAIN accts)
           m == Cardinality(DOMAIN ports)
<1>2. /\ DOMAIN accts \subseteq AccountIds /\ DOMAIN accts = 1..n /\ lastA = n
      /\ DOMAIN ports \subseteq PortIds /\ DOMAIN ports = 1..m /\ lastP = m
  BY <1>1 DEF Stored, Init
<1>3. n \in Nat /\ m \in Nat
  <2>1. IsFiniteSet(DOMAIN accts) /\ IsFiniteSet(DOMAIN ports)
    BY <1>2, ConsoleAssumption, FS_Subset
  <2> QED
    BY <2>1, FS_CardinalityType
<1> HIDE DEF n, m
<1>4. DirectoryInv
  <2>1. /\ accts \in [DOMAIN accts -> AccountRecords]
        /\ ports \in [DOMAIN ports -> PortRecords]
    BY <1>1 DEF Stored, AccountRecords, PortRecords
  <2> QED
    BY <1>2, <1>3, <2>1 DEF DirectoryInv
<1>5. rows = <<>> /\ chosen = Nothing /\ box = NoBox /\ cmd = NoCommand
  BY DEF Init
<1>6. TableInv /\ HighlightInv
  BY <1>5 DEF TableInv, HighlightInv, RowsOf, Present, Nothing
<1>7. BoxInv /\ CommandInv
  BY <1>5 DEF BoxInv, CommandInv, NoBox, NoCommand
<1> QED
  BY <1>4, <1>6, <1>7 DEF ConsoleInv

\* What a command holds stays what it was.
LEMMA CommandStays ==
    ASSUME IdsOnce, CommandInv, UNCHANGED cmd PROVE CommandInv'
BY DEF IdsOnce, CommandInv

\* An account is found by its name, or by its id when nobody has that name.
LEMMA ResolvedAccount ==
    ASSUME NEW ref, NEW a \in Resolved(ref)
    PROVE  /\ a \in DOMAIN accts
           /\ accts[a].name = ref \/ (a = ref /\ Named(ref) = {})
BY DEF Resolved, Named

LEMMA LookStep ==
    ASSUME DirectoryInv, NEW op, NEW ref, Look(op, ref) PROVE CommandInv'
<1>1. UNCHANGED directory
  BY DEF Look
<1>2. CASE cmd' = Exit(NoCall, FALSE)
  BY <1>2 DEF CommandInv, Exit, NoCommand
<1>3. CASE /\ Resolved(ref) # {}
           /\ cmd' = [NoCommand EXCEPT !.pc = "looked", !.op = op, !.ref = ref,
                         !.acct = CHOOSE a \in Resolved(ref) : TRUE,
                         !.taken = Named(ref) # {}]
  <2> DEFINE a == CHOOSE a \in Resolved(ref) : TRUE
             taken == Named(ref) # {}
  <2>1. a \in Resolved(ref)
    BY <1>3
  <2> HIDE DEF a
  <2>2. a \in DOMAIN accts /\ (accts[a].name = ref \/ (a = ref /\ ~taken))
    BY <2>1, ResolvedAccount
  <2>3. cmd' = [NoCommand EXCEPT !.pc = "looked", !.op = op, !.ref = ref,
                   !.acct = a, !.taken = taken]
    BY <1>3 DEF a
  <2> HIDE DEF taken
  <2>4. /\ cmd'.pc = "looked" /\ cmd'.ref = ref /\ cmd'.acct = a
        /\ cmd'.taken = taken /\ cmd'.call = NoCall
    BY <2>3 DEF NoCommand
  <2>5. a \in 1..lastA
    BY <2>2 DEF DirectoryInv
  <2> QED
    BY <1>1, <2>2, <2>4, <2>5 DEF CommandInv, directory
<1> QED
  BY <1>2, <1>3 DEF Look

LEMMA PressStep ==
    ASSUME TableInv, NEW k \in Keys, Press(k) PROVE BoxInv'
<1>1. PICK on, count, dests :
         /\ k = "a" \/ on = Entity(rows[cursor])
         /\ \/ /\ Applies(Handler([NoBox EXCEPT !.op = k]))
               /\ box' = [op |-> k, on |-> on, count |-> count, dests |-> dests,
                          call |-> NoCall]
            \/ box' = Message(NoCall)
  BY DEF Press
<1>2. CASE box' = Message(NoCall)
  BY <1>2 DEF Message, NoBox, BoxInv
<1>3. CASE /\ Applies(Handler([NoBox EXCEPT !.op = k]))
           /\ box' = [op |-> k, on |-> on, count |-> count, dests |-> dests,
                      call |-> NoCall]
  <2>1. box'.op = k /\ box'.on = on
    BY <1>3
  <2>2. ASSUME k \in {"e", "x", "m"} PROVE on.port # 0
    <3> DEFINE b == [NoBox EXCEPT !.op = k]
    <3>1. b.op = k
      BY DEF NoBox
    <3> HIDE DEF b
    <3>2. Handler(b).rows = {"port"}
      BY <2>2, <3>1 DEF Handler, formEditPort, doDeletePort, formMovePort, ForRows
    <3>3. Applies(Handler(b))
      BY <1>3 DEF b
    <3>4. cursor \in DOMAIN rows /\ rows[cursor].kind = "port"
      BY <3>2, <3>3 DEF Applies, Highlighted
    <3>5. rows[cursor].port \in 1..lastP
      BY <3>4 DEF TableInv, Known
    <3>6. on.port = rows[cursor].port
      BY <1>1, <2>2 DEF Entity
    <3> QED
      BY <3>5, <3>6
  <2> QED
    BY <2>1, <2>2 DEF BoxInv
<1> QED
  BY <1>1, <1>2, <1>3

\* The box after each of the steps that change it for good.
LEMMA BoxKinds ==
    /\ box' = NoBox => BoxInv'
    /\ \A c : box' = Message(c) => BoxInv'
    /\ \A c : box' = Redrawing(c) => BoxInv'
    /\ \A a : box' = Given(a) => BoxInv'
<1>1. /\ NoBox.op = "none"
      /\ \A c : Message(c).op = "message" /\ Redrawing(c).op = "redraw"
      /\ \A a : Given(a).op = "adding"
  BY DEF NoBox, Message, Redrawing, Given
<1>2. box'.op \in {"none", "message", "redraw", "adding"} => BoxInv'
  BY DEF BoxInv
<1> QED
  BY <1>1, <1>2

LEMMA CommandKinds ==
    /\ cmd' = NoCommand => CommandInv'
    /\ \A c, ok : cmd' = Exit(c, ok) => CommandInv'
    /\ \A a : cmd' = [NoCommand EXCEPT !.pc = "adding", !.acct = a] => CommandInv'
<1> DEFINE Held(a) == [NoCommand EXCEPT !.pc = "adding", !.acct = a]
<1>1. /\ NoCommand.pc = "idle"
      /\ \A c, ok : Exit(c, ok).pc = "done"
      /\ \A a : Held(a).pc = "adding"
  BY DEF NoCommand, Exit
<1> HIDE DEF Held
<1>2. cmd'.pc \in {"idle", "done", "adding"} => CommandInv'
  BY DEF CommandInv
<1>3. \A a : cmd' = Held(a) => CommandInv'
  BY <1>1, <1>2
<1>4. cmd' = NoCommand => CommandInv'
  BY <1>1, <1>2
<1>5. \A c, ok : cmd' = Exit(c, ok) => CommandInv'
  BY <1>1, <1>2
<1> QED
  BY <1>3, <1>4, <1>5 DEF Held

LEMMA ConfirmStep ==
    ASSUME DirectoryInv, Confirm
    PROVE  DirectoryInv' /\ IdsOnce /\ BoxInv'
<1>1. PICK c \in Handler(box).calls, ok \in BOOLEAN, expiry \in BOOLEAN :
         /\ Answered(c, ok)
         /\ box' = IF ~ok THEN Message(c) ELSE IF ~expiry THEN Redrawing(c) ELSE Given(lastA')
  BY DEF Confirm
<1>2. WellFormed(c)
  <2>1. box.op \in Keys
    BY DEF Confirm
  <2> QED
    BY <2>1, HandlerCalls
<1>3. BoxInv'
  BY <1>1, BoxKinds
<1> QED
  BY <1>1, <1>2, <1>3, AnsweredStep

LEMMA GiveExpiryStep ==
    ASSUME DirectoryInv, GiveExpiry
    PROVE  DirectoryInv' /\ IdsOnce /\ BoxInv'
<1>1. PICK ok \in BOOLEAN, c \in SetExpiry(box.call.acct, {TRUE}) :
         /\ Answered(c, ok)
         /\ box' = IF Reported(ok) THEN Redrawing(c) ELSE Message(c)
  BY DEF GiveExpiry
<1>2. WellFormed(c)
  BY SetExpiryCalls
<1>3. BoxInv'
  BY <1>1, BoxKinds
<1> QED
  BY <1>1, <1>2, <1>3, AnsweredStep

LEMMA CommandStep ==
    ASSUME DirectoryInv, Act \/ ActOnPort \/ Add \/ AddExpiry
    PROVE  DirectoryInv' /\ IdsOnce /\ CommandInv'
<1>1. CASE Act
  <2>1. PICK c \in AccountCalls(cmd.acct), ok \in BOOLEAN : Answered(c, ok) /\ cmd' = Exit(c, ok)
    BY <1>1 DEF Act
  <2>2. WellFormed(c)
    BY AccountCallsWellFormed
  <2> QED
    BY <2>1, <2>2, AnsweredStep, CommandKinds
<1>2. CASE ActOnPort
  <2>1. PICK c \in UNION {cmdPortEdit(p) \cup cmdPortRm(p) : p \in PortIds},
             ok \in BOOLEAN : Answered(c, ok) /\ cmd' = Exit(c, ok)
    BY <1>2 DEF ActOnPort
  <2>2. WellFormed(c)
    BY <2>1, PortCalls DEF cmdPortEdit, cmdPortRm
  <2> QED
    BY <2>1, <2>2, AnsweredStep, CommandKinds
<1>3. CASE Add
  <2>1. PICK c \in AddAccount, ok \in BOOLEAN, expiry \in BOOLEAN :
           /\ Answered(c, ok)
           /\ cmd' = IF ok /\ expiry
                     THEN [NoCommand EXCEPT !.pc = "adding", !.acct = lastA']
                     ELSE Exit(c, ok)
    BY <1>3 DEF Add
  <2>2. WellFormed(c)
    BY AddAccountCalls
  <2> QED
    BY <2>1, <2>2, AnsweredStep, CommandKinds
<1>4. CASE AddExpiry
  <2>1. PICK c \in SetExpiry(cmd.acct, {TRUE}), ok \in BOOLEAN :
           Answered(c, ok) /\ cmd' = Exit(c, Reported(ok))
    BY <1>4 DEF AddExpiry
  <2>2. WellFormed(c)
    BY SetExpiryCalls
  <2> QED
    BY <2>1, <2>2, AnsweredStep, CommandKinds
<1> QED
  BY <1>1, <1>2, <1>3, <1>4

LEMMA BoxStays == ASSUME BoxInv, UNCHANGED box PROVE BoxInv'
BY DEF BoxInv

LEMMA StepPreserves == ConsoleInv /\ [Next]_vars => ConsoleInv'
<1> SUFFICES ASSUME ConsoleInv, [Next]_vars PROVE ConsoleInv'
  OBVIOUS
<1> USE DEF ConsoleInv
<1>1. CASE Others
  <2>1. UNCHANGED <<table, box, cmd>>
    BY <1>1 DEF Others
  <2>2. PICK c \in AnyCall : Perform(c)
    BY <1>1 DEF Others
  <2>3. DirectoryInv' /\ IdsOnce
    BY <2>2, AnyCallWellFormed, Performed
  <2> QED
    BY <2>1, <2>3, TableStays, BoxStays, CommandStays
<1>2. CASE Refresh
  BY <1>2, NothingHappens, Redrawn, BoxStays, CommandStays DEF Refresh
<1>3. CASE MoveCursor
  <2>1. UNCHANGED <<directory, box, cmd>>
    BY <1>3 DEF MoveCursor
  <2> QED
    BY <1>3, <2>1, NothingHappens, CursorMoved, BoxStays, CommandStays
<1>4. CASE \E k \in Keys : Press(k)
  <2>1. UNCHANGED <<directory, table, cmd>>
    BY <1>4 DEF Press
  <2> QED
    BY <1>4, <2>1, NothingHappens, TableStays, PressStep, CommandStays
<1>5. CASE Close
  BY <1>5, NothingHappens, TableStays, BoxKinds, CommandStays DEF Close
<1>6. CASE Confirm
  <2>1. UNCHANGED <<table, cmd>>
    BY <1>6 DEF Confirm
  <2> QED
    BY <1>6, <2>1, ConfirmStep, TableStays, CommandStays
<1>7. CASE GiveExpiry
  <2>1. UNCHANGED <<table, cmd>>
    BY <1>7 DEF GiveExpiry
  <2> QED
    BY <1>7, <2>1, GiveExpiryStep, TableStays, CommandStays
<1>8. CASE Finish
  BY <1>8, NothingHappens, Redrawn, BoxKinds, CommandStays DEF Finish
<1>9. CASE \E op \in Ops, ref \in AccountIds \cup Names : Look(op, ref)
  <2>1. UNCHANGED <<directory, table, box>>
    BY <1>9 DEF Look
  <2> QED
    BY <1>9, <2>1, NothingHappens, TableStays, BoxStays, LookStep
<1>10. CASE Act \/ ActOnPort \/ Add \/ AddExpiry
  <2>1. UNCHANGED <<table, box>>
    BY <1>10 DEF Act, ActOnPort, Add, AddExpiry
  <2> QED
    BY <1>10, <2>1, CommandStep, TableStays, BoxStays
<1>11. CASE Leave
  BY <1>11, NothingHappens, TableStays, BoxStays, CommandKinds DEF Leave
<1>12. CASE UNCHANGED vars
  BY <1>12, NothingHappens, TableStays, BoxStays, CommandStays DEF vars
<1> QED
  BY <1>1, <1>2, <1>3, <1>4, <1>5, <1>6, <1>7, <1>8, <1>9, <1>10, <1>11, <1>12 DEF Next

LEMMA Invariant == Spec => []ConsoleInv
<1> QED
  BY InitEstablishes, StepPreserves, PTL DEF Spec

-----------------------------------------------------------------------------
(* What the front ends promise.                                            *)

\* Rows, cursor, dialogs and commands are of known kinds, and no row has an
\* id that was not given out (tui.go, render; commands.go).
THEOREM TypeTheorem == Spec => []TypeOK
<1>1. ConsoleInv => TypeOK
  <2> SUFFICES ASSUME ConsoleInv PROVE TypeOK
    OBVIOUS
  <2>1. DirectoryInv /\ TableInv /\ BoxInv /\ CommandInv
    BY DEF ConsoleInv
  <2>2. \A i \in DOMAIN rows : rows[i].acct \in 1..lastA /\ rows[i].port \in 0..lastP
    BY <2>1 DEF TableInv, Known, DirectoryInv
  <2> QED
    BY <2>1, <2>2 DEF TypeOK, DirectoryInv, TableInv, BoxInv, CommandInv, Highlighted
<1> QED
  BY <1>1, Invariant, PTL

\* For any directory and whatever others do to it, the highlight stays on
\* what the user put it on while that is shown (tui.go, restoreSelection).
THEOREM SelectionTheorem == Spec => []SelectionStays
<1>1. ConsoleInv => SelectionStays
  <2> SUFFICES ASSUME ConsoleInv, rows # <<>>, RowsOf(rows, chosen) # {}
               PROVE  Same(rows[cursor], chosen)
    BY DEF SelectionStays
  <2>1. sel = Entity(rows[cursor]) /\ Same(sel, chosen)
    BY DEF ConsoleInv, TableInv, HighlightInv
  <2> QED
    BY <2>1, SameEntity
<1> QED
  BY <1>1, Invariant, PTL

\* Only confirming a dialog closes it with a call.
LEMMA OnlyConfirmCalls ==
    ASSUME [Next]_vars, box.op \in Keys, box' # box, box'.call # NoCall \/ ports' # ports
    PROVE  Confirm
<1>1. box # NoBox /\ box.op \notin {"adding", "redraw"}
  BY DEF NoBox, Keys
<1>2. NoBox.call = NoCall
  BY DEF NoBox
<1>3. ~Refresh /\ ~MoveCursor /\ ~GiveExpiry /\ ~Finish /\ ~ \E k \in Keys : Press(k)
  BY <1>1 DEF Refresh, MoveCursor, GiveExpiry, Finish, Press
<1>4. ~Others /\ ~Act /\ ~ActOnPort /\ ~Add /\ ~AddExpiry /\ ~Leave
  BY DEF Others, Act, ActOnPort, Add, AddExpiry, Leave
<1>5. ~ \E op \in Ops, ref \in AccountIds \cup Names : Look(op, ref)
  BY DEF Look
<1>6. ~Close
  BY <1>2 DEF Close, directory
<1>7. ~UNCHANGED vars
  BY DEF vars
<1> QED
  BY <1>3, <1>4, <1>5, <1>6, <1>7 DEF Next

\* However the table was redrawn while the dialog was open, confirming it
\* acts on what the dialog named (tui.go, the captured row).
THEOREM ShownTheorem == Spec => ActsOnShown
<1>1. ConsoleInv /\ [Next]_vars =>
         [(box.op \in Keys \ {"a"} /\ box' # box /\ box'.call # NoCall) =>
            /\ box'.call.port # 0 => box'.call.port = box.on.port
            /\ box'.call.port = 0 => box'.call.acct = box.on.acct]_vars
  <2> SUFFICES ASSUME ConsoleInv, [Next]_vars, box.op \in Keys \ {"a"}, box' # box,
                      box'.call # NoCall
               PROVE  /\ box'.call.port # 0 => box'.call.port = box.on.port
                      /\ box'.call.port = 0 => box'.call.acct = box.on.acct
    OBVIOUS
  <2>1. Confirm
    BY OnlyConfirmCalls
  <2>2. PICK c \in Handler(box).calls, ok \in BOOLEAN, expiry \in BOOLEAN :
           /\ expiry => box.op = "a"
           /\ box' = IF ~ok THEN Message(c) ELSE IF ~expiry THEN Redrawing(c)
                     ELSE Given(lastA')
    BY <2>1 DEF Confirm
  <2>3. box' = Message(c) \/ box' = Redrawing(c)
    BY <2>2
  <2>4. box'.call = c
    BY <2>3 DEF Message, Redrawing, NoBox
  <2>5. ForShown(c, box)
    BY HandlerCalls
  <2>6. box.op \in {"e", "x", "m"} => box.on.port # 0
    BY DEF ConsoleInv, BoxInv
  <2> QED
    BY <2>4, <2>5, <2>6 DEF ForShown
<1> QED
  BY <1>1, Invariant, PTL DEF Spec, ActsOnShown

\* A deletion confirmed under a prompt that named no ports removes none,
\* whatever was added meanwhile (tui.go, doDeleteAccount).
THEOREM CascadeTheorem == Spec => NoHiddenCascade
<1>1. ConsoleInv /\ [Next]_vars =>
         [(box.op = "d" /\ box' # box /\ ports' # ports) => box.count > 0]_vars
  <2> SUFFICES ASSUME ConsoleInv, [Next]_vars, box.op = "d", box' # box, ports' # ports,
                      ~(box.count > 0)
               PROVE  FALSE
    OBVIOUS
  <2>1. box.op \in Keys
    BY DEF Keys
  <2>2. Confirm
    BY <2>1, OnlyConfirmCalls
  <2>3. PICK c \in Handler(box).calls, ok \in BOOLEAN : Answered(c, ok)
    BY <2>2 DEF Confirm
  <2>4. c.op = "DeleteAccount" /\ c.cascade = (box.count > 0)
    BY <2>1, HandlerCalls
  <2>5. Dir!DeleteAccount(c.acct, c.cascade)
    BY <2>3, <2>4 DEF Answered, Perform, directory
  <2>6. ~c.cascade
    BY <2>4, Zenon
  <2>7. ports' = [p \in DOMAIN ports \ {} |-> ports[p]]
    BY <2>5, <2>6 DEF Dir!DeleteAccount
  <2>8. ports' = ports
    BY <2>7 DEF ConsoleInv, DirectoryInv
  <2> QED
    BY <2>8
<1> QED
  BY <1>1, Invariant, PTL DEF Spec, NoHiddenCascade

\* Between the look-up and the call the account may go but its id and name
\* never come to mean another (commands.go, resolveAccount).
THEOREM NamedTheorem == Spec => CommandHitsWhatWasNamed
<1>1. ConsoleInv /\ [Next]_vars =>
         [(cmd.pc = "looked" /\ cmd'.call # NoCall) =>
            LET a == cmd'.call.acct IN
            a \in DOMAIN accts =>
                accts[a].name = cmd.ref \/ (a = cmd.ref /\ ~cmd.taken)]_vars
  <2> SUFFICES ASSUME ConsoleInv, [Next]_vars, cmd.pc = "looked", cmd'.call # NoCall,
                      cmd'.call.acct \in DOMAIN accts
               PROVE  \/ accts[cmd'.call.acct].name = cmd.ref
                      \/ cmd'.call.acct = cmd.ref /\ ~cmd.taken
    OBVIOUS
  <2>1. /\ cmd.call = NoCall
        /\ cmd.acct \in DOMAIN accts =>
              accts[cmd.acct].name = cmd.ref \/ (cmd.acct = cmd.ref /\ ~cmd.taken)
    BY DEF ConsoleInv, CommandInv
  <2>2. cmd # NoCommand /\ NoCommand.call = NoCall /\ cmd' # cmd
    BY <2>1 DEF NoCommand
  <2>3. Act
    <3>1. ~ActOnPort /\ ~Add /\ ~AddExpiry /\ ~Leave
      BY <2>2 DEF ActOnPort, Add, AddExpiry, Leave
    <3>2. ~ \E op \in Ops, ref \in AccountIds \cup Names : Look(op, ref)
      BY <2>2 DEF Look
    <3>3. ~Others /\ ~Refresh /\ ~MoveCursor /\ ~Close /\ ~Confirm /\ ~GiveExpiry /\ ~Finish
      BY <2>2 DEF Others, Refresh, MoveCursor, Close, Confirm, GiveExpiry, Finish
    <3>4. ~UNCHANGED vars /\ ~ \E k \in Keys : Press(k)
      BY <2>2 DEF vars, Press
    <3> QED
      BY <3>1, <3>2, <3>3, <3>4 DEF Next
  <2>4. PICK c \in AccountCalls(cmd.acct), ok \in BOOLEAN : cmd' = Exit(c, ok)
    BY <2>3 DEF Act
  <2>5. cmd'.call = c
    BY <2>4 DEF Exit, NoCommand
  <2>6. c.acct = cmd.acct
    BY AccountCallsWellFormed
  <2> QED
    BY <2>1, <2>5, <2>6
<1> QED
  BY <1>1, Invariant, PTL DEF Spec, CommandHitsWhatWasNamed

\* The second call gives the expiry, or the account was gone before it.
LEMMA ExpiryGiven ==
    ASSUME DirectoryInv, NEW a, NEW c \in SetExpiry(a, {TRUE}), Answered(c, TRUE),
           a \in DOMAIN accts'
    PROVE  accts'[a].expires
<1>1. c.op = "SetExpiry" /\ c.acct = a /\ c.port = 0 /\ c.on = TRUE
  BY DEF SetExpiry
<1>2. CASE Perform(c)
  <2>1. Dir!SetExpiry(a, TRUE)
    BY <1>1, <1>2 DEF Perform
  <2>2. a \in DOMAIN accts /\ accts' = [accts EXCEPT ![a].expires = TRUE]
    BY <2>1 DEF Dir!SetExpiry
  <2>3. accts[a] \in AccountRecords
    BY <2>2 DEF DirectoryInv
  <2>4. accts'[a] = [accts[a] EXCEPT !.expires = TRUE]
    BY <2>2
  <2> QED
    BY <2>3, <2>4 DEF AccountRecords
<1>3. CASE Gone(c) /\ UNCHANGED directory
  BY <1>1, <1>3 DEF Gone, directory
<1> QED
  BY <1>2, <1>3 DEF Answered

\* Both front ends look at the answer to the second call as well (tui.go,
\* formAddAccount; commands.go, cmdAdd).
THEOREM WholeTheorem == Spec => SuccessIsWhole
<1> DEFINE HasIt(a) == a \in DOMAIN accts' => accts'[a].expires
<1>1. ASSUME ConsoleInv, [Next]_vars, box.op = "adding", box'.op = "redraw"
      PROVE  HasIt(box.call.acct)
  <2>1. GiveExpiry
    <3>1. box # NoBox /\ box' # NoBox /\ box' # box /\ box.op \notin Keys
      BY <1>1 DEF NoBox, Keys
    <3>2. ~Refresh /\ ~MoveCursor /\ ~Close /\ ~Confirm /\ ~Finish
      BY <3>1 DEF Refresh, MoveCursor, Close, Confirm, Finish
    <3>3. ~Others /\ ~Act /\ ~ActOnPort /\ ~Add /\ ~AddExpiry /\ ~Leave
      BY <3>1 DEF Others, Act, ActOnPort, Add, AddExpiry, Leave
    <3>4. /\ ~ \E k \in Keys : Press(k)
          /\ ~ \E op \in Ops, ref \in AccountIds \cup Names : Look(op, ref)
          /\ ~UNCHANGED vars
      BY <3>1 DEF Press, Look, vars
    <3> QED
      BY <1>1, <3>2, <3>3, <3>4 DEF Next
  <2>2. PICK ok \in BOOLEAN, c \in SetExpiry(box.call.acct, {TRUE}) :
           Answered(c, ok) /\ box' = IF Reported(ok) THEN Redrawing(c) ELSE Message(c)
    BY <2>1 DEF GiveExpiry
  <2>3. Message(c).op = "message"
    BY DEF Message, NoBox
  <2>4. ok
    BY <1>1, <2>2, <2>3 DEF Reported
  <2> QED
    BY <1>1, <2>2, <2>4, ExpiryGiven DEF ConsoleInv
<1>2. ASSUME ConsoleInv, [Next]_vars, cmd.pc = "adding", cmd'.pc = "done", cmd'.exit = 0
      PROVE  HasIt(cmd.acct)
  <2>1. AddExpiry
    <3>1. cmd # NoCommand /\ cmd' # NoCommand /\ cmd' # cmd
      BY <1>2 DEF NoCommand
    <3>2. ~Act /\ ~ActOnPort /\ ~Add /\ ~Leave
      BY <1>2, <3>1 DEF Act, ActOnPort, Add, Leave
    <3>3. ~Others /\ ~Refresh /\ ~MoveCursor /\ ~Close /\ ~Confirm /\ ~GiveExpiry /\ ~Finish
      BY <3>1 DEF Others, Refresh, MoveCursor, Close, Confirm, GiveExpiry, Finish
    <3>4. /\ ~ \E k \in Keys : Press(k)
          /\ ~ \E op \in Ops, ref \in AccountIds \cup Names : Look(op, ref)
          /\ ~UNCHANGED vars
      BY <3>1 DEF Press, Look, vars
    <3> QED
      BY <1>2, <3>2, <3>3, <3>4 DEF Next
  <2>2. PICK c \in SetExpiry(cmd.acct, {TRUE}), ok \in BOOLEAN :
           Answered(c, ok) /\ cmd' = Exit(c, Reported(ok))
    BY <2>1 DEF AddExpiry
  <2>3. ok
    BY <1>2, <2>2 DEF Exit, NoCommand, Reported
  <2> QED
    BY <1>2, <2>2, <2>3, ExpiryGiven DEF ConsoleInv
<1>3. ConsoleInv /\ [Next]_vars =>
         [/\ box.op = "adding" /\ box'.op = "redraw" => HasIt(box.call.acct)
          /\ cmd.pc = "adding" /\ cmd'.pc = "done" /\ cmd'.exit = 0 => HasIt(cmd.acct)]_vars
  BY <1>1, <1>2
<1> QED
  BY <1>3, Invariant, PTL DEF Spec, SuccessIsWhole

=============================================================================

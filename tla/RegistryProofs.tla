--------------------------- MODULE RegistryProofs ---------------------------
(***************************************************************************)
(* For any clients, names and bounds: the rows of Registry go through the  *)
(* states of Directory, the kernel follows them, and ids from stale views  *)
(* do no harm.                                                             *)
(***************************************************************************)
EXTENDS Registry, TLAPS

Named == {"DeleteAccount", "SetTier", "SetExpiry", "AddPort", "MovePort"}

\* between two critical sections the copy and the kernel have the rows, or it
\* is known that they have not
Synced ==
    /\ up /\ ~behind => snap = db
    /\ up /\ ~behind /\ ~unsynced => kern = db

OwnersExist == \A p \in DOMAIN db.ports : db.ports[p].acct \in DOMAIN db.accts

\* an id means the account it meant when it was given out
SameNames ==
    \A a \in DOMAIN snap.accts \cap DOMAIN db.accts :
        snap.accts[a].name = db.accts[a].name

SeenNames ==
    \A c \in Clients :
        LET r == client[c].req IN
        r.op \in Named =>
            /\ r.acct <= seq.acct
            /\ r.acct \in DOMAIN db.accts => db.accts[r.acct].name = r.name

\* what was replayed once does not come back
BrokenOnce == \A c \in Clients : client[c].pc = "broken" => client[c].tries = 1

Inv ==
    /\ TypeOK
    /\ BrokenOnce
    /\ Synced
    /\ Valid(kern)
    /\ OwnersExist
    /\ SameNames
    /\ SeenNames

-----------------------------------------------------------------------------
(* Requests and the statements they turn into.                             *)

\* What a client may ask for has its type, and names an account it sees.
LEMMA RequestsTyped ==
  ASSUME TypeOK, NEW r \in Requests
  PROVE  /\ r \in RequestType
         /\ r.op \in Named => r.acct \in DOMAIN snap.accts
                              /\ r.name = snap.accts[r.acct].name
<1>1. CASE r \in [op: {"AddAccount"}, name: Names, tier: Tiers]
  BY <1>1 DEF RequestType, Named
<1>2. ASSUME NEW a \in DOMAIN snap.accts, r \in OfAccount(a)
      PROVE  /\ r \in RequestType
             /\ r.op \in Named => r.acct \in DOMAIN snap.accts
                                  /\ r.name = snap.accts[r.acct].name
  <2>1. a \in Nat /\ snap.accts[a].name \in Names
    BY DEF TypeOK, IsRows
  <2>2. DOMAIN snap.ports \subseteq Nat
    BY DEF TypeOK, IsRows
  <2> QED
    BY <1>2, <2>1, <2>2 DEF OfAccount, RequestType, Named
<1>3. ASSUME NEW p \in DOMAIN snap.ports, r \in OfPort(p)
      PROVE  /\ r \in RequestType
             /\ r.op \in Named => r.acct \in DOMAIN snap.accts
                                  /\ r.name = snap.accts[r.acct].name
  <2>1. p \in Nat
    BY DEF TypeOK, IsRows
  <2> QED
    BY <1>3, <2>1 DEF OfPort, RequestType, Named
<1>4. \/ r \in [op: {"AddAccount"}, name: Names, tier: Tiers]
      \/ \E a \in DOMAIN snap.accts : r \in OfAccount(a)
      \/ \E p \in DOMAIN snap.ports : r \in OfPort(p)
  <2> DEFINE New == [op: {"AddAccount"}, name: Names, tier: Tiers]
             Acct == UNION {OfAccount(a) : a \in DOMAIN snap.accts}
             Port == UNION {OfPort(p) : p \in DOMAIN snap.ports}
  <2>1. r \in New \cup (Acct \cup Port)
    BY Zenon DEF Requests
  <2>2. r \in Acct => \E a \in DOMAIN snap.accts : r \in OfAccount(a)
    BY Zenon
  <2>3. r \in Port => \E p \in DOMAIN snap.ports : r \in OfPort(p)
    BY Zenon
  <2> HIDE DEF New, Acct, Port
  <2> QED
    BY <2>1, <2>2, <2>3 DEF New
<1> QED
  BY <1>1, <1>2, <1>3, <1>4

\* the type of the fields a request has
LEMMA FieldsTyped ==
  ASSUME NEW r \in RequestType
  PROVE  /\ r.op \in {"none"} \cup AllCalls
         /\ r.op = "AddAccount" => r.name \in Names /\ r.tier \in Tiers
         /\ r.op \in Named => r.acct \in Nat
         /\ r.op = "SetTier" => r.tier \in Tiers
         /\ r.op = "SetExpiry" => r.on \in BOOLEAN
         /\ r.op \in {"AddPort", "EditPort"} => r.span \in Spans
         /\ r.op \in {"EditPort", "DeletePort", "MovePort"} => r.port \in Nat
  BY DEF RequestType, AllCalls, Named

Counters == [acct: Nat, port: Nat]

LEMMA RowsGrow ==
  ASSUME NEW st, NEW s \in Counters, NEW t \in Counters, IsRows(st, s),
         s.acct <= t.acct, s.port <= t.port
  PROVE  IsRows(st, t)
<1>1. 1..s.acct \subseteq 1..t.acct /\ 1..s.port \subseteq 1..t.port
  BY DEF Counters
<1> QED
  BY <1>1 DEF IsRows

\* Every statement leaves rows of their types, and ids that were given out.
LEMMA StatementTyped ==
  ASSUME TypeOK, NEW r \in RequestType, Allowed(r), Statement(r)
  PROVE  /\ seq' \in Counters
         /\ seq.acct <= seq'.acct /\ seq.port <= seq'.port
         /\ IsRows(db', seq')
<1> DEFINE A == [name: Names, tier: Tiers, expires: BOOLEAN]
           P == [acct: 1..seq.acct, span: Spans]
<1>1. seq \in Counters /\ IsRows(db, seq)
  BY DEF TypeOK, Counters
<1>a. db.accts \in [DOMAIN db.accts -> A] /\ db.ports \in [DOMAIN db.ports -> P]
  BY <1>1 DEF IsRows
<1>2. CASE CreateAccount(r)
  <2>1. /\ seq'.acct = seq.acct + 1 /\ seq'.port = seq.port /\ seq' \in Counters
        /\ DOMAIN db' = {"accts", "ports"}
        /\ db'.accts = With(db.accts, seq'.acct, [name |-> r.name, tier |-> r.tier, expires |-> FALSE])
        /\ db'.ports = db.ports
    BY <1>1, <1>2 DEF CreateAccount, Counters, IsRows
  <2>2. [name |-> r.name, tier |-> r.tier, expires |-> FALSE] \in A
    BY <1>2, FieldsTyped DEF CreateAccount
  <2>3. /\ DOMAIN db'.accts = DOMAIN db.accts \cup {seq'.acct}
        /\ db'.accts \in [DOMAIN db'.accts -> A]
    <3> HIDE DEF A, P
    <3> QED BY <1>a, <2>1, <2>2 DEF With
  <2>4. /\ DOMAIN db.accts \subseteq 1..seq'.acct /\ seq'.acct \in 1..seq'.acct
        /\ 1..seq.acct \subseteq 1..seq'.acct
    BY <1>1, <2>1 DEF IsRows, Counters
  <2>5. IsRows(db', seq')
    BY <1>1, <2>1, <2>3, <2>4 DEF IsRows
  <2> QED
    BY <1>1, <2>1, <2>5 DEF Counters
<1>3. CASE DeleteAccount(r)
  <2>1. /\ DOMAIN db' = {"accts", "ports"}
        /\ db'.accts = Without(db.accts, {r.acct})
        /\ db'.ports = Without(db.ports, PortsFor(db, r.acct))
        /\ seq' = seq
    BY <1>3 DEF DeleteAccount
  <2>2. /\ DOMAIN db'.accts \subseteq DOMAIN db.accts
        /\ db'.accts \in [DOMAIN db'.accts -> A]
        /\ DOMAIN db'.ports \subseteq DOMAIN db.ports
        /\ db'.ports \in [DOMAIN db'.ports -> P]
    <3> HIDE DEF A, P
    <3> QED BY <1>a, <2>1 DEF Without
  <2>3. IsRows(db', seq)
    BY <1>1, <2>1, <2>2 DEF IsRows
  <2> QED
    BY <1>1, <2>1, <2>3 DEF Counters
<1>4. CASE SetTier(r)
  BY <1>1, <1>4, FieldsTyped DEF SetTier, IsRows, Counters
<1>5. CASE SetExpiry(r)
  BY <1>1, <1>5, FieldsTyped DEF SetExpiry, IsRows, Counters
<1>6. CASE CreatePort(r)
  <2>1. /\ seq'.port = seq.port + 1 /\ seq'.acct = seq.acct /\ seq' \in Counters
        /\ DOMAIN db' = {"accts", "ports"}
        /\ db'.ports = With(db.ports, seq'.port, [acct |-> r.acct, span |-> r.span])
        /\ db'.accts = db.accts
    BY <1>1, <1>6 DEF CreatePort, Counters, IsRows
  <2>2. [acct |-> r.acct, span |-> r.span] \in P
    BY <1>1, <1>6, FieldsTyped DEF CreatePort, Allowed, IsRows
  <2>3. /\ DOMAIN db'.ports = DOMAIN db.ports \cup {seq'.port}
        /\ db'.ports \in [DOMAIN db'.ports -> P]
    <3> HIDE DEF A, P
    <3> QED BY <1>a, <2>1, <2>2 DEF With
  <2>4. DOMAIN db.ports \subseteq 1..seq'.port /\ seq'.port \in 1..seq'.port
    BY <1>1, <2>1 DEF IsRows, Counters
  <2>5. IsRows(db', seq')
    BY <1>1, <2>1, <2>3, <2>4 DEF IsRows
  <2> QED
    BY <1>1, <2>1, <2>5 DEF Counters
<1>7. CASE EditPort(r)
  BY <1>1, <1>7, FieldsTyped DEF EditPort, IsRows, Counters
<1>8. CASE DeletePort(r)
  <2>1. /\ DOMAIN db' = {"accts", "ports"} /\ db'.accts = db.accts
        /\ db'.ports = Without(db.ports, {r.port})
        /\ seq' = seq
    BY <1>1, <1>8 DEF DeletePort, IsRows
  <2>2. /\ DOMAIN db'.ports \subseteq DOMAIN db.ports
        /\ db'.ports \in [DOMAIN db'.ports -> P]
    <3> HIDE DEF A, P
    <3> QED BY <1>a, <2>1 DEF Without
  <2>3. IsRows(db', seq)
    BY <1>1, <2>1, <2>2 DEF IsRows
  <2> QED
    BY <1>1, <2>1, <2>3 DEF Counters
<1>9. CASE MovePort(r)
  BY <1>1, <1>9, FieldsTyped DEF MovePort, Allowed, IsRows, Counters
<1> QED
  BY <1>2, <1>3, <1>4, <1>5, <1>6, <1>7, <1>8, <1>9 DEF Statement

\* A statement changes no name, a new account has a new id, and no port stays
\* behind without an owner.
LEMMA StatementKeeps ==
  ASSUME TypeOK, OwnersExist, NEW r \in RequestType, Allowed(r), Statement(r)
  PROVE  /\ OwnersExist'
         /\ \A a \in DOMAIN db'.accts :
               \/ a \in DOMAIN db.accts /\ db'.accts[a].name = db.accts[a].name
               \/ a > seq.acct
<1>1. seq \in Counters /\ IsRows(db, seq)
  BY DEF TypeOK, Counters
<1> USE <1>1 DEF IsRows, OwnersExist, Counters
<1>2. CASE CreateAccount(r) BY <1>2 DEF CreateAccount, With
<1>3. CASE DeleteAccount(r) BY <1>3 DEF DeleteAccount, Without, PortsFor
<1>4. CASE SetTier(r)       BY <1>4 DEF SetTier
<1>5. CASE SetExpiry(r)     BY <1>5 DEF SetExpiry
<1>6. CASE CreatePort(r)    BY <1>6 DEF CreatePort, With, Allowed
<1>7. CASE EditPort(r)      BY <1>7 DEF EditPort
<1>8. CASE DeletePort(r)    BY <1>8 DEF DeletePort, Without
<1>9. CASE MovePort(r)      BY <1>9 DEF MovePort, Allowed
<1> QED
  BY <1>2, <1>3, <1>4, <1>5, <1>6, <1>7, <1>8, <1>9 DEF Statement

-----------------------------------------------------------------------------
(* The steps, by what they change.                                         *)

\* steps of clients and calls that come to nothing
Idle(c) ==
    \/ MoveChecked(c) \/ MoveRefused(c) \/ Reply(c) \/ Replay(c) \/ GiveUp(c)
    \/ Refused(c)

\* calls whose statement is committed
Writes(c) == Applied(c) \/ ApplyFails(c) \/ LoadFails(c) \/ DiesInside(c)

Daemon == Sync \/ Start \/ StartFails \/ Crash

LEMMA NextSplits ==
  Next <=> (\E c \in Clients : Ask(c) \/ Idle(c) \/ Writes(c)) \/ Daemon
  BY DEF Next, Idle, Writes, Daemon

\* Nobody changes what a call asks for.
RequestsStay ==
    \A d \in Clients : client'[d].req = client[d].req \/ client'[d].req = NoCall.req

CallsKept ==
    /\ client' \in [Clients -> CallType]
    /\ BrokenOnce'

LEMMA NoCallTyped == NoCall \in CallType
  BY DEF NoCall, CallType, RequestType

LEMMA DisconnectedTyped ==
  ASSUME TypeOK, BrokenOnce
  PROVE  /\ Disconnected \in [Clients -> CallType]
         /\ \A d \in Clients :
               /\ Disconnected[d].pc = "broken" => Disconnected[d].tries = 1
               /\ \/ Disconnected[d].req = client[d].req
                  \/ Disconnected[d].req = NoCall.req
<1>1. ASSUME NEW d \in Clients
      PROVE  /\ Disconnected[d] \in CallType
             /\ Disconnected[d].pc = "broken" => Disconnected[d].tries = 1
             /\ \/ Disconnected[d].req = client[d].req
                \/ Disconnected[d].req = NoCall.req
  <2>1. client[d] \in CallType /\ (client[d].pc = "broken" => client[d].tries = 1)
    BY DEF TypeOK, BrokenOnce
  <2>2. CASE client[d].pc \in {"idle", "broken"}
    BY <2>1, <2>2 DEF Disconnected
  <2>3. CASE client[d].pc \notin {"idle", "broken"} /\ client[d].tries = 1
    BY <2>1, <2>3 DEF Disconnected, CallType
  <2>4. CASE client[d].pc \notin {"idle", "broken"} /\ client[d].tries # 1
    BY <2>4, NoCallTyped DEF Disconnected, NoCall
  <2> QED
    BY <2>2, <2>3, <2>4
<1> QED
  BY <1>1 DEF Disconnected

LEMMA IdleKeeps ==
  ASSUME TypeOK, BrokenOnce, NEW c \in Clients, Idle(c)
  PROVE  /\ CallsKept /\ RequestsStay
         /\ UNCHANGED <<up, db, seq, snap, kern, unsynced, behind>>
<1>1. client \in [Clients -> CallType]
  BY DEF TypeOK
<1> USE <1>1, NoCallTyped DEF CallsKept, RequestsStay, BrokenOnce, CallType
<1>2. CASE MoveChecked(c) BY <1>2 DEF MoveChecked
<1>3. CASE MoveRefused(c) BY <1>3 DEF MoveRefused, Finish
<1>4. CASE Reply(c)       BY <1>4 DEF Reply, NoCall
<1>5. CASE Replay(c)      BY <1>5 DEF Replay
<1>6. CASE GiveUp(c)      BY <1>6 DEF GiveUp, NoCall
<1>7. CASE Refused(c)     BY <1>7 DEF Refused, Finish
<1> QED
  BY <1>2, <1>3, <1>4, <1>5, <1>6, <1>7 DEF Idle

LEMMA AskKeeps ==
  ASSUME TypeOK, BrokenOnce, NEW c \in Clients, Ask(c)
  PROVE  /\ CallsKept
         /\ \A d \in Clients : d # c => client'[d] = client[d]
         /\ client'[c].req \in Requests
         /\ UNCHANGED <<up, db, seq, snap, kern, unsynced, behind>>
<1>1. client \in [Clients -> CallType]
  BY DEF TypeOK
<1>2. PICK r \in Requests : client' = [client EXCEPT ![c] = Sent(r)]
  BY DEF Ask
<1>3. r \in RequestType
  BY RequestsTyped
<1>4. Sent(r) \in CallType /\ Sent(r).req = r /\ Sent(r).pc = "sent"
  BY <1>3 DEF CallType, Sent
<1> QED
  BY <1>1, <1>2, <1>4 DEF Ask, CallsKept, BrokenOnce

LEMMA WritesKeep ==
  ASSUME TypeOK, BrokenOnce, NEW c \in Clients, Writes(c)
  PROVE  CallsKept /\ RequestsStay
<1>1. client \in [Clients -> CallType]
  BY DEF TypeOK
<1> USE <1>1 DEF CallsKept, RequestsStay, BrokenOnce, CallType
<1>2. CASE Applied(c)    BY <1>2 DEF Applied, Finish
<1>3. CASE ApplyFails(c) BY <1>3 DEF ApplyFails
<1>4. CASE LoadFails(c)  BY <1>4 DEF LoadFails
<1>5. CASE DiesInside(c)
  <2> DEFINE made == client[c].tries = 1
  <2>1. made \in BOOLEAN
    OBVIOUS
  <2>2. client' = [Disconnected EXCEPT ![c].made = made]
    BY <1>5 DEF DiesInside
  <2>3. /\ Disconnected \in [Clients -> CallType]
        /\ \A d \in Clients :
               /\ Disconnected[d].pc = "broken" => Disconnected[d].tries = 1
               /\ \/ Disconnected[d].req = client[d].req
                  \/ Disconnected[d].req = NoCall.req
    BY DisconnectedTyped
  <2> HIDE DEF made, NoCall
  <2>4. client' \in [Clients -> CallType]
    BY <2>1, <2>2, <2>3
  <2>5. \A d \in Clients : /\ client'[d].pc = Disconnected[d].pc
                           /\ client'[d].tries = Disconnected[d].tries
                           /\ client'[d].req = Disconnected[d].req
    BY <2>2, <2>3
  <2> QED
    BY <2>3, <2>4, <2>5
<1> QED
  BY <1>2, <1>3, <1>4, <1>5 DEF Writes

LEMMA DaemonKeeps ==
  ASSUME TypeOK, BrokenOnce, Daemon
  PROVE  CallsKept /\ RequestsStay /\ UNCHANGED <<db, seq>>
<1>1. client \in [Clients -> CallType]
  BY DEF TypeOK
<1>2. CASE Crash
  BY <1>2, DisconnectedTyped DEF Crash, CallsKept, RequestsStay, BrokenOnce
<1> QED
  BY <1>1, <1>2 DEF Daemon, Sync, Start, StartFails, CallsKept, RequestsStay, BrokenOnce

-----------------------------------------------------------------------------
(* The invariant.                                                          *)

LEMMA NoRowsTyped ==
  ASSUME NEW last \in Counters
  PROVE  IsRows(NoRows, last)
  BY DEF IsRows, NoRows, Counters

LEMMA InitInv == Init => Inv
<1> SUFFICES ASSUME Init PROVE Inv
  OBVIOUS
<1>1. seq \in Counters
  BY DEF Init, Counters
<1>2. TypeOK
  BY <1>1, NoRowsTyped, NoCallTyped DEF Init, TypeOK, Counters
<1>3. BrokenOnce /\ SeenNames
  BY DEF Init, BrokenOnce, SeenNames, NoCall, Named
<1>4. Synced /\ Valid(kern) /\ OwnersExist /\ SameNames
  BY DEF Init, Synced, Valid, OwnersExist, SameNames, NoRows
<1> QED
  BY <1>2, <1>3, <1>4 DEF Inv

\* Requests that stay mean what they meant as long as the rows keep their names.
LEMMA SeenNamesStay ==
  ASSUME TypeOK, SeenNames, RequestsStay, seq.acct <= seq'.acct, seq' \in Counters,
         \A a \in DOMAIN db'.accts :
            \/ a \in DOMAIN db.accts /\ db'.accts[a].name = db.accts[a].name
            \/ a > seq.acct
  PROVE  SeenNames'
<1> SUFFICES ASSUME NEW d \in Clients, client'[d].req.op \in Named
             PROVE  LET r == client'[d].req IN
                    /\ r.acct <= seq'.acct
                    /\ r.acct \in DOMAIN db'.accts => db'.accts[r.acct].name = r.name
  BY DEF SeenNames
<1>1. client'[d].req = client[d].req
  BY DEF RequestsStay, NoCall, Named
<1>2. client[d].req \in RequestType
  BY DEF TypeOK, CallType
<1>3. client[d].req.acct \in Nat
  BY <1>1, <1>2, FieldsTyped
<1> QED
  BY <1>1, <1>3 DEF SeenNames, TypeOK, Counters

LEMMA IdleInv ==
  ASSUME Inv, NEW c \in Clients, Idle(c)
  PROVE  Inv'
<1>1. CallsKept /\ RequestsStay /\ UNCHANGED <<up, db, seq, snap, kern, unsynced, behind>>
  BY IdleKeeps DEF Inv
<1>2. SeenNames'
  BY <1>1, SeenNamesStay DEF Inv, TypeOK, Counters
<1> QED
  BY <1>1, <1>2 DEF Inv, CallsKept, TypeOK, Synced, OwnersExist, SameNames, Valid

LEMMA AskInv ==
  ASSUME Inv, NEW c \in Clients, Ask(c)
  PROVE  Inv'
<1>1. /\ CallsKept
      /\ \A d \in Clients : d # c => client'[d] = client[d]
      /\ client'[c].req \in Requests
      /\ UNCHANGED <<up, db, seq, snap, kern, unsynced, behind>>
  BY AskKeeps DEF Inv
<1>2. client'[c].req.op \in Named =>
         /\ client'[c].req.acct \in DOMAIN snap.accts
         /\ client'[c].req.name = snap.accts[client'[c].req.acct].name
  BY <1>1, RequestsTyped DEF Inv
<1>3. \A a \in DOMAIN snap.accts : a <= seq.acct
  BY DEF Inv, TypeOK, IsRows
<1>4. SeenNames'
  BY <1>1, <1>2, <1>3 DEF Inv, SeenNames, SameNames
<1> QED
  BY <1>1, <1>4 DEF Inv, CallsKept, TypeOK, Synced, OwnersExist, SameNames, Valid

LEMMA WritesInv ==
  ASSUME Inv, NEW c \in Clients, Writes(c)
  PROVE  Inv'
<1> DEFINE r == client[c].req
<1>1. Ready(c) /\ Allowed(r) /\ Statement(r)
  BY DEF Writes, Applied, ApplyFails, LoadFails, DiesInside, Committed
<1>2. r \in RequestType
  BY DEF Inv, TypeOK, CallType
<1>3. /\ seq' \in Counters
      /\ seq.acct <= seq'.acct /\ seq.port <= seq'.port
      /\ IsRows(db', seq')
  <2> HIDE DEF r
  <2> QED BY <1>1, <1>2, StatementTyped DEF Inv
<1>4. /\ OwnersExist'
      /\ \A a \in DOMAIN db'.accts :
            \/ a \in DOMAIN db.accts /\ db'.accts[a].name = db.accts[a].name
            \/ a > seq.acct
  <2> HIDE DEF r
  <2> QED BY <1>1, <1>2, StatementKeeps DEF Inv
<1>5. CallsKept /\ RequestsStay
  BY WritesKeep DEF Inv
<1>6. /\ snap' \in {snap, db'} /\ kern' \in {kern, db'}
      /\ up' \in BOOLEAN /\ unsynced' \in BOOLEAN /\ behind' \in BOOLEAN
      /\ kern' = db' => Valid(db') \/ kern' = kern
  BY DEF Writes, Applied, ApplyFails, LoadFails, DiesInside, Inv, TypeOK
<1>7. IsRows(snap', seq') /\ IsRows(kern', seq')
  BY <1>3, <1>6, RowsGrow DEF Inv, TypeOK, Counters
<1>8. TypeOK'
  BY <1>3, <1>5, <1>6, <1>7 DEF TypeOK, CallsKept, Counters
<1>9. SeenNames'
  BY <1>3, <1>4, <1>5, SeenNamesStay DEF Inv
<1>10. Synced'
  BY DEF Writes, Applied, ApplyFails, LoadFails, DiesInside, Synced
<1>11. Valid(kern)'
  BY <1>6 DEF Inv, Valid
<1>12. SameNames'
  <2>1. CASE snap' = db'
    BY <2>1 DEF SameNames
  <2>2. CASE snap' = snap
    BY <2>2, <1>4 DEF Inv, SameNames, TypeOK, IsRows
  <2> QED
    BY <1>6, <2>1, <2>2
<1> QED
  BY <1>4, <1>5, <1>8, <1>9, <1>10, <1>11, <1>12 DEF Inv, CallsKept

LEMMA DaemonInv ==
  ASSUME Inv, Daemon
  PROVE  Inv'
<1>1. CallsKept /\ RequestsStay /\ UNCHANGED <<db, seq>>
  BY DaemonKeeps DEF Inv
<1>2. SeenNames'
  BY <1>1, SeenNamesStay DEF Inv, TypeOK, Counters
<1>3. /\ snap' \in {snap, db} /\ kern' \in {kern, db}
      /\ up' \in BOOLEAN /\ unsynced' \in BOOLEAN /\ behind' \in BOOLEAN
      /\ kern' = db => Valid(db) \/ kern' = kern
  BY DEF Daemon, Sync, Start, StartFails, Crash, Inv, TypeOK
<1>4. Synced'
  BY DEF Daemon, Sync, Start, StartFails, Crash, Inv, Synced
<1> QED
  BY <1>1, <1>2, <1>3, <1>4 DEF Inv, CallsKept, TypeOK, OwnersExist, SameNames, Valid

LEMMA InvKept == Inv /\ [Next]_vars => Inv'
<1>1. ASSUME Inv, UNCHANGED vars PROVE Inv'
  BY <1>1 DEF Inv, vars, TypeOK, BrokenOnce, Synced, Valid, OwnersExist, SameNames, SeenNames
<1> QED
  BY <1>1, NextSplits, IdleInv, AskInv, WritesInv, DaemonInv

LEMMA Invariant == Spec => []Inv
  BY InitInv, InvKept, PTL DEF Spec

-----------------------------------------------------------------------------
(* What follows from it.                                                   *)

\* The rows, the copy, the kernel and the calls of clients keep their types and
\* use no id that was not given out.
THEOREM TypeTheorem == Spec => []TypeOK
  BY Invariant, PTL DEF Inv

\* However calls, failures and crashes interleave: when no resync is pending and
\* no reload has just failed, the kernel and the copy have the rows.
THEOREM KernelTheorem == Spec => []KernelFollowsRows
<1>1. Inv => KernelFollowsRows
  BY DEF Inv, Synced, KernelFollowsRows
<1> QED
  BY <1>1, Invariant, PTL

\* The kernel never has a port number in two rules, whatever is in the rows.
THEOREM UnambiguousTheorem == Spec => []KernelIsUnambiguous
<1>1. ASSUME Inv PROVE KernelIsUnambiguous
  <2>1. \A p \in DOMAIN kern.ports :
           kern.ports[p].span.lo \in Nat /\ kern.ports[p].span.hi \in Nat
    BY <1>1, RegistryAssumption DEF Inv, TypeOK, IsRows, Spans
  <2>2. \A n \in 1..MaxPort, p, q \in DOMAIN kern.ports :
           /\ n \in kern.ports[p].span.lo..kern.ports[p].span.hi
           /\ n \in kern.ports[q].span.lo..kern.ports[q].span.hi
           => p = q
    BY <1>1, <2>1 DEF Inv, Valid, Overlaps
  <2>3. {kern.ports[p].acct : p \in DOMAIN kern.ports} \subseteq DOMAIN kern.accts
    BY <1>1 DEF Inv, Valid
  <2> QED
    BY <2>2, <2>3 DEF KernelIsUnambiguous
<1> QED
  BY <1>1, Invariant, PTL

\* However stale the view was from which a client took an id: the row it changes
\* is the one of the account it saw.
THEOREM StaleTheorem == Spec => StaleIdsAreHarmless
<1> DEFINE Harmless == \A c \in Clients :
              LET r == client[c].req IN
              /\ Committed(c)
              /\ r.op \in {"DeleteAccount", "SetTier", "SetExpiry", "AddPort", "MovePort"}
              /\ r.acct \in DOMAIN db.accts
              => db.accts[r.acct].name = r.name
<1>1. Inv => Harmless
  BY DEF Inv, SeenNames, Named
<1> QED
  BY <1>1, Invariant, PTL DEF StaleIdsAreHarmless

-----------------------------------------------------------------------------
(* Registry implements Directory.                                          *)

LEMMA InitRefines == Init => D!Init
  BY DEF Init, NoRows, D!Init

\* While the copy has the rows, a statement the closure lets through is the
\* directory's operation, or changes nothing because the row is gone.
LEMMA StatementRefines ==
  ASSUME TypeOK, OwnersExist, snap = db,
         NEW r \in RequestType, Allowed(r), Statement(r)
  PROVE  D!Next \/ UNCHANGED D!vars
<1>1. seq \in Counters /\ IsRows(db, seq)
  BY DEF TypeOK, Counters
<1> USE <1>1 DEF Allowed, IsRows, Counters, D!vars
<1>2. CASE CreateAccount(r)
  <2>1. D!AddAccount(r.name, r.tier)
    BY <1>2 DEF CreateAccount, With, NamesIn, D!AddAccount
  <2> QED
    BY <1>2, <2>1, FieldsTyped DEF CreateAccount, D!Next
<1>3. CASE DeleteAccount(r)
  <2>1. CASE r.acct \in DOMAIN db.accts
    <3>1. D!DeleteAccount(r.acct, r.cascade)
      BY <1>3, <2>1 DEF DeleteAccount, MayDelete, Without, PortsFor, D!DeleteAccount, D!PortsOf
    <3>2. r.cascade \in BOOLEAN
      BY <1>3 DEF DeleteAccount, RequestType
    <3> QED
      BY <2>1, <3>1, <3>2 DEF D!Next
  <2>2. CASE r.acct \notin DOMAIN db.accts
    <3>1. PortsFor(db, r.acct) = {}
      BY <2>2 DEF OwnersExist, PortsFor
    <3> QED
      BY <1>3, <2>2, <3>1 DEF DeleteAccount, Without
  <2> QED
    BY <2>1, <2>2
<1>4. CASE SetTier(r)
  <2>1. r.acct \in DOMAIN db.accts => D!SetTier(r.acct, r.tier)
    BY <1>4 DEF SetTier, D!SetTier
  <2> QED
    BY <1>4, <2>1, FieldsTyped DEF SetTier, D!Next
<1>5. CASE SetExpiry(r)
  <2>1. r.acct \in DOMAIN db.accts => D!SetExpiry(r.acct, r.on)
    BY <1>5 DEF SetExpiry, MayExpire, HasQuota, D!SetExpiry
  <2> QED
    BY <1>5, <2>1, FieldsTyped, Zenon DEF SetExpiry, D!Next, Named
<1>6. CASE CreatePort(r)
  <2>1. D!AddPort(r.acct, r.span)
    BY <1>6 DEF CreatePort, With, MayAddPort, Disjoint, Overlaps, D!AddPort, D!Free, D!Overlap
  <2> QED
    BY <1>6, <2>1, FieldsTyped DEF CreatePort, D!Next
<1>7. CASE EditPort(r)
  <2>1. D!EditPort(r.port, r.span)
    BY <1>7 DEF EditPort, MayEditPort, Disjoint, Overlaps, D!EditPort, D!Free, D!Overlap
  <2> QED
    BY <1>7, <2>1, FieldsTyped DEF EditPort, MayEditPort, D!Next
<1>8. CASE DeletePort(r)
  <2>1. CASE r.port \in DOMAIN db.ports
    <3>1. D!DeletePort(r.port)
      BY <1>8, <2>1 DEF DeletePort, Without, D!DeletePort
    <3> QED
      BY <2>1, <3>1 DEF D!Next
  <2>2. CASE r.port \notin DOMAIN db.ports
    BY <1>8, <2>2 DEF DeletePort, Without
  <2> QED
    BY <2>1, <2>2
<1>9. CASE MovePort(r)
  <2>1. r.port \in DOMAIN db.ports => D!MovePort(r.port, r.acct)
    BY <1>9 DEF MovePort, D!MovePort
  <2> QED
    BY <1>9, <2>1 DEF MovePort, D!Next
<1> QED
  BY <1>2, <1>3, <1>4, <1>5, <1>6, <1>7, <1>8, <1>9 DEF Statement

LEMMA StepRefines ==
  ASSUME Inv, [Next]_vars, ~behind
  PROVE  D!Next \/ UNCHANGED D!vars
<1>1. ASSUME NEW c \in Clients, Writes(c)
      PROVE  D!Next \/ UNCHANGED D!vars
  <2> DEFINE r == client[c].req
  <2>1. up /\ Allowed(r) /\ Statement(r)
    BY <1>1 DEF Writes, Applied, ApplyFails, LoadFails, DiesInside, Committed, Ready
  <2>2. r \in RequestType /\ snap = db
    BY <2>1 DEF Inv, TypeOK, CallType, Synced
  <2> HIDE DEF r
  <2> QED
    BY <2>1, <2>2, StatementRefines DEF Inv
<1>2. ASSUME NEW c \in Clients, Ask(c) \/ Idle(c)
      PROVE  UNCHANGED D!vars
  BY <1>2, AskKeeps, IdleKeeps DEF Inv, D!vars
<1>3. CASE Daemon
  BY <1>3, DaemonKeeps DEF Inv, D!vars
<1>4. CASE UNCHANGED vars
  BY <1>4 DEF vars, D!vars
<1> QED
  BY <1>1, <1>2, <1>3, <1>4, NextSplits

\* For any number of clients, with stale views, replays, failing folds, applies
\* and reloads, and crashes: every step of the rows is a whole, legal operation of
\* the directory, unless a reload has just failed.
THEOREM Refinement == Spec => ImplementsDirectory
<1>1. Inv /\ [Next]_vars => [~behind => D!Next]_(D!vars)
  BY StepRefines
<1> QED
  BY <1>1, InitRefines, Invariant, PTL DEF Spec, ImplementsDirectory

-----------------------------------------------------------------------------
(* While no reload fails.                                                  *)

\* What the checks on the copy let through keeps ports apart in the rows.
LEMMA StatementKeepsApart ==
  ASSUME TypeOK, RowsAreDisjoint, snap = db,
         NEW r \in RequestType, Allowed(r), Statement(r)
  PROVE  RowsAreDisjoint'
<1>1. seq \in Counters /\ IsRows(db, seq)
  BY DEF TypeOK, Counters
<1>2. \A s, t \in Spans : Overlaps(s, t) <=> Overlaps(t, s)
  BY DEF Overlaps
<1>3. \A p \in DOMAIN db.ports : p \in Nat /\ db.ports[p].span \in Spans
  BY <1>1 DEF IsRows
<1> USE <1>1 DEF IsRows, RowsAreDisjoint, Counters
<1>4. CASE CreateAccount(r) BY <1>4 DEF CreateAccount
<1>5. CASE DeleteAccount(r) BY <1>5 DEF DeleteAccount, Without
<1>6. CASE SetTier(r)       BY <1>6 DEF SetTier
<1>7. CASE SetExpiry(r)     BY <1>7 DEF SetExpiry
<1>8. CASE CreatePort(r)
  <2>1. \A p \in DOMAIN db.ports : ~Overlaps(db.ports[p].span, r.span)
    BY <1>8 DEF CreatePort, Allowed, MayAddPort, Disjoint
  <2>2. r.span \in Spans
    BY <1>8, FieldsTyped DEF CreatePort
  <2>3. \A p \in DOMAIN db.ports : ~Overlaps(r.span, db.ports[p].span)
    BY <1>2, <1>3, <2>1, <2>2
  <2>4. db'.ports = With(db.ports, seq'.port, [acct |-> r.acct, span |-> r.span])
    BY <1>8 DEF CreatePort
  <2>5. \A p \in DOMAIN db'.ports :
           \/ p \in DOMAIN db.ports /\ db'.ports[p].span = db.ports[p].span
           \/ p = seq'.port /\ db'.ports[p].span = r.span
    BY <2>4 DEF With
  <2> QED
    BY <2>1, <2>3, <2>5
<1>9. CASE EditPort(r)
  <2>1. /\ r.port \in DOMAIN db.ports
        /\ \A p \in DOMAIN db.ports : p # r.port => ~Overlaps(db.ports[p].span, r.span)
    BY <1>9 DEF EditPort, Allowed, MayEditPort, Disjoint
  <2>2. r.span \in Spans
    BY <1>9, FieldsTyped DEF EditPort
  <2>3. \A p \in DOMAIN db.ports : p # r.port => ~Overlaps(r.span, db.ports[p].span)
    BY <1>2, <1>3, <2>1, <2>2
  <2>4. /\ DOMAIN db'.ports = DOMAIN db.ports
        /\ \A p \in DOMAIN db.ports :
              db'.ports[p].span = IF p = r.port THEN r.span ELSE db.ports[p].span
    BY <1>9, <2>1 DEF EditPort
  <2> QED
    BY <2>1, <2>3, <2>4
<1>10. CASE DeletePort(r) BY <1>10 DEF DeletePort, Without
<1>11. CASE MovePort(r)   BY <1>11 DEF MovePort
<1> QED
  BY <1>4, <1>5, <1>6, <1>7, <1>8, <1>9, <1>10, <1>11 DEF Statement

\* the copy is never behind the rows, because the rows are always valid
InStep == ~behind /\ RowsAreDisjoint

LEMMA InStepKept ==
  ASSUME "load" \notin Faults, Inv, InStep, [Next]_vars
  PROVE  InStep'
<1>1. ASSUME NEW c \in Clients, Writes(c) PROVE InStep'
  <2> DEFINE r == client[c].req
  <2>1. up /\ Allowed(r) /\ Statement(r)
    BY <1>1 DEF Writes, Applied, ApplyFails, LoadFails, DiesInside, Committed, Ready
  <2>2. r \in RequestType /\ snap = db
    BY <2>1 DEF Inv, TypeOK, CallType, Synced, InStep
  <2> HIDE DEF r
  <2>3. RowsAreDisjoint' /\ OwnersExist'
    BY <2>1, <2>2, StatementKeepsApart, StatementKeeps DEF Inv, InStep
  <2>4. Valid(db')
    BY <2>3 DEF Valid, RowsAreDisjoint, OwnersExist
  <2>5. ~behind'
    BY <1>1, <2>4 DEF Writes, Applied, ApplyFails, LoadFails, DiesInside
  <2> QED
    BY <2>3, <2>5 DEF InStep
<1>2. ASSUME NEW c \in Clients, Ask(c) \/ Idle(c) PROVE InStep'
  BY <1>2, AskKeeps, IdleKeeps DEF Inv, InStep, RowsAreDisjoint
<1>3. CASE Daemon
  <2>1. UNCHANGED db
    BY <1>3, DaemonKeeps DEF Inv
  <2>2. ~behind'
    BY <1>3 DEF Daemon, Sync, Start, StartFails, Crash, InStep
  <2> QED
    BY <2>1, <2>2 DEF InStep, RowsAreDisjoint
<1>4. CASE UNCHANGED vars
  BY <1>4 DEF vars, InStep, RowsAreDisjoint
<1> QED
  BY <1>1, <1>2, <1>3, <1>4, NextSplits

LEMMA InStepInvariant ==
  ASSUME "load" \notin Faults
  PROVE  Spec => []InStep
<1>1. Init => InStep
  BY DEF Init, NoRows, InStep, RowsAreDisjoint
<1>2. Inv /\ InStep /\ [Next]_vars => InStep'
  BY InStepKept
<1> QED
  BY <1>1, <1>2, Invariant, PTL DEF Spec

\* Unless a reload fails, two AddPorts never give overlapping rows, whatever
\* crashes, replays and failing applies there are (engine.go 652-657).
THEOREM DisjointTheorem ==
  ASSUME "load" \notin Faults
  PROVE  Spec => []RowsAreDisjoint
<1>1. InStep => RowsAreDisjoint
  BY DEF InStep
<1> QED
  BY <1>1, InStepInvariant, PTL

\* Unless a reload fails, deleting an account without cascade takes no port
\* along, although the check looks at the copy (engine.go 546-552).
THEOREM PlainDeleteTheorem ==
  ASSUME "load" \notin Faults
  PROVE  Spec => PlainDeleteDropsNoPort
<1> DEFINE Dropless == \A c \in Clients :
              LET r == client[c].req IN
              Committed(c) /\ r.op = "DeleteAccount" /\ ~r.cascade
              => PortsFor(db, r.acct) = {}
<1>1. Inv /\ InStep => Dropless
  <2> SUFFICES ASSUME Inv, InStep, NEW c \in Clients, Committed(c),
                      client[c].req.op = "DeleteAccount", ~client[c].req.cascade
               PROVE  PortsFor(db, client[c].req.acct) = {}
    OBVIOUS
  <2>1. snap = db
    BY DEF Inv, Synced, InStep, Committed, Ready
  <2> QED
    BY <2>1 DEF Committed, Allowed, MayDelete
<1> QED
  BY <1>1, Invariant, InStepInvariant, PTL DEF PlainDeleteDropsNoPort

=============================================================================

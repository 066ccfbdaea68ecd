------------------------------ MODULE Registry ------------------------------
(***************************************************************************)
(* Accounts and ports: the rows in SQLite, the copy the engine keeps of    *)
(* them (c.snap), the ruleset in the kernel, and the calls of clients that *)
(* change them.  Clients pick what they act on from a view that is stale   *)
(* by the time the call runs, calls are checked against c.snap, rows are   *)
(* changed in SQLite, and a call whose connection breaks is replayed once. *)
(*                                                                         *)
(* reconcile holds c.mu from its first step to its last, so for this state *)
(* it is one action for each way it can end; usages are in Metering.       *)
(***************************************************************************)
EXTENDS Integers

CONSTANTS
    Clients,     \* programs with a connection to the daemon
    Names,       \* account names
    Tiers,       \* account tiers; "c" is the one without quota
    MaxPort,     \* bound: port numbers are 1..MaxPort
    MaxAccts,    \* bound: account rows inserted before clients stop adding
    MaxPorts,    \* bound: the same for port rows
    Calls,       \* the calls clients make
    Faults       \* the failures that may happen

AllCalls == {"AddAccount", "DeleteAccount", "SetTier", "SetExpiry", "AddPort",
             "EditPort", "DeletePort", "MovePort"}

AllFaults == {"fold", "load", "apply", "crash"}

ASSUME RegistryAssumption ==
    /\ {MaxPort, MaxAccts, MaxPorts} \subseteq Nat
    /\ Calls \subseteq AllCalls
    /\ Faults \subseteq AllFaults

VARIABLES
    up,          \* the daemon serves
    db,          \* the rows: accts, ports
    seq,         \* sqlite_sequence: the last id given to an account, to a port
    snap,        \* the structure in c.snap
    kern,        \* the rows the kernel's table was rendered from
    unsynced,    \* c.unsynced
    client,      \* each client's call
    behind       \* history: c.snap lacks a statement whose reload failed

vars == <<up, db, seq, snap, kern, unsynced, client, behind>>

-----------------------------------------------------------------------------
(* The model's helpers.                                                    *)

Spans == {s \in [lo: 1..MaxPort, hi: 1..MaxPort] : s.lo <= s.hi}

Overlaps(s, t) == s.lo <= t.hi /\ t.lo <= s.hi

PortsFor(st, a) == {p \in DOMAIN st.ports : st.ports[p].acct = a}

NoRows == [accts |-> [a \in {} |-> 0], ports |-> [p \in {} |-> 0]]

\* mutant of Valid: overlaps are not looked for
ValidOwnersOnly(st) ==
    \A p \in DOMAIN st.ports : st.ports[p].acct \in DOMAIN st.accts

\* Snapshot.Validate: owners exist and intervals are disjoint (the parts a
\* mutation does not check on its own arguments)
Valid(st) ==
    /\ \A p \in DOMAIN st.ports : st.ports[p].acct \in DOMAIN st.accts
    /\ \A p, q \in DOMAIN st.ports :
          p # q => ~Overlaps(st.ports[p].span, st.ports[q].span)

With(f, i, v) == [x \in DOMAIN f \cup {i} |-> IF x = i THEN v ELSE f[x]]

Without(f, S) == [x \in DOMAIN f \ S |-> f[x]]

-----------------------------------------------------------------------------
(* Calls.  acct and port are ids taken from the view; name is that of a    *)
(* new account or, in the others, of the account the client saw under acct.*)

NoCall == [pc |-> "idle", req |-> [op |-> "none"], tries |-> 0,
           made |-> FALSE, ok |-> TRUE]

Sent(r) == [pc |-> "sent", req |-> r, tries |-> 1, made |-> FALSE, ok |-> TRUE]

\* what a client looking at c.snap may ask for
OfAccount(a) ==
    LET seen == snap.accts[a].name IN
    {[op |-> "DeleteAccount", acct |-> a, name |-> seen, cascade |-> b] :
        b \in BOOLEAN}
    \cup {[op |-> "SetTier", acct |-> a, name |-> seen, tier |-> t] : t \in Tiers}
    \cup {[op |-> "SetExpiry", acct |-> a, name |-> seen, on |-> b] : b \in BOOLEAN}
    \cup {[op |-> "AddPort", acct |-> a, name |-> seen, span |-> s] : s \in Spans}
    \cup {[op |-> "MovePort", acct |-> a, name |-> seen, port |-> p] :
             p \in DOMAIN snap.ports}

OfPort(p) ==
    {[op |-> "EditPort", port |-> p, span |-> s] : s \in Spans}
    \cup {[op |-> "DeletePort", port |-> p]}

Requests ==
    {r \in [op: {"AddAccount"}, name: Names, tier: Tiers]
           \cup (UNION {OfAccount(a) : a \in DOMAIN snap.accts})
           \cup (UNION {OfPort(p) : p \in DOMAIN snap.ports}) :
        /\ r.op \in Calls
        /\ r.op = "AddAccount" => seq.acct < MaxAccts
        /\ r.op = "AddPort" => seq.port < MaxPorts}

HasQuota(tier) == tier # "c"

NamesIn(st) == {st.accts[a].name : a \in DOMAIN st.accts}

\* mutant of Disjoint: AddPort and EditPort do not look for overlaps
DisjointUnchecked(span, Except) == TRUE

\* no port of c.snap but those in Except overlaps span
Disjoint(span, Except) ==
    \A p \in DOMAIN snap.ports \ Except : ~Overlaps(snap.ports[p].span, span)

\* mutant of MayDelete: the account's ports are not looked for
MayDeleteOwners(r) == TRUE

MayDelete(r) == r.cascade \/ PortsFor(snap, r.acct) = {}

\* mutant of MayExpire: an account without quota may be given an expiry
MayExpireAnyTier(r) == r.acct \in DOMAIN snap.accts

MayExpire(r) ==
    /\ r.acct \in DOMAIN snap.accts
    /\ r.on => HasQuota(snap.accts[r.acct].tier)

MayAddPort(r) == r.acct \in DOMAIN snap.accts /\ Disjoint(r.span, {})

MayEditPort(r) == r.port \in DOMAIN snap.ports /\ Disjoint(r.span, {r.port})

\* The closure of a mutation lets the request through: its own checks, which
\* look at c.snap, and the constraints of the table it writes to.
Allowed(r) ==
    /\ r.op = "AddAccount" => r.name \notin NamesIn(db)
    /\ r.op = "DeleteAccount" => MayDelete(r)
    /\ r.op = "SetExpiry" => MayExpire(r)
    /\ r.op = "AddPort" => MayAddPort(r) /\ r.acct \in DOMAIN db.accts
    /\ r.op = "EditPort" => MayEditPort(r)
    /\ r.op = "MovePort" => r.port \notin DOMAIN db.ports \/ r.acct \in DOMAIN db.accts

\* The statements of the store.  Ids are AUTOINCREMENT: none is given out a
\* second time.  An update or delete of an id that is gone changes nothing.
\* mutant of CreateAccount: ids are not AUTOINCREMENT
CreateAccountReusesId(r) ==
    /\ r.op = "AddAccount"
    /\ seq' = [seq EXCEPT !.acct =
                  CHOOSE n \in 1..(MaxAccts + 1) :
                     /\ n \notin DOMAIN db.accts
                     /\ \A a \in DOMAIN db.accts : a < n]
    /\ db' = [db EXCEPT !.accts =
                 With(@, seq'.acct, [name |-> r.name, tier |-> r.tier,
                                     expires |-> FALSE])]

CreateAccount(r) ==
    /\ r.op = "AddAccount"
    /\ seq' = [seq EXCEPT !.acct = @ + 1]
    /\ db' = [db EXCEPT !.accts =
                 With(@, seq'.acct, [name |-> r.name, tier |-> r.tier,
                                     expires |-> FALSE])]

\* ON DELETE CASCADE takes the account's ports along
DeleteAccount(r) ==
    /\ r.op = "DeleteAccount"
    /\ db' = [accts |-> Without(db.accts, {r.acct}),
              ports |-> Without(db.ports, PortsFor(db, r.acct))]
    /\ UNCHANGED seq

SetTier(r) ==
    /\ r.op = "SetTier"
    /\ db' = IF r.acct \in DOMAIN db.accts
             THEN [db EXCEPT !.accts[r.acct].tier = r.tier] ELSE db
    /\ UNCHANGED seq

SetExpiry(r) ==
    /\ r.op = "SetExpiry"
    /\ db' = IF r.acct \in DOMAIN db.accts
             THEN [db EXCEPT !.accts[r.acct].expires = r.on] ELSE db
    /\ UNCHANGED seq

CreatePort(r) ==
    /\ r.op = "AddPort"
    /\ seq' = [seq EXCEPT !.port = @ + 1]
    /\ db' = [db EXCEPT !.ports =
                 With(@, seq'.port, [acct |-> r.acct, span |-> r.span])]

EditPort(r) ==
    /\ r.op = "EditPort"
    /\ db' = IF r.port \in DOMAIN db.ports
             THEN [db EXCEPT !.ports[r.port].span = r.span] ELSE db
    /\ UNCHANGED seq

DeletePort(r) ==
    /\ r.op = "DeletePort"
    /\ db' = [db EXCEPT !.ports = Without(@, {r.port})]
    /\ UNCHANGED seq

MovePort(r) ==
    /\ r.op = "MovePort"
    /\ db' = IF r.port \in DOMAIN db.ports
             THEN [db EXCEPT !.ports[r.port].acct = r.acct] ELSE db
    /\ UNCHANGED seq

Statement(r) ==
    \/ CreateAccount(r) \/ DeleteAccount(r) \/ SetTier(r) \/ SetExpiry(r)
    \/ CreatePort(r) \/ EditPort(r) \/ DeletePort(r) \/ MovePort(r)

-----------------------------------------------------------------------------
(* Clients.                                                                *)

Init ==
    /\ up = FALSE
    /\ db = NoRows
    /\ seq = [acct |-> 0, port |-> 0]
    /\ snap = NoRows
    /\ kern = NoRows
    /\ unsynced = FALSE
    /\ client = [c \in Clients |-> NoCall]
    /\ behind = FALSE

\* A client looks at the view, picks what to do and sends it.
Ask(c) ==
    /\ up
    /\ client[c].pc = "idle"
    /\ \E r \in Requests :
          client' = [client EXCEPT ![c] = Sent(r)]
    /\ UNCHANGED <<up, db, seq, snap, kern, unsynced, behind>>

Finish(c, ok) ==
    client' = [client EXCEPT ![c].pc = "done", ![c].ok = ok,
                             ![c].made = @ \/ ok]

\* MovePort looks for both ids under c.mu before it calls reconcile.
MoveChecked(c) ==
    /\ up
    /\ client[c].pc = "sent"
    /\ client[c].req.op = "MovePort"
    /\ client[c].req.port \in DOMAIN snap.ports
    /\ client[c].req.acct \in DOMAIN snap.accts
    /\ client' = [client EXCEPT ![c].pc = "checked"]
    /\ UNCHANGED <<up, db, seq, snap, kern, unsynced, behind>>

MoveRefused(c) ==
    /\ up
    /\ client[c].pc = "sent"
    /\ client[c].req.op = "MovePort"
    /\ \/ client[c].req.port \notin DOMAIN snap.ports
       \/ client[c].req.acct \notin DOMAIN snap.accts
    /\ Finish(c, FALSE)
    /\ UNCHANGED <<up, db, seq, snap, kern, unsynced, behind>>

\* the reply reaches the client
Reply(c) ==
    /\ up
    /\ client[c].pc = "done"
    /\ client' = [client EXCEPT ![c] = NoCall]
    /\ UNCHANGED <<up, db, seq, snap, kern, unsynced, behind>>

\* The connection broke in the first try: redial and send again.
Replay(c) ==
    /\ up
    /\ client[c].pc = "broken"
    /\ client' = [client EXCEPT ![c].pc = "sent", ![c].tries = @ + 1]
    /\ UNCHANGED <<up, db, seq, snap, kern, unsynced, behind>>

\* The redial fails too, and the client gives up.
GiveUp(c) ==
    /\ ~up
    /\ client[c].pc = "broken"
    /\ client' = [client EXCEPT ![c] = NoCall]
    /\ UNCHANGED <<up, db, seq, snap, kern, unsynced, behind>>

-----------------------------------------------------------------------------
(* reconcile, for the call of client c.                                    *)

Ready(c) ==
    /\ up
    /\ client[c].pc = IF client[c].req.op = "MovePort" THEN "checked" ELSE "sent"

\* The fold fails, or the closure returns an error; nothing happened.
Refused(c) ==
    /\ Ready(c)
    /\ "fold" \in Faults \/ ~Allowed(client[c].req)
    /\ Finish(c, FALSE)
    /\ UNCHANGED <<up, db, seq, snap, kern, unsynced, behind>>

\* the closure goes through and its statement is committed
Committed(c) ==
    /\ Ready(c)
    /\ Allowed(client[c].req)
    /\ Statement(client[c].req)

Applied(c) ==
    /\ Committed(c)
    /\ Valid(db')
    /\ snap' = db'
    /\ kern' = db'
    /\ unsynced' = FALSE
    /\ behind' = FALSE
    /\ Finish(c, TRUE)
    /\ UNCHANGED up

\* mutant of ApplyFails: the flag for syncLoop is not set
ApplyFailsUnflagged(c) ==
    /\ "apply" \in Faults
    /\ Committed(c)
    /\ Valid(db')
    /\ snap' = db'
    /\ kern' \in {kern, db'}
    /\ client' = [client EXCEPT ![c].pc = "done", ![c].ok = FALSE, ![c].made = TRUE]
    /\ behind' = FALSE
    /\ UNCHANGED <<up, unsynced>>

\* nft fails, or is killed at its timeout after it committed.
ApplyFails(c) ==
    /\ "apply" \in Faults
    /\ Committed(c)
    /\ Valid(db')
    /\ snap' = db'
    /\ kern' \in {kern, db'}
    /\ unsynced' = TRUE
    /\ behind' = FALSE
    /\ client' = [client EXCEPT ![c].pc = "done", ![c].ok = FALSE, ![c].made = TRUE]
    /\ UNCHANGED up

\* Load fails, or what it returns is refused by Validate.
LoadFails(c) ==
    /\ Committed(c)
    /\ "load" \in Faults \/ ~Valid(db')
    /\ client' = [client EXCEPT ![c].pc = "done", ![c].ok = FALSE, ![c].made = TRUE]
    /\ behind' = TRUE
    /\ UNCHANGED <<up, snap, kern, unsynced>>

-----------------------------------------------------------------------------
(* The daemon.                                                             *)

\* syncLoop reconciles with an empty closure while the flag is set.
Sync ==
    /\ up
    /\ unsynced
    /\ Valid(db)
    /\ snap' = db
    /\ kern' = db
    /\ unsynced' = FALSE
    /\ behind' = FALSE
    /\ UNCHANGED <<up, db, seq, client>>

\* New loads the rows, validates and applies them.
Start ==
    /\ ~up
    /\ Valid(db)
    /\ up' = TRUE
    /\ snap' = db
    /\ kern' = db
    /\ behind' = FALSE
    /\ UNCHANGED <<db, seq, unsynced, client>>

\* Apply fails, perhaps after nft committed, and the daemon exits.
StartFails ==
    /\ "apply" \in Faults
    /\ ~up
    /\ Valid(db)
    /\ kern' = db
    /\ UNCHANGED <<up, db, seq, snap, unsynced, client, behind>>

\* mutant of Disconnected: a call is replayed as often as it breaks
DisconnectedRetries == [c \in Clients |->
    IF client[c].pc \in {"idle", "broken"} THEN client[c]
    ELSE [client[c] EXCEPT !.pc = "broken"]]

\* every connection breaks; a call in its second try fails
Disconnected == [c \in Clients |->
    IF client[c].pc \in {"idle", "broken"} THEN client[c]
    ELSE IF client[c].tries = 1 THEN [client[c] EXCEPT !.pc = "broken"]
    ELSE NoCall]

\* The daemon stops, is killed or crashes between two critical sections.
Crash ==
    /\ "crash" \in Faults
    /\ up
    /\ up' = FALSE
    /\ snap' = db
    /\ unsynced' = FALSE
    /\ client' = Disconnected
    /\ behind' = FALSE
    /\ UNCHANGED <<db, seq, kern>>

\* It dies inside reconcile, after the statement and before or after Apply.
DiesInside(c) ==
    /\ "crash" \in Faults
    /\ Committed(c)
    /\ up' = FALSE
    /\ kern' \in {kern, db'}
    /\ kern' = db' => Valid(db')
    /\ snap' = db'
    /\ unsynced' = FALSE
    /\ behind' = FALSE
    /\ client' = [Disconnected EXCEPT ![c].made = client[c].tries = 1]

Next ==
    \/ \E c \in Clients :
          \/ Ask(c) \/ MoveChecked(c) \/ MoveRefused(c)
          \/ Reply(c) \/ Replay(c) \/ GiveUp(c)
          \/ Refused(c) \/ Applied(c) \/ ApplyFails(c) \/ LoadFails(c)
          \/ DiesInside(c)
    \/ Sync \/ Start \/ StartFails \/ Crash

Spec == Init /\ [][Next]_vars

-----------------------------------------------------------------------------
(* Properties.                                                             *)

\* functions from ids up to the last ones given out to rows
IsRows(st, last) ==
    /\ DOMAIN st = {"accts", "ports"}
    /\ DOMAIN st.accts \subseteq 1..last.acct
    /\ st.accts \in [DOMAIN st.accts -> [name: Names, tier: Tiers, expires: BOOLEAN]]
    /\ DOMAIN st.ports \subseteq 1..last.port
    /\ st.ports \in [DOMAIN st.ports -> [acct: 1..last.acct, span: Spans]]

RequestType ==
    [op: {"none"}]
    \cup [op: {"AddAccount"}, name: Names, tier: Tiers]
    \cup [op: {"DeleteAccount"}, acct: Nat, name: Names, cascade: BOOLEAN]
    \cup [op: {"SetTier"}, acct: Nat, name: Names, tier: Tiers]
    \cup [op: {"SetExpiry"}, acct: Nat, name: Names, on: BOOLEAN]
    \cup [op: {"AddPort"}, acct: Nat, name: Names, span: Spans]
    \cup [op: {"MovePort"}, acct: Nat, name: Names, port: Nat]
    \cup [op: {"EditPort"}, port: Nat, span: Spans]
    \cup [op: {"DeletePort"}, port: Nat]

CallType == [pc: {"idle", "sent", "checked", "done", "broken"}, req: RequestType,
             tries: 0..2, made: BOOLEAN, ok: BOOLEAN]

\* Every variable has its type; the rows, the copy and the kernel only use ids
\* that were given out.
TypeOK ==
    /\ up \in BOOLEAN
    /\ seq \in [acct: Nat, port: Nat]
    /\ IsRows(db, seq)
    /\ IsRows(snap, seq)
    /\ IsRows(kern, seq)
    /\ unsynced \in BOOLEAN
    /\ behind \in BOOLEAN
    /\ client \in [Clients -> CallType]

\* The rows go through exactly the states of a directory that runs one whole,
\* legal operation at a time, although requests are stale, checked against a
\* copy, replayed and cut short.  Only while c.snap lacks a statement whose
\* reload failed are requests judged by rows that are not the directory's.
D == INSTANCE Directory WITH
        accts <- db.accts, ports <- db.ports,
        lastA <- seq.acct, lastP <- seq.port

ImplementsDirectory == D!Init /\ [][~behind => D!Next]_(D!vars)

\* The kernel enforces the rows and the engine shows them, unless the flag
\* that makes syncLoop retry is up or a reload has just failed.
KernelFollowsRows == up /\ ~unsynced /\ ~behind => kern = db /\ snap = db

\* The table in the kernel never has a port number in the rules of two ports,
\* nor a rule of an account it has no quota for, even when the rows are wrong.
KernelIsUnambiguous ==
    /\ \A n \in 1..MaxPort, p, q \in DOMAIN kern.ports :
          /\ n \in kern.ports[p].span.lo..kern.ports[p].span.hi
          /\ n \in kern.ports[q].span.lo..kern.ports[q].span.hi
          => p = q
    /\ {kern.ports[p].acct : p \in DOMAIN kern.ports} \subseteq DOMAIN kern.accts

\* The rows never hold two ports that overlap: of two AddPorts the later one
\* sees the earlier one's row (engine.go 652-657).  This does not hold after a
\* reload that failed.
RowsAreDisjoint ==
    \A p, q \in DOMAIN db.ports :
        p # q => ~Overlaps(db.ports[p].span, db.ports[q].span)

\* A call never changes an account that took the place of the one its client
\* saw: an id from a stale view either still means the same account or none.
StaleIdsAreHarmless ==
    [][\A c \in Clients :
          LET r == client[c].req IN
          /\ Committed(c)
          /\ r.op \in {"DeleteAccount", "SetTier", "SetExpiry", "AddPort", "MovePort"}
          /\ r.acct \in DOMAIN db.accts
          => db.accts[r.acct].name = r.name]_vars

\* Deleting an account without cascade never takes a port with it, although
\* ON DELETE CASCADE would: no port slips in between check and DELETE
\* (engine.go 546-552).
PlainDeleteDropsNoPort ==
    [][\A c \in Clients :
          LET r == client[c].req IN
          Committed(c) /\ r.op = "DeleteAccount" /\ ~r.cascade
          => PortsFor(db, r.acct) = {}]_vars

\* A call that fails has not been carried out before.  This does not hold for a
\* call that was replayed.
FailureMeansNotDone ==
    \A c \in Clients : client[c].pc = "done" /\ ~client[c].ok => ~client[c].made

=============================================================================

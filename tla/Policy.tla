------------------------------- MODULE Policy -------------------------------
(***************************************************************************)
(* What the rules do to an account over time: packets, the days of the     *)
(* calendar, resets, tier switches and expiries, and what clients are told *)
(* about it.  The rules are those of Ruleset, the dates those of Billing.  *)
(*                                                                         *)
(* A reconcile is two steps here: its sample, fold and statement, and its  *)
(* reload and apply.  The kernel goes on in between, and persisters, which *)
(* write to SQLite without c.mu what they copied under it.  Calls do not   *)
(* fail, and nothing crashes or reboots (Metering, Registry and Expiry are *)
(* about that).                                                            *)
(***************************************************************************)
EXTENDS Ruleset, Billing, FiniteSets

CONSTANTS
    Accounts,    \* the accounts of PortTable
    Customers,   \* those whose policy changes, the others are unlimited
    Limits,      \* quotas in bytes; a tiny GiB value makes one of 0 bytes
    Anchors,     \* billing days
    Expiries,    \* times accounts expire, 0 for never
    Packets,     \* packets on the wire; the smallest has length 1
    Persisters,  \* the persist loop and the ForcePersist calls
    MaxForgotten \* no persister starts when more bytes than this were forgotten

ASSUME PolicyAssumption ==
    /\ \A p \in PortIds : PortTable[p].acct \in Accounts
    /\ Customers \subseteq Accounts
    /\ Limits \subseteq Nat
    /\ Anchors \subseteq Int
    /\ {0} \cup Expiries \subseteq Nat
    /\ 0 \in Instants
    /\ MaxForgotten \in Nat
    /\ Packets \subseteq [dir : {"in", "out"}, sport : Nat, dport : Nat, len : Nat \ {0}]

\* every account has traffic, of the smallest packets too
ASSUME TrafficAssumption ==
    \A a \in Accounts : \E pkt \in Packets : \E p \in OwnPorts(pkt) :
        PortTable[p].acct = a /\ pkt.len = 1

Tiers == {"a", "c"}

VARIABLES
    now,         \* the clock
    rows,        \* c.snap.Accounts
    stored,      \* used_bytes in SQLite, whose other columns are those of rows
    expired,     \* c.expired
    script,      \* the rules in the kernel
    used,        \* what the kernel's quotas have charged
    live,        \* c.live.AccountUsed
    held,        \* what persisters between their copy and their write have copied
    pending,     \* a reconcile has changed rows and not applied them yet
    passed,      \* history: bytes let through outside reconciles since the
                 \* account's usage was last set
    forgotten,   \* history: bytes since then that a persister's write took back
                 \* between a reconcile's fold and its reload
    ahead        \* history: accounts it did this to since the last sample

historyVars == <<passed, forgotten, ahead>>
vars == <<now, rows, stored, expired, script, used, live, held, pending, historyVars>>

NewRow(tier, limit, anchor) ==
    [tier |-> tier, limit |-> limit, anchor |-> anchor, expires |-> 0,
     used |-> 0, last |-> 0]

\* the accounts were just created
Init ==
    /\ now = 0
    /\ \E t \in Tiers, l \in Limits, d \in Anchors :
          rows = [a \in Accounts |-> IF a \in Customers THEN NewRow(t, l, d)
                                                      ELSE NewRow("c", 0, 1)]
    /\ expired = {}
    /\ script = Script(rows, now)
    /\ used = [a \in DOMAIN script.limits |-> 0]
    /\ live = used
    /\ stored = [a \in Accounts |-> 0]
    /\ held = [p \in {} |-> live]
    /\ pending = FALSE
    /\ passed = [a \in Accounts |-> 0]
    /\ forgotten = [a \in Accounts |-> 0]
    /\ ahead = {}

-----------------------------------------------------------------------------
(* The kernel and the clock.                                               *)

\* beyond a limit it does not matter how far
Capped(u) ==
    [a \in DOMAIN script.limits |->
        IF u[a] > script.limits[a] + 1 THEN script.limits[a] + 1 ELSE u[a]]

Charged(pkt) == {PortTable[p].acct : p \in OwnPorts(pkt)} \cap DOMAIN script.limits

Packet(pkt) ==
    LET seen == Verdict(script, used, pkt) IN
    /\ used' = Capped(seen.used)
    /\ passed' = [a \in Accounts |->
                     IF a \in Charged(pkt) /\ ~seen.dropped /\ ~pending
                     THEN passed[a] + pkt.len ELSE passed[a]]
    /\ UNCHANGED <<now, rows, stored, expired, script, live, held, pending, forgotten,
                   ahead>>

Tick ==
    /\ now + 1 \in Instants
    /\ now' = now + 1
    /\ UNCHANGED <<rows, stored, expired, script, used, live, held, pending, historyVars>>

-----------------------------------------------------------------------------
(* The engine.                                                             *)

Sample ==
    /\ ~pending
    /\ live' = Dump(script, used)
    /\ ahead' = {}
    /\ UNCHANGED <<now, rows, stored, expired, script, used, held, pending, passed,
                   forgotten>>

\* the rows with this usage
WithUsage(usage) ==
    [a \in Accounts |->
        [rows[a] EXCEPT !.used = IF a \in DOMAIN usage THEN usage[a] ELSE @]]

\* persistNow, under the lock: copies the live view, and shows it
PersistCopies(p) ==
    /\ ~pending
    /\ p \notin DOMAIN held
    /\ \A a \in Accounts : forgotten[a] <= MaxForgotten
    /\ held' = [q \in DOMAIN held \cup {p} |-> IF q = p THEN live ELSE held[q]]
    /\ rows' = WithUsage(live)
    /\ UNCHANGED <<now, stored, expired, script, used, live, pending, historyVars>>

\* ... and not under it any more: writes
PersistWrites(p) ==
    LET lower == {a \in DOMAIN held[p] : held[p][a] < stored[a]} IN
    /\ p \in DOMAIN held
    /\ held' = [q \in DOMAIN held \ {p} |-> held[q]]
    /\ stored' = [a \in Accounts |-> IF a \in DOMAIN held[p] THEN held[p][a]
                                                           ELSE stored[a]]
    /\ forgotten' = [a \in Accounts |-> IF pending /\ a \in lower
                                         THEN forgotten[a] + (stored[a] - held[p][a])
                                         ELSE forgotten[a]]
    /\ ahead' = IF pending THEN ahead \cup lower ELSE ahead
    /\ UNCHANGED <<now, rows, expired, script, used, live, pending, passed>>

\* mutant of Folded: the reload shows the usage of the last persist
FoldedNot == WithUsage(stored)

\* the rows in SQLite after reconcile folded a fresh sample into them
Folded ==
    WithUsage([a \in Accounts |-> IF a \in DOMAIN script.limits
                                  THEN Dump(script, used)[a] ELSE stored[a]])

\* history: what an account has had of its limit when its usage is set
Budgeted(row) == IF row.used < row.limit THEN row.used ELSE row.limit

\* reconcile up to its reload; newly is the account whose usage is set anew
Reconcile(newRows, newLive, newly) ==
    /\ ~pending
    /\ rows' = newRows
    /\ stored' = [a \in Accounts |-> newRows[a].used]
    /\ live' = newLive
    /\ passed' = [a \in Accounts |-> IF a \in newly THEN Budgeted(newRows[a])
                                                    ELSE passed[a]]
    /\ forgotten' = [a \in Accounts |-> IF a \in newly THEN 0 ELSE forgotten[a]]
    /\ ahead' = {}
    /\ pending' = TRUE
    /\ UNCHANGED <<now, expired, script, used, held>>

\* Load and applyLocked: stamped with the time it is rendered at, and seeded
\* with what SQLite has by now
Apply ==
    /\ pending
    /\ rows' = WithUsage(stored)
    /\ script' = Script(rows', now)
    /\ used' = [a \in DOMAIN script'.limits |-> stored[a]]
    /\ expired' = {a \in Accounts : ExpiredAt(rows[a], now)}
    /\ pending' = FALSE
    /\ UNCHANGED <<now, stored, live, held, historyVars>>

\* syncKernel: the set of expired accounts is not the one that was applied
SyncKernel ==
    /\ {a \in Accounts : ExpiredAt(rows[a], now)} # expired
    /\ Reconcile(Folded, Dump(script, used), {})

SetTier(a, tier, limit, anchor) ==
    Reconcile([Folded EXCEPT ![a].tier = tier, ![a].limit = limit, ![a].anchor = anchor],
              Dump(script, used), {a})

SetExpiry(a, t) ==
    /\ t # 0 => HasQuota(rows[a])
    /\ Reconcile([Folded EXCEPT ![a].expires = t], Dump(script, used), {})

\* mutant of ResetAccount: a reset moves the account to the next boundary
ResetAccountAhead(a) ==
    /\ HasQuota(rows[a])
    /\ Reconcile([Folded EXCEPT ![a].used = 0,
                                ![a].last = nextReset(@, rows[a].anchor)],
                 [Dump(script, used) EXCEPT ![a] = 0], {a})

\* ResetAccount: MarkReset and the live view
ResetAccount(a) ==
    /\ HasQuota(rows[a])
    /\ Reconcile([Folded EXCEPT ![a].used = 0, ![a].last = now],
                 [Dump(script, used) EXCEPT ![a] = 0], {a})

\* runDueResets, for one of the accounts it finds
DueReset(a) ==
    /\ rows[a].tier = "a"
    /\ Due(now, rows[a].last, rows[a].anchor)
    /\ ResetAccount(a)

Next ==
    \/ \E pkt \in Packets : Packet(pkt)
    \/ Tick \/ Sample \/ Apply \/ SyncKernel
    \/ \E p \in Persisters : PersistCopies(p) \/ PersistWrites(p)
    \/ \E a \in Customers :
          \/ \E t \in Tiers, l \in Limits, d \in Anchors : SetTier(a, t, l, d)
          \/ \E t \in Expiries : SetExpiry(a, t)
          \/ ResetAccount(a)
          \/ DueReset(a)

Spec == Init /\ [][Next]_vars

-----------------------------------------------------------------------------
(* What clients are told.                                                  *)

\* viewLocked
ViewUsed(a) == IF a \in DOMAIN live THEN live[a] ELSE rows[a].used

StatusOf(a, usage) ==
    IF ~HasQuota(rows[a]) THEN "unlimited"
    ELSE IF a \in expired THEN "EXPIRED"
    ELSE IF usage >= rows[a].limit THEN "BREACHED"
    ELSE "ok"

\* mutant of Status: an account is at its limit only when it is past it
StatusPastLimit(a) == StatusOf(a, ViewUsed(a) - 1)

\* the query endpoint and the terminal UI
Status(a) == StatusOf(a, ViewUsed(a))

\* nfuse list: Account.Breached looks at the row
ListStatus(a) == StatusOf(a, rows[a].used)

-----------------------------------------------------------------------------
(* Properties.                                                             *)

Blocked(a) ==
    \A pkt \in Packets :
        a \in {PortTable[p].acct : p \in OwnPorts(pkt)}
            => Verdict(script, used, pkt).dropped

\* Every variable has its type; only accounts with a quota that clients change
\* are ever expired.
TypeOK ==
    /\ now \in Instants
    /\ \A a \in Accounts :
          /\ rows[a].tier \in Tiers /\ rows[a].limit \in {0} \cup Limits
          /\ rows[a].anchor \in {1} \cup Anchors /\ rows[a].expires \in {0} \cup Expiries
          /\ rows[a].used \in Nat /\ rows[a].last \in 0..now
          /\ stored[a] \in Nat /\ passed[a] \in Nat /\ forgotten[a] \in Nat
    /\ expired \subseteq Customers
    /\ pending \in BOOLEAN
    /\ \A a \in DOMAIN script.limits : used[a] \in Nat
    /\ \A a \in DOMAIN live : live[a] \in Nat
    /\ DOMAIN held \subseteq Persisters
    /\ \A p \in DOMAIN held : \A a \in DOMAIN held[p] : held[p][a] \in Nat
    /\ ahead \subseteq Accounts

\* Whatever is rendered treats every packet as promised, at every usage: the
\* breaker before the counter, nothing charged or counted of an expired
\* account, both directions of a port and of a range, nobody else's packets
\* (README.md 577-599, 629-640).
RulesetKeepsPromise ==
    [][pending /\ ~pending'
        => \A pkt \in Packets :
              AsPromised(script', rows', now, used', pkt)]_vars

\* Clients are told EXPIRED or BREACHED only if no packet gets through, however
\* old the sample is, and are told so if the sample is fresh (httpapi.go
\* 229-233, tui.go 338-347).  BREACHED is told too soon, until the next sample,
\* when a persister's write took usage back between the fold and the reload of a
\* reconcile: the view has the sample, the kernel the older number.
StatusIsTruth ==
    ~pending => \A a \in Accounts :
        /\ Status(a) = "EXPIRED" => Blocked(a)
        /\ Status(a) = "BREACHED" => Blocked(a) \/ a \in ahead
        /\ Blocked(a) /\ live = Dump(script, used)
              => Status(a) \in {"EXPIRED", "BREACHED"}

\* The same for nfuse list.  This does not hold: it looks at the usage that was
\* persisted, not at the view's.
ListStatusIsTruth ==
    ~pending => \A a \in Accounts :
        Blocked(a) /\ live = Dump(script, used)
              => ListStatus(a) \in {"EXPIRED", "BREACHED"}

\* Since its usage was last set, a quota account never gets more than its limit
\* and the bytes that a persister's write took back between the fold and the
\* reload of a reconcile (engine.go 306 between 370 and 379), however many
\* samples, persists, renewals, expiries and rebuilds there are.  A packet that
\* passes during a reconcile is not counted: the rebuild forgets it.
WithinBudget ==
    [][\A a \in DOMAIN script.limits :
          passed'[a] > passed[a] => passed'[a] <= script.limits[a] + forgotten[a]]_vars

\* The engine takes an account for due exactly when one of its billing days
\* has begun since the last reset (engine.go 832-833).
ResetsAreDue ==
    \A a \in Accounts :
        Due(now, rows[a].last, rows[a].anchor)
            <=> BoundaryIn(rows[a].last, now, rows[a].anchor)

\* Usage is lowered by resets alone: "switching tiers deliberately does NOT
\* clear used_bytes" (engine.go 573-575).
UsageFallsByReset ==
    [][\A a \in Accounts : rows'[a].used < rows[a].used
          => rows'[a].used = 0 /\ rows'[a].last = now]_vars

=============================================================================

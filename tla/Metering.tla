------------------------------ MODULE Metering ------------------------------
(***************************************************************************)
(* The usage accounting of the nfuse daemon (internal/engine).  A byte     *)
(* count lives in up to six places at once: the kernel object that meters  *)
(* it, the sample being read, c.live, c.snap, a copy on its way to SQLite, *)
(* and SQLite.  This module is the flow between them: the sampling loop    *)
(* with its generation guard, persistNow with its write outside c.mu, the  *)
(* reconcile that every mutation goes through, monthly resets, the retry   *)
(* of a failed apply, crashes, reboots and the two kinds of start.         *)
(*                                                                         *)
(* The set of accounts and ports is fixed here; what changes it is the     *)
(* reconcile "other", which rebuilds the kernel table without touching a   *)
(* usage.  Steps that hold c.mu all the way are one action; reconcile,     *)
(* which holds it across kernel and database calls that other goroutines   *)
(* and the kernel overlap with, is one action per such call.               *)
(***************************************************************************)
EXTENDS Integers, FiniteSets

CONSTANTS
    Accounts,     \* account ids
    Ports,        \* port ids; each stands for the port's counters
    Owner,        \* the account each port belongs to
    Persisters,   \* goroutines that may be inside persistNow at once
    PersistLoop,  \* the one of them that is persistLoop
    Ops,          \* the operations clients ask for
    Faults,       \* the failures that may happen
    None,         \* no value: an object the kernel does not have
    MaxBytes,     \* bound: packets metered per port, and set-usage targets
    MaxGen,       \* bound: clients ask while fewer reconciles have succeeded
    MaxCycle,     \* bound: billing boundaries
    MaxWaiting    \* bound: requests past their check, waiting for c.mu

Meters == Accounts \cup Ports

AllOps == {"reset", "setusage", "settier", "other"}

\* "sample", "store", "load", "apply": the nft or SQLite call returns an error;
\* "crash": the daemon dies; "reboot": the machine does.
AllFaults == {"sample", "store", "load", "apply", "crash", "reboot"}

ASSUME MeteringAssumption ==
    /\ Accounts \cap Ports = {}
    /\ Owner \in [Ports -> Accounts]
    /\ PersistLoop \in Persisters
    /\ Ops \subseteq AllOps
    /\ Faults \subseteq AllFaults
    /\ None \notin Nat
    /\ None \notin Accounts
    /\ {MaxBytes, MaxGen, MaxCycle, MaxWaiting} \subseteq Nat

VARIABLES
    daemon,    \* "down", "boot" (inside engine.New) or "up"
    table,     \* the kernel has the nfuse table
    kused,     \* what each kernel object has metered; None: no such object
    db,        \* the SQLite rows
    snap,      \* c.snap, the desired state in memory
    live,      \* c.live, the latest sample; None: not in the sample
    gen,       \* c.gen
    unsynced,  \* c.unsynced
    rec,       \* the reconcile that holds c.mu
    waiting,   \* requests that passed their check and wait for c.mu
    due,       \* accounts runDueResets still has to reset
    smp,       \* the sampling loop's sample
    per,       \* each persister's copy on its way to SQLite
    cycle,     \* billing boundaries that have passed
    charged,   \* history: the most each meter ever had a right to show
    zeroed,    \* history: the cycle an account's last reset reached the kernel in
    suspect    \* history: the last rebuild failed or was overtaken by a write

kernelVars  == <<table, kused>>
memoryVars  == <<snap, live, gen, unsynced>>
threadVars  == <<rec, waiting, due, smp, per>>
historyVars == <<charged, zeroed, suspect>>
vars == <<daemon, table, kused, db, snap, live, gen, unsynced,
          rec, waiting, due, smp, per, cycle, charged, zeroed, suspect>>

-----------------------------------------------------------------------------
(* Tiers, requests and the helpers the engine is built from.               *)

Tiers == {"a", "b", "c"}

HasQuota(t) == t \in {"a", "b"}

Resets(t) == t = "a"

\* a map with values for some of the meters: what Sample returns
Samples == [Meters -> Nat \cup {None}]

NoSample == [m \in Meters |-> None]

\* mutant of Fold: the sample is added to what was there
FoldAdds(used, s) == [m \in Meters |-> IF s[m] = None THEN used[m]
                                                      ELSE used[m] + s[m]]

\* the rows PersistUsage and adoptLiveState write: the sample where it has a
\* value, what was there where it has none
Fold(used, s) == [m \in Meters |-> IF s[m] = None THEN used[m] ELSE s[m]]

\* the objects an apply of st creates, seeded with its usage: counters for
\* every port, a quota for the accounts whose tier has one
Render(st) ==
    [m \in Meters |-> IF m \in Ports \/ HasQuota(st.tier[m])
                      THEN st.used[m] ELSE None]

State == [used: [Meters -> Nat], tier: [Accounts -> Tiers],
          cycle: [Accounts -> Nat]]

Requests == [op: AllOps, acct: Accounts \cup {None}, bytes: Nat,
             tier: Tiers, by: {"rpc", "loop", "sync"}]

Request(op, a, bytes, tier, by) ==
    [op |-> op, acct |-> a, bytes |-> bytes, tier |-> tier, by |-> by]

Blank == [used |-> [m \in Meters |-> 0], tier |-> [a \in Accounts |-> "a"],
          cycle |-> [a \in Accounts |-> 0]]

NoRequest == Request("other", None, 0, "a", "rpc")

\* raced: a persister wrote to SQLite after this reconcile's own fold;
\* read: the rows of accounts, the first that Load reads; seen (history): the
\* kernel when c.mu was taken
Idle == [pc |-> "idle", req |-> NoRequest, raced |-> FALSE, read |-> Blank,
         seen |-> NoSample]

NoSampling == [pc |-> "idle", gen |-> 0, val |-> NoSample]

NoCopy == [pc |-> "idle", copy |-> NoSample]

Larger(x, y) == IF x >= y THEN x ELSE y

\* c.mu can be taken: the daemon serves and no reconcile is running
MuFree == daemon = "up" /\ rec.pc = "idle"

\* persistLoop is not busy with its monthly resets, which it runs itself
LoopFree == due = {} /\ \A r \in waiting : r.by # "loop"

Init ==
    /\ daemon = "down"
    /\ table = FALSE
    /\ kused = NoSample
    /\ db \in [used: {[m \in Meters |-> 0]}, tier: [Accounts -> Tiers],
               cycle: {[a \in Accounts |-> 0]}]
    /\ snap = db
    /\ live = NoSample
    /\ gen = 0
    /\ unsynced = FALSE
    /\ rec = Idle
    /\ waiting = {}
    /\ due = {}
    /\ smp = NoSampling
    /\ per = [p \in Persisters |-> NoCopy]
    /\ cycle = 0
    /\ charged = [m \in Meters |-> 0]
    /\ zeroed = [a \in Accounts |-> 0]
    /\ suspect = FALSE

-----------------------------------------------------------------------------
(* The environment.                                                        *)

\* A packet of one byte on port p.  The quota rule comes before the counter
\* rule, so the packet that trips the breaker is charged to the account and
\* not counted on the port; what follows it is dropped and is no step here.
Hits(p) == IF kused[Owner[p]] = None THEN {{p}}
                                     ELSE {{p, Owner[p]}, {Owner[p]}}

Traffic(p) ==
    /\ table
    /\ kused[p] # None
    /\ \E hit \in Hits(p) :
          /\ \A m \in hit : charged[m] < MaxBytes
          /\ kused' = [m \in Meters |-> IF m \in hit THEN kused[m] + 1
                                                     ELSE kused[m]]
          /\ charged' = [m \in Meters |-> IF m \in hit THEN charged[m] + 1
                                                       ELSE charged[m]]
    /\ UNCHANGED <<daemon, table, db, memoryVars, threadVars, cycle,
                   zeroed, suspect>>

BillingBoundary ==
    /\ cycle < MaxCycle
    /\ cycle' = cycle + 1
    /\ UNCHANGED <<daemon, kernelVars, db, memoryVars, threadVars, historyVars>>

-----------------------------------------------------------------------------
(* Start, crash, reboot.                                                   *)

\* the cycles in which resets have reached the kernel, after a rebuild from
\* st that carried out the resets of the accounts in S
Zeroed(st, S) == [a \in Accounts |->
    IF st.used[a] = 0 \/ a \in S THEN st.cycle[a] ELSE zeroed[a]]

\* mutant of BootCold: the daemon serves before the table is built
BootColdUnbuilt ==
    /\ daemon = "down"
    /\ ~table
    /\ daemon' = "up"
    /\ snap' = db
    /\ UNCHANGED <<kernelVars, db, live, gen, unsynced, threadVars, cycle,
                   historyVars>>

\* New without a kernel table: SQLite is authoritative.
BootCold ==
    /\ daemon = "down"
    /\ ~table
    /\ daemon' = "boot"
    /\ snap' = db
    /\ UNCHANGED <<kernelVars, db, live, gen, unsynced, threadVars, cycle,
                   historyVars>>

\* mutant of BootHot: the table is rebuilt from SQLite as on a cold start
BootHotStale ==
    /\ daemon = "down"
    /\ table
    /\ daemon' = "boot"
    /\ live' = kused
    /\ snap' = db
    /\ UNCHANGED <<kernelVars, db, gen, unsynced, threadVars, cycle, historyVars>>

\* New over a live table: adoptLiveState folds the kernel into the snapshot
\* and into SQLite.
BootHot ==
    /\ daemon = "down"
    /\ table
    /\ daemon' = "boot"
    /\ live' = kused
    /\ db' = [db EXCEPT !.used = Fold(db.used, kused)]
    /\ snap' = db'
    /\ UNCHANGED <<kernelVars, gen, unsynced, threadVars, cycle, historyVars>>

BootApply ==
    /\ daemon = "boot"
    /\ daemon' = "up"
    /\ table' = TRUE
    /\ kused' = Render(snap)
    /\ zeroed' = Zeroed(snap, {})
    /\ suspect' = FALSE
    /\ UNCHANGED <<db, memoryVars, threadVars, cycle, charged>>

\* everything the process held is gone
Forget ==
    /\ daemon' = "down"
    /\ snap' = db
    /\ live' = NoSample
    /\ gen' = 0
    /\ unsynced' = FALSE
    /\ rec' = Idle
    /\ waiting' = {}
    /\ due' = {}
    /\ smp' = NoSampling
    /\ per' = [p \in Persisters |-> NoCopy]

\* The apply of New fails and the daemon does not start.  An nft process
\* killed at its timeout may have committed the table before.
BootApplyFails ==
    /\ "apply" \in Faults
    /\ daemon = "boot"
    /\ Forget
    /\ \/ UNCHANGED <<table, kused, zeroed>>
       \/ /\ table' = TRUE
          /\ kused' = Render(snap)
          /\ zeroed' = Zeroed(snap, {})
    /\ UNCHANGED <<db, cycle, charged, suspect>>

Crash ==
    /\ "crash" \in Faults
    /\ daemon # "down"
    /\ Forget
    /\ UNCHANGED <<kernelVars, db, cycle, historyVars>>

\* the machine restarts, or a teardown removes the table of a stopped daemon
Reboot ==
    /\ "reboot" \in Faults
    /\ daemon = "down"
    /\ table
    /\ table' = FALSE
    /\ kused' = NoSample
    /\ UNCHANGED <<daemon, db, memoryVars, threadVars, cycle, historyVars>>

-----------------------------------------------------------------------------
(* sampleLoop.                                                             *)

SampleBegin ==
    /\ MuFree
    /\ smp.pc = "idle"
    /\ smp' = [NoSampling EXCEPT !.pc = "read", !.gen = gen]
    /\ UNCHANGED <<daemon, kernelVars, db, memoryVars, rec, waiting, due, per,
                   cycle, historyVars>>

\* nft list runs without c.mu
SampleRead ==
    /\ smp.pc = "read"
    /\ smp' = [smp EXCEPT !.pc = "done", !.val = kused]
    /\ UNCHANGED <<daemon, kernelVars, db, memoryVars, rec, waiting, due, per,
                   cycle, historyVars>>

SampleFails ==
    /\ smp.pc = "read"
    /\ "sample" \in Faults
    /\ smp' = NoSampling
    /\ UNCHANGED <<daemon, kernelVars, db, memoryVars, rec, waiting, due, per,
                   cycle, historyVars>>

\* mutant of Committed: no generation guard
CommittedUnguarded == smp.val

\* the sample a commit leaves in c.live
Committed == IF gen = smp.gen THEN smp.val ELSE live

SampleCommit ==
    /\ MuFree
    /\ smp.pc = "done"
    /\ live' = Committed
    /\ smp' = NoSampling
    /\ UNCHANGED <<daemon, kernelVars, db, snap, gen, unsynced, rec, waiting,
                   due, per, cycle, historyVars>>

-----------------------------------------------------------------------------
(* persistNow, on persistLoop and in the handlers of ForcePersist.         *)

PersistCopy(p) ==
    /\ MuFree
    /\ per[p].pc = "idle"
    /\ p = PersistLoop => LoopFree
    /\ snap' = [snap EXCEPT !.used = Fold(snap.used, live)]
    /\ per' = IF live = NoSample
              THEN per
              ELSE [per EXCEPT ![p] = [pc |-> "write", copy |-> live]]
    /\ UNCHANGED <<daemon, kernelVars, db, live, gen, unsynced, rec, waiting,
                   due, smp, cycle, historyVars>>

\* the transaction of PersistUsage, without c.mu
PersistWrite(p) ==
    /\ per[p].pc = "write"
    /\ db' = [db EXCEPT !.used = Fold(db.used, per[p].copy)]
    /\ per' = [per EXCEPT ![p] = NoCopy]
    /\ rec' = [rec EXCEPT !.raced = rec.pc \notin {"idle", "fold"}]
    /\ UNCHANGED <<daemon, kernelVars, memoryVars, waiting, due, smp, cycle,
                   historyVars>>

PersistFails(p) ==
    /\ "store" \in Faults
    /\ per[p].pc = "write"
    /\ per' = [per EXCEPT ![p] = NoCopy]
    /\ UNCHANGED <<daemon, kernelVars, db, memoryVars, rec, waiting, due, smp,
                   cycle, historyVars>>

-----------------------------------------------------------------------------
(* Requests on their way to reconcile.                                     *)

\* ResetAccount and SetUsage look at the account under c.mu, release it, and
\* take it again in reconcile.
Enqueue(r) ==
    /\ MuFree
    /\ Cardinality(waiting) < MaxWaiting
    /\ HasQuota(snap.tier[r.acct])
    /\ waiting' = waiting \cup {r}
    /\ UNCHANGED <<daemon, kernelVars, db, memoryVars, rec, smp, per, cycle,
                   historyVars>>

AskReset(a) ==
    /\ "reset" \in Ops
    /\ gen < MaxGen
    /\ Enqueue(Request("reset", a, 0, "a", "rpc"))
    /\ UNCHANGED due

AskSetUsage(a, v) ==
    /\ "setusage" \in Ops
    /\ gen < MaxGen
    /\ Enqueue(Request("setusage", a, v, "a", "rpc"))
    /\ UNCHANGED due

\* mutant of DueScan: an account is due one boundary late
DueScanLate ==
    /\ MuFree
    /\ LoopFree
    /\ per[PersistLoop].pc = "idle"
    /\ due' = {a \in Accounts : Resets(snap.tier[a]) /\ snap.cycle[a] + 1 < cycle}
    /\ due' # {}
    /\ UNCHANGED <<daemon, kernelVars, db, memoryVars, rec, waiting, smp, per,
                   cycle, historyVars>>

\* runDueResets collects the accounts past their boundary ...
DueScan ==
    /\ MuFree
    /\ LoopFree
    /\ per[PersistLoop].pc = "idle"
    /\ due' = {a \in Accounts : Resets(snap.tier[a]) /\ snap.cycle[a] < cycle}
    /\ due' # {}
    /\ UNCHANGED <<daemon, kernelVars, db, memoryVars, rec, waiting, smp, per,
                   cycle, historyVars>>

\* ... and then resets them one by one, through ResetAccount and its check
DueReset(a) ==
    /\ a \in due
    /\ \A r \in waiting : r.by # "loop"
    /\ due' = due \ {a}
    /\ Enqueue(Request("reset", a, 0, "a", "loop"))

DueRefused(a) ==
    /\ a \in due
    /\ MuFree
    /\ \A r \in waiting : r.by # "loop"
    /\ ~HasQuota(snap.tier[a])
    /\ due' = due \ {a}
    /\ UNCHANGED <<daemon, kernelVars, db, memoryVars, rec, waiting, smp, per,
                   cycle, historyVars>>

-----------------------------------------------------------------------------
(* reconcile.                                                              *)

\* c.mu is taken; gen counts the reconciles that succeed
RecBegin(r) ==
    /\ MuFree
    /\ rec' = [Idle EXCEPT !.pc = "fold", !.req = r, !.seen = kused]
    /\ UNCHANGED <<daemon, kernelVars, db, memoryVars, due, smp, per, cycle,
                   historyVars>>

Start(r) ==
    /\ r \in waiting
    /\ RecBegin(r)
    /\ waiting' = waiting \ {r}

StartSetTier(a, t) ==
    /\ "settier" \in Ops
    /\ gen < MaxGen
    /\ RecBegin(Request("settier", a, 0, t, "rpc"))
    /\ UNCHANGED waiting

\* any mutation that changes no usage: accounts, ports, names, expiries
StartOther ==
    /\ "other" \in Ops
    /\ gen < MaxGen
    /\ RecBegin(NoRequest)
    /\ UNCHANGED waiting

\* mutant of SyncStart: retries only when the kernel has no table
SyncStartIfNoTable ==
    /\ unsynced
    /\ ~table
    /\ RecBegin(Request("other", None, 0, "a", "sync"))
    /\ UNCHANGED waiting

\* syncKernel retries the apply that failed
SyncStart ==
    /\ unsynced
    /\ RecBegin(Request("other", None, 0, "a", "sync"))
    /\ UNCHANGED waiting

\* the reading reconcile folds: fresh if there is a table to read
Fresh == IF table THEN kused ELSE live

\* The fresh sample and its PersistUsage.
RecFold ==
    /\ rec.pc = "fold"
    /\ live' = Fresh
    /\ db' = [db EXCEPT !.used = Fold(db.used, live')]
    /\ rec' = [rec EXCEPT !.pc = "mutate"]
    /\ UNCHANGED <<daemon, kernelVars, snap, gen, unsynced, waiting, due, smp,
                   per, cycle, historyVars>>

\* mutant of RecFoldFails: the mutation goes ahead on what was sampled before
RecFoldFailsGoesOn ==
    /\ rec.pc = "fold"
    /\ \/ "sample" \in Faults /\ live' = live
       \/ "store" \in Faults /\ live' = Fresh
    /\ rec' = [rec EXCEPT !.pc = "mutate"]
    /\ UNCHANGED <<daemon, kernelVars, db, snap, gen, unsynced, waiting, due,
                   smp, per, cycle, historyVars>>

\* The probe, the sample or the write fails, and the mutation is refused.
RecFoldFails ==
    /\ rec.pc = "fold"
    /\ \/ "sample" \in Faults /\ live' = live
       \/ "store" \in Faults /\ live' = Fresh
    /\ rec' = Idle
    /\ UNCHANGED <<daemon, kernelVars, db, snap, gen, unsynced, waiting, due,
                   smp, per, cycle, historyVars>>

\* A reset writes 0, a set-usage its target, to the row and to the sample;
\* the other closures leave usages alone.
Target(r) == IF r.op = "reset" THEN 0 ELSE r.bytes

Written(r, used) == IF r.op \in {"reset", "setusage"}
                    THEN [used EXCEPT ![r.acct] = Target(r)]
                    ELSE used

\* the rows after the closure of request r
MutatedDb(r) ==
    [used  |-> Written(r, db.used),
     tier  |-> IF r.op = "settier" THEN [db.tier EXCEPT ![r.acct] = r.tier]
                                   ELSE db.tier,
     cycle |-> IF r.op = "reset" THEN [db.cycle EXCEPT ![r.acct] = cycle]
                                 ELSE db.cycle]

\* mutant of MutatedLive: the closure leaves c.live as sampled
MutatedLiveKept(r) == live

MutatedLive(r) == Written(r, live)

RecMutate ==
    /\ rec.pc = "mutate"
    /\ db' = MutatedDb(rec.req)
    /\ live' = MutatedLive(rec.req)
    /\ charged' = IF rec.req.op = "setusage"
                  THEN [charged EXCEPT ![rec.req.acct] =
                                           Larger(@, rec.req.bytes)]
                  ELSE charged
    /\ rec' = [rec EXCEPT !.pc = "load"]
    /\ UNCHANGED <<daemon, kernelVars, snap, gen, unsynced, waiting, due, smp,
                   per, cycle, zeroed, suspect>>

\* the closure returns an error; that of syncKernel does nothing and cannot
RecMutateFails ==
    /\ "store" \in Faults
    /\ rec.pc = "mutate"
    /\ rec.req.by # "sync"
    /\ rec' = Idle
    /\ UNCHANGED <<daemon, kernelVars, db, memoryVars, waiting, due, smp, per,
                   cycle, historyVars>>

\* Load reads the rows of accounts ...
RecLoad ==
    /\ rec.pc = "load"
    /\ rec' = [rec EXCEPT !.pc = "apply", !.read = db]
    /\ UNCHANGED <<daemon, kernelVars, db, memoryVars, waiting, due, smp, per,
                   cycle, historyVars>>

\* ... and in a query of its own those of counters
Loaded == [rec.read EXCEPT !.used =
    [m \in Meters |-> IF m \in Ports THEN db.used[m] ELSE rec.read.used[m]]]

ResetBy(r) == IF r.op = "reset" THEN {r.acct} ELSE {}

\* mutant of RecApply: the generation is not bumped
RecApplySameGen ==
    /\ rec.pc = "apply"
    /\ table' = TRUE
    /\ kused' = Render(Loaded)
    /\ snap' = Loaded
    /\ unsynced' = FALSE
    /\ rec' = Idle
    /\ zeroed' = Zeroed(Loaded, ResetBy(rec.req))
    /\ suspect' = rec.raced
    /\ UNCHANGED <<daemon, db, live, gen, waiting, due, smp, per, cycle, charged>>

\* The rest of Load, and Apply replaces the table.
RecApply ==
    /\ rec.pc = "apply"
    /\ table' = TRUE
    /\ kused' = Render(Loaded)
    /\ snap' = Loaded
    /\ unsynced' = FALSE
    /\ gen' = gen + 1
    /\ rec' = Idle
    /\ zeroed' = Zeroed(Loaded, ResetBy(rec.req))
    /\ suspect' = rec.raced
    /\ UNCHANGED <<daemon, db, live, waiting, due, smp, per, cycle, charged>>

\* nft returns an error, or is killed at its timeout after it committed.
RecApplyFails ==
    /\ "apply" \in Faults
    /\ rec.pc = "apply"
    /\ \/ UNCHANGED <<table, kused, zeroed>>
       \/ /\ table' = TRUE
          /\ kused' = Render(Loaded)
          /\ zeroed' = Zeroed(Loaded, ResetBy(rec.req))
    /\ snap' = Loaded
    /\ unsynced' = TRUE
    /\ rec' = Idle
    /\ suspect' = TRUE
    /\ UNCHANGED <<daemon, db, live, gen, waiting, due, smp, per, cycle,
                   charged>>

\* Load fails after the mutation is in SQLite.
RecLoadFails ==
    /\ "load" \in Faults
    /\ rec.pc \in {"load", "apply"}
    /\ rec' = Idle
    /\ suspect' = TRUE
    /\ UNCHANGED <<daemon, kernelVars, db, memoryVars, waiting, due, smp, per,
                   cycle, charged, zeroed>>

-----------------------------------------------------------------------------

Environment == (\E p \in Ports : Traffic(p)) \/ BillingBoundary

Boots == BootCold \/ BootHot \/ BootApply \/ BootApplyFails \/ Crash \/ Reboot

Sampler == SampleBegin \/ SampleRead \/ SampleFails \/ SampleCommit

Persister(p) == PersistCopy(p) \/ PersistWrite(p) \/ PersistFails(p)

Clients ==
    \/ \E a \in Accounts :
          \/ AskReset(a)
          \/ \E v \in 0..MaxBytes : AskSetUsage(a, v)
          \/ \E t \in Tiers : StartSetTier(a, t)
    \/ StartOther

MonthlyReset == DueScan \/ \E a \in Accounts : DueReset(a) \/ DueRefused(a)

\* the steps of the goroutine that holds c.mu in a reconcile
ReconcileStep ==
    \/ RecFold \/ RecFoldFails
    \/ RecMutate \/ RecMutateFails
    \/ RecLoad \/ RecApply \/ RecApplyFails \/ RecLoadFails

Reconcile ==
    \/ \E r \in waiting : Start(r)
    \/ SyncStart
    \/ ReconcileStep

Next ==
    \/ Environment
    \/ Boots
    \/ Sampler
    \/ \E p \in Persisters : Persister(p)
    \/ Clients
    \/ MonthlyReset
    \/ Reconcile

Spec == Init /\ [][Next]_vars

\* reconciles that goroutine g asks for again and again do not all fail
Succeeds(g) ==
    []<><<rec'.pc = "fold" /\ rec'.req.by = g>>_rec
        => []<><<rec.req.by = g /\ RecApply>>_vars

\* No call a reconcile makes blocks for ever (nft has timeouts), c.mu is a
\* sync.Mutex, which starves no goroutine that waits for it, however busy the
\* others keep it, and the loops are driven by tickers.
ServiceSpec ==
    /\ Spec
    /\ WF_vars(ReconcileStep)
    /\ WF_vars(PersistWrite(PersistLoop) \/ PersistFails(PersistLoop))
    /\ SF_vars(SyncStart)
    /\ Succeeds("sync")
    /\ SF_vars(DueScan)
    /\ \A a \in Accounts :
          /\ SF_vars(DueReset(a) \/ DueRefused(a))
          /\ SF_vars(Start(Request("reset", a, 0, "a", "loop")))
    /\ SF_vars(\E r \in waiting : r.by = "rpc" /\ Start(r))
    /\ Succeeds("loop")

-----------------------------------------------------------------------------
(* Properties.                                                             *)

RecType == [pc: {"idle", "fold", "mutate", "load", "apply"},
            req: Requests, raced: BOOLEAN, read: State, seen: Samples]

SmpType == [pc: {"idle", "read", "done"}, gen: Nat, val: Samples]

PerType == [pc: {"idle", "write"}, copy: Samples]

\* Every variable has its type; in particular a daemon that serves has built
\* the kernel table (New applies before Start).
TypeOK ==
    /\ daemon \in {"down", "boot", "up"}
    /\ table \in BOOLEAN
    /\ daemon = "up" => table
    /\ kused \in Samples
    /\ db \in State
    /\ snap \in State
    /\ live \in Samples
    /\ gen \in Nat
    /\ unsynced \in BOOLEAN
    /\ rec \in RecType
    /\ rec.pc # "idle" => daemon = "up"
    /\ rec.req.op # "other" => rec.req.acct \in Accounts
    /\ waiting \subseteq Requests
    /\ \A r \in waiting : r.acct \in Accounts
    /\ due \subseteq Accounts
    /\ smp \in SmpType
    /\ smp.pc # "idle" => daemon = "up"
    /\ per \in [Persisters -> PerType]
    /\ cycle \in Nat
    /\ charged \in [Meters -> Nat]
    /\ zeroed \in [Accounts -> Nat]
    /\ suspect \in BOOLEAN

Within(s, top) == \A m \in Meters : s[m] # None => s[m] <= top[m]

\* Whatever is lost, overtaken, replayed from disk or seeded twice, no copy of
\* a byte count ever exceeds what was metered or set: neither the fold of a
\* sample (reconcile, persistNow, adoptLiveState) nor the seed of a rebuild
\* counts a byte again.
NoByteChargedTwice ==
    /\ Within(kused, charged)
    /\ Within(live, charged)
    /\ Within(db.used, charged)
    /\ Within(snap.used, charged)
    /\ Within(smp.val, charged)
    /\ \A p \in Persisters : Within(per[p].copy, charged)
    /\ Within(rec.read.used, charged)

\* what viewLocked shows for an account with a quota and for a port
ShownAccount(a) == IF live[a] # None THEN live[a] ELSE snap.used[a]

ShownPort(p) == IF live[p] # None THEN live[p] ELSE 0

\* Unless the last rebuild failed or a persister wrote under it, what a client
\* is shown exists in the kernel and has been metered there: a sample that was
\* in flight while usage was lowered never comes back into c.live, which is
\* what c.gen is for.
ViewNeverAhead ==
    MuFree /\ ~suspect =>
        /\ \A a \in Accounts : HasQuota(snap.tier[a]) =>
              kused[a] # None /\ ShownAccount(a) <= kused[a]
        /\ \A p \in Ports : kused[p] # None /\ ShownPort(p) <= kused[p]

\* A rebuild nothing overtook, at a start or in a reconcile, seeds every object
\* with exactly the usage the client sees next: what was sampled, what SQLite
\* was given, what the closure changed and what the reload returned agree.
SeedsMatchLive ==
    [][BootApply \/ (RecApply /\ ~rec.raced) =>
          \A m \in Meters : kused'[m] # None /\ live[m] # None =>
              kused'[m] = live[m]]_vars

\* What was metered when a reconcile took c.mu is still there when it has
\* replaced the table, unless it was asked to lower it; failures before the
\* rebuild refuse the mutation instead.
RebuildKeepsMetered ==
    [][RecApply /\ ~rec.raced =>
          \A m \in Meters :
              /\ kused'[m] # None
              /\ rec.seen[m] # None
              /\ ~(m = rec.req.acct /\ rec.req.op \in {"reset", "setusage"})
              => kused'[m] >= rec.seen[m]]_vars

\* A change that is saved but not in the kernel gets there: syncLoop retries
\* until an apply succeeds.
UnsyncedHeals == unsynced ~> ~unsynced

\* An account of a resetting tier is not past its billing boundary for ever.
MonthlyResetHappens ==
    \A a \in Accounts :
        Resets(snap.tier[a]) /\ snap.cycle[a] < cycle
            ~> ~Resets(snap.tier[a]) \/ snap.cycle[a] = cycle \/ daemon # "up"

-----------------------------------------------------------------------------
(* What comments and the README of the program promise and the code does   *)
(* not keep.  The README of this project says under which constants each   *)
(* of them fails.                                                          *)

\* "persistNow can never race a reset into reviving pre-reset usage": when the
\* rebuild of a reset is done, the account's quota starts from zero.
ResetReachesKernel ==
    [][RecApply /\ rec.req.op = "reset" => kused'[rec.req.acct] \in {0, None}]_vars

\* An account whose row says it was reset in this cycle has had its usage
\* zeroed, once no change is pending.
CycleMarkedMeansZeroed ==
    MuFree /\ ~unsynced => \A a \in Accounts : db.cycle[a] <= zeroed[a]

\* "no accounting is lost across a rebuild": a port's counters never go back.
RebuildKeepsCounters ==
    [][RecApply => \A p \in Ports : kused'[p] >= kused[p]]_vars

\* The daemon itself never resets an account that is not of tier a.
OneShotNeverReset ==
    rec.pc = "mutate" /\ rec.req.by = "loop" =>
        Resets(db.tier[rec.req.acct])

\* "a stale persist can at worst write a slightly-old value that the next
\* sample immediately heals upward": there is a quota to sample, then, when
\* one lowers an account's usage.
StalePersistHeals ==
    [][\A p \in Persisters, a \in Accounts :
          PersistWrite(p) /\ rec.pc = "idle" /\ db'.used[a] < db.used[a] =>
              kused[a] # None]_vars

=============================================================================

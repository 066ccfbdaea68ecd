# A TLA+ verification of nfuse

nfuse meters and caps the traffic of port ranges with nftables. A daemon keeps
accounts and ports in SQLite, renders them into one kernel table, samples the
kernel's counters and quotas, and writes usage back. A CLI, a TUI and a
read-only HTTP endpoint talk to it over a unix socket.

This directory holds models of the parts where order, failure and time decide
whether the daemon is right, TLC configurations that check them on small
instances, and TLAPS proofs of the main invariants for all instances. Every
definition that stands for code is listed in `PROJECT.json` under `map`, with
the lines it translates.

Run from this directory:

    tlasany Metering.tla
    tlc -workers 2 -config metering_races.cfg MCMetering
    tlapm MeteringProofs.tla

## 1. Inventory

| component | state it keeps | operations | talks to |
|---|---|---|---|
| usage accounting (`engine.go`, `store.go`, `nft.go`) | kernel counters and quotas, `c.live`, `c.snap`, `c.gen`, `c.unsynced`, `used_bytes` and `last_reset_unix` in SQLite, copies in flight | sample, persist, `reconcile`, `SetUsage`, `ResetAccount`, `runDueResets`, `syncKernel`, `New` hot and cold | kernel, SQLite, RPC handlers, three loops |
| accounts and ports (`engine.go`, `store.go`, `model.go`) | rows of `accounts` and `ports`, `c.snap` | add, delete, tier, add / edit / delete / move port | SQLite, kernel, RPC clients |
| automatic expiry (`engine.go`, `nft.go`) | `expire_unix`, `c.expired`, the clock | `SetExpiry`, `syncLoop`, the `snap.Now` of a rebuild | SQLite, kernel |
| RPC client and server (`rpc/`) | one connection per client, replies under way | `call` with one redial and replay, `dispatch` | engine, CLI, TUI |
| daemon lifecycle (`cli/lifecycle.go`, `rpc/server.go`, `nfuse.sh`) | processes, the socket file, the kernel table, systemd's unit | guard, start, `Listen`, `Serve`, `Close`, teardown | file system, kernel, systemd |
| query tokens (`store.go`, `engine.go`) | `query_token` per account, the master token, `c.masterToken` | `ensureTokens`, regenerate, `QueryByToken` | SQLite, HTTP |
| ruleset generation (`nft.go`) | none; the table in the kernel is the engine's | `buildScript`, `Apply`, `Sample` | kernel |
| store schema and migrations (`store.go`) | the schema | `migrate`, `ensureTokens` | SQLite |
| billing dates (`engine.go` 834-844) | none | `nextReset` | usage accounting |
| terminal UI (`tui.go`) | the rows last drawn, the selected row, the remembered entity, the open dialog with the row it captured | redraw, move, one handler per key, the dialog's button | RPC client |
| command line (`commands.go`) | the id a name resolved to, between two calls | one command per process | RPC client |
| HTTP query endpoint (`httpapi.go`) | none | answer a token with the status of accounts | engine |
| preflight, installers | none that outlives a request | version check, package managers | kernel, systemd |

How they interact. Every mutation goes through `Controller.reconcile`, under
`c.mu`: sample the kernel, fold the sample into SQLite and `c.live`, run the
closure of the mutation, load the rows, replace the whole kernel table, keep
the rows as `c.snap`. `sampleLoop` reads the kernel without the lock and
commits under it, guarded by `c.gen`. `persistNow` copies under the lock and
writes without it. `syncLoop` retries an apply that failed and notices expiries.
Clients act on views that are stale by the time their call arrives, and replay
a call when the connection breaks.

What is hard, and what correct means:

- *usage accounting*: samples and writes in flight while usage is lowered;
  nft or SQLite failing at any call, also after it committed; crashes, which
  leave a kernel table with newer counts than SQLite; due accounts chosen
  before the lock is given up. No byte is charged twice; clients are never
  shown a count the kernel does not have; a rebuild goes on from what was
  metered; a change reaches the kernel in the end; a monthly reset happens.
- *accounts and ports*: checks against `c.snap` and statements against SQLite;
  ids from stale views; replayed calls. Every call is one legal operation of a
  directory; the kernel enforces the rows; two ports never match one packet.
- *expiry*: the time is read three times, by the loop, by the rebuild and by
  the view. What is blocked was expired at one moment; it follows the clock.
- *lifecycle*: probes, removals, binds and listens by several processes on one
  path. A daemon that answers keeps its socket, and has a table; the service comes
  back and clients reach it.
- *ruleset and status*: rule order, ranges and both directions, a quota shared by
  the ports of an account and listed capped at its limit, samples older than the
  limit they are compared with. Every packet is blocked, or charged and counted
  once; nobody gets more than the limit and what a late persist took back; clients
  are told so.
- *billing dates*: months of different lengths, days of 23 or 25 hours, resets on
  the day itself. An account is due from its billing day on and not before.
- *front ends*: a table redrawn under the selection and under an open dialog,
  views and calls that fail, names looked up in one call and used in another,
  operations of two calls. What changes is what the user was shown or named;
  success means all of it.
- *migrations and tokens*: migrations of several statements without a
  transaction. No port loses its range, nobody is left without a token, no token
  changes, none leads to two places.

The full list, each at its line, is in `PROJECT.json` under `hazards`.

## 2. Modules

`Metering` is the usage accounting. A byte count is `kused` (kernel objects;
accounts with a quota and all ports), `smp` (a sample being taken), `live`,
`snap.used`, `per` (copies on their way to SQLite) and `db.used`. `rec` is the
reconcile that holds `c.mu`, with its program counter at each call that others
overlap with: `fold` (engine.go 340-372), `mutate` (374), `load` (379), `apply`
(386). Requests that pass a check under `c.mu` and then wait for it again
(`SetUsage`, `ResetAccount`) sit in `waiting`. Steps that hold the lock all the
way are one action. `New` is `BootHot` or `BootCold`, then `BootApply`; the
read, fold and load of a hot start are one action because nothing but the
kernel runs beside them, and the kernel only counts up. Mutations that change
no usage are the request `other`. `cycle` counts billing boundaries in place
of dates. `charged` (what was metered or set), `zeroed` and `suspect` are
history variables that no guard reads.

`Registry` is accounts and ports with their clients: what a client saw, asked
for, had refused, lost the reply of and replayed. Its reconcile is one step per
outcome (refused, applied, apply failed, load failed, crash inside), because
every other user of `c.snap` and the tables waits for `c.mu`; the one operation
that checks before it takes the lock, `MovePort`, has its check as a step of
its own. `Directory` is what it promises: one directory, changed by one legal
operation at a time, ids given out in order and never twice (`lastA`, `lastP`).
`Registry!ImplementsDirectory` instantiates it with the SQLite rows and their
AUTOINCREMENT sequence.

`Expiry` has the clock, `expire_unix` and tier in SQLite and `c.snap`, the
blocked accounts in the kernel, `c.expired`, and `syncLoop` from its reading of
the clock (before the lock) to the end of its reconcile. `Rendered` is what
`buildScript` blocks at the rebuild's own reading of the clock.

`Sorting` is a list in the order of a key (`ORDER BY`, `sort.Slice`). `Billing` is
`nextReset` and the due test over a calendar given by constants: the
first day of each month and the first instant of each day. `Boundaries` is the
reference. `Ruleset` is `buildScript` as a sequence of rules, what netfilter does
to a packet that meets them in order (external: a quota charges every packet
that comes to it and drops those past its limit), what `Sample` reads, and the
promise of the README as an operator of its own, `Promise`. `Policy` composes
the two: packets, the clock, samples, and the engine's reconcile in two steps,
the rows and the reload with its apply, with the kernel's traffic between them.
`rows` is `c.snap.Accounts`, `stored` is `used_bytes` in SQLite (its other columns
are those of `rows`). A persister copies `live` into `rows` and `held` under the lock
(`PersistCopies`, engine.go 275-295) and writes `stored` whenever it gets to it
(`PersistWrites`, 306), between the fold and the reload of a reconcile too; `Apply`
seeds the kernel with what `stored` has then. `passed`, `forgotten` (bytes such a
write took back) and `ahead` (accounts it happened to since the last sample) are
history variables; only the bound `MaxForgotten` reads one of them. Nothing fails,
crashes or reboots in `Policy`: failures of a reconcile and restarts are in
Metering, Registry and Expiry. `Status` is what the query endpoint and
the TUI say, `ListStatus` what `nfuse list` says.

`Console` is the two front ends over one directory (`Directory`'s operations, by
INSTANCE) that other programs change as well. `rows`, `cursor`, `sel` and `box`
are the UI's table, selected row, remembered entity and open dialog; each handler
of a key is one operator, with the rows it is for and the calls its button makes.
`Press` opens a dialog, `Confirm` makes its call, `Finish` is the redraw at the
end of the handler, and while a handler waits the ticker's `Refresh` waits too,
as both run on tview's goroutine. A command is `Look` (resolveAccount), then
`Act`; `add --expire` is `Add`, then `AddExpiry`. A call may fail after it was
carried out. `chosen` is a history variable: what the user last put the
highlight on.

`Lifecycle` has the program counter of each `nfuse server` process from
`singleInstanceGuard` to its exit, the owner of the file at the socket's path,
the daemon that last built the kernel table, the exit code a process is heading
for, whether systemd will start the service, and `nfuse teardown` between its
probe and its deletion. stat, dial, remove, bind and listen are a step each
(`net.Listen` is the last two: in between, at "named", the file is there and a dial is
refused); so are the two removals of `Close`. The history variable `gap` records a
probe that fell between a bind and its listen and took the path for a leftover.
`Settled(d)` is a daemon that answers at the path with nobody next to it who bound it
before or is about to remove it. `events` is
what may happen in a behaviour, chosen from `Scenarios` at its start; "queue" is
an accept queue that is full, so that a probe of a live daemon fails.

`Tokens` has the migrations and the token of each account and the master token,
in SQLite and in memory. `Open` starts from a database that lacks any of the three
later columns and goes statement by statement through `migratePortRange` (column,
then the ends of ports without one), `migrateExpiry` and `ensureTokens` (column
and the tokens in use, master token, backfill); each may be where a start breaks
off. `meant` is a history variable: the end a port has, or had before there was a
column. A token drawn at random is any value
that the drawing code does not know to be in use: that two of 52^16
collide by chance is left out, that the code knows the wrong set is not.

`MC*` give the constants their model values. The names of the constants in the
models' headers say what each bound cuts off.

## 3. Runs

Every definition named `mutant of X` is X with a plausible mistake; for every
property below `PROJECT.json` names one that breaks it.

| run | shows | bounds |
|---|---|---|
| `metering_races` | `ViewNeverAhead`, `SeedsMatchLive` with `persistLoop` and a `ForcePersist` at once, resets and set-usages, no failures | 1 account, 1 port, 2 bytes, 2 reconciles |
| `metering_failures` | `NoByteChargedTwice`, `SeedsMatchLive`, `RebuildKeepsMetered` and `TypeOK` when every nft and SQLite call may fail, with crashes and reboots between any two steps | 1 byte, clients ask until 1 reconcile succeeded |
| `metering_service` | `UnsyncedHeals`, `MonthlyResetHappens` under `ServiceSpec`, with failed applies and tier switches under the due scan | 1 boundary |
| `registry_stale` | `StaleIdsAreHarmless`, `PlainDeleteDropsNoPort`, `ImplementsDirectory` for two clients with stale views; tiers switch under expiries | 2 account ids, 2 names, port range 1..2, 1 port id asked for at a time |
| `registry_failures` | `KernelFollowsRows`, `KernelIsUnambiguous`, `TypeOK` with refused folds, failed reloads and applies, crashes and replays | 2 clients, 2 account ids, 1 name, ports 1..1 |
| `expiry` | `KernelIsOneMoment`, `KernelFollowsClock`, `TypeOK`; clock steps, every failure, crashes | 2 accounts, times 0..2, 2 calls |
| `lifecycle` | `SocketIsServers`, `TeardownSparesServers` when starts meet no leftovers (together, failed, with teardown); `SocketStays`, `KernelHasTable`, `ServiceComesBack`, `TypeOK` also with HTTP and accept errors, crashes, reboots and stops, and all but `SocketStays` with full accept queues | 2 daemons, 3 scenarios |
| `tokens` | `RangesSurvive`, `NobodyWithoutToken`, `NeverRerolled`, `TokensAreUnambiguous`, `QueriesFollowRows`, `TypeOK` over old and new databases, starts broken off anywhere, failed reloads, crashes inside calls | 3 accounts, 5 token values, 1 port |
| `policy` | `RulesetKeepsPromise`, `WithinBudget`, `StatusIsTruth`, `ResetsAreDue`, `TypeOK` | 3 ports of 2 accounts, one a range; packets to and from every number around them; 4 months of 2 or 3 days, one day long; limits 0 and 2; expiries 0 and 4; 1 persister, which starts while nothing is forgotten (`MaxForgotten` 0) |
| `console` | `SelectionStays`, `ActsOnShown`, `NoHiddenCascade`, `CommandHitsWhatWasNamed`, `SuccessIsWhole`, `TypeOK` | 7 scenarios of keys, commands and what others do; 3 account ids, 2 port ids, 3 spans; numbers as names |
| `reset_race` | refutes `ResetReachesKernel` | see section 6 |
| `limit_lowered` | refutes `UsageFallsByReset` | see section 6 |

Why the bounds are enough. The accounting of one account or port never looks
at another's, so one of each shows every interleaving of its copies; the proofs
drop the bound. Two bytes make a stale copy, a fresh copy and zero differ. Two
generations let a sample straddle a reconcile and the next one begin. Registry
needs two clients (one acts between the other's look and its call) and an id
and a name given out after a delete; `MaxPorts` bounds the ids at the moment of
asking, so two clients still add two ports at once. Expiry needs a time before,
at and after an expiry, and a second account for a rebuild to be of two moments.
A third daemon only repeats what the second does to the first. Five token values
are one for each holder and one to replace it with; a port looks at no other in
the migrations. A rule looks at one port
number, so traffic is one packet for each number in and around the table's
intervals and direction, and two whose other number is a port; a limit of 2 has
usages below, at and past it by packets of 1 and 2; a persister that holds an old copy
over a reconcile, or over several, is enough to overtake one; months of two lengths, two
anchors and a day of double length give every order of a reset and a boundary.
The console's scenarios split what does not interact: a dialog's button only
sees its own box, and commands share nothing with the table but the directory.

`registry_*` may stop, when all ids are used and a daemon cannot start or has
nothing left to do; `policy` and `limit_lowered` stop where the calendar ends;
`console` stops where everything is deleted and all ids are used. They switch
deadlock checking off.

What runs leave out on purpose. After a failed reload calls are judged by an old
copy, and `ImplementsDirectory` and `KernelFollowsRows` say so by the history
variable `behind`; `registry_stale` has no failed reload because
`PlainDeleteDropsNoPort` is false after one (section 6). In `Tokens` the history variable
`missed` does the same for two properties. `SocketIsServers` and
`TeardownSparesServers` are claimed for `Orderly` behaviours, those without crashes,
stops and full queues, and until a probe falls into the gap of somebody's
`net.Listen`; `SocketStays` for all but full queues. `ServiceComesBack` excepts,
where daemons close, die or are rebooted, the service that serves on a path another
daemon removed. `WithinBudget` does not count what passes between the sample of a
reconcile and its apply (section 6, `RebuildKeepsCounters`), and allows for what a
persister's write took back between fold and reload; `StatusIsTruth` lets such a
write make BREACHED early until the next sample. TLC refutes all of these when the
exception is taken out. `limit_lowered` has no persister: what it refutes needs none.
`Console` takes the
view to be the directory: a view that a failed reload left behind is in
`Registry`. It also leaves out a click on the header or below the last row, which
`onSelectionChanged` ignores (tui.go 286) until the next redraw puts the highlight
back on the remembered entity.

## 4. Fairness

`Metering!ServiceSpec`: a reconcile that has `c.mu` goes on, because nft is run
with a timeout and SQLite with a busy timeout; the loops are driven by tickers;
`sync.Mutex` hands the lock to a goroutine that has waited for 1 ms, so a
goroutine that wants it again and again gets it however busy the others are
(strong fairness of `SyncStart`, `DueScan`, `DueReset` and the starts of waiting
requests); reconciles asked for again and again by one loop do not all fail
(`Succeeds`). No fairness is assumed of traffic, boundaries, clients, failures,
crashes or reboots. A write to SQLite may fail every time.

`Expiry!FairSpec`: the same for `syncLoop` and its reconcile; systemd starts a
daemon that is down, and starts do not all fail.

`Lifecycle!FairSpec`: a process that can take its next step takes it (`Forward`);
no daemon dies every time between its bind and its first `Accept`, and no step of the
service's start is cut short every time it could succeed (strong fairness of each; of
its bind while the path is free); systemd starts what is due (`Restart=on-failure`,
nfuse.sh 147). `ServiceComesBack` says nothing about a service that somebody
stopped or that left with exit code 0.

## 5. Proofs

Proved for any sets of accounts, ports, clients, daemons and tokens, any
operations, faults and bounds. Every invariant the runs check and every action
property is a theorem, one of them under a condition. The assumptions are named in the
modules and evaluated by the runs: types of the constants (`MeteringAssumption`,
`ExpiryAssumption`, `RegistryAssumption`, `LifecycleAssumption`,
`TokensAssumption`, `PolicyAssumption`); a calendar in order
(`CalendarAssumption`); ports whose ranges are disjoint, which Registry's
`KernelIsUnambiguous` shows of what reaches the kernel (`TableAssumption`); a directory
as `Load` returns it to start from (`ConsoleAssumption`); and that every
account has traffic, the smallest packet being the unit of sizes
(`TrafficAssumption`), which only the second half of `StatusIsTruth` needs: what a
quota has room for is a matter of the packets there are.

- `MeteringProofs!TypeCorrect`. `TypeOK` is inductive. Besides types it says
  that a daemon that serves has built its table, and that samples and reconciles
  belong to a daemon that is up, which the guards need at every step.
- `MeteringProofs!ChargedOnce`. `NoByteChargedTwice` bounds every copy at once by
  `charged`, and so is inductive with `TypeOK`: each step copies (`Fold`,
  `Render`, `Loaded`) or raises `charged` with the kernel.
- `MeteringProofs!ViewTheorem`, `SeedTheorem`, `RebuildTheorem`. What clients
  see is not inductive. `ViewInv` strengthens it by what holds at each point of a
  reconcile and of a sample: until the closure runs, `live` and `snap` are at
  most what the kernel has (`ServeInv`); from the fold on, `live` and SQLite agree
  unless a persister wrote in between (`RecInv`); a sample of the current
  generation is not ahead of the kernel (`SampleInv`), which is where the
  generation guard earns its keep: a rebuild that lowers a count raises `gen`;
  what the kernel had when the lock was taken is in the kernel, then in the
  sample, then in the rows (`SeenInv`); a start has `live` agree with what it
  loaded (`BootInv`).
- `ExpiryProofs!TypeCorrect`, `OneMomentTheorem`. `MomentInv` adds to
  `KernelIsOneMoment` that a start renders the rows it keeps as `c.snap`, and
  drops the condition that `c.mu` is free.
- `SortingProofs`: lemmas on lists. `SortedBy` has every element of a finite set once
  and in order, and `FlattenSeq` puts sequences end to end, each whole and nothing
  else. The library's induction theorems take the goal as an operator, which SMT and
  Zenon cannot instantiate; its minimum principle (`WFMin`) takes a set, so
  the inductions here are over the set of lengths for which the goal holds
  (`Induct`, `Least`), or the family of subsets for which it fails
  (`SmallestSubset`).
- `PolicyProofs!NextResetIsNext`, `DueMeansBoundaryPassed`. At every instant of any
  calendar `nextReset` is the least billing day after it, because the day of the
  next month comes after every instant of this one (`Shortest` bounds the anchor)
  and the months leave no gap (`NoGap`, by `Least`).
- `PolicyProofs!DueTheorem`. `ResetsAreDue` through any behaviour: `DatesOK` keeps
  every reset between the start of the calendar and now, and anchors legal.
- `PolicyProofs!PromiseTheorem`. `VerdictIsPromise`: for any ports in any order, the
  rules of ports a packet is not for leave it alone, those of its own port do what
  was promised (`RulesFor`, case by case), and disjoint ranges make that port the
  only one. `Verdict` folds the rules from the left, so this is an induction over
  the prefixes of the sequence.
- `PolicyProofs!PolicyTypeTheorem`, `BudgetTheorem`, `StatusTheorem`, for any number
  of persisters. With the verdict settled, `PolicyInv` is inductive: the kernel's
  quotas are those of the rows it was rendered from, whose usage persisters may have
  changed since (`KernelInv`, `Agree`); a view at its limit was at its limit in the
  kernel, unless a write overtook a reconcile, and while a reconcile waits for its
  reload the sample is at most what SQLite has, except where such a write came
  (`BreachInv`); what an account was let pass since its usage was last set is at most
  what was charged, or in SQLite during a reconcile, and what was forgotten
  (`BudgetInv`: a write that lowers `stored` raises `forgotten` by the same).
- `RegistryProofs!KernelTheorem`, `UnambiguousTheorem`, `StaleTheorem`. `Inv` adds
  to the properties: copy and kernel have the rows unless a failure is on record
  (`Synced`); what was applied passed `Validate` (`Valid(kern)`), which is why two
  ports never match one packet even after a failed reload; an id in `c.snap` and in
  a request still means the account it meant when it was given out (`SameNames`,
  `SeenNames`), because ids only go up.
- `RegistryProofs!Refinement`. `Spec => ImplementsDirectory`, by the same invariant:
  `StatementRefines` has one step per statement, each an operation of `Directory`
  whose preconditions the checks against `c.snap`, the constraints of SQLite or
  `OwnersExist` give; every other step leaves the rows alone.
- `RegistryProofs!PlainDeleteTheorem`, `DisjointTheorem`, under `"load" \notin
  Faults`; both are false after a failed reload (section 6). Without one the copy is
  never behind (`InStep`): the checks on a copy that has the rows keep the rows
  valid, so `Validate` never refuses them.
- `ConsoleProofs!SelectionTheorem`. `SelectionStays` is not inductive: rows may be
  stale. `HighlightInv` adds what is true of the directory: as long as what the user
  chose exists, the remembered entity is it. `ViewIsComplete` says that a redraw
  shows every account and port and nothing else, so what exists is found again by
  `restoreSelection` and what is not shown is gone; it does not come back, because
  no id is given out twice (`IdsOnce`). `TypeTheorem` comes with it.
- `ConsoleProofs!ShownTheorem`, `CascadeTheorem`, `NamedTheorem`, `WholeTheorem`.
  `HandlerCalls` has what each button may call, key by key; `BoxInv` that a dialog
  about a port knows which; `CommandInv` that between its two calls a command holds
  an id that means what was typed, or nothing any more; `ExpiryGiven` that a second
  call that succeeded set the expiry or met no account.
- `TokensProofs!UnambiguousTheorem`, `CompleteTheorem`, `QueriesTheorem`,
  `RerollTheorem`, `RangesTheorem`. That tokens differ is inductive only with what
  `ensureTokens` knows: every token there is, before it draws one (`Known`), and
  with the engine's copies being the rows (`Copies`). `Progress` and `Ranges` say
  how far each step of the migration has come, wherever earlier starts broke off.
- `LifecycleProofs!SocketTheorem`, `StaysTheorem`, `TableTheorem`, `SparesTheorem`,
  for any number of daemons started by hand. `PathOwned` says that without leftovers,
  and until a probe falls between a bind and its listen, the path belongs to whoever
  bound it and nothing ever comes as far as removing it; that at most one daemon
  listens follows from `SocketIsServers`. `SocketStays` is an action property:
  `OthersLeaveIt` has that no step of another daemon comes to be about to remove a
  path that is answered. `ServiceLeft` is the part of `TypeOK` about systemd, which
  needs where the service's process is; `TableKept` is `KernelHasTable` with no
  teardown on its way.

A proof that a step preserves an invariant has one step per action of `Next`.

Only model-checked: liveness (`UnsyncedHeals`, `MonthlyResetHappens`,
`KernelFollowsClock`, `ServiceComesBack`), because TLAPS 1.4 has no rules for
`ENABLED` and so fairness is out of its reach; and the two runs that refute a claim.

## 6. Disagreements between code and claims

Two have a run.

- `reset_race`: `persistNow` copies usage under `c.mu` and writes it later
  (engine.go 306). A reset may run its closure in between, and then reload the
  old usage and seed the quota with it. The comment at engine.go 272-274 says
  that this can never happen. The cycle is marked as reset.
- `limit_lowered`: nft lists the usage of a quota capped at its limit, and the
  daemon takes the number for the usage. Lowering a limit below the usage
  (`SetTier`, engine.go 563-577) rebuilds the quota, the next reconcile folds the
  capped number into `used_bytes`, and when the limit is raised again the
  difference is free. engine.go 573-575 and README.md 613-617 say that switching
  tiers clears nothing and that only a reset does.

The others are stated in the modules, each with the constants that refute it
(`CHECK_DEADLOCK FALSE` where the run just ends):

| property | constants | what happens |
|---|---|---|
| `Metering!CycleMarkedMeansZeroed` | `Ops = {"reset"}`, `Faults = {"crash"}` or `{"apply"}`, one of each bound | a daemon that dies between `MarkReset` and the apply folds the kernel's old usage back at its next start, and `last_reset_unix` keeps the due scan from trying again; a failed apply does the same without a crash; model.go 20 |
| `Metering!RebuildKeepsCounters` | `Ops = {"other"}`, no faults | what is metered between the fresh sample and the apply is gone; nft.go 76-77 says "no accounting is lost across a rebuild" |
| `Metering!OneShotNeverReset` | `Ops = {"reset", "settier"}`, `MaxCycle = 1` | an account switched to tier b after the due scan chose it is reset; model.go 21 says "never reset" |
| `Metering!StalePersistHeals` | `Ops = {"settier"}`, `MaxBytes = 2` | a late persist lowers the row of an account that was paused meanwhile, and no sample heals it; engine.go 269-271 |
| `Registry!RowsAreDisjoint` | `Faults = {"load"}`, `MaxPorts = 2` | after a reload that failed, `AddPort` is judged by the old `c.snap` and inserts an overlap; every later reconcile and start is refused by `Validate`; engine.go 652-657 |
| `Registry!FailureMeansNotDone` | `Faults = {"crash"}` | a replayed `AddAccount` meets its own first try and reports failure; client.go 32-35 |
| `Expiry!SavedExpiryIsEnforced` | `FairSpec`, `Faults = {"load"}` | an expiry saved before a reload that failed is known to nobody; engine.go 63-66 |
| `Lifecycle!SocketIsServers`, without `~gap` | `Scenarios` of `{}` | of two that start together the second probes between the first's bind(2) and listen(2) (both in server.go 96), is refused, removes the path and binds it: both listen and one is out of reach; server.go 84-88, rpc_test.go 250-251. `TeardownSparesServers` without `~gap`, with `{"teardown"}`: teardown's probe does not find the one that lost the path; lifecycle.go 116-124 |
| `Lifecycle!SocketIsServers`, without `Orderly` | `Scenarios` of `{"crash"}` or `{"stop"}` | two daemons find one leftover and the slower removes the faster one's socket (server.go 91-95); or `Close` removes the path a second time, after the listener did, and takes a new daemon's socket (136-138) |
| `Lifecycle!ServiceComesBack`, without its last disjunct | `Scenarios` of `{"http"}` or `{"stop"}` | a daemon that closes removes the path the service has just bound (136-138), and the service serves where nobody can reach it: systemd sees a process that runs |
| `Lifecycle!ServerOwnsKernel` | `Scenarios` of `{}` | of two that start together the one `Listen` refuses has rebuilt the table; lifecycle.go 149-152 |
| `Lifecycle!TeardownLeavesTable` | `Scenarios` of `{"teardown"}` | teardown takes a daemon still in `New` for none and deletes its table, so it serves without one; lifecycle.go 117-119 |
| `Lifecycle!ServiceStaysUp` | `FairSpec`, `Scenarios` of `{"accept"}` | `Accept` fails, the daemon exits with 0 and systemd leaves it; lifecycle.go 41-42 |
| `Policy!WithinBudget`, without `forgotten[a]`, `StatusIsTruth`, without `ahead` | as `policy` | a persister's write of an older copy lands between the fold and the `Load` of any reconcile (engine.go 306 between 370 and 379): the quota is seeded below what was metered, so the difference is free, and until the next sample the view says BREACHED of an account whose packets pass; engine.go 269-271 says the next sample heals a stale persist |
| `Policy!ListStatusIsTruth` | as `policy` | `nfuse list` prints the live usage but says `BREACHED` by the usage persisted last (commands.go 787, model.go 133), so a blocked account is listed without it for up to a persist interval; httpapi.go 229-233 takes the live usage for that reason |

Two more have no property. The prompt of a deletion counts ports "so the prompt is
honest" (tui.go 714), but deletes those added after it was shown as well, when it
counted any. The hint of a failed `nfuse add --expire` names the account by its id
(commands.go 165); if another account is named by that number, it is that one that
`set-expire` changes. Switching an account back to tier a resets its usage at the
next scan if its last reset is more than a month old (engine.go 818), however
recently it was used as tier b.

A failed reload also lets `SetExpiry` give a time to an account that was just
switched to the unlimited tier, breaks `PlainDeleteDropsNoPort`, and leaves the
token of a deleted account working until the next reconcile.

## 7. Not modelled

The text of the nft script and of its JSON; formatting and JSON of the RPC; paths
and formats of the HTTP endpoint; flags, prompts and tables of the CLI; layout and
health line of the TUI; packets that are neither TCP nor UDP (no rule matches
them); sizes of real packets and limits; the kernel version check; the installers.

## 8. Plan

In order:

1. Copies catching up: once reconciles stop, `live` and SQLite equal the kernel
   under fair sampling and persisting. Fairness of both loops in `Metering` makes
   its smallest useful instance too large to check in minutes; it wants a model of
   the copies alone, which `Metering` implements.
2. Proofs about that model: each copy is at most what was metered, and a sample or a
   persist that is not overtaken makes two copies equal; the step from there to
   "eventually" stays with TLC.
3. A view that is behind the rows under `Console`: its table is the directory now,
   while after a failed reload (`Registry!behind`) it is an older one.

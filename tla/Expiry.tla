------------------------------- MODULE Expiry -------------------------------
(***************************************************************************)
(* Automatic expiry (internal/engine).  An account of tier a or b may have *)
(* a time at which the kernel starts to drop its traffic.  The rules in    *)
(* the kernel know no time: somebody has to rebuild them when a time       *)
(* passes.  syncLoop does, from what it remembers of the last rebuild      *)
(* (c.expired, c.unsynced), while clients change times and tiers, rebuilds *)
(* fail, the clock steps and the daemon dies.                              *)
(*                                                                         *)
(* Each time.Now() is a step of its own: the one syncKernel takes before   *)
(* it has c.mu, and the one a rebuild is rendered for.                     *)
(***************************************************************************)
EXTENDS Integers

CONSTANTS
    Accounts,    \* account ids
    Tiers,       \* "a" stands for both tiers that can expire; "c" cannot
    MaxTime,     \* bound: the clock shows 0..MaxTime
    MaxCalls,    \* bound: calls clients make
    Faults       \* the failures that may happen

\* "fold": a reconcile fails before its mutation; "load", "apply": the reload,
\* the apply fails; "crash": the daemon dies; "step": the clock is set back
AllFaults == {"fold", "load", "apply", "crash", "step"}

ASSUME ExpiryAssumption ==
    /\ MaxTime \in Nat
    /\ MaxCalls \in Nat
    /\ Tiers \subseteq {"a", "c"}
    /\ "a" \in Tiers
    /\ Faults \subseteq AllFaults

VARIABLES
    now,         \* the wall clock
    daemon,      \* "down", "boot" (inside engine.New) or "up"
    db,          \* tier and expiry of the rows; expiry 0 is never
    snap,        \* the same in c.snap
    kern,        \* the accounts whose packets the kernel drops
    expired,     \* c.expired
    unsynced,    \* c.unsynced
    rec,         \* the reconcile that holds c.mu, or the rebuild of New
    sync,        \* syncKernel: where it is and the time it read
    calls        \* calls made

vars == <<now, daemon, db, snap, kern, expired, unsynced, rec, sync, calls>>

-----------------------------------------------------------------------------

Times == 0..MaxTime

Rows == [Accounts -> [tier: Tiers, at: Times]]

HasExpiry(r) == r.tier # "c" /\ r.at > 0

ExpiredAt(r, t) == HasExpiry(r) /\ t >= r.at

\* expiredSet, which is also the set of accounts buildScript renders as a drop
ExpiredSet(st, t) == {a \in Accounts : ExpiredAt(st[a], t)}

SyncRequest == [op |-> "sync"]

Requests ==
    [op: {"setexpiry"}, acct: Accounts, at: Times]
    \cup [op: {"settier"}, acct: Accounts, tier: Tiers]
    \cup {SyncRequest}

NewRows == [a \in Accounts |-> [tier |-> "a", at |-> 0]]

\* read and now: the snapshot a rebuild is rendered from, with its snap.Now
NoRec == [pc |-> "idle", req |-> SyncRequest, read |-> NewRows, now |-> 0]

NoSync == [pc |-> "idle", now |-> 0]

MuFree == daemon = "up" /\ rec.pc = "idle"

Init ==
    /\ now = 0
    /\ daemon = "down"
    /\ db = NewRows
    /\ snap = NewRows
    /\ kern = {}
    /\ expired = {}
    /\ unsynced = FALSE
    /\ rec = NoRec
    /\ sync = NoSync
    /\ calls = 0

-----------------------------------------------------------------------------
(* The clock.                                                              *)

Tick ==
    /\ now < MaxTime
    /\ now' = now + 1
    /\ UNCHANGED <<daemon, db, snap, kern, expired, unsynced, rec, sync, calls>>

\* somebody, or NTP, sets the clock back
StepBack ==
    /\ "step" \in Faults
    /\ now > 0
    /\ now' = now - 1
    /\ UNCHANGED <<daemon, db, snap, kern, expired, unsynced, rec, sync, calls>>

-----------------------------------------------------------------------------
(* reconcile.                                                              *)

RecBegin(r) ==
    /\ MuFree
    /\ rec' = [NoRec EXCEPT !.pc = "mutate", !.req = r]
    /\ UNCHANGED <<now, daemon, db, snap, kern, expired, unsynced>>

Call(r) ==
    /\ r.op # "sync"
    /\ calls < MaxCalls
    /\ RecBegin(r)
    /\ calls' = calls + 1
    /\ UNCHANGED sync

\* the closure of SetExpiry looks at the tier in c.snap
Allowed(r) ==
    r.op = "setexpiry" /\ r.at # 0 => snap[r.acct].tier # "c"

\* The fold fails or the closure refuses.
RecRefused ==
    /\ rec.pc = "mutate"
    /\ "fold" \in Faults \/ ~Allowed(rec.req)
    /\ rec' = NoRec
    /\ UNCHANGED <<now, daemon, db, snap, kern, expired, unsynced, sync, calls>>

\* the rows after request r; a switch of tiers keeps the expiry
Mutated(r) ==
    [a \in Accounts |->
        IF r.op = "sync" \/ r.acct # a THEN db[a]
        ELSE IF r.op = "setexpiry" THEN [db[a] EXCEPT !.at = r.at]
        ELSE [db[a] EXCEPT !.tier = r.tier]]

RecMutate ==
    /\ rec.pc = "mutate"
    /\ Allowed(rec.req)
    /\ db' = Mutated(rec.req)
    /\ rec' = [rec EXCEPT !.pc = "load"]
    /\ UNCHANGED <<now, daemon, snap, kern, expired, unsynced, sync, calls>>

\* the reload, and the time applyLocked stamps on it
RecStamp ==
    /\ rec.pc = "load"
    /\ rec' = [rec EXCEPT !.pc = "apply", !.read = db, !.now = now]
    /\ UNCHANGED <<now, daemon, db, snap, kern, expired, unsynced, sync, calls>>

RecLoadFails ==
    /\ "load" \in Faults
    /\ rec.pc = "load"
    /\ rec' = NoRec
    /\ UNCHANGED <<now, daemon, db, snap, kern, expired, unsynced, sync, calls>>

Rendered == ExpiredSet(rec.read, rec.now)

RecApply ==
    /\ rec.pc = "apply"
    /\ kern' = Rendered
    /\ expired' = Rendered
    /\ snap' = rec.read
    /\ unsynced' = FALSE
    /\ rec' = NoRec
    /\ UNCHANGED <<now, daemon, db, sync, calls>>

\* mutant of RecApplyFails: the flag is not set
RecApplyFailsUnflagged ==
    /\ "apply" \in Faults
    /\ rec.pc = "apply"
    /\ kern' \in {kern, Rendered}
    /\ snap' = rec.read
    /\ rec' = NoRec
    /\ UNCHANGED <<now, daemon, db, expired, unsynced, sync, calls>>

\* nft fails, or is killed at its timeout after it committed.
RecApplyFails ==
    /\ "apply" \in Faults
    /\ rec.pc = "apply"
    /\ kern' \in {kern, Rendered}
    /\ snap' = rec.read
    /\ unsynced' = TRUE
    /\ rec' = NoRec
    /\ UNCHANGED <<now, daemon, db, expired, sync, calls>>

-----------------------------------------------------------------------------
(* syncLoop.                                                               *)

\* mutant of SyncNow: the loops are started before the first apply
SyncNowEarly ==
    /\ daemon # "down"
    /\ sync.pc = "idle"
    /\ sync' = [pc |-> "look", now |-> now]
    /\ UNCHANGED <<now, daemon, db, snap, kern, expired, unsynced, rec, calls>>

\* a tick: the time is read before c.mu is taken
SyncNow ==
    /\ daemon = "up"
    /\ sync.pc = "idle"
    /\ sync' = [pc |-> "look", now |-> now]
    /\ UNCHANGED <<now, daemon, db, snap, kern, expired, unsynced, rec, calls>>

\* mutant of Behind: only looks for accounts that expired
BehindOneWay ==
    unsynced \/ ~(ExpiredSet(snap, sync.now) \subseteq expired)

\* the kernel was given something else than what holds at the time read
Behind == unsynced \/ ExpiredSet(snap, sync.now) # expired

SyncLook ==
    /\ MuFree
    /\ sync.pc = "look"
    /\ sync' = IF Behind THEN [sync EXCEPT !.pc = "go"] ELSE NoSync
    /\ UNCHANGED <<now, daemon, db, snap, kern, expired, unsynced, rec, calls>>

SyncGo ==
    /\ sync.pc = "go"
    /\ RecBegin(SyncRequest)
    /\ sync' = [sync EXCEPT !.pc = "wait"]
    /\ UNCHANGED calls

\* its reconcile is over
SyncDone ==
    /\ sync.pc = "wait"
    /\ ~(rec.pc # "idle" /\ rec.req = SyncRequest)
    /\ sync' = NoSync
    /\ UNCHANGED <<now, daemon, db, snap, kern, expired, unsynced, rec, calls>>

-----------------------------------------------------------------------------
(* The daemon.                                                             *)

\* New loads the rows and stamps them ...
Boot ==
    /\ daemon = "down"
    /\ daemon' = "boot"
    /\ snap' = db
    /\ rec' = [NoRec EXCEPT !.pc = "boot", !.read = db, !.now = now]
    /\ UNCHANGED <<now, db, kern, expired, unsynced, sync, calls>>

\* ... and applies them
BootApply ==
    /\ daemon = "boot"
    /\ daemon' = "up"
    /\ kern' = Rendered
    /\ expired' = Rendered
    /\ rec' = NoRec
    /\ UNCHANGED <<now, db, snap, unsynced, sync, calls>>

\* the process is gone; the kernel keeps its table
Exit ==
    /\ daemon' = "down"
    /\ snap' = db
    /\ expired' = {}
    /\ unsynced' = FALSE
    /\ rec' = NoRec
    /\ sync' = NoSync

BootFails ==
    /\ "apply" \in Faults
    /\ daemon = "boot"
    /\ Exit
    /\ kern' \in {kern, Rendered}
    /\ UNCHANGED <<now, db, calls>>

Crash ==
    /\ "crash" \in Faults
    /\ daemon # "down"
    /\ Exit
    /\ UNCHANGED <<now, db, kern, calls>>

Next ==
    \/ Tick \/ StepBack
    \/ \E r \in Requests : Call(r)
    \/ RecRefused \/ RecMutate \/ RecStamp \/ RecLoadFails
    \/ RecApply \/ RecApplyFails
    \/ SyncNow \/ SyncLook \/ SyncGo \/ SyncDone
    \/ Boot \/ BootApply \/ BootFails \/ Crash

Spec == Init /\ [][Next]_vars

\* c.mu starves no goroutine, tickers tick, systemd restarts the daemon, and
\* neither rebuilds nor starts fail every time.
FairSpec ==
    /\ Spec
    /\ WF_vars(SyncNow)
    /\ SF_vars(SyncLook)
    /\ SF_vars(SyncGo)
    /\ WF_vars(SyncDone)
    /\ WF_vars(RecMutate \/ RecRefused)
    /\ WF_vars(RecStamp)
    /\ WF_vars(RecApply \/ RecApplyFails)
    /\ SF_vars(rec.req = SyncRequest /\ RecMutate)
    /\ SF_vars(rec.req = SyncRequest /\ RecStamp)
    /\ SF_vars(rec.req = SyncRequest /\ RecApply)
    /\ WF_vars(Boot)
    /\ SF_vars(BootApply)

-----------------------------------------------------------------------------
(* Properties.                                                             *)

\* Every variable has its type; nobody works for a daemon that is not up.
TypeOK ==
    /\ now \in Times
    /\ daemon \in {"down", "boot", "up"}
    /\ db \in Rows
    /\ snap \in Rows
    /\ kern \subseteq Accounts
    /\ expired \subseteq Accounts
    /\ unsynced \in BOOLEAN
    /\ rec \in [pc: {"idle", "mutate", "load", "apply", "boot"},
                req: Requests, read: Rows, now: Times]
    /\ (rec.pc = "boot") = (daemon = "boot")
    /\ rec.pc # "idle" => daemon # "down"
    /\ sync \in [pc: {"idle", "look", "go", "wait"}, now: Times]
    /\ sync.pc # "idle" => daemon = "up"
    /\ calls \in Nat

\* Whenever no change is pending, what the kernel drops is what the engine
\* remembers (and clients see), and is what was expired at one moment by the
\* times and tiers in c.snap: an apply that may have reached the kernel before
\* it failed is never taken for one that did not.
KernelIsOneMoment ==
    MuFree /\ ~unsynced =>
        /\ kern = expired
        /\ \E t \in Times : kern = ExpiredSet(snap, t)

\* An account that is past its time by what the engine has read (c.snap) gets
\* blocked, and one that got more time, lost its time or became unlimited is let
\* through again, whatever fails meanwhile and wherever the clock is set.
KernelFollowsClock ==
    \A a \in Accounts :
        LET due == a \in ExpiredSet(snap, now) IN
        /\ due ~> a \in kern \/ ~due
        /\ ~due ~> a \notin kern \/ due

\* "A persisted change - e.g. a passed expiry - can never be silently left
\* unenforced until the next unrelated mutation or a restart" (engine.go
\* 61-65).  This does not hold: of a reload that failed nothing is remembered.
SavedExpiryIsEnforced ==
    \A a \in Accounts :
        a \in ExpiredSet(db, now) ~> a \in kern \/ a \notin ExpiredSet(db, now)

=============================================================================

---------------------------- MODULE ExpiryProofs ----------------------------
(***************************************************************************)
(* Proofs about Expiry for every set of accounts, every clock and every    *)
(* choice of faults.                                                       *)
(***************************************************************************)
EXTENDS Expiry, TLAPS

\* A rendering is a set of accounts.
LEMMA ExpiredSetType ==
    ASSUME NEW st, NEW t
    PROVE  ExpiredSet(st, t) \subseteq Accounts
BY DEF ExpiredSet

\* The rows after a request are rows.
LEMMA MutatedType ==
    ASSUME db \in Rows, NEW r \in Requests
    PROVE  Mutated(r) \in Rows
<1> SUFFICES ASSUME NEW a \in Accounts
             PROVE  Mutated(r)[a] \in [tier: Tiers, at: Times]
  BY DEF Mutated, Rows
<1>1. CASE r.op = "sync" \/ r.acct # a
  BY <1>1 DEF Mutated, Rows
<1>2. CASE ~(r.op = "sync" \/ r.acct # a) /\ r.op = "setexpiry"
  BY <1>2 DEF Mutated, Rows, Requests, SyncRequest
<1>3. CASE ~(r.op = "sync" \/ r.acct # a) /\ r.op # "setexpiry"
  BY <1>3 DEF Mutated, Rows, Requests, SyncRequest
<1> QED BY <1>1, <1>2, <1>3

LEMMA TypeInit == Init => TypeOK
<1> SUFFICES ASSUME Init PROVE TypeOK
  OBVIOUS
<1>1. /\ SyncRequest \in Requests /\ NewRows \in Rows /\ 0 \in Times
  BY ExpiryAssumption DEF Requests, Rows, NewRows, Times
<1> QED BY <1>1 DEF Init, NoRec, NoSync, TypeOK

LEMMA TypeNext == TypeOK /\ [Next]_vars => TypeOK'
<1> SUFFICES ASSUME TypeOK, [Next]_vars PROVE TypeOK'
  OBVIOUS
<1> USE ExpiryAssumption
<1>a. /\ SyncRequest \in Requests /\ NewRows \in Rows /\ 0 \in Times
  BY DEF Requests, Rows, NewRows, Times
<1>1. CASE Tick
  BY <1>1 DEF Tick, TypeOK, Times
<1>2. CASE StepBack
  BY <1>2 DEF StepBack, TypeOK, Times
<1>3. ASSUME NEW r \in Requests, Call(r) PROVE TypeOK'
  <2>1. rec' = [pc |-> "mutate", req |-> r, read |-> NewRows, now |-> 0]
    BY <1>3 DEF Call, RecBegin, NoRec
  <2>2. daemon = "up" /\ UNCHANGED <<now, daemon, db, snap, kern, expired, unsynced, sync>>
    BY <1>3 DEF Call, RecBegin, MuFree
  <2>3. calls' \in Nat
    BY <1>3 DEF Call, TypeOK
  <2> QED BY <1>a, <2>1, <2>2, <2>3 DEF TypeOK
<1>4. CASE RecRefused
  BY <1>4, <1>a DEF RecRefused, NoRec, TypeOK
<1>5. CASE RecMutate
  <2>1. db' \in Rows
    BY <1>5, MutatedType DEF RecMutate, TypeOK
  <2> QED BY <1>5, <2>1 DEF RecMutate, TypeOK
<1>6. CASE RecStamp
  BY <1>6 DEF RecStamp, TypeOK
<1>7. CASE RecLoadFails
  BY <1>7, <1>a DEF RecLoadFails, NoRec, TypeOK
<1>8. CASE RecApply
  BY <1>8, <1>a, ExpiredSetType DEF RecApply, Rendered, NoRec, TypeOK
<1>9. CASE RecApplyFails
  BY <1>9, <1>a, ExpiredSetType DEF RecApplyFails, Rendered, NoRec, TypeOK
<1>10. CASE SyncNow
  BY <1>10 DEF SyncNow, TypeOK
<1>11. CASE SyncLook
  BY <1>11, <1>a DEF SyncLook, NoSync, MuFree, TypeOK
<1>12. CASE SyncGo
  BY <1>12, <1>a DEF SyncGo, RecBegin, MuFree, NoRec, TypeOK
<1>13. CASE SyncDone
  BY <1>13, <1>a DEF SyncDone, NoSync, TypeOK
<1>14. CASE Boot
  BY <1>14, <1>a DEF Boot, NoRec, TypeOK
<1>15. CASE BootApply
  BY <1>15, <1>a, ExpiredSetType DEF BootApply, Rendered, NoRec, TypeOK
<1>16. CASE BootFails
  BY <1>16, <1>a, ExpiredSetType
  DEF BootFails, Exit, Rendered, NoRec, NoSync, TypeOK
<1>17. CASE Crash
  BY <1>17, <1>a DEF Crash, Exit, NoRec, NoSync, TypeOK
<1>18. CASE UNCHANGED vars
  BY <1>18 DEF vars, TypeOK
<1> QED
  BY <1>1, <1>2, <1>3, <1>4, <1>5, <1>6, <1>7, <1>8, <1>9, <1>10, <1>11,
     <1>12, <1>13, <1>14, <1>15, <1>16, <1>17, <1>18 DEF Next

\* Every variable always has its type (TypeOK).
THEOREM TypeCorrect == Spec => []TypeOK
BY TypeInit, TypeNext, PTL DEF Spec

-----------------------------------------------------------------------------
(* KernelIsOneMoment, with c.mu free or not: between two rebuilds nothing   *)
(* changes what it speaks of, which makes it inductive.                     *)

OneMoment(known, dropped, st) ==
    /\ dropped = known
    /\ \E t \in Times : dropped = ExpiredSet(st, t)

MomentInv ==
    /\ daemon = "up" /\ ~unsynced => OneMoment(expired, kern, snap)
    /\ daemon = "boot" => rec.read = snap

LEMMA MomentNext == TypeOK /\ MomentInv /\ [Next]_vars => MomentInv'
<1> SUFFICES ASSUME TypeOK, MomentInv, [Next]_vars PROVE MomentInv'
  OBVIOUS
<1> USE DEF MomentInv
<1>1. ASSUME UNCHANGED <<daemon, unsynced, expired, kern, snap>>,
             rec.pc # "boot" \/ UNCHANGED rec
      PROVE  MomentInv'
  <2>1. daemon' = "up" /\ ~unsynced' => OneMoment(expired', kern', snap')
    BY <1>1 DEF OneMoment
  <2>2. daemon' = "boot" => rec'.read = snap'
    BY <1>1 DEF TypeOK
  <2> QED BY <2>1, <2>2
<1>2. CASE RecApply
  BY <1>2 DEF RecApply, Rendered, OneMoment, TypeOK
<1>3. CASE RecApplyFails
  BY <1>3 DEF RecApplyFails, TypeOK
<1>4. CASE BootApply
  <2>1. rec.pc = "boot"
    BY <1>4 DEF BootApply, TypeOK
  <2> QED BY <1>4, <2>1 DEF BootApply, Rendered, OneMoment, TypeOK
<1>5. CASE Boot \/ BootFails \/ Crash
  BY <1>5 DEF Boot, BootFails, Crash, Exit, NoRec
<1>6. CASE Tick \/ StepBack \/ RecRefused \/ RecMutate \/ RecStamp \/ RecLoadFails
           \/ SyncNow \/ SyncLook \/ SyncGo \/ SyncDone \/ UNCHANGED vars
  BY <1>1, <1>6 DEF Tick, StepBack, RecRefused, RecMutate, RecStamp,
     RecLoadFails, SyncNow, SyncLook, SyncGo, SyncDone, RecBegin, MuFree, vars
<1>7. ASSUME NEW r \in Requests, Call(r) PROVE MomentInv'
  BY <1>1, <1>7 DEF Call, RecBegin, MuFree
<1> QED BY <1>2, <1>3, <1>4, <1>5, <1>6, <1>7 DEF Next

\* Whenever no change is pending, the kernel, the engine's memory of it and one
\* moment of the clock agree (KernelIsOneMoment).
THEOREM OneMomentTheorem == Spec => []KernelIsOneMoment
<1>1. Init => MomentInv
  BY DEF Init, MomentInv
<1>2. MomentInv => KernelIsOneMoment
  BY DEF MomentInv, OneMoment, KernelIsOneMoment, MuFree
<1> QED BY <1>1, <1>2, MomentNext, TypeCorrect, PTL DEF Spec
=============================================================================

--------------------------- MODULE MeteringProofs ---------------------------
(***************************************************************************)
(* Theorems about Metering, for every set of accounts, ports, persisters,  *)
(* operations and faults and every bound.                                  *)
(***************************************************************************)
EXTENDS Metering, TLAPS

-----------------------------------------------------------------------------
(* What the helpers return.                                                *)

LEMMA NoSampleType == NoSample \in Samples
  BY DEF NoSample, Samples

LEMMA FoldType ==
  ASSUME NEW used \in [Meters -> Nat], NEW s \in Samples
  PROVE  Fold(used, s) \in [Meters -> Nat]
  BY DEF Fold, Samples

LEMMA RenderType ==
  ASSUME NEW st \in State
  PROVE  Render(st) \in Samples
  BY DEF Render, State, Samples

LEMMA BlankType == Blank \in State
  BY DEF Blank, State, Tiers

LEMMA RequestType ==
  ASSUME NEW op \in AllOps, NEW a \in Accounts \cup {None}, NEW v \in Nat,
         NEW t \in Tiers, NEW g \in {"rpc", "loop", "sync"}
  PROVE  /\ Request(op, a, v, t, g) \in Requests
         /\ Request(op, a, v, t, g).op = op
         /\ Request(op, a, v, t, g).acct = a
  BY DEF Request, Requests

LEMMA NoRequestType ==
  /\ NoRequest \in Requests
  /\ NoRequest.op = "other"
  BY RequestType DEF NoRequest, AllOps, Tiers

LEMMA IdleType ==
  /\ Idle \in RecType
  /\ Idle.pc = "idle"
  /\ Idle.req.op = "other"
  BY NoRequestType, BlankType, NoSampleType DEF Idle, RecType

LEMMA NoSamplingType ==
  /\ NoSampling \in SmpType
  /\ NoSampling.pc = "idle"
  BY NoSampleType DEF NoSampling, SmpType

LEMMA NoCopyType ==
  /\ NoCopy \in PerType
  /\ [p \in Persisters |-> NoCopy] \in [Persisters -> PerType]
  BY NoSampleType DEF NoCopy, PerType

LEMMA LoadedType ==
  ASSUME rec \in RecType, db \in State
  PROVE  Loaded \in State
  BY DEF Loaded, RecType, State, Meters

LEMMA FoldState ==
  ASSUME NEW st \in State, NEW s \in Samples
  PROVE  [st EXCEPT !.used = Fold(st.used, s)] \in State
  BY FoldType DEF State

LEMMA WrittenType ==
  ASSUME NEW r \in Requests, r.op # "other" => r.acct \in Accounts
  PROVE  /\ \A used \in [Meters -> Nat] : Written(r, used) \in [Meters -> Nat]
         /\ \A s \in Samples : Written(r, s) \in Samples
  <1> Target(r) \in Nat
    BY DEF Requests, Target
  <1> QED BY DEF Written, Meters, Samples

LEMMA MutatedType ==
  ASSUME db \in State, live \in Samples, cycle \in Nat,
         NEW r \in Requests, r.op # "other" => r.acct \in Accounts
  PROVE  /\ MutatedDb(r) \in State
         /\ MutatedLive(r) \in Samples
  <1>1. r.tier \in Tiers
    BY DEF Requests
  <1>2. Written(r, db.used) \in [Meters -> Nat] /\ Written(r, live) \in Samples
    BY WrittenType DEF State
  <1> QED BY <1>1, <1>2 DEF MutatedDb, MutatedLive, State

LEMMA ZeroedType ==
  ASSUME zeroed \in [Accounts -> Nat], NEW st \in State, NEW S
  PROVE  Zeroed(st, S) \in [Accounts -> Nat]
  BY DEF Zeroed, State

\* the variables a crash or a failed start clears
LEMMA ForgetType ==
  ASSUME Forget, db \in State
  PROVE  /\ daemon' = "down"
         /\ snap' \in State
         /\ live' \in Samples
         /\ gen' \in Nat
         /\ unsynced' \in BOOLEAN
         /\ rec' \in RecType /\ rec'.pc = "idle" /\ rec'.req.op = "other"
         /\ waiting' = {}
         /\ due' = {}
         /\ smp' \in SmpType /\ smp'.pc = "idle"
         /\ per' \in [Persisters -> PerType]
  BY NoSampleType, IdleType, NoSamplingType, NoCopyType DEF Forget

-----------------------------------------------------------------------------
(* Type correctness.                                                       *)

LEMMA TypeInit == Init => TypeOK
  <1> SUFFICES ASSUME Init PROVE TypeOK
    OBVIOUS
  <1>1. db \in State
    BY DEF Init, State
  <1>2. charged \in [Meters -> Nat] /\ zeroed \in [Accounts -> Nat]
    BY DEF Init
  <1> QED BY <1>1, <1>2, NoSampleType, IdleType, NoSamplingType, NoCopyType
          DEF Init, TypeOK

LEMMA TypeNext == TypeOK /\ [Next]_vars => TypeOK'
  <1> SUFFICES ASSUME TypeOK, [Next]_vars PROVE TypeOK'
    OBVIOUS
  <1> USE DEF kernelVars, memoryVars, threadVars, historyVars
  <1>1. ASSUME NEW p \in Ports, Traffic(p) PROVE TypeOK'
    <2>1. PICK hit \in Hits(p) :
             /\ kused' = [m \in Meters |-> IF m \in hit THEN kused[m] + 1
                                                        ELSE kused[m]]
             /\ charged' = [m \in Meters |-> IF m \in hit THEN charged[m] + 1
                                                          ELSE charged[m]]
      BY <1>1 DEF Traffic
    <2>2. \A m \in hit : kused[m] # None
      BY <1>1 DEF Traffic, Hits
    <2>3. kused' \in Samples /\ charged' \in [Meters -> Nat]
      BY <2>1, <2>2 DEF TypeOK, Samples
    <2> QED BY <1>1, <2>3 DEF TypeOK, Traffic
  <1>2. CASE BillingBoundary
    BY <1>2 DEF BillingBoundary, TypeOK
  <1>3. CASE BootCold
    BY <1>3 DEF BootCold, TypeOK
  <1>4. CASE BootHot
    BY <1>4, FoldState DEF BootHot, TypeOK
  <1>5. CASE BootApply
    BY <1>5, RenderType, ZeroedType DEF BootApply, TypeOK
  <1>6. CASE BootApplyFails
    <2>1. Forget /\ UNCHANGED <<db, cycle, charged, suspect>>
      BY <1>6 DEF BootApplyFails
    <2>2. CASE UNCHANGED <<table, kused, zeroed>>
      BY <2>1, <2>2, ForgetType DEF TypeOK
    <2>3. CASE table' = TRUE /\ kused' = Render(snap) /\ zeroed' = Zeroed(snap, {})
      BY <2>1, <2>3, RenderType, ZeroedType, ForgetType DEF TypeOK
    <2> QED
      BY <1>6, <2>2, <2>3 DEF BootApplyFails
  <1>7. CASE Crash
    BY <1>7, ForgetType DEF Crash, TypeOK
  <1>8. CASE Reboot
    BY <1>8, NoSampleType DEF Reboot, TypeOK
  <1>9. CASE SampleBegin
    BY <1>9, NoSamplingType DEF SampleBegin, MuFree, TypeOK, SmpType
  <1>10. CASE SampleRead
    BY <1>10 DEF SampleRead, TypeOK, SmpType
  <1>11. CASE SampleFails
    BY <1>11, NoSamplingType DEF SampleFails, TypeOK
  <1>12. CASE SampleCommit
    BY <1>12, NoSamplingType DEF SampleCommit, Committed, TypeOK, SmpType
  <1>13. ASSUME NEW p \in Persisters, PersistCopy(p) PROVE TypeOK'
    <2>1. per' \in [Persisters -> PerType]
      BY <1>13 DEF PersistCopy, TypeOK, PerType
    <2> QED BY <1>13, <2>1, FoldState DEF PersistCopy, TypeOK
  <1>14. ASSUME NEW p \in Persisters, PersistWrite(p) PROVE TypeOK'
    <2>1. per[p].copy \in Samples
      BY DEF TypeOK, PerType
    <2>2. rec' \in RecType /\ rec'.pc = rec.pc /\ rec'.req = rec.req
      BY <1>14 DEF PersistWrite, TypeOK, RecType
    <2> QED BY <1>14, <2>1, <2>2, FoldState, NoCopyType DEF PersistWrite, TypeOK
  <1>15. ASSUME NEW p \in Persisters, PersistFails(p) PROVE TypeOK'
    BY <1>15, NoCopyType DEF PersistFails, TypeOK
  <1>16. ASSUME NEW r \in Requests, r.acct \in Accounts, Enqueue(r),
                due' \subseteq Accounts
         PROVE  TypeOK'
    BY <1>16 DEF Enqueue, TypeOK
  <1>17. ASSUME NEW a \in Accounts, AskReset(a) PROVE TypeOK'
    <2> DEFINE r == Request("reset", a, 0, "a", "rpc")
    <2>1. r \in Requests /\ r.acct \in Accounts
      BY RequestType DEF AllOps, Tiers
    <2>2. Enqueue(r) /\ due' \subseteq Accounts
      BY <1>17 DEF AskReset, TypeOK
    <2> QED BY <2>1, <2>2, <1>16
  <1>18. ASSUME NEW a \in Accounts, NEW v \in 0..MaxBytes, AskSetUsage(a, v)
         PROVE  TypeOK'
    <2>1. v \in Nat
      BY MeteringAssumption
    <2> DEFINE r == Request("setusage", a, v, "a", "rpc")
    <2>2. r \in Requests /\ r.acct \in Accounts
      BY <2>1, RequestType DEF AllOps, Tiers
    <2>3. Enqueue(r) /\ due' \subseteq Accounts
      BY <1>18 DEF AskSetUsage, TypeOK
    <2> QED BY <2>2, <2>3, <1>16
  <1>19. CASE DueScan
    BY <1>19 DEF DueScan, TypeOK
  <1>20. ASSUME NEW a \in Accounts, DueReset(a) PROVE TypeOK'
    <2>1. due' \subseteq Accounts
      BY <1>20 DEF DueReset, TypeOK
    <2> QED BY <1>16, <1>20, <2>1, RequestType DEF DueReset, AllOps, Tiers
  <1>21. ASSUME NEW a \in Accounts, DueRefused(a) PROVE TypeOK'
    BY <1>21 DEF DueRefused, TypeOK
  <1>22. ASSUME NEW r \in Requests, r.op # "other" => r.acct \in Accounts,
                RecBegin(r), waiting' \subseteq waiting
         PROVE  TypeOK'
    <2>1. rec' \in RecType /\ rec'.req = r
      BY <1>22, IdleType DEF RecBegin, TypeOK, RecType
    <2> QED BY <1>22, <2>1 DEF RecBegin, MuFree, TypeOK
  <1>23. ASSUME NEW r \in waiting, Start(r) PROVE TypeOK'
    BY <1>22, <1>23 DEF Start, TypeOK
  <1>24. ASSUME NEW a \in Accounts, NEW t \in Tiers, StartSetTier(a, t)
         PROVE  TypeOK'
    BY <1>22, <1>24, RequestType DEF StartSetTier, AllOps
  <1>25. CASE StartOther
    BY <1>22, <1>25, NoRequestType DEF StartOther
  <1>26. CASE SyncStart
    BY <1>22, <1>26, RequestType DEF SyncStart, AllOps, Tiers
  <1>27. CASE RecFold
    <2>1. live' \in Samples
      BY <1>27 DEF RecFold, Fresh, TypeOK
    <2>2. rec' \in RecType /\ rec'.req = rec.req /\ daemon' = "up"
      BY <1>27 DEF RecFold, TypeOK, RecType
    <2> QED BY <1>27, <2>1, <2>2, FoldState DEF RecFold, TypeOK
  <1>28. CASE RecFoldFails
    <2>1. live' \in Samples
      BY <1>28 DEF RecFoldFails, Fresh, TypeOK
    <2> QED BY <1>28, <2>1, IdleType DEF RecFoldFails, TypeOK
  <1>29. CASE RecMutate
    <2>1. rec' \in RecType /\ rec'.req = rec.req /\ daemon' = "up"
      BY <1>29 DEF RecMutate, TypeOK, RecType
    <2>2. rec.req \in Requests /\ rec.req.bytes \in Nat
      BY DEF TypeOK, RecType, Requests
    <2>3. charged' \in [Meters -> Nat]
      BY <1>29, <2>2 DEF RecMutate, TypeOK, Meters, Larger
    <2>4. db' \in State /\ live' \in Samples
      BY <1>29, <2>2, MutatedType DEF RecMutate, TypeOK
    <2> QED BY <1>29, <2>1, <2>3, <2>4 DEF RecMutate, TypeOK
  <1>30. CASE RecMutateFails
    BY <1>30, IdleType DEF RecMutateFails, TypeOK
  <1>31. CASE RecLoad
    <2>1. rec' \in RecType /\ rec'.req = rec.req /\ daemon' = "up"
      BY <1>31 DEF RecLoad, TypeOK, RecType
    <2> QED BY <1>31, <2>1 DEF RecLoad, TypeOK
  <1>32. CASE RecApply
    <2>1. gen' \in Nat /\ rec.raced \in BOOLEAN
      BY <1>32 DEF RecApply, TypeOK, RecType
    <2> QED BY <1>32, <2>1, IdleType, LoadedType, RenderType, ZeroedType
            DEF RecApply, TypeOK
  <1>33. CASE RecApplyFails
    <2>1. table' \in BOOLEAN
      BY <1>33 DEF RecApplyFails, TypeOK
    <2>3. Loaded \in State
      BY LoadedType DEF TypeOK
    <2>4. kused' \in Samples /\ zeroed' \in [Accounts -> Nat]
      BY <1>33, <2>3, RenderType, ZeroedType DEF RecApplyFails, TypeOK
    <2>2. daemon' = "up" => table'
      <3>1. CASE table' = table
        BY <1>33, <3>1 DEF RecApplyFails, TypeOK
      <3>2. CASE table' = TRUE
        BY <3>2
      <3> QED BY <1>33, <3>1, <3>2 DEF RecApplyFails
    <2> QED BY <1>33, <2>1, <2>2, <2>3, <2>4, IdleType DEF RecApplyFails, TypeOK
  <1>34. CASE RecLoadFails
    BY <1>34, IdleType DEF RecLoadFails, TypeOK
  <1>35. CASE UNCHANGED vars
    BY <1>35 DEF vars, TypeOK
  <1> QED
    BY <1>1, <1>2, <1>3, <1>4, <1>5, <1>6, <1>7, <1>8, <1>9, <1>10, <1>11,
       <1>12, <1>13, <1>14, <1>15, <1>17, <1>18, <1>19, <1>20, <1>21, <1>23,
       <1>24, <1>25, <1>26, <1>27, <1>28, <1>29, <1>30, <1>31, <1>32, <1>33,
       <1>34, <1>35
    DEF Next, Environment, Boots, Sampler, Persister, Clients, MonthlyReset,
        Reconcile, ReconcileStep

\* The types hold throughout, and a daemon that serves has built the table.
THEOREM TypeCorrect == Spec => []TypeOK
  <1>1. Init => TypeOK
    BY TypeInit
  <1>2. TypeOK /\ [Next]_vars => TypeOK'
    BY TypeNext
  <1> QED BY <1>1, <1>2, PTL DEF Spec

-----------------------------------------------------------------------------
(* NoByteChargedTwice.                                                     *)

LEMMA WithinNoSample == \A top : Within(NoSample, top)
  BY DEF Within, NoSample

LEMMA WithinBlank ==
  ASSUME NEW top \in [Meters -> Nat]
  PROVE  Within(Blank.used, top)
  BY DEF Within, Blank

LEMMA WithinFold ==
  ASSUME NEW top, NEW used, NEW s, Within(used, top), Within(s, top)
  PROVE  Within(Fold(used, s), top)
  BY DEF Within, Fold

LEMMA WithinRender ==
  ASSUME NEW top, NEW st, Within(st.used, top)
  PROVE  Within(Render(st), top)
  BY DEF Within, Render

LEMMA WithinLoaded ==
  ASSUME NEW top, rec.read \in State,
         Within(db.used, top), Within(rec.read.used, top)
  PROVE  Within(Loaded.used, top)
  BY DEF Within, Loaded, State

LEMMA WithinMore ==
  ASSUME NEW top \in [Meters -> Nat], NEW top2 \in [Meters -> Nat],
         \A m \in Meters : top[m] <= top2[m],
         NEW s \in Samples, Within(s, top)
  PROVE  Within(s, top2)
  <1> SUFFICES ASSUME NEW m \in Meters, s[m] # None PROVE s[m] <= top2[m]
    BY DEF Within
  <1>1. s[m] \in Nat /\ s[m] <= top[m] /\ top[m] <= top2[m]
    BY DEF Within, Samples
  <1> QED BY <1>1

LEMMA UsedIsSample ==
  ASSUME NEW st \in State
  PROVE  st.used \in Samples
  BY DEF State, Samples

LEMMA ChargedInit == TypeOK /\ Init => NoByteChargedTwice
  <1> SUFFICES ASSUME TypeOK, Init PROVE NoByteChargedTwice
    OBVIOUS
  <1>1. Within(db.used, charged) /\ Within(snap.used, charged)
    BY DEF Init, Within
  <1>2. charged \in [Meters -> Nat]
    BY DEF TypeOK
  <1> QED BY <1>1, <1>2, WithinNoSample, WithinBlank
          DEF Init, NoByteChargedTwice, NoSampling, NoCopy, Idle

LEMMA ChargedNext ==
  TypeOK /\ TypeOK' /\ NoByteChargedTwice /\ [Next]_vars => NoByteChargedTwice'
  <1> SUFFICES ASSUME TypeOK, TypeOK', NoByteChargedTwice, [Next]_vars
               PROVE  NoByteChargedTwice'
    OBVIOUS
  <1> USE DEF kernelVars, memoryVars, threadVars, historyVars
  <1>a. charged \in [Meters -> Nat] /\ charged' \in [Meters -> Nat]
    BY DEF TypeOK
  <1>b. Within(Idle.read.used, charged) /\ Within(NoSampling.val, charged)
        /\ Within(NoCopy.copy, charged)
    BY <1>a, WithinNoSample, WithinBlank DEF Idle, NoSampling, NoCopy
  <1>c. ASSUME Forget, UNCHANGED <<db, charged>>
        PROVE  /\ Within(live', charged')
               /\ Within(db'.used, charged')
               /\ Within(snap'.used, charged')
               /\ Within(smp'.val, charged')
               /\ \A p \in Persisters : Within(per'[p].copy, charged')
               /\ Within(rec'.read.used, charged')
    BY <1>b, <1>c, WithinNoSample DEF Forget, NoByteChargedTwice
  <1>d. ASSUME \A m \in Meters : charged[m] <= charged'[m]
        PROVE  \A s \in Samples : Within(s, charged) => Within(s, charged')
    BY <1>a, <1>d, WithinMore
  <1>e. /\ live \in Samples /\ db.used \in Samples /\ snap.used \in Samples
        /\ smp.val \in Samples /\ rec.read.used \in Samples
        /\ \A p \in Persisters : per[p].copy \in Samples
    <2>1. db \in State /\ snap \in State /\ rec.read \in State
      BY DEF TypeOK, RecType
    <2> QED BY <2>1, UsedIsSample DEF TypeOK, SmpType, PerType
  <1>1. ASSUME NEW p \in Ports, Traffic(p) PROVE NoByteChargedTwice'
    <2>1. PICK hit \in Hits(p) :
             /\ kused' = [m \in Meters |-> IF m \in hit THEN kused[m] + 1
                                                        ELSE kused[m]]
             /\ charged' = [m \in Meters |-> IF m \in hit THEN charged[m] + 1
                                                          ELSE charged[m]]
      BY <1>1 DEF Traffic
    <2>2. \A m \in hit : kused[m] # None
      BY <1>1 DEF Traffic, Hits
    <2>3. \A m \in Meters : charged[m] <= charged'[m]
      BY <2>1, <1>a
    <2>4. Within(kused', charged')
      <3> SUFFICES ASSUME NEW m \in Meters, kused'[m] # None
                   PROVE  kused'[m] <= charged'[m]
        BY DEF Within
      <3>1. kused[m] # None
        BY <2>1, <2>2
      <3>2. kused[m] \in Nat /\ charged[m] \in Nat /\ kused[m] <= charged[m]
        BY <3>1 DEF TypeOK, Samples, NoByteChargedTwice, Within
      <3> QED BY <3>2, <2>1
    <2> QED BY <1>1, <1>d, <1>e, <2>3, <2>4 DEF Traffic, NoByteChargedTwice
  <1>2. CASE BillingBoundary
    BY <1>2 DEF BillingBoundary, NoByteChargedTwice
  <1>3. CASE BootCold
    BY <1>3 DEF BootCold, NoByteChargedTwice
  <1>4. CASE BootHot
    <2>1. db'.used = Fold(db.used, kused) /\ snap'.used = db'.used
      BY <1>4 DEF BootHot, TypeOK, State
    <2> QED BY <1>4, <2>1, WithinFold DEF BootHot, NoByteChargedTwice
  <1>5. CASE BootApply
    BY <1>5, WithinRender DEF BootApply, NoByteChargedTwice
  <1>6. CASE BootApplyFails
    <2>1. Within(kused', charged')
      BY <1>6, WithinRender DEF BootApplyFails, NoByteChargedTwice
    <2> QED BY <1>6, <1>c, <2>1 DEF BootApplyFails, NoByteChargedTwice
  <1>7. CASE Crash
    BY <1>7, <1>c DEF Crash, NoByteChargedTwice
  <1>8. CASE Reboot
    BY <1>8, WithinNoSample DEF Reboot, NoByteChargedTwice
  <1>9. CASE SampleBegin
    <2>1. smp'.val = NoSampling.val
      BY <1>9, NoSamplingType DEF SampleBegin, SmpType
    <2> QED BY <1>9, <1>b, <2>1 DEF SampleBegin, NoByteChargedTwice
  <1>10. CASE SampleRead
    <2>1. smp'.val = kused
      BY <1>10 DEF SampleRead, TypeOK, SmpType
    <2> QED BY <1>10, <2>1 DEF SampleRead, NoByteChargedTwice
  <1>11. CASE SampleFails
    BY <1>11, <1>b DEF SampleFails, NoByteChargedTwice
  <1>12. CASE SampleCommit
    BY <1>12, <1>b DEF SampleCommit, Committed, NoByteChargedTwice
  <1>13. ASSUME NEW p \in Persisters, PersistCopy(p) PROVE NoByteChargedTwice'
    <2>1. snap'.used = Fold(snap.used, live)
      BY <1>13 DEF PersistCopy, TypeOK, State
    <2>2. \A q \in Persisters : per'[q].copy \in {per[q].copy, live}
      BY <1>13 DEF PersistCopy, TypeOK
    <2> QED BY <1>13, <2>1, <2>2, WithinFold DEF PersistCopy, NoByteChargedTwice
  <1>14. ASSUME NEW p \in Persisters, PersistWrite(p) PROVE NoByteChargedTwice'
    <2>1. db'.used = Fold(db.used, per[p].copy)
      BY <1>14 DEF PersistWrite, TypeOK, State
    <2>2. \A q \in Persisters : per'[q].copy \in {per[q].copy, NoCopy.copy}
      BY <1>14 DEF PersistWrite, TypeOK
    <2>3. rec'.read = rec.read
      BY <1>14 DEF PersistWrite, TypeOK, RecType
    <2> QED BY <1>14, <1>b, <2>1, <2>2, <2>3, WithinFold
            DEF PersistWrite, NoByteChargedTwice
  <1>15. ASSUME NEW p \in Persisters, PersistFails(p) PROVE NoByteChargedTwice'
    <2>1. \A q \in Persisters : per'[q].copy \in {per[q].copy, NoCopy.copy}
      BY <1>15 DEF PersistFails, TypeOK
    <2> QED BY <1>15, <1>b, <2>1 DEF PersistFails, NoByteChargedTwice
  <1>16. ASSUME NEW r, Enqueue(r) PROVE NoByteChargedTwice'
    BY <1>16 DEF Enqueue, NoByteChargedTwice
  <1>17. ASSUME NEW a \in Accounts, AskReset(a) PROVE NoByteChargedTwice'
    BY <1>16, <1>17 DEF AskReset
  <1>18. ASSUME NEW a \in Accounts, NEW v \in 0..MaxBytes, AskSetUsage(a, v)
         PROVE  NoByteChargedTwice'
    BY <1>16, <1>18 DEF AskSetUsage
  <1>19. CASE DueScan
    BY <1>19 DEF DueScan, NoByteChargedTwice
  <1>20. ASSUME NEW a \in Accounts, DueReset(a) PROVE NoByteChargedTwice'
    BY <1>16, <1>20 DEF DueReset
  <1>21. ASSUME NEW a \in Accounts, DueRefused(a) PROVE NoByteChargedTwice'
    BY <1>21 DEF DueRefused, NoByteChargedTwice
  <1>22. ASSUME NEW r, RecBegin(r) PROVE NoByteChargedTwice'
    <2>1. rec'.read = Idle.read
      BY <1>22, IdleType DEF RecBegin, RecType
    <2> QED BY <1>22, <1>b, <2>1 DEF RecBegin, NoByteChargedTwice
  <1>23. ASSUME NEW r \in waiting, Start(r) PROVE NoByteChargedTwice'
    BY <1>22, <1>23 DEF Start
  <1>24. ASSUME NEW a \in Accounts, NEW t \in Tiers, StartSetTier(a, t)
         PROVE  NoByteChargedTwice'
    BY <1>22, <1>24 DEF StartSetTier
  <1>25. CASE StartOther
    BY <1>22, <1>25 DEF StartOther
  <1>26. CASE SyncStart
    BY <1>22, <1>26 DEF SyncStart
  <1>27. CASE RecFold
    <2>1. Within(live', charged)
      BY <1>27 DEF RecFold, Fresh, NoByteChargedTwice
    <2>2. db'.used = Fold(db.used, live') /\ rec'.read = rec.read
      BY <1>27 DEF RecFold, TypeOK, State, RecType
    <2> QED BY <1>27, <2>1, <2>2, WithinFold DEF RecFold, NoByteChargedTwice
  <1>28. CASE RecFoldFails
    <2>1. Within(live', charged)
      BY <1>28 DEF RecFoldFails, Fresh, NoByteChargedTwice
    <2> QED BY <1>28, <1>b, <2>1 DEF RecFoldFails, NoByteChargedTwice
  <1>29. CASE RecMutate
    <2> DEFINE r == rec.req
    <2>1. /\ db'.used = Written(r, db.used)
          /\ live' = Written(r, live)
          /\ rec'.read = rec.read
      BY <1>29 DEF RecMutate, MutatedDb, MutatedLive, TypeOK, RecType
    <2>2. r \in Requests /\ r.bytes \in Nat
      BY DEF TypeOK, RecType, Requests
    <2>4. \A m \in Meters : charged[m] <= charged'[m]
      BY <1>29, <1>a, <2>2 DEF RecMutate, Larger
    <2>5. r.op \in {"reset", "setusage"} => Target(r) <= charged'[r.acct]
      BY <1>29, <1>a, <2>2, <2>4 DEF RecMutate, Larger, Target, TypeOK, Meters
    <2>6. \A s \in Samples : Within(s, charged) => Within(Written(r, s), charged')
      BY <1>d, <2>4, <2>5 DEF Written, Within, Samples
    <2>7. kused \in Samples
      BY DEF TypeOK
    <2> QED BY <1>29, <1>d, <1>e, <2>1, <2>4, <2>6, <2>7
            DEF RecMutate, NoByteChargedTwice
  <1>30. CASE RecMutateFails
    BY <1>30, <1>b DEF RecMutateFails, NoByteChargedTwice
  <1>31. CASE RecLoad
    <2>1. rec'.read = db
      BY <1>31 DEF RecLoad, TypeOK, RecType
    <2> QED BY <1>31, <2>1 DEF RecLoad, NoByteChargedTwice
  <1>f. Within(Loaded.used, charged)
    BY WithinLoaded DEF TypeOK, RecType, NoByteChargedTwice
  <1>32. CASE RecApply
    BY <1>32, <1>b, <1>f, WithinRender DEF RecApply, NoByteChargedTwice
  <1>33. CASE RecApplyFails
    <2>1. Within(kused', charged)
      BY <1>33, <1>f, WithinRender DEF RecApplyFails, NoByteChargedTwice
    <2> QED BY <1>33, <1>b, <1>f, <2>1 DEF RecApplyFails, NoByteChargedTwice
  <1>34. CASE RecLoadFails
    BY <1>34, <1>b DEF RecLoadFails, NoByteChargedTwice
  <1>35. CASE UNCHANGED vars
    BY <1>35 DEF vars, NoByteChargedTwice
  <1> QED
    BY <1>1, <1>2, <1>3, <1>4, <1>5, <1>6, <1>7, <1>8, <1>9, <1>10, <1>11,
       <1>12, <1>13, <1>14, <1>15, <1>17, <1>18, <1>19, <1>20, <1>21, <1>23,
       <1>24, <1>25, <1>26, <1>27, <1>28, <1>29, <1>30, <1>31, <1>32, <1>33,
       <1>34, <1>35
    DEF Next, Environment, Boots, Sampler, Persister, Clients, MonthlyReset,
        Reconcile, ReconcileStep

\* No copy of a byte count ever exceeds what was metered or set.
THEOREM ChargedOnce == Spec => []NoByteChargedTwice
  <1>1. Init => TypeOK /\ NoByteChargedTwice
    BY TypeInit, ChargedInit
  <1>2. TypeOK /\ NoByteChargedTwice /\ [Next]_vars
            => TypeOK' /\ NoByteChargedTwice'
    BY TypeNext, ChargedNext
  <1> QED BY <1>1, <1>2, PTL DEF Spec

-----------------------------------------------------------------------------
(* The inductive invariant.                                                *)

AtMost(s, t) == \A m \in Meters : s[m] # None /\ t[m] # None => s[m] <= t[m]

Agree(s, used) == \A m \in Meters : s[m] # None => used[m] = s[m]

SameObjects == \A m \in Meters :
    kused[m] # None <=> m \in Ports \/ HasQuota(snap.tier[m])

\* A stopped daemon has no sample; a starting one has it in its snapshot.
BootInv ==
    /\ daemon = "down" => live = NoSample
    /\ daemon = "boot" => Agree(live, snap.used)

\* Until the closure of a reconcile runs, what c.live and c.snap say has been
\* metered in the kernel, which holds the objects c.snap asks for.
ServeInv ==
    daemon = "up" /\ ~suspect /\ rec.pc \in {"idle", "fold", "mutate"} =>
        /\ AtMost(live, kused)
        /\ AtMost(snap.used, kused)
        /\ SameObjects

\* From its fold on, a reconcile nobody overtook has c.live and SQLite agree.
RecInv ==
    ~rec.raced =>
        /\ rec.pc \in {"mutate", "load"} => Agree(live, db.used)
        /\ rec.pc = "apply" => Agree(live, Loaded.used)

\* A sample of the current generation is not ahead of the kernel.
SampleInv ==
    smp.pc # "idle" =>
        /\ smp.gen <= gen
        /\ smp.pc = "done" /\ smp.gen = gen /\ ~suspect => AtMost(smp.val, kused)

\* the meter the closure of the running reconcile is asked to set
Asked(m) == m = rec.req.acct /\ rec.req.op \in {"reset", "setusage"}

\* What the kernel had when c.mu was taken is in the kernel, then in the sample.
SeenInv ==
    /\ rec.pc = "fold" => \A m \in Meters : rec.seen[m] # None =>
          kused[m] # None /\ rec.seen[m] <= kused[m]
    /\ rec.pc = "mutate" => \A m \in Meters : rec.seen[m] # None =>
          live[m] # None /\ rec.seen[m] <= live[m]
    /\ rec.pc \in {"load", "apply"} =>
          \A m \in Meters : rec.seen[m] # None /\ ~Asked(m) =>
             live[m] # None /\ rec.seen[m] <= live[m]

ViewInv == BootInv /\ ServeInv /\ RecInv /\ SampleInv /\ SeenInv

-----------------------------------------------------------------------------
(* Facts about the parts.                                                  *)

LEMMA AgreeFold ==
  ASSUME NEW s, NEW used
  PROVE  Agree(s, Fold(used, s))
  BY DEF Agree, Fold

LEMMA AtMostFold ==
  ASSUME NEW s, NEW used, NEW t, AtMost(s, t), AtMost(used, t)
  PROVE  AtMost(Fold(used, s), t)
  BY DEF AtMost, Fold

LEMMA AtMostSelf ==
  ASSUME NEW s \in Samples
  PROVE  AtMost(s, s)
  BY DEF AtMost, Samples

\* traffic only raises what the kernel has
LEMMA AtMostMore ==
  ASSUME NEW s \in Samples, NEW t \in Samples, NEW t2 \in Samples, AtMost(s, t),
         \A m \in Meters : t2[m] # None => t[m] # None /\ t[m] <= t2[m]
  PROVE  AtMost(s, t2)
  <1> SUFFICES ASSUME NEW m \in Meters, s[m] # None, t2[m] # None
               PROVE  s[m] <= t2[m]
    BY DEF AtMost
  <1>1. s[m] \in Nat /\ t[m] \in Nat /\ t2[m] \in Nat
    BY DEF Samples
  <1>2. s[m] <= t[m] /\ t[m] <= t2[m]
    BY DEF AtMost
  <1> QED BY <1>1, <1>2

\* the objects a rebuild from st creates, seeded with at least what s says of
\* them when s agrees with st
LEMMA RenderSeeds ==
  ASSUME NEW st \in State, NEW s \in Samples
  PROVE  /\ AtMost(st.used, Render(st))
         /\ Agree(s, st.used) => AtMost(s, Render(st))
         /\ \A m \in Meters : Render(st)[m] # None <=>
                m \in Ports \/ HasQuota(st.tier[m])
         /\ \A m \in Meters : Render(st)[m] # None => Render(st)[m] = st.used[m]
  <1>1. \A m \in Meters : st.used[m] \in Nat /\ st.used[m] # None
    BY MeteringAssumption DEF State
  <1>2. \A m \in Meters : Render(st)[m] # None <=>
                m \in Ports \/ HasQuota(st.tier[m])
    BY <1>1 DEF Render
  <1>3. \A m \in Meters : Render(st)[m] # None => Render(st)[m] = st.used[m]
    BY DEF Render
  <1>4. AtMost(st.used, Render(st))
    BY <1>1, <1>3 DEF AtMost
  <1>5. Agree(s, st.used) => AtMost(s, Render(st))
    BY <1>1, <1>3 DEF AtMost, Agree
  <1> QED BY <1>2, <1>3, <1>4, <1>5

LEMMA ViewInit == Init => ViewInv
  BY DEF Init, ViewInv, BootInv, ServeInv, RecInv, SampleInv, SeenInv, Idle,
         NoSampling

LEMMA ViewStable ==
  ASSUME ViewInv, UNCHANGED <<daemon, kused, db, snap, live, gen, rec, smp, suspect>>
  PROVE  ViewInv'
  BY DEF ViewInv, BootInv, ServeInv, RecInv, SampleInv, SeenInv, AtMost, Agree,
         SameObjects, Asked, Loaded

\* a crash or a failed start leaves nothing to be wrong
LEMMA ViewForget == ASSUME Forget PROVE ViewInv'
  BY IdleType, NoSamplingType
     DEF Forget, ViewInv, BootInv, ServeInv, RecInv, SampleInv, SeenInv

-----------------------------------------------------------------------------
(* Every step keeps the invariant.                                         *)

LEMMA ViewNext ==
  TypeOK /\ TypeOK' /\ ViewInv /\ [Next]_vars => ViewInv'
  <1> SUFFICES ASSUME TypeOK, TypeOK', ViewInv, [Next]_vars PROVE ViewInv'
    OBVIOUS
  <1> USE DEF kernelVars, memoryVars, threadVars, historyVars
  <1>a. /\ BootInv /\ ServeInv /\ RecInv /\ SampleInv /\ SeenInv
        /\ (BootInv' /\ ServeInv' /\ RecInv' /\ SampleInv' /\ SeenInv' => ViewInv')
    BY DEF ViewInv
  <1>b. /\ kused \in Samples /\ kused' \in Samples
        /\ live \in Samples /\ live' \in Samples
        /\ db \in State /\ snap \in State /\ snap' \in State
        /\ smp.val \in Samples /\ rec.seen \in Samples /\ rec.read \in State
        /\ snap.used \in Samples
        /\ smp.gen \in Nat /\ gen \in Nat
    BY UsedIsSample DEF TypeOK, SmpType, RecType
  <1>1. ASSUME NEW p \in Ports, Traffic(p) PROVE ViewInv'
    <2>1. \A m \in Meters :
             /\ kused'[m] # None <=> kused[m] # None
             /\ kused[m] # None => kused[m] <= kused'[m]
      <3>1. PICK hit \in Hits(p) :
               /\ \A m \in hit : kused[m] # None
               /\ kused' = [m \in Meters |-> IF m \in hit THEN kused[m] + 1
                                                          ELSE kused[m]]
        BY <1>1 DEF Traffic, Hits
      <3>2. \A m \in Meters : kused[m] # None => kused[m] \in Nat
        BY <1>b DEF Samples
      <3> QED BY <3>1, <3>2, MeteringAssumption
    <2>2. \A s \in Samples : AtMost(s, kused) => AtMost(s, kused')
      BY <1>b, <2>1, AtMostMore
    <2>3. UNCHANGED <<daemon, db, snap, live, gen, rec, smp, suspect>>
      BY <1>1 DEF Traffic
    <2>4. BootInv' /\ RecInv'
      BY <1>a, <2>3 DEF BootInv, RecInv, Agree, Loaded
    <2>5. ServeInv'
      BY <1>a, <1>b, <2>1, <2>2, <2>3 DEF ServeInv, SameObjects
    <2>6. SampleInv'
      BY <1>a, <1>b, <2>2, <2>3 DEF SampleInv
    <2>7. SeenInv'
      <3>1. rec.pc = "fold" => \A m \in Meters : rec.seen[m] # None =>
               kused'[m] # None /\ rec.seen[m] <= kused'[m]
        <4> SUFFICES ASSUME rec.pc = "fold", NEW m \in Meters, rec.seen[m] # None
                     PROVE  kused'[m] # None /\ rec.seen[m] <= kused'[m]
          OBVIOUS
        <4>1. kused[m] # None /\ rec.seen[m] <= kused[m]
          BY <1>a DEF SeenInv
        <4>2. kused'[m] # None /\ kused[m] <= kused'[m]
          BY <2>1, <4>1
        <4>3. rec.seen[m] \in Nat /\ kused[m] \in Nat /\ kused'[m] \in Nat
          BY <1>b, <4>1, <4>2 DEF Samples
        <4> QED BY <4>1, <4>2, <4>3
      <3> QED BY <1>a, <2>3, <3>1 DEF SeenInv, Asked
    <2> QED BY <1>a, <2>4, <2>5, <2>6, <2>7
  <1>2. CASE BillingBoundary
    BY <1>2, ViewStable DEF BillingBoundary
  <1>3. CASE BootCold
    BY <1>3, <1>a DEF BootCold, BootInv, ServeInv, RecInv, SampleInv, SeenInv,
                      TypeOK, Agree, NoSample
  <1>4. CASE BootHot
    <2>1. snap'.used = Fold(db.used, kused)
      BY <1>4, <1>b DEF BootHot, State
    <2>2. BootInv'
      BY <1>4, <2>1, AgreeFold DEF BootHot, BootInv
    <2> QED BY <1>4, <1>a, <2>2 DEF BootHot, ServeInv, RecInv, SampleInv, SeenInv,
                                    TypeOK
  <1>5. CASE BootApply
    <2>1. rec.pc = "idle" /\ smp.pc = "idle"
      BY <1>5 DEF BootApply, TypeOK
    <2>2. Agree(live, snap.used)
      BY <1>5, <1>a DEF BootApply, BootInv
    <2>3. AtMost(snap.used, kused') /\ AtMost(live, kused') /\ SameObjects'
      BY <1>5, <1>b, <2>2, RenderSeeds DEF BootApply, SameObjects
    <2> QED BY <1>5, <1>a, <2>1, <2>3
            DEF BootApply, BootInv, ServeInv, RecInv, SampleInv, SeenInv
  <1>6. CASE BootApplyFails
    BY <1>6, ViewForget DEF BootApplyFails
  <1>7. CASE Crash
    BY <1>7, ViewForget DEF Crash
  <1>8. CASE Reboot
    <2>1. rec.pc = "idle" /\ smp.pc = "idle"
      BY <1>8 DEF Reboot, TypeOK
    <2> QED BY <1>8, <1>a, <2>1
            DEF Reboot, BootInv, ServeInv, RecInv, SampleInv, SeenInv
  <1>c. ASSUME UNCHANGED <<daemon, kused, db, snap, live, gen, rec, suspect>>,
               SampleInv'
        PROVE  ViewInv'
    BY <1>a, <1>c DEF BootInv, ServeInv, RecInv, SeenInv, SameObjects, Loaded,
                      Asked
  <1>9. CASE SampleBegin
    <2>1. smp'.pc = "read" /\ smp'.gen = gen
      BY <1>9, NoSamplingType DEF SampleBegin, SmpType
    <2>2. SampleInv'
      BY <1>9, <1>b, <2>1 DEF SampleBegin, SampleInv
    <2> QED BY <1>9, <1>c, <2>2 DEF SampleBegin
  <1>10. CASE SampleRead
    <2>1. smp'.val = kused /\ smp'.gen = smp.gen
      BY <1>10 DEF SampleRead, TypeOK, SmpType
    <2>2. SampleInv'
      BY <1>10, <1>a, <1>b, <2>1, AtMostSelf DEF SampleRead, SampleInv
    <2> QED BY <1>10, <1>c, <2>2 DEF SampleRead
  <1>11. CASE SampleFails
    <2>1. SampleInv'
      BY <1>11, NoSamplingType DEF SampleFails, SampleInv
    <2> QED BY <1>11, <1>c, <2>1 DEF SampleFails
  <1>12. CASE SampleCommit
    <2>1. rec.pc = "idle" /\ daemon = "up" /\ smp'.pc = "idle"
      BY <1>12, NoSamplingType DEF SampleCommit, MuFree
    <2>2. ~suspect => AtMost(live', kused)
      BY <1>12, <1>a, <2>1 DEF SampleCommit, Committed, SampleInv, ServeInv
    <2> QED BY <1>12, <1>a, <2>1, <2>2
            DEF SampleCommit, BootInv, ServeInv, RecInv, SampleInv, SeenInv,
                SameObjects
  <1>13. ASSUME NEW p \in Persisters, PersistCopy(p) PROVE ViewInv'
    <2>1. rec.pc = "idle" /\ daemon = "up"
      BY <1>13 DEF PersistCopy, MuFree
    <2>2. snap'.used = Fold(snap.used, live) /\ snap'.tier = snap.tier
      BY <1>13, <1>b DEF PersistCopy, State
    <2>3. ~suspect => AtMost(snap'.used, kused)
      BY <1>a, <2>1, <2>2, AtMostFold DEF ServeInv
    <2> QED BY <1>13, <1>a, <2>1, <2>2, <2>3
            DEF PersistCopy, BootInv, ServeInv, RecInv, SampleInv, SeenInv,
                SameObjects
  <1>14. ASSUME NEW p \in Persisters, PersistWrite(p) PROVE ViewInv'
    <2>1. /\ rec'.pc = rec.pc /\ rec'.req = rec.req /\ rec'.seen = rec.seen
          /\ rec'.raced = (rec.pc \notin {"idle", "fold"})
      BY <1>14 DEF PersistWrite, TypeOK, RecType
    <2> QED BY <1>14, <1>a, <2>1
            DEF PersistWrite, BootInv, ServeInv, RecInv, SampleInv, SeenInv,
                SameObjects, Asked
  <1>15. ASSUME NEW p \in Persisters, PersistFails(p) PROVE ViewInv'
    BY <1>15, ViewStable DEF PersistFails
  <1>16. ASSUME NEW r, Enqueue(r) PROVE ViewInv'
    BY <1>16, ViewStable DEF Enqueue
  <1>17. ASSUME NEW a \in Accounts, AskReset(a) PROVE ViewInv'
    BY <1>16, <1>17 DEF AskReset
  <1>18. ASSUME NEW a \in Accounts, NEW v \in 0..MaxBytes, AskSetUsage(a, v)
         PROVE  ViewInv'
    BY <1>16, <1>18 DEF AskSetUsage
  <1>19. CASE DueScan
    BY <1>19, ViewStable DEF DueScan
  <1>20. ASSUME NEW a \in Accounts, DueReset(a) PROVE ViewInv'
    BY <1>16, <1>20 DEF DueReset
  <1>21. ASSUME NEW a \in Accounts, DueRefused(a) PROVE ViewInv'
    BY <1>21, ViewStable DEF DueRefused
  <1>22. ASSUME NEW r, RecBegin(r) PROVE ViewInv'
    <2>1. rec'.pc = "fold" /\ rec'.seen = kused
      BY <1>22, IdleType DEF RecBegin, RecType
    <2>2. SeenInv'
      BY <1>22, <1>b, <2>1 DEF RecBegin, SeenInv, Samples
    <2> QED BY <1>22, <1>a, <2>1, <2>2
            DEF RecBegin, MuFree, BootInv, ServeInv, RecInv, SampleInv, SameObjects
  <1>23. ASSUME NEW r \in waiting, Start(r) PROVE ViewInv'
    BY <1>22, <1>23 DEF Start
  <1>24. ASSUME NEW a \in Accounts, NEW t \in Tiers, StartSetTier(a, t)
         PROVE  ViewInv'
    BY <1>22, <1>24 DEF StartSetTier
  <1>25. CASE StartOther
    BY <1>22, <1>25 DEF StartOther
  <1>26. CASE SyncStart
    BY <1>22, <1>26 DEF SyncStart
  <1>27. CASE RecFold
    <2>1. daemon = "up" /\ live' = kused
      BY <1>27 DEF RecFold, Fresh, TypeOK
    <2>2. /\ rec'.pc = "mutate" /\ rec'.req = rec.req /\ rec'.seen = rec.seen
          /\ db'.used = Fold(db.used, live')
      BY <1>27, <1>b DEF RecFold, TypeOK, RecType, State
    <2>3. AtMost(live', kused') /\ Agree(live', db'.used)
      BY <1>27, <1>b, <2>1, <2>2, AtMostSelf, AgreeFold DEF RecFold
    <2>4. SeenInv'
      BY <1>27, <1>a, <2>1, <2>2 DEF RecFold, SeenInv
    <2> QED BY <1>27, <1>a, <2>1, <2>2, <2>3, <2>4
            DEF RecFold, BootInv, ServeInv, RecInv, SampleInv, SameObjects
  <1>28. CASE RecFoldFails
    <2>1. daemon = "up" /\ live' \in {live, kused} /\ rec'.pc = "idle"
      BY <1>28, IdleType DEF RecFoldFails, Fresh, TypeOK
    <2>2. ~suspect => AtMost(live', kused)
      BY <1>28, <1>a, <1>b, <2>1, AtMostSelf DEF RecFoldFails, ServeInv
    <2> QED BY <1>28, <1>a, <2>1, <2>2
            DEF RecFoldFails, BootInv, ServeInv, RecInv, SampleInv, SeenInv,
                SameObjects
  <1>29. CASE RecMutate
    <2>1. daemon = "up"
      BY <1>29 DEF RecMutate, TypeOK
    <2>2. /\ rec'.pc = "load" /\ rec'.req = rec.req /\ rec'.seen = rec.seen
          /\ rec'.raced = rec.raced
      BY <1>29 DEF RecMutate, TypeOK, RecType
    <2>3. db'.used = Written(rec.req, db.used) /\ live' = Written(rec.req, live)
      BY <1>29 DEF RecMutate, MutatedDb, MutatedLive
    <2>4. ~rec.raced => Agree(live', db'.used)
      BY <1>29, <1>a, <1>b, <2>3
         DEF RecMutate, RecInv, Agree, Written, State, Samples
    <2>5. SeenInv'
      BY <1>29, <1>a, <1>b, <2>2, <2>3
         DEF RecMutate, SeenInv, Asked, Written, Samples
    <2> QED BY <1>29, <1>a, <2>1, <2>2, <2>4, <2>5
            DEF RecMutate, BootInv, ServeInv, RecInv, SampleInv
  <1>30. CASE RecMutateFails
    <2>1. daemon = "up" /\ rec'.pc = "idle"
      BY <1>30, IdleType DEF RecMutateFails, TypeOK
    <2> QED BY <1>30, <1>a, <2>1
            DEF RecMutateFails, BootInv, ServeInv, RecInv, SampleInv, SeenInv,
                SameObjects
  <1>31. CASE RecLoad
    <2>1. daemon = "up"
      BY <1>31 DEF RecLoad, TypeOK
    <2>2. /\ rec'.pc = "apply" /\ rec'.req = rec.req /\ rec'.seen = rec.seen
          /\ rec'.raced = rec.raced /\ rec'.read = db
      BY <1>31 DEF RecLoad, TypeOK, RecType
    <2>3. Loaded'.used = db.used
      BY <1>31, <1>b, <2>2 DEF RecLoad, Loaded, State
    <2> QED BY <1>31, <1>a, <2>1, <2>2, <2>3
            DEF RecLoad, BootInv, ServeInv, RecInv, SampleInv, SeenInv, Asked
  <1>32. CASE RecApply
    <2>1. Loaded \in State /\ daemon = "up" /\ rec'.pc = "idle"
      BY <1>32, LoadedType, IdleType DEF RecApply, TypeOK
    <2>2. ~suspect' => /\ AtMost(live', kused') /\ AtMost(snap'.used, kused')
                       /\ SameObjects'
      BY <1>32, <1>a, <1>b, <2>1, RenderSeeds DEF RecApply, RecInv, SameObjects
    <2>3. SampleInv'
      BY <1>32, <1>a, <1>b DEF RecApply, SampleInv
    <2> QED BY <1>32, <1>a, <2>1, <2>2, <2>3
            DEF RecApply, BootInv, ServeInv, RecInv, SeenInv
  <1>33. CASE RecApplyFails
    <2>1. daemon = "up" /\ rec'.pc = "idle" /\ suspect'
      BY <1>33, IdleType DEF RecApplyFails, TypeOK
    <2> QED BY <1>33, <1>a, <2>1
            DEF RecApplyFails, BootInv, ServeInv, RecInv, SampleInv, SeenInv
  <1>34. CASE RecLoadFails
    <2>1. daemon = "up" /\ rec'.pc = "idle" /\ suspect'
      BY <1>34, IdleType DEF RecLoadFails, TypeOK
    <2> QED BY <1>34, <1>a, <2>1
            DEF RecLoadFails, BootInv, ServeInv, RecInv, SampleInv, SeenInv
  <1>35. CASE UNCHANGED vars
    BY <1>35, ViewStable DEF vars
  <1> QED
    BY <1>1, <1>2, <1>3, <1>4, <1>5, <1>6, <1>7, <1>8, <1>9, <1>10, <1>11,
       <1>12, <1>13, <1>14, <1>15, <1>17, <1>18, <1>19, <1>20, <1>21, <1>23,
       <1>24, <1>25, <1>26, <1>27, <1>28, <1>29, <1>30, <1>31, <1>32, <1>33,
       <1>34, <1>35
    DEF Next, Environment, Boots, Sampler, Persister, Clients, MonthlyReset,
        Reconcile, ReconcileStep

LEMMA ViewInvariant == Spec => [](TypeOK /\ ViewInv)
  <1>1. Init => TypeOK /\ ViewInv
    BY TypeInit, ViewInit
  <1>2. TypeOK /\ ViewInv /\ [Next]_vars => TypeOK' /\ ViewInv'
    BY TypeNext, ViewNext
  <1> QED BY <1>1, <1>2, PTL DEF Spec

-----------------------------------------------------------------------------
(* The theorems.                                                           *)

\* What clients are shown has been metered in the kernel.
THEOREM ViewTheorem == Spec => []ViewNeverAhead
  <1>1. TypeOK /\ ViewInv => ViewNeverAhead
    <2> SUFFICES ASSUME TypeOK, ViewInv, MuFree, ~suspect PROVE ViewNeverAhead
      BY DEF ViewNeverAhead
    <2>1. AtMost(live, kused) /\ AtMost(snap.used, kused) /\ SameObjects
      BY DEF MuFree, ViewInv, ServeInv
    <2>2. \A m \in Meters : snap.used[m] # None
      BY MeteringAssumption DEF TypeOK, State
    <2>3. ASSUME NEW a \in Accounts, HasQuota(snap.tier[a])
          PROVE  kused[a] # None /\ ShownAccount(a) <= kused[a]
      BY <2>1, <2>2, <2>3 DEF AtMost, SameObjects, ShownAccount, Meters
    <2>4. ASSUME NEW p \in Ports
          PROVE  kused[p] # None /\ ShownPort(p) <= kused[p]
      <3>1. kused[p] # None /\ kused[p] \in Nat
        BY <2>1 DEF SameObjects, TypeOK, Samples, Meters
      <3> QED BY <2>1, <3>1 DEF AtMost, ShownPort, Meters
    <2> QED BY <2>3, <2>4 DEF ViewNeverAhead
  <1> QED BY <1>1, ViewInvariant, PTL

\* A rebuild nothing overtook seeds what the client is shown next.
THEOREM SeedTheorem == Spec => SeedsMatchLive
  <1> DEFINE A == BootApply \/ (RecApply /\ ~rec.raced) =>
                     \A m \in Meters : kused'[m] # None /\ live[m] # None =>
                         kused'[m] = live[m]
  <1>1. TypeOK /\ ViewInv /\ [Next]_vars => [A]_vars
    <2> SUFFICES ASSUME TypeOK, ViewInv,
                        NEW m \in Meters, kused'[m] # None, live[m] # None,
                        BootApply \/ (RecApply /\ ~rec.raced)
                 PROVE  kused'[m] = live[m]
      OBVIOUS
    <2>1. CASE BootApply
      BY <2>1, RenderSeeds DEF BootApply, ViewInv, BootInv, Agree, TypeOK
    <2>2. CASE RecApply /\ ~rec.raced
      <3>1. Loaded \in State
        BY LoadedType DEF TypeOK
      <3> QED BY <2>2, <3>1, RenderSeeds DEF RecApply, ViewInv, RecInv, Agree, TypeOK
    <2> QED BY <2>1, <2>2
  <1> QED BY <1>1, ViewInvariant, PTL DEF Spec, SeedsMatchLive

\* What was metered when a reconcile took c.mu survives its rebuild.
THEOREM RebuildTheorem == Spec => RebuildKeepsMetered
  <1> DEFINE A == RecApply /\ ~rec.raced =>
                     \A m \in Meters :
                       /\ kused'[m] # None
                       /\ rec.seen[m] # None
                       /\ ~(m = rec.req.acct /\ rec.req.op \in {"reset", "setusage"})
                       => kused'[m] >= rec.seen[m]
  <1>1. TypeOK /\ ViewInv /\ [Next]_vars => [A]_vars
    <2> SUFFICES ASSUME TypeOK, ViewInv, RecApply, ~rec.raced,
                        NEW m \in Meters, kused'[m] # None, rec.seen[m] # None,
                        ~Asked(m)
                 PROVE  kused'[m] >= rec.seen[m]
      BY DEF Asked
    <2>1. Loaded \in State
      BY LoadedType DEF TypeOK
    <2>2. live[m] # None /\ rec.seen[m] <= live[m]
      BY DEF RecApply, ViewInv, SeenInv
    <2>3. kused'[m] = live[m]
      BY <2>1, <2>2, RenderSeeds DEF RecApply, ViewInv, RecInv, Agree, TypeOK
    <2>4. live[m] \in Nat /\ rec.seen[m] \in Nat
      BY <2>2 DEF TypeOK, RecType, Samples
    <2> QED BY <2>2, <2>3, <2>4
  <1> QED BY <1>1, ViewInvariant, PTL DEF Spec, RebuildKeepsMetered
=============================================================================

-------------------------- MODULE LifecycleProofs ---------------------------
(***************************************************************************)
(* For any number of daemons started by hand: where the types, the owner   *)
(* of the socket and the kernel's table of Lifecycle come from.            *)
(***************************************************************************)
EXTENDS Lifecycle, TLAPS

Places == {"off", "guard", "engine", "stat", "probe", "reclaim", "bind",
           "named", "bound", "serve", "close", "remove", "stop"}

\* every conjunct of TypeOK but the one about due
Types ==
    /\ pc \in [Daemons -> Places]
    /\ failed \in [Daemons -> BOOLEAN]
    /\ sock \in Daemons \cup {Nobody}
    /\ table \in Daemons \cup {Nobody}
    /\ wanted \in BOOLEAN
    /\ due \in BOOLEAN
    /\ td \in {"idle", "checked"}
    /\ gap \in BOOLEAN
    /\ events \in Scenarios

\* a service that was stopped, or is to be started, is on its way out
ServiceLeft ==
    /\ due => wanted
    /\ due \/ ~wanted => pc[Service] \in {"off", "close", "remove", "stop"}

\* where nobody leaves a socket behind and none was probed too soon, the path
\* belongs to whoever bound it, a daemon that finds it taken refuses, and nothing
\* is ever removed
PathOwned ==
    Orderly /\ ~gap =>
        /\ \A d \in Daemons : pc[d] \notin {"reclaim", "close", "remove"}
        /\ sock # Nobody => pc[sock] \in {"named", "bound", "serve"}
        /\ \A d \in Daemons : pc[d] \in {"named", "bound", "serve"} => sock = d
        /\ \A d \in Daemons : pc[d] = "probe" => sock # Nobody

\* without teardowns, a daemon that has built the table keeps it
TableKept ==
    "teardown" \notin events => td = "idle" /\ (Running # {} => table # Nobody)

Inv == Types /\ ServiceLeft /\ PathOwned /\ TableKept

-----------------------------------------------------------------------------
LEMMA InitInv == Init => Inv
  BY LifecycleAssumption
     DEF Init, Inv, Types, Places, ServiceLeft, PathOwned, TableKept, Running, Daemons

\* The disjuncts of Next, for one daemon.
Step(d) ==
    \/ Launch(d) \/ GuardPasses(d) \/ GuardRefuses(d)
    \/ NewApplies(d) \/ NewFails(d)
    \/ ListenStat(d) \/ ListenProbe(d) \/ ListenReclaim(d) \/ ListenBind(d)
    \/ ListenOpens(d)
    \/ Serves(d) \/ HttpFails(d)
    \/ Reconciles(d) \/ AcceptFails(d) \/ HandStops(d)
    \/ CloseListener(d) \/ CloseRemoves(d) \/ Stops(d) \/ Crash(d)

Machine ==
    \/ OperatorStops \/ OperatorStarts \/ Reboot \/ TeardownChecks \/ TeardownDeletes

LEMMA NextSplits == Next <=> (\E d \in Daemons : Step(d)) \/ Machine
  BY DEF Next, Step, Machine

\* Every step keeps the types.
LEMMA TypesKept ==
  ASSUME Types, [Next]_vars
  PROVE  Types'
<1>1. ASSUME NEW d \in Daemons, Step(d)
      PROVE  Types'
  <2> USE <1>1 DEF Types, Places, Goto
  <2>1. CASE Launch(d)       BY <2>1 DEF Launch
  <2>2. CASE GuardPasses(d)  BY <2>2 DEF GuardPasses
  <2>3. CASE GuardRefuses(d) BY <2>3 DEF GuardRefuses, Exit
  <2>4. CASE NewApplies(d)   BY <2>4 DEF NewApplies
  <2>5. CASE NewFails(d)     BY <2>5 DEF NewFails, Exit
  <2>6. CASE ListenStat(d)   BY <2>6 DEF ListenStat
  <2>7. CASE ListenProbe(d)  BY <2>7 DEF ListenProbe, FailTo
  <2>8. CASE ListenReclaim(d)BY <2>8 DEF ListenReclaim
  <2>9. CASE ListenBind(d)   BY <2>9 DEF ListenBind, FailTo
  <2>10. CASE Serves(d)      BY <2>10 DEF Serves
  <2>11. CASE HttpFails(d)   BY <2>11 DEF HttpFails, FailTo
  <2>12. CASE Reconciles(d)  BY <2>12 DEF Reconciles
  <2>13. CASE AcceptFails(d) BY <2>13 DEF AcceptFails
  <2>14. CASE HandStops(d)   BY <2>14 DEF HandStops, Signalled
  <2>15. CASE CloseListener(d)BY <2>15 DEF CloseListener
  <2>16. CASE CloseRemoves(d)BY <2>16 DEF CloseRemoves
  <2>17. CASE Stops(d)       BY <2>17 DEF Stops, Exit
  <2>18. CASE Crash(d)       BY <2>18 DEF Crash, Exit
  <2>19. CASE ListenOpens(d) BY <2>19 DEF ListenOpens
  <2> QED
    BY <2>1, <2>2, <2>3, <2>4, <2>5, <2>6, <2>7, <2>8, <2>9, <2>10, <2>11,
       <2>12, <2>13, <2>14, <2>15, <2>16, <2>17, <2>18, <2>19 DEF Step
<1>2. ASSUME Machine
      PROVE  Types'
  <2> USE <1>2 DEF Types, Places, Goto
  <2>1. CASE OperatorStops   BY <2>1 DEF OperatorStops, Signalled
  <2>2. CASE OperatorStarts  BY <2>2 DEF OperatorStarts
  <2>3. CASE Reboot          BY <2>3 DEF Reboot
  <2>4. CASE TeardownChecks  BY <2>4 DEF TeardownChecks
  <2>5. CASE TeardownDeletes BY <2>5 DEF TeardownDeletes
  <2> QED
    BY <2>1, <2>2, <2>3, <2>4, <2>5 DEF Machine
<1>3. CASE UNCHANGED vars
  BY <1>3 DEF Types, Places, Goto, vars
<1> QED
  BY <1>1, <1>2, <1>3, NextSplits

\* A start falls due only when the service has exited or is asked back while it
\* goes.
LEMMA ServiceLeftKept ==
  ASSUME Types, ServiceLeft, [Next]_vars
  PROVE  ServiceLeft'
<1>1. ASSUME NEW d \in Daemons, Step(d)
      PROVE  ServiceLeft'
  <2> USE <1>1 DEF Types, ServiceLeft, Places, Goto, Daemons
  <2>1. CASE Launch(d)       BY <2>1 DEF Launch
  <2>2. CASE GuardPasses(d)  BY <2>2 DEF GuardPasses
  <2>3. CASE GuardRefuses(d) BY <2>3 DEF GuardRefuses, Exit
  <2>4. CASE NewApplies(d)   BY <2>4 DEF NewApplies
  <2>5. CASE NewFails(d)     BY <2>5 DEF NewFails, Exit
  <2>6. CASE ListenStat(d)   BY <2>6 DEF ListenStat
  <2>7. CASE ListenProbe(d)  BY <2>7 DEF ListenProbe, FailTo
  <2>8. CASE ListenReclaim(d)BY <2>8 DEF ListenReclaim
  <2>9. CASE ListenBind(d)   BY <2>9 DEF ListenBind, FailTo
  <2>10. CASE Serves(d)      BY <2>10 DEF Serves
  <2>11. CASE HttpFails(d)   BY <2>11 DEF HttpFails, FailTo
  <2>12. CASE Reconciles(d)  BY <2>12 DEF Reconciles
  <2>13. CASE AcceptFails(d) BY <2>13 DEF AcceptFails
  <2>14. CASE HandStops(d)   BY <2>14 DEF HandStops, Signalled
  <2>15. CASE CloseListener(d)BY <2>15 DEF CloseListener
  <2>16. CASE CloseRemoves(d)BY <2>16 DEF CloseRemoves
  <2>17. CASE Stops(d)       BY <2>17 DEF Stops, Exit
  <2>18. CASE Crash(d)       BY <2>18 DEF Crash, Exit
  <2>19. CASE ListenOpens(d) BY <2>19 DEF ListenOpens
  <2> QED
    BY <2>1, <2>2, <2>3, <2>4, <2>5, <2>6, <2>7, <2>8, <2>9, <2>10, <2>11,
       <2>12, <2>13, <2>14, <2>15, <2>16, <2>17, <2>18, <2>19 DEF Step
<1>2. ASSUME Machine
      PROVE  ServiceLeft'
  <2> USE <1>2 DEF Types, ServiceLeft, Places, Goto, Daemons
  <2>1. CASE OperatorStops   BY <2>1 DEF OperatorStops, Signalled
  <2>2. CASE OperatorStarts  BY <2>2 DEF OperatorStarts
  <2>3. CASE Reboot          BY <2>3 DEF Reboot
  <2>4. CASE TeardownChecks  BY <2>4 DEF TeardownChecks
  <2>5. CASE TeardownDeletes BY <2>5 DEF TeardownDeletes
  <2> QED
    BY <2>1, <2>2, <2>3, <2>4, <2>5 DEF Machine
<1>3. CASE UNCHANGED vars
  BY <1>3 DEF Types, ServiceLeft, Places, Goto, Daemons, vars
<1> QED
  BY <1>1, <1>2, <1>3, NextSplits

\* In an orderly scenario the path passes from nobody to the daemon that binds.
LEMMA PathOwnedKept ==
  ASSUME Types, PathOwned, [Next]_vars
  PROVE  PathOwned'
<1>1. ASSUME NEW d \in Daemons, Step(d)
      PROVE  PathOwned'
  <2> USE <1>1, LifecycleAssumption DEF Types, PathOwned, Orderly, Goto
  <2>1. CASE Launch(d)       BY <2>1 DEF Launch
  <2>2. CASE GuardPasses(d)  BY <2>2 DEF GuardPasses
  <2>3. CASE GuardRefuses(d) BY <2>3 DEF GuardRefuses, Exit
  <2>4. CASE NewApplies(d)   BY <2>4 DEF NewApplies
  <2>5. CASE NewFails(d)     BY <2>5 DEF NewFails, Exit
  <2>6. CASE ListenStat(d)   BY <2>6 DEF ListenStat
  <2>7. CASE ListenProbe(d)  BY <2>7 DEF ListenProbe, FailTo, DaemonAlive, ProbeFails,
                                                      Listening, TooSoon
  <2>8. CASE ListenReclaim(d)BY <2>8 DEF ListenReclaim
  <2>9. CASE ListenBind(d)   BY <2>9 DEF ListenBind, FailTo
  <2>10. CASE Serves(d)      BY <2>10 DEF Serves
  <2>11. CASE HttpFails(d)   BY <2>11 DEF HttpFails, FailTo
  <2>12. CASE Reconciles(d)  BY <2>12 DEF Reconciles
  <2>13. CASE AcceptFails(d) BY <2>13 DEF AcceptFails
  <2>14. CASE HandStops(d)   BY <2>14 DEF HandStops, Signalled
  <2>15. CASE CloseListener(d)BY <2>15 DEF CloseListener
  <2>16. CASE CloseRemoves(d)BY <2>16 DEF CloseRemoves
  <2>17. CASE Stops(d)       BY <2>17 DEF Stops, Exit
  <2>18. CASE Crash(d)       BY <2>18 DEF Crash, Exit
  <2>19. CASE ListenOpens(d) BY <2>19 DEF ListenOpens
  <2> QED
    BY <2>1, <2>2, <2>3, <2>4, <2>5, <2>6, <2>7, <2>8, <2>9, <2>10, <2>11,
       <2>12, <2>13, <2>14, <2>15, <2>16, <2>17, <2>18, <2>19 DEF Step
<1>2. ASSUME Machine
      PROVE  PathOwned'
  <2> USE <1>2, LifecycleAssumption DEF Types, PathOwned, Orderly, Goto
  <2>1. CASE OperatorStops   BY <2>1 DEF OperatorStops, Signalled
  <2>2. CASE OperatorStarts  BY <2>2 DEF OperatorStarts
  <2>3. CASE Reboot          BY <2>3 DEF Reboot
  <2>4. CASE TeardownChecks  BY <2>4 DEF TeardownChecks
  <2>5. CASE TeardownDeletes BY <2>5 DEF TeardownDeletes
  <2> QED
    BY <2>1, <2>2, <2>3, <2>4, <2>5 DEF Machine
<1>3. CASE UNCHANGED vars
  BY <1>3, LifecycleAssumption DEF Types, PathOwned, Orderly, Goto, vars
<1> QED
  BY <1>1, <1>2, <1>3, NextSplits

\* Who gets past New has just built the table.
LEMMA TableKeptKept ==
  ASSUME Types, TableKept, [Next]_vars
  PROVE  TableKept'
<1>1. ASSUME NEW d \in Daemons, Step(d)
      PROVE  TableKept'
  <2> USE <1>1, LifecycleAssumption DEF Types, TableKept, Running, Goto
  <2>1. CASE Launch(d)       BY <2>1 DEF Launch
  <2>2. CASE GuardPasses(d)  BY <2>2 DEF GuardPasses
  <2>3. CASE GuardRefuses(d) BY <2>3 DEF GuardRefuses, Exit
  <2>4. CASE NewApplies(d)   BY <2>4 DEF NewApplies
  <2>5. CASE NewFails(d)     BY <2>5 DEF NewFails, Exit
  <2>6. CASE ListenStat(d)   BY <2>6 DEF ListenStat
  <2>7. CASE ListenProbe(d)  BY <2>7 DEF ListenProbe, FailTo
  <2>8. CASE ListenReclaim(d)BY <2>8 DEF ListenReclaim
  <2>9. CASE ListenBind(d)   BY <2>9 DEF ListenBind, FailTo
  <2>10. CASE Serves(d)      BY <2>10 DEF Serves
  <2>11. CASE HttpFails(d)   BY <2>11 DEF HttpFails, FailTo
  <2>12. CASE Reconciles(d)  BY <2>12 DEF Reconciles
  <2>13. CASE AcceptFails(d) BY <2>13 DEF AcceptFails
  <2>14. CASE HandStops(d)   BY <2>14 DEF HandStops, Signalled
  <2>15. CASE CloseListener(d)BY <2>15 DEF CloseListener
  <2>16. CASE CloseRemoves(d)BY <2>16 DEF CloseRemoves
  <2>17. CASE Stops(d)       BY <2>17 DEF Stops, Exit
  <2>18. CASE Crash(d)       BY <2>18 DEF Crash, Exit
  <2>19. CASE ListenOpens(d) BY <2>19 DEF ListenOpens
  <2> QED
    BY <2>1, <2>2, <2>3, <2>4, <2>5, <2>6, <2>7, <2>8, <2>9, <2>10, <2>11,
       <2>12, <2>13, <2>14, <2>15, <2>16, <2>17, <2>18, <2>19 DEF Step
<1>2. ASSUME Machine
      PROVE  TableKept'
  <2> USE <1>2, LifecycleAssumption DEF Types, TableKept, Running, Goto
  <2>1. CASE OperatorStops   BY <2>1 DEF OperatorStops, Signalled
  <2>2. CASE OperatorStarts  BY <2>2 DEF OperatorStarts
  <2>3. CASE Reboot          BY <2>3 DEF Reboot
  <2>4. CASE TeardownChecks  BY <2>4 DEF TeardownChecks
  <2>5. CASE TeardownDeletes BY <2>5 DEF TeardownDeletes
  <2> QED
    BY <2>1, <2>2, <2>3, <2>4, <2>5 DEF Machine
<1>3. CASE UNCHANGED vars
  BY <1>3, LifecycleAssumption DEF Types, TableKept, Running, Goto, vars
<1> QED
  BY <1>1, <1>2, <1>3, NextSplits

-----------------------------------------------------------------------------
LEMMA InvKept == Inv /\ [Next]_vars => Inv'
  BY TypesKept, ServiceLeftKept, PathOwnedKept, TableKeptKept DEF Inv

LEMMA Invariant == Spec => []Inv
  BY InitInv, InvKept, PTL DEF Spec

\* Every variable keeps its type, and systemd never has a start of the service
\* due while the service serves.
THEOREM TypeTheorem == Spec => []TypeOK
<1>1. Inv => TypeOK
  BY DEF Inv, Types, ServiceLeft, TypeOK, Places
<1> QED
  BY <1>1, Invariant, PTL

\* However many daemons are started and in whatever order they stat, dial, bind
\* and listen: in an orderly scenario in which no probe fell between a bind and
\* its listen, whoever listens owns the path, so at most one does.
THEOREM SocketTheorem == Spec => []SocketIsServers
<1>1. Inv => SocketIsServers
  BY DEF Inv, PathOwned, SocketIsServers, Orderly, Listening
<1> QED
  BY <1>1, Invariant, PTL

\* What another daemon does next, or the machine, does not unsettle a daemon.
LEMMA OthersLeaveIt ==
  ASSUME Types, NEW d \in Daemons, Settled(d), "queue" \notin events,
         NEW e \in Daemons, Step(e), pc'[d] \in {"bound", "serve"}
  PROVE  Settled(d)'
<1> USE LifecycleAssumption DEF Types, Settled, Goto
<1>1. CASE Launch(e)       BY <1>1 DEF Launch
<1>2. CASE GuardPasses(e)  BY <1>2 DEF GuardPasses
<1>3. CASE GuardRefuses(e) BY <1>3 DEF GuardRefuses, Exit
<1>4. CASE NewApplies(e)   BY <1>4 DEF NewApplies
<1>5. CASE NewFails(e)     BY <1>5 DEF NewFails, Exit
<1>6. CASE ListenStat(e)   BY <1>6 DEF ListenStat
<1>7. CASE ListenProbe(e)
  BY <1>7 DEF ListenProbe, FailTo, DaemonAlive, ProbeFails, Listening
<1>8. CASE ListenReclaim(e)BY <1>8 DEF ListenReclaim
<1>9. CASE ListenBind(e)   BY <1>9 DEF ListenBind, FailTo
<1>10. CASE ListenOpens(e) BY <1>10 DEF ListenOpens
<1>11. CASE Serves(e)      BY <1>11 DEF Serves
<1>12. CASE HttpFails(e)   BY <1>12 DEF HttpFails, FailTo
<1>13. CASE Reconciles(e)  BY <1>13 DEF Reconciles
<1>14. CASE AcceptFails(e) BY <1>14 DEF AcceptFails
<1>15. CASE HandStops(e)   BY <1>15 DEF HandStops, Signalled
<1>16. CASE CloseListener(e)BY <1>16 DEF CloseListener
<1>17. CASE CloseRemoves(e)BY <1>17 DEF CloseRemoves
<1>18. CASE Stops(e)       BY <1>18 DEF Stops, Exit
<1>19. CASE Crash(e)       BY <1>19 DEF Crash, Exit
<1> QED
  BY <1>1, <1>2, <1>3, <1>4, <1>5, <1>6, <1>7, <1>8, <1>9, <1>10, <1>11,
     <1>12, <1>13, <1>14, <1>15, <1>16, <1>17, <1>18, <1>19 DEF Step

\* However many daemons there are, and whatever has crashed, closed or failed
\* before: a daemon that answers at the path, with nobody else who has ever bound
\* it or is on the way to removing it, keeps the path for as long as it runs.
THEOREM StaysTheorem == Spec => SocketStays
<1>1. ASSUME Inv, [Next]_vars, NEW d \in Daemons, Settled(d),
             "queue" \notin events, pc'[d] \in {"bound", "serve"}
      PROVE  Settled(d)'
  <2>1. ASSUME NEW e \in Daemons, Step(e)
        PROVE  Settled(d)'
    BY <1>1, <2>1, OthersLeaveIt DEF Inv
  <2>2. CASE OperatorStops
    BY <1>1, <2>2 DEF Inv, Types, Settled, Goto, OperatorStops, Signalled, Daemons
  <2>3. CASE OperatorStarts
    BY <1>1, <2>3 DEF Settled, OperatorStarts
  <2>4. CASE Reboot
    BY <1>1, <2>4 DEF Reboot
  <2>5. CASE TeardownChecks
    BY <1>1, <2>5 DEF Settled, TeardownChecks
  <2>6. CASE TeardownDeletes
    BY <1>1, <2>6 DEF Settled, TeardownDeletes
  <2>7. CASE UNCHANGED vars
    BY <1>1, <2>7 DEF Settled, vars
  <2> QED
    BY <1>1, <2>1, <2>2, <2>3, <2>4, <2>5, <2>6, <2>7, NextSplits DEF Machine
<1>2. Inv /\ [Next]_vars
         => \A d \in Daemons :
               Settled(d) /\ "queue" \notin events /\ pc'[d] \in {"bound", "serve"}
                  => Settled(d)'
  BY <1>1
<1> QED
  BY <1>2, Invariant, PTL DEF Spec, SocketStays

\* Whatever crashes, reboots and failed starts there are: without a teardown
\* nobody serves next to an empty kernel.
THEOREM TableTheorem == Spec => []KernelHasTable
<1>1. Inv => KernelHasTable
  BY DEF Inv, TableKept, KernelHasTable, Running
<1> QED
  BY <1>1, Invariant, PTL

\* A teardown that begins while a daemon serves sees it: its probe is answered,
\* because the path is that daemon's unless a start probed it too soon.
THEOREM SparesTheorem == Spec => TeardownSparesServers
<1>1. ASSUME Inv, [Next]_vars, Orderly, ~gap, td = "idle", td' = "checked"
      PROVE  \A d \in Daemons : pc[d] # "serve"
  <2>1. ProbeFails
    <3>1. TeardownChecks
      BY <1>1 DEF Inv, Types, Next, vars, Launch, GuardPasses, GuardRefuses,
         NewApplies, NewFails, ListenStat, ListenProbe, ListenReclaim, ListenBind,
         ListenOpens, Serves, HttpFails, Reconciles, AcceptFails, HandStops, CloseListener,
         CloseRemoves, Stops, Crash, OperatorStops, OperatorStarts, Reboot,
         TeardownDeletes
    <3> QED
      BY <3>1 DEF TeardownChecks
  <2>2. ~DaemonAlive
    BY <1>1, <2>1 DEF ProbeFails, Orderly
  <2> QED
    BY <1>1, <2>2 DEF Inv, PathOwned, DaemonAlive, Listening
<1>2. Inv /\ [Next]_vars
         => (Orderly /\ ~gap /\ td = "idle" /\ td' = "checked" => \A d \in Daemons : pc[d] # "serve")
  BY <1>1
<1> QED
  BY <1>2, Invariant, PTL DEF Spec, TeardownSparesServers

=============================================================================

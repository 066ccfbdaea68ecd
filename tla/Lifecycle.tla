----------------------------- MODULE Lifecycle ------------------------------
(***************************************************************************)
(* Processes, the socket file and the kernel table (internal/cli,          *)
(* internal/rpc): what `nfuse server` does from its first probe of the     *)
(* socket to its exit, `nfuse teardown`, the systemd unit that restarts    *)
(* the daemon, and daemons people start by hand next to it.                *)
(*                                                                         *)
(* Every system call on the socket is a step of its own.  The socket is    *)
(* known by its name: whoever removes it removes whatever has that name.   *)
(***************************************************************************)
EXTENDS Integers, FiniteSets

CONSTANTS
    Service,     \* the daemon that systemd runs
    ByHand,      \* the daemons people start
    Nobody,      \* no daemon
    Scenarios    \* the sets of things that may happen besides starting and serving

AllEvents == {"engine", "http", "accept", "queue", "crash", "reboot", "stop",
              "teardown"}

Daemons == {Service} \cup ByHand

ASSUME LifecycleAssumption ==
    /\ Service \notin ByHand
    /\ Nobody \notin Daemons
    /\ Scenarios \subseteq SUBSET AllEvents

VARIABLES
    pc,          \* where each daemon is in runServerDaemon
    failed,      \* the exit code it is heading for is not zero
    sock,        \* the daemon that bound the file at the socket's path
    table,       \* the daemon that last built the kernel's table
    wanted,      \* the operator wants the service to run
    due,         \* systemd is about to start the service
    td,          \* where `nfuse teardown` is
    gap,         \* history: a socket was taken for a leftover between its
                 \* daemon's bind and listen
    events       \* the scenario

vars == <<pc, failed, sock, table, wanted, due, td, gap, events>>

-----------------------------------------------------------------------------

\* listen is done and the listener is not closed yet
Listening == {d \in Daemons : pc[d] \in {"bound", "serve", "close"}}

\* New has returned and Stop has not
Running == {d \in Daemons : pc[d] \in
    {"stat", "probe", "reclaim", "bind", "named", "bound", "serve", "close", "remove", "stop"}}

\* a dial to the path is answered
DaemonAlive == sock \in Listening

\* a dial fails: nobody is there, or the accept queue of who is there is full
ProbeFails == ~DaemonAlive \/ "queue" \in events

\* the daemon that bound the path has not come to listen: a dial is refused
TooSoon == sock # Nobody /\ pc[sock] = "named"

Goto(d, l) == pc' = [pc EXCEPT ![d] = l]

\* mutant of Exit: a failed service is started again although it was stopped
ExitIgnoresStop(d, failure) ==
    /\ Goto(d, "off")
    /\ failed' = [failed EXCEPT ![d] = FALSE]
    /\ due' = (due \/ (d = Service /\ failure))

\* systemd starts the service again if it failed and nobody stopped it
Exit(d, failure) ==
    /\ Goto(d, "off")
    /\ failed' = [failed EXCEPT ![d] = FALSE]
    /\ due' = (due \/ (d = Service /\ wanted /\ failure))

\* what follows ends with exit code 1
FailTo(d, l) ==
    /\ Goto(d, l)
    /\ failed' = [failed EXCEPT ![d] = TRUE]

Init ==
    /\ pc = [d \in Daemons |-> "off"]
    /\ failed = [d \in Daemons |-> FALSE]
    /\ sock = Nobody
    /\ table = Nobody
    /\ wanted = TRUE
    /\ due = TRUE
    /\ td = "idle"
    /\ gap = FALSE
    /\ events \in Scenarios

-----------------------------------------------------------------------------
(* Starting.                                                               *)

Launch(d) ==
    /\ pc[d] = "off"
    /\ d = Service => due
    /\ Goto(d, "guard")
    /\ due' = (due /\ d # Service)
    /\ UNCHANGED <<failed, sock, table, wanted, td, gap, events>>

\* singleInstanceGuard
GuardPasses(d) ==
    /\ pc[d] = "guard"
    /\ ProbeFails
    /\ Goto(d, "engine")
    /\ UNCHANGED <<failed, sock, table, wanted, due, td, gap, events>>

GuardRefuses(d) ==
    /\ pc[d] = "guard"
    /\ DaemonAlive
    /\ Exit(d, TRUE)
    /\ UNCHANGED <<sock, table, wanted, td, gap, events>>

\* mutant of NewApplies: New loads the state and leaves the table to the first
\* mutation
NewOnlyLoads(d) ==
    /\ pc[d] = "engine"
    /\ Goto(d, "stat")
    /\ UNCHANGED <<failed, sock, table, wanted, due, td, gap, events>>

\* store.Open, engine.New and Start
NewApplies(d) ==
    /\ pc[d] = "engine"
    /\ table' = d
    /\ Goto(d, "stat")
    /\ UNCHANGED <<failed, sock, wanted, due, td, gap, events>>

\* the preflight, the database or New fails, perhaps after nft committed
NewFails(d) ==
    /\ "engine" \in events
    /\ pc[d] = "engine"
    /\ table' \in {table, d}
    /\ Exit(d, TRUE)
    /\ UNCHANGED <<sock, wanted, td, gap, events>>

\* Listen: stat ...
ListenStat(d) ==
    /\ pc[d] = "stat"
    /\ Goto(d, IF sock = Nobody THEN "bind" ELSE "probe")
    /\ UNCHANGED <<failed, sock, table, wanted, due, td, gap, events>>

\* mutant of ListenProbe: whatever is at the path is taken for a leftover
ListenProbeSteals(d) ==
    /\ pc[d] = "probe"
    /\ Goto(d, "reclaim")
    /\ UNCHANGED <<failed, sock, table, wanted, due, td, gap, events>>

\* mutant of ListenProbe: a daemon that is refused closes its server, which
\* removes the path
ListenProbeRemoves(d) ==
    /\ pc[d] = "probe"
    /\ \/ DaemonAlive /\ FailTo(d, "remove") /\ UNCHANGED gap
       \/ /\ ProbeFails
          /\ Goto(d, "reclaim")
          /\ gap' = (gap \/ TooSoon)
          /\ UNCHANGED failed
    /\ UNCHANGED <<sock, table, wanted, due, td, events>>

\* mutant of ListenProbe: no leftover is reclaimed
ListenProbeRefuses(d) ==
    /\ pc[d] = "probe"
    /\ FailTo(d, "stop")
    /\ UNCHANGED <<sock, table, wanted, due, td, gap, events>>

\* ... dial: refuse, which stops the engine again, or reclaim ...
ListenProbe(d) ==
    /\ pc[d] = "probe"
    /\ \/ DaemonAlive /\ FailTo(d, "stop") /\ UNCHANGED gap
       \/ /\ ProbeFails
          /\ Goto(d, "reclaim")
          /\ gap' = (gap \/ TooSoon)
          /\ UNCHANGED failed
    /\ UNCHANGED <<sock, table, wanted, due, td, events>>

\* ... remove whatever is at the path now ...
ListenReclaim(d) ==
    /\ pc[d] = "reclaim"
    /\ sock' = Nobody
    /\ Goto(d, "bind")
    /\ UNCHANGED <<failed, table, wanted, due, td, gap, events>>

\* ... bind, which fails if the path exists ...
ListenBind(d) ==
    /\ pc[d] = "bind"
    /\ \/ /\ sock = Nobody
          /\ sock' = d
          /\ Goto(d, "named")
          /\ UNCHANGED failed
       \/ /\ sock # Nobody
          /\ FailTo(d, "stop")
          /\ UNCHANGED sock
    /\ UNCHANGED <<table, wanted, due, td, gap, events>>

\* ... and listen, from where on a dial is answered
ListenOpens(d) ==
    /\ pc[d] = "named"
    /\ Goto(d, "bound")
    /\ UNCHANGED <<failed, sock, table, wanted, due, td, gap, events>>

\* the HTTP listener, Serve and signal.Notify
Serves(d) ==
    /\ pc[d] = "bound"
    /\ Goto(d, "serve")
    /\ UNCHANGED <<failed, sock, table, wanted, due, td, gap, events>>

HttpFails(d) ==
    /\ "http" \in events
    /\ pc[d] = "bound"
    /\ FailTo(d, "close")
    /\ UNCHANGED <<sock, table, wanted, due, td, gap, events>>

-----------------------------------------------------------------------------
(* Running and stopping.                                                   *)

\* a mutation, a due reset or a resync rebuilds the table
Reconciles(d) ==
    /\ d \in Running
    /\ table' = d
    /\ UNCHANGED <<pc, failed, sock, wanted, due, td, gap, events>>

\* Accept returns an error (no file descriptor left); Serve hands it on, the
\* daemon logs it and returns 0
AcceptFails(d) ==
    /\ "accept" \in events
    /\ pc[d] = "serve"
    /\ Goto(d, "close")
    /\ UNCHANGED <<failed, sock, table, wanted, due, td, gap, events>>

\* SIGTERM: a daemon that serves shuts down, one that has not come to
\* signal.Notify dies, one that is shutting down takes no notice
Signalled(d) ==
    IF pc[d] = "serve" THEN Goto(d, "close")
    ELSE IF pc[d] \in {"off", "close", "remove", "stop"} THEN UNCHANGED pc
    ELSE Goto(d, "off")

OperatorStops ==
    /\ "stop" \in events
    /\ wanted
    /\ wanted' = FALSE
    /\ due' = FALSE
    /\ Signalled(Service)
    /\ UNCHANGED <<failed, sock, table, td, gap, events>>

OperatorStarts ==
    /\ ~wanted
    /\ wanted' = TRUE
    /\ due' = TRUE
    /\ UNCHANGED <<pc, failed, sock, table, td, gap, events>>

HandStops(d) ==
    /\ "stop" \in events
    /\ d \in ByHand
    /\ pc[d] # "off"
    /\ Signalled(d)
    /\ UNCHANGED <<failed, sock, table, wanted, due, td, gap, events>>

\* Server.Close: closing a Go listener removes its path first ...
CloseListener(d) ==
    /\ pc[d] = "close"
    /\ sock' = Nobody
    /\ Goto(d, "remove")
    /\ UNCHANGED <<failed, table, wanted, due, td, gap, events>>

\* ... and then Close removes the path itself
CloseRemoves(d) ==
    /\ pc[d] = "remove"
    /\ sock' = Nobody
    /\ Goto(d, "stop")
    /\ UNCHANGED <<failed, table, wanted, due, td, gap, events>>

\* Controller.Stop, store.Close, exit
Stops(d) ==
    /\ pc[d] = "stop"
    /\ Exit(d, failed[d])
    /\ UNCHANGED <<sock, table, wanted, td, gap, events>>

Crash(d) ==
    /\ "crash" \in events
    /\ pc[d] # "off"
    /\ Exit(d, TRUE)
    /\ UNCHANGED <<sock, table, wanted, td, gap, events>>

\* /run is emptied, the kernel's table is gone, the service is enabled
Reboot ==
    /\ "reboot" \in events
    /\ pc' = [d \in Daemons |-> "off"]
    /\ failed' = [d \in Daemons |-> FALSE]
    /\ sock' = Nobody
    /\ table' = Nobody
    /\ wanted' = TRUE
    /\ due' = TRUE
    /\ td' = "idle"
    /\ gap' = FALSE
    /\ UNCHANGED events

-----------------------------------------------------------------------------
(* nfuse teardown.                                                         *)

\* mutant of TeardownChecks: the table is deleted whoever listens
TeardownBlindly ==
    /\ "teardown" \in events
    /\ td = "idle"
    /\ td' = "checked"
    /\ UNCHANGED <<pc, failed, sock, table, wanted, due, gap, events>>

TeardownChecks ==
    /\ "teardown" \in events
    /\ td = "idle"
    /\ ProbeFails
    /\ td' = "checked"
    /\ UNCHANGED <<pc, failed, sock, table, wanted, due, gap, events>>

TeardownDeletes ==
    /\ td = "checked"
    /\ td' = "idle"
    /\ table' = Nobody
    /\ UNCHANGED <<pc, failed, sock, wanted, due, gap, events>>

Next ==
    \/ \E d \in Daemons :
          \/ Launch(d) \/ GuardPasses(d) \/ GuardRefuses(d)
          \/ NewApplies(d) \/ NewFails(d)
          \/ ListenStat(d) \/ ListenProbe(d) \/ ListenReclaim(d) \/ ListenBind(d)
          \/ ListenOpens(d)
          \/ Serves(d) \/ HttpFails(d)
          \/ Reconciles(d) \/ AcceptFails(d) \/ HandStops(d)
          \/ CloseListener(d) \/ CloseRemoves(d) \/ Stops(d) \/ Crash(d)
    \/ OperatorStops \/ OperatorStarts \/ Reboot
    \/ TeardownChecks \/ TeardownDeletes

Spec == Init /\ [][Next]_vars

\* What the process of d does next when nothing befalls it.
Forward(d) ==
    \/ GuardPasses(d) \/ GuardRefuses(d) \/ NewApplies(d)
    \/ ListenStat(d) \/ ListenProbe(d) \/ ListenReclaim(d) \/ ListenBind(d)
    \/ ListenOpens(d) \/ Serves(d)
    \/ CloseListener(d) \/ CloseRemoves(d) \/ Stops(d)

\* A process that can take its next step takes it, systemd starts what is due,
\* no step of the service's start fails every time it may succeed, and no daemon
\* dies every time between its bind and its first Accept.
FairSpec ==
    /\ Spec
    /\ WF_vars(Launch(Service))
    /\ \A d \in Daemons : WF_vars(Forward(d)) /\ SF_vars(ListenOpens(d)) /\ SF_vars(Serves(d))
    /\ SF_vars(GuardPasses(Service))
    /\ SF_vars(NewApplies(Service))
    /\ SF_vars(ListenStat(Service))
    /\ SF_vars(ListenProbe(Service))
    /\ SF_vars(ListenReclaim(Service))
    /\ SF_vars(ListenBind(Service) /\ sock = Nobody)

-----------------------------------------------------------------------------
(* Properties.                                                             *)

\* Every variable has its type; a start is not due while the service serves.
TypeOK ==
    /\ pc \in [Daemons -> {"off", "guard", "engine", "stat", "probe", "reclaim",
                           "bind", "named", "bound", "serve", "close", "remove",
                           "stop"}]
    /\ failed \in [Daemons -> BOOLEAN]
    /\ sock \in Daemons \cup {Nobody}
    /\ table \in Daemons \cup {Nobody}
    /\ wanted \in BOOLEAN
    /\ due \in BOOLEAN
    /\ due => wanted /\ pc[Service] # "serve"
    /\ td \in {"idle", "checked"}
    /\ gap \in BOOLEAN
    /\ events \in Scenarios

\* No daemon closes, dies or fails after it bound, and no accept queue is full.
Orderly == events \cap {"http", "accept", "queue", "crash", "stop"} = {}

\* Of several daemons that start together, the second to reach the socket
\* refuses, so at most one listens, and it is the one that clients reach ("a
\* second daemon must not steal a socket a live daemon already owns", rpc_test.go
\* 250-251).  There is one way to two: a probe that comes between the first one's
\* bind and its listen is refused like a dead socket's, and the path is removed.
SocketIsServers == Orderly /\ ~gap => \A d \in Listening : sock = d

\* The daemon d answers at the path and nobody else has ever bound it or is
\* about to remove it.
Settled(d) ==
    /\ sock = d
    /\ pc[d] \in {"bound", "serve"}
    /\ \A e \in Daemons \ {d} :
          pc[e] \notin {"reclaim", "named", "bound", "serve", "close", "remove"}

\* Such a daemon keeps its socket for as long as it runs: whoever starts,
\* wherever in its own start it is, and whatever has crashed, was stopped or
\* failed before, no later daemon removes the path ("Listen refuses rather than
\* removing the socket and stealing it", server.go 84-88).  Only a full accept
\* queue makes a probe take a daemon that answers for a dead one.
SocketStays ==
    [][\A d \in Daemons :
          Settled(d) /\ "queue" \notin events /\ pc'[d] \in {"bound", "serve"}
             => Settled(d)']_vars

\* While a daemon serves, the kernel has a table, unless `nfuse teardown` ran
\* next to its start.
KernelHasTable ==
    "teardown" \notin events => \A d \in Daemons : pc[d] = "serve" => table # Nobody

\* `nfuse teardown` never begins to delete the table of a daemon that serves
\* (lifecycle.go 116-124), whatever daemons started together, unless one of them
\* lost its path to a probe between its bind and its listen.
TeardownSparesServers ==
    [][Orderly /\ ~gap /\ td = "idle" /\ td' = "checked"
          => \A d \in Daemons : pc[d] # "serve"]_vars

\* A daemon that serves keeps its table through a teardown that began before it
\* listened.  This does not hold: the probe and the deletion are two steps.
TeardownLeavesTable ==
    Orderly => \A d \in Daemons : pc[d] = "serve" => table # Nobody

\* The table in the kernel is the one the serving daemon built: "a duplicate
\* daemon is rejected before it can mutate the shared kernel/DB state"
\* (lifecycle.go 149-153).  This does not hold: the guard only sees a daemon
\* that listens.
ServerOwnsKernel == \A d \in Daemons : pc[d] = "serve" => table = d

\* Clients that dial the path reach a daemon that serves.
ClientsServed == \E d \in Daemons : pc[d] = "serve" /\ sock = d

\* Whenever systemd is to start the service, clients are served again: after
\* every crash, reboot and failed start, with a leftover socket at the path, and
\* with daemons started by hand in between.  Where daemons close, die or are cut
\* off by a reboot next to each other there is one way out: the service itself
\* serves, and another daemon has removed its path (the second removal of Close,
\* server.go 136-138, or a start that took it for a leftover), which systemd does
\* not see.
ServiceComesBack ==
    due ~> \/ ClientsServed
           \/ ~wanted
           \/ /\ ~Orderly \/ "reboot" \in events
              /\ pc[Service] = "serve"
              /\ sock # Service

\* The daemon "is what systemd keeps running" (lifecycle.go 41-42): it serves
\* again unless somebody stopped it.  This does not hold when Accept fails,
\* because the daemon then exits with 0.
ServiceStaysUp == wanted ~> (\E d \in Daemons : pc[d] = "serve") \/ ~wanted

=============================================================================

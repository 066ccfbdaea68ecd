------------------------------ MODULE Console -------------------------------
(***************************************************************************)
(* The two front ends: the terminal UI, whose table is redrawn under the   *)
(* user's hands and under an open dialog, and the commands, which look an  *)
(* account up in one call and act on it in the next.  What the daemon does *)
(* with a call is Directory's; what it reports may be a failure of a call  *)
(* that was made all the same.                                             *)
(***************************************************************************)
EXTENDS Sorting, SequencesExt

CONSTANTS
    AccountIds,   \* ids of accounts, 1..n
    PortIds,      \* ids of ports, 1..n
    Names,        \* account names; a number may be the name of an account
    Tiers,        \* account tiers
    Spans,        \* port intervals, records with fields lo and hi
    Scenarios     \* what to explore: a directory to start from, keys, commands, others

Ops == {"AddAccount", "DeleteAccount", "SetTier", "SetExpiry", "ResetAccount",
        "SetUsage", "RegenerateToken", "ShowToken", "AddPort", "EditPort",
        "DeletePort", "MovePort"}

Keys == {"a", "d", "p", "e", "x", "m", "t", "r", "u", "v"}

\* accounts and ports as the store loads them, with the ids first given out
Stored(as, ps) ==
    /\ DOMAIN as \subseteq AccountIds /\ DOMAIN as = 1..Cardinality(DOMAIN as)
    /\ DOMAIN ps \subseteq PortIds /\ DOMAIN ps = 1..Cardinality(DOMAIN ps)
    /\ as \in [DOMAIN as -> [name : Names, tier : Tiers, expires : BOOLEAN]]
    /\ ps \in [DOMAIN ps -> [acct : DOMAIN as, span : Spans]]

ASSUME ConsoleAssumption ==
    /\ IsFiniteSet(AccountIds) /\ AccountIds = 1..Cardinality(AccountIds)
    /\ IsFiniteSet(PortIds) /\ PortIds = 1..Cardinality(PortIds)
    /\ Names \subseteq Nat
    /\ Spans \subseteq [lo : Nat, hi : Nat]
    /\ \A s \in Scenarios : /\ Stored(s.accts, s.ports)
                            /\ s.keys \subseteq Keys
                            /\ s.commands \subseteq Ops
                            /\ s.others \subseteq Ops
                            /\ s.screen \in BOOLEAN

VARIABLES
    accts, ports, lastA, lastP,  \* the daemon's directory
    scene,    \* the scenario, chosen at the start
    rows,     \* rowRef: the rows of the table as last drawn
    cursor,   \* the table's selected row
    sel,      \* haveSel, selKind, selAccountID, selPortID
    box,      \* the modal or form that is open, or the handler that runs
    chosen,   \* history: what the user last put the highlight on
    cmd       \* the command that runs

directory == <<accts, ports, lastA, lastP>>
table == <<rows, cursor, sel, chosen>>
vars == <<directory, scene, table, box, cmd>>

Dir == INSTANCE Directory

-----------------------------------------------------------------------------
(* Calls to the daemon.                                                    *)

NoCall == [op |-> "none", acct |-> 0, port |-> 0]

On(op, a) == [op |-> op, acct |-> a, port |-> 0]

DeleteAccount(a, c) == {[op |-> "DeleteAccount", acct |-> a, port |-> 0, cascade |-> c]}
SetTier(a) == {[op |-> "SetTier", acct |-> a, port |-> 0, tier |-> t] : t \in Tiers}
SetExpiry(a, S) == {[op |-> "SetExpiry", acct |-> a, port |-> 0, on |-> b] : b \in S}
AddPort(a) == {[op |-> "AddPort", acct |-> a, port |-> 0, span |-> s] : s \in Spans}
MovePort(p, S) == {[op |-> "MovePort", acct |-> a, port |-> p] : a \in S}
EditPort(p) == {[op |-> "EditPort", acct |-> 0, port |-> p, span |-> s] : s \in Spans}
DeletePort(p) == {[op |-> "DeletePort", acct |-> 0, port |-> p]}
AddAccount == {[op |-> "AddAccount", acct |-> 0, port |-> 0, name |-> n, tier |-> t] :
                  n \in Names, t \in Tiers}

\* the daemon carries the call out, as long as the model has ids
Perform(c) ==
    /\ \/ c.op = "AddAccount" /\ Dir!AddAccount(c.name, c.tier)
       \/ c.op = "DeleteAccount" /\ Dir!DeleteAccount(c.acct, c.cascade)
       \/ c.op = "SetTier" /\ Dir!SetTier(c.acct, c.tier)
       \/ c.op = "SetExpiry" /\ Dir!SetExpiry(c.acct, c.on)
       \/ c.op = "AddPort" /\ Dir!AddPort(c.acct, c.span)
       \/ c.op = "EditPort" /\ Dir!EditPort(c.port, c.span)
       \/ c.op = "DeletePort" /\ Dir!DeletePort(c.port)
       \/ c.op = "MovePort" /\ Dir!MovePort(c.port, c.acct)
       \/ /\ c.op \in {"ResetAccount", "SetUsage", "RegenerateToken", "ShowToken"}
          /\ c.acct \in DOMAIN accts
          /\ UNCHANGED directory
    /\ lastA' \in {lastA} \cup AccountIds
    /\ lastP' \in {lastP} \cup PortIds

Gone(c) ==
    /\ c.op # "AddAccount"
    /\ \/ c.acct # 0 /\ c.acct \notin DOMAIN accts
       \/ c.port # 0 /\ c.port \notin DOMAIN ports

\* A call that succeeds was carried out, now or before a replay, or had
\* nothing to act on; one that fails may have been carried out.
Answered(c, ok) ==
    \/ Perform(c)
    \/ (ok => Gone(c)) /\ UNCHANGED directory

\* what other programs ask for
AnyCall ==
    AddAccount
    \cup (UNION {DeleteAccount(a, TRUE) \cup SetTier(a) \cup SetExpiry(a, BOOLEAN)
                  \cup AddPort(a) : a \in DOMAIN accts})
    \cup (UNION {MovePort(p, DOMAIN accts) \cup EditPort(p) \cup DeletePort(p) :
                  p \in DOMAIN ports})

Others ==
    /\ \E c \in AnyCall : c.op \in scene.others /\ Perform(c)
    /\ UNCHANGED <<scene, table, box, cmd>>
-----------------------------------------------------------------------------
(* The table of the terminal UI.                                           *)

HasQuota(tier) == tier # "c"

AccountRow(a) == [kind |-> "account", acct |-> a, port |-> 0, tier |-> accts[a].tier]

PortRow(p) == [kind |-> "port", acct |-> ports[p].acct, port |-> p,
               tier |-> accts[ports[p].acct].tier]

\* an account's row and under it its ports by number
RowsUnder(a) ==
    LET own == SortedBy(Dir!PortsOf(a), [p \in Dir!PortsOf(a) |-> ports[p].span.lo]) IN
    <<AccountRow(a)>> \o [j \in 1..Cardinality(Dir!PortsOf(a)) |-> PortRow(own[j])]

\* View, row by row: accounts by id
View ==
    LET ids == SortedBy(DOMAIN accts, [a \in DOMAIN accts |-> a]) IN
    FlattenSeq([i \in 1..Cardinality(DOMAIN accts) |-> RowsUnder(ids[i])])

Nothing == [kind |-> "none", acct |-> 0, port |-> 0]

Entity(r) == [kind |-> r.kind, acct |-> r.acct, port |-> r.port]

Parent(e) == [kind |-> "account", acct |-> e.acct, port |-> 0]

Same(e, f) ==
    /\ e.kind = f.kind
    /\ e.port = f.port
    /\ e.kind = "account" => e.acct = f.acct

RowsOf(view, e) == {i \in DOMAIN view : Same(view[i], e)}

\* mutant of Restored: the row number is kept, whatever the row is now
RestoredByRow(view) == IF cursor \in DOMAIN view THEN cursor ELSE 1

\* restoreSelection: the same entity, else the account a port was shown
\* under, else the first row
Restored(view) ==
    IF RowsOf(view, sel) # {} THEN CHOOSE i \in RowsOf(view, sel) : TRUE
    ELSE IF RowsOf(view, Parent(sel)) # {} THEN CHOOSE i \in RowsOf(view, Parent(sel)) : TRUE
    ELSE 1

\* render, with a view from the daemon or, when the call fails, without rows
Redraw ==
    \E view \in {View, <<>>} :
        /\ rows' = view
        /\ IF view = <<>> THEN UNCHANGED <<cursor, sel, chosen>>
           ELSE /\ cursor' = Restored(view)
                /\ sel' = Entity(view[cursor'])
                /\ chosen' = IF chosen = Nothing THEN sel' ELSE chosen

NoBox == [op |-> "none", on |-> Nothing, count |-> 0, dests |-> {}, call |-> NoCall]

\* A handler that waits for the daemon holds the UI's goroutine.
Busy == box.op \in {"adding", "redraw"}

\* the ticker of Run
Refresh ==
    /\ scene.screen
    /\ ~Busy
    /\ Redraw
    /\ UNCHANGED <<directory, scene, box, cmd>>

\* mutant of MoveCursor: the handler of a changed selection is not installed
MoveCursorUnheard ==
    /\ box = NoBox
    /\ cursor' \in DOMAIN rows \ {cursor}
    /\ chosen' = Entity(rows[cursor'])
    /\ UNCHANGED <<directory, scene, rows, sel, box, cmd>>

\* onSelectionChanged, for a row that stands for something; an open dialog keeps
\* keys and mouse from the table
MoveCursor ==
    /\ box = NoBox
    /\ cursor' \in DOMAIN rows \ {cursor}
    /\ sel' = Entity(rows[cursor'])
    /\ chosen' = sel'
    /\ UNCHANGED <<directory, scene, rows, box, cmd>>

-----------------------------------------------------------------------------
(* Keys, dialogs and what confirming one does.                             *)

Highlighted == cursor \in DOMAIN rows

\* mutant of Target: the row under the cursor when the button is pressed
TargetNow(b) == IF Highlighted THEN Entity(rows[cursor]) ELSE b.on

\* the row a handler captured when it opened its dialog
Target(b) == b.on

\* mutant of Cascades: a confirmed deletion always takes the ports
CascadesAlways(b) == TRUE

\* ports go only when the prompt named some
Cascades(b) == b.count > 0

\* A handler: the rows it is for, whether it wants an account with a quota,
\* and the calls its button may make, by what was typed.
ForRows(kinds, quota, calls) == [rows |-> kinds, quota |-> quota, calls |-> calls]

AnyRow == {"account", "port"}

formAddAccount(b)  == ForRows({}, FALSE, AddAccount)
doDeleteAccount(b) == ForRows({"account"}, FALSE, DeleteAccount(Target(b).acct, Cascades(b)))
formAddPort(b)     == ForRows(AnyRow, FALSE, AddPort(Target(b).acct))
formEditPort(b)    == ForRows({"port"}, FALSE, EditPort(Target(b).port))
doDeletePort(b)    == ForRows({"port"}, FALSE, DeletePort(Target(b).port))
formMovePort(b)    == ForRows({"port"}, FALSE, MovePort(Target(b).port, b.dests))
formChangeTier(b)  == ForRows(AnyRow, FALSE, SetTier(Target(b).acct))
doReset(b)         == ForRows(AnyRow, FALSE, {On("ResetAccount", Target(b).acct)})
formSetUsage(b)    == ForRows({"account"}, TRUE, {On("SetUsage", Target(b).acct)})
formSetExpiry(b)   == ForRows(AnyRow, TRUE, SetExpiry(Target(b).acct, BOOLEAN))

\* dispatch
Handler(b) ==
    CASE b.op = "a" -> formAddAccount(b)
      [] b.op = "d" -> doDeleteAccount(b)
      [] b.op = "p" -> formAddPort(b)
      [] b.op = "e" -> formEditPort(b)
      [] b.op = "x" -> doDeletePort(b)
      [] b.op = "m" -> formMovePort(b)
      [] b.op = "t" -> formChangeTier(b)
      [] b.op = "r" -> doReset(b)
      [] b.op = "u" -> formSetUsage(b)
      [] b.op = "v" -> formSetExpiry(b)

\* the guards of handler h, on the row as it was last drawn
Applies(h) ==
    \/ h.rows = {}
    \/ /\ Highlighted
       /\ rows[cursor].kind \in h.rows
       /\ h.quota => HasQuota(rows[cursor].tier)

\* errf: a message to dismiss, here with the call that failed
Message(c) == [NoBox EXCEPT !.op = "message", !.call = c]

\* A key or a click on it: the row is captured; d counts the ports and m lists the
\* accounts of a view of its own, which may fail
Press(k) ==
    /\ box = NoBox
    /\ k \in scene.keys
    /\ \E seen \in BOOLEAN :
          LET on == IF k = "a" THEN Nothing ELSE Entity(rows[cursor])
              count == IF seen /\ k = "d" THEN Cardinality(Dir!PortsOf(on.acct)) ELSE 0
              dests == IF seen /\ k = "m" THEN DOMAIN accts ELSE {} IN
          box' = IF /\ Applies(Handler([NoBox EXCEPT !.op = k]))
                    /\ k = "m" => Cardinality(dests) >= 2
                 THEN [op |-> k, on |-> on, count |-> count, dests |-> dests,
                       call |-> NoCall]
                 ELSE Message(NoCall)
    /\ UNCHANGED <<directory, scene, table, cmd>>

\* Cancel, Escape, and OK under a message
Close ==
    /\ box # NoBox
    /\ ~Busy
    /\ box' = NoBox
    /\ UNCHANGED <<directory, scene, table, cmd>>

Given(a) == [NoBox EXCEPT !.op = "adding", !.call = On("SetExpiry", a)]

Redrawing(c) == [NoBox EXCEPT !.op = "redraw", !.call = c]

\* The dialog closes and the call is made; the form for a new account goes
\* on to a second call when an expiry was typed.
Confirm ==
    /\ box.op \in Keys
    /\ \E c \in Handler(box).calls, ok, expiry \in BOOLEAN :
          /\ expiry => box.op = "a" /\ HasQuota(c.tier)
          /\ Answered(c, ok)
          /\ box' = IF ~ok THEN Message(c)
                    ELSE IF ~expiry THEN Redrawing(c)
                    ELSE Given(lastA')
    /\ UNCHANGED <<scene, table, cmd>>

\* mutant of Reported: the answer to the second call is not looked at
ReportedDone(ok) == TRUE

\* what the user is told of the second call
Reported(ok) == ok

GiveExpiry ==
    /\ box.op = "adding"
    /\ \E ok \in BOOLEAN :
          \E c \in SetExpiry(box.call.acct, {TRUE}) :
             /\ Answered(c, ok)
             /\ box' = IF Reported(ok) THEN Redrawing(c) ELSE Message(c)
    /\ UNCHANGED <<scene, table, cmd>>

\* the redraw at the end of a handler
Finish ==
    /\ box.op = "redraw"
    /\ Redraw
    /\ box' = NoBox
    /\ UNCHANGED <<directory, scene, cmd>>

-----------------------------------------------------------------------------
(* Commands.                                                               *)

NoCommand == [pc |-> "idle", op |-> "none", ref |-> 0, acct |-> 0,
              taken |-> FALSE, exit |-> 0, call |-> NoCall]

Exit(c, ok) == [NoCommand EXCEPT !.pc = "done", !.exit = IF ok THEN 0 ELSE 1, !.call = c]

Named(ref) == {a \in DOMAIN accts : accts[a].name = ref}

\* mutant of Resolved: ids come before names
ResolvedIdFirst(ref) ==
    IF ref \in DOMAIN accts THEN {ref} ELSE Named(ref)

\* resolveAccount: the account of that name; without one, the account of
\* that id.  Two accounts of one name would resolve to nothing.
Resolved(ref) ==
    IF Cardinality(Named(ref)) = 1 THEN Named(ref)
    ELSE {a \in DOMAIN accts : a = ref /\ Named(ref) = {}}

\* a command on an account reads the view first
Look(op, ref) ==
    /\ cmd = NoCommand
    /\ op \in scene.commands \ {"AddAccount", "EditPort", "DeletePort"}
    /\ \E seen \in BOOLEAN :
          IF seen /\ Resolved(ref) # {}
          THEN cmd' = [NoCommand EXCEPT !.pc = "looked", !.op = op, !.ref = ref,
                         !.acct = CHOOSE a \in Resolved(ref) : TRUE,
                         !.taken = Named(ref) # {}]
          ELSE cmd' = Exit(NoCall, FALSE)
    /\ UNCHANGED <<directory, scene, table, box>>

\* the calls a command may make on the account it found
cmdRm(a)        == DeleteAccount(a, TRUE) \cup DeleteAccount(a, FALSE)
cmdSetTier(a)   == SetTier(a)
cmdReset(a)     == {On("ResetAccount", a)}
cmdSetUsage(a)  == {On("SetUsage", a)}
cmdSetExpire(a) == SetExpiry(a, BOOLEAN)
cmdTokenShow(a) == {On("ShowToken", a)}
cmdTokenNew(a)  == {On("RegenerateToken", a)}
cmdPortAdd(a)   == AddPort(a)
cmdPortMove(a)  == UNION {MovePort(p, {a}) : p \in PortIds}

\* the commands that name a port by its id
cmdPortEdit(p) == EditPort(p)
cmdPortRm(p)   == DeletePort(p)

AccountCalls(a) ==
    cmdRm(a) \cup cmdSetTier(a) \cup cmdReset(a) \cup cmdSetUsage(a)
    \cup cmdSetExpire(a) \cup cmdTokenShow(a) \cup cmdTokenNew(a)
    \cup cmdPortAdd(a) \cup cmdPortMove(a)

Act ==
    /\ cmd.pc = "looked"
    /\ \E c \in AccountCalls(cmd.acct), ok \in BOOLEAN :
          c.op = cmd.op /\ Answered(c, ok) /\ cmd' = Exit(c, ok)
    /\ UNCHANGED <<scene, table, box>>

ActOnPort ==
    /\ cmd = NoCommand
    /\ \E c \in UNION {cmdPortEdit(p) \cup cmdPortRm(p) : p \in PortIds}, ok \in BOOLEAN :
          /\ c.op \in scene.commands
          /\ Answered(c, ok)
          /\ cmd' = Exit(c, ok)
    /\ UNCHANGED <<scene, table, box>>

\* add, with --expire in two calls
Add ==
    /\ cmd = NoCommand
    /\ "AddAccount" \in scene.commands
    /\ \E c \in AddAccount, ok, expiry \in BOOLEAN :
          /\ expiry => HasQuota(c.tier)
          /\ Answered(c, ok)
          /\ cmd' = IF ok /\ expiry
                    THEN [NoCommand EXCEPT !.pc = "adding", !.acct = lastA']
                    ELSE Exit(c, ok)
    /\ UNCHANGED <<scene, table, box>>

AddExpiry ==
    /\ cmd.pc = "adding"
    /\ \E c \in SetExpiry(cmd.acct, {TRUE}), ok \in BOOLEAN :
          Answered(c, ok) /\ cmd' = Exit(c, Reported(ok))
    /\ UNCHANGED <<scene, table, box>>

\* the shell runs the next command; the one before may have been killed
Leave ==
    /\ cmd # NoCommand
    /\ cmd' = NoCommand
    /\ UNCHANGED <<directory, scene, table, box>>

-----------------------------------------------------------------------------
Init ==
    /\ scene \in Scenarios
    /\ accts = scene.accts
    /\ ports = scene.ports
    /\ lastA = Cardinality(DOMAIN accts)
    /\ lastP = Cardinality(DOMAIN ports)
    /\ rows = <<>>
    /\ cursor = 1
    /\ sel = Nothing
    /\ chosen = Nothing
    /\ box = NoBox
    /\ cmd = NoCommand

Next ==
    \/ Others
    \/ Refresh \/ MoveCursor \/ Close \/ Confirm \/ GiveExpiry \/ Finish
    \/ \E k \in Keys : Press(k)
    \/ Act \/ ActOnPort \/ Add \/ AddExpiry \/ Leave
    \/ \E op \in Ops, ref \in AccountIds \cup Names : Look(op, ref)

Spec == Init /\ [][Next]_vars
-----------------------------------------------------------------------------
(* Properties.                                                             *)

\* Every row of the table is a row that was there when it was drawn, the
\* cursor is on one of them, and dialogs and commands are of known kinds.
TypeOK ==
    /\ DOMAIN accts \subseteq 1..lastA /\ 1..lastA \subseteq AccountIds
    /\ DOMAIN ports \subseteq 1..lastP /\ 1..lastP \subseteq PortIds
    /\ \A i \in DOMAIN rows : rows[i].acct \in 1..lastA /\ rows[i].port \in 0..lastP
    /\ rows # <<>> => Highlighted /\ Entity(rows[cursor]) = sel
    /\ box.op \in Keys \cup {"none", "message", "adding", "redraw"}
    /\ cmd.pc \in {"idle", "looked", "adding", "done"}

\* The highlight stays on the account or port the user put it on for as long
\* as the table shows it, however rows come, go and change places around it
\* and however often the view fails in between (tui.go, restoreSelection).
SelectionStays ==
    rows # <<>> /\ RowsOf(rows, chosen) # {} => Same(rows[cursor], chosen)

\* What a confirmed dialog does, it does to the account or port its title
\* named, not to what a redraw brought under the cursor meanwhile.
ActsOnShown ==
    [][(box.op \in Keys \ {"a"} /\ box' # box /\ box'.call # NoCall) =>
          /\ box'.call.port # 0 => box'.call.port = box.on.port
          /\ box'.call.port = 0 => box'.call.acct = box.on.acct]_vars

\* Confirming a prompt that mentions no ports deletes none, also when another
\* program adds one while the prompt is open (tui.go, doDeleteAccount).
NoHiddenCascade ==
    [][(box.op = "d" /\ box' # box /\ ports' # ports) => box.count > 0]_vars

\* A command changes the account whose name was typed; a number that is
\* nobody's name is an id (commands.go, resolveAccount).
CommandHitsWhatWasNamed ==
    [][(cmd.pc = "looked" /\ cmd'.call # NoCall) =>
          LET a == cmd'.call.acct IN
          a \in DOMAIN accts =>
              accts[a].name = cmd.ref \/ (a = cmd.ref /\ ~cmd.taken)]_vars

\* When adding an account with an expiry is reported as done, by a redraw or
\* by exit status 0, the account has it or was deleted since; the two calls
\* may fail apart, and the tier may change between them.
SuccessIsWhole ==
    [][LET HasIt(a) == a \in DOMAIN accts' => accts'[a].expires IN
       /\ box.op = "adding" /\ box'.op = "redraw" => HasIt(box.call.acct)
       /\ cmd.pc = "adding" /\ cmd'.pc = "done" /\ cmd'.exit = 0 => HasIt(cmd.acct)]_vars

=============================================================================

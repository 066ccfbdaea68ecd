------------------------------- MODULE Tokens -------------------------------
(***************************************************************************)
(* The migrations of the database (internal/store) and query tokens        *)
(* (internal/store, internal/engine): one per account and a master token.  *)
(* A database from before port ranges, expiries or tokens is brought up to *)
(* date when it is opened, one statement at a time and without a           *)
(* transaction; the engine hands out and replaces tokens and answers       *)
(* queries from its own copy of them.                                      *)
(*                                                                         *)
(* A fresh token is any token the code does not know to be in use.         *)
(***************************************************************************)

CONSTANTS
    Ports,       \* port ids
    Accounts,    \* account ids
    Values,      \* tokens
    Empty,       \* the empty token
    NotYet,      \* in place of a token: the row does not exist yet,
    Gone,        \* or no longer
    Faults       \* the failures that may happen

\* "store": a statement fails; "load": the reload fails; "crash": the daemon dies
AllFaults == {"store", "load", "crash"}

ASSUME TokensAssumption ==
    /\ Faults \subseteq AllFaults
    /\ Empty \notin Values
    /\ NotYet \notin Values
    /\ Gone \notin Values
    /\ Empty # NotYet /\ Empty # Gone /\ NotYet # Gone

VARIABLES
    pc,          \* the daemon: "down", in migrate, or "up"
    columns,     \* the columns of ports and accounts that are not from the start
    end,         \* the ports' last port number: "unset" (0), their first, or more
    meant,       \* history: the last port number meant, also without the column
    token,       \* the rows' tokens
    master,      \* the master token in the meta table
    snap,        \* the tokens in c.snap
    cmaster,     \* c.masterToken
    used,        \* ensureTokens: the tokens it knows of
    todo,        \* ensureTokens: the accounts it still has to give one
    missed       \* history: "never"; "now": c.snap lacks the last change of the
                 \* rows, whose reload failed; "before": it once did

ranges == <<end, meant>>

vars == <<pc, columns, ranges, token, master, snap, cmaster, used, todo, missed>>

-----------------------------------------------------------------------------

Rows == [Accounts -> Values \cup {Empty, NotYet, Gone}]

TokensOf(rows) == {rows[a] : a \in Accounts} \cap Values

Columns == {"end", "expires_unix", "token"}

Ends == [Ports -> {"unset", "first", "more"}]

\* a port from before ranges is the range of one port
AsRanges(e) == [p \in Ports |-> IF e[p] = "unset" THEN "first" ELSE e[p]]

Live(rows) == {a \in Accounts : rows[a] \notin {NotYet, Gone}}

\* an older database, or a new one
Init ==
    /\ pc = "down"
    /\ columns \in SUBSET Columns
    /\ end \in [Ports -> IF "end" \in columns THEN {"first", "more"} ELSE {"unset"}]
    /\ meant = AsRanges(end)
    /\ token \in [Accounts -> {Empty, NotYet}]
    /\ master = Empty
    /\ snap = token
    /\ cmaster = Empty
    /\ used = {}
    /\ todo = {}
    /\ missed = "never"

-----------------------------------------------------------------------------
(* migratePortRange, migrateExpiry, ensureTokens.                          *)

Open ==
    /\ pc = "down"
    /\ pc' = "end"
    /\ UNCHANGED <<columns, ranges, token, master, snap, cmaster, used, todo, missed>>

\* mutant of AddEnd: only a column that was just added is filled
AddEndAndGo ==
    /\ pc = "end"
    /\ columns' = columns \cup {"end"}
    /\ pc' = IF "end" \in columns THEN "expires_unix" ELSE "fill"
    /\ UNCHANGED <<ranges, token, master, snap, cmaster, used, todo, missed>>

\* ALTER TABLE unless the column is there
AddEnd ==
    /\ pc = "end"
    /\ columns' = columns \cup {"end"}
    /\ pc' = "fill"
    /\ UNCHANGED <<ranges, token, master, snap, cmaster, used, todo, missed>>

\* the ports whose range has no end
FillEnd ==
    /\ pc = "fill"
    /\ end' = AsRanges(end)
    /\ pc' = "expires_unix"
    /\ UNCHANGED <<columns, meant, token, master, snap, cmaster, used, todo, missed>>

AddExpires ==
    /\ pc = "expires_unix"
    /\ columns' = columns \cup {"expires_unix"}
    /\ pc' = "token"
    /\ UNCHANGED <<ranges, token, master, snap, cmaster, used, todo, missed>>

\* mutant of EnsureColumn: only a table with rows is altered
EnsureColumnIfRows ==
    /\ pc = "token"
    /\ columns' = IF Live(token) # {} THEN columns \cup {"token"} ELSE columns
    /\ used' = TokensOf(token)
    /\ pc' = "master"
    /\ UNCHANGED <<ranges, token, master, snap, cmaster, todo, missed>>

\* ALTER TABLE unless the column is there, then read the tokens
EnsureColumn ==
    /\ pc = "token"
    /\ columns' = columns \cup {"token"}
    /\ used' = TokensOf(token)
    /\ pc' = "master"
    /\ UNCHANGED <<ranges, token, master, snap, cmaster, todo, missed>>

\* mutant of EnsureMaster: every start makes a new master token
EnsureMasterAlways ==
    /\ pc = "master"
    /\ master' \in Values \ used
    /\ used' = used \cup {master'}
    /\ todo' = {a \in Accounts : token[a] = Empty}
    /\ pc' = "backfill"
    /\ UNCHANGED <<columns, ranges, token, snap, cmaster, missed>>

\* mutant of EnsureMaster: an old master token means a migrated database
EnsureMasterSkips ==
    /\ pc = "master"
    /\ IF master = Empty THEN master' \in Values \ used ELSE master' = master
    /\ used' = used \cup {master'}
    /\ todo' = IF master = Empty THEN {a \in Accounts : token[a] = Empty} ELSE {}
    /\ pc' = "backfill"
    /\ UNCHANGED <<columns, ranges, token, snap, cmaster, missed>>

\* the master token, unless there is one, then the accounts without a token
EnsureMaster ==
    /\ pc = "master"
    /\ IF master = Empty THEN master' \in Values \ used ELSE master' = master
    /\ used' = used \cup {master'}
    /\ todo' = {a \in Accounts : token[a] = Empty}
    /\ pc' = "backfill"
    /\ UNCHANGED <<columns, ranges, token, snap, cmaster, missed>>

\* mutant of Backfill: what was just given out is not remembered
BackfillForgets(a) ==
    /\ pc = "backfill"
    /\ a \in todo
    /\ \E t \in Values \ used : token' = [token EXCEPT ![a] = t]
    /\ todo' = todo \ {a}
    /\ UNCHANGED <<pc, columns, ranges, master, snap, cmaster, used, missed>>

Backfill(a) ==
    /\ pc = "backfill"
    /\ a \in todo
    /\ \E t \in Values \ used :
          /\ token' = [token EXCEPT ![a] = t]
          /\ used' = used \cup {t}
    /\ todo' = todo \ {a}
    /\ UNCHANGED <<pc, columns, ranges, master, snap, cmaster, missed>>

\* the rest of Open, and engine.New
Started ==
    /\ pc = "backfill"
    /\ todo = {}
    /\ pc' = "up"
    /\ snap' = token
    /\ cmaster' = master
    /\ used' = {}
    /\ UNCHANGED <<columns, ranges, token, master, todo, missed>>

\* c.snap has the rows again
Past == IF missed = "now" THEN "before" ELSE missed

Exit ==
    /\ pc' = "down"
    /\ snap' = token'
    /\ cmaster' = Empty
    /\ used' = {}
    /\ todo' = {}
    /\ missed' = Past

\* a statement fails and the daemon does not start
StartFails ==
    /\ "store" \in Faults
    /\ pc \in {"end", "fill", "expires_unix", "token", "master", "backfill"}
    /\ UNCHANGED <<columns, ranges, token, master>>
    /\ Exit

Crash ==
    /\ "crash" \in Faults
    /\ pc # "down"
    /\ UNCHANGED <<columns, ranges, token, master>>
    /\ Exit

-----------------------------------------------------------------------------
(* The engine.  Each of its operations holds c.mu from its first step to   *)
(* its last.                                                               *)

\* uniqueTokenLocked
Fresh == Values \ (TokensOf(snap) \cup {cmaster})

\* how a reconcile goes on when its closure has changed the rows: with the
\* rows in c.snap (also when the apply fails), without, or not at all
Reload ==
    \/ /\ snap' = token'
       /\ missed' = Past
       /\ UNCHANGED <<pc, cmaster, used, todo>>
    \/ /\ "load" \in Faults
       /\ missed' = "now"
       /\ UNCHANGED <<snap, pc, cmaster, used, todo>>
    \/ /\ "crash" \in Faults
       /\ Exit

AddAccount(a) ==
    /\ pc = "up"
    /\ token[a] = NotYet
    /\ \E t \in Fresh : token' = [token EXCEPT ![a] = t]
    /\ UNCHANGED <<columns, ranges, master>>
    /\ Reload

DeleteAccount(a) ==
    /\ pc = "up"
    /\ token[a] \in Values
    /\ token' = [token EXCEPT ![a] = Gone]
    /\ UNCHANGED <<columns, ranges, master>>
    /\ Reload

\* any other reconcile that gets as far as its reload
Reconciles ==
    /\ pc = "up"
    /\ snap # token
    /\ snap' = token
    /\ missed' = Past
    /\ UNCHANGED <<pc, columns, ranges, token, master, cmaster, used, todo>>

\* mutant of RegenerateToken: c.snap is left to the next reconcile
RegenerateTokenLater(a) ==
    /\ pc = "up"
    /\ a \in Live(snap)
    /\ \E t \in Fresh :
          token' = [token EXCEPT ![a] = IF a \in Live(token) THEN t ELSE @]
    /\ UNCHANGED <<columns, ranges, master, pc, snap, cmaster, used, todo, missed>>

\* no reconcile: the row, and then the copy; in a row that is gone there is
\* nothing to change
RegenerateToken(a) ==
    /\ pc = "up"
    /\ a \in Live(snap)
    /\ \E t \in Fresh :
          /\ token' = [token EXCEPT ![a] = IF a \in Live(token) THEN t ELSE @]
          /\ \/ /\ snap' = [snap EXCEPT ![a] = t]
                /\ UNCHANGED <<pc, cmaster, used, todo, missed>>
             \/ "crash" \in Faults /\ Exit
    /\ UNCHANGED <<columns, ranges, master>>

RegenerateMasterToken ==
    /\ pc = "up"
    /\ \E t \in Fresh :
          /\ master' = t
          /\ \/ /\ cmaster' = t
                /\ UNCHANGED <<pc, snap, used, todo, missed>>
             \/ "crash" \in Faults /\ UNCHANGED token /\ Exit
    /\ UNCHANGED <<columns, ranges, token>>

Next ==
    \/ Open \/ AddEnd \/ FillEnd \/ AddExpires \/ EnsureColumn \/ EnsureMaster
    \/ \E a \in Accounts : Backfill(a)
    \/ Started \/ StartFails \/ Crash
    \/ \E a \in Accounts : AddAccount(a) \/ DeleteAccount(a) \/ RegenerateToken(a)
    \/ Reconciles \/ RegenerateMasterToken

Spec == Init /\ [][Next]_vars

-----------------------------------------------------------------------------
(* Properties.                                                             *)

\* Every variable has its type; a daemon that serves has every column.
TypeOK ==
    /\ pc \in {"down", "end", "fill", "expires_unix", "token", "master", "backfill", "up"}
    /\ columns \subseteq Columns
    /\ pc \in {"master", "backfill", "up"} => columns = Columns
    /\ {end, meant} \subseteq Ends
    /\ token \in Rows
    /\ snap \in Rows
    /\ {master, cmaster} \subseteq Values \cup {Empty}
    /\ used \subseteq Values
    /\ todo \subseteq Live(token)
    /\ missed \in {"never", "now", "before"}
    /\ pc = "up" /\ snap # token => missed = "now"

\* Whenever the daemon serves every account and the master have a token,
\* wherever earlier starts broke off (store.go 123-130).
NobodyWithoutToken ==
    pc = "up" => master # Empty /\ \A a \in Accounts : token[a] # Empty

\* Whenever the daemon serves, every port has the range it always had, or the
\* one port it was before there were ranges, wherever earlier starts broke off
\* ("every legacy single port becomes the closed range", store.go 224-226).
RangesSurvive == pc = "up" => end = meant

\* A token leads to one account or to all of them, in any state of the database
\* and at any point of its migration, unless a reload has failed: the engine
\* then takes a token it has not seen for unused.
TokensAreUnambiguous ==
    missed = "never" =>
        /\ \A a, b \in Accounts :
              a # b /\ token[a] \in Values => token[a] # token[b]
        /\ master \notin TokensOf(token)

\* Opening a database, crashing, starting again never changes a token that was
\* given out ("restarts never re-roll the tokens").
NeverRerolled ==
    [][pc # "up" =>
          /\ master # Empty => master' = master
          /\ \A a \in Accounts : token[a] # Empty => token'[a] = token[a]]_vars

\* A query is answered by the tokens in the database: a token stops working
\* when it is replaced or its account is deleted, and a new one works.  Until a
\* reload that failed is made up for this does not hold.
Granted(t) == IF t = cmaster THEN Accounts ELSE {a \in Accounts : snap[a] = t}

QueriesFollowRows ==
    pc = "up" /\ missed # "now" => \A t \in Values :
        Granted(t) = IF t = master THEN Accounts
                                   ELSE {a \in Accounts : token[a] = t}

=============================================================================

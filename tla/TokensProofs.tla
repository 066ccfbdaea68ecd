---------------------------- MODULE TokensProofs ----------------------------
(***************************************************************************)
(* For any accounts and tokens: a database that is brought up to date in   *)
(* any number of starts keeps every port's range, gives everybody a token  *)
(* of their own and takes none back, and queries are answered by the       *)
(* tokens in it.                                                           *)
(***************************************************************************)
EXTENDS Tokens, TLAPS

Types ==
    /\ pc \in {"down", "end", "fill", "expires_unix", "token", "master", "backfill",
              "up"}
    /\ end \in Ends
    /\ meant \in Ends
    /\ token \in Rows
    /\ snap \in Rows
    /\ master \in Values \cup {Empty}
    /\ cmaster \in Values \cup {Empty}
    /\ used \subseteq Values
    /\ missed \in {"never", "now", "before"}

\* the columns there are at each step, and the ranges ports have, or will have
Ranges ==
    /\ columns \subseteq Columns
    /\ pc \notin {"down", "end"} => "end" \in columns
    /\ pc \notin {"down", "end", "fill", "expires_unix"} => "expires_unix" \in columns
    /\ pc \in {"master", "backfill", "up"} => "token" \in columns
    /\ meant = AsRanges(end)
    /\ pc \notin {"down", "end", "fill"} => \A p \in Ports : end[p] # "unset"

\* how far ensureTokens has come
Progress ==
    /\ pc \in {"backfill", "up"} => master # Empty
    /\ todo = IF pc = "backfill" THEN {a \in Accounts : token[a] = Empty} ELSE {}
    /\ pc = "up" => \A a \in Accounts : token[a] # Empty

\* the engine's copies are the rows, but for a reload that has failed
Copies ==
    pc = "up" => /\ cmaster = master
                 /\ snap # token => missed = "now"

\* nobody has the token of another
OwnTokens ==
    /\ \A a, b \in Accounts : a # b /\ token[a] \in Values => token[a] # token[b]
    /\ \A a \in Accounts : token[a] = master => master = Empty

\* ensureTokens knows every token there is before it makes one
Known ==
    /\ pc \in {"master", "backfill"} => \A a \in Accounts : 
          token[a] \in Values => token[a] \in used
    /\ pc = "backfill" => master \in used

Inv == Types /\ Ranges /\ Progress /\ Copies /\ Known /\ (missed = "never" => OwnTokens)

-----------------------------------------------------------------------------
LEMMA InitInv == Init => Inv
  BY TokensAssumption DEF Init, Inv, Types, Ranges, Progress, Copies, Known, OwnTokens, Rows,
     Ends, AsRanges, Columns

\* Every step keeps the types.
LEMMA TypesKept ==
  ASSUME Types, [Next]_vars
  PROVE  Types'
<1> USE TokensAssumption DEF Types, Rows, TokensOf, Ends, ranges
<1>1. CASE Open                   BY <1>1 DEF Open
<1>2. CASE AddEnd                 BY <1>2 DEF AddEnd
<1>3. CASE FillEnd                BY <1>3 DEF FillEnd, AsRanges
<1>4. CASE AddExpires             BY <1>4 DEF AddExpires
<1>5. CASE EnsureColumn           BY <1>5 DEF EnsureColumn
<1>6. CASE EnsureMaster           BY <1>6 DEF EnsureMaster
<1>7. CASE Started                BY <1>7 DEF Started
<1>8. CASE StartFails             BY <1>8 DEF StartFails, Exit, Past
<1>9. CASE Crash                  BY <1>9 DEF Crash, Exit, Past
<1>10. CASE Reconciles            BY <1>10 DEF Reconciles, Past
<1>11. CASE RegenerateMasterToken BY <1>11 DEF RegenerateMasterToken, Exit, Past, Fresh
<1>12. ASSUME NEW a \in Accounts, Backfill(a)
      PROVE  Types'
  BY <1>12 DEF Backfill
<1>13. ASSUME NEW a \in Accounts, AddAccount(a)
      PROVE  Types'
  BY <1>13 DEF AddAccount, Reload, Exit, Past, Fresh
<1>14. ASSUME NEW a \in Accounts, DeleteAccount(a)
      PROVE  Types'
  BY <1>14 DEF DeleteAccount, Reload, Exit, Past
<1>15. ASSUME NEW a \in Accounts, RegenerateToken(a)
      PROVE  Types'
  BY <1>15 DEF RegenerateToken, Exit, Past, Fresh
<1>16. CASE UNCHANGED vars        BY <1>16 DEF vars, ranges
<1> QED
  BY <1>1, <1>2, <1>3, <1>4, <1>5, <1>6, <1>7, <1>8, <1>9, <1>10, <1>11, <1>12,
     <1>13, <1>14, <1>15, <1>16 DEF Next

\* A column that was added is filled by this start or a later one.
LEMMA RangesKept ==
  ASSUME Types, Ranges, [Next]_vars
  PROVE  Ranges'
<1> USE TokensAssumption DEF Types, Ranges, Ends, AsRanges, Columns, ranges
<1>1. CASE Open                   BY <1>1 DEF Open
<1>2. CASE AddEnd                 BY <1>2 DEF AddEnd
<1>3. CASE FillEnd                BY <1>3 DEF FillEnd, AsRanges
<1>4. CASE AddExpires             BY <1>4 DEF AddExpires
<1>5. CASE EnsureColumn           BY <1>5 DEF EnsureColumn
<1>6. CASE EnsureMaster           BY <1>6 DEF EnsureMaster
<1>7. CASE Started                BY <1>7 DEF Started
<1>8. CASE StartFails             BY <1>8 DEF StartFails, Exit, Past
<1>9. CASE Crash                  BY <1>9 DEF Crash, Exit, Past
<1>10. CASE Reconciles            BY <1>10 DEF Reconciles, Past
<1>11. CASE RegenerateMasterToken BY <1>11 DEF RegenerateMasterToken, Exit, Past, Fresh
<1>12. ASSUME NEW a \in Accounts, Backfill(a)
      PROVE  Ranges'
  BY <1>12 DEF Backfill
<1>13. ASSUME NEW a \in Accounts, AddAccount(a)
      PROVE  Ranges'
  BY <1>13 DEF AddAccount, Reload, Exit, Past, Fresh
<1>14. ASSUME NEW a \in Accounts, DeleteAccount(a)
      PROVE  Ranges'
  BY <1>14 DEF DeleteAccount, Reload, Exit, Past
<1>15. ASSUME NEW a \in Accounts, RegenerateToken(a)
      PROVE  Ranges'
  BY <1>15 DEF RegenerateToken, Exit, Past, Fresh
<1>16. CASE UNCHANGED vars        BY <1>16 DEF vars, ranges
<1> QED
  BY <1>1, <1>2, <1>3, <1>4, <1>5, <1>6, <1>7, <1>8, <1>9, <1>10, <1>11, <1>12,
     <1>13, <1>14, <1>15, <1>16 DEF Next

\* Wherever a start breaks off, the next one finds what is left to do.
LEMMA ProgressKept ==
  ASSUME Types, Progress, [Next]_vars
  PROVE  Progress'
<1> USE TokensAssumption DEF Types, Progress, Rows, ranges
<1>1. CASE Open                   BY <1>1 DEF Open
<1>2. CASE AddEnd                 BY <1>2 DEF AddEnd
<1>3. CASE FillEnd                BY <1>3 DEF FillEnd, AsRanges
<1>4. CASE AddExpires             BY <1>4 DEF AddExpires
<1>5. CASE EnsureColumn           BY <1>5 DEF EnsureColumn
<1>6. CASE EnsureMaster           BY <1>6 DEF EnsureMaster
<1>7. CASE Started                BY <1>7 DEF Started
<1>8. CASE StartFails             BY <1>8 DEF StartFails, Exit, Past
<1>9. CASE Crash                  BY <1>9 DEF Crash, Exit, Past
<1>10. CASE Reconciles            BY <1>10 DEF Reconciles, Past
<1>11. CASE RegenerateMasterToken BY <1>11 DEF RegenerateMasterToken, Exit, Past, Fresh
<1>12. ASSUME NEW a \in Accounts, Backfill(a)
      PROVE  Progress'
  BY <1>12 DEF Backfill
<1>13. ASSUME NEW a \in Accounts, AddAccount(a)
      PROVE  Progress'
  BY <1>13 DEF AddAccount, Reload, Exit, Past, Fresh
<1>14. ASSUME NEW a \in Accounts, DeleteAccount(a)
      PROVE  Progress'
  BY <1>14 DEF DeleteAccount, Reload, Exit, Past
<1>15. ASSUME NEW a \in Accounts, RegenerateToken(a)
      PROVE  Progress'
  BY <1>15 DEF RegenerateToken, Exit, Past, Fresh
<1>16. CASE UNCHANGED vars        BY <1>16 DEF vars, ranges
<1> QED
  BY <1>1, <1>2, <1>3, <1>4, <1>5, <1>6, <1>7, <1>8, <1>9, <1>10, <1>11, <1>12,
     <1>13, <1>14, <1>15, <1>16 DEF Next

\* Only a reload that fails parts the copy from the rows.
LEMMA CopiesKept ==
  ASSUME Types, Copies, [Next]_vars
  PROVE  Copies'
<1> USE TokensAssumption DEF Types, Copies, Rows, Live, ranges
<1>1. CASE Open                   BY <1>1 DEF Open
<1>2. CASE AddEnd                 BY <1>2 DEF AddEnd
<1>3. CASE FillEnd                BY <1>3 DEF FillEnd, AsRanges
<1>4. CASE AddExpires             BY <1>4 DEF AddExpires
<1>5. CASE EnsureColumn           BY <1>5 DEF EnsureColumn
<1>6. CASE EnsureMaster           BY <1>6 DEF EnsureMaster
<1>7. CASE Started                BY <1>7 DEF Started
<1>8. CASE StartFails             BY <1>8 DEF StartFails, Exit, Past
<1>9. CASE Crash                  BY <1>9 DEF Crash, Exit, Past
<1>10. CASE Reconciles            BY <1>10 DEF Reconciles, Past
<1>11. CASE RegenerateMasterToken BY <1>11 DEF RegenerateMasterToken, Exit, Past, Fresh
<1>12. ASSUME NEW a \in Accounts, Backfill(a)
      PROVE  Copies'
  BY <1>12 DEF Backfill
<1>13. ASSUME NEW a \in Accounts, AddAccount(a)
      PROVE  Copies'
  BY <1>13 DEF AddAccount, Reload, Exit, Past, Fresh
<1>14. ASSUME NEW a \in Accounts, DeleteAccount(a)
      PROVE  Copies'
  BY <1>14 DEF DeleteAccount, Reload, Exit, Past
<1>15. ASSUME NEW a \in Accounts, RegenerateToken(a)
      PROVE  Copies'
  BY <1>15 DEF RegenerateToken, Exit, Past, Fresh
<1>16. CASE UNCHANGED vars        BY <1>16 DEF vars, ranges
<1> QED
  BY <1>1, <1>2, <1>3, <1>4, <1>5, <1>6, <1>7, <1>8, <1>9, <1>10, <1>11, <1>12,
     <1>13, <1>14, <1>15, <1>16 DEF Next

\* What ensureTokens gives out it remembers.
LEMMA KnownKept ==
  ASSUME Types, Known, [Next]_vars
  PROVE  Known'
<1> USE TokensAssumption DEF Types, Known, Rows, TokensOf, ranges
<1>1. CASE Open                   BY <1>1 DEF Open
<1>2. CASE AddEnd                 BY <1>2 DEF AddEnd
<1>3. CASE FillEnd                BY <1>3 DEF FillEnd, AsRanges
<1>4. CASE AddExpires             BY <1>4 DEF AddExpires
<1>5. CASE EnsureColumn           BY <1>5 DEF EnsureColumn
<1>6. CASE EnsureMaster           BY <1>6 DEF EnsureMaster
<1>7. CASE Started                BY <1>7 DEF Started
<1>8. CASE StartFails             BY <1>8 DEF StartFails, Exit, Past
<1>9. CASE Crash                  BY <1>9 DEF Crash, Exit, Past
<1>10. CASE Reconciles            BY <1>10 DEF Reconciles, Past
<1>11. CASE RegenerateMasterToken BY <1>11 DEF RegenerateMasterToken, Exit, Past, Fresh
<1>12. ASSUME NEW a \in Accounts, Backfill(a)
      PROVE  Known'
  BY <1>12 DEF Backfill
<1>13. ASSUME NEW a \in Accounts, AddAccount(a)
      PROVE  Known'
  BY <1>13 DEF AddAccount, Reload, Exit, Past, Fresh
<1>14. ASSUME NEW a \in Accounts, DeleteAccount(a)
      PROVE  Known'
  BY <1>14 DEF DeleteAccount, Reload, Exit, Past
<1>15. ASSUME NEW a \in Accounts, RegenerateToken(a)
      PROVE  Known'
  BY <1>15 DEF RegenerateToken, Exit, Past, Fresh
<1>16. CASE UNCHANGED vars        BY <1>16 DEF vars, ranges
<1> QED
  BY <1>1, <1>2, <1>3, <1>4, <1>5, <1>6, <1>7, <1>8, <1>9, <1>10, <1>11, <1>12,
     <1>13, <1>14, <1>15, <1>16 DEF Next

\* A fresh token differs from every token in the rows, because ensureTokens knows
\* them and the engine has them in its copy.
LEMMA OwnTokensKept ==
  ASSUME Inv, missed' = "never", OwnTokens, [Next]_vars
  PROVE  OwnTokens'
<1> USE TokensAssumption DEF Inv, Types, Copies, Known, OwnTokens, Rows, TokensOf, Live, ranges
<1>1. CASE Open                   BY <1>1 DEF Open
<1>2. CASE AddEnd                 BY <1>2 DEF AddEnd
<1>3. CASE FillEnd                BY <1>3 DEF FillEnd, AsRanges
<1>4. CASE AddExpires             BY <1>4 DEF AddExpires
<1>5. CASE EnsureColumn           BY <1>5 DEF EnsureColumn
<1>6. CASE EnsureMaster           BY <1>6 DEF EnsureMaster
<1>7. CASE Started                BY <1>7 DEF Started
<1>8. CASE StartFails             BY <1>8 DEF StartFails, Exit, Past
<1>9. CASE Crash                  BY <1>9 DEF Crash, Exit, Past
<1>10. CASE Reconciles            BY <1>10 DEF Reconciles, Past
<1>11. CASE RegenerateMasterToken BY <1>11 DEF RegenerateMasterToken, Exit, Past, Fresh
<1>12. ASSUME NEW a \in Accounts, Backfill(a)
      PROVE  OwnTokens'
  BY <1>12 DEF Backfill
<1>13. ASSUME NEW a \in Accounts, AddAccount(a)
      PROVE  OwnTokens'
  BY <1>13 DEF AddAccount, Reload, Exit, Past, Fresh
<1>14. ASSUME NEW a \in Accounts, DeleteAccount(a)
      PROVE  OwnTokens'
  BY <1>14 DEF DeleteAccount, Reload, Exit, Past
<1>15. ASSUME NEW a \in Accounts, RegenerateToken(a)
      PROVE  OwnTokens'
  BY <1>15 DEF RegenerateToken, Exit, Past, Fresh
<1>16. CASE UNCHANGED vars        BY <1>16 DEF vars, ranges
<1> QED
  BY <1>1, <1>2, <1>3, <1>4, <1>5, <1>6, <1>7, <1>8, <1>9, <1>10, <1>11, <1>12,
     <1>13, <1>14, <1>15, <1>16 DEF Next

-----------------------------------------------------------------------------
LEMMA NeverIsForGood ==
  ASSUME Types, [Next]_vars, missed' = "never"
  PROVE  missed = "never"
  BY DEF Types, Next, vars, Open, AddEnd, FillEnd, AddExpires, EnsureColumn,
     EnsureMaster, Backfill, Started,
     StartFails, Crash, Reconciles, RegenerateMasterToken, AddAccount, DeleteAccount,
     RegenerateToken, Reload, Exit, Past

LEMMA InvKept == Inv /\ [Next]_vars => Inv'
  BY TypesKept, RangesKept, ProgressKept, CopiesKept, KnownKept, OwnTokensKept, NeverIsForGood
     DEF Inv

LEMMA Invariant == Spec => []Inv
  BY InitInv, InvKept, PTL DEF Spec

\* Every variable keeps its type, and a daemon that is up has every column.
THEOREM TypeTheorem == Spec => []TypeOK
<1>1. Inv => TypeOK
  BY TokensAssumption DEF Inv, Types, Ranges, Columns, Progress, Copies, TypeOK, Live
<1> QED
  BY <1>1, Invariant, PTL

\* However often a start broke off in ensureTokens: a daemon that is up has given
\* every account and the master a token.
THEOREM CompleteTheorem == Spec => []NobodyWithoutToken
<1>1. Inv => NobodyWithoutToken
  BY DEF Inv, Progress, NobodyWithoutToken
<1> QED
  BY <1>1, Invariant, PTL

\* However often a start broke off in migratePortRange: a daemon that is up has
\* given no port another range than it had.
THEOREM RangesTheorem == Spec => []RangesSurvive
<1>1. ASSUME Inv PROVE RangesSurvive
  <2> SUFFICES ASSUME pc = "up" PROVE end = meant
    BY DEF RangesSurvive
  <2>1. \A p \in Ports : end[p] # "unset"
    BY <1>1 DEF Inv, Ranges
  <2>2. meant = [p \in Ports |-> end[p]]
    BY <1>1, <2>1 DEF Inv, Ranges, AsRanges
  <2> QED
    BY <1>1, <2>2 DEF Inv, Types, Ends
<1> QED
  BY <1>1, Invariant, PTL

\* As long as no reload fails, no two accounts ever share a token, nor does one
\* hold the master's.
THEOREM UnambiguousTheorem == Spec => []TokensAreUnambiguous
<1>1. Inv => TokensAreUnambiguous
  BY TokensAssumption DEF Inv, Types, OwnTokens, TokensAreUnambiguous, TokensOf
<1> QED
  BY <1>1, Invariant, PTL

\* A query is answered by the tokens in the database.
THEOREM QueriesTheorem == Spec => []QueriesFollowRows
<1>1. Inv => QueriesFollowRows
  BY DEF Inv, Copies, QueriesFollowRows, Granted
<1> QED
  BY <1>1, Invariant, PTL

\* No start, however it ends, changes a token that was given out.
THEOREM RerollTheorem == Spec => NeverRerolled
<1> DEFINE Kept == /\ master # Empty => master' = master
                   /\ \A a \in Accounts : token[a] # Empty => token'[a] = token[a]
<1>1. ASSUME Inv, [Next]_vars, pc # "up" PROVE Kept
  BY <1>1 DEF Inv, Types, Rows, Progress, Next, vars, Open, AddEnd, FillEnd, AddExpires, EnsureColumn,
     EnsureMaster, Backfill, Started, StartFails, Crash, Exit, Reconciles, RegenerateMasterToken,
     AddAccount, DeleteAccount, RegenerateToken
<1>2. Inv /\ [Next]_vars => (pc # "up" => Kept)
  BY <1>1
<1> QED
  BY <1>2, Invariant, PTL DEF Spec, NeverRerolled

=============================================================================

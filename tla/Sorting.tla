------------------------------ MODULE Sorting -------------------------------
(***************************************************************************)
(* Lists in the order of a key, as ORDER BY in internal/store and          *)
(* sort.Slice in internal/nft make them.                                   *)
(***************************************************************************)
EXTENDS Integers, FiniteSets

\* the elements of S, each once; elements of the same key in any order
SortedBy(S, key) ==
    CHOOSE s \in [1..Cardinality(S) -> S] :
        \A i, j \in 1..Cardinality(S) :
            i < j => s[i] # s[j] /\ key[s[i]] <= key[s[j]]
=============================================================================

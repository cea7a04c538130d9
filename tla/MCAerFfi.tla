------------------------------ MODULE MCAerFfi ------------------------------
(***************************************************************************)
(* Instances of AerFfi for TLC.                                            *)
(***************************************************************************)
EXTENDS AerFfiClaims, TLC

\* Unix: a key names its own variable.  Windows: k1 and k2 differ in case.
CONSTANTS k1, k2
OwnNames == [k \in Keys |-> k]
FoldedNames == [k \in Keys |-> k1]

\* Threads, tasks, handles and values are interchangeable, and so are keys
\* that name their own variables.
Symmetry ==
    Permutations(Threads) \union Permutations(Tasks) \union Permutations(Handles)
        \union Permutations(Values) \union Permutations(Keys)
=============================================================================

---------------------------- MODULE MCContainers ----------------------------
(* Small instances of the list and of the hash table for TLC, each on its own. *)
EXTENDS HashTable, LinkedList, TLC

CONSTANTS k1, k2, k3, k4

VARIABLE part

ASSUME TableAssumption

\* Two texts have a hash of their own, two share one.
MCTexts == {k1, k2, k3, k4}
MCHashOf == k1 :> 1 @@ k2 :> 2 @@ k3 :> 3 @@ k4 :> 3

\* malloc may return any unused node: which one makes no difference.
Symmetry == Permutations(Nodes)

BothInit == part \in {"list", "table"} /\ ListInit /\ Init

BothNext ==
    \/ part = "list" /\ ListNext /\ UNCHANGED <<part, vars>>
    \/ part = "table" /\ Next /\ UNCHANGED <<part, listVars>>

BothSpec == BothInit /\ [][BothNext]_<<part, vars, listVars>>

=============================================================================

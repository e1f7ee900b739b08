-------------------------- MODULE MCBrowserAuthority --------------------------
(* Two tabs and a log of at most MaxOps operations: enough for each tab to    *)
(* read before the other writes, for a fence to be taken over between a read  *)
(* and a commit, and for a lost answer to be asked for again afterwards.      *)
EXTENDS BrowserAuthority, TLC

CONSTANTS e1, e2

MCTimeOf == [e \in EventIds |-> IF e = e2 THEN 1 ELSE 0]
MCRefsOf == [e \in EventIds |-> IF e = e2 THEN {e1} ELSE {}]

\* Callers derive both ids of a batch from one key.
MCBatchOf == [a \in AppendIds |-> a]

Symmetry == Permutations(Tabs) \cup Permutations(AppendIds)
            \cup Permutations(Geneses)
=============================================================================

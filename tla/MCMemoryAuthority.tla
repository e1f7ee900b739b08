--------------------------- MODULE MCMemoryAuthority ---------------------------
(* The in-memory adapter with the callers of the cfg: one at a time, or two.  *)
EXTENDS MemoryAuthority

CONSTANTS e1, e2

MCTimeOf == [e \in EventIds |-> IF e = e2 THEN 1 ELSE 0]
MCRefsOf == [e \in EventIds |-> IF e = e2 THEN {e1} ELSE {}]
=============================================================================

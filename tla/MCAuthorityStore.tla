--------------------------- MODULE MCAuthorityStore ---------------------------
(* The atomic port on a small stream: three events, one of which follows from *)
(* another, batches of one or two, a rejected command among the append ids.   *)
EXTENDS AuthorityStore

CONSTANTS e1, e2, e3

MCTimeOf == [e \in EventIds |-> IF e = e3 THEN 1 ELSE 0]
MCRefsOf == [e \in EventIds |-> IF e = e2 THEN {e1} ELSE {}]
=============================================================================

---------------------------- MODULE MCWorldWriters ----------------------------
(* Two tabs on a new world, on one that is sponsored, and on one with counsel. *)
EXTENDS WorldWriters

Past(ids) == [i \in DOMAIN ids |-> Row(ids[i], 0)]
Born == <<Genesis, Day(1)>>
MCHistories == {<<>>, Past(Born), Past(Born \o <<Fence, Establish, Fence, Counsel>>),
                Past(Born \o <<Fence, Establish, Fence, Abstain(1)>>)}
=============================================================================

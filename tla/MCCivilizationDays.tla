-------------------------- MODULE MCCivilizationDays --------------------------
(* The ids and markers of the jobs of CivilizationDays, for the bounds of a    *)
(* cfg.                                                                        *)
EXTENDS CivilizationDays, TLC

Symmetry == Permutations(Jobs)

MCDays == {Day(d) : d \in 1..LastDay}
MCEventIds == MCDays \cup {Sponsor(k, d) : k \in Commands, d \in 0..LastDay}
MCAppendIds == MCDays \cup {<<"sponsor", k>> : k \in Commands}
               \cup {Start(op) : op \in Operations}
               \cup {Progress(op, n) : op \in Operations, n \in 0..MaxDay}
MCSnapshotIds == MCDays \cup {Authority(v) : v \in 0..(2 * LastDay)}
MCTimeOf == [e \in MCEventIds |-> IF e[1] = "day" THEN e[2] ELSE e[3]]
MCRefsOf == [e \in MCEventIds |-> {}]
MCMarkers == [plan : [operation : Operations, eventHash : Hash,
                      confirmation : [from : Nat, to : Nat, revision : Nat,
                                      sequence : Nat, token : Nat]],
              nextChapter : Nat, status : {"in-progress", "complete"}] \cup {None}
=============================================================================

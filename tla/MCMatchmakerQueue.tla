-------------------------- MODULE MCMatchmakerQueue --------------------------
(* MatchmakerQueue for model checking.                                     *)
EXTENDS MatchmakerQueue, TLC

CONSTANTS p1, p2, p3, p4, q1, q2, i1, i2, i3

\* Everybody queues alone.
Singles == {{p} : p \in Players}

\* A party of two and two single players.
OneParty == {{p1, p2}, {p3}, {p4}}

\* q1 is for teams of two, every other queue for duels.
TeamSizes == [q \in Queues |-> IF q = q1 THEN 2 ELSE 1]
Duels == [q \in Queues |-> 1]

PartySymmetry == Permutations(Ids) \cup Permutations({p1, p2}) \cup Permutations({p3, p4})
=============================================================================

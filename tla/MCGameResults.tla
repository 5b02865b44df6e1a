---------------------------- MODULE MCGameResults ----------------------------
(* GameResults with five reporters, two of whom play on two armies. *)
EXTENDS GameResults, TLC

CONSTANTS p1, p2, p3, p4, p5

MCPlayers == {p1, p2}
MCArmyOf == [p \in MCPlayers |-> IF p = p1 THEN 1 ELSE 2]

Setup(k, t1, t2) == [kind |-> k, team |-> (p1 :> t1) @@ (p2 :> t2)]

\* Two teams, with and without the override, one team only, a missing team
MCSetups == {Setup("custom", 2, 3), Setup("override", FFA, FFA),
             Setup("override", 2, 2), Setup("custom", 2, 2),
             Setup("custom", 2, NoTeam)}

Report(r, a, o, s, t) ==
    [reporter |-> r, army |-> a, outcome |-> o, score |-> s, tags |-> t]

\* Enough voters on army 1 to decide with a lead of three, and to be ahead without
\* that lead while army 2 claims the victory; draws on both armies, and a report on an
\* army nobody has
MCReports ==
    {Report(r, 1, "VICTORY", 5, "none") : r \in {p1, p2, p3, p4, p5}}
    \cup {Report(r, 1, "DEFEAT", -5, "recall") : r \in {p1, p2}}
    \cup {Report(p1, 1, "MUTUAL_DRAW", 0, "none")}
    \cup {Report(p1, 2, o, 0, "recall") : o \in {"VICTORY", "DEFEAT", "DRAW"}}
    \cup {Report(p1, 9, "VICTORY", 5, "none")}

ReporterSymmetry == Permutations({p3, p4, p5})
=============================================================================

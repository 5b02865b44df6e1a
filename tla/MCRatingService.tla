--------------------------- MODULE MCRatingService ---------------------------
(* RatingService for model checking.                                       *)
EXTENDS RatingService, TLC

CONSTANTS p1, p2, g1, g2, g3, ladder

\* Games of both players, one of them for the global leaderboard.
Duels == [g \in Games |-> Players]
Leaderboards == (g1 :> ladder) @@ (g2 :> Global) @@ (g3 :> ladder)
BoardsPlayed == [g \in Games |-> Leaderboards[g]]
=============================================================================

---------------------------- MODULE RatingLedger ----------------------------
(***************************************************************************)
(* What RatingService promises (server/rating_service): the games that it  *)
(* accepts are settled one at a time, in the order of acceptance, and each *)
(* counts for all of its players or for none of them.                      *)
(*                                                                         *)
(* The numbers of trueskill play no part.  A rating is the sequence of the *)
(* games that went into it.                                                *)
(***************************************************************************)
EXTENDS Sequences

CONSTANTS Players, Boards, Games,
          Global,     \* the leaderboard that other games may adjust
          PlayersIn,  \* the players of a game
          BoardOf     \* and the leaderboard it is played for

VARIABLES ratings,   \* leaderboard_rating
          pending,   \* games that are accepted and not settled
          accepted   \* all games accepted so far

ledgerVars == <<ratings, pending, accepted>>

LedgerInit ==
    /\ ratings = [p \in Players |-> [b \in Boards |-> <<>>]]
    /\ pending = <<>>
    /\ accepted = {}

\* The ratings r once game g counts on leaderboard b for the players in S
Count(r, S, b, g) ==
    [p \in Players |-> IF p \in S THEN [r[p] EXCEPT ![b] = Append(@, g)]
                       ELSE r[p]]

\* enqueue
Accept(g) ==
    /\ g \notin accepted
    /\ accepted' = accepted \cup {g}
    /\ pending' = Append(pending, g)
    /\ UNCHANGED ratings

\* _rate.  The rating of the other leaderboards may be adjusted for some of the
\* players.  When rating fails both sets are empty.
Settle(S, A) ==
    LET g == Head(pending) IN
    /\ pending # <<>>
    /\ S \in {PlayersIn[g], {}}
    /\ A \subseteq PlayersIn[g]
    /\ BoardOf[g] = Global => A = {}
    /\ ratings' = Count(Count(ratings, S, BoardOf[g], g), A, Global, g)
    /\ pending' = Tail(pending)
    /\ UNCHANGED accepted

LedgerNext ==
    \/ \E g \in Games : Accept(g)
    \/ \E S, A \in SUBSET Players : Settle(S, A)

LedgerSpec == LedgerInit /\ [][LedgerNext]_ledgerVars
=============================================================================

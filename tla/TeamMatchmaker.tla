--------------------------- MODULE TeamMatchmaker ---------------------------
(***************************************************************************)
(* One run of TeamMatchMaker.find (matchmaker/algorithm/team_matchmaker.py)*)
(* for a queue with teams: a candidate game around every search, then the  *)
(* games that are made of them.  A search is its place in the list sorted  *)
(* by average rating.  Ratings count in hundreds of points and qualities   *)
(* in thousandths, with the values of config.py; the members of a party    *)
(* have the same rating.                                                   *)
(***************************************************************************)
EXTENDS Integers, Sequences, FiniteSets, SequencesExt

CONSTANTS
    TeamSize,
    Queues,      \* sorted lists of [size, avg, failed, newbies]
    RatingPeak   \* MatchmakerQueue.rating_peak

VARIABLES
    queue,   \* searches_sorted
    index,   \* the search that a game is built for
    games,   \* possible_games, by quality once all are built
    made,    \* matches
    pc

vars == <<queue, index, games, made, pc>>

Init ==
    /\ queue \in Queues
    /\ index = 1
    /\ games = <<>>
    /\ made = {}
    /\ pc = "build"

-----------------------------------------------------------------------------
(* Ratings *)

Abs(n) == IF n < 0 THEN -n ELSE n

SumOf(Op(_), S) == MapThenSumSet(Op, S)

\* Number of players and cumulative_rating of a CombinedSearch
Size(S) == SumOf(LAMBDA i : queue[i].size, S)
Cumulative(S) == SumOf(LAMBDA i : queue[i].size * queue[i].avg, S)

\* The integer part of a square root between lo and hi
RECURSIVE Root(_, _, _)
Root(x, lo, hi) ==
    IF lo = hi THEN lo
    ELSE LET m == (lo + hi + 1) \div 2
         IN  IF m * m <= x THEN Root(x, m, hi) ELSE Root(x, lo, m - 1)

\* 1 - sqrt(unfairness ** 2 + rating_variety ** 2)
Balance(A, B) ==
    LET n == Cardinality(A \cup B)
        sum == SumOf(LAMBDA i : queue[i].avg, A \cup B)
        squares == SumOf(LAMBDA i : queue[i].avg * queue[i].avg, A \cup B)
        disparity == Cumulative(A) - Cumulative(B)
        x == n * n * disparity * disparity + n * squares - sum * sum
    IN  1000 - (4 * Root(10000 * x, 0, 40000)) \div n

\* time_bonus, newbie_bonus and minority_bonus
TimeBonus(S) ==
    SumOf(LAMBDA i : (Min({10 * queue[i].failed, 200}) * queue[i].size) \div TeamSize, S)
NewbieBonus(S) ==
    IF \E i \in S : queue[i].avg >= 14 THEN 0
    ELSE SumOf(LAMBDA i : (Min({250 * queue[i].failed, 3000}) * queue[i].newbies)
                          \div TeamSize, S)
MinorityBonus(S) ==
    LET d(i) == queue[i].avg - RatingPeak IN
    Min({1000, SumOf(LAMBDA i : (((d(i) * d(i) * d(i) * d(i) * 4096) \div 100000)
                                 * queue[i].size) \div TeamSize, S)})

\* assign_game_quality
GameQuality(A, B) ==
    LET S == A \cup B
    IN  Balance(A, B) + TimeBonus(S) + NewbieBonus(S) + MinorityBonus(S)

-----------------------------------------------------------------------------
(* Teams *)

\* The order in which pick_neighboring_players looks at the searches: lower
\* and higher neighbours in turn, or those of one side when the other ends
Around(i) ==
    SelectSeq(FlattenSeq([k \in 1..Len(queue) |-> <<i - k, i + k>>]),
              LAMBDA j : j \in 1..Len(queue))

\* pick_neighboring_players: whoever still fits is taken
Pick(i) ==
    LET add(P, j) == IF Size(ToSet(P)) + queue[j].size <= 2 * TeamSize
                     THEN Append(P, j) ELSE P
    IN  FoldLeft(add, <<i>>, Around(i))

\* _searches_by_size
OfSize(P, n) == SelectSeq(P, LAMBDA i : queue[i].size = n)

\* _find_most_balanced_filler: average ratings compared as fractions
Filler(P, s, singles) ==
    LET off(i) == Abs(Cumulative(ToSet(P)) * TeamSize
                      - Cumulative({s, i}) * Size(ToSet(P)))
        best == SelectInSeq(singles, LAMBDA i :
                    \A j \in ToSet(singles) : off(i) <= off(j))
    IN  singles[best]

\* Mutant: the ratings alone decide
PlainContainer(i) ==
    [rating |-> Cumulative({i}), a |-> {i}, b |-> {}]

\* A Container of _run_karmarkar_karp_algorithm, opened: what goes into the
\* team it is in and what goes into the other
Container(i) ==
    [rating |-> 50 * queue[i].size + Cumulative({i}), a |-> {i}, b |-> {}]

Difference(c, d) ==
    [rating |-> c.rating - d.rating, a |-> c.a \cup d.b, b |-> c.b \cup d.a]

\* SortedList.add
Add(L, c) ==
    LET k == Cardinality({j \in DOMAIN L : L[j].rating <= c.rating})
    IN  InsertAt(L, k + 1, c)

\* _run_karmarkar_karp_algorithm: the two largest are replaced by their
\* difference until one is left
RECURSIVE KarmarkarKarp(_)
KarmarkarKarp(L) ==
    IF Len(L) = 1 THEN L[1].a
    ELSE LET rest == SubSeq(L, 1, Len(L) - 2)
         IN  KarmarkarKarp(Add(rest, Difference(L[Len(L)], L[Len(L) - 1])))

\* make_teams, or {} for an UnevenTeamsException
MakeTeams(P) ==
    LET full == OfSize(P, TeamSize)
        almost == OfSize(P, TeamSize - 1)
        s == Last(almost)
        singles == SelectSeq(OfSize(P, 1), LAMBDA i : i # s)
        A == IF full # <<>> THEN {Last(full)}
             ELSE IF almost # <<>>
             THEN IF singles = <<>> THEN {} ELSE {s, Filler(P, s, singles)}
             ELSE KarmarkarKarp(FoldLeft(LAMBDA L, i : Add(L, Container(i)), <<>>, P))
        B == ToSet(P) \ A
    IN  IF Len(P) >= 2 /\ Size(A) = TeamSize /\ Size(B) = TeamSize
        THEN {<<A, B>>} ELSE {}

-----------------------------------------------------------------------------
(* find *)

\* A game around the next search, if there are players and even teams for one
BuildGame ==
    /\ pc = "build"
    /\ index <= Len(queue)
    /\ LET P == Pick(index)
           T == IF Size(ToSet(P)) = 2 * TeamSize THEN MakeTeams(P) ELSE {}
           new == {[teams |-> t, quality |-> GameQuality(t[1], t[2])] : t \in T}
       IN  games' = games \o SetToSeq(new)
    /\ index' = index + 1
    /\ UNCHANGED <<queue, made, pc>>

Better(g, h) == g.quality > h.quality
Members(g) == g.teams[1] \cup g.teams[2]

\* pick_noncolliding_games: games below MINIMUM_GAME_QUALITY are dropped and
\* the others sorted; of equal ones the last comes first
SortGames ==
    /\ pc = "build"
    /\ index > Len(queue)
    /\ LET add(L, g) == LET k == Cardinality({j \in DOMAIN L : Better(L[j], g)})
                        IN  IF g.quality >= 400 THEN InsertAt(L, k + 1, g) ELSE L
       IN  games' = FoldLeft(add, <<>>, games)
    /\ pc' = "pick"
    /\ index' = 1
    /\ UNCHANGED <<queue, made>>

\* ... and the best of those that share no search with an earlier one is made
PickGame ==
    /\ pc = "pick"
    /\ index <= Len(games)
    /\ LET g == games[index] IN
       made' = IF \A h \in made : Members(h) \cap Members(g) = {}
               THEN made \cup {g} ELSE made
    /\ index' = index + 1
    /\ UNCHANGED <<queue, games, pc>>

Return ==
    /\ pc = "pick"
    /\ index > Len(games)
    /\ pc' = "done"
    /\ UNCHANGED <<queue, index, games, made>>

Next == BuildGame \/ SortGames \/ PickGame \/ Return

Spec == Init /\ [][Next]_vars

-----------------------------------------------------------------------------
(* Properties *)

\* Whether these searches can be split into two full teams at all
Splittable(S) == \E A \in SUBSET S : Size(A) = TeamSize /\ Size(S \ A) = TeamSize

\* Whenever the searches picked for a game can be split into two full teams,
\* make_teams finds such a split: the shortcuts for large parties, the filler
\* and the 5000 points per player of Karmarkar-Karp never end in an
\* UnevenTeamsException that a better split would have avoided.
EvenSplitIsFound ==
    [][pc = "build" /\ index' > index /\ Splittable(ToSet(Pick(index)))
       => Len(games') > Len(games)]_vars

=============================================================================

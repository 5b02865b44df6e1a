----------------------------- MODULE VetoService -----------------------------
(***************************************************************************)
(* Map pools and vetoes: LadderService.update_data                         *)
(* (ladder_service/ladder_service.py), which loads the queues every ten    *)
(* minutes, VetoService (ladder_service/veto_system.py), which holds the   *)
(* players to the limits of the pools, and the choice of the map of a match*)
(* (matchmaker/map_pool.py).                                               *)
(*                                                                         *)
(* update_data awaits the database before each queue and adjusts the       *)
(* vetoes after the last one; matches start and players set vetoes in      *)
(* between.  Every queue has one map pool (a bracket).                     *)
(***************************************************************************)
EXTENDS Integers, Sequences, FiniteSets, SequencesExt

CONSTANTS
    Vetoers, Maps,
    NumQueues,   \* the queues are updated in the order 1 .. NumQueues
    PlayersPerTeam,
    Configs,     \* for each queue, the pools [maps, tokens, max, min] the
                 \* database may hold: map ids, veto_tokens_per_player,
                 \* max_tokens_per_map, minimum_maps_after_veto
    Wishes,      \* the tokens for each map that a client may send
    MaxUpdates   \* bound on the changes of the database

Brackets == 1..NumQueues

\* The ids of the maps of a pool differ; limits and tokens are whole numbers, and
\* _is_valid_vetoes lets no negative ones in; a fractional minimum is left out
VetoAssumption ==
    /\ IsFiniteSet(Vetoers)
    /\ NumQueues \in Nat \ {0}
    /\ PlayersPerTeam \in Nat
    /\ \A q \in Brackets : \A c \in Configs[q] :
         /\ c \in [maps : Seq(Maps), tokens : Nat, max : Nat, min : Nat]
         /\ IsInjective(c.maps)
    /\ Wishes \subseteq [Maps -> Nat]

VARIABLES
    pools,      \* map_pools of the MatchmakerQueues
    vetoData,   \* pools_veto_data
    vetoes,     \* player.vetoes
    searching,  \* the players who are searching in each queue
    fetched,    \* what update_data has read
    next,       \* the queue that it updates next, 0 if it is not running
    updates,
    failed      \* the players and the queue of a match that has just found no map

updateVars == <<pools, vetoData, fetched, next, updates>>
vetoVars == <<updateVars, vetoes, searching, failed>>

NoVetoes == [m \in Maps |-> 0]

\* Nothing has failed
NoMatch == <<>>

-----------------------------------------------------------------------------
(* Limits *)

NumMaps(c) == Len(c.maps)

\* _is_valid_veto_config_for_queue
IsValid(c) ==
    /\ c.min <= NumMaps(c)
    /\ ~(c.max = 0 /\ c.min = NumMaps(c) /\ c.tokens > 0)
    /\ c.max # 0 => 2 * PlayersPerTeam * c.tokens <= (NumMaps(c) - c.min) * c.max

\* extract_pools_veto_config: a wrong setup allows no vetoes
VetoDataOf(pp) ==
    [q \in Brackets |->
        IF IsValid(pp[q]) THEN pp[q]
        ELSE [pp[q] EXCEPT !.tokens = 0, !.max = 1, !.min = 1]]

\* Mutant: the tokens of earlier maps do not count
CapAlone(d, v) ==
    [m \in Maps |-> IF m \in ToSet(d.maps)
                    THEN Min({v[m], d.tokens, IF d.max > 0 THEN d.max ELSE v[m]})
                    ELSE 0]

\* _adjust_vetoes_for_bracket and _cap_tokens: map by map, what is left of
\* the tokens, at most max on each
Cap(d, v) ==
    LET add(acc, m) ==
          LET n == Min({v[m], d.tokens - acc.sum} \cup (IF d.max > 0 THEN {d.max} ELSE {}))
          IN  [sum |-> acc.sum + n, cap |-> [acc.cap EXCEPT ![m] = n]]
    IN  FoldLeft(add, [sum |-> 0, cap |-> NoVetoes], d.maps).cap

\* _adjust_vetoes
Adjust(data, v) == [q \in Brackets |-> Cap(data[q], v[q])]

VetoInit ==
    /\ pools \in {f \in [Brackets -> UNION {Configs[q] : q \in Brackets}] :
                    \A q \in Brackets : f[q] \in Configs[q]}
    /\ vetoData = VetoDataOf(pools)
    /\ vetoes = [p \in Vetoers |-> [q \in Brackets |-> NoVetoes]]
    /\ searching = [q \in Brackets |-> {}]
    /\ fetched = pools
    /\ next = 0
    /\ updates = 0
    /\ failed = NoMatch

-----------------------------------------------------------------------------
(* update_data *)

\* fetch_map_pools and fetch_matchmaker_queues
Fetch ==
    /\ next = 0
    /\ updates < MaxUpdates
    /\ updates' = updates + 1
    /\ \E q \in Brackets : \E c \in Configs[q] : fetched' = [pools EXCEPT ![q] = c]
    /\ next' = 1
    /\ failed' = NoMatch
    /\ UNCHANGED <<pools, vetoData, vetoes, searching>>

\* Players whose tokens on a map of some pool became fewer are taken out of
\* all queues (cancel_search)
WithoutAffected(old, new, data) ==
    LET affected == {p \in Vetoers : \E q \in Brackets :
                        \E m \in ToSet(data[q].maps) : old[p][q][m] > new[p][q][m]}
    IN  [q \in Brackets |-> searching[q] \ affected]

\* update_pools_veto_config
UpdateVetoConfig(newPools) ==
    LET data == VetoDataOf(newPools)
        new == [p \in Vetoers |-> Adjust(data, vetoes[p])]
    IN  IF data = vetoData
        THEN UNCHANGED <<vetoData, vetoes, searching>>
        ELSE /\ vetoData' = data
             /\ vetoes' = new
             /\ searching' = WithoutAffected(vetoes, new, data)

\* fetch_rating_peak has answered for the next queue: its pool is replaced,
\* and after the last queue the vetoes are adjusted
UpdateQueue ==
    /\ next > 0
    /\ pools' = [pools EXCEPT ![next] = fetched[next]]
    /\ IF next = NumQueues
       THEN next' = 0 /\ UpdateVetoConfig(pools')
       ELSE next' = next + 1 /\ UNCHANGED <<vetoData, vetoes, searching>>
    /\ failed' = NoMatch
    /\ UNCHANGED <<fetched, updates>>

-----------------------------------------------------------------------------
(* Players *)

\* command_set_player_vetoes and set_player_vetoes
SetVetoes(p) ==
    /\ \E q \in Brackets : \E v \in Wishes :
         vetoes' = [vetoes EXCEPT ![p] = Adjust(vetoData, [vetoes[p] EXCEPT ![q] = v])]
    /\ failed' = NoMatch
    /\ UNCHANGED <<updateVars, searching>>

StartSearch(p, q) ==
    /\ p \notin searching[q]
    /\ searching' = [searching EXCEPT ![q] = @ \cup {p}]
    /\ failed' = NoMatch
    /\ UNCHANGED <<updateVars, vetoes>>

-----------------------------------------------------------------------------
(* The map of a match: _start_game.  Weights are numerators of fractions    *)
(* with one denominator.                                                   *)

\* The tokens of the players S on a map of the pool
Tokens(S, q, m) == MapThenSumSet(LAMBDA p : vetoes[p][q][m], S)

\* calculate_solution: the candidate s / k is at most the next number of tokens
CandidateFits(s, k, above) == \A u \in above : s <= u * k

\* calculate_dynamic_tokens_per_map as a fraction: the maps with the fewest
\* tokens first, until they leave enough weight
DynamicTokens(V, min) ==
    LET within(v) == {m \in DOMAIN V : V[m] <= v}
        n(v) == Cardinality(within(v))
        sum(v) == MapThenSumSet(LAMBDA m : V[m], within(v))
        above(v) == {V[m] : m \in DOMAIN V \ within(v)}
        Free(v) == sum(v) = 0 /\ n(v) >= min
        Solved(v) == n(v) > min /\ CandidateFits(sum(v), n(v) - min, above(v))
        solved == {v \in {V[m] : m \in DOMAIN V} : Free(v) \/ Solved(v)}
        v1 == Min(solved)
    IN  CASE solved = {} -> <<0, 1>>
          [] solved # {} /\ Free(v1) -> <<1, 1>>
          [] OTHER -> <<sum(v1), n(v1) - min>>

\* generate_initial_weights_for_match: [of |-> numerators, one |-> the
\* denominator]; the pool is the one in the queue, not the cached data
Weights(S, q) ==
    LET c == pools[q]
        V == [m \in ToSet(c.maps) |-> Tokens(S, q, m)]
        T == IF c.max = 0 THEN DynamicTokens(V, c.min) ELSE <<c.max, 1>>
    IN  IF T[1] = 0 THEN [of |-> [m \in DOMAIN V |-> 1], one |-> 1]
        ELSE [of |-> [m \in DOMAIN V |-> Max({0, T[1] - V[m] * T[2]})], one |-> T[1]]

\* apply_antirepetition_adjustment: the weight of a map that was played
\* moves to unplayed or less played maps of comparable weight.  They have
\* weight already, so what changes is which maps lose theirs.
Remaining(w, played) ==
    LET live == {m \in DOMAIN w : w[m] > 0}
        MovesAway(m) ==
            /\ played[m] > 0
            /\ \E t \in live :
                 \/ played[t] = 0
                    /\ IF played[m] = 1 THEN 2 * w[t] >= w[m] ELSE 5 * w[t] >= 2 * w[m]
                 \/ 0 < played[t] /\ played[t] < played[m] /\ 5 * w[t] >= 4 * w[m]
    IN  {m \in live : ~MovesAway(m)}

\* A match of the players S in queue q picks its map.  choose_map raises
\* when the pool is empty, random.choices when all weights are zero.
StartMatch(S, q) ==
    /\ S \subseteq searching[q]
    /\ searching' = [k \in Brackets |-> searching[k] \ S]
    /\ LET w == Weights(S, q).of IN
       \E played \in [Maps -> 0..2] :
          failed' = IF Remaining(w, played) = {} THEN <<S, q>> ELSE NoMatch
    /\ UNCHANGED <<updateVars, vetoes>>

Sides == {S \in SUBSET Vetoers : Cardinality(S) = 2 * PlayersPerTeam}

VetoNext ==
    \/ Fetch
    \/ UpdateQueue
    \/ \E p \in Vetoers : SetVetoes(p)
    \/ \E p \in Vetoers, q \in Brackets : StartSearch(p, q)
    \/ \E S \in Sides, q \in Brackets : StartMatch(S, q)

VetoSpec == VetoInit /\ [][VetoNext]_vetoVars

-----------------------------------------------------------------------------
(* Properties *)

\* The pools of the queues are newer than the limits of the vetoes: the time
\* between two steps of update_data.
Outdated == VetoDataOf(pools) # vetoData

WeightSum(W) == MapThenSumSet(LAMBDA m : W.of[m], DOMAIN W.of)

\* Outside of an update the vetoes of the players of any match leave the
\* number of maps that the pool promises: the weights sum up to
\* minimum_maps_after_veto, and with dynamic tokens to no more than that
\* unless enough maps have no tokens at all.
MinimumMapsRemain ==
    ~Outdated => \A S \in Sides, q \in Brackets :
        LET c == pools[q]
            W == Weights(S, q)
            free == {m \in ToSet(c.maps) : Tokens(S, q, m) = 0}
        IN  IsValid(c) =>
              /\ WeightSum(W) >= c.min * W.one
              /\ c.max = 0 /\ Cardinality(free) < c.min
                    => WeightSum(W) = c.min * W.one

\* The players S of a match have vetoed the whole pool of the queue q
AllVetoed(S, q) ==
    \A m \in ToSet(pools[q].maps) :
       Tokens(S, q, m) > 0 /\ Tokens(S, q, m) >= pools[q].max

\* A match finds a map, whatever was vetoed and played, unless its pool is empty
\* or being replaced, or need not keep any map and its players have vetoed all.
MatchFindsMap ==
    [][failed' \notin {failed, NoMatch}
       => LET S == failed'[1]
              q == failed'[2]
          IN  \/ Outdated
              \/ pools[q].maps = <<>>
              \/ pools[q].min = 0 /\ AllVetoed(S, q)]_vetoVars
=============================================================================

--------------------------- MODULE StableMarriage ---------------------------
(***************************************************************************)
(* The duels of one MatchmakerQueue: StableMarriageMatchmaker.find         *)
(* (matchmaker/algorithm/stable_marriage.py) on the searches of one queue, *)
(* pop after pop, and the threshold of a Search (matchmaker/search.py),    *)
(* which falls with every pop that finds it no opponent.                   *)
(*                                                                         *)
(* A pop builds the graph of acceptable pairs and then runs rounds in      *)
(* which every search without opponent proposes to the best one it has not *)
(* tried; one step is one proposal.  A search is its place in the queue.   *)
(* Qualities are percentages; what trueskill computes for a pair is an     *)
(* input.  Searches that come, leave or are cancelled between the pops are *)
(* those of MatchmakerQueue.                                               *)
(***************************************************************************)
EXTENDS Integers, FiniteSets, FiniteSetsExt

CONSTANTS
    N,           \* number of searches
    Mean,        \* the place of a search in the order of avg_mean
    NumToCheck,  \* of build_fast
    Kind,        \* "top", "newbie" or "other": has_top_player, has_newbie
    SelfQuality, \* quality_against_self
    Qualities,   \* what quality_with may return for two searches
    NoMatch,
    MaxPops      \* bound on the pops

Searches == 1..N

\* Searches have different places in the order; quality_with is never None
MarriageAssumption ==
    /\ N \in Nat
    /\ Mean \in [Searches -> Int]
    /\ \A s, t \in Searches : Mean[s] = Mean[t] => s = t
    /\ Qualities \subseteq Int
    /\ NoMatch \notin Searches

Duels == {D \in SUBSET Searches : Cardinality(D) = 2}

VARIABLES
    quality,   \* quality_with
    fast,      \* long queue: build_fast makes the graph, not build_full
    waiting,   \* the searches of the queue
    attempts,  \* Search._failed_matching_attempts
    edges,     \* the graph of this pop
    ranks,     \* what is left of the preference lists
    matches,   \* MatchmakingPolicy1v1.matches
    round, turn, pops,
    find       \* "timer" between the pops, "rounds" within find

graphVars == <<quality, fast, waiting, attempts, edges, pops>>
marriageVars == <<graphVars, ranks, matches, round, turn, find>>

MarriageTypeOK ==
    /\ quality \in [Duels -> Qualities]
    /\ fast \in BOOLEAN
    /\ waiting \subseteq Searches
    /\ attempts \in [Searches -> Nat]
    /\ edges \in [Searches -> SUBSET Searches]
    /\ ranks \in [Searches -> SUBSET Searches]
    /\ matches \in [Searches -> Searches \cup {NoMatch}]
    /\ round \in Nat /\ turn \in Nat /\ pops \in Nat
    /\ find \in {"timer", "rounds"}

NoEdges == [s \in Searches |-> {}]
Nobody == [s \in Searches |-> NoMatch]

MarriageInit ==
    /\ quality \in [Duels -> Qualities]
    /\ fast \in BOOLEAN
    /\ waiting = Searches
    /\ attempts = [s \in Searches |-> 0]
    /\ edges = NoEdges
    /\ ranks = NoEdges
    /\ matches = Nobody
    /\ round = 0 /\ turn = 1 /\ pops = 0
    /\ find = "timer"

-----------------------------------------------------------------------------
(* Search *)

\* search_expansion after a number of failed attempts
Expansion(s, n) ==
    CASE Kind[s] = "top"    -> Min({15 * n, 30})
      [] Kind[s] = "newbie" -> Min({10 * n, 60})
      [] Kind[s] = "other"  -> Min({5 * n, 25})

\* match_threshold
MatchThreshold(s, n) == Max({(8 * SelfQuality[s]) \div 10 - Expansion(s, n), 0})

Quality(s, t) == quality[{s, t}]

\* Mutant: only the search that proposes has a say
Acceptable1(s, t) == Quality(s, t) >= MatchThreshold(s, attempts[s])

\* _match_quality_acceptable
Acceptable(s, t) ==
    /\ Quality(s, t) >= MatchThreshold(s, attempts[s])
    /\ Quality(s, t) >= MatchThreshold(t, attempts[t])

-----------------------------------------------------------------------------
(* _MatchingGraph *)

\* build_fast looks at the next num_to_check searches in the order of avg_mean
Near(s, t) ==
    LET lo == Min({Mean[s], Mean[t]})
        hi == Max({Mean[s], Mean[t]})
    IN  Cardinality({u \in waiting : lo < Mean[u] /\ Mean[u] <= hi}) <= NumToCheck

\* build_full and build_fast
Graph ==
    [s \in Searches |->
        {t \in waiting : /\ s \in waiting /\ s # t
                         /\ fast => Near(s, t)
                         /\ Acceptable(s, t)}]

\* remove_isolated
Nodes == {s \in Searches : edges[s] # {}}

Degree == Max({Cardinality(edges[s]) : s \in Searches} \cup {0})

\* The last of a list that is sorted by quality; the sort is stable, and of
\* equal ones the later was appended later
Place(s) == IF fast THEN Mean[s] ELSE s

Preferred(s) ==
    CHOOSE t \in ranks[s] : \A u \in ranks[s] \ {t} :
        \/ Quality(s, t) > Quality(s, u)
        \/ Quality(s, t) = Quality(s, u) /\ Place(t) > Place(u)

-----------------------------------------------------------------------------
(* StableMarriage.find *)

\* Mutant: the attempts are not counted
FailedNever(S) == attempts

\* register_failed_matching_attempt for the searches S
Failed(S) == [s \in Searches |-> IF s \in S THEN attempts[s] + 1 ELSE attempts[s]]

\* The queue pops: find_matches and the start of find
Pop ==
    /\ find = "timer"
    /\ pops < MaxPops
    /\ pops' = pops + 1
    /\ IF Cardinality(waiting) < 2
       THEN /\ attempts' = Failed(waiting)
            /\ UNCHANGED <<edges, ranks, matches, find>>
       ELSE /\ edges' = Graph
            /\ ranks' = Graph
            /\ matches' = Nobody
            /\ find' = "rounds"
            /\ UNCHANGED attempts
    /\ round' = 0 /\ turn' = 1
    /\ UNCHANGED <<quality, fast, waiting>>

\* Who proposes next in this round
Proposers == {s \in Nodes : s >= turn /\ matches[s] = NoMatch /\ ranks[s] # {}}

\* The break of a round that everyone enters with an opponent, or the last one
RoundsOver == turn = 1 /\ (round = Degree \/ \A s \in Nodes : matches[s] # NoMatch)

\* _match, after _unmatch of t if it has an opponent
Match(s, t) ==
    [u \in Searches |-> CASE u = s -> t
                          [] u = t -> s
                          [] u \notin {s, t} /\ matches[u] = t -> NoMatch
                          [] OTHER -> matches[u]]

\* _propose
Propose(s, t) ==
    matches' = IF matches[t] = NoMatch \/ Quality(s, t) > Quality(t, matches[t])
               THEN Match(s, t) ELSE matches

\* The next search without opponent takes the best of its list
Turn ==
    LET s == Min(Proposers) IN
    /\ find = "rounds" /\ ~RoundsOver
    /\ Proposers # {}
    /\ ranks' = [ranks EXCEPT ![s] = @ \ {Preferred(s)}]
    /\ Propose(s, Preferred(s))
    /\ turn' = s + 1
    /\ UNCHANGED <<graphVars, round, find>>

\* All searches had their turn
NextRound ==
    /\ find = "rounds" /\ ~RoundsOver
    /\ Proposers = {}
    /\ round' = round + 1
    /\ turn' = 1
    /\ UNCHANGED <<graphVars, ranks, matches, find>>

Matched == {s \in waiting : matches[s] # NoMatch}

\* find returns: matched searches leave the queue, the others failed
Finish ==
    /\ find = "rounds" /\ RoundsOver
    /\ waiting' = waiting \ Matched
    /\ attempts' = Failed(waiting \ Matched)
    /\ find' = "timer"
    /\ UNCHANGED <<quality, fast, edges, pops, ranks, matches, round, turn>>

MarriageNext == Pop \/ Turn \/ NextRound \/ Finish

MarriageSpec == MarriageInit /\ [][MarriageNext]_marriageVars

\* The timer of the queue fires and find returns
MarriageFairness == WF_marriageVars(MarriageNext)

MarriageFairSpec == MarriageSpec /\ MarriageFairness

-----------------------------------------------------------------------------
(* Properties *)

\* The matches are pairs, and every pair is one that both searches accept:
\* the assertion of _unmatch holds whatever was proposed before, and no
\* search is handed out twice by _remove_duplicates.
MatchesArePairs ==
    \A s \in Searches :
        matches[s] # NoMatch => /\ matches[matches[s]] = s
                                /\ matches[s] \in edges[s]

\* Whether two searches accept each other after enough failed attempts
Compatible(s, t) ==
    /\ fast => Near(s, t)
    /\ \A u \in {s, t} : Quality(s, t) >= MatchThreshold(u, MaxPops)

\* Searches that would accept each other after enough failed attempts do not
\* wait for ever beside each other, whom else they are passed over for: of
\* every such pair one is matched in the end.
CompatibleAreMatched ==
    <>(\A s, t \in waiting : s # t => ~Compatible(s, t))
=============================================================================

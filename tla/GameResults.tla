----------------------------- MODULE GameResults -----------------------------
(***************************************************************************)
(* The results of one launched game: the reports the game instances of the *)
(* players send (gameconnection.py, handle_game_result), the cached        *)
(* outcome of each army (games/game_results.py, GameResultReports), the    *)
(* pending army statistics, and the end of the game: persist_results,      *)
(* resolve_game_results and what is published for rating.                  *)
(*                                                                         *)
(* A report is a record [reporter, army, outcome, score, tags]; tags stand *)
(* for the whole set of metadata words.  The order of the reports of an    *)
(* army never matters, so back[a] is a bag.                                *)
(***************************************************************************)
EXTENDS Integers, FiniteSets, FiniteSetsExt, BagsExt, Sequences, SequencesExt

CONSTANTS Players,     \* players at launch
          ArmyOf,      \* their army
          Setups,      \* the games to check: records [kind, team]
          Reports,     \* reports the game instances may send
          NoTags,      \* the empty set of metadata
          MaxReports,  \* bound on the number of reports
          MaxCopies,   \* bound on identical reports
          MaxLate      \* bound on reports after persist_results began

ASSUME ResultsAssumption ==
    /\ Players # {} /\ IsFiniteSet(Players)
    /\ \A g \in Setups : g.kind \in {"custom", "ladder", "override"}
    /\ \A r \in Reports : r.score \in Int
    /\ MaxReports \in Nat
    /\ MaxCopies \in Nat
    /\ MaxLate \in Nat

VARIABLES
    kind,       \* CustomGame, LadderGame, or LadderGame with the override
    team,       \* the Team option of the players
    back,       \* GameResultReports._back
    outcomes,   \* GameResultReports._outcomes
    dirty,      \* GameResultReports._dirty_armies
    unsent,     \* Game._players_with_unsent_army_stats
    stats,      \* Game._army_stats_list is not empty
    statTasks,  \* tasks running process_game_stats, by player
    phase,      \* live, persisted (on_game_finish awaits), ended
    validity,   \* Game.validity
    persisted,  \* rows of game_player_stats: score and result
    published,  \* the EndedGameInfo handed to publish_game_results
    late        \* history: armies reported on since persist_results began

reportVars == <<back, outcomes, dirty>>
statVars == <<unsent, stats, statTasks>>
endVars == <<phase, validity, persisted, published>>
vars == <<kind, team, reportVars, statVars, endVars, late>>

Armies == {ArmyOf[p] : p \in Players}
ReportedOutcomes == {"VICTORY", "DEFEAT", "DRAW", "MUTUAL_DRAW"}
Undecided == {"UNKNOWN", "CONFLICTING"}
Decided == {"VICTORY", "DEFEAT", "DRAW"}
ArmyOutcomes == Decided \cup Undecided
NotComputed == "none"
NoTeam == 0
FFA == 1

-----------------------------------------------------------------------------
(* GameResultReports *)

\* ArmyReportedOutcome.to_resolved
ToResolved(o) == IF o = "MUTUAL_DRAW" THEN "DRAW" ELSE o

\* The players who reported outcome o, among a set of reports
Voters(R, o) == {r.reporter : r \in {x \in R : x.outcome = o}}
Votes(R, o) == Cardinality(Voters(R, o))
Claimed(R) == {r.outcome : r \in R}

\* Mutant: a tie is decided by the order of the outcomes
LeadsOrTies(top, runnerUp) == top >= runnerUp

\* Enough more voters than the runner-up has
Leads(top, runnerUp) ==
    \/ top > 1 /\ 1 >= runnerUp
    \/ top >= runnerUp + 3

\* The outcome of S with the most voters; which one of several comes first
\* in the sorted list is left open
Foremost(R, S) == CHOOSE o \in S : \A x \in S : Votes(R, x) <= Votes(R, o)

\* _compute_outcome
ComputeOutcome(R) ==
    LET top == Foremost(R, Claimed(R))
        others == Claimed(R) \ {top}
    IN IF R = {} THEN "UNKNOWN"
       ELSE IF \/ others = {}
               \/ Leads(Votes(R, top), Votes(R, Foremost(R, others)))
       THEN ToResolved(top)
       ELSE "CONFLICTING"

Computed(a) == ComputeOutcome(DOMAIN back[a])

\* outcome: computed again only when a report came in since
Outcome(a) ==
    IF outcomes[a] = NotComputed \/ a \in dirty THEN Computed(a)
    ELSE outcomes[a]

\* Calls of outcome for the armies in A
ReadOutcomes(A) ==
    /\ outcomes' = [a \in Armies |-> IF a \in A THEN Outcome(a) ELSE outcomes[a]]
    /\ dirty' = dirty \ A

\* How many reports of army a have value v in field f
Count(a, f, v) ==
    MapThenSumSet(LAMBDA r : back[a][r], {r \in DOMAIN back[a] : r[f] = v})

Reported(a, f) == {r[f] : r \in DOMAIN back[a]}

\* metadata: the tags most reports carry, none when two sets of tags tie
Metadata(a) ==
    LET best == {t \in Reported(a, "tags") :
                   \A u \in Reported(a, "tags") :
                     Count(a, "tags", u) <= Count(a, "tags", t)}
    IN IF Cardinality(best) = 1 THEN CHOOSE t \in best : TRUE ELSE NoTags

\* score: the most frequent one, the largest of those that tie
Score(a) ==
    IF DOMAIN back[a] = {} THEN 0
    ELSE CHOOSE v \in Reported(a, "score") :
           \A w \in Reported(a, "score") \ {v} :
             \/ Count(a, "score", w) < Count(a, "score", v)
             \/ Count(a, "score", w) = Count(a, "score", v) /\ w < v

\* Game.get_army_score; LadderGame has its own, victory_only_score
GetArmyScore(a) ==
    IF kind = "custom" THEN Score(a)
    ELSE IF Outcome(a) = "VICTORY" THEN 1 ELSE 0

-----------------------------------------------------------------------------
(* The end of the game as pure functions *)

\* Game.get_team_sets: players of the FFA team stand alone
TeamSets ==
    {{p \in Players : team[p] = t} : t \in {team[p] : p \in Players} \ {FFA}}
    \cup {{p} : p \in {q \in Players : team[q] = FFA}}

Unresolved(T) == [t \in T |-> "UNKNOWN"]

\* Mutant: both teams may win
ResolveBothWin(T, claims) ==
    IF Cardinality(T) # 2 THEN Unresolved(T)
    ELSE [t \in T |-> IF "VICTORY" \in claims[t] THEN "VICTORY"
                      ELSE IF "DRAW" \in claims[t] THEN "DRAW" ELSE "DEFEAT"]

\* resolve_game, from the outcomes of the players of each team; where it
\* raises GameResolutionError the teams stay UNKNOWN
ResolveGame(T, claims) ==
    LET Claims(o) == {t \in T : o \in claims[t]}
        winners == Claims("VICTORY")
    IN IF Cardinality(T) # 2 \/ winners = T THEN Unresolved(T)
       ELSE IF winners # {}
       THEN [t \in T |-> IF t \in winners THEN "VICTORY" ELSE "DEFEAT"]
       ELSE IF \/ Claims("DRAW") = T
               \/ \A o \in {"DRAW"} \cup Undecided : Claims(o) = {}
       THEN [t \in T |-> "DRAW"]
       ELSE Unresolved(T)

\* LadderGame._outcome_override_hook applies
Overrides == kind = "override" /\ Cardinality(Players) <= 2

\* _outcome_override_hook: the teams are ranked by score alone
OverriddenOutcomes(T) ==
    LET S(t) == Score(ArmyOf[CHOOSE p \in t : TRUE])
        Rank(t, u) == IF S(t) > S(u) THEN "VICTORY"
                      ELSE IF S(t) < S(u) THEN "DEFEAT" ELSE "DRAW"
    IN [t \in T |-> Rank(t, CHOOSE u \in T : u # t)]

\* game_rater._ranks_from_team_outcomes accepts these outcomes
Ratable(outcome) ==
    LET T == DOMAIN outcome
    IN /\ Cardinality(T) = 2
       /\ \/ \A t \in T : outcome[t] = "DRAW"
          \/ {outcome[t] : t \in T} = {"VICTORY", "DEFEAT"}

-----------------------------------------------------------------------------
(* Army statistics *)

\* _process_pending_army_stats: the loop removes a player from the list it
\* iterates over and so passes over the one behind him
Remaining(list, hasResult, available) ==
    LET Visit(acc, p) ==
          IF ~acc.skip /\ available /\ hasResult[p]
          THEN [kept |-> acc.kept, skip |-> TRUE]
          ELSE [kept |-> Append(acc.kept, p), skip |-> FALSE]
    IN FoldLeft(Visit, [kept |-> <<>>, skip |-> FALSE], list).kept

ProcessPendingArmyStats(b, available) ==
    LET hasResult == [p \in Players |-> DOMAIN b[ArmyOf[p]] # {}]
        kept == Remaining(unsent, hasResult, available)
    IN /\ unsent' = kept
       /\ statTasks' = statTasks \cup (ToSet(unsent) \ ToSet(kept))

-----------------------------------------------------------------------------
(* Steps *)

NoRow == [score |-> 0, result |-> NotComputed]
NoInfo == [teams |-> <<>>, armies |-> <<>>, validity |-> NotComputed]

Init ==
    /\ \E g \in Setups : kind = g.kind /\ team = g.team
    /\ back = [a \in Armies |-> <<>>]
    /\ outcomes = [a \in Armies |-> NotComputed]
    /\ dirty = {}
    /\ unsent = SetToSeq(Players)
    /\ stats = FALSE
    /\ statTasks = {}
    /\ phase = "live"
    /\ validity = "VALID"
    /\ persisted = [p \in Players |-> NoRow]
    /\ published = NoInfo
    /\ late = <<>>

ReportCount ==
    MapThenSumSet(LAMBDA a : MapThenSumSet(LAMBDA r : back[a][r], DOMAIN back[a]),
                  Armies)

NoteLate(a) ==
    IF phase = "live" THEN UNCHANGED late
    ELSE Len(late) < MaxLate /\ late' = Append(late, a)

\* Mutant: the cached outcome of the army is kept
AddWithoutDirty(r) ==
    LET b == [back EXCEPT ![r.army] = BagAdd(@, r)]
    IN /\ r.army \in Armies
       /\ r.outcome \in ReportedOutcomes
       /\ r \in DOMAIN back[r.army] => back[r.army][r] < MaxCopies
       /\ ReportCount < MaxReports
       /\ back' = b
       /\ NoteLate(r.army)
       /\ ProcessPendingArmyStats(b, stats)
       /\ UNCHANGED <<kind, team, outcomes, dirty, stats, endVars>>

\* handle_game_result and Game.add_result; reports for an unknown army and
\* result types that are no outcome are dropped
AddResult(r) ==
    LET b == [back EXCEPT ![r.army] = BagAdd(@, r)]
    IN /\ r.army \in Armies
       /\ r.outcome \in ReportedOutcomes
       /\ r \in DOMAIN back[r.army] => back[r.army][r] < MaxCopies
       /\ ReportCount < MaxReports
       /\ back' = b
       /\ dirty' = dirty \cup {r.army}
       /\ NoteLate(r.army)
       /\ ProcessPendingArmyStats(b, stats)
       /\ UNCHANGED <<kind, team, outcomes, stats, endVars>>

\* handle_json_stats and report_army_stats
ReportArmyStats ==
    /\ ~stats
    /\ stats' = TRUE
    /\ ProcessPendingArmyStats(back, TRUE)
    /\ UNCHANGED <<kind, team, reportVars, endVars, late>>

\* The task created for player p reads his outcome
ProcessGameStats(p) ==
    /\ p \in statTasks
    /\ statTasks' = statTasks \ {p}
    /\ ReadOutcomes({ArmyOf[p]})
    /\ UNCHANGED <<kind, team, back, unsent, stats, endVars, late>>

\* on_game_finish of a game with too many desyncs
FinishDesynced ==
    /\ phase = "live"
    /\ phase' = "ended"
    /\ validity' = "TOO_MANY_DESYNCS"
    /\ UNCHANGED <<kind, team, reportVars, statVars, persisted, published, late>>

\* process_game_results without any report
FinishWithoutResults ==
    /\ phase = "live"
    /\ \A a \in Armies : DOMAIN back[a] = {}
    /\ phase' = "ended"
    /\ validity' = "UNKNOWN_RESULT"
    /\ ProcessPendingArmyStats(back, stats)
    /\ UNCHANGED <<kind, team, reportVars, stats, persisted, published, late>>

\* Mutant: the rows take the outcome that was computed last
PersistCached ==
    /\ phase = "live"
    /\ \E a \in Armies : DOMAIN back[a] # {}
    /\ phase' = "persisted"
    /\ persisted' = [p \in Players |->
                       [score  |-> GetArmyScore(ArmyOf[p]),
                        result |-> IF outcomes[ArmyOf[p]] = NotComputed
                                   THEN Outcome(ArmyOf[p])
                                   ELSE outcomes[ArmyOf[p]]]]
    /\ ReadOutcomes(Armies)
    /\ UNCHANGED <<kind, team, back, statVars, validity, published, late>>

\* persist_results: scores and outcomes are read before the rows are written
PersistResults ==
    /\ phase = "live"
    /\ \E a \in Armies : DOMAIN back[a] # {}
    /\ phase' = "persisted"
    /\ persisted' = [p \in Players |->
                       [score  |-> GetArmyScore(ArmyOf[p]),
                        result |-> Outcome(ArmyOf[p])]]
    /\ ReadOutcomes(Armies)
    /\ UNCHANGED <<kind, team, back, statVars, validity, published, late>>

\* check_game_finish for a player who leaves a game that goes on or has ended
PlayerLeaves ==
    /\ phase # "persisted"
    /\ ProcessPendingArmyStats(back, stats)
    /\ UNCHANGED <<kind, team, reportVars, stats, endVars, late>>

\* The validity after _run_pre_rate_validity_checks
Checked(short) ==
    IF kind = "custom" /\ short THEN "TOO_SHORT" ELSE validity

\* on_game_finish logs an exception: the rows of persist_results or the mark of a
\* short game cannot be written, or get_basic_info raises for a missing team
FinishFailed(short) ==
    /\ phase = "persisted"
    /\ phase' = "ended"
    /\ validity' = Checked(short)
    /\ UNCHANGED <<kind, team, reportVars, statVars, persisted, published, late>>

\* Mutant: an unresolved game stays valid
ValidityKept(v, outcome) == v

\* A game that could not be resolved does not stay valid
ResolvedValidity(v, outcome) ==
    IF v = "VALID" /\ \E t \in DOMAIN outcome : outcome[t] = "UNKNOWN"
    THEN "UNKNOWN_RESULT" ELSE v

TeamOutcomes ==
    IF Overrides THEN OverriddenOutcomes(TeamSets)
    ELSE ResolveGame(TeamSets,
                     [t \in TeamSets |-> {Outcome(ArmyOf[p]) : p \in t}])

\* The override hook raises for a single team, or the mark of an unresolved game
\* cannot be written, after the outcomes were read; on_game_finish logs it
ResolutionFailed ==
    /\ phase = "persisted"
    /\ \A p \in Players : team[p] # NoTeam
    /\ \/ /\ Overrides
          /\ Cardinality(TeamSets) < 2
          /\ UNCHANGED validity
       \/ /\ ~Overrides
          /\ validity' = ResolvedValidity(validity, TeamOutcomes)
          /\ validity' # validity
    /\ phase' = "ended"
    /\ ReadOutcomes(Armies)
    /\ UNCHANGED <<kind, team, back, statVars, persisted, published, late>>

\* resolve_game_results and publish_game_results, then the rest of
\* on_game_finish, which the rating service cuts short when it is shut down
ResolveGameResults(short) ==
    LET v == ResolvedValidity(Checked(short), TeamOutcomes)
    IN /\ phase = "persisted"
       /\ \A p \in Players : team[p] # NoTeam
       /\ Overrides => Cardinality(TeamSets) >= 2
       /\ phase' = "ended"
       /\ validity' = v
       /\ published' = [teams |-> TeamOutcomes,
                        armies |-> [p \in Players |->
                                      [outcome |-> Outcome(ArmyOf[p]),
                                       tags |-> Metadata(ArmyOf[p])]],
                        validity |-> v]
       /\ ReadOutcomes(Armies)
       /\ \/ ProcessPendingArmyStats(back, stats)
          \/ v = "VALID" /\ UNCHANGED <<unsent, statTasks>>
       /\ UNCHANGED <<kind, team, back, stats, persisted, late>>

Next ==
    \/ \E r \in Reports : AddResult(r)
    \/ ReportArmyStats
    \/ \E p \in Players : ProcessGameStats(p)
    \/ FinishDesynced
    \/ FinishWithoutResults
    \/ PersistResults
    \/ PlayerLeaves
    \/ ResolutionFailed
    \/ \E short \in BOOLEAN : FinishFailed(short) \/ ResolveGameResults(short)

Spec == Init /\ [][Next]_vars

-----------------------------------------------------------------------------
(* Properties *)

\* The outcome an army has cached is the one its reports yield now: whoever
\* asks for it, in the middle of the incoming reports, gets the current vote.
CacheIsFresh ==
    \A a \in Armies :
      outcomes[a] # NotComputed /\ a \notin dirty => outcomes[a] = Computed(a)

\* One more report never turns a decided outcome of an army into another
\* decided outcome: the vote passes through CONFLICTING in between.
DecisionIsStable ==
    [][\A a \in Armies :
         /\ back'[a] # back[a]
         /\ Computed(a) \in Decided
         /\ Computed(a)' \in Decided
         => Computed(a)' = Computed(a)]_vars

\* VICTORY has strictly more voters among the reports R than any other outcome
Ahead(R) ==
    /\ Voters(R, "VICTORY") # {}
    /\ \A o \in ReportedOutcomes \ {"VICTORY"} : Votes(R, o) < Votes(R, "VICTORY")

\* Another outcome has at least two voters and is less than three behind
Contested(R) ==
    \E o \in ReportedOutcomes \ {"VICTORY"} :
      /\ Votes(R, o) >= 2
      /\ Votes(R, "VICTORY") < Votes(R, o) + 3

\* A team is only published as the winner when one of its armies has strictly
\* more voters for VICTORY than for any other outcome.  An army of the other team
\* may have that too, but only contested, and is then published as CONFLICTING.
\* (Ladder games with the override are ranked by score instead; reports that
\* arrive afterwards do not count.)
WinnerHasTheVotes ==
    [][published' # published /\ ~Overrides =>
         LET R(p) == DOMAIN back[ArmyOf[p]]
             Told(p) == published'.armies[p].outcome
         IN \A t \in DOMAIN published'.teams :
              published'.teams[t] = "VICTORY" =>
                /\ \E p \in t : Ahead(R(p)) /\ Told(p) = "VICTORY"
                /\ \A p \in Players \ t :
                     Ahead(R(p)) => Contested(R(p)) /\ Told(p) = "CONFLICTING"]_vars

\* What is published as VALID can be rated: the rating service never meets
\* team outcomes that _ranks_from_team_outcomes refuses.
ValidIsRatable == published.validity = "VALID" => Ratable(published.teams)

\* The outcome written to game_player_stats differs from the published one
\* only for an army on which a report arrived while the rows were written.
PersistedIsPublished ==
    [][published' # published =>
         \A p \in Players :
           \/ ArmyOf[p] \in ToSet(late)
           \/ persisted[p].result = published'.armies[p].outcome]_vars
=============================================================================

-------------------------- MODULE GameResultsProofs --------------------------
(***************************************************************************)
(* Proofs about GameResults for any number of players, armies and reports. *)
(***************************************************************************)
EXTENDS GameResults, FiniteSums, FiniteSetTheorems, TLAPS

-----------------------------------------------------------------------------
(* Counting votes *)

\* The reports of an army can be counted.
Tally(R) ==
    /\ \A r \in R : r.outcome \in ReportedOutcomes
    /\ \A o \in ReportedOutcomes : IsFiniteSet(Voters(R, o))

\* Votes are natural numbers, and the outcomes with votes are the claimed ones.
LEMMA VotesCount ==
    ASSUME NEW R, Tally(R), NEW o \in ReportedOutcomes
    PROVE  /\ Votes(R, o) \in Nat
           /\ Votes(R, o) > 0 <=> o \in Claimed(R)
<1>1. IsFiniteSet(Voters(R, o))
  BY DEF Tally
<1>2. Votes(R, o) \in Nat
  BY <1>1, FS_CardinalityType DEF Votes
<1>4. Votes(R, o) = 0 <=> Voters(R, o) = {}
  BY <1>1, FS_EmptySet DEF Votes
<1>3. Voters(R, o) # {} <=> o \in Claimed(R)
  BY DEF Voters, Claimed
<1> QED
  BY <1>2, <1>3, <1>4

\* Only reported outcomes are claimed.
LEMMA ClaimedReported ==
    ASSUME NEW R, Tally(R)
    PROVE  Claimed(R) \subseteq ReportedOutcomes
BY DEF Tally, Claimed

\* Foremost really has the most votes: a set of outcomes has at most four.
LEMMA ForemostHasMost ==
    ASSUME NEW R, Tally(R), NEW S \in SUBSET ReportedOutcomes, S # {}
    PROVE  /\ Foremost(R, S) \in S
           /\ \A x \in S : Votes(R, x) <= Votes(R, Foremost(R, S))
<1> DEFINE v == [o \in ReportedOutcomes |-> Votes(R, o)]
<1>1. v \in [ReportedOutcomes -> Nat]
  BY VotesCount
<1>2. \A o \in S : v[o] = Votes(R, o)
  OBVIOUS
<1> HIDE DEF v
<1>3. \E o \in S : \A x \in S : v[x] <= v[o]
  <2> DEFINE Top(o) == o \in S /\ \A x \in S : v[x] <= v[o]
  <2>1. PICK a \in S : TRUE
    OBVIOUS
  <2>2. \A o \in S : o \in ReportedOutcomes /\ v[o] \in Nat
    BY <1>1
  <2> QED
    BY <2>1, <2>2, Z3 DEF ReportedOutcomes
<1>4. \E o \in S : \A x \in S : Votes(R, x) <= Votes(R, o)
  BY <1>2, <1>3
<1> QED
  BY <1>4 DEF Foremost

\* One more report gives at most one more vote, to its own outcome.
LEMMA AddVote ==
    ASSUME NEW R, Tally(R), NEW r, r.outcome \in ReportedOutcomes
    PROVE  /\ Tally(R \cup {r})
           /\ Claimed(R) \subseteq Claimed(R \cup {r})
           /\ \A o \in ReportedOutcomes :
                /\ Votes(R, o) <= Votes(R \cup {r}, o)
                /\ Votes(R \cup {r}, o) <= Votes(R, o) + 1
<1>1. \A o \in ReportedOutcomes :
        Voters(R \cup {r}, o) = IF o = r.outcome
                                THEN Voters(R, o) \cup {r.reporter}
                                ELSE Voters(R, o)
  BY DEF Voters
<1>2. ASSUME NEW o \in ReportedOutcomes
      PROVE  /\ IsFiniteSet(Voters(R \cup {r}, o))
             /\ Votes(R, o) <= Votes(R \cup {r}, o)
             /\ Votes(R \cup {r}, o) <= Votes(R, o) + 1
  <2>1. IsFiniteSet(Voters(R, o)) /\ Votes(R, o) \in Nat
    BY VotesCount DEF Tally
  <2>2. /\ IsFiniteSet(Voters(R, o) \cup {r.reporter})
        /\ \/ Cardinality(Voters(R, o) \cup {r.reporter}) = Votes(R, o)
           \/ Cardinality(Voters(R, o) \cup {r.reporter}) = Votes(R, o) + 1
    BY <2>1, FS_AddElement DEF Votes
  <2>3. CASE o = r.outcome
    <3>1. Voters(R \cup {r}, o) = Voters(R, o) \cup {r.reporter}
      BY <1>1, <2>3
    <3>2. Votes(R \cup {r}, o) = Cardinality(Voters(R, o) \cup {r.reporter})
      BY <3>1 DEF Votes
    <3>3. IsFiniteSet(Voters(R \cup {r}, o))
      BY <2>2, <3>1, Zenon
    <3>4. \/ Votes(R \cup {r}, o) = Votes(R, o)
          \/ Votes(R \cup {r}, o) = Votes(R, o) + 1
      BY <2>2, <3>2, Zenon
    <3> QED
      BY <2>1, <3>3, <3>4
  <2>4. CASE o # r.outcome
    <3>1. Voters(R \cup {r}, o) = Voters(R, o)
      BY <1>1, <2>4
    <3>2. Votes(R \cup {r}, o) = Votes(R, o)
      BY <3>1 DEF Votes
    <3> QED
      BY <2>1, <3>1, <3>2
  <2> QED
    BY <2>3, <2>4
<1>3. Tally(R \cup {r})
  BY <1>2 DEF Tally
<1>4. Claimed(R) \subseteq Claimed(R \cup {r})
  BY DEF Claimed
<1> QED
  BY <1>2, <1>3, <1>4

\* What a decided outcome says about the votes.
LEMMA DecidedLeads ==
    ASSUME NEW R, Tally(R), ComputeOutcome(R) \in Decided
    PROVE  \E t \in Claimed(R) :
             /\ ComputeOutcome(R) = ToResolved(t)
             /\ \A o \in Claimed(R) \ {t} :
                  /\ Votes(R, o) <= Votes(R, t)
                  /\ Leads(Votes(R, t), Votes(R, o))
<1> DEFINE t == Foremost(R, Claimed(R))
           others == Claimed(R) \ {t}
           u == Foremost(R, others)
<1>1. R # {} /\ Claimed(R) # {}
  BY DEF ComputeOutcome, Claimed, Decided
<1>2. Claimed(R) \in SUBSET ReportedOutcomes
  BY ClaimedReported
<1>3. t \in Claimed(R) /\ \A x \in Claimed(R) : Votes(R, x) <= Votes(R, t)
  BY <1>1, <1>2, ForemostHasMost
<1>4. /\ ComputeOutcome(R) = ToResolved(t)
      /\ others = {} \/ Leads(Votes(R, t), Votes(R, u))
  BY <1>1 DEF ComputeOutcome, Decided
<1>5. ASSUME NEW o \in others
      PROVE  Leads(Votes(R, t), Votes(R, o))
  <2>1. others \in SUBSET ReportedOutcomes /\ others # {}
    BY <1>2
  <2>2. u \in others /\ Votes(R, o) <= Votes(R, u)
    BY <2>1, ForemostHasMost
  <2>3. Votes(R, t) \in Nat /\ Votes(R, u) \in Nat /\ Votes(R, o) \in Nat
    BY <1>2, <1>3, <2>2, VotesCount
  <2>4. Leads(Votes(R, t), Votes(R, u))
    BY <1>4
  <2> QED
    BY <2>2, <2>3, <2>4 DEF Leads
<1> QED
  BY <1>3, <1>4, <1>5

\* One more report never turns a decision into another decision.
LEMMA NoFlip ==
    ASSUME NEW R, Tally(R), NEW r, r.outcome \in ReportedOutcomes,
           ComputeOutcome(R) \in Decided, ComputeOutcome(R \cup {r}) \in Decided
    PROVE  ComputeOutcome(R \cup {r}) = ComputeOutcome(R)
<1> DEFINE Q == R \cup {r}
<1>1. /\ Tally(Q)
      /\ Claimed(R) \subseteq Claimed(Q)
      /\ \A o \in ReportedOutcomes :
           Votes(R, o) <= Votes(Q, o) /\ Votes(Q, o) <= Votes(R, o) + 1
  BY AddVote
<1>2. /\ Claimed(R) \subseteq ReportedOutcomes
      /\ Claimed(Q) \subseteq ReportedOutcomes
  BY <1>1, ClaimedReported
<1> HIDE DEF Q
<1>3. PICK t \in Claimed(R) :
        /\ ComputeOutcome(R) = ToResolved(t)
        /\ \A o \in Claimed(R) \ {t} : /\ Votes(R, o) <= Votes(R, t)
                                       /\ Leads(Votes(R, t), Votes(R, o))
  BY DecidedLeads
<1>4. PICK q \in Claimed(Q) :
        /\ ComputeOutcome(Q) = ToResolved(q)
        /\ \A o \in Claimed(Q) \ {q} : /\ Votes(Q, o) <= Votes(Q, q)
                                       /\ Leads(Votes(Q, q), Votes(Q, o))
  BY <1>1, DecidedLeads DEF Q
<1>5. ASSUME q # t
      PROVE  FALSE
  <2>1. t \in ReportedOutcomes /\ q \in ReportedOutcomes
    BY <1>2
  <2>2. /\ Votes(R, t) \in Nat /\ Votes(R, q) \in Nat
        /\ Votes(Q, t) \in Nat /\ Votes(Q, q) \in Nat
        /\ Votes(R, t) > 0
        /\ Votes(R, q) > 0 <=> q \in Claimed(R)
    BY <1>1, <2>1, VotesCount
  <2>3. Leads(Votes(Q, q), Votes(Q, t))
    BY <1>1, <1>4, <1>5
  <2>4. Votes(R, q) > 0
    BY <1>1, <2>1, <2>2, <2>3 DEF Leads
  <2>5. Votes(R, q) <= Votes(R, t) /\ Leads(Votes(R, t), Votes(R, q))
    BY <1>3, <1>5, <2>2, <2>4
  <2> QED
    BY <1>1, <2>1, <2>2, <2>3, <2>4, <2>5 DEF Leads
<1> QED
  BY <1>3, <1>4, <1>5 DEF Q

-----------------------------------------------------------------------------
(* The invariant *)

ReportsInv ==
    /\ DOMAIN back = Armies
    /\ DOMAIN outcomes = Armies
    /\ \A a \in Armies : Tally(DOMAIN back[a])

\* Adding to a bag adds to its elements.
LEMMA BagAddDomain ==
    ASSUME NEW B, NEW x
    PROVE  DOMAIN BagAdd(B, x) = DOMAIN B \cup {x}
BY DEF BagAdd

\* An army without reports is a tally.
LEMMA EmptyTally == Tally({})
BY FS_EmptySet DEF Tally, Voters

\* A report changes the reports of its own army, and only by itself.
LEMMA AddResultReports ==
    ASSUME ReportsInv, NEW r \in Reports, AddResult(r)
    PROVE  /\ r.army \in Armies
           /\ r.outcome \in ReportedOutcomes
           /\ DOMAIN back' = Armies
           /\ DOMAIN back'[r.army] = DOMAIN back[r.army] \cup {r}
           /\ \A a \in Armies \ {r.army} : back'[a] = back[a]
<1>1. /\ r.army \in Armies
      /\ r.outcome \in ReportedOutcomes
      /\ back' = [back EXCEPT ![r.army] = BagAdd(@, r)]
  BY DEF AddResult
<1>2. /\ back'[r.army] = BagAdd(back[r.army], r)
      /\ DOMAIN back' = Armies
      /\ \A a \in Armies \ {r.army} : back'[a] = back[a]
  BY <1>1 DEF ReportsInv
<1> QED
  BY <1>1, <1>2, BagAddDomain

\* Only AddResult changes the reports.
LEMMA OtherStepsKeepReports ==
    ASSUME [Next]_vars, \A r \in Reports : ~AddResult(r)
    PROVE  back' = back
BY DEF Next, vars, reportVars, ReportArmyStats, ProcessGameStats,
       FinishDesynced, FinishWithoutResults, PersistResults, PlayerLeaves,
       FinishFailed, ResolutionFailed, ResolveGameResults

\* What a step does to the cache of outcomes.
LEMMA CacheSteps ==
    ASSUME [Next]_vars
    PROVE  \/ UNCHANGED <<outcomes, dirty>>
           \/ \E A \in SUBSET Armies : ReadOutcomes(A)
           \/ \E r \in Reports : /\ AddResult(r)
                                 /\ outcomes' = outcomes
                                 /\ dirty' = dirty \cup {r.army}
<1>1. ASSUME NEW p \in Players, ProcessGameStats(p)
      PROVE  \E A \in SUBSET Armies : ReadOutcomes(A)
  BY <1>1 DEF ProcessGameStats, Armies
<1>2. ASSUME NEW r \in Reports, AddResult(r)
      PROVE  outcomes' = outcomes /\ dirty' = dirty \cup {r.army}
  BY <1>2 DEF AddResult
<1>3. CASE \/ PersistResults \/ ResolutionFailed
           \/ \E short \in BOOLEAN : ResolveGameResults(short)
  BY <1>3 DEF PersistResults, ResolutionFailed, ResolveGameResults
<1>4. CASE \/ ReportArmyStats \/ FinishDesynced \/ FinishWithoutResults \/ PlayerLeaves
           \/ (\E short \in BOOLEAN : FinishFailed(short)) \/ UNCHANGED vars
  BY <1>4 DEF ReportArmyStats, FinishDesynced, FinishWithoutResults, PlayerLeaves,
              FinishFailed, vars, reportVars
<1> QED
  BY <1>1, <1>2, <1>3, <1>4 DEF Next

\* The reports can always be counted.
LEMMA ReportsCount == Spec => []ReportsInv
<1>1. Init => ReportsInv
  <2>1. ASSUME NEW a \in Armies, back = [x \in Armies |-> <<>>]
        PROVE  DOMAIN back[a] = {}
    BY <2>1
  <2> QED
    BY <2>1, EmptyTally DEF Init, ReportsInv
<1>2. ReportsInv /\ [Next]_vars => ReportsInv'
  <2> SUFFICES ASSUME ReportsInv, [Next]_vars
               PROVE  ReportsInv'
    OBVIOUS
  <2>1. DOMAIN outcomes' = Armies
    BY CacheSteps DEF ReportsInv, ReadOutcomes
  <2>2. CASE \E r \in Reports : AddResult(r)
    <3>1. PICK r \in Reports : AddResult(r)
      BY <2>2
    <3>2. ASSUME NEW a \in Armies
          PROVE  Tally(DOMAIN back'[a])
      <4>1. CASE a = r.army
        <5>1. Tally(DOMAIN back[a])
          BY DEF ReportsInv
        <5> QED
          BY <3>1, <4>1, <5>1, AddResultReports, AddVote
      <4>2. CASE a # r.army
        BY <3>1, <4>2, AddResultReports DEF ReportsInv
      <4> QED
        BY <4>1, <4>2
    <3> QED
      BY <2>1, <3>1, <3>2, AddResultReports DEF ReportsInv
  <2>3. CASE ~ \E r \in Reports : AddResult(r)
    BY <2>1, <2>3, OtherStepsKeepReports DEF ReportsInv
  <2> QED
    BY <2>2, <2>3
<1> QED
  BY <1>1, <1>2, PTL DEF Spec

-----------------------------------------------------------------------------
(* Theorems *)

\* The cached outcome of an army is always the one its reports yield:
\* GameResultReports.outcome never answers with an outdated vote.
THEOREM OutcomeCacheCorrect == Spec => []CacheIsFresh
<1>1. Init => CacheIsFresh
  BY DEF Init, CacheIsFresh
<1>2. ReportsInv /\ CacheIsFresh /\ [Next]_vars => CacheIsFresh'
  <2> SUFFICES ASSUME ReportsInv, CacheIsFresh, [Next]_vars,
                      NEW a \in Armies,
                      outcomes'[a] # NotComputed, a \notin dirty'
               PROVE  outcomes'[a] = Computed(a)'
    BY DEF CacheIsFresh
  <2>1. CASE \E r \in Reports : AddResult(r)
    <3>1. PICK r \in Reports : AddResult(r)
      BY <2>1
    <3>2. outcomes' = outcomes /\ dirty' = dirty \cup {r.army}
      BY <3>1 DEF AddResult
    <3>3. back'[a] = back[a]
      BY <3>1, <3>2, AddResultReports
    <3> QED
      BY <3>2, <3>3 DEF CacheIsFresh, Computed
  <2>2. CASE ~ \E r \in Reports : AddResult(r)
    <3>1. Computed(a)' = Computed(a)
      BY <2>2, OtherStepsKeepReports DEF Computed
    <3>2. CASE UNCHANGED <<outcomes, dirty>>
      BY <3>1, <3>2 DEF CacheIsFresh
    <3>3. ASSUME NEW A \in SUBSET Armies, ReadOutcomes(A)
          PROVE  outcomes'[a] = Computed(a)
      <4>1. /\ outcomes'[a] = IF a \in A THEN Outcome(a) ELSE outcomes[a]
            /\ dirty' = dirty \ A
        BY <3>3 DEF ReadOutcomes
      <4>2. CASE a \in A
        BY <4>1, <4>2 DEF Outcome, CacheIsFresh
      <4>3. CASE a \notin A
        BY <4>1, <4>3 DEF CacheIsFresh
      <4> QED
        BY <4>2, <4>3
    <3> QED
      BY <2>2, <3>1, <3>2, <3>3, CacheSteps
  <2> QED
    BY <2>1, <2>2
<1> QED
  BY <1>1, <1>2, ReportsCount, PTL DEF Spec

\* However many players report whatever they like, a decided outcome of an
\* army never becomes another decided one by a single report.
THEOREM OneReportNeverFlips == Spec => DecisionIsStable
<1>1. ReportsInv /\ [Next]_vars =>
        [\A a \in Armies :
           /\ back'[a] # back[a]
           /\ Computed(a) \in Decided
           /\ Computed(a)' \in Decided
           => Computed(a)' = Computed(a)]_vars
  <2> SUFFICES ASSUME ReportsInv, [Next]_vars, NEW a \in Armies,
                      Computed(a) \in Decided, Computed(a)' \in Decided
               PROVE  Computed(a)' = Computed(a)
    OBVIOUS
  <2>1. CASE \E r \in Reports : AddResult(r)
    <3>1. PICK r \in Reports : AddResult(r)
      BY <2>1
    <3>2. CASE a = r.army
      <4>1. Tally(DOMAIN back[a])
        BY DEF ReportsInv
      <4>2. /\ r.outcome \in ReportedOutcomes
            /\ DOMAIN back'[a] = DOMAIN back[a] \cup {r}
        BY <3>1, <3>2, AddResultReports
      <4>3. /\ Computed(a) = ComputeOutcome(DOMAIN back[a])
            /\ Computed(a)' = ComputeOutcome(DOMAIN back[a] \cup {r})
        BY <4>2 DEF Computed
      <4> QED
        BY <4>1, <4>2, <4>3, NoFlip
    <3>3. CASE a # r.army
      BY <3>1, <3>3, AddResultReports DEF Computed
    <3> QED
      BY <3>2, <3>3
  <2>2. CASE ~ \E r \in Reports : AddResult(r)
    BY <2>2, OtherStepsKeepReports DEF Computed
  <2> QED
    BY <2>1, <2>2
<1> QED
  BY <1>1, ReportsCount, PTL DEF Spec, DecisionIsStable

-----------------------------------------------------------------------------
(* Who is published as the winner *)

\* An army whose vote yields VICTORY has strictly the most voters for it
LEMMA VictoryVotes ==
    ASSUME NEW R, Tally(R), ComputeOutcome(R) = "VICTORY"
    PROVE  /\ Voters(R, "VICTORY") # {}
           /\ \A o \in ReportedOutcomes \ {"VICTORY"} :
                Votes(R, o) < Votes(R, "VICTORY")
<1>1. ComputeOutcome(R) \in Decided
  BY DEF Decided
<1>2. PICK t \in Claimed(R) :
        /\ ComputeOutcome(R) = ToResolved(t)
        /\ \A o \in Claimed(R) \ {t} : /\ Votes(R, o) <= Votes(R, t)
                                       /\ Leads(Votes(R, t), Votes(R, o))
  BY <1>1, DecidedLeads
<1>3. t = "VICTORY"
  BY <1>2 DEF ToResolved
<1>4. "VICTORY" \in ReportedOutcomes /\ Votes(R, "VICTORY") \in Nat
      /\ Votes(R, "VICTORY") > 0
  BY <1>2, <1>3, VotesCount DEF ReportedOutcomes
<1>5. ASSUME NEW o \in ReportedOutcomes \ {"VICTORY"}
      PROVE  Votes(R, o) < Votes(R, "VICTORY")
  <2>1. Votes(R, o) \in Nat /\ (Votes(R, o) > 0 <=> o \in Claimed(R))
    BY VotesCount
  <2>2. CASE o \in Claimed(R)
    <3>1. Leads(Votes(R, "VICTORY"), Votes(R, o))
      BY <1>2, <1>3, <2>2
    <3> QED
      BY <1>4, <2>1, <3>1 DEF Leads
  <2>3. CASE o \notin Claimed(R)
    BY <1>4, <2>1, <2>3
  <2> QED
    BY <2>2, <2>3
<1>6. Voters(R, "VICTORY") # {}
  BY <1>2, <1>3 DEF Voters, Claimed
<1> QED
  BY <1>5, <1>6

\* The teams are finitely many, and every player is in one of them
LEMMA TeamsCover ==
    /\ IsFiniteSet(TeamSets)
    /\ \A p \in Players : \E t \in TeamSets : p \in t
<1>1. TeamSets \subseteq SUBSET Players
  BY DEF TeamSets
<1>2. IsFiniteSet(SUBSET Players)
  BY FS_SUBSET, ResultsAssumption
<1>3. IsFiniteSet(TeamSets)
  BY <1>1, <1>2, FS_Subset
<1>4. ASSUME NEW p \in Players
      PROVE  \E t \in TeamSets : p \in t
  <2>1. CASE team[p] = FFA
    BY <2>1 DEF TeamSets
  <2>2. CASE team[p] # FFA
    <3>1. {q \in Players : team[q] = team[p]} \in TeamSets
      BY <2>2 DEF TeamSets
    <3> QED
      BY <3>1
  <2> QED
    BY <2>1, <2>2
<1> QED
  BY <1>3, <1>4

\* resolve_game lets one of two teams win, and only by a claim of its own
LEMMA OneTeamWins ==
    ASSUME NEW T, IsFiniteSet(T), NEW claims, NEW t \in T,
           ResolveGame(T, claims)[t] = "VICTORY"
    PROVE  /\ "VICTORY" \in claims[t]
           /\ \A u \in T \ {t} : "VICTORY" \notin claims[u]
<1> DEFINE Claims(o) == {x \in T : o \in claims[x]}
<1>1. Unresolved(T)[t] # "VICTORY"
  BY DEF Unresolved
<1>2. /\ Cardinality(T) = 2
      /\ Claims("VICTORY") # T
      /\ "VICTORY" \in claims[t]
  BY <1>1 DEF ResolveGame
<1>3. PICK u \in T : "VICTORY" \notin claims[u]
  BY <1>2
<1>4. IsFiniteSet(T \ {t}) /\ Cardinality(T \ {t}) = 1
  BY <1>2, FS_RemoveElement
<1>5. PICK x : T \ {t} = {x}
  BY <1>4, FS_Singleton
<1>6. u # t
  BY <1>2, <1>3
<1>7. T \ {t} = {u}
  BY <1>5, <1>6
<1> QED
  BY <1>2, <1>3, <1>7

\* An army that is ahead without being decided for VICTORY is contested
LEMMA AheadOrContested ==
    ASSUME NEW R, Tally(R), Ahead(R), ComputeOutcome(R) # "VICTORY"
    PROVE  Contested(R) /\ ComputeOutcome(R) = "CONFLICTING"
<1> DEFINE top == Foremost(R, Claimed(R))
           others == Claimed(R) \ {top}
           second == Foremost(R, others)
<1>1. Claimed(R) \subseteq ReportedOutcomes /\ "VICTORY" \in Claimed(R)
  BY ClaimedReported DEF Ahead, Voters, Claimed
<1>2. \A o \in ReportedOutcomes : Votes(R, o) \in Nat
  BY VotesCount
<1>3. top \in Claimed(R) /\ Votes(R, "VICTORY") <= Votes(R, top)
  BY <1>1, ForemostHasMost
<1>4. top = "VICTORY"
  <2> HIDE DEF top
  <2>1. \A o \in ReportedOutcomes \ {"VICTORY"} : Votes(R, o) < Votes(R, "VICTORY")
    BY DEF Ahead
  <2>2. SUFFICES ASSUME top # "VICTORY" PROVE FALSE
    OBVIOUS
  <2>3. Votes(R, top) < Votes(R, "VICTORY") /\ Votes(R, top) \in Nat
        /\ Votes(R, "VICTORY") \in Nat
    BY <1>1, <1>2, <1>3, <2>1, <2>2
  <2> QED
    BY <1>3, <2>3
<1>5. ToResolved(top) = "VICTORY"
  BY <1>4 DEF ToResolved
<1>6. R # {}
  BY <1>1 DEF Claimed
<1>7. /\ others # {}
      /\ ~Leads(Votes(R, top), Votes(R, second))
      /\ ComputeOutcome(R) = "CONFLICTING"
  BY <1>5, <1>6 DEF ComputeOutcome
<1>8. second \in others
  BY <1>1, <1>7, ForemostHasMost
<1>9. second \in ReportedOutcomes \ {"VICTORY"}
  BY <1>1, <1>4, <1>8
<1>10. Votes(R, second) < Votes(R, "VICTORY")
  BY <1>9 DEF Ahead
<1>12. Votes(R, second) > 0
  BY <1>8, <1>9, VotesCount
<1>11. Votes(R, second) >= 2 /\ Votes(R, "VICTORY") < Votes(R, second) + 3
  <2> HIDE DEF top, second, others
  <2>1. Votes(R, second) \in Nat /\ Votes(R, "VICTORY") \in Nat
    BY <1>1, <1>2, <1>9
  <2>2. ~Leads(Votes(R, "VICTORY"), Votes(R, second))
    BY <1>4, <1>7
  <2> QED
    BY <1>10, <1>12, <2>1, <2>2 DEF Leads
<1> QED
  BY <1>7, <1>9, <1>11 DEF Contested

\* For any number of players and reports: a published winner has an army with
\* strictly the most voters for VICTORY, and an army of the other team that has
\* them too is contested and CONFLICTING
THEOREM WinnersHaveTheVotes == Spec => WinnerHasTheVotes
<1> DEFINE R(p) == DOMAIN back[ArmyOf[p]]
           Told(p) == published'.armies[p].outcome
           W == published' # published /\ ~Overrides =>
                  \A t \in DOMAIN published'.teams :
                    published'.teams[t] = "VICTORY" =>
                      /\ \E p \in t : Ahead(R(p)) /\ Told(p) = "VICTORY"
                      /\ \A p \in Players \ t :
                           Ahead(R(p)) =>
                             Contested(R(p)) /\ Told(p) = "CONFLICTING"
<1>1. ASSUME ReportsInv, CacheIsFresh, NEW p \in Players
      PROVE  /\ Tally(R(p))
             /\ Outcome(ArmyOf[p]) = ComputeOutcome(R(p))
  BY <1>1 DEF Armies, Outcome, CacheIsFresh, Computed, ReportsInv
<1>2. ReportsInv /\ CacheIsFresh /\ [Next]_vars => [W]_vars
  <2> SUFFICES ASSUME ReportsInv, CacheIsFresh, [Next]_vars,
                      published' # published, ~Overrides,
                      NEW t \in DOMAIN published'.teams,
                      published'.teams[t] = "VICTORY"
               PROVE  /\ \E p \in t : Ahead(R(p)) /\ Told(p) = "VICTORY"
                      /\ \A p \in Players \ t :
                           Ahead(R(p)) => Contested(R(p)) /\ Told(p) = "CONFLICTING"
    OBVIOUS
  <2> DEFINE claims == [s \in TeamSets |-> {Outcome(ArmyOf[p]) : p \in s}]
  <2>1. PICK short \in BOOLEAN : ResolveGameResults(short)
    BY DEF Next, vars, endVars, AddResult, ReportArmyStats, ProcessGameStats,
           FinishDesynced, FinishWithoutResults, PersistResults, PlayerLeaves,
           FinishFailed, ResolutionFailed
  <2>2. /\ published'.teams = ResolveGame(TeamSets, claims)
        /\ \A p \in Players : Told(p) = Outcome(ArmyOf[p])
    BY <2>1 DEF ResolveGameResults, TeamOutcomes
  <2>3. DOMAIN ResolveGame(TeamSets, claims) = TeamSets
    BY DEF ResolveGame, Unresolved
  <2>4. t \in TeamSets /\ t \subseteq Players
    BY <2>2, <2>3 DEF TeamSets
  <2>5. /\ "VICTORY" \in claims[t]
        /\ \A u \in TeamSets \ {t} : "VICTORY" \notin claims[u]
    <3> HIDE DEF claims
    <3> QED
      BY <2>2, <2>4, TeamsCover, OneTeamWins
  <2>6. PICK p \in t : Outcome(ArmyOf[p]) = "VICTORY"
    BY <2>4, <2>5
  <2>7. Ahead(R(p)) /\ Told(p) = "VICTORY"
    <3>1. p \in Players
      BY <2>4, <2>6
    <3>2. Tally(R(p)) /\ ComputeOutcome(R(p)) = "VICTORY"
      BY <1>1, <2>6, <3>1
    <3> QED
      BY <2>2, <2>6, <3>1, <3>2, VictoryVotes DEF Ahead
  <2>8. ASSUME NEW x \in Players \ t, Ahead(R(x))
        PROVE  Contested(R(x)) /\ Told(x) = "CONFLICTING"
    <3>1. PICK u \in TeamSets : x \in u
      BY TeamsCover
    <3>2. "VICTORY" \notin claims[u]
      BY <2>5, <3>1
    <3>3. Outcome(ArmyOf[x]) # "VICTORY"
      BY <3>1, <3>2
    <3> QED
      BY <1>1, <2>2, <2>8, <3>3, AheadOrContested
  <2> HIDE DEF R, Told
  <2> QED
    BY <2>7, <2>8
<1>3. Spec => [][W]_vars
  BY <1>2, ReportsCount, OutcomeCacheCorrect, PTL DEF Spec
<1> QED
  BY <1>3, Zenon DEF WinnerHasTheVotes

-----------------------------------------------------------------------------
(* What the rows say and what is published *)

\* Once the rows are written, an army without a late report still has the
\* outcome its rows say
RowsInv ==
    /\ late \in Seq(Armies)
    /\ phase = "persisted" =>
         \A p \in Players : \/ ArmyOf[p] \in ToSet(late)
                            \/ persisted[p].result = Computed(ArmyOf[p])

\* With a fresh cache, outcome answers with the vote
LEMMA OutcomeIsComputed ==
    ASSUME CacheIsFresh, NEW a \in Armies
    PROVE  Outcome(a) = Computed(a)
BY DEF CacheIsFresh, Outcome

\* A sequence keeps its elements when one is appended
LEMMA AppendElements ==
    ASSUME NEW S, NEW s \in Seq(S), NEW x \in S
    PROVE  /\ Append(s, x) \in Seq(S)
           /\ ToSet(s) \subseteq ToSet(Append(s, x))
           /\ x \in ToSet(Append(s, x))
<1>1. /\ Append(s, x) \in Seq(S)
      /\ \A i \in DOMAIN s : i \in DOMAIN Append(s, x) /\ Append(s, x)[i] = s[i]
      /\ Len(s) + 1 \in DOMAIN Append(s, x)
      /\ Append(s, x)[Len(s) + 1] = x
  OBVIOUS
<1> QED
  BY <1>1 DEF ToSet

\* Rows disagree with the vote only where a report came late
LEMMA RowsAreFresh == Spec => []RowsInv
<1>1. Init => RowsInv
  BY DEF Init, RowsInv
<1>2. ReportsInv /\ CacheIsFresh /\ RowsInv /\ [Next]_vars => RowsInv'
  <2> SUFFICES ASSUME ReportsInv, CacheIsFresh, RowsInv, [Next]_vars
               PROVE  RowsInv'
    OBVIOUS
  <2>1. ASSUME NEW r \in Reports, AddResult(r)
        PROVE  RowsInv'
    <3>1. /\ r.army \in Armies
          /\ \A a \in Armies \ {r.army} : back'[a] = back[a]
      BY <2>1, AddResultReports
    <3>2. phase' = phase /\ persisted' = persisted
      BY <2>1 DEF AddResult, endVars
    <3>3. CASE phase = "live"
      <4>1. late' = late
        BY <2>1, <3>3 DEF AddResult, NoteLate
      <4> QED
        BY <3>2, <3>3, <4>1 DEF RowsInv
    <3>4. CASE phase # "live"
      <4>1. late' = Append(late, r.army)
        BY <2>1, <3>4 DEF AddResult, NoteLate
      <4>2. /\ late' \in Seq(Armies)
            /\ ToSet(late) \subseteq ToSet(late')
            /\ r.army \in ToSet(late')
        BY <3>1, <4>1, AppendElements DEF RowsInv
      <4>3. ASSUME NEW p \in Players, phase' = "persisted",
                   ArmyOf[p] \notin ToSet(late')
            PROVE  persisted'[p].result = Computed(ArmyOf[p])'
        <5>1. ArmyOf[p] \in Armies \ {r.army} /\ ArmyOf[p] \notin ToSet(late)
          BY <4>2, <4>3 DEF Armies
        <5>2. Computed(ArmyOf[p])' = Computed(ArmyOf[p])
          BY <3>1, <5>1 DEF Computed
        <5> QED
          BY <3>2, <4>3, <5>1, <5>2 DEF RowsInv
      <4> QED
        BY <4>2, <4>3 DEF RowsInv
    <3> QED
      BY <3>3, <3>4
  <2>2. CASE PersistResults
    <3>1. late' = late /\ back' = back
      BY <2>2 DEF PersistResults
    <3>2. ASSUME NEW p \in Players
          PROVE  persisted'[p].result = Computed(ArmyOf[p])'
      <4>1. persisted'[p].result = Outcome(ArmyOf[p]) /\ ArmyOf[p] \in Armies
        BY <2>2 DEF PersistResults, Armies
      <4>2. Computed(ArmyOf[p])' = Computed(ArmyOf[p])
        BY <3>1 DEF Computed
      <4> QED
        BY <4>1, <4>2, OutcomeIsComputed
    <3> QED
      BY <3>1, <3>2 DEF RowsInv
  <2>3. CASE \/ FinishDesynced \/ FinishWithoutResults \/ ResolutionFailed
             \/ \E short \in BOOLEAN : FinishFailed(short) \/ ResolveGameResults(short)
    <3>1. phase' = "ended" /\ late' = late
      BY <2>3 DEF FinishDesynced, FinishWithoutResults, FinishFailed,
                  ResolutionFailed, ResolveGameResults
    <3> QED
      BY <3>1 DEF RowsInv
  <2>4. CASE \/ ReportArmyStats \/ PlayerLeaves \/ UNCHANGED vars
             \/ \E p \in Players : ProcessGameStats(p)
    <3>1. /\ phase' = phase /\ late' = late /\ persisted' = persisted
          /\ back' = back
      BY <2>4 DEF ReportArmyStats, PlayerLeaves, ProcessGameStats, vars, reportVars,
                  endVars
    <3>2. \A p \in Players : Computed(ArmyOf[p])' = Computed(ArmyOf[p])
      BY <3>1 DEF Computed
    <3> QED
      BY <3>1, <3>2 DEF RowsInv
  <2> QED
    BY <2>1, <2>2, <2>3, <2>4 DEF Next
<1> QED
  BY <1>1, <1>2, ReportsCount, OutcomeCacheCorrect, PTL DEF Spec

\* For any number of players, armies and reports: the published outcome of an
\* army is the one in game_player_stats, unless a report on that army arrived
\* while persist_results waited for the database
THEOREM RowsArePublished == Spec => PersistedIsPublished
<1> DEFINE P == published' # published =>
                  \A p \in Players :
                    \/ ArmyOf[p] \in ToSet(late)
                    \/ persisted[p].result = published'.armies[p].outcome
<1>1. CacheIsFresh /\ RowsInv /\ [Next]_vars => [P]_vars
  <2> SUFFICES ASSUME CacheIsFresh, RowsInv, [Next]_vars,
                      published' # published, NEW p \in Players,
                      ArmyOf[p] \notin ToSet(late)
               PROVE  persisted[p].result = published'.armies[p].outcome
    OBVIOUS
  <2>1. PICK short \in BOOLEAN : ResolveGameResults(short)
    BY DEF Next, vars, endVars, AddResult, ReportArmyStats, ProcessGameStats,
           FinishDesynced, FinishWithoutResults, PersistResults, PlayerLeaves,
           FinishFailed, ResolutionFailed
  <2>2. /\ phase = "persisted"
        /\ published'.armies[p].outcome = Outcome(ArmyOf[p])
    BY <2>1 DEF ResolveGameResults
  <2>3. Outcome(ArmyOf[p]) = Computed(ArmyOf[p])
    BY OutcomeIsComputed DEF Armies
  <2> QED
    BY <2>2, <2>3 DEF RowsInv
<1>2. Spec => [][P]_vars
  BY <1>1, RowsAreFresh, OutcomeCacheCorrect, PTL DEF Spec
<1> QED
  BY <1>2, Zenon DEF PersistedIsPublished

-----------------------------------------------------------------------------
(* What is published as VALID can be rated *)

\* The reports of an army form a finite bag with integer scores
BagsInv ==
    \A a \in Armies :
      /\ IsFiniteSet(DOMAIN back[a])
      /\ \A r \in DOMAIN back[a] : back[a][r] \in Int /\ r.score \in Int

\* A bag of integers stays one when an element is added
LEMMA BagAddCounts ==
    ASSUME NEW B, NEW x, IsFiniteSet(DOMAIN B), \A r \in DOMAIN B : B[r] \in Int
    PROVE  /\ IsFiniteSet(DOMAIN BagAdd(B, x))
           /\ \A r \in DOMAIN BagAdd(B, x) : BagAdd(B, x)[r] \in Int
<1>1. IsFiniteSet(DOMAIN B \cup {x})
  BY FS_AddElement
<1>2. ASSUME NEW r \in DOMAIN B \cup {x}
      PROVE  BagAdd(B, x)[r] \in Int
  <2>1. CASE x \in DOMAIN B
    <3>1. BagAdd(B, x)[r] = IF r = x THEN B[r] + 1 ELSE B[r]
      BY <2>1 DEF BagAdd
    <3>2. r \in DOMAIN B
      BY <2>1
    <3> QED
      BY <3>1, <3>2
  <2>2. CASE x \notin DOMAIN B
    <3>1. BagAdd(B, x)[r] = IF r = x THEN 1 ELSE B[r]
      BY <2>2 DEF BagAdd
    <3> QED
      BY <3>1
  <2> QED
    BY <2>1, <2>2
<1> QED
  BY <1>1, <1>2, BagAddDomain

\* The reports are always such bags
LEMMA BagsStayFinite == Spec => []BagsInv
<1>1. Init => BagsInv
  <2>1. ASSUME NEW a \in Armies, back = [x \in Armies |-> <<>>]
        PROVE  DOMAIN back[a] = {}
    BY <2>1
  <2> QED
    BY <2>1, FS_EmptySet DEF Init, BagsInv
<1>2. ReportsInv /\ BagsInv /\ [Next]_vars => BagsInv'
  <2> SUFFICES ASSUME ReportsInv, BagsInv, [Next]_vars
               PROVE  BagsInv'
    OBVIOUS
  <2>1. ASSUME NEW r \in Reports, AddResult(r), NEW a \in Armies
        PROVE  /\ IsFiniteSet(DOMAIN back'[a])
               /\ \A x \in DOMAIN back'[a] : back'[a][x] \in Int /\ x.score \in Int
    <3>1. /\ DOMAIN back'[r.army] = DOMAIN back[r.army] \cup {r}
          /\ \A c \in Armies \ {r.army} : back'[c] = back[c]
      BY <2>1, AddResultReports
    <3>2. back' = [back EXCEPT ![r.army] = BagAdd(@, r)] /\ r.score \in Int
      BY <2>1, ResultsAssumption DEF AddResult
    <3>3. CASE a = r.army
      <4>1. back'[a] = BagAdd(back[a], r)
        BY <3>2, <3>3 DEF ReportsInv
      <4>2. /\ IsFiniteSet(DOMAIN back'[a])
            /\ \A x \in DOMAIN back'[a] : back'[a][x] \in Int
        BY <4>1, BagAddCounts DEF BagsInv
      <4>3. \A x \in DOMAIN back'[a] : x.score \in Int
        BY <3>1, <3>2, <3>3 DEF BagsInv
      <4> QED
        BY <4>2, <4>3
    <3>4. CASE a # r.army
      BY <3>1, <3>4 DEF BagsInv
    <3> QED
      BY <3>3, <3>4
  <2>2. CASE \E r \in Reports : AddResult(r)
    BY <2>1, <2>2 DEF BagsInv
  <2>3. CASE ~ \E r \in Reports : AddResult(r)
    BY <2>3, OtherStepsKeepReports DEF BagsInv
  <2> QED
    BY <2>2, <2>3
<1> QED
  BY <1>1, <1>2, ReportsCount, PTL DEF Spec

\* How often a value is reported is an integer: the sum over the reports that
\* have it
LEMMA CountIsInteger ==
    ASSUME BagsInv, NEW a \in Armies, NEW f, NEW v
    PROVE  Count(a, f, v) \in Int
<1> DEFINE S == {r \in DOMAIN back[a] : r[f] = v}
<1>1. IsFiniteSet(S) /\ \A r \in S : back[a][r] \in Int
  BY FS_Subset DEF BagsInv
<1>2. Count(a, f, v) = SumOf(back[a], S)
  <2>1. Count(a, f, v) = MapThenSumSet(LAMBDA r : back[a][r], S)
    BY DEF Count
  <2> QED
    BY <2>1, FoldIsSum
<1> HIDE DEF S
<1>3. SumOf(back[a], S) \in Int
  BY <1>1, SumInteger
<1> QED
  BY <1>2, <1>3

\* The score of an army is one that was reported, or 0
LEMMA ScoreIsReported ==
    ASSUME BagsInv, NEW a \in Armies
    PROVE  Score(a) \in Int
<1>1. CASE DOMAIN back[a] = {}
  BY <1>1 DEF Score
<1>2. CASE DOMAIN back[a] # {}
  <2> DEFINE D == DOMAIN back[a]
             R == Reported(a, "score")
             f == [r \in D |-> r.score]
             c == [v \in R |-> Count(a, "score", v)]
             Above == {vw \in R \X R :
                         \/ c[vw[2]] < c[vw[1]]
                         \/ c[vw[2]] = c[vw[1]] /\ vw[2] < vw[1]}
             Best(v) == \A w \in R \ {v} :
                          \/ Count(a, "score", w) < Count(a, "score", v)
                          \/ Count(a, "score", w) = Count(a, "score", v) /\ w < v
  <2>1. R = {r.score : r \in D}
    BY DEF Reported
  <2>2. IsFiniteSet(D) /\ R # {} /\ \A v \in R : v \in Int
    BY <1>2, <2>1 DEF BagsInv
  <2>3. IsFiniteSet(R)
    <3>1. f \in Surjection(D, R)
      BY <2>1 DEF Surjection
    <3> HIDE DEF f, D, R
    <3> QED
      BY <2>2, <3>1, FS_Surjection
  <2>4. \A v \in R : c[v] = Count(a, "score", v) /\ c[v] \in Int
    BY CountIsInteger
  <2> HIDE DEF R, c
  <2>5. PICK v \in R : \A w \in R \ {v} : <<v, w>> \in Above
    <3>1. /\ \A x, y \in R : x # y => <<x, y>> \in Above \/ <<y, x>> \in Above
          /\ \A x \in R : <<x, x>> \notin Above
          /\ \A x, y, z \in R : <<x, y>> \in Above /\ <<y, z>> \in Above
                                  => <<x, z>> \in Above
      BY <2>2, <2>4
    <3> HIDE DEF Above
    <3> QED
      BY <2>2, <2>3, <3>1, GreatestExists
  <2>6. Best(v)
    BY <2>4, <2>5
  <2>7. Score(a) = CHOOSE x \in R : Best(x)
    BY <1>2 DEF Score, R
  <2>8. Score(a) \in R
    <3> HIDE DEF Best
    <3> QED
      BY <2>6, <2>7
  <2> QED
    BY <2>2, <2>8
<1> QED
  BY <1>1, <1>2

\* There are no more teams than players
LEMMA TeamsAreFew ==
    /\ Cardinality(TeamSets) <= Cardinality(Players)
    /\ Cardinality(TeamSets) \in Nat
    /\ TeamSets # {}
    /\ \A t \in TeamSets : t # {} /\ t \subseteq Players
<1> DEFINE f == [t \in TeamSets |-> CHOOSE p \in t : TRUE]
<1>1. \A t \in TeamSets : t # {} /\ t \subseteq Players
  BY DEF TeamSets
<1>2. \A t, u \in TeamSets : \A p \in t \cap u : t = u
  BY DEF TeamSets
<1>3. f \in Injection(TeamSets, Players)
  <2>1. \A t \in TeamSets : f[t] \in t
    BY <1>1
  <2>2. f \in [TeamSets -> Players]
    BY <1>1, <2>1
  <2>3. \A t, u \in TeamSets : f[t] = f[u] => t = u
    BY <1>2, <2>1
  <2> HIDE DEF f
  <2> QED
    BY <2>2, <2>3 DEF Injection, IsInjective
<1>4. IsFiniteSet(Players) /\ Players # {}
  BY ResultsAssumption
<1>5. Cardinality(TeamSets) <= Cardinality(Players)
  <2> HIDE DEF f
  <2> QED
    BY <1>3, <1>4, FS_Injection
<1>6. IsFiniteSet(TeamSets) /\ TeamSets # {}
  BY <1>4, TeamsCover
<1> QED
  BY <1>1, <1>5, <1>6, FS_CardinalityType

\* Of two things, the other one
LEMMA TheOther ==
    ASSUME NEW T, IsFiniteSet(T), Cardinality(T) = 2
    PROVE  \E t, u : t # u /\ T = {t, u}
<1>1. PICK t : t \in T
  BY FS_EmptySet
<1>2. IsFiniteSet(T \ {t}) /\ Cardinality(T \ {t}) = 1
  BY <1>1, FS_RemoveElement
<1>3. PICK u : T \ {t} = {u}
  BY <1>2, FS_Singleton
<1> QED
  BY <1>1, <1>3

\* resolve_game yields outcomes that can be rated, or leaves a team UNKNOWN
LEMMA ResolvedIsRatable ==
    ASSUME NEW T, T # {}, NEW claims
    PROVE  LET o == ResolveGame(T, claims)
           IN  (\A t \in DOMAIN o : o[t] # "UNKNOWN") => Ratable(o)
<1> DEFINE o == ResolveGame(T, claims)
           winners == {t \in T : "VICTORY" \in claims[t]}
<1>1. DOMAIN o = T
  BY DEF ResolveGame, Unresolved
<1>2. SUFFICES ASSUME \A t \in T : o[t] # "UNKNOWN"
               PROVE  Ratable(o)
  BY <1>1
<1>3. o # Unresolved(T)
  BY <1>2 DEF Unresolved
<1>4. Cardinality(T) = 2 /\ winners # T
  BY <1>3 DEF ResolveGame
<1>5. CASE winners # {}
  <2>1. o = [t \in T |-> IF t \in winners THEN "VICTORY" ELSE "DEFEAT"]
    BY <1>4, <1>5 DEF ResolveGame
  <2>2. PICK w, l \in T : w \in winners /\ l \notin winners
    BY <1>4, <1>5
  <2>3. /\ \A t \in T : o[t] \in {"VICTORY", "DEFEAT"}
        /\ o[w] = "VICTORY" /\ o[l] = "DEFEAT"
    BY <2>1, <2>2
  <2> HIDE DEF o
  <2>4. {o[t] : t \in T} = {"VICTORY", "DEFEAT"}
    BY <2>3
  <2> QED
    BY <1>1, <1>4, <2>4 DEF Ratable
<1>6. CASE winners = {}
  <2>1. o = [t \in T |-> "DRAW"]
    BY <1>3, <1>4, <1>6 DEF ResolveGame
  <2>2. \A t \in T : o[t] = "DRAW"
    BY <2>1
  <2> HIDE DEF o
  <2> QED
    BY <1>1, <1>4, <2>2 DEF Ratable
<1> QED
  BY <1>5, <1>6

\* The override ranks the two teams by score, so their outcomes fit together
LEMMA OverriddenIsRatable ==
    ASSUME BagsInv, Overrides, Cardinality(TeamSets) >= 2
    PROVE  Ratable(OverriddenOutcomes(TeamSets))
<1> DEFINE S(t) == Score(ArmyOf[CHOOSE p \in t : TRUE])
           Rank(t, u) == IF S(t) > S(u) THEN "VICTORY"
                         ELSE IF S(t) < S(u) THEN "DEFEAT" ELSE "DRAW"
           o == OverriddenOutcomes(TeamSets)
<1>1. Cardinality(TeamSets) = 2
  <2>1. Cardinality(Players) <= 2 /\ Cardinality(Players) \in Nat
    BY ResultsAssumption, FS_CardinalityType DEF Overrides
  <2> QED
    BY <2>1, TeamsAreFew
<1>2. PICK t, u : t # u /\ TeamSets = {t, u}
  BY <1>1, TeamsCover, TheOther
<1>3. \A x \in TeamSets : S(x) \in Int
  <2> SUFFICES ASSUME NEW x \in TeamSets
               PROVE  S(x) \in Int
    OBVIOUS
  <2>1. (CHOOSE p \in x : TRUE) \in Players
    BY TeamsAreFew
  <2> QED
    BY <2>1, ScoreIsReported DEF Armies
<1>4. o = [x \in TeamSets |-> Rank(x, CHOOSE y \in TeamSets : y # x)]
  BY DEF OverriddenOutcomes
<1> HIDE DEF S
<1>5. /\ DOMAIN o = {t, u}
      /\ o[t] = Rank(t, u)
      /\ o[u] = Rank(u, t)
  <2>1. /\ (CHOOSE y \in TeamSets : y # t) = u
        /\ (CHOOSE y \in TeamSets : y # u) = t
    BY <1>2
  <2> HIDE DEF Rank
  <2> QED
    BY <1>2, <1>4, <2>1
<1>6. PICK m \in Int, n \in Int : m = S(t) /\ n = S(u)
  BY <1>2, <1>3
<1>7. \/ o[t] = "DRAW" /\ o[u] = "DRAW"
      \/ o[t] = "VICTORY" /\ o[u] = "DEFEAT"
      \/ o[t] = "DEFEAT" /\ o[u] = "VICTORY"
  <2>1. CASE m > n
    BY <1>5, <1>6, <2>1
  <2>2. CASE m < n
    BY <1>5, <1>6, <2>2
  <2>3. CASE m = n
    BY <1>5, <1>6, <2>3
  <2> QED
    BY <2>1, <2>2, <2>3
<1> HIDE DEF o
<1>8. {o[x] : x \in DOMAIN o} = {o[t], o[u]}
  BY <1>5
<1>9. Cardinality(DOMAIN o) = 2
  BY <1>1, <1>2, <1>5
<1>10. ASSUME o[t] = "DRAW" /\ o[u] = "DRAW"
       PROVE  Ratable(o)
  <2>1. \A x \in DOMAIN o : o[x] = "DRAW"
    BY <1>5, <1>10
  <2> QED
    BY <1>9, <2>1 DEF Ratable
<1>11. ASSUME ~(o[t] = "DRAW" /\ o[u] = "DRAW")
       PROVE  Ratable(o)
  <2>1. {o[t], o[u]} = {"VICTORY", "DEFEAT"}
    BY <1>7, <1>11
  <2>2. {o[x] : x \in DOMAIN o} = {"VICTORY", "DEFEAT"}
    BY <1>8, <2>1
  <2> QED
    BY <1>9, <2>2 DEF Ratable
<1> QED
  BY <1>10, <1>11 DEF o

\* For any number of players and reports: the team outcomes of a game that is
\* published as VALID are ones the rating service accepts
THEOREM ValidGamesAreRatable == Spec => []ValidIsRatable
<1>1. Init => ValidIsRatable
  BY DEF Init, NoInfo, NotComputed, ValidIsRatable
<1>2. BagsInv /\ ValidIsRatable /\ [Next]_vars => ValidIsRatable'
  <2> SUFFICES ASSUME BagsInv, ValidIsRatable, [Next]_vars
               PROVE  ValidIsRatable'
    OBVIOUS
  <2>1. CASE published' = published
    BY <2>1 DEF ValidIsRatable
  <2>2. CASE published' # published
    <3>1. PICK short \in BOOLEAN : ResolveGameResults(short)
      BY <2>2 DEF Next, vars, endVars, AddResult, ReportArmyStats,
           ProcessGameStats, FinishDesynced, FinishWithoutResults,
           PersistResults, PlayerLeaves, FinishFailed, ResolutionFailed
    <3> DEFINE claims == [t \in TeamSets |-> {Outcome(ArmyOf[p]) : p \in t}]
               o == IF Overrides THEN OverriddenOutcomes(TeamSets)
                    ELSE ResolveGame(TeamSets, claims)
    <3>2. /\ published'.teams = o
          /\ published'.validity = ResolvedValidity(Checked(short), o)
          /\ Overrides => Cardinality(TeamSets) >= 2
      BY <3>1 DEF ResolveGameResults, TeamOutcomes
    <3>3. SUFFICES ASSUME published'.validity = "VALID"
                   PROVE  Ratable(o)
      BY <3>2 DEF ValidIsRatable
    <3>4. \A t \in DOMAIN o : o[t] # "UNKNOWN"
      <4> HIDE DEF o
      <4> QED
        BY <3>2, <3>3 DEF ResolvedValidity
    <3>5. CASE Overrides
      BY <3>2, <3>5, OverriddenIsRatable
    <3>6. CASE ~Overrides
      <4>1. o = ResolveGame(TeamSets, claims)
        BY <3>6
      <4> HIDE DEF o, claims
      <4> QED
        BY <3>4, <4>1, TeamsAreFew, ResolvedIsRatable
    <3> QED
      BY <3>5, <3>6
  <2> QED
    BY <2>1, <2>2
<1> QED
  BY <1>1, <1>2, BagsStayFinite, PTL DEF Spec
=============================================================================

--------------------------- MODULE MatchmakerQueue ---------------------------
(***************************************************************************)
(* Searches as the code keeps them: the registry of LadderService          *)
(* (_searches), Search objects with their futures, the task that puts each *)
(* one into the _queue of its MatchmakerQueue and takes it out again, and  *)
(* the pop loop of every queue, which hands a snapshot to an executor      *)
(* thread and applies the answer later.                                    *)
(*                                                                         *)
(* While the executor computes, players cancel, start again, disconnect,   *)
(* launch other games or are matched in another queue.  The matchmaking    *)
(* algorithm itself is left open: it proposes any disjoint pairs of teams  *)
(* of the right size that can be made of the snapshot.                     *)
(***************************************************************************)
EXTENDS Naturals, FiniteSets, FiniteSetsExt

CONSTANTS Players, Queues, Teams, Gamers,
          TeamSize,  \* of each queue
          Ids,       \* Search objects
          NoSearch, NoQueue

ASSUME QueueAssumption ==
    /\ Teams \subseteq SUBSET Players
    /\ Gamers \subseteq Players
    /\ TeamSize \in [Queues -> Nat \ {0}]
    /\ NoSearch \notin Ids
    /\ NoQueue \notin Queues

VARIABLES
    pstate,     \* Player.state
    registry,   \* _searches: what a player searches in each queue
    obj,        \* the players and the queue of a Search
    fut,        \* Search._match
    task,       \* MatchmakerQueue.search for a Search
    queued,     \* _queue of each MatchmakerQueue
    pop,        \* where the pop loop of each queue stands
    lock,       \* the queue that holds the lock of find_matches
    snapshot,   \* the searches the executor works on
    launching, aborting, online, open

gameVars == <<launching, aborting>>
playerVars == <<gameVars, online, open>>
queueVars == <<queued, pop, lock, snapshot>>
vars == <<pstate, registry, obj, fut, task, queueVars, playerVars>>

TypeOK ==
    /\ pstate \in [Players -> {"IDLE", "SEARCHING_LADDER", "STARTING_AUTOMATCH",
                               "STARTING_GAME"}]
    /\ registry \in [Players -> [Queues -> Ids \cup {NoSearch}]]
    /\ obj \in [Ids -> [queue : Queues \cup {NoQueue}, players : SUBSET Players]]
    /\ fut \in [Ids -> {"none", "pending", "matched", "cancelled"}]
    /\ task \in [Ids -> {"none", "new", "waiting"}]
    /\ queued \in [Queues -> SUBSET Ids]
    /\ pop \in [Queues -> {"timer", "lock", "executor", "stopped"}]
    /\ lock \in Queues \cup {NoQueue}
    /\ snapshot \subseteq Ids
    /\ launching \subseteq Players
    /\ aborting \subseteq Players
    /\ online \subseteq Players
    /\ open \in BOOLEAN

\* A Search that does not exist
NoObject == [queue |-> NoQueue, players |-> {}]

Init ==
    /\ pstate = [p \in Players |-> "IDLE"]
    /\ registry = [p \in Players |-> [q \in Queues |-> NoSearch]]
    /\ obj = [i \in Ids |-> NoObject]
    /\ fut = [i \in Ids |-> "none"]
    /\ task = [i \in Ids |-> "none"]
    /\ queued = [q \in Queues |-> {}]
    /\ pop = [q \in Queues |-> "timer"]
    /\ lock = NoQueue
    /\ snapshot = {}
    /\ launching = {}
    /\ aborting = {}
    /\ online = Players
    /\ open = TRUE

-----------------------------------------------------------------------------
(* The registry *)

Registered == {i \in Ids : \E p \in Players, q \in Queues : registry[p][q] = i}

PlayersOf(S) == UNION {obj[i].players : i \in S}

\* _clear_search, for the searches in C: all players of a search forget it
Cleared(C) ==
    [p \in Players |-> [q \in Queues |->
        IF \E i \in C : obj[i].queue = q /\ p \in obj[i].players
        THEN NoSearch ELSE registry[p][q]]]

\* Mutant: only the player who cancels forgets the search
ClearedFor(C, p) ==
    [registry EXCEPT ![p] = Cleared(C)[p]]

\* Search.cancel; a future that is done stays as it is
CancelledFutures(C) ==
    [i \in Ids |-> IF i \in C /\ fut[i] = "pending" THEN "cancelled" ELSE fut[i]]

\* _cancel_search: players without another search are IDLE again
Released(C, reg) ==
    [p \in Players |->
       IF /\ p \in PlayersOf(C)
          /\ \A q \in Queues : reg[p][q] = NoSearch
          /\ pstate[p] = "SEARCHING_LADDER"
       THEN "IDLE" ELSE pstate[p]]

\* What a player searches in the queues Q
SearchesOf(p, Q) == {registry[p][q] : q \in Q} \ {NoSearch}

\* Mutant: the search is cancelled and stays in the registry
CancelSearchKeep(p, Q) ==
    LET C == SearchesOf(p, Q) IN
    /\ fut' = CancelledFutures(C)
    /\ pstate' = Released(C, Cleared(C))
    /\ UNCHANGED registry

\* cancel_search
CancelSearch(p, Q) ==
    LET C == SearchesOf(p, Q) IN
    /\ registry' = Cleared(C)
    /\ fut' = CancelledFutures(C)
    /\ pstate' = Released(C, Cleared(C))

-----------------------------------------------------------------------------
(* Commands *)

LoopFree(p) == p \in online /\ p \notin launching

\* command_game_matchmaking of the party T, and start_search: searches of these
\* players in this queue are cancelled, a new Search is registered and a task
\* created for it
Search(T, q) ==
    LET C == UNION {SearchesOf(p, {q}) : p \in T} IN
    /\ open
    /\ T \subseteq online
    /\ \E p \in T : LoopFree(p)
    /\ \A p \in T : pstate[p] \in {"IDLE", "SEARCHING_LADDER"}
    /\ Cardinality(T) <= TeamSize[q]
    /\ \E i \in Ids :
         /\ fut[i] = "none"
         /\ obj' = [obj EXCEPT ![i] = [queue |-> q, players |-> T]]
         /\ fut' = [CancelledFutures(C) EXCEPT ![i] = "pending"]
         /\ task' = [task EXCEPT ![i] = "new"]
         /\ registry' = [p \in Players |->
                           IF p \in T THEN [Cleared(C)[p] EXCEPT ![q] = i]
                           ELSE Cleared(C)[p]]
    /\ pstate' = [p \in Players |->
                    IF p \in T THEN "SEARCHING_LADDER"
                    ELSE Released(C, Cleared(C))[p]]
    /\ UNCHANGED <<queueVars, playerVars>>

\* command_game_matchmaking with state "stop"
StopSearch(p, q) ==
    /\ LoopFree(p)
    /\ CancelSearch(p, {q})
    /\ UNCHANGED <<obj, task, queueVars, playerVars>>

\* command_game_host and command_game_join of an idle player ...
CommandGame(p) ==
    /\ p \in Gamers
    /\ LoopFree(p)
    /\ pstate[p] = "IDLE"
    /\ launching' = launching \cup {p}
    /\ UNCHANGED <<pstate, registry, obj, fut, task, queueVars, aborting,
                   online, open>>

\* ... and what follows the database calls
LaunchGame(p) ==
    /\ p \in launching
    /\ launching' = launching \ {p}
    /\ \/ pstate[p] = "IDLE" /\ pstate' = [pstate EXCEPT ![p] = "STARTING_GAME"]
       \/ UNCHANGED pstate
    /\ UNCHANGED <<registry, obj, fut, task, queueVars, aborting, online, open>>

\* GameConnection.abort
LeaveGame(p) ==
    /\ pstate[p] \in {"STARTING_AUTOMATCH", "STARTING_GAME"}
    /\ pstate' = [pstate EXCEPT ![p] = "IDLE"]
    /\ UNCHANGED <<registry, obj, fut, task, queueVars, playerVars>>

\* A second abort of the same connection that waits for slow peers ...
AbortWaits(p) ==
    /\ p \in Gamers
    /\ pstate[p] \in {"STARTING_AUTOMATCH", "STARTING_GAME"}
    /\ aborting' = aborting \cup {p}
    /\ UNCHANGED <<pstate, registry, obj, fut, task, queueVars, launching,
                   online, open>>

\* ... and resets the player
AbortDone(p) ==
    /\ p \in aborting
    /\ aborting' = aborting \ {p}
    /\ pstate' = [pstate EXCEPT ![p] = "IDLE"]
    /\ UNCHANGED <<registry, obj, fut, task, queueVars, launching, online, open>>

\* on_connection_lost
Disconnect(p) ==
    /\ LoopFree(p)
    /\ online' = online \ {p}
    /\ CancelSearch(p, Queues)
    /\ UNCHANGED <<obj, task, queueVars, gameVars, open>>

\* Mutant: graceful_shutdown stops the queues and leaves the searches
ShutdownQueuesOnly ==
    /\ open
    /\ open' = FALSE
    /\ pop' = [q \in Queues |-> IF pop[q] = "timer" THEN "stopped" ELSE pop[q]]
    /\ UNCHANGED <<registry, fut, pstate, obj, task, queued, lock, snapshot,
                   gameVars, online>>

\* graceful_shutdown: the pop loops stop, all searches are cancelled
Shutdown ==
    /\ open
    /\ open' = FALSE
    /\ pop' = [q \in Queues |-> IF pop[q] = "timer" THEN "stopped" ELSE pop[q]]
    /\ registry' = Cleared(Registered)
    /\ fut' = CancelledFutures(Registered)
    /\ pstate' = Released(Registered, Cleared(Registered))
    /\ UNCHANGED <<obj, task, queued, lock, snapshot, gameVars, online>>

-----------------------------------------------------------------------------
(* MatchmakerQueue.search, one task for each Search.  A Search that neither *)
(* its task nor the executor refers to any more is dropped.                 *)

Drop(S) ==
    /\ obj' = [i \in Ids |-> IF i \in S THEN NoObject ELSE obj[i]]
    /\ fut' = [i \in Ids |-> IF i \in S THEN "none" ELSE fut[i]]

\* The task starts: push, and await_match if the search is not over already
TaskStarts(i) ==
    LET q == obj[i].queue IN
    /\ task[i] = "new"
    /\ IF fut[i] = "pending"
       THEN /\ task' = [task EXCEPT ![i] = "waiting"]
            /\ queued' = [queued EXCEPT ![q] = @ \cup {i}]
            /\ UNCHANGED <<obj, fut>>
       ELSE /\ task' = [task EXCEPT ![i] = "none"]
            /\ Drop({i} \ snapshot)
            /\ UNCHANGED queued
    /\ UNCHANGED <<pstate, registry, pop, lock, snapshot, playerVars>>

\* Mutant: a search that is over stays in the queue
TaskEndsQueued(i) ==
    /\ task[i] = "waiting"
    /\ fut[i] # "pending"
    /\ task' = [task EXCEPT ![i] = "none"]
    /\ Drop({i} \ snapshot)
    /\ UNCHANGED <<pstate, registry, queueVars, playerVars>>

\* await_match returns or raises CancelledError
TaskEnds(i) ==
    LET q == obj[i].queue IN
    /\ task[i] = "waiting"
    /\ fut[i] # "pending"
    /\ task' = [task EXCEPT ![i] = "none"]
    /\ queued' = [queued EXCEPT ![q] = @ \ {i}]
    /\ Drop({i} \ snapshot)
    /\ UNCHANGED <<pstate, registry, pop, lock, snapshot, playerVars>>

-----------------------------------------------------------------------------
(* queue_pop_timer and find_matches *)

\* next_pop returns; find_matches waits for the lock.  The timer takes seconds
\* (QUEUE_POP_TIME_MIN), so the tasks that the last matches woke up have run.
NextPop(q) ==
    /\ pop[q] = "timer"
    /\ \A i \in queued[q] : fut[i] # "matched"
    /\ pop' = [pop EXCEPT ![q] = "lock"]
    /\ UNCHANGED <<pstate, registry, obj, fut, task, queued, lock, snapshot,
                   playerVars>>

\* The loop goes on unless the queue was shut down
Loop(q) == [pop EXCEPT ![q] = IF open THEN "timer" ELSE "stopped"]

NumPlayers(S) == MapThenSumSet(LAMBDA i : Cardinality(obj[i].players), S)

\* The lock is free.  With enough players the executor starts.
FindMatches(q) ==
    /\ pop[q] = "lock"
    /\ lock = NoQueue
    /\ IF NumPlayers(queued[q]) < 2 * TeamSize[q]
       THEN pop' = Loop(q) /\ UNCHANGED <<lock, snapshot>>
       ELSE /\ pop' = [pop EXCEPT ![q] = "executor"]
            /\ lock' = q
            /\ snapshot' = queued[q]
    /\ UNCHANGED <<pstate, registry, obj, fut, task, queued, playerVars>>

\* What the algorithm may propose: pairs of teams made of the snapshot ...
Proposals(q) ==
    {M \in SUBSET {A \in SUBSET snapshot : NumPlayers(A) = TeamSize[q]} :
        Cardinality(M) = 2 /\ \A A, B \in M : A # B => A \cap B = {}}

\* ... no search twice
Disjoint(Ms) == \A M, N \in Ms : M # N => (UNION M) \cap (UNION N) = {}

\* Mutant: cancelled searches are matched
MatchesCancelled(M) ==
    /\ \A A \in M : ~\A i \in A : fut[i] = "matched"
    /\ \A p \in PlayersOf(UNION M) : pstate[p] = "SEARCHING_LADDER"

\* MatchmakerQueue.match for two searches, combined ones included
Matches(M) ==
    /\ \A A \in M : ~\A i \in A : fut[i] = "matched"
    /\ \A i \in UNION M : fut[i] # "cancelled"
    /\ \A p \in PlayersOf(UNION M) : pstate[p] = "SEARCHING_LADDER"

\* The executor is done: match for every proposal, then on_match_found for the
\* searches S of those that passed, which cancels what their players search in
\* other queues; the lock is released.  In a queue for teams the two searches
\* are CombinedSearches, which are not in _queue themselves.
ApplyMatches(q, Ms) ==
    LET S == UNION {UNION M : M \in {N \in Ms : Matches(N)}}
        C == (UNION {SearchesOf(p, Queues) : p \in PlayersOf(S)}) \ S
        D == {i \in snapshot : task[i] = "none"}
    IN
    /\ obj' = [i \in Ids |-> IF i \in D THEN NoObject ELSE obj[i]]
    /\ fut' = [i \in Ids |-> IF i \in D THEN "none"
                            ELSE IF i \in S THEN "matched"
                            ELSE CancelledFutures(C)[i]]
    /\ queued' = [queued EXCEPT ![q] = IF TeamSize[q] = 1 THEN @ \ S ELSE @]
    /\ registry' = Cleared(C \cup S)
    /\ pstate' = [p \in Players |->
                    IF p \in PlayersOf(S) THEN "STARTING_AUTOMATCH"
                    ELSE Released(C, Cleared(C \cup S))[p]]
    /\ pop' = Loop(q)
    /\ lock' = NoQueue
    /\ snapshot' = {}
    /\ UNCHANGED <<task, playerVars>>

ExecutorDone(q) ==
    /\ pop[q] = "executor"
    /\ \E Ms \in SUBSET Proposals(q) : Disjoint(Ms) /\ ApplyMatches(q, Ms)

-----------------------------------------------------------------------------
Next ==
    \/ \E T \in Teams, q \in Queues : Search(T, q)
    \/ \E p \in Players, q \in Queues : StopSearch(p, q)
    \/ \E p \in Players :
         \/ CommandGame(p) \/ LaunchGame(p) \/ LeaveGame(p)
         \/ AbortWaits(p) \/ AbortDone(p) \/ Disconnect(p)
    \/ Shutdown
    \/ \E i \in Ids : TaskStarts(i) \/ TaskEnds(i)
    \/ \E q \in Queues : NextPop(q) \/ FindMatches(q) \/ ExecutorDone(q)

\* The loop runs the tasks, timers fire and the executor answers
Fairness ==
    /\ \A i \in Ids : WF_vars(TaskStarts(i) \/ TaskEnds(i))
    /\ \A q \in Queues : /\ WF_vars(NextPop(q) \/ ExecutorDone(q))
                         /\ SF_vars(FindMatches(q))

Spec == Init /\ [][Next]_vars

FairSpec == Spec /\ Fairness

-----------------------------------------------------------------------------
(* Properties *)

\* A search is registered exactly as long as it can still be matched.  No
\* search is lost between the registry, its task, the queue and the snapshot
\* of the executor, so each of its players can cancel it; and match gives
\* every Search at most one result: a second set_result would raise
\* InvalidStateError in the middle of find_matches and lose other matches.
RegisteredIsPending ==
    \A i \in Ids : i \in Registered <=> fut[i] = "pending"

\* After graceful_shutdown no match is made, not even one that the executor
\* was already working on.
NoMatchAfterShutdown ==
    [][~open => \A p \in Players : pstate'[p] = "STARTING_AUTOMATCH"
                                    => pstate[p] = "STARTING_AUTOMATCH"]_vars

\* What LadderService promises: searches start, end and are matched in one
\* step each, and only searches that stand at that moment are matched.
Ladder == INSTANCE LadderSearch WITH
    searches <- {obj[i] : i \in Registered}

LadderSpec == Ladder!SearchSpec

\* A search that is over leaves the queue, and with it the number of players
\* that the clients are shown.
DoneLeavesQueue ==
    \A i \in Ids : fut[i] \in {"matched", "cancelled"}
        ~> \A q \in Queues : i \notin queued[q] \/ fut[i] = "pending"
=============================================================================

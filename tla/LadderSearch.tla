----------------------------- MODULE LadderSearch -----------------------------
(***************************************************************************)
(* What LadderService promises about searches, one atomic step for each    *)
(* call (server/ladder_service/ladder_service.py): who is looking for a    *)
(* match in which queue, and the state of the players that goes with it.   *)
(*                                                                         *)
(* A search is a set of players and a queue; _searches[p][q] is the search *)
(* of queue q that p is part of.  The module is used in two ways: the      *)
(* parties start and cancel these searches (PartyService), and the         *)
(* queues with their futures, tasks and the executor implement them        *)
(* (MatchmakerQueue).                                                      *)
(***************************************************************************)
EXTENDS Naturals, FiniteSets

CONSTANTS Players,   \* signed-in players
          Queues,    \* matchmaker queues
          Teams,     \* the sets of players who may queue together
          Gamers     \* players who also host, join and leave other games

ASSUME SearchAssumption ==
    /\ Teams \subseteq SUBSET Players
    /\ Gamers \subseteq Players

VARIABLES
    pstate,     \* Player.state
    searches,   \* _searches
    launching,  \* players whose command_game_join or _host waits for the database
    aborting,   \* players with a GameConnection.abort that waits for slow peers
    online,     \* players with a lobby connection
    open        \* _allow_new_searches

gameVars == <<launching, aborting>>
searchVars == <<pstate, searches, gameVars, online, open>>

PlayerStates == {"IDLE", "SEARCHING_LADDER", "STARTING_AUTOMATCH",
                 "STARTING_GAME"}

Searches == [queue : Queues, players : SUBSET Players]

SearchTypeOK ==
    /\ pstate \in [Players -> PlayerStates]
    /\ searches \subseteq Searches
    /\ launching \subseteq Players
    /\ aborting \subseteq Players
    /\ online \subseteq Players
    /\ open \in BOOLEAN

SearchInit ==
    /\ pstate = [p \in Players |-> "IDLE"]
    /\ searches = {}
    /\ launching = {}
    /\ aborting = {}
    /\ online = Players
    /\ open = TRUE

-----------------------------------------------------------------------------

PlayersOf(S) == UNION {s.players : s \in S}

\* _cancel_search: the searches in C are gone, and their players are IDLE
\* again unless they take part in another one
Cancelled(C) ==
    [p \in Players |->
       IF /\ p \in PlayersOf(C)
          /\ p \notin PlayersOf(searches \ C)
          /\ pstate[p] = "SEARCHING_LADDER"
       THEN "IDLE"
       ELSE pstate[p]]

\* start_search: whatever the players search in this queue is cancelled first
StartSearch(T, q) ==
    LET C == {s \in searches : s.queue = q /\ s.players \cap T # {}} IN
    /\ open
    /\ searches' = (searches \ C) \cup {[queue |-> q, players |-> T]}
    /\ pstate' = [p \in Players |->
                    IF p \in T THEN "SEARCHING_LADDER" ELSE Cancelled(C)[p]]

\* Mutant: only the player who cancels is released
CancelSearchInitiator(p, Q) ==
    LET C == {s \in searches : s.queue \in Q /\ p \in s.players} IN
    /\ searches' = searches \ C
    /\ pstate' = [pstate EXCEPT ![p] = Cancelled(C)[p]]

\* cancel_search of one player, in the queues Q
CancelSearch(p, Q) ==
    LET C == {s \in searches : s.queue \in Q /\ p \in s.players} IN
    /\ searches' = searches \ C
    /\ pstate' = Cancelled(C)

\* on_match_found: the players of the matched searches M start a game and give
\* up everything else
MatchFound(M) ==
    LET C == {s \in searches : s.players \cap PlayersOf(M) # {}} IN
    /\ searches' = searches \ C
    /\ pstate' = [p \in Players |->
                    IF p \in PlayersOf(M) THEN "STARTING_AUTOMATCH"
                    ELSE Cancelled(C)[p]]

\* The searches that MatchmakerQueue.match lets pass
Matchable(M) ==
    /\ M # {}
    /\ M \subseteq searches
    /\ \A s, x \in M : s.queue = x.queue
    /\ \A p \in PlayersOf(M) : pstate[p] = "SEARCHING_LADDER"

-----------------------------------------------------------------------------
(* The handlers of a player's connection that set Player.state *)

\* The read loop handles one message at a time
LoopFree(p) == p \in online /\ p \notin launching

\* command_game_matchmaking of the owner of the party T
Search(T, q) ==
    /\ T \subseteq online
    /\ \E p \in T : LoopFree(p)
    /\ \A p \in T : pstate[p] \in {"IDLE", "SEARCHING_LADDER"}
    /\ StartSearch(T, q)
    /\ UNCHANGED <<gameVars, online, open>>

\* command_game_matchmaking with state "stop"
StopSearch(p, q) ==
    /\ LoopFree(p)
    /\ CancelSearch(p, {q})
    /\ UNCHANGED <<gameVars, online, open>>

\* find_matches
Match(M) ==
    /\ Matchable(M)
    /\ MatchFound(M)
    /\ UNCHANGED <<gameVars, online, open>>

\* command_game_host and command_game_join: an idle player waits for the
\* database ...
CommandGame(p) ==
    /\ p \in Gamers
    /\ LoopFree(p)
    /\ pstate[p] = "IDLE"
    /\ launching' = launching \cup {p}
    /\ UNCHANGED <<pstate, searches, aborting, online, open>>

\* ... and is then sent into the game, or not.  Meanwhile the owner of its
\* party may have queued it: _prepare_launch_game fails for a player who is
\* searching, and one who was matched keeps its state.
LaunchGame(p) ==
    /\ p \in launching
    /\ launching' = launching \ {p}
    /\ \/ pstate[p] = "IDLE" /\ pstate' = [pstate EXCEPT ![p] = "STARTING_GAME"]
       \/ UNCHANGED pstate
    /\ UNCHANGED <<searches, aborting, online, open>>

\* GameConnection.abort, when nothing makes it wait
LeaveGame(p) ==
    /\ pstate[p] \in {"STARTING_AUTOMATCH", "STARTING_GAME"}
    /\ pstate' = [pstate EXCEPT ![p] = "IDLE"]
    /\ UNCHANGED <<searches, gameVars, online, open>>

\* GameConnection.abort, called by the timeout of the connection, finds it not
\* ENDED and waits for disconnect_all_peers ...
AbortWaits(p) ==
    /\ p \in Gamers
    /\ pstate[p] \in {"STARTING_AUTOMATCH", "STARTING_GAME"}
    /\ aborting' = aborting \cup {p}
    /\ UNCHANGED <<pstate, searches, launching, online, open>>

\* ... and resets the player, whatever another abort and the player did since
AbortDone(p) ==
    /\ p \in aborting
    /\ aborting' = aborting \ {p}
    /\ pstate' = [pstate EXCEPT ![p] = "IDLE"]
    /\ UNCHANGED <<searches, launching, online, open>>

\* on_connection_lost
Disconnect(p) ==
    /\ LoopFree(p)
    /\ online' = online \ {p}
    /\ CancelSearch(p, Queues)
    /\ UNCHANGED <<gameVars, open>>

\* graceful_shutdown
Close ==
    /\ open
    /\ open' = FALSE
    /\ searches' = {}
    /\ pstate' = Cancelled(searches)
    /\ UNCHANGED <<gameVars, online>>

SearchNext ==
    \/ \E T \in Teams, q \in Queues : Search(T, q)
    \/ \E p \in Players, q \in Queues : StopSearch(p, q)
    \/ \E M \in SUBSET searches : Match(M)
    \/ \E p \in Players :
         \/ CommandGame(p) \/ LaunchGame(p) \/ LeaveGame(p)
         \/ AbortWaits(p) \/ AbortDone(p) \/ Disconnect(p)
    \/ Close

SearchSpec == SearchInit /\ [][SearchNext]_searchVars

-----------------------------------------------------------------------------
(* Properties *)

\* A player takes part in at most one search of a queue, although start_search
\* replaces searches that other players share: _searches[p][q] is never
\* overwritten while somebody else still refers to the old search.
OneSearchPerQueue ==
    \A s, x \in searches :
        s.queue = x.queue /\ s.players \cap x.players # {} => s = x

\* A player who counts as searching is in some queue: no cancellation, match
\* or disconnect of another player leaves anybody waiting for a match that
\* cannot come.
SearchersAreQueued ==
    \A p \in Players : pstate[p] = "SEARCHING_LADDER" => p \in PlayersOf(searches)
=============================================================================

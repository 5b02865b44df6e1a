---------------------------- MODULE GameLifecycle ----------------------------
(***************************************************************************)
(* One game (server/games/game.py, CustomGame) and the GameConnections     *)
(* attached to it (server/gameconnection.py), as driven by the lobby       *)
(* connections, the timers and the dirty report.                           *)
(*                                                                         *)
(* The server is one asyncio event loop.  A coroutine runs until it awaits *)
(* something that is not ready; nothing else runs in between.  A task is a *)
(* pair <<session, kind>>: "msg" is the read loop of the lobby connection, *)
(* "tmo" the setup timeout of the GameConnection, "kick" an abort that a   *)
(* second login or an administrator starts.  pc holds where each task      *)
(* stands, running the task that is in the middle of a synchronous         *)
(* stretch: while it is not empty only that task may move, so the labels   *)
(* inside a stretch do not add interleavings the loop does not have.       *)
(*                                                                         *)
(* A session is one login: a LobbyConnection, its Player object and at     *)
(* most one GameConnection.  Two sessions of one player are two Player     *)
(* objects with the same id; they do not compare equal, so _connections    *)
(* may hold both, and only the login that hosted the game is game.host.    *)
(***************************************************************************)
EXTENDS Naturals, FiniteSets

CONSTANTS Sessions,     \* logins, over the life of the game
          Players,      \* player ids
          PlayerOf,     \* whose login a session is
          HostSession,  \* the login that hosted the game
          Late,         \* bound: sessions with messages under way at an abort
          MaxPublished, \* bound on published
          MaxFaults     \* bound on faults

ASSUME LifecycleAssumption ==
    /\ PlayerOf \in [Sessions -> Players]
    /\ HostSession \in Sessions
    /\ Late \subseteq Sessions
    /\ MaxPublished \in Nat \ {0, 1}
    /\ MaxFaults \in Nat

VARIABLES
    (* Game *)
    gstate,      \* Game.state
    finished,    \* Game.finished
    conns,       \* _connections
    launched,    \* _players_at_launch
    finishLock,  \* the task that holds _finish_lock, if any
    (* GameService *)
    registered,  \* the game is in GameService._games
    dirty,       \* the game is in GameService._dirty_games
    (* Sessions *)
    link,        \* the lobby connection
    cstate,      \* GameConnection._state, "NONE" when there is no object
    attached,    \* player.game_connection and lobby_connection.game_connection
    pstate,      \* Player.state
    fa,          \* the game process: what it reported last
    simDone,     \* GameConnection.finished_sim
    (* Tasks *)
    pc, ret, running,
    (* History *)
    faults,      \* transports that failed and kicks
    published    \* how often publish_game_results ran for this game

gameVars == <<gstate, finished, conns, launched, finishLock>>
serviceVars == <<registered, dirty>>
sessionVars == <<link, cstate, attached, pstate, fa, simDone>>
taskVars == <<pc, ret, running>>
history == <<faults, published>>
vars == <<gameVars, serviceVars, sessionVars, taskVars, history>>

GameStates == {"INITIALIZING", "LOBBY", "LIVE", "ENDED"}
ConnStates == {"NONE", "INITIALIZING", "INITIALIZED", "CONNECTED_TO_HOST",
               "ENDED"}
PlayerStates == {"IDLE", "STARTING_GAME", "HOSTING", "JOINING", "PLAYING"}
Links == {"none", "login", "up", "kicked", "closing", "down", "gone"}
Tasks == Sessions \X {"msg", "tmo", "kick"}
Suspended == {"rest", "joining", "sendHost", "sendJoin", "sendPeer", "peering",
              "launching", "kickSend", "kick", "peers", "simEnd", "lock",
              "results"}
Labels == Suspended \cup {"abort", "end", "check", "finish", "tail"}

TypeOK ==
    /\ gstate \in GameStates
    /\ finished \in BOOLEAN
    /\ conns \subseteq Sessions
    /\ launched \subseteq Sessions
    /\ finishLock \subseteq Tasks
    /\ registered \in BOOLEAN
    /\ dirty \in BOOLEAN
    /\ link \in [Sessions -> Links]
    /\ cstate \in [Sessions -> ConnStates]
    /\ attached \in [Sessions -> BOOLEAN]
    /\ pstate \in [Sessions -> PlayerStates]
    /\ fa \in [Sessions -> {"off", "idle", "ready", "closed"}]
    /\ simDone \in [Sessions -> BOOLEAN]
    /\ pc \in [Tasks -> Labels]
    /\ ret \in [Tasks -> {"rest", "abort", "tail"}]
    /\ running \subseteq Tasks
    /\ faults \in 0..MaxFaults
    /\ published \in 0..MaxPublished

-----------------------------------------------------------------------------
(* The state after command_game_host: create_game put the game into the    *)
(* service and _prepare_launch_game gave the host its GameConnection.      *)

Init ==
    /\ gstate = "INITIALIZING"
    /\ finished = FALSE
    /\ conns = {}
    /\ launched = {}
    /\ finishLock = {}
    /\ registered = TRUE
    /\ dirty = TRUE
    /\ link \in {l \in [Sessions -> {"none", "up"}] :
                   /\ l[HostSession] = "up"
                   /\ \A p \in Players : \A s, x \in Sessions :
                        /\ PlayerOf[s] = p
                        /\ PlayerOf[x] = p
                        /\ l[s] = "up"
                        /\ l[x] = "up"
                        => s = x}
    /\ cstate = [s \in Sessions |->
                   IF s = HostSession THEN "INITIALIZING" ELSE "NONE"]
    /\ attached = [s \in Sessions |-> s = HostSession]
    /\ pstate = [s \in Sessions |->
                   IF s = HostSession THEN "STARTING_GAME" ELSE "IDLE"]
    /\ fa = [s \in Sessions |-> "off"]
    /\ simDone = [s \in Sessions |-> FALSE]
    /\ pc = [t \in Tasks |-> "rest"]
    /\ ret = [t \in Tasks |-> "rest"]
    /\ running = {}
    /\ faults = 0
    /\ published = 0
-----------------------------------------------------------------------------
(* Scheduling *)

At(t, l) == pc[t] = l /\ running \subseteq {t}

\* t goes on at l without giving up the loop
Goto(t, l) ==
    /\ pc' = [pc EXCEPT ![t] = l]
    /\ running' = {t}

\* t awaits at l, or ends when l is "rest"
Await(t, l) ==
    /\ pc' = [pc EXCEPT ![t] = l]
    /\ running' = {}

\* t calls l and goes on at r when it returns
Call(t, l, r) ==
    /\ Goto(t, l)
    /\ ret' = [ret EXCEPT ![t] = r]

Loop(s) == <<s, "msg">>
LoopFree(s) == At(Loop(s), "rest")

\* A message of the game process reaches handle_action; ensure_authenticated lets
\* none pass once the link is kicked
GameMessage(s) == LoopFree(s) /\ link[s] = "up" /\ attached[s]

-----------------------------------------------------------------------------
(* Helpers of Game *)

SamePlayer(s, x) == PlayerOf[s] = PlayerOf[x]

CanAdd == gstate \in {"LOBBY", "LIVE"}

PlayerIds(S) == {PlayerOf[s] : s \in S}

-----------------------------------------------------------------------------
(* Lobby connections: logins, lost transports, joining and reconnecting *)

\* on_player_login: a session of the same player that is signed in gets an
\* abort task.  A player signs in from one place at a time.
Login(s) ==
    /\ running = {}
    /\ link[s] = "none"
    /\ \A x \in Sessions : SamePlayer(x, s) => link[x] # "login"
    /\ link' = [link EXCEPT ![s] = "login"]
    /\ pc' = [t \in Tasks |->
                IF /\ t[2] = "kick"
                   /\ SamePlayer(t[1], s)
                   /\ link[t[1]] = "up"
                THEN "kick" ELSE pc[t]]
    /\ UNCHANGED <<gameVars, serviceVars, cstate, attached, pstate, fa, simDone,
                   ret, running, history>>

\* The database calls of the login return.  The abort tasks were scheduled
\* before them, so they have started.
LoginDone(s) ==
    /\ running = {}
    /\ link[s] = "login"
    /\ \A x \in Sessions : SamePlayer(x, s) => pc[<<x, "kick">>] # "kick"
    /\ link' = [link EXCEPT ![s] = "up"]
    /\ UNCHANGED <<gameVars, serviceVars, cstate, attached, pstate, fa, simDone,
                   taskVars, history>>

\* LobbyConnection.abort starts: no more messages are dispatched, then the
\* GameConnection is aborted and the transport closed.
Kick(s) ==
    LET t == <<s, "kick">> IN
    /\ At(t, "kick")
    /\ IF attached[s]
       THEN /\ link' = [link EXCEPT ![s] = IF @ = "up" THEN "kicked" ELSE @]
            /\ Goto(t, "abort")
       ELSE /\ link' = [link EXCEPT ![s] = IF @ = "up" THEN "down" ELSE @]
            /\ Await(t, "rest")
    /\ UNCHANGED <<gameVars, serviceVars, cstate, attached, pstate, fa, simDone,
                   ret, history>>

\* An administrator closes the lobby of the player (command_admin): kick sends
\* a notice
AdminKick(s) ==
    /\ running = {}
    /\ link[s] = "up"
    /\ pc[<<s, "kick">>] = "rest"
    /\ faults < MaxFaults
    /\ faults' = faults + 1
    /\ pc' = [pc EXCEPT ![<<s, "kick">>] = "kickSend"]
    /\ UNCHANGED <<gameVars, serviceVars, sessionVars, ret, running, published>>

\* kick goes on with LobbyConnection.abort unless the notice could not be sent
KickSent(s) ==
    LET t == <<s, "kick">> IN
    /\ At(t, "kickSend")
    /\ IF link[s] \in {"down", "gone"} THEN Await(t, "rest") ELSE Goto(t, "kick")
    /\ UNCHANGED <<gameVars, serviceVars, sessionVars, ret, history>>

\* Another message arrives while an abort of the connection is under way: the read
\* loop calls LobbyConnection.abort a second time (ensure_authenticated)
UnauthenticatedMessage(s) ==
    /\ LoopFree(s)
    /\ s \in Late
    /\ link[s] = "kicked"
    /\ IF attached[s]
       THEN /\ link' = [link EXCEPT ![s] = "closing"]
            /\ Goto(Loop(s), "abort")
       ELSE /\ link' = [link EXCEPT ![s] = "down"]
            /\ Await(Loop(s), "rest")
    /\ UNCHANGED <<gameVars, serviceVars, cstate, attached, pstate, fa, simDone,
                   ret, history>>

\* The transport fails.
LinkDown(s) ==
    /\ running = {}
    /\ link[s] \in {"up", "kicked", "closing"}
    /\ faults < MaxFaults
    /\ faults' = faults + 1
    /\ link' = [link EXCEPT ![s] = "down"]
    /\ UNCHANGED <<gameVars, serviceVars, cstate, attached, pstate, fa, simDone,
                   taskVars, published>>

\* Mutant: a lost connection is removed from the game and not aborted
ConnectionLostNoAbort(s) ==
    /\ link' = [link EXCEPT ![s] = "gone"]
    /\ IF attached[s] /\ s \in conns
       THEN conns' = conns \ {s} /\ Call(Loop(s), "check", "rest")
       ELSE Await(Loop(s), "rest") /\ UNCHANGED <<conns, ret>>
    /\ UNCHANGED <<gstate, finished, launched, finishLock, serviceVars,
                   cstate, attached, pstate, fa, simDone, history>>

\* handle_client_connected leaves its loop: LobbyConnection.on_connection_lost
\* and, with a GameConnection, its on_connection_lost, which removes the
\* connection from the game and then aborts.
ConnectionLost(s) ==
    /\ link' = [link EXCEPT ![s] = "gone"]
    /\ IF ~attached[s]
       THEN Await(Loop(s), "rest") /\ UNCHANGED <<conns, ret>>
       ELSE IF s \in conns
       THEN conns' = conns \ {s} /\ Call(Loop(s), "check", "abort")
       ELSE Goto(Loop(s), "abort") /\ UNCHANGED <<conns, ret>>
    /\ UNCHANGED <<gstate, finished, launched, finishLock, serviceVars,
                   cstate, attached, pstate, fa, simDone, history>>

\* read_message, or a send of the handler that runs, finds the own transport
\* closed.
LoopEnds(s) ==
    /\ link[s] = "down"
    /\ \E l \in {"rest", "sendHost", "sendJoin", "sendPeer", "peering"} :
         At(Loop(s), l)
    /\ ConnectionLost(s)

HostUnreachable == link[HostSession] \in {"down", "gone"}

\* connect_to_host does not catch the DisconnectedError of the host's
\* connection, and the joining player's loop ends.
LoopEndsWithHost(s) ==
    /\ \E l \in {"sendJoin", "sendPeer"} : At(Loop(s), l)
    /\ HostUnreachable
    /\ ConnectionLost(s)

\* command_game_join of an idle player waits for the database: the ban check
\* and the join log
CommandGameJoin(s) ==
    /\ LoopFree(s)
    /\ link[s] = "up"
    /\ cstate[s] = "NONE"
    /\ pstate[s] = "IDLE"
    /\ Await(Loop(s), "joining")
    /\ UNCHANGED <<gameVars, serviceVars, sessionVars, ret, history>>

\* The rest of command_game_join, with what launch_game and
\* _prepare_launch_game set up.  It does not ask whether the client is still
\* there.
JoinGame(s) ==
    /\ At(Loop(s), "joining")
    /\ Await(Loop(s), "rest")
    /\ IF registered /\ gstate = "LOBBY"
       THEN /\ cstate' = [cstate EXCEPT ![s] = "INITIALIZING"]
            /\ attached' = [attached EXCEPT ![s] = TRUE]
            /\ pstate' = [pstate EXCEPT ![s] = "STARTING_GAME"]
       ELSE UNCHANGED <<cstate, attached, pstate>>
    /\ UNCHANGED <<gameVars, serviceVars, link, fa, simDone, ret, history>>

\* command_restore_game_session
RestoreGameSession(s) ==
    /\ LoopFree(s)
    /\ link[s] = "up"
    /\ cstate[s] = "NONE"
    /\ pstate[s] = "IDLE"
    /\ registered
    /\ CanAdd
    /\ gstate = "LIVE" => PlayerOf[s] \in PlayerIds(launched)
    /\ cstate' = [cstate EXCEPT ![s] = "CONNECTED_TO_HOST"]
    /\ attached' = [attached EXCEPT ![s] = TRUE]
    /\ pstate' = [pstate EXCEPT ![s] = "PLAYING"]
    /\ fa' = [fa EXCEPT ![s] = "ready"]
    /\ conns' = conns \cup {s}
    /\ UNCHANGED <<gstate, finished, launched, finishLock, serviceVars,
                   link, simDone, taskVars, history>>

-----------------------------------------------------------------------------
(* Messages of the game process.  It reports "Idle", then "Lobby", and in   *)
(* the end "Ended", once each; fa is that order, everything else about it   *)
(* is left open.                                                            *)

\* _handle_idle_state
HandleIdle(s) ==
    /\ GameMessage(s)
    /\ fa[s] = "off"
    /\ fa' = [fa EXCEPT ![s] = "idle"]
    /\ IF s = HostSession
       THEN /\ gstate' = "LOBBY"
            /\ cstate' = [cstate EXCEPT ![s] = "CONNECTED_TO_HOST"]
            /\ conns' = conns \cup {s}
            /\ pstate' = [pstate EXCEPT ![s] = "HOSTING"]
       ELSE /\ cstate' = [cstate EXCEPT ![s] = "INITIALIZED"]
            /\ pstate' = [pstate EXCEPT ![s] = "JOINING"]
            /\ UNCHANGED <<gstate, conns>>
    /\ UNCHANGED <<finished, launched, finishLock, serviceVars, link,
                   attached, simDone, taskVars, history>>

\* _handle_lobby_state and the first check of connect_to_host
HandleLobby(s) ==
    /\ GameMessage(s)
    /\ fa[s] = "idle"
    /\ fa' = [fa EXCEPT ![s] = "ready"]
    /\ \/ pstate[s] = "HOSTING" /\ Await(Loop(s), "sendHost")
       \/ /\ pstate[s] = "JOINING"
          /\ IF attached[HostSession] /\ pstate[HostSession] = "HOSTING"
             THEN Await(Loop(s), "sendJoin")
             ELSE Goto(Loop(s), "abort")
    /\ UNCHANGED <<gameVars, serviceVars, link, cstate, attached, pstate, simDone,
                   ret, history>>

\* send_HostGame returns (set_hosted)
HostSent(s) ==
    /\ At(Loop(s), "sendHost")
    /\ link[s] # "down"
    /\ dirty' = TRUE
    /\ Await(Loop(s), "rest")
    /\ UNCHANGED <<gameVars, registered, sessionVars, ret, history>>

\* send_JoinGame returns; the host is told next
JoinSent(s) ==
    /\ At(Loop(s), "sendJoin")
    /\ link[s] # "down"
    /\ ~HostUnreachable
    /\ Await(Loop(s), "sendPeer")
    /\ UNCHANGED <<gameVars, serviceVars, sessionVars, ret, history>>

\* Mutant: an abort during connect_to_host goes unnoticed
PeerSentAfterAbort(s) ==
    /\ At(Loop(s), "sendPeer")
    /\ link[s] # "down"
    /\ cstate' = [cstate EXCEPT ![s] = "CONNECTED_TO_HOST"]
    /\ IF ~CanAdd
       THEN Goto(Loop(s), "abort") /\ UNCHANGED <<conns, dirty>>
       ELSE /\ conns' = conns \cup {s}
            /\ dirty' = TRUE
            /\ Await(Loop(s), "rest")
    /\ UNCHANGED <<gstate, finished, launched, finishLock, registered,
                   link, attached, pstate, fa, simDone, ret, history>>

\* connect_to_host returns: _handle_lobby_state adds the connection and, when
\* there are other guests, waits until they are told
PeerSent(s) ==
    /\ At(Loop(s), "sendPeer")
    /\ link[s] # "down"
    /\ IF cstate[s] = "ENDED"
       THEN /\ Await(Loop(s), "rest")
            /\ dirty' = TRUE
            /\ UNCHANGED <<cstate, conns>>
       ELSE /\ cstate' = [cstate EXCEPT ![s] = "CONNECTED_TO_HOST"]
            /\ IF ~CanAdd
               THEN Goto(Loop(s), "abort") /\ UNCHANGED <<conns, dirty>>
               ELSE /\ conns' = conns \cup {s}
                    /\ IF conns' \subseteq {s, HostSession}
                       THEN Await(Loop(s), "rest") /\ dirty' = TRUE
                       ELSE Await(Loop(s), "peering") /\ UNCHANGED dirty
    /\ UNCHANGED <<gstate, finished, launched, finishLock, registered,
                   link, attached, pstate, fa, simDone, ret, history>>

\* connect_to_peer has returned for every other guest
PeersConnected(s) ==
    /\ At(Loop(s), "peering")
    /\ link[s] # "down"
    /\ dirty' = TRUE
    /\ Await(Loop(s), "rest")
    /\ UNCHANGED <<gameVars, registered, sessionVars, ret, history>>

\* GameState "Launching": Game.launch up to its first await.  Which of the
\* connected players take part (are configured with an army) is left open.
HandleLaunching(s) ==
    /\ GameMessage(s)
    /\ fa[s] = "ready"
    /\ pstate[s] = "HOSTING"
    /\ gstate = "LOBBY"
    /\ launched' \in SUBSET conns
    /\ gstate' = "LIVE"
    /\ pstate' = [x \in Sessions |->
                     IF x \in launched' THEN "PLAYING" ELSE pstate[x]]
    /\ Await(Loop(s), "launching")
    /\ UNCHANGED <<finished, conns, finishLock, serviceVars, link,
                   cstate, attached, fa, simDone, ret, history>>

\* launch has written the game's rows and validated its settings
LaunchWritten(s) ==
    /\ At(Loop(s), "launching")
    /\ dirty' = TRUE
    /\ Await(Loop(s), "rest")
    /\ UNCHANGED <<gameVars, registered, sessionVars, ret, history>>

\* GameEnded: the simulation is over for this player
HandleGameEnded(s) ==
    /\ GameMessage(s)
    /\ fa[s] = "ready"
    /\ ~simDone[s]
    /\ simDone' = [simDone EXCEPT ![s] = TRUE]
    /\ Call(Loop(s), "check", "rest")
    /\ UNCHANGED <<gameVars, serviceVars, link, cstate, attached, pstate, fa,
                   history>>

\* GameState "Ended": the game process was closed (on_connection_closed,
\* disconnect_player)
HandleEnded(s) ==
    /\ GameMessage(s)
    /\ fa[s] # "closed"
    /\ fa' = [fa EXCEPT ![s] = "closed"]
    /\ IF s \in conns
       THEN /\ conns' = conns \ {s}
            /\ Call(Loop(s), "check", "abort")
       ELSE /\ Goto(Loop(s), "abort")
            /\ UNCHANGED <<conns, ret>>
    /\ UNCHANGED <<gstate, finished, launched, finishLock, serviceVars,
                   link, cstate, attached, pstate, simDone, history>>

-----------------------------------------------------------------------------
(* Leaving: GameConnection.abort and Game.check_game_finish, step by step   *)
(* for the task that runs them.                                             *)

\* The coroutine ends.  LobbyConnection.abort, of a kick or of the read loop,
\* closes the transport at the end.
Leave(t) ==
    LET closes == CASE t[2] = "kick" -> {"kicked", "closing"}
                    [] t[2] = "msg" -> {"closing"}
                    [] OTHER -> {}
    IN  /\ Await(t, "rest")
        /\ link' = [link EXCEPT ![t[1]] = IF @ \in closes THEN "down" ELSE @]

\* abort is entered.  When the connection has ENDED it returns at once, and
\* handle_game_state, if that is the caller, marks the game as dirty.
Abort(t) ==
    /\ At(t, "abort")
    /\ IF cstate[t[1]] = "ENDED"
       THEN /\ Leave(t)
            /\ dirty' = (dirty \/ (t[2] = "msg"
                                   /\ link[t[1]] \notin {"gone", "closing"}))
       ELSE /\ IF gstate = "LOBBY" /\ conns \ {t[1]} # {}
               THEN Await(t, "peers")
               ELSE Goto(t, "end")
            /\ UNCHANGED <<link, dirty>>
    /\ UNCHANGED <<gameVars, registered, cstate, attached, pstate, fa, simDone,
                   ret, history>>

\* disconnect_all_peers has told every peer
PeersTold(t) ==
    /\ At(t, "peers")
    /\ Goto(t, "end")
    /\ UNCHANGED <<gameVars, serviceVars, sessionVars, ret, history>>

\* The connection is ENDED and remove_game_connection is called
EndConnection(t) ==
    /\ At(t, "end")
    /\ cstate' = [cstate EXCEPT ![t[1]] = "ENDED"]
    /\ IF t[1] \in conns
       THEN conns' = conns \ {t[1]} /\ Call(t, "check", "tail")
       ELSE Goto(t, "tail") /\ UNCHANGED <<conns, ret>>
    /\ UNCHANGED <<gstate, finished, launched, finishLock, serviceVars,
                   link, attached, pstate, fa, simDone, history>>

\* The rest of abort: the GameConnection is dropped
ReleasePlayer(t) ==
    /\ At(t, "tail")
    /\ dirty' = TRUE
    /\ pstate' = [pstate EXCEPT ![t[1]] = "IDLE"]
    /\ attached' = [attached EXCEPT ![t[1]] = FALSE]
    /\ fa' = [fa EXCEPT ![t[1]] = "off"]
    /\ simDone' = [simDone EXCEPT ![t[1]] = FALSE]
    /\ Leave(t)
    /\ UNCHANGED <<gameVars, registered, cstate, ret, history>>

\* check_sim_end
CheckSimEnd(t) ==
    /\ At(t, "check")
    /\ IF ~finished /\ gstate = "LIVE" /\ \A x \in conns : simDone[x]
       THEN finished' = TRUE /\ Await(t, "simEnd")
       ELSE Goto(t, "lock") /\ UNCHANGED finished
    /\ UNCHANGED <<gstate, conns, launched, finishLock,
                   serviceVars, sessionVars, ret, history>>

\* The end time is written
SimEndWritten(t) ==
    /\ At(t, "simEnd")
    /\ Goto(t, "lock")
    /\ UNCHANGED <<gameVars, serviceVars, sessionVars, ret, history>>

\* check_game_finish waits for _finish_lock
WaitForLock(t) ==
    /\ pc[t] = "lock"
    /\ running = {t}
    /\ finishLock # {}
    /\ running' = {}
    /\ UNCHANGED <<gameVars, serviceVars, sessionVars, pc, ret, history>>

\* What follows the call of check_game_finish
Return(t) ==
    /\ pc' = [pc EXCEPT ![t] = ret[t]]
    /\ ret' = [ret EXCEPT ![t] = "rest"]
    /\ running' = IF ret[t] = "rest" THEN {} ELSE {t}

\* Mutant: the host may leave a lobby behind
MustFinishWithoutHost(t) == gstate # "ENDED" /\ (finished \/ conns = {})

\* The condition under the lock: nobody plays any more
MustFinish(t) ==
    /\ gstate # "ENDED"
    /\ \/ finished
       \/ conns = {}
       \/ t[1] = HostSession /\ gstate # "LIVE"

\* Mutant: check_game_finish does not take the lock
CheckGameFinishUnlocked(t) ==
    /\ At(t, "lock")
    /\ IF MustFinish(t) THEN Goto(t, "finish") /\ UNCHANGED ret ELSE Return(t)
    /\ UNCHANGED <<gameVars, serviceVars, sessionVars, history>>

\* check_game_finish gets the lock
CheckGameFinish(t) ==
    /\ At(t, "lock")
    /\ finishLock = {}
    /\ IF MustFinish(t)
       THEN finishLock' = {t} /\ Goto(t, "finish") /\ UNCHANGED ret
       ELSE Return(t) /\ UNCHANGED finishLock
    /\ UNCHANGED <<gstate, finished, conns, launched, serviceVars,
                   sessionVars, history>>

\* Mutant: the end of the game is not reported
EndGameQuietly(t) ==
    /\ gstate' = "ENDED"
    /\ finishLock' = finishLock \ {t}
    /\ Return(t)
    /\ UNCHANGED dirty

\* The finally clause of on_game_finish, and the lock is released
EndGame(t) ==
    /\ gstate' = "ENDED"
    /\ dirty' = TRUE
    /\ finishLock' = finishLock \ {t}
    /\ Return(t)

\* on_game_finish of a game that is not LIVE
CancelGame(t) ==
    /\ At(t, "finish")
    /\ gstate # "LIVE"
    /\ EndGame(t)
    /\ UNCHANGED <<finished, conns, launched, registered,
                   sessionVars, history>>

\* on_game_finish of a LIVE game starts writing
FinishGame(t) ==
    /\ At(t, "finish")
    /\ gstate = "LIVE"
    /\ Await(t, "results")
    /\ UNCHANGED <<gameVars, serviceVars, sessionVars, ret, history>>

\* More than 20 desyncs, or no results: the game is only marked
FinishUnrated(t) ==
    /\ At(t, "results")
    /\ EndGame(t)
    /\ UNCHANGED <<finished, conns, launched, registered,
                   sessionVars, history>>

\* persist_results, resolve_game_results (which may find the game too short
\* or unresolvable, and refuses one that was not launched) and
\* publish_game_results
FinishWithResults(t) ==
    /\ At(t, "results")
    /\ gstate \in {"LIVE", "ENDED"}
    /\ published < MaxPublished
    /\ published' = published + 1
    /\ EndGame(t)
    /\ UNCHANGED <<finished, conns, launched, registered,
                   sessionVars, faults>>

-----------------------------------------------------------------------------
(* Timers.  Both fire once, and do nothing to a game or a connection that   *)
(* is past INITIALIZING; neither ever gets back there.                      *)

\* Mutant: the timer looks for games in the LOBBY
GameTimeoutInLobby ==
    /\ running = {}
    /\ gstate = "LOBBY"
    /\ gstate' = "ENDED"
    /\ dirty' = TRUE
    /\ UNCHANGED <<finished, conns, launched, finishLock,
                   registered, sessionVars, taskVars, history>>

\* timeout_game, which calls on_game_finish without the lock
GameTimeout ==
    /\ running = {}
    /\ gstate = "INITIALIZING"
    /\ gstate' = "ENDED"
    /\ dirty' = TRUE
    /\ UNCHANGED <<finished, conns, launched, finishLock,
                   registered, sessionVars, taskVars, history>>

\* Mutant: the timer looks for connections that have reported "Idle"
ConnectionTimeoutLate(s) ==
    /\ At(<<s, "tmo">>, "rest")
    /\ cstate[s] = "INITIALIZED"
    /\ Goto(<<s, "tmo">>, "abort")
    /\ UNCHANGED <<gameVars, serviceVars, sessionVars, ret, history>>

\* timeout_game_connection
ConnectionTimeout(s) ==
    /\ At(<<s, "tmo">>, "rest")
    /\ cstate[s] = "INITIALIZING"
    /\ Goto(<<s, "tmo">>, "abort")
    /\ UNCHANGED <<gameVars, serviceVars, sessionVars, ret, history>>

\* report_dirties: an ENDED game leaves the service
ReportDirties ==
    /\ running = {}
    /\ dirty
    /\ dirty' = FALSE
    /\ registered' = (registered /\ gstate # "ENDED")
    /\ UNCHANGED <<gameVars, sessionVars, taskVars, history>>

-----------------------------------------------------------------------------
\* What players and their clients do
Environment ==
    \E s \in Sessions :
         \/ Login(s) \/ AdminKick(s) \/ UnauthenticatedMessage(s) \/ LinkDown(s)
         \/ CommandGameJoin(s) \/ RestoreGameSession(s)
         \/ HandleIdle(s) \/ HandleLobby(s) \/ HandleLaunching(s)
         \/ HandleGameEnded(s) \/ HandleEnded(s)

\* The read loop of a session
LoopStep(s) ==
    \/ LoginDone(s) \/ KickSent(s) \/ Kick(s)
    \/ LoopEnds(s) \/ LoopEndsWithHost(s)
    \/ JoinGame(s) \/ HostSent(s) \/ JoinSent(s) \/ PeerSent(s)
    \/ PeersConnected(s) \/ LaunchWritten(s)

\* A step of a coroutine that is leaving the game
LeaveStep(t) ==
    \/ Abort(t) \/ PeersTold(t) \/ EndConnection(t) \/ ReleasePlayer(t)
    \/ CheckSimEnd(t) \/ SimEndWritten(t) \/ WaitForLock(t)
    \/ CheckGameFinish(t) \/ CancelGame(t) \/ FinishGame(t)
    \/ FinishUnrated(t) \/ FinishWithResults(t)

Next ==
    \/ Environment
    \/ \E s \in Sessions : LoopStep(s) \/ ConnectionTimeout(s)
    \/ \E t \in Tasks : LeaveStep(t)
    \/ GameTimeout
    \/ ReportDirties

\* Timers fire, the loop runs every ready coroutine, the database, the
\* sockets and the message queue answer.  Nothing is assumed of players.
Fairness ==
    /\ \A s \in Sessions : WF_vars(LoopStep(s)) /\ WF_vars(ConnectionTimeout(s))
    /\ \A t \in Tasks : WF_vars(LeaveStep(t))
    /\ WF_vars(GameTimeout)
    /\ WF_vars(ReportDirties)

Spec == Init /\ [][Next]_vars

FairSpec == Spec /\ Fairness

-----------------------------------------------------------------------------
(* Safety.  The loop is between two stretches when running is empty.        *)

\* Whenever a handler can run, a game that players see as open has a
\* connection of its host: host_left_lobby in check_game_finish ends the game
\* in the stretch that removes the host, so nobody joins a lobby that nobody
\* can launch.
LobbyHasHost ==
    gstate = "LOBBY" /\ running = {} => HostSession \in conns

\* Whenever a handler can run, every entry of _connections is a connection
\* that is up and belongs to a player who counts as busy, whatever order
\* aborts, kicks, timeouts and late answers came in.  A player in a game is
\* never IDLE and cannot host, join or queue a second time.
ConnectedPlayersAreBusy ==
    running = {} =>
        \A s \in conns :
            /\ cstate[s] = "CONNECTED_TO_HOST"
            /\ pstate[s] \in {"HOSTING", "JOINING", "PLAYING"}

\* The results of a game are published, and the game handed to the rating
\* service, at most once, although every connection that leaves runs
\* check_game_finish and its database calls interleave.
PublishedOnce == published <= 1

\* A game whose results are out stays ENDED: no late message of the host and
\* no second login opens it again.
PublishedStaysEnded == published > 0 => gstate = "ENDED"

\* An ENDED game that GameService still lists is marked dirty, so the next
\* report_dirties drops it: no path to ENDED forgets mark_dirty, and no report
\* slips between the state and the mark.
EndedIsReported == gstate = "ENDED" /\ registered => dirty

\* The coroutine of check_game_finish that decided to end the game is the
\* only one that is ending it.
FinishIsExclusive ==
    \A t, u \in Tasks :
        pc[t] \in {"finish", "results"} /\ pc[u] \in {"finish", "results"} => t = u

(* Action properties *)

\* gameconnection.py, send: "When calling this on a connection other than
\* `self` make sure to handle `DisconnectedError`, otherwise failure to send
\* the message will cause the caller to be disconnected as well."  So a lobby
\* connection is only given up when its own transport is closed.
OnlyOwnFailureDisconnects ==
    [][\A s \in Sessions :
         link'[s] = "gone" /\ link[s] # "gone" => link[s] = "down"]_vars

-----------------------------------------------------------------------------
(* Liveness, under FairSpec *)

\* A player who was told to start the game and whose game process never
\* answers is released: the setup timeout makes the player available again.
StartingPlayerIsReleased ==
    \A s \in Sessions :
        pstate[s] = "STARTING_GAME" ~> pstate[s] # "STARTING_GAME"

\* A session whose transport is gone leaves the game and gives its player
\* back, whatever its read loop was waiting for.
LostSessionLeaves ==
    \A s \in Sessions :
        link[s] = "down" ~> s \notin conns /\ ~attached[s]

\* A game that nobody has a GameConnection to any more is taken out of
\* GameService, in whatever state it was left and even if its host's game
\* process never reported "Idle", so a draining server does not wait for it for
\* ever.
AbandonedGameIsRemoved ==
    (\A s \in Sessions : ~attached[s])
        ~> (~registered \/ \E s \in Sessions : attached[s])
=============================================================================

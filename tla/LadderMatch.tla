----------------------------- MODULE LadderMatch -----------------------------
(***************************************************************************)
(* The start of one matched game: LadderService._start_game and            *)
(* launch_match (ladder_service/ladder_service.py), the two futures of     *)
(* LadderGame (games/ladder_game.py) and the GameConnections of the        *)
(* players (gameconnection.py) as far as they drive the futures.           *)
(*                                                                         *)
(* _start_game is one task; it awaits the game history, the hosted future  *)
(* with a timeout, the launch future with a timeout and, when a LIVE game  *)
(* is cancelled, the end of that game.  The messages of the players run in *)
(* between.  A timeout may expire at any time while the future is pending; *)
(* asyncio.wait_for then cancels the future.  The awaits inside a handler  *)
(* of a GameConnection are those of GameLifecycle and are not repeated     *)
(* here, except for the database writes of launch.                         *)
(***************************************************************************)
CONSTANTS Host,    \* team1[0]
          Guests   \* the other matched players

ASSUME MatchAssumption == Guests # {} /\ Host \notin Guests

Players == Guests \cup {Host}

VARIABLES
    pc,          \* where _start_game stands
    gstate,      \* Game.state, "NONE" before create_game
    hosted,      \* LadderGame._hosted_future
    launch,      \* LadderGame._launch_future
    closer,      \* the player in the GameClosedError of a future, if any
    launching,   \* Game.launch awaits its database writes
    conns,       \* Game._connections
    configured,  \* Game._configured_player_ids
    conn,        \* GameConnection._state, "NONE" when there is no object,
                 \* "UNSENT" when the client was not sent game_launch
    pstate,      \* Player.state
    online,      \* Player.lobby_connection is not None
    abandoning,  \* abandoning_players of the except block
    told,        \* match_cancelled was sent
    blamed       \* players handed to register_violations

gameVars == <<gstate, hosted, launch, closer, launching, conns, configured>>
playerVars == <<conn, pstate, online>>
endVars == <<abandoning, told, blamed>>
vars == <<pc, gameVars, playerVars, endVars>>

FutureStates == {"pending", "result", "closed", "cancelled"}
ConnStates == {"NONE", "UNSENT", "INITIALIZING", "INITIALIZED", "CONNECTED", "ENDED"}

Init ==
    /\ pc = "history"
    /\ gstate = "NONE"
    /\ hosted = "pending"
    /\ launch = "pending"
    /\ closer = {}
    /\ launching = FALSE
    /\ conns = {}
    /\ configured = {}
    /\ conn = [p \in Players |-> "NONE"]
    /\ pstate = [p \in Players |-> "STARTING_AUTOMATCH"]
    /\ online = [p \in Players |-> TRUE]
    /\ abandoning = {}
    /\ told = FALSE
    /\ blamed = {}

-----------------------------------------------------------------------------
(* _start_game *)

\* The except block: on_game_finish, match_cancelled, register_violations.
\* A LIVE game awaits the database before it is ENDED.
Fail(S) ==
    /\ abandoning' = S
    /\ IF gstate = "LIVE"
       THEN /\ pc' = "finishing"
            /\ UNCHANGED <<gstate, told, blamed>>
       ELSE /\ pc' = "failed"
            /\ gstate' = IF gstate = "NONE" THEN "NONE" ELSE "ENDED"
            /\ told' = TRUE
            /\ blamed' = S

\* The history query fails or there is no map to play
StartError ==
    /\ pc = "history"
    /\ Fail({})
    /\ UNCHANGED <<hosted, launch, closer, launching, conns, configured,
                   playerVars>>

\* Where write_launch_game leaves the connection when it raises: an assertion fails
\* before there is one, or the transport is closed already (DisconnectedError)
Unlaunched == {"NONE", "UNSENT"}

\* create_game and write_launch_game for the host
LaunchHost ==
    /\ pc = "history"
    /\ online[Host]
    /\ pc' = "hosting"
    /\ gstate' = "INITIALIZING"
    /\ conn' = [conn EXCEPT ![Host] = "INITIALIZING"]
    /\ UNCHANGED <<hosted, launch, closer, launching, conns, configured,
                   pstate, online, endVars>>

\* The host has no connection or write_launch_game raises for him; the game that
\* was created ends
LaunchHostFails ==
    /\ pc = "history"
    /\ \/ ~online[Host] /\ abandoning' = {Host} /\ UNCHANGED conn
       \/ /\ online[Host]
          /\ abandoning' = {}
          /\ \E c \in Unlaunched : conn' = [conn EXCEPT ![Host] = c]
    /\ pc' = "failed"
    /\ gstate' = "ENDED"
    /\ told' = TRUE
    /\ blamed' = abandoning'
    /\ UNCHANGED <<hosted, launch, closer, launching, conns, configured,
                   pstate, online>>

OfflineGuests == {g \in Guests : ~online[g]}

\* The finally block of launch_match: a guest without connection, or one for whom
\* write_launch_game raises, replaces whatever exception was raised
GuestsFail ==
    \/ OfflineGuests # {} /\ Fail(OfflineGuests) /\ UNCHANGED conn
    \/ /\ OfflineGuests = {}
       /\ Fail({})
       /\ \E g \in Guests : \E L \in SUBSET (Guests \ {g}), c \in Unlaunched :
            conn' = [p \in Players |-> IF p \in L THEN "INITIALIZING"
                                       ELSE IF p = g THEN c ELSE conn[p]]

\* write_launch_game for every guest
LaunchGuests ==
    /\ OfflineGuests = {}
    /\ conn' = [p \in Players |-> IF p \in Guests THEN "INITIALIZING" ELSE conn[p]]

\* The finally block after an exception for which S are to blame
FailAfterLaunching(S) == GuestsFail \/ (LaunchGuests /\ Fail(S))

\* wait_hosted returns
HostedInTime ==
    /\ pc = "hosting"
    /\ hosted = "result"
    /\ \/ GuestsFail
       \/ LaunchGuests /\ pc' = "waiting" /\ UNCHANGED <<gstate, endVars>>
    /\ UNCHANGED <<hosted, launch, closer, launching, conns, configured,
                   pstate, online>>

\* wait_hosted raises GameClosedError
HostClosed ==
    /\ pc = "hosting"
    /\ hosted = "closed"
    /\ FailAfterLaunching(closer)
    /\ UNCHANGED <<hosted, launch, closer, launching, conns, configured,
                   pstate, online>>

\* wait_hosted times out
HostTimeout ==
    /\ pc = "hosting"
    /\ hosted = "pending"
    /\ hosted' = "cancelled"
    /\ FailAfterLaunching({Host})
    /\ UNCHANGED <<launch, closer, launching, conns, configured, pstate, online>>

\* Game.get_connected_players
Connected == conns \cap configured

\* wait_launched returns
LaunchedInTime ==
    /\ pc = "waiting"
    /\ launch = "result"
    /\ pc' = "started"
    /\ UNCHANGED <<gameVars, playerVars, endVars>>

\* wait_launched raises GameClosedError
LaunchClosed ==
    /\ pc = "waiting"
    /\ launch = "closed"
    /\ Fail(closer)
    /\ UNCHANGED <<hosted, launch, closer, launching, conns, configured,
                   playerVars>>

\* Mutant: every guest is blamed for a launch that takes too long
LaunchTimeoutAll ==
    /\ pc = "waiting"
    /\ launch = "pending"
    /\ launch' = "cancelled"
    /\ Fail(Guests)
    /\ UNCHANGED <<hosted, closer, launching, conns, configured, playerVars>>

\* wait_launched times out
LaunchTimeout ==
    /\ pc = "waiting"
    /\ launch = "pending"
    /\ launch' = "cancelled"
    /\ Fail(Guests \ Connected)
    /\ UNCHANGED <<hosted, closer, launching, conns, configured, playerVars>>

\* The LIVE game that is cancelled has ended
FinishCancelled ==
    /\ pc = "finishing"
    /\ pc' = "failed"
    /\ gstate' = "ENDED"
    /\ told' = TRUE
    /\ blamed' = abandoning
    /\ UNCHANGED <<hosted, launch, closer, launching, conns, configured,
                   playerVars, abandoning>>

-----------------------------------------------------------------------------
(* The players *)

Attached(p) == conn[p] \notin {"NONE", "ENDED"}

\* Game.remove_game_connection with LadderGame.check_game_finish: the futures
\* that are still pending fail, and a game without players or host ends
RemoveConnection(p) ==
    /\ conns' = conns \ {p}
    /\ LET forming == p \in conns /\ gstate \in {"INITIALIZING", "LOBBY"}
           fails == forming /\ "pending" \in {hosted, launch}
       IN /\ hosted' = IF forming /\ hosted = "pending" THEN "closed" ELSE hosted
          /\ launch' = IF forming /\ launch = "pending" THEN "closed" ELSE launch
          /\ closer' = IF fails THEN {p} ELSE closer
    /\ gstate' = IF /\ p \in conns
                    /\ \/ conns = {p}
                       \/ p = Host /\ gstate # "LIVE"
                 THEN "ENDED" ELSE gstate

\* Mutant: only a player who had joined is released
AbortJoined(p) ==
    /\ RemoveConnection(p)
    /\ conn' = [conn EXCEPT ![p] = "ENDED"]
    /\ pstate' = [pstate EXCEPT ![p] = IF p \in conns THEN "IDLE" ELSE @]

\* GameConnection.abort
Abort(p) ==
    /\ RemoveConnection(p)
    /\ conn' = [conn EXCEPT ![p] = "ENDED"]
    /\ pstate' = [pstate EXCEPT ![p] = "IDLE"]

\* The handler of the host's Launching message does not return before the
\* launch is over, and further messages of his wait
Free(p) == ~(launching /\ p = Host)

\* GameState Idle of the host: the game is a LOBBY from now on, whatever
\* it was before
HostIdle ==
    /\ conn[Host] = "INITIALIZING"
    /\ gstate' = "LOBBY"
    /\ conn' = [conn EXCEPT ![Host] = "CONNECTED"]
    /\ conns' = conns \cup {Host}
    /\ pstate' = [pstate EXCEPT ![Host] = "HOSTING"]
    /\ UNCHANGED <<pc, hosted, launch, closer, launching, configured, online,
                   endVars>>

\* GameState Idle of a guest
GuestIdle(g) ==
    /\ conn[g] = "INITIALIZING"
    /\ conn' = [conn EXCEPT ![g] = "INITIALIZED"]
    /\ pstate' = [pstate EXCEPT ![g] = "JOINING"]
    /\ UNCHANGED <<pc, gameVars, online, endVars>>

\* GameState Lobby of the host, sent once.  set_hosted raises when wait_for
\* has cancelled the future, and handle_action aborts the connection.
HostLobby ==
    /\ conn[Host] = "CONNECTED"
    /\ pstate[Host] = "HOSTING"
    /\ hosted # "result"
    /\ \/ /\ hosted = "pending"
          /\ hosted' = "result"
          /\ UNCHANGED <<gstate, launch, closer, conns, conn, pstate>>
       \/ hosted # "pending" /\ Abort(Host)
    /\ UNCHANGED <<pc, launching, configured, online, endVars>>

\* GameState Lobby of a guest: he joins the host or is sent away
GuestLobby(g) ==
    /\ conn[g] = "INITIALIZED"
    /\ LET welcome == /\ Attached(Host)
                      /\ pstate[Host] = "HOSTING"
                      /\ gstate \in {"LOBBY", "LIVE"}
       IN \/ /\ welcome
             /\ conn' = [conn EXCEPT ![g] = "CONNECTED"]
             /\ conns' = conns \cup {g}
             /\ UNCHANGED <<gstate, hosted, launch, closer, pstate>>
          \/ ~welcome /\ Abort(g)
    /\ UNCHANGED <<pc, launching, configured, online, endVars>>

\* PlayerOption messages of the host configure player p
Configure(p) ==
    /\ pstate[Host] = "HOSTING"
    /\ Free(Host)
    /\ configured' = configured \cup {p}
    /\ UNCHANGED <<pc, gstate, hosted, launch, closer, launching, conns,
                   playerVars, endVars>>

\* Mutant: the state of the game is not looked at
LaunchAnyway ==
    /\ pstate[Host] = "HOSTING"
    /\ hosted = "result"
    /\ Free(Host)
    /\ gstate' = "LIVE"
    /\ launching' = TRUE
    /\ pstate' = [p \in Players |-> IF p \in Connected THEN "PLAYING" ELSE pstate[p]]
    /\ UNCHANGED <<pc, hosted, launch, closer, conns, configured, conn, online,
                   endVars>>

\* GameState Launching of the host, which he sends after Lobby
Launch ==
    /\ pstate[Host] = "HOSTING"
    /\ hosted = "result"
    /\ Free(Host)
    /\ gstate = "LOBBY"
    /\ gstate' = "LIVE"
    /\ launching' = TRUE
    /\ pstate' = [p \in Players |-> IF p \in Connected THEN "PLAYING" ELSE pstate[p]]
    /\ UNCHANGED <<pc, hosted, launch, closer, conns, configured, conn, online,
                   endVars>>

\* The rest of LadderGame.launch; set_result raises when the future is done
LaunchDone ==
    /\ launching
    /\ launching' = FALSE
    /\ \/ /\ launch = "pending"
          /\ launch' = "result"
          /\ UNCHANGED <<gstate, hosted, closer, conns, conn, pstate>>
       \/ launch # "pending" /\ Abort(Host)
    /\ UNCHANGED <<pc, configured, online, endVars>>

\* A database write of launch fails
LaunchFails ==
    /\ launching
    /\ launching' = FALSE
    /\ Abort(Host)
    /\ UNCHANGED <<pc, configured, online, endVars>>

\* GameState Ended: on_connection_closed
CloseGame(p) ==
    /\ online[p]
    /\ Attached(p)
    /\ Free(p)
    /\ configured' = IF p \in conns THEN configured \ {p} ELSE configured
    /\ Abort(p)
    /\ UNCHANGED <<pc, launching, online, endVars>>

\* The lobby connection is lost: on_connection_lost
Disconnect(p) ==
    /\ online[p]
    /\ Free(p)
    /\ online' = [online EXCEPT ![p] = FALSE]
    /\ \/ Attached(p) /\ Abort(p)
       \/ /\ ~Attached(p)
          /\ UNCHANGED <<gstate, hosted, launch, closer, conns, conn, pstate>>
    /\ UNCHANGED <<pc, launching, configured, endVars>>

\* timeout_game_connection
ConnTimeout(p) ==
    /\ conn[p] \in {"UNSENT", "INITIALIZING"}
    /\ Abort(p)
    /\ UNCHANGED <<pc, launching, configured, online, endVars>>

\* timeout_game
GameTimeout ==
    /\ gstate = "INITIALIZING"
    /\ gstate' = "ENDED"
    /\ UNCHANGED <<pc, hosted, launch, closer, launching, conns, configured,
                   playerVars, endVars>>

StartGame ==
    \/ StartError
    \/ LaunchHost
    \/ LaunchHostFails
    \/ HostedInTime
    \/ HostClosed
    \/ HostTimeout
    \/ LaunchedInTime
    \/ LaunchClosed
    \/ LaunchTimeout
    \/ FinishCancelled

Next ==
    \/ StartGame
    \/ HostIdle
    \/ HostLobby
    \/ Launch
    \/ LaunchDone
    \/ LaunchFails
    \/ GameTimeout
    \/ \E g \in Guests : GuestIdle(g) \/ GuestLobby(g)
    \/ \E p \in Players : \/ Configure(p)
                          \/ CloseGame(p)
                          \/ Disconnect(p)
                          \/ ConnTimeout(p)

Spec == Init /\ [][Next]_vars

\* The task of _start_game goes on when what it awaits is there or its timer
\* expires, the database answers, the timers of the connections expire, and
\* a client that was told closes its game.  Each of them does so at most a few
\* times, so that none is put off for ever by the others.
Fairness ==
    WF_vars(\/ StartGame \/ LaunchDone \/ LaunchFails
            \/ \E p \in Players : ConnTimeout(p) \/ (told /\ CloseGame(p)))

FairSpec == Spec /\ Fairness

-----------------------------------------------------------------------------
(* Properties *)

\* Every variable holds a value of its kind; at most one player is named in
\* the error of a future.
TypeOK ==
    /\ pc \in {"history", "hosting", "waiting", "finishing", "started", "failed"}
    /\ gstate \in {"NONE", "INITIALIZING", "LOBBY", "LIVE", "ENDED"}
    /\ hosted \in FutureStates
    /\ launch \in FutureStates
    /\ closer \subseteq Players /\ \A p, q \in closer : p = q
    /\ launching \in BOOLEAN
    /\ conns \subseteq Players
    /\ configured \subseteq Players
    /\ conn \in [Players -> ConnStates]
    /\ pstate \in [Players -> {"STARTING_AUTOMATCH", "HOSTING", "JOINING",
                               "PLAYING", "IDLE"}]
    /\ online \in [Players -> BOOLEAN]
    /\ abandoning \subseteq Players
    /\ told \in BOOLEAN
    /\ blamed \subseteq Players

\* While the hosted future is pending only the host can be in the game: the
\* assertion of LadderGame.check_game_finish (games/ladder_game.py) holds.
OnlyHostBeforeHosted == hosted = "pending" => conns \subseteq {Host}

\* Once the players were told that the match is cancelled, its game does not
\* go LIVE any more, not even for a host or a launch that comes too late.
CancelledStaysDown == [][told /\ gstate # "LIVE" => gstate' # "LIVE"]_vars

\* Only players who failed are blamed: never a guest who is connected and
\* configured, and the host only when he did not host in time or has left.
BlameIsJust ==
    [][\A p \in abandoning' \ abandoning :
         /\ p \in Guests => p \notin Connected
         /\ p = Host => hosted' # "result" \/ Host \notin conns]_vars

\* _start_game comes to an end: the match starts or is cancelled.
MatchIsDecided == <>(pc \in {"started", "failed"})

\* A player who was sent game_launch for a match that is cancelled can queue
\* again, once he closed the game he started or the setup timeout released
\* him.
LaunchedCanQueueAgain ==
    \A p \in Players :
      (told /\ conn[p] # "NONE") ~> (pstate[p] = "IDLE" \/ ~online[p])

\* Every player of a cancelled match who is still online can queue again.
CancelledCanQueueAgain ==
    \A p \in Players : told ~> (pstate[p] = "IDLE" \/ ~online[p])
=============================================================================

---------------------------- MODULE LobbySessions ----------------------------
(****************************************************************************)
(* The connections of a ServerContext (servercontext.py), the sign-in of a  *)
(* LobbyConnection (lobbyconnection.py) and the registry of PlayerService   *)
(* (player_service.py).                                                     *)
(*                                                                          *)
(* Every connection has one handler, which serves one message at a time and *)
(* runs until its next await.  The login timeout, the abort that a second   *)
(* sign-in orders and the shutdown of the context run in tasks of their     *)
(* own.  A Player object is the pair of its connection and its account.     *)
(****************************************************************************)
EXTENDS FiniteSets

CONSTANTS
    Conns, Accounts,
    AccountsOf, \* the accounts that a client signs in with
    Stuck,      \* connections whose peer has stopped reading
    NoAccount, NoConn

VARIABLES
    link,        \* the transport: accepted, open, closing (a full buffer), lost
    connections, \* ServerContext.connections
    at,          \* the await where the handler stands
    want,        \* the account of the sign-in in progress
    me,          \* LobbyConnection.player
    auth,        \* connections with _authenticated
    timers,      \* connections whose _timeout_task is pending
    kicked,      \* connections with a task of write_warning that aborts them
    players,     \* PlayerService._players: the connection of the Player object
    down,        \* shutdown of the context, then the end of the process
    ending       \* connections that shutdown waits for

\* What a client may sign in with are accounts of the database
LobbyAssumption == AccountsOf \in [Conns -> SUBSET Accounts]

netVars == <<link, connections, timers, kicked>>
loginVars == <<at, want, me, auth, players>>
downVars == <<down, ending>>
lobbyVars == <<netVars, loginVars, downVars>>

\* The awaits of on_player_login and of what precedes it
SigningIn == {"policy", "update", "fetch"}

LobbyInit ==
    /\ link = [c \in Conns |-> "none"]
    /\ connections = {}
    /\ at = [c \in Conns |-> "none"]
    /\ want = [c \in Conns |-> NoAccount]
    /\ me = [c \in Conns |-> NoAccount]
    /\ auth = {}
    /\ timers = {}
    /\ kicked = {}
    /\ players = [a \in Accounts |-> NoConn]
    /\ down = "no"
    /\ ending = {}

-----------------------------------------------------------------------------
(* The transport *)

\* start_server accepts and creates the task of client_connected_callback
Accept(c) ==
    /\ down = "no"
    /\ link[c] = "none"
    /\ link' = [link EXCEPT ![c] = "accepted"]
    /\ UNCHANGED <<connections, timers, kicked, loginVars, downVars>>

\* handle_client_connected up to its first read_message
ClientConnected(c) ==
    /\ link[c] = "accepted"
    /\ link' = [link EXCEPT ![c] = "open"]
    /\ connections' = connections \cup {c}
    /\ at' = [at EXCEPT ![c] = "read"]
    /\ timers' = timers \cup {c}
    /\ UNCHANGED <<kicked, want, me, auth, players, downVars>>

PeerLeaves(c) ==
    /\ link[c] \in {"open", "closing"}
    /\ link' = [link EXCEPT ![c] = "lost"]
    /\ UNCHANGED <<connections, timers, kicked, loginVars, downVars>>

\* The buffer of a closing transport is sent to a peer that reads
Flush(c) ==
    /\ link[c] = "closing"
    /\ c \notin Stuck
    /\ link' = [link EXCEPT ![c] = "lost"]
    /\ UNCHANGED <<connections, timers, kicked, loginVars, downVars>>

\* Protocol.close; it waits until the transport is lost
Closed(C) == [c \in Conns |-> IF c \in C /\ link[c] = "open" THEN "closing"
                                                             ELSE link[c]]

\* LobbyConnection.abort, called by anybody
AbortSession(c) ==
    /\ auth' = auth \ {c}
    /\ link' = Closed({c})

-----------------------------------------------------------------------------
(* The end of handle_client_connected *)

\* Mutant: only a connection that is signed in is taken out of the registry
LeaveIfSignedIn(c, registry) ==
    /\ connections' = connections \ {c}
    /\ link' = [link EXCEPT ![c] = "lost"]
    /\ players' = [a \in Accounts |->
                     IF a = me[c] /\ c \in auth THEN NoConn ELSE registry[a]]
    /\ at' = [at EXCEPT ![c] = "done"]
    /\ want' = [want EXCEPT ![c] = NoAccount]
    /\ timers' = timers \ {c}
    /\ auth' = auth \ {c}
    /\ kicked' = kicked \ {c}

\* The finally block and remove_player, which looks for the account alone;
\* nobody has a use for the LobbyConnection afterwards
Leave(c, registry) ==
    /\ connections' = connections \ {c}
    /\ link' = [link EXCEPT ![c] = "lost"]
    /\ players' = [a \in Accounts |-> IF a = me[c] THEN NoConn ELSE registry[a]]
    /\ at' = [at EXCEPT ![c] = "done"]
    /\ want' = [want EXCEPT ![c] = NoAccount]
    /\ timers' = timers \ {c}
    /\ auth' = auth \ {c}
    /\ kicked' = kicked \ {c}

\* read_message raises, or the loop ends because the transport is closed
Exit(c) ==
    /\ at[c] = "read"
    /\ link[c] = "lost"
    /\ Leave(c, players)
    /\ UNCHANGED <<me, downVars>>

-----------------------------------------------------------------------------
(* Signing in *)

\* command_auth or command_hello; the account is looked up in the database
SignIn(c, a) ==
    /\ at[c] = "read"
    /\ link[c] = "open"
    /\ at' = [at EXCEPT ![c] = "policy"]
    /\ want' = [want EXCEPT ![c] = a]
    /\ UNCHANGED <<netVars, me, auth, players, downVars>>

\* The handler writes to a transport that is closing: DisconnectedError
WriteFails(c) ==
    /\ at[c] \in SigningIn \ {"fetch"}
    /\ link[c] # "open"
    /\ Leave(c, players)
    /\ UNCHANGED <<me, downVars>>

\* AuthenticationError: the client is told and may try again
Refuse(c) ==
    /\ at[c] = "policy"
    /\ link[c] = "open"
    /\ at' = [at EXCEPT ![c] = "read"]
    /\ want' = [want EXCEPT ![c] = NoAccount]
    /\ UNCHANGED <<netVars, me, auth, players, downVars>>

\* A ban, the database or the policy server: the error is sent, then abort
SignInFails(c) ==
    /\ at[c] \in SigningIn
    /\ IF link[c] = "open"
       THEN /\ AbortSession(c)
            /\ at' = [at EXCEPT ![c] = "read"]
            /\ want' = [want EXCEPT ![c] = NoAccount]
            /\ UNCHANGED <<connections, timers, kicked, players>>
       ELSE Leave(c, players)
    /\ UNCHANGED <<me, downVars>>

\* The check for an old player: its connection is told to go.  A player of
\* this very connection is warned and stays.
Check(c) ==
    /\ at[c] = "policy"
    /\ LET old == players[want[c]] IN
       IF old = c
       THEN /\ link[c] = "open"
            /\ at' = [at EXCEPT ![c] = "read"]
            /\ want' = [want EXCEPT ![c] = NoAccount]
            /\ UNCHANGED kicked
       ELSE /\ at' = [at EXCEPT ![c] = "update"]
            /\ kicked' = IF old # NoConn /\ link[old] = "open"
                         THEN kicked \cup {old} ELSE kicked
            /\ UNCHANGED want
    /\ UNCHANGED <<link, connections, timers, me, auth, players, downVars>>

\* last_login is written; the Player object exists from here
Update(c) ==
    /\ at[c] = "update"
    /\ at' = [at EXCEPT ![c] = "fetch"]
    /\ me' = [me EXCEPT ![c] = want[c]]
    /\ want' = [want EXCEPT ![c] = NoAccount]
    /\ UNCHANGED <<netVars, auth, players, downVars>>

\* fetch_player_data has returned: registered, authenticated, "welcome".  The
\* handler then sends the social data and the games before it reads again; what
\* fails meanwhile ends the connection like Exit or Garbage.
Register(c) ==
    /\ at[c] = "fetch"
    /\ LET registry == [players EXCEPT ![me[c]] = c] IN
       IF link[c] = "open"
       THEN /\ players' = registry
            /\ auth' = auth \cup {c}
            /\ at' = [at EXCEPT ![c] = "read"]
            /\ UNCHANGED <<netVars, want>>
       ELSE Leave(c, registry)
    /\ UNCHANGED <<me, downVars>>

\* ensure_authenticated, or any other command whose handler aborts
Garbage(c) ==
    /\ at[c] = "read"
    /\ link[c] = "open"
    /\ AbortSession(c)
    /\ UNCHANGED <<connections, timers, kicked, at, want, me, players, downVars>>

-----------------------------------------------------------------------------
(* Tasks *)

\* Mutant: a connection that is just signing in is spared
TimeoutSpares(c) ==
    /\ c \in timers
    /\ timers' = timers \ {c}
    /\ IF c \notin auth /\ at[c] = "read" THEN AbortSession(c) ELSE UNCHANGED <<auth, link>>
    /\ UNCHANGED <<connections, kicked, at, want, me, players, downVars>>

\* timeout_login
Timeout(c) ==
    /\ c \in timers
    /\ timers' = timers \ {c}
    /\ IF c \notin auth THEN AbortSession(c) ELSE UNCHANGED <<auth, link>>
    /\ UNCHANGED <<connections, kicked, at, want, me, players, downVars>>

\* The task that write_warning created
Kicked(c) ==
    /\ c \in kicked
    /\ kicked' = kicked \ {c}
    /\ AbortSession(c)
    /\ UNCHANGED <<connections, timers, at, want, me, players, downVars>>

\* kick_idle_players, or the kick of an administrator
Kick(c) ==
    /\ \E a \in Accounts : players[a] = c
    /\ c \in connections
    /\ AbortSession(c)
    /\ UNCHANGED <<connections, timers, kicked, at, want, me, players, downVars>>

\* ServerContext.shutdown: the connections it knows are closed
Shutdown ==
    /\ down = "no"
    /\ down' = "closing"
    /\ ending' = connections
    /\ link' = Closed(connections)
    /\ UNCHANGED <<connections, timers, kicked, loginVars>>

\* Mutant: nothing happens when the timeout of close_or_abort has expired
NotAborted(c) ==
    /\ down = "closing"
    /\ c \in ending
    /\ link[c] = "lost"
    /\ ending' = ending \ {c}
    /\ UNCHANGED <<netVars, loginVars, down>>

\* close has returned, or its timeout has expired and the transport is aborted
CloseOrAbort(c) ==
    /\ down = "closing"
    /\ c \in ending
    /\ ending' = ending \ {c}
    /\ link' = [link EXCEPT ![c] = "lost"]
    /\ UNCHANGED <<connections, timers, kicked, loginVars, down>>

ShutdownReturns ==
    /\ down = "closing"
    /\ ending = {}
    /\ down' = "done"
    /\ UNCHANGED <<netVars, loginVars, ending>>

\* asyncio.run cancels the tasks that are left when main returns
Cancelled(c) ==
    /\ down = "done"
    /\ at[c] \in SigningIn \cup {"read"}
    /\ Leave(c, players)
    /\ UNCHANGED <<me, downVars>>

LobbyNext ==
    \/ \E c \in Conns :
         \/ Accept(c) \/ ClientConnected(c) \/ PeerLeaves(c) \/ Flush(c)
         \/ Exit(c)
         \/ \E a \in AccountsOf[c] : SignIn(c, a)
         \/ WriteFails(c) \/ Refuse(c) \/ SignInFails(c)
         \/ Check(c) \/ Update(c) \/ Register(c) \/ Garbage(c)
         \/ Timeout(c) \/ Kicked(c) \/ Kick(c)
         \/ CloseOrAbort(c) \/ Cancelled(c)
    \/ Shutdown \/ ShutdownReturns

LobbySpec == LobbyInit /\ [][LobbyNext]_lobbyVars

\* The steps with which a connection, which is served once, begins and ends
BeginOrEnd(c) ==
    \/ ClientConnected(c) \/ Exit(c) \/ WriteFails(c) \/ Flush(c)
    \/ Timeout(c) \/ Kicked(c) \/ CloseOrAbort(c) \/ Cancelled(c)

\* Handlers, tasks, transports and timeouts are not passed over for ever;
\* messages, failures and the shutdown need not happen.  The steps of BeginOrEnd
\* are bounded in number, so that one condition does for all of them; a client
\* may sign in again and again, so that a sign-in has a condition of its own.
LobbyFairness ==
    /\ WF_lobbyVars(ShutdownReturns \/ \E c \in Conns : BeginOrEnd(c))
    /\ \A c \in Conns : WF_lobbyVars(Check(c) \/ Update(c) \/ Register(c))

LobbyFairSpec == LobbySpec /\ LobbyFairness

-----------------------------------------------------------------------------

LobbyTypeOK ==
    /\ link \in [Conns -> {"none", "accepted", "open", "closing", "lost"}]
    /\ connections \subseteq Conns
    /\ at \in [Conns -> SigningIn \cup {"none", "read", "done"}]
    /\ want \in [Conns -> Accounts \cup {NoAccount}]
    /\ me \in [Conns -> Accounts \cup {NoAccount}]
    /\ auth \subseteq Conns
    /\ timers \subseteq connections
    /\ kicked \subseteq Conns
    /\ players \in [Accounts -> Conns \cup {NoConn}]
    /\ down \in {"no", "closing", "done"}
    /\ ending \subseteq Conns

\* A registered player belongs to a connection that is still served, whatever
\* order timeouts, kicks and second sign-ins end connections in; the exception
\* is a connection that has gone on to sign in as somebody else
NoGhost ==
    \A a \in Accounts : players[a] # NoConn =>
        players[a] \in connections \/ me[players[a]] # a

\* A connection that is not signed in does not last: it signs in or it ends,
\* as long as its peer reads (timeout_login, abort)
UnauthenticatedEnds ==
    \A c \in Conns \ Stuck :
        c \in connections \ auth ~> c \in auth \/ c \notin connections

\* Every connection ends once the context is shut down, the ones whose peer
\* does not read and the ones accepted at the last moment included
ShutdownEndsSessions ==
    down # "no" ~> connections = {}

\* PlayerService manages the connected and authenticated players: the account
\* of an open, authenticated connection is registered
AuthenticatedIsManaged ==
    \A c \in connections \cap auth :
        link[c] = "open" /\ at[c] = "read" => players[me[c]] # NoConn
=============================================================================

--------------------------- MODULE ServerShutdown ----------------------------
(****************************************************************************)
(* The connection to the message broker (message_queue_service.py), its     *)
(* publishers - the results of a game (game_service.py) and the reports of  *)
(* BroadcastService (broadcast_service.py) - and the shutdown of the server *)
(* (main.py, server/__init__.py).                                           *)
(*                                                                          *)
(* initialize, reconnect and shutdown of MessageQueueService hold one lock; *)
(* publish_many does not take it.  A channel is the number of its           *)
(* connection, 0 stands for None.                                           *)
(****************************************************************************)
EXTENDS Naturals

CONSTANTS
    Games, Reports,
    MaxConnections \* bound: attempts to connect to the broker

VARIABLES
    main,     \* main.py
    awaited,  \* the report that wait_report_dirtes waits for
    waited,   \* the games it had still to publish when the wait began
    life,     \* live, publishing its results, ended (and dirty), or removed
    rated,    \* games handed to the rating service
    doing,    \* [Reports -> what the report publishes]
    popped,   \* [Reports -> the games whose messages it has to publish]
    latest,   \* the report of _report_dirties_event, 0 once the event is set
    cut,      \* games whose message was lost to the shutdown
    ready, channel, exchange, \* MessageQueueService
    opened,   \* attempts to connect so far
    tx,       \* the channel of a publisher's transaction
    holder,   \* who holds initialization_lock
    step,     \* ... and the await where it stands
    stopped   \* MessageQueueService.shutdown was called

mainVars == <<main, awaited, waited>>
lifeVars == <<life, rated>>
reportVars == <<doing, popped, latest, cut>>
brokerVars == <<ready, channel, exchange, opened, holder, step, stopped>>
serverVars == <<mainVars, lifeVars, reportVars, brokerVars, tx>>

ShutdownAssumption ==
    /\ Reports \subseteq Nat \ {0}
    /\ Games \cap Reports = {}
    /\ MaxConnections \in Nat

ServerInit ==
    /\ main = "starting"
    /\ awaited = 0
    /\ waited = {}
    /\ life = [g \in Games |-> "live"]
    /\ rated = {}
    /\ doing = [r \in Reports |-> "none"]
    /\ popped = [r \in Reports |-> {}]
    /\ latest = 0
    /\ cut = {}
    /\ ready = FALSE
    /\ channel = 0
    /\ exchange = 0
    /\ opened = 0
    /\ tx = [x \in Games \cup Reports |-> 0]
    /\ holder = "initialize"
    /\ step = "connect"
    /\ stopped = FALSE

Running == main \notin {"done", "crashed"}

-----------------------------------------------------------------------------
(* MessageQueueService *)

\* The holder of the lock releases it
Released == step' = "none" /\ holder' = "none"

\* ... with an exception, which ends main if it comes from initialize
Raised ==
    /\ Released
    /\ main' = IF holder = "initialize" THEN "crashed" ELSE main
    /\ UNCHANGED <<ready, channel, exchange, awaited, waited>>

\* _connect: a failed attempt leaves the service without a channel, and so does
\* an exception of channel(), which nobody handles
Connect ==
    /\ Running
    /\ step = "connect"
    /\ opened' = opened + 1
    /\ \/ /\ channel' = opened'
          /\ ready' = (ready \/ holder = "initialize" \/ exchange = 0)
          /\ IF holder = "initialize" \/ exchange # 0
             THEN step' = "declare" /\ holder' = holder
             ELSE Released
          /\ UNCHANGED <<exchange, mainVars>>
       \/ Released /\ UNCHANGED <<ready, channel, exchange, mainVars>>
       \/ Raised
    /\ UNCHANGED <<stopped, tx, lifeVars, reportVars>>

\* Mutant: reconnect keeps the exchanges of the old channel
DeclareOnce ==
    /\ Running
    /\ step = "declare"
    /\ \/ /\ exchange' = IF exchange = 0 THEN channel ELSE exchange
          /\ ready' = TRUE
          /\ Released
          /\ UNCHANGED <<channel, mainVars>>
       \/ Raised
    /\ UNCHANGED <<opened, stopped, tx, lifeVars, reportVars>>

\* _declare_exchange of the exchanges known so far
Declare ==
    /\ Running
    /\ step = "declare"
    /\ \/ /\ exchange' = channel
          /\ ready' = TRUE
          /\ Released
          /\ UNCHANGED <<channel, mainVars>>
       \/ Raised
    /\ UNCHANGED <<opened, stopped, tx, lifeVars, reportVars>>

\* reconnect, called when the configuration of the broker changes
Reconnect ==
    /\ Running
    /\ opened < MaxConnections
    /\ holder = "none"
    /\ holder' = "reconnect"
    /\ step' = "close"
    /\ ready' = FALSE
    /\ UNCHANGED <<channel, exchange, opened, stopped, tx, mainVars, lifeVars,
                   reportVars>>

\* shutdown of MessageQueueService
Stop ==
    /\ main = "stopping"
    /\ ~stopped
    /\ holder = "none"
    /\ holder' = "shutdown"
    /\ step' = "close"
    /\ stopped' = TRUE
    /\ ready' = FALSE
    /\ UNCHANGED <<channel, exchange, opened, tx, mainVars, lifeVars, reportVars>>

\* _shutdown has closed the channel and the connection
Close ==
    /\ Running
    /\ step = "close"
    /\ channel' = 0
    /\ IF holder = "reconnect"
       THEN /\ step' = "connect"
            /\ UNCHANGED holder
       ELSE /\ step' = "none"
            /\ holder' = "none"
    /\ UNCHANGED <<ready, exchange, opened, stopped, tx, mainVars, lifeVars,
                   reportVars>>

\* publish_many refuses a message, or raises KeyError
Refused == ~ready \/ exchange = 0

\* The transaction of x ends well: its channel has not been closed meanwhile
Sent(x) == tx[x] = channel

-----------------------------------------------------------------------------
(* The results of a game: publish_game_results *)

EndGame(g) ==
    /\ Running /\ main # "starting"
    /\ life[g] = "live"
    /\ IF Refused
       THEN /\ life' = [life EXCEPT ![g] = "ended"]
            /\ rated' = IF ready THEN rated ELSE rated \cup {g}
            /\ UNCHANGED tx
       ELSE /\ life' = [life EXCEPT ![g] = "publishing"]
            /\ tx' = [tx EXCEPT ![g] = channel]
            /\ UNCHANGED rated
    /\ UNCHANGED <<mainVars, reportVars, brokerVars>>

\* An exception of publish keeps the game from the rating service
ResultsPublished(g) ==
    /\ Running
    /\ life[g] = "publishing"
    /\ life' = [life EXCEPT ![g] = "ended"]
    /\ rated' = IF Sent(g) THEN rated \cup {g} ELSE rated
    /\ tx' = [tx EXCEPT ![g] = 0]
    /\ UNCHANGED <<mainVars, reportVars, brokerVars>>

-----------------------------------------------------------------------------
(* report_dirties *)

\* Mutant: the event is not set when a publish has failed
OverIfSent(r, lost) ==
    /\ doing' = [doing EXCEPT ![r] = "none"]
    /\ popped' = [popped EXCEPT ![r] = {}]
    /\ tx' = [tx EXCEPT ![r] = 0]
    /\ cut' = IF stopped THEN cut \cup lost ELSE cut
    /\ awaited' = IF awaited = r /\ lost = {} THEN 0 ELSE awaited

\* The report is over and its event is set; some messages may be lost
Over(r, lost) ==
    /\ doing' = [doing EXCEPT ![r] = "none"]
    /\ popped' = [popped EXCEPT ![r] = {}]
    /\ tx' = [tx EXCEPT ![r] = 0]
    /\ cut' = IF stopped THEN cut \cup lost ELSE cut
    /\ awaited' = IF awaited = r THEN 0 ELSE awaited

\* The report goes on to publish its messages about players or about games
Publishing(r, what, games) ==
    IF Refused \/ (what = "games" /\ games = {})
    THEN Over(r, games)
    ELSE /\ doing' = [doing EXCEPT ![r] = what]
         /\ popped' = [popped EXCEPT ![r] = games]
         /\ tx' = [tx EXCEPT ![r] = channel]
         /\ UNCHANGED <<cut, awaited>>

\* The timer calls _monitored_report_dirties: the ended games leave the service
Report(r) ==
    /\ Running
    /\ doing[r] = "none"
    /\ LET ended == {g \in Games : life[g] = "ended"}
           early == main \in {"starting", "running", "drain"} \/ awaited # 0
           leave == IF early THEN "removed" ELSE "removed late"
       IN  /\ life' = [g \in Games |-> IF g \in ended THEN leave ELSE life[g]]
           /\ \E what \in {"players", "games"} : Publishing(r, what, ended)
    /\ latest' = IF doing'[r] = "none" THEN 0 ELSE r
    /\ UNCHANGED <<main, waited, rated, brokerVars>>

\* A publish of the report has returned or raised
Published(r) ==
    /\ Running
    /\ doing[r] # "none"
    /\ IF ~Sent(r)
       THEN Over(r, popped[r])
       ELSE IF doing[r] = "players"
       THEN Publishing(r, "games", popped[r])
       ELSE Over(r, {})
    /\ latest' = IF latest = r /\ doing'[r] = "none" THEN 0 ELSE latest
    /\ UNCHANGED <<main, waited, lifeVars, brokerVars>>

-----------------------------------------------------------------------------
(* main *)

\* start_services has returned
Started ==
    /\ main = "starting"
    /\ holder # "initialize"
    /\ main' = "running"
    /\ UNCHANGED <<awaited, waited, lifeVars, reportVars, brokerVars, tx>>

\* The first signal: graceful_shutdown, then the task of drain
Signal ==
    /\ main = "running"
    /\ main' = "drain"
    /\ UNCHANGED <<awaited, waited, lifeVars, reportVars, brokerVars, tx>>

\* The games of the report that began last
StillPublished == IF latest = 0 THEN {} ELSE popped[latest]

\* Mutant: drain does not wait for the report
DrainedAtOnce ==
    /\ main = "drain"
    /\ main' = "wait"
    /\ awaited' = 0
    /\ waited' = StillPublished
    /\ UNCHANGED <<lifeVars, reportVars, brokerVars, tx>>

\* drain_games returns, its grace period ends or a second signal cancels it;
\* wait_report_dirtes looks for the event of the report that began last
Drained ==
    /\ main = "drain"
    /\ main' = "wait"
    /\ awaited' = latest
    /\ waited' = StillPublished
    /\ UNCHANGED <<lifeVars, reportVars, brokerVars, tx>>

\* A second signal during wait_report_dirtes cancels main itself
Interrupted ==
    /\ main = "wait"
    /\ awaited # 0
    /\ main' = "crashed"
    /\ UNCHANGED <<awaited, waited, lifeVars, reportVars, brokerVars, tx>>

Waited ==
    /\ main = "wait"
    /\ awaited = 0
    /\ main' = "stopping"
    /\ UNCHANGED <<awaited, waited, lifeVars, reportVars, brokerVars, tx>>

ServicesDown ==
    /\ main = "stopping"
    /\ stopped
    /\ holder = "none"
    /\ main' = "done"
    /\ UNCHANGED <<awaited, waited, lifeVars, reportVars, brokerVars, tx>>

ServerNext ==
    \/ Connect \/ Declare \/ Reconnect \/ Stop \/ Close
    \/ \E g \in Games : EndGame(g) \/ ResultsPublished(g)
    \/ \E r \in Reports : Report(r) \/ Published(r)
    \/ Started \/ Signal \/ Drained \/ Interrupted \/ Waited \/ ServicesDown

ServerSpec == ServerInit /\ [][ServerNext]_serverVars

\* Who holds the lock goes on, reports go on, and main goes on; a signal need
\* not come
ServerFairness ==
    /\ WF_serverVars(Connect \/ Declare \/ Close)
    /\ \A r \in Reports : WF_serverVars(Published(r))
    /\ WF_serverVars(Drained \/ Waited \/ Stop \/ ServicesDown)

-----------------------------------------------------------------------------

ServerTypeOK ==
    /\ main \in {"starting", "running", "drain", "wait", "stopping", "done",
                 "crashed"}
    /\ awaited \in Reports \cup {0}
    /\ waited \subseteq Games
    /\ life \in [Games -> {"live", "publishing", "ended", "removed",
                           "removed late"}]
    /\ rated \subseteq Games
    /\ doing \in [Reports -> {"none", "players", "games"}]
    /\ popped \in [Reports -> SUBSET Games]
    /\ latest \in Reports \cup {0}
    /\ cut \subseteq Games
    /\ ready \in BOOLEAN /\ stopped \in BOOLEAN
    /\ channel \in Nat /\ exchange \in Nat /\ opened \in Nat
    /\ tx \in [Games \cup Reports -> Nat]
    /\ holder \in {"none", "initialize", "reconnect", "shutdown"}
    /\ step \in {"none", "connect", "declare", "close"}

\* A service that is ready has a channel (the assertion of publish_many) and
\* publishes to exchanges of that very channel, through failed attempts,
\* reconnects and the shutdown
ReadyIsUsable == ready => channel # 0 /\ exchange \in {0, channel}

\* What drain achieves: the games of the report that it waits for have their
\* messages posted, or refused by the broker, before the service is shut down
AwaitedIsPosted == cut \cap waited = {}

\* What the comment in drain says: a game that any report cleared before the
\* wait ended has its message posted or refused, never lost to the shutdown
DrainedIsPosted == \A g \in cut : life[g] # "removed"

\* Once a signal has come main ends, whatever the broker does
MainEnds == main = "drain" ~> main \in {"done", "crashed"}
=============================================================================

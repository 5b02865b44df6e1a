------------------------------- MODULE MCGames -------------------------------
(* The life of a game up to its removal, and the rating of games, for model *)
(* checking in one run.  The parts share no state here: every behaviour is  *)
(* one of one part, and the variables of the other do not change.           *)
EXTENDS MCRatingService

CONSTANTS host, guest \* the logins of a game

VARIABLES
    part,  \* the part this behaviour is about
    \* GameLifecycle
    game, finished, joined, atLaunch, finishLock, listed, dirty,
    lobby, socket, attached, player, process, simDone,
    stands, ret, running, faults, announced

Game == INSTANCE GameLifecycle WITH
    Sessions <- {host, guest}, Players <- {host, guest},
    PlayerOf <- [s \in {host, guest} |-> s], HostSession <- host,
    Late <- {host, guest}, MaxPublished <- 2, MaxFaults <- 1,
    gstate <- game, conns <- joined, launched <- atLaunch, registered <- listed,
    link <- lobby, cstate <- socket, pstate <- player, fa <- process,
    pc <- stands, published <- announced

gameVars == <<game, finished, joined, atLaunch, finishLock, listed, dirty, lobby,
              socket, attached, player, process, simDone, stands, ret, running,
              faults, announced>>

-----------------------------------------------------------------------------
(* The part that a behaviour is not about: nothing can happen in it *)

GameOff ==
    /\ game = "ENDED" /\ finished = TRUE
    /\ joined = {} /\ atLaunch = {} /\ finishLock = {}
    /\ listed = FALSE /\ dirty = FALSE
    /\ lobby = [s \in {host, guest} |-> "gone"]
    /\ socket = [s \in {host, guest} |-> "NONE"]
    /\ attached = [s \in {host, guest} |-> FALSE]
    /\ player = [s \in {host, guest} |-> "IDLE"]
    /\ process = [s \in {host, guest} |-> "off"]
    /\ simDone = [s \in {host, guest} |-> FALSE]
    /\ stands = [t \in Game!Tasks |-> "rest"]
    /\ ret = [t \in Game!Tasks |-> "rest"]
    /\ running = {} /\ faults = 0 /\ announced = 1

\* The worker has nothing to rate before a game is enqueued
GamesInit ==
    /\ Init
    /\ \/ part = "game" /\ Game!Init
       \/ part = "rating" /\ GameOff

\* Bound: a failure or a login in a behaviour, as no property looks at both
GamesNext ==
    /\ UNCHANGED part
    /\ \/ part = "game" /\ Game!Next /\ UNCHANGED vars
       \/ part = "rating" /\ Next /\ failures' + logins' <= 1 /\ UNCHANGED gameVars

GamesSpec ==
    /\ GamesInit
    /\ [][GamesNext]_<<part, vars, gameVars>>
    /\ Game!Fairness

-----------------------------------------------------------------------------
(* The properties of a game *)

\* A player who was told to start the game and whose game process never
\* answers is released by the setup timeout
StartingPlayerIsReleased == Game!StartingPlayerIsReleased

\* A session whose transport is gone leaves the game and gives its player
\* back, whatever its read loop was waiting for
LostSessionLeaves == Game!LostSessionLeaves

\* A game that nobody has a GameConnection to any more is taken out of
\* GameService, in whatever state it was left
AbandonedGameIsRemoved == Game!AbandonedGameIsRemoved
=============================================================================

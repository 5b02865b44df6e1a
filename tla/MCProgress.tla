----------------------------- MODULE MCProgress -----------------------------
(* What has to happen in the end, for model checking in one run: the start  *)
(* of a match, the search for one, the pairs of duels, the sign-in and the  *)
(* end of connections, the queue of the rating service, and the shutdown.   *)
(* The parts share no state here: every behaviour is one of one part, and   *)
(* the variables of the others do not change.                               *)
EXTENDS LadderMatch, ServerShutdown, StableMarriage, LobbySessions

CONSTANTS p1, p2, q1, i1, i2, NoSearch, NoQueue, r1, r2, r3, ladder, NoGame

VARIABLES
    part,  \* the part this behaviour is about
    \* MatchmakerQueue
    state, registry, obj, fut, task, queued, pop, lock, snapshot, starting,
    aborting, present, open,
    \* RatingService
    accept, queue, worker, halt, current, rpc, db, rtx, signedIn, ratings,
    fetched, loggingIn, published, accepted, failures, logins

Search == INSTANCE MatchmakerQueue WITH
    Players <- {p1, p2}, Queues <- {q1}, Teams <- {{p1}, {p2}}, Gamers <- {p1},
    TeamSize <- [q \in {q1} |-> 1], Ids <- {i1, i2},
    pstate <- state, launching <- starting, online <- present

\* Two games that can be rated and one that cannot; nobody logs in
Rating == INSTANCE RatingService WITH
    Players <- {p1, p2}, Boards <- {ladder, "global"}, Games <- {r1, r2, r3},
    Global <- "global", PlayersIn <- [g \in {r1, r2, r3} |-> {p1, p2}],
    BoardOf <- [g \in {r1, r2, r3} |-> IF g = r2 THEN "global" ELSE ladder],
    Unratable <- {r3}, Unlisted <- {}, MaxFailures <- 1, MaxLogins <- 0,
    down <- halt, tx <- rtx, online <- signedIn

\* StableMarriage: one search of a newbie and one of a top player
MCMean == <<2, 4, 1, 3>>
MCKind == <<"other", "top", "newbie", "other">>
MCSelfQuality == <<60, 80, 50, 60>>

\* LobbySessions: both connections are to one account
MCAccountsOf == [c \in Conns |-> Accounts]

searchVars == <<state, registry, obj, fut, task, queued, pop, lock, snapshot,
                starting, aborting, present, open>>
ratingVars == <<accept, queue, worker, halt, current, rpc, db, rtx, signedIn,
                ratings, fetched, loggingIn, published, accepted, failures, logins>>

-----------------------------------------------------------------------------
(* A part that a behaviour is not about: nothing can happen in it *)

MatchOff ==
    /\ pc = "started"
    /\ gstate = "LIVE"
    /\ hosted = "result" /\ launch = "result"
    /\ closer = {} /\ launching = FALSE
    /\ conns = {} /\ configured = {}
    /\ conn = [p \in Players |-> "NONE"]
    /\ pstate = [p \in Players |-> "PLAYING"]
    /\ online = [p \in Players |-> TRUE]
    /\ abandoning = {} /\ told = FALSE /\ blamed = {}

SearchOff ==
    /\ state = [p \in {p1, p2} |-> "IDLE"]
    /\ registry = [p \in {p1, p2} |-> [q \in {q1} |-> NoSearch]]
    /\ obj = [i \in {i1, i2} |-> Search!NoObject]
    /\ fut = [i \in {i1, i2} |-> "none"]
    /\ task = [i \in {i1, i2} |-> "none"]
    /\ queued = [q \in {q1} |-> {}]
    /\ pop = [q \in {q1} |-> "stopped"]
    /\ lock = NoQueue
    /\ snapshot = {} /\ starting = {} /\ aborting = {} /\ present = {}
    /\ open = FALSE

MarriageOff ==
    /\ quality = [d \in Duels |-> 0]
    /\ fast = FALSE
    /\ waiting = {}
    /\ attempts = [s \in 1..4 |-> 0]
    /\ edges = NoEdges /\ ranks = NoEdges
    /\ matches = Nobody
    /\ round = 0 /\ turn = 1 /\ pops = 6
    /\ find = "timer"

ServerOff ==
    /\ main = "done" /\ awaited = 0 /\ waited = {}
    /\ life = [g \in Games |-> "removed"] /\ rated = {}
    /\ doing = [r \in Reports |-> "none"]
    /\ popped = [r \in Reports |-> {}]
    /\ latest = 0 /\ cut = {}
    /\ ready = FALSE /\ channel = 0 /\ exchange = 0 /\ opened = 0
    /\ tx = [x \in Games \cup Reports |-> 0]
    /\ holder = "none" /\ step = "none" /\ stopped = TRUE

\* Nothing has to happen in the lobby before somebody connects, or to the queue
\* of the rating service before a game is enqueued
ProgressInit ==
    /\ part \in {"match", "search", "duels", "lobby", "rating", "shutdown"}
    /\ IF part = "match" THEN Init ELSE MatchOff
    /\ IF part = "search" THEN Search!Init ELSE SearchOff
    /\ IF part = "duels" THEN MarriageInit ELSE MarriageOff
    /\ LobbyInit
    /\ Rating!Init
    /\ IF part = "shutdown" THEN ServerInit ELSE ServerOff

ProgressNext ==
    /\ UNCHANGED part
    /\ \/ /\ part = "match" /\ Next
          /\ UNCHANGED <<searchVars, marriageVars, lobbyVars, ratingVars, serverVars>>
       \/ /\ part = "search" /\ Search!Next
          /\ UNCHANGED <<vars, marriageVars, lobbyVars, ratingVars, serverVars>>
       \/ /\ part = "duels" /\ MarriageNext
          /\ UNCHANGED <<vars, searchVars, lobbyVars, ratingVars, serverVars>>
       \/ /\ part = "lobby" /\ LobbyNext
          /\ UNCHANGED <<vars, searchVars, marriageVars, ratingVars, serverVars>>
       \/ /\ part = "rating" /\ Rating!Next
          /\ UNCHANGED <<vars, searchVars, marriageVars, lobbyVars, serverVars>>
       \/ /\ part = "shutdown" /\ ServerNext
          /\ UNCHANGED <<vars, searchVars, marriageVars, lobbyVars, ratingVars>>

ProgressSpec ==
    /\ ProgressInit
    /\ [][ProgressNext]_<<part, vars, searchVars, marriageVars, lobbyVars,
                          ratingVars, serverVars>>
    /\ Rating!Fairness
    /\ Fairness
    /\ Search!Fairness
    /\ MarriageFairness
    /\ LobbyFairness
    /\ ServerFairness

ASSUME ShutdownAssumption /\ MarriageAssumption /\ LobbyAssumption

-----------------------------------------------------------------------------
(* The properties of the search for a match and of the rating service *)

\* A search that is over leaves its queue
DoneLeavesQueue == Search!DoneLeavesQueue

\* Every game that is accepted is settled, unless the service is shut down
AcceptedIsSettled == Rating!AcceptedIsSettled

\* shutdown returns, also when it starts between two games
RatingStops == Rating!RatingStops
=============================================================================

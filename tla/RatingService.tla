---------------------------- MODULE RatingService ----------------------------
(***************************************************************************)
(* RatingService (server/rating_service/rating_service.py): the queue of   *)
(* games, the worker, the coroutine _rate that it shields, the database    *)
(* transaction of a game, the ratings of signed-in players in memory, and  *)
(* the shutdown.                                                           *)
(*                                                                         *)
(* The worker waits for _rate under asyncio.shield: when shutdown cancels  *)
(* the worker, _rate goes on by itself and nobody waits for it any more.   *)
(***************************************************************************)
EXTENDS Naturals, Sequences

CONSTANTS Players, Boards, Games, Global, PlayersIn, BoardOf,
          Unratable,   \* games that GameRater refuses: inconsistent outcomes
          Unlisted,    \* games that lack rows in game_player_stats
          NoGame,
          MaxFailures, \* bound: failures of the database or the broker
          MaxLogins    \* bound: logins

ASSUME RatingAssumption ==
    /\ Global \in Boards
    /\ PlayersIn \in [Games -> SUBSET Players]
    /\ BoardOf \in [Games -> Boards]
    /\ Unratable \subseteq Games
    /\ Unlisted \subseteq Games
    /\ NoGame \notin Games
    /\ MaxFailures \in Nat
    /\ MaxLogins \in Nat

VARIABLES
    accept,    \* _accept_input
    queue,     \* _queue
    worker,    \* the task of _handle_rating_queue
    down,      \* how far shutdown has got
    current,   \* the game that _rate works on
    rpc,       \* the await where _rate stands
    db,        \* leaderboard_rating, as committed
    tx,        \* ... as the open transaction sees it
    online,    \* PlayerService._players
    ratings,   \* Player.ratings
    fetched,   \* what fetch_player_data of a login has read
    loggingIn, \* players between fetch_player_data and their registration
    published, \* games with a message "success.rating.update"
    accepted, failures, logins

serviceVars == <<accept, queue, worker, down>>
rateVars == <<current, rpc, db, tx, published>>
playerVars == <<online, ratings, fetched, loggingIn, logins>>
vars == <<serviceVars, rateVars, playerVars, accepted, failures>>

\* The awaits of _rate that come before its commit
Uncommitted == {"start", "fetch", "persist", "adjust", "commit", "lost"}

Ratings == [Players -> [Boards -> Seq(Games)]]

TypeOK ==
    /\ accept \in BOOLEAN
    /\ queue \in Seq(Games)
    /\ worker \in {"get", "rating", "stopped"}
    /\ down \in {"no", "join", "done", "exited"}
    /\ current \in Games \cup {NoGame}
    /\ rpc \in Uncommitted \cup {"none", "publish"}
    /\ db \in Ratings
    /\ tx \in Ratings
    /\ online \subseteq Players
    /\ ratings \in Ratings
    /\ fetched \in Ratings
    /\ loggingIn \subseteq Players
    /\ published \subseteq Games
    /\ accepted \subseteq Games
    /\ failures \in 0..MaxFailures
    /\ logins \in 0..MaxLogins

NoRatings == [p \in Players |-> [b \in Boards |-> <<>>]]

Init ==
    /\ accept = TRUE
    /\ queue = <<>>
    /\ worker = "get"
    /\ down = "no"
    /\ current = NoGame
    /\ rpc = "none"
    /\ db = NoRatings
    /\ tx = NoRatings
    /\ online = Players
    /\ ratings = NoRatings
    /\ fetched = NoRatings
    /\ loggingIn = {}
    /\ published = {}
    /\ accepted = {}
    /\ failures = 0
    /\ logins = 0

-----------------------------------------------------------------------------
(* The queue and its worker *)

\* enqueue, once for each game (GameLifecycle, PublishedOnce)
Enqueue(g) ==
    /\ accept
    /\ g \notin accepted
    /\ queue' = Append(queue, g)
    /\ accepted' = accepted \cup {g}
    /\ UNCHANGED <<accept, worker, down, rateVars, playerVars, failures>>

\* get returns; _rate starts as a task of its own
Get ==
    /\ worker = "get"
    /\ queue # <<>>
    /\ worker' = "rating"
    /\ queue' = Tail(queue)
    /\ current' = Head(queue)
    /\ rpc' = "start"
    /\ UNCHANGED <<accept, down, db, tx, published, playerVars, accepted, failures>>

\* Mutant: an exception of _rate ends the worker
DoneStops ==
    /\ current' = NoGame
    /\ rpc' = "none"
    /\ worker' = IF worker = "rating" /\ rpc # "publish" THEN "stopped"
                 ELSE IF worker = "rating" THEN "get" ELSE worker
    /\ UNCHANGED <<accept, queue, down>>

\* _rate is over and the worker, if it still waits, looks for the next game:
\* while self._accept_input or not self._queue.empty()
Done ==
    /\ current' = NoGame
    /\ rpc' = "none"
    /\ worker' = IF worker # "rating" THEN worker
                 ELSE IF accept \/ queue # <<>> THEN "get" ELSE "stopped"
    /\ UNCHANGED <<accept, queue, down>>

\* Mutant: shutdown cancels the worker although games are waiting
ShutdownCancels ==
    /\ down = "no"
    /\ down' = "join"
    /\ accept' = FALSE
    /\ worker' = "stopped"
    /\ UNCHANGED <<queue, rateVars, playerVars, accepted, failures>>

\* shutdown: the worker is cancelled if no game is waiting, even while it rates
\* one (its finally clause calls task_done)
Shutdown ==
    /\ down = "no"
    /\ down' = "join"
    /\ accept' = FALSE
    /\ worker' = IF queue = <<>> THEN "stopped" ELSE worker
    /\ UNCHANGED <<queue, rateVars, playerVars, accepted, failures>>

\* _queue.join returns
Joined ==
    /\ down = "join"
    /\ queue = <<>>
    /\ worker # "rating"
    /\ down' = "done"
    /\ UNCHANGED <<accept, queue, worker, rateVars, playerVars, accepted, failures>>

\* main returns: the database is closed and whatever still runs is cancelled
Exit ==
    /\ down = "done"
    /\ down' = "exited"
    /\ IF rpc \in Uncommitted
       THEN rpc' = "lost" /\ UNCHANGED current
       ELSE rpc' = "none" /\ current' = NoGame
    /\ UNCHANGED <<accept, queue, worker, db, tx, published, playerVars,
                   accepted, failures>>

-----------------------------------------------------------------------------
(* _rate *)

\* GameRater raises GameRatingError, or _rate waits for its connection
RateStarts ==
    /\ rpc = "start"
    /\ IF current \in Unratable
       THEN Done
       ELSE rpc' = "fetch" /\ UNCHANGED <<serviceVars, current>>
    /\ UNCHANGED <<db, tx, published, playerVars, accepted, failures>>

\* The transaction begins, _get_all_player_ratings
GetAllPlayerRatings ==
    /\ rpc = "fetch"
    /\ rpc' = "persist"
    /\ tx' = db
    /\ UNCHANGED <<serviceVars, current, db, published, playerVars, accepted,
                   failures>>

\* The ratings r once game g counts on leaderboard b for the players in S
Count(r, S, b, g) ==
    [p \in Players |-> IF p \in S THEN [r[p] EXCEPT ![b] = Append(@, g)]
                       ELSE r[p]]

\* Mutant: the Player object adds the game to what it knows
PersistRatingChangesTwice(S, b) ==
    /\ tx' = Count(tx, S, b, current)
    /\ ratings' = Count(ratings, S \cap online, b, current)

\* _persist_rating_changes for the players in S, and _update_player_object for
\* those who are signed in
PersistRatingChanges(S, b) ==
    /\ tx' = Count(tx, S, b, current)
    /\ ratings' = [p \in Players |->
                     IF p \in S \cap online
                     THEN [ratings[p] EXCEPT ![b] = tx'[p][b]]
                     ELSE ratings[p]]

\* _rate_for_leaderboard for the leaderboard of the game.  Nothing is stored if
\* rows of game_player_stats are missing.
RateForLeaderboard ==
    /\ rpc = "persist"
    /\ PersistRatingChanges(IF current \in Unlisted THEN {} ELSE PlayersIn[current],
                            BoardOf[current])
    /\ rpc' = IF BoardOf[current] = Global THEN "commit" ELSE "adjust"
    /\ UNCHANGED <<serviceVars, current, db, published, online, fetched,
                   loggingIn, logins, accepted, failures>>

\* _rate_for_leaderboard for the global rating: AdjustmentGameRater returns new
\* ratings for some of the players
AdjustGlobalRating(A) ==
    /\ rpc = "adjust"
    /\ A \subseteq PlayersIn[current]
    /\ PersistRatingChanges(A, Global)
    /\ rpc' = "commit"
    /\ UNCHANGED <<serviceVars, current, db, published, online, fetched,
                   loggingIn, logins, accepted, failures>>

\* Mutant: each leaderboard has a transaction of its own
CommitTwice ==
    /\ rpc \in {"adjust", "commit"}
    /\ rpc' = IF rpc = "adjust" THEN "adjust" ELSE "publish"
    /\ db' = tx
    /\ UNCHANGED <<serviceVars, current, tx, published, playerVars, accepted,
                   failures>>

\* The transaction is committed
Commit ==
    /\ rpc = "commit"
    /\ rpc' = "publish"
    /\ db' = tx
    /\ UNCHANGED <<serviceVars, current, tx, published, playerVars, accepted,
                   failures>>

\* Mutant: the message goes out before the commit
PublishEarly ==
    /\ rpc \in {"commit", "publish"}
    /\ published' = published \cup {current}
    /\ IF rpc = "publish" THEN Done ELSE UNCHANGED <<serviceVars, current, rpc>>
    /\ UNCHANGED <<db, tx, playerVars, accepted, failures>>

\* _publish_rating_changes
PublishRatingChanges ==
    /\ rpc = "publish"
    /\ published' = published \cup {current}
    /\ Done
    /\ UNCHANGED <<db, tx, playerVars, accepted, failures>>

\* A statement, the commit or the broker fails.  The transaction is rolled
\* back, the worker logs the exception.
Failure ==
    /\ failures < MaxFailures
    /\ failures' = failures + 1
    /\ rpc \in {"fetch", "persist", "adjust", "commit", "publish"}
    /\ Done
    /\ UNCHANGED <<db, tx, published, playerVars, accepted>>

-----------------------------------------------------------------------------
(* Players come and go (player_service.py) *)

\* fetch_player_data of a login
FetchPlayerData(p) ==
    /\ down \in {"no", "join"}
    /\ logins < MaxLogins
    /\ logins' = logins + 1
    /\ p \notin loggingIn
    /\ loggingIn' = loggingIn \cup {p}
    /\ fetched' = [fetched EXCEPT ![p] = db[p]]
    /\ UNCHANGED <<serviceVars, rateVars, online, ratings, accepted, failures>>

\* The new Player object takes the place of an older one
Register(p) ==
    /\ p \in loggingIn
    /\ loggingIn' = loggingIn \ {p}
    /\ online' = online \cup {p}
    /\ ratings' = [ratings EXCEPT ![p] = fetched[p]]
    /\ UNCHANGED <<serviceVars, rateVars, fetched, logins, accepted, failures>>

\* remove_player; only instances with logins look at it
RemovePlayer(p) ==
    /\ MaxLogins > 0
    /\ p \in online
    /\ online' = online \ {p}
    /\ UNCHANGED <<serviceVars, rateVars, ratings, fetched, loggingIn, logins,
                   accepted, failures>>

-----------------------------------------------------------------------------
RateStep ==
    \/ RateStarts \/ GetAllPlayerRatings \/ RateForLeaderboard
    \/ \E A \in SUBSET Players : AdjustGlobalRating(A)
    \/ Commit \/ PublishRatingChanges

Next ==
    \/ \E g \in Games : Enqueue(g)
    \/ Get \/ RateStep \/ Failure
    \/ Shutdown \/ Joined \/ Exit
    \/ \E p \in Players : FetchPlayerData(p) \/ Register(p) \/ RemovePlayer(p)

\* The loop runs the worker and _rate, and the database answers
Fairness == WF_vars(Get) /\ WF_vars(RateStep) /\ WF_vars(Joined)

Spec == Init /\ [][Next]_vars

FairSpec == Spec /\ Fairness

-----------------------------------------------------------------------------
(* Properties *)

Occurs(g, s) == \E i \in 1..Len(s) : s[i] = g

NoRepeats(s) == \A i, j \in 1..Len(s) : s[i] = s[j] => i = j

\* RatingService implements the ledger: the games count in the order of
\* acceptance, at most once, for all their players or for none, whatever
\* fails and whenever the service is shut down.
Ledger == INSTANCE RatingLedger WITH
    ratings <- db,
    pending <- (IF rpc \in Uncommitted THEN <<current>> ELSE <<>>) \o queue

LedgerSpec == Ledger!LedgerSpec

\* "success.rating.update" is only sent about ratings that are in the database
\* (or could not be stored because game_player_stats lacks their rows).
PublishedIsPersisted ==
    \A g \in published \ Unlisted : \A p \in PlayersIn[g] :
        Occurs(g, db[p][BoardOf[g]])

\* No game counts twice on a leaderboard.
RatedOnce ==
    \A p \in Players, b \in Boards : NoRepeats(db[p][b])

\* Between two games the ratings of a signed-in player in memory are those of
\* the database, as long as nothing fails.  A login that races a rating may
\* leave the player with old ratings, but never with ratings that nobody had:
\* what is shown then is what the database held at some time.
ShownIsOld ==
    current = NoGame /\ failures = 0 => \A p \in online, b \in Boards :
        /\ logins = 0 => ratings[p][b] = db[p][b]
        /\ Len(ratings[p][b]) <= Len(db[p][b])
        /\ \A i \in 1..Len(ratings[p][b]) : ratings[p][b][i] = db[p][b][i]

\* shutdown: "Finish rating all remaining games, then exit."
ShutdownFinishesRating ==
    down = "done" => rpc \notin Uncommitted

\* Every game that is accepted is settled, unless the service is shut down.
AcceptedIsSettled ==
    \A g \in Games : g \in accepted
        ~> down # "no" \/ (g # current /\ ~Occurs(g, queue))

\* shutdown returns, also when it starts between two games.
RatingStops == down = "join" ~> down \in {"done", "exited"}
=============================================================================

# Verification of the lobby server

This directory holds TLA+ models of the server in `src/server`, the TLC
configurations that check them on small instances, and proofs that TLAPS checks
for every instance. `PROJECT.json` maps every definition to the lines it models.

## 1. Inventory

The server is one Python process with one asyncio event loop. A coroutine runs
until it awaits something that is not ready, and nothing else runs in between.
All hard behaviour comes from what happens between two awaits: database calls,
sends to a socket whose buffer is full, the executor that computes matches,
timers, the message queue.

| Component | State | Operations | Talks to | Hard part |
|---|---|---|---|---|
| `Game` (`games/game.py`) | state, `_connections`, `_players_at_launch`, `finished`, `_finish_lock`, results, validity | add and remove connections, launch, add_result, check_sim_end, check_game_finish, on_game_finish, timeout | GameService, database | several players leave at once; two awaits before and under the lock |
| `GameConnection` (`gameconnection.py`) | `_state`, `finished_sim`, player, game | GPGNet handlers, connect_to_host, connect_to_peer, abort, setup timeout | Game, the peers' sockets | abort races itself, joins race aborts |
| `LobbyConnection` (`lobbyconnection.py`), `ServerContext` (`servercontext.py`) | player, game_connection, session, `_authenticated`; `connections` | login, timeout_login, commands, abort, kick, on_connection_lost, shutdown | all services | second login, a lost transport or a timeout at any await, peers that do not read |
| `PlayerService` | `_players` by id, dirty players | login, remove, permissions, ratings | database, BroadcastService | two logins of one id, removal by id |
| `GameService` | `_games`, dirty games and queues, `_drain_event` | create_game, remove_game, publish_game_results, drain_games | RatingService, MessageQueueService | the drain waits for the report that removes games |
| `BroadcastService` | `_report_dirties_event` | report_dirties, wait_report_dirtes | sockets, message queue | the mark and the state change have no common step; a report awaits the broker twice |
| `PartyService`, `PlayerParty` | `player_parties`, members, invitations | invite, accept, kick, leave, disband | LadderService through the player's state | an await in the middle of accept_invite |
| `LadderService`, `MatchmakerQueue`, `Search` | `_searches`, `_queue`, futures | start_search, cancel_search, find_matches, on_match_found, shutdown | GameService, ViolationService, the executor | cancellations while the executor computes |
| `LadderGame`, `launch_match` | hosted and launch futures | wait_hosted, wait_launched, GameClosedError | GameConnection, ViolationService | two timeouts against late answers |
| matchmaking algorithms | failed attempts per search | team building, stable marriage, choice of games and maps | executor | numeric edges, searches that are passed over |
| `GameResults` | reports per army | add, outcome, score, resolve_game | Game | conflicting reports |
| `RatingService` | `_queue`, player caches | enqueue, worker, rate, persist, publish, shutdown | database, message queue | errors and shutdown during a rating |
| `ViolationService` | count and time per player | register, get_violations, clear_expired | LadderService | boundaries, three ways of cleaning up |
| `VetoService` | limits per pool, tokens per map and player | set_player_vetoes, update_pools | LadderService | caps, pools that change in several steps |
| `MessageQueueService` | `_is_ready`, channel, exchanges, `initialization_lock` | initialize, publish_many, reconnect, shutdown | RabbitMQ | reconnect and shutdown during a publication |
| shutdown (`main.py`, `__init__.py`) | the drain task | graceful_shutdown, drain, shutdown | all services | order, a second signal |
| stats, OAuth, GeoIP, configuration, protocol encodings, database tables | caches | refresh, encode | the outside | none of their own |

What makes them correct, in short: a game's results leave it exactly once and
it stays closed afterwards; a lobby always has a host; no player is left busy,
queued or in a party by a failure of somebody else; parties, searches and
matches agree on who takes part; ratings are applied once and in order; whoever
may search is matched in the end, evenly and on a map; the registry of players and
the open connections agree; the server ends when it is told to and loses nothing
that it has cleared.

## 2. Modules

### GameLifecycle

One custom game, from `create_game` on, with the sessions of the players who may
take part. A *session* is one login: a `LobbyConnection`, its `Player` object and
at most one `GameConnection`. `PlayerOf` says whose login it is, so that a second
login of one player is a second session; `Player` defines no equality, so only
the login that hosted the game is `game.host`.

Every coroutine is a task `<<session, kind>>`: `msg` is the read loop of the lobby
connection, `tmo` the setup timeout of the GameConnection, `kick` an abort that a
second login or an administrator starts. `pc` is where the task stands and
`running` the task in the middle of a synchronous stretch. While `running` is not
empty only that task moves: labels such as `abort` or `check` are places inside a
stretch, labels such as `peers`, `simEnd`, `lock`, `results`, `launching`,
`sendPeer` are awaits where others run. `ret` is the caller's place that
`check_game_finish` returns to. `UnauthenticatedMessage` is a message that arrives after
an abort: `ensure_authenticated` aborts once more, beside the first abort. `Late` are
the sessions that have such a message under way (a bound for TLC; the theorems are
about any set of sessions).

| Variable | Code |
|---|---|
| `gstate`, `finished`, `conns`, `launched`, `finishLock` | `Game.state`, `finished`, `_connections`, `_players_at_launch`, `_finish_lock` |
| `registered`, `dirty` | membership in `GameService._games` and `_dirty_games` |
| `link` | the lobby connection: `none`, `login`, `up`, `kicked` (abort has run, it is no longer authenticated), `closing` (a message on it made its read loop abort, too), `down` (transport closed), `gone` (on_connection_lost has run) |
| `cstate`, `attached`, `simDone` | `GameConnection._state`, `player.game_connection`, `finished_sim` |
| `pstate` | `Player.state` |
| `fa` | how far the game process has got with its reports |
| `published`, `faults` | history: publications, failures used up |

Left open or assumed:
the game process (external) reports Idle, Lobby, GameEnded and Ended at most once
each, in that order; a session has one GameConnection during the life of the game
(a player who left does not join the same game again on the same login); which
players are launched, whether there are results and whether they are valid are
free choices; database calls take time and do not fail; a player signs in from
one place at a time. The publication is counted at the moment the game becomes
ENDED after it.

### LadderSearch, PartyService, MatchmakerQueue

`LadderSearch` is what `LadderService` promises about searches, in one atomic
step per call: a search is a set of players and a queue, and starting,
cancelling and matching searches goes together with the players' states. It also
has the steps of other games that touch the same `Player.state` (`CommandGame`,
`LaunchGame`, `LeaveGame`, and an abort that waits for slow peers, `AbortWaits`
and `AbortDone`), because `GameConnection.abort` sets a player to IDLE without
looking.

`PartyService` extends it with parties. `partyOf` is `player_parties`, `party`
the `PlayerParty` objects, `dirtyParties` is `_dirty_parties`, `informed` the
players who were sent the present party. Every party command of a lobby
connection is one action; the only await inside an operation is `leave_party`
within `accept_invite`, so `AcceptInvite` ends with `accepting[p]` set to the
party object that the suspended call holds, and `EnterParty` is the rest.

`MatchmakerQueue` has the same searches as the code keeps them: `registry` is
`_searches`, `obj` and `fut` are the `Search` objects and their futures, `task`
is the coroutine `MatchmakerQueue.search` of each, `queued` the `_queue` of each
queue, and `pop`, `lock`, `snapshot` the pop loop: timer, the spin lock, the
executor call on a snapshot. It implements `LadderSearch` (`LadderSpec`).

Left open or assumed: which pairs the algorithm proposes (any disjoint pairs of
teams of the right size from the snapshot), the order of `_queue`, the rating
windows and failed-attempt counters; whether an invitation has expired (nobody
is forced to accept); factions; refusals of `start_search` by bans and
validations (nobody is forced to search). `open` turns FALSE in
`graceful_shutdown`, which only `MatchmakerQueue` takes. A player who logged off
does not return as the same `Player` object. `Gamers` are the players who also
play other games.

### StableMarriage, TeamMatchmaker

What the executor computes for one queue. `StableMarriage` is the algorithm of the
1v1 queues, one proposal per step and pop after pop: `Graph` is `_MatchingGraph`
(`fast` chooses between `build_full` and `build_fast`), `ranks` what is left of the
preference lists, `matches` the policy's dictionary, `attempts` the failed attempts
that lower the `Threshold` of a `Search`. `TeamMatchmaker` has the team queues: one
step is one search of the queue around which a game is picked (`Pick`), split into
teams (`make_teams` with its shortcuts for large parties, its filler and
Karmarkar-Karp, where a container is a difference of ratings with the searches of
both sides) and rated (`GameQuality`). Ratings count in hundreds of points and
qualities in thousandths, with an integer square root.

Left open or assumed: `quality_with` of a pair is any value of a small set, since
trueskill computes it; the rating deviation of a player does not matter for teams.
The docstring of `StableMarriage` speaks of a "maximal stable matching"; what is
checked is weaker and what the queue needs: matches are pairs that both accept, and
compatible searches do not wait for ever.

### VetoService, ViolationService

`VetoService` is `update_data` of `LadderService` with `veto_system.py` and
`choose_map`. `update_data` awaits the database before every queue and adjusts the
vetoes after the last one (`next` is the queue it stands at), so that matches start
and players set vetoes with new pools and old limits. `Weights` are fractions with one
denominator (`one`), with the dynamic tokens per map as the code searches for them.
`failed` is a match that got no map, with its queue: it happens with a pool that is
empty, while the limits are outdated, and when the minimum of a pool is 0 and the
players of a match veto all of its maps, where `random.choices` raises. `Remaining` is
what `apply_antirepetition_adjustment` leaves: which maps lose their weight, not how
much of it others gain.

`ViolationService` keeps an entry per player until somebody looks at it after its
reset time: `ClearExpired` is the timer, `GetViolations` the next search,
`RegisterViolations` the next failure. `failures` is a history variable: the
failures in a row as they happened, which nothing clears.

### LobbySessions

The connections of one `ServerContext` with the sign-in and `PlayerService`. `at` is
the await where a handler stands: `policy` (everything up to the check for an old
player), `update` (the write of last_login), `fetch` (fetch_player_data). `me` is the
`Player` object of the connection, `players` the registry, with the connection of
the object that is registered. `timers` are pending `timeout_login` tasks, `kicked`
the tasks `write_warning` created, `link` the transport: a transport that is
`closing` still has a buffer to send, and for a peer in `Stuck` it never empties.
`Leave` is the `finally` of `handle_client_connected` with `on_connection_lost` and
`remove_player`.

Left open or assumed: how a client proves who it is (a sign-in may be refused or
fail at each await); what a signed-in client does, except `Garbage`, a command that
makes the handler abort; the awaits between "welcome" and the next message belong to
the step `Register`. A connection that has ended is not used again.
`drain_connections` has no caller.

### ServerShutdown

`main.py` (`main`), the connection to the broker and its publishers. A channel is the
number of its connection, 0 is `None`, and `exchange` is the channel that the
exchanges were declared on. `holder` and `step` say who holds `initialization_lock`
and where; `tx` is the channel on which a publisher's transaction was begun, which
fails if the channel is another one when it ends (`Sent`). A report clears the ended
games and then publishes twice, about players and about games (`doing`, `popped`);
`latest` is the report whose event `wait_report_dirtes` looks for, `awaited` the one
it waits for, `cut` the games whose message was refused after the shutdown of the
service.

The timer starts a report whatever the last one does (`Timer._loop`), so any number of
them may publish at the same time, and each replaces `_report_dirties_event`. What the
wait of `drain` achieves is therefore only `AwaitedIsPosted`: the games of the report
it waits for are not lost to the shutdown of the services. `waited` is history: the
games that report had still to publish when the wait began. What the comment in `drain`
says, `DrainedIsPosted` (no cleared game is lost), does not hold: `drain_posts`.

An attempt to connect may fail with an error that is handled, or with one that is
not (`channel()`, or a declaration of an exchange): the lock is released, `initialize`
takes `main` along and `reconnect` leaves the service as it is, ready without exchange
if it was made ready before (`Raised`).

Left open or assumed: connections are lost through `reconnect` (which a change of the
configuration calls); the exchanges are declared together.

### LadderMatch

The start of one match: the task of `_start_game` (`pc`) with `launch_match`, the
futures `hosted` and `launch` of `LadderGame`, and the connections of the host
and the guests as far as they drive the futures. A timeout may expire at any time
while its future is pending; `asyncio.wait_for` then cancels the future, and a
late `set_hosted` or `set_result` raises, which aborts the host's connection
(`HostLobby`, `LaunchDone`). `Fail` is the except block with `on_game_finish`,
`match_cancelled` and `register_violations`; when the game is already LIVE it
awaits the database (`finishing`). `write_launch_game` may raise for the host
(`LaunchHostFails`) or for a guest, with any of the others launched already
(`GuestsFail`): before there is a `GameConnection` (an assertion), or after it with
nothing sent (the transport is closed already), a connection that is `UNSENT` here and
that only its setup timeout ends. `RemoveConnection` is
`remove_game_connection` with both versions of `check_game_finish`.

Left open or assumed: the awaits inside a handler of a `GameConnection` are those
of `GameLifecycle` and are atomic here, except the database writes of `launch`,
during which the host's further messages wait (`Free`); the game process sends
Idle, Lobby and Launching in this order; the map, the game options and `Game`'s
results are left out.

### GameResults

The results of one launched game. `back`, `outcomes` and `dirty` are the fields of
`GameResultReports`; since the order of reports never matters, `back[a]` is a bag.
`ComputeOutcome`, `Metadata`, `Score`, `ResolveGame`, `TeamSets` and
`OverriddenOutcomes` are the pure functions of the code. `unsent`, `stats` and
`statTasks` are the pending army statistics: `Remaining` is the loop of
`_process_pending_army_stats`, which removes from the list it iterates over. The end
of the game has two stretches: `PersistResults` (up to the await of the database) and
`ResolveGameResults` (with the publication); reports may arrive in between and after.
`FinishFailed` and `ResolutionFailed` are the exceptions that `on_game_finish` logs: a
failure of the database, at the rows or at either mark of validity, `get_basic_info`
with a missing team, the override with a single team; each keeps what was marked
before it. `PlayerLeaves` is `check_game_finish` for a player who leaves a game that
goes on, or one that has ended. `Setups` lists the kinds of games: custom, ladder,
ladder with `LADDER_1V1_OUTCOME_OVERRIDE`, and the teams.

Left open or assumed: a tag stands for the whole set of metadata words; which of
several foremost outcomes comes first in the sorted list (they tie, so none of
them is decided); how long the game lasted (`short`). Players at launch have an
army, as `_is_observer` removes the others.

### RatingLedger, RatingService

`RatingLedger` is the promise: the games that are accepted are settled in the
order of acceptance, each for all of its players or for none. `RatingService` has
`_queue`, the worker, the coroutine `_rate` under `asyncio.shield` (`rpc` is the
await where it stands), the transaction (`tx`) and the committed rows (`db`), the
`Player` objects (`ratings`), logins between `fetch_player_data` and their
registration, failures at any await, and `shutdown` with the exit of `main`.

A rating is the sequence of the games that went into it; trueskill's numbers, the
creation of rows from another leaderboard (`NoRatings`) and the reload of the
leaderboards by the timer are left out, and so is `kill`, which only tests call.
`Unratable` and `Unlisted` are games that `GameRater` refuses or that have no
rows in `game_player_stats`.

### Proof modules

| Module | is about |
|---|---|
| `GameLifecycleProofs` | `GameLifecycle` |
| `PartyServiceProofs` | `PartyService`, `LadderSearch` |
| `MatchmakerProofs` | `MatchmakerQueue`, `StableMarriage` |
| `LadderServiceProofs` | `LadderMatch`, `ViolationService`, `VetoService` |
| `GameResultsProofs` | `GameResults` |
| `RatingServiceProofs` | `RatingService`, `RatingLedger` |
| `ServerProofs` | `ServerShutdown`, `LobbySessions` |
| `FiniteSums` | induction over numbers and finite sets, sums over finite sets |

Section 4 says what they prove. The `MC` modules hold the values of constants and the
symmetries. `MCLadderRules`, `MCProgress` and `MCGames` put several models into one
run: the parts share no state, `part` says which one a behaviour is about, and the
variables of the others stay as they are. The names `ServerInit`, `LobbyInit`,
`VetoNext`, `BansNext` and the like keep the definitions of two parts apart.

## 3. Runs

All configurations say `CHECK_DEADLOCK FALSE`: a game that is over, a player who
logged off for good, a service that was shut down have nothing left to do, and
the number of logins, failures, games and reports is bounded.

| Run | Instance | Shows |
|---|---|---|
| `game_sessions` | host, second login of the host, one guest; one failure at any moment, late messages of the host's first login | no lobby without host, one task ends the game, connected players are busy, an ENDED game is reported |
| `game_peer_lost` | host and guest, one failure | **violation** of `OnlyOwnFailureDisconnects` |
| `parties` | three players (one of them plays other games), two party objects, one queue; symmetry | parties and members agree, a party without owner is closed, members are informed, searchers are queued |
| `party_queued` | two players | **violation** of `NobodyJoinsQueuedParty` |
| `ladder_rules` | queues: a party of two and two single players, a queue of 2v2 and one of 1v1, three Search objects, symmetry; teams: queues of five and seven parties of a game of four against four; vetoes: two players, two queues, three maps, seven setups of a pool (two with a minimum of 0), one update; bans: two players, a threshold of two | the queues implement `LadderSearch`, registry and futures agree, no match after the shutdown; an even split is found; the minimum of maps remains, a match finds its map; bans are served exactly |
| `progress` | match: host and two guests; search: two players, one of whom plays other games; duels: four searches, six pops; lobby: two connections to one account, one of them stuck; rating: three games (one refused), one failure; shutdown: two games, two reports that may overlap, two attempts to connect; fairness of each part | cancelled games stay down, blame, launched players are released; a search that is over leaves its queue; matches are pairs and compatible searches are matched; no ghost in the registry, sign in or end, the shutdown ends all connections; every accepted game is settled, the rating service stops; a ready broker is usable, the games that are waited for are posted, main ends |
| `drain_posts` | two games, two reports, one connection | **violation** of `DrainedIsPosted` |
| `match_stranded` | host and one guest, `FairSpec` | **violation** of `CancelledCanQueueAgain` |
| `game_results` | five voters, two armies, up to seven reports, five kinds of games; symmetry of three voters | the cached vote is current, one report never flips a decision, a winner has the votes and nobody else has them undisputed, VALID is ratable, rows and publication agree up to late reports |
| `games` | game: host and guest, both with late messages, one failure, with its fairness; rating: two players, two leaderboards, three games (one refused), one failure or one login | a starting player is released, a lost session leaves, an abandoned game is removed; `RatingLedger` is implemented, published is persisted, shown ratings were true |
| `rating_shutdown` | two games, no failure | **violation** of `ShutdownFinishesRating` |
| `signed_in` | two connections, one account | **violation** of `AuthenticatedIsManaged` |

Why the bounds are enough. Races in this code are between two coroutines over one
object, at times three (two that leave and one that waits for a lock).
- Games: three sessions give every such triple; one failure hits a read loop or starts
  an abort beside it, and a late message a second one. `MaxPublished` is 2: enough to
  see a second one.
- Parties: three players are an owner, a member and someone who is about to
  enter; two party objects are the party one leaves and the one one enters.
- Queues: three Search objects are the two sides of a match and one that replaces
  or competes with them in the other queue; `{p1, p2}` shares one search.
- Match: two guests are one who is missing or leaves and one who is fine. The
  theorems about a match hold for any number.
- Teams: five parties of one to four players meet every shortcut of `make_teams`,
  seven of one or two the differences of Karmarkar-Karp; the averages are mixed,
  in two clusters more than 1000 points apart, and all equal.
- Duels: four searches are the smallest number where someone is passed over twice;
  one is a newbie and one a top player; qualities lie below, between and above the
  thresholds, and six pops let the thresholds of all fall as far as they go.
- Vetoes: two players with up to four tokens on three maps reach the cap of a map,
  of a player and of the pool; one update of two queues has the window between them.
  The pools with a minimum of 0 have fixed and dynamic tokens.
- Bans: threshold two, bans of 1 and 3, reset after 4, a clock up to 7 and three
  failures: each boundary is met exactly, one before and one after.
- Sign-in: the registry is by account, so two connections and one account suffice
  for a race; one peer that never reads.
- Shutdown: two attempts to connect are a loss and a return or a failure; two
  reports are the one that is waited for and one that starts before or during the wait.
- Results: the smallest decision by a lead of three against more than one
  dissenter takes 5 to 2 votes, hence seven reports, and with them an army that leads
  without deciding meets a winner on the other side; `MaxCopies` 1 since a
  repeated report of a voter does not change the vote, `MaxLate` 1 since late
  reports only matter as the set of armies they are about.
- Ratings: a game in progress, one behind it and one that fails. A behaviour of `games`
  has a failure or a login but not both: `ShownIsOld` speaks of behaviours without
  failure, and what is committed and published does not depend on logins.

Fairness, and why the code justifies it:
- `GameLifecycle`: the loop runs every coroutine that is ready, timers fire, the
  database and the sockets answer. Nothing is assumed about clients.
- `MatchmakerQueue`: tasks run, the pop timer fires, the executor returns; the
  spin lock is polled (`asyncio_extensions.SpinLock`), so a queue that waits gets
  it when it is free again and again: strong fairness of `FindMatches`.
- `LadderMatch`: `_start_game` goes on when its future is done or its timer
  expires, the writes of `launch` end, setup timers expire, and a client that was
  told `match_cancelled` closes the game it started (as the client does in
  `tests/integration_tests/test_matchmaker.py`).
- `StableMarriage`: the timer fires and `find` returns.
- `LobbySessions`: handlers, tasks, transports and timeouts make progress; nobody has
  to sign in, and no sign-in has to succeed. The steps that begin or end a
  connection share one condition: each connection takes them a bounded number of
  times, so none is passed over for ever.
- `ServerShutdown`: whoever holds the lock goes on (connecting may fail), a publish
  returns or raises, main goes on; no signal is assumed.
- `RatingService`: the worker takes the next game, `_rate` goes on or fails,
  `join` returns. Only `progress` assumes it: `games` checks safety of ratings.

What the violation runs show:
1. `game_peer_lost`: `connect_to_host` sends to the host's connection and does not
   handle `DisconnectedError`, so a joining guest loses the lobby connection when
   the host's transport is closed; the docstring of `send` warns of this.
2. `party_queued`: `accept_invite` checks that the party is not in a queue, awaits
   `leave_party` and then enters; the owner may have started a search meanwhile.
3. `match_stranded`: an offline host makes `launch_match` raise before its `try`,
   so the guests are told `match_cancelled` but get no `game_launch`; they stay
   STARTING_AUTOMATCH and no queue takes them until they log in again.
4. `rating_shutdown`: an empty queue is taken for an idle worker; the last game may
   still be in its transaction when `shutdown` returns and the database closes.
5. `signed_in`: the handler of a first login may end after the second login is
   registered, and `remove_player` takes out whoever has the id; the second
   connection stays authenticated and open without being in `PlayerService`.
6. `drain_posts`: a report has cleared a game and waits for the broker when the timer
   starts the next one, whose event replaces its own and is set at once; `drain` finds
   nothing to wait for, and the services are shut down before the game's message is
   posted. It takes a broker that is slower than `DIRTY_REPORT_INTERVAL`.

Behaviours the models contain that are no run of their own, because nothing in the
repository says otherwise: an owner may kick himself, which leaves a party without
owner (closed, as `OrphanPartyIsClosed` shows); a late `GameConnection.abort` sets a
queued player to IDLE (his search stays); `_update_player_object` runs before the
commit, so after a rollback the objects are ahead of the database; the loop over
unsent army statistics skips players; the launch timeout may cancel a game that is
LIVE and still writing its rows; a guest who is connected but not yet configured is
blamed for a launch timeout; a host who times out is not blamed when a guest is
offline; DRAW and MUTUAL_DRAW votes count separately; two sign-ins of one account
that overlap both pass the check for an old player; after an `initialize` that failed,
a `reconnect` that succeeds knows no exchange, so that `publish` raises and
`publish_game_results` hands nothing to the rating service until the next start
(`Refused`, `EndGame`); a second signal during the wait for the last report cancels
`main` itself (`Interrupted`); a match that starts between two queues of an update
may get no map (`Outdated`); with a minimum of 0, which the validator accepts
(`tests/unit_tests/test_veto_system.py:94`), the players of a match may veto all maps
and `random.choices` raises (`AllVetoed`); a client that was not sent `game_launch`
keeps its `GameConnection` until the setup timeout (`UNSENT`).

## 4. Proofs

Everything here holds for every value of the constants that the named assumptions
of the modules allow: `LifecycleAssumption`, `SearchAssumption`, `PartyAssumption`,
`QueueAssumption`, `MatchAssumption`, `ResultsAssumption`, `RatingAssumption`, and as
hypotheses of the theorems `ShutdownAssumption`, `ViolationAssumption`,
`LobbyAssumption`, `MarriageAssumption` and `VetoAssumption`. TLC evaluates all of
them. What they ask for is what the code provides:

- `LobbyAssumption`: the accounts a client signs in with are accounts of the database.
- `MarriageAssumption`: searches have different places in the order of `avg_mean`
  (`sorted` puts them in one), and a quality is a number.
- `VetoAssumption`: the ids of the maps of a pool differ (they are the primary key of
  `map_pool_map_version`), limits and tokens are natural numbers (`_is_valid_vetoes`
  refuses negative ones). The column `minimum_maps_after_veto` is a Float; a minimum
  that is not a whole number is left out.
- `ResultsAssumption`: the players are finitely many, and scores are integers.

| Module | Theorem | Property |
|---|---|---|
| `GameLifecycleProofs` | `TypeCorrect` | `TypeOK` |
| | `EndIsReported` | `EndedIsReported` |
| | `FinishExclusive` | `FinishIsExclusive` |
| | `PublishedGameStaysEnded` | `PublishedStaysEnded` |
| | `PublishedAtMostOnce` | `PublishedOnce` |
| | `OpenGameHasHost` | `LobbyHasHost` |
| | `ConnectedAreBusy` | `ConnectedPlayersAreBusy` |
| `PartyServiceProofs` | `PartyTypeCorrect` | `TypeOK` |
| | `MembershipCorrect` | `MembershipAgrees` |
| | `OrphanPartyClosed` | `OrphanPartyIsClosed` |
| | `MembersInformed` | `MembersAreInformed` |
| | `SearchPerQueue`, `SearchersQueued` | `OneSearchPerQueue`, `SearchersAreQueued` |
| `MatchmakerProofs` | `QueueTypeCorrect` | `TypeOK` |
| | `SearchesAreRegistered` | `RegisteredIsPending` |
| | `ShutdownEndsMatching` | `NoMatchAfterShutdown` |
| | `QueuesImplementSearches` | `LadderSpec` (refinement) |
| | `MatchesPairUp` | `MatchesArePairs` |
| `LadderServiceProofs` | `MatchTypeCorrect` | `TypeOK` |
| | `HostAssertionHolds` | `OnlyHostBeforeHosted` |
| | `CancelledNeverLive` | `CancelledStaysDown` |
| | `BlameJustified` | `BlameIsJust` |
| | `BansServed` | `BansAreServed` |
| | `LimitsKept` | `VetoInv` |
| | `PromisedMapsRemain` | `MinimumMapsRemain` |
| | `AMapIsFound` | `MatchFindsMap` |
| `GameResultsProofs` | `OutcomeCacheCorrect` | `CacheIsFresh` |
| | `OneReportNeverFlips` | `DecisionIsStable` |
| | `WinnersHaveTheVotes` | `WinnerHasTheVotes` |
| | `RowsArePublished` | `PersistedIsPublished` |
| | `ValidGamesAreRatable` | `ValidIsRatable` |
| `RatingServiceProofs` | `RatingTypeCorrect` | `TypeOK` |
| | `RatedAtMostOnce` | `RatedOnce` |
| | `PublishedPersisted` | `PublishedIsPersisted` |
| | `LedgerRefined` | `LedgerSpec` (refinement) |
| | `ShownWasStored` | `ShownIsOld` |
| `ServerProofs` | `ShutdownTypeCorrect` | `ServerTypeOK` |
| | `ReadyServiceUsable` | `ReadyIsUsable` |
| | `DrainWaitsForReport` | `AwaitedIsPosted` |
| | `SessionsTypeCorrect` | `LobbyTypeOK` |
| | `RegistryHasNoGhosts` | `NoGhost` |

GameLifecycle. `FinishIsExclusive` is not inductive: one has to know that a task
between the decision and the end holds the lock (`LockInv`), that a label inside
a stretch is only held by the running task (`StretchInv`), and that a kick task
is never at a place only a read loop reaches (`KickInv`); together `FinishInv`.
`PublishInv` adds that a game that was launched has a host who passed Idle
(`HostingInv`) and that an ENDED game can only be opened again by a host who has
not (`NoReopenInv`); hence a game whose results are out cannot return to LOBBY,
`on_game_finish` of an ENDED game is never entered, and a second publication is
impossible. `HostInv` says that whenever the host is not among the connections of
a LOBBY game, the running task is one that is about to end the game
(`HostLeaves`). `BusyInv` is independent of those: a guest who waits in
connect_to_host is joining unless an abort has ended its connection (`GuestInv`), a
task past the middle of an abort has an ENDED connection (`AbortInv`), and "Idle"
cannot bring an ENDED connection back, because before that message the connection
can only be ended by a task that lets the player go in the same stretch
(`EndedInv`). `BusyMove` covers every step that only moves a task, `BusyChange` what
the read loop does to its connection; `EndConnection` and `ReleasePlayer` have lemmas
of their own.

PartyService. The three party invariants need each other and
`AcceptingHasNoParty`: a player whose `accept_invite` is suspended has left the old
party, which is what makes entering the new one safe. The two promises about
searches are inductive together with their type.

MatchmakerQueue. `RegisteredIsPending` says too little to be inductive: that a
cancellation clears the entries of all players of a search needs the registry and
the Search objects to agree on who is in it, in both directions (`PendingInv`,
`EntryInv`), and that an object is not reused needs its task, queue and snapshot to
keep it alive (`TaskInv`). `ExecutorInv` adds that only the queue with the lock has a
snapshot and that nothing in it is matched before the executor answers, so what
`match` lets pass can still be matched (`MatchedArePending`). With `ClosedInv` (nothing
pending after `graceful_shutdown`) the set of new matches is empty then. For the
refinement `searches` is the set of the registered objects; `ViewAfter` and
`ReleasedAre` say once what a set of finished searches does to it and to the players'
states, and each action cites them. `SearchPerQueue` and `SearchersQueued`, proved
about the same operators of `LadderSearch` in PartyService, are about these steps too.

LadderMatch. `Inv` relates the place of `_start_game` to the hosted future
(`StageInv`: a LOBBY of a failed match was not hosted, so it cannot be launched),
says that no guest has a connection before that future is done (`GuestsInv`), and
what a player's connection tells about his membership, the error of a future and
his presence (`ConnsInv`). The action properties follow from `Inv` in one step.

GameResults. `ReportsInv` says that reports are well formed and finitely many and that
the cache is fresh. `OneReportNeverFlips` is arithmetic on votes: one report changes
the voters of one outcome by at most one (`AddVote`), a decided outcome has strictly
the most voters (`DecidedLeads`), and by the two thresholds of `Leads` no other
outcome can lead after one more vote (`NoFlip`). `WinnersHaveTheVotes` adds that the
fresh cache holds what the reports yield (`VictoryVotes`), that the teams cover the
players (`TeamsCover`) and that `resolve_game` lets one of exactly two teams win, by a
claim that the other has none of (`OneTeamWins`). The other team may have the votes
all the same: an army that leads with less than three votes before an outcome that has
two itself is CONFLICTING, and makes no claim (`Contested`). `RowsArePublished`
compares two computations of one outcome with an await between them: by `RowsInv` a
row that was written is what the vote yields unless its army is in `late`, and the
second stretch reads the same cache. `ValidGamesAreRatable` has two halves. What
`resolve_game` returns has one winner and one loser, or draws (`ResolvedIsRatable`).
What `LADDER_1V1_OUTCOME_OVERRIDE` computes from scores fits together because two
teams of a game that has two players have one army each (`TeamsAreFew`) and a score is
one that was reported, or 0 (`ScoreIsReported`; `CountIsInteger` and `GreatestExists`
for the counts and maxima it is chosen by).

RatingService. The invariant says what the open transaction contains at each await
(`TxInv`), which games are where (none in two of queue, task and ratings), what the
worker and the task have in common (`TaskInv`), and that a shutdown stops the intake
(`DownInv`). `ShownWasStored` needs `ShownInv` on top: what a login has read and what
a `Player` object shows are prefixes of what is stored, where "stored" means the open
transaction once `_update_player_object` has run. A login that races a rating leaves
an older prefix, a failure or an exit of `main` in between leaves the claim open
(`failures = 0`, `rpc # "lost"`), as in the property. `LedgerRefined` maps the queue,
with the game whose transaction is open in front, to `pending` and the committed rows
to `ratings`.

ServerShutdown. `BrokerInv` says what initialize, reconnect and shutdown leave to each
other through the lock: who may stand at which await, that nobody is ready while the
connection is replaced, and that `initialize` finds no exchange. Three
parts are about the wait. `WaitMain` says where `main` may be while something is waited
for, `WaitGames` that the games of a report are cleared ones, and `WaitCut` that the
games of `waited` which are not posted yet are in the report `awaited`, so that none of
them is left once the wait is over, and that nothing is cut before the services stop.
Other reports may come and go, as they never touch the games of that one.
`Effect` is the common shape of all steps of a report, so that their
case analysis happens once.

LobbySessions. `SessionInv` ties the place of a handler to the set of connections: a
connection is served exactly while its handler reads or signs somebody in, and from
"policy" to "update" the account it signs in is known. `Leave` is the one step that
ends a handler, wherever it stands, and it takes its player out (`LeaveKeeps`); kicks,
timeouts and the shutdown only touch transports (`TransportKeeps`).

StableMarriage. `MatchesArePairs` needs that acceptance is mutual, which holds for both
ways of building the graph (`GraphIsMutual`), and that a preference list only loses
members (`GraphInv`). A proposal goes to the best search that is left
(`PreferredIsRanked`, from `GreatestExists`: a finite set has a greatest element under
a total order), and `MatchKeepsPairs` covers the four cases of who was matched before.

VetoService. `VetoInv` says that everybody's tokens are within the limits in force
(`LimitsKept`): `_adjust_vetoes_for_bracket` goes through the maps with the tokens
that are left, and `CapWithin` follows this fold map by map. From there
`PromisedMapsRemain` is counting: each of the players of a match gives at most
`veto_tokens_per_player` tokens, so their sum over all maps is bounded
(`SumByColumns`), while every vetoed map costs `max_tokens_per_map` of them
(`FixedWeights`). With dynamic tokens the search for the number of tokens per map
ends at a first solution (`FirstSolution`; one exists since all maps together solve
it, `NoSolution`), and with it the weights add up to the minimum (`DynamicWeights`).
`AMapIsFound` adds that a pool with wrong limits is not vetoed at all, and that the
map that was played least keeps its weight (`SomeRemain`). A pool with a minimum of 0
(`tests/unit_tests/test_veto_system.py:94`) is no exception from the theorem. A map
without tokens keeps its weight there, and so does one whose tokens stay below a fixed
`max_tokens_per_map` (`KeepsWeight`); so the weights are all zero only if the players
have vetoed the pool map by map (`AllVetoed`). The property names this as the one case,
besides an empty pool and one that is being replaced, in which a match gets no map.

ViolationService. `HistoryInv` compares what the service remembers with the failures
as they happened: an entry that is there is the last failure, one that is not is
older than the reset time. `BannedIsJust` then needs that bans are no longer than the
reset time (`ViolationAssumption`).

The type invariants, `PublishedStaysEnded`, `PublishedOnce`, `OneSearchPerQueue`,
`OnlyHostBeforeHosted` and `RatedOnce` are proved for all instances and not part of a
run; `GameResults` has no type invariant of its own, since `ReportsInv` says what its
reports are.

FiniteSums. The library's induction theorems take an operator as a parameter and
cannot be instantiated here. `AllNaturals` and `AllSubsets` say the same about sets (a
set that has 0 and the successors of its numbers, or the empty set and everything that
is one element more) and follow from `WFMin` and the order of the naturals, which are
stated about sets in the library. The community modules define `MapThenSumSet` by a
function over the subsets that takes one element out after the other; `FoldExists`
shows by `AllSubsets` that there is one such function, `SumIs` that the sum is its
value, and the remaining lemmas (`SumSplitsOff`, `SumMonotone`, `SumUnion`,
`SumChanged`, `SumByColumns`) are what one expects of sums.

Only model-checked: all liveness with its fairness (`StartingPlayerIsReleased`,
`LostSessionLeaves`, `AbandonedGameIsRemoved`, `LaunchedCanQueueAgain`, `DoneLeavesQueue`,
`CompatibleAreMatched`, `UnauthenticatedEnds`, `ShutdownEndsSessions`, `MainEnds`,
`AcceptedIsSettled`, `RatingStops`), which is outside the prover's reach; and
`EvenSplitIsFound` of `TeamMatchmaker`, whose operators are recursive (the prover loses
its arithmetic in a module with a RECURSIVE operator). The violation runs are
counterexamples and need no proof. Every other property of a run is proved.

## 5. Plan

In this order:
1. Validity of a game: `validate_game_settings` and `Game.launch` with their awaits
   (hazard at `game.py:741`), together with the game options.
2. Changes of the set of queues in `update_data`, with the searches of a queue that
   disappears.
3. `TeamMatchmaker` with recursive functions instead of operators, for a proof that
   the teams it makes are disjoint and complete.

## 6. Not modelled

Encodings of the protocols, OAuth, GeoIP, the configuration file, database tables,
metrics and the profiler: input and output without state of their own. Achievements
and events: a table of thresholds over unit counts. Chat, social lists, avatars, the
administrative commands and the game options: single steps on single records.
`bucket_teams.py` is not used by the server, `declare_exchange` and
`drain_connections` have no callers. trueskill and the numbers of a rating: a
library. `PROJECT.json` lists every component with its status.

-------------------------- MODULE RatingServiceProofs --------------------------
(***************************************************************************)
(* Proofs about RatingService for all games, players and leaderboards.     *)
(***************************************************************************)
EXTENDS RatingService, TLAPS

-----------------------------------------------------------------------------
(* Sequences *)

\* What Append does to the members of a sequence.
LEMMA AppendOccurs ==
    ASSUME NEW s \in Seq(Games), NEW g \in Games, NEW x
    PROVE  /\ Append(s, g) \in Seq(Games)
           /\ Occurs(x, Append(s, g)) <=> Occurs(x, s) \/ x = g
BY DEF Occurs

\* Appending a new member does not repeat one.
LEMMA AppendNoRepeats ==
    ASSUME NEW s \in Seq(Games), NEW g \in Games, NoRepeats(s), ~Occurs(g, s)
    PROVE  NoRepeats(Append(s, g))
BY DEF NoRepeats, Occurs

\* What is left of a queue when its head is taken.
LEMMA TailOccurs ==
    ASSUME NEW s \in Seq(Games), s # <<>>
    PROVE  /\ Head(s) \in Games
           /\ Tail(s) \in Seq(Games)
           /\ \A x : Occurs(x, Tail(s)) => Occurs(x, s)
           /\ Occurs(Head(s), s)
           /\ NoRepeats(s) => NoRepeats(Tail(s)) /\ ~Occurs(Head(s), Tail(s))
<1>1. Head(s) \in Games /\ Tail(s) \in Seq(Games)
  OBVIOUS
<1>2. /\ Len(s) \in Nat /\ Len(s) >= 1
      /\ Len(Tail(s)) = Len(s) - 1
      /\ Head(s) = s[1]
      /\ \A i \in 1..Len(Tail(s)) : Tail(s)[i] = s[i + 1]
  OBVIOUS
<1>3. ASSUME NEW x, Occurs(x, Tail(s)) PROVE Occurs(x, s)
  BY <1>2, <1>3 DEF Occurs
<1>4. Occurs(Head(s), s)
  BY <1>2 DEF Occurs
<1>5. ASSUME NoRepeats(s) PROVE NoRepeats(Tail(s)) /\ ~Occurs(Head(s), Tail(s))
  BY <1>2, <1>5 DEF NoRepeats, Occurs
<1> QED BY <1>1, <1>3, <1>4, <1>5

\* One game in front of a queue.
LEMMA FrontOfQueue ==
    ASSUME NEW c \in Games, NEW s \in Seq(Games), NEW g \in Games
    PROVE  /\ <<c>> \o s \in Seq(Games)
           /\ <<c>> \o s # <<>>
           /\ Head(<<c>> \o s) = c
           /\ Tail(<<c>> \o s) = s
           /\ <<c>> \o Append(s, g) = Append(<<c>> \o s, g)
           /\ <<>> \o s = s
OBVIOUS

\* Taking the head of a queue and putting it in front again changes nothing.
LEMMA HeadInFront ==
    ASSUME NEW s \in Seq(Games), s # <<>>
    PROVE  <<Head(s)>> \o Tail(s) = s
OBVIOUS

-----------------------------------------------------------------------------
(* Ratings *)

\* Count keeps the type of ratings and adds one game to one leaderboard.
LEMMA CountAdds ==
    ASSUME NEW r \in Ratings, NEW S, NEW b \in Boards, NEW g \in Games
    PROVE  /\ Count(r, S, b, g) \in Ratings
           /\ \A p \in Players, c \in Boards :
                Count(r, S, b, g)[p][c] = IF p \in S /\ c = b
                                          THEN Append(r[p][c], g) ELSE r[p][c]
<1>1. ASSUME NEW p \in Players
      PROVE  /\ Count(r, S, b, g)[p] \in [Boards -> Seq(Games)]
             /\ \A c \in Boards :
                  Count(r, S, b, g)[p][c] = IF p \in S /\ c = b
                                            THEN Append(r[p][c], g) ELSE r[p][c]
  <2>1. r[p] \in [Boards -> Seq(Games)]
    BY DEF Ratings
  <2>2. Append(r[p][b], g) \in Seq(Games)
    BY <2>1
  <2> QED BY <2>1, <2>2 DEF Count
<1>2. Count(r, S, b, g) \in Ratings
  BY <1>1 DEF Ratings, Count
<1> QED BY <1>1, <1>2

\* Nobody's rating changes when a game counts for nobody.
LEMMA CountNobody ==
    ASSUME NEW r \in Ratings, NEW b, NEW g
    PROVE  Count(r, {}, b, g) = r
BY DEF Count, Ratings

-----------------------------------------------------------------------------
(* The inductive invariant *)

\* _rate has a game as long as it runs, and the worker waits for no other one
TaskInv ==
    /\ rpc = "none" <=> current = NoGame
    /\ worker = "get" => rpc = "none"
    /\ worker = "rating" => rpc # "none"
    /\ down \in {"done", "exited"} => queue = <<>> /\ worker # "rating"

\* Once shutdown has begun nothing is accepted
DownInv == down # "no" => ~accept

\* What the transaction of the present game contains
TxInv ==
    /\ rpc = "persist" => tx = db
    /\ rpc = "adjust" =>
         /\ BoardOf[current] # Global
         /\ tx = Count(db, IF current \in Unlisted THEN {} ELSE PlayersIn[current],
                       BoardOf[current], current)
    /\ rpc = "commit" => \E A \in SUBSET PlayersIn[current] :
         /\ BoardOf[current] = Global => A = {}
         /\ tx = Count(Count(db, IF current \in Unlisted THEN {}
                                 ELSE PlayersIn[current],
                             BoardOf[current], current), A, Global, current)

\* No game is in two places: the queue, the task and the ratings
GamesInv ==
    /\ NoRepeats(queue)
    /\ \A g \in Games : Occurs(g, queue) => g \in accepted /\ g # current
    /\ current # NoGame => current \in accepted
    /\ \A p \in Players, b \in Boards, g \in Games : Occurs(g, db[p][b]) =>
         /\ g \in accepted
         /\ ~Occurs(g, queue)
         /\ rpc \in Uncommitted => g # current

\* What is about to be published is stored
PublishInv ==
    /\ PublishedIsPersisted
    /\ rpc = "publish" /\ current \notin Unlisted =>
         \A p \in PlayersIn[current] : Occurs(current, db[p][BoardOf[current]])

Inv == TypeOK /\ DownInv /\ TaskInv /\ TxInv /\ GamesInv /\ RatedOnce /\ PublishInv

\* The initial state satisfies the invariant.
LEMMA InitInv == Init => Inv
<1> SUFFICES ASSUME Init PROVE Inv
  OBVIOUS
<1>1. NoRatings \in Ratings /\ \A p \in Players, b \in Boards : NoRatings[p][b] = <<>>
  BY DEF NoRatings, Ratings
<1>2. TypeOK
  BY <1>1, RatingAssumption DEF Init, TypeOK, Uncommitted
<1>3. TaskInv /\ TxInv /\ DownInv
  BY DEF Init, TaskInv, TxInv, DownInv
<1>4. GamesInv /\ RatedOnce
  BY <1>1 DEF Init, GamesInv, RatedOnce, NoRepeats, Occurs
<1>5. PublishInv
  BY DEF Init, PublishInv, PublishedIsPersisted
<1> QED BY <1>2, <1>3, <1>4, <1>5 DEF Inv

\* The end of _rate, with what it has published.
LEMMA DoneInv ==
    ASSUME Inv, Done, rpc # "none", UNCHANGED <<db, tx, playerVars, accepted>>,
           failures' \in 0..MaxFailures,
           \/ published' = published
           \/ rpc = "publish" /\ published' = published \cup {current}
    PROVE  Inv'
<1> USE DEF Inv
<1>1. TypeOK'
  <2>1. published' \subseteq Games
    BY DEF TypeOK, TaskInv
  <2>2. worker' \in {"get", "rating", "stopped"}
    BY DEF TypeOK, Done
  <2> QED BY <2>1, <2>2 DEF TypeOK, Done, playerVars
<1>2. TaskInv' /\ DownInv'
  BY DEF TaskInv, DownInv, Done
<1>3. TxInv'
  BY DEF TxInv, Done
<1>4. GamesInv' /\ RatedOnce'
  BY RatingAssumption DEF GamesInv, RatedOnce, Done, TypeOK, Uncommitted
<1>5. PublishInv'
  BY DEF PublishInv, PublishedIsPersisted, Done
<1> QED BY <1>1, <1>2, <1>3, <1>4, <1>5

\* Steps of players who sign in or out.
LEMMA PlayerStepInv ==
    ASSUME Inv, NEW p \in Players, FetchPlayerData(p) \/ Register(p) \/ RemovePlayer(p)
    PROVE  Inv'
<1> USE DEF Inv
<1>1. UNCHANGED <<serviceVars, rateVars, accepted, failures>>
  BY DEF FetchPlayerData, Register, RemovePlayer
<1>2. /\ online' \subseteq Players
      /\ ratings' \in Ratings
      /\ fetched' \in Ratings
      /\ loggingIn' \subseteq Players
      /\ logins' \in 0..MaxLogins
  <2>1. db[p] \in [Boards -> Seq(Games)] /\ fetched[p] \in [Boards -> Seq(Games)]
    BY DEF TypeOK, Ratings
  <2>2. ASSUME NEW x \in [Boards -> Seq(Games)]
        PROVE  [fetched EXCEPT ![p] = x] \in Ratings /\ [ratings EXCEPT ![p] = x] \in Ratings
    BY DEF TypeOK, Ratings
  <2>3. CASE FetchPlayerData(p)
    <3>1. fetched' \in Ratings
      BY <2>1, <2>2, <2>3 DEF FetchPlayerData
    <3>2. logins' \in 0..MaxLogins
      BY <2>3, RatingAssumption DEF FetchPlayerData, TypeOK
    <3> QED BY <2>3, <3>1, <3>2 DEF FetchPlayerData, TypeOK
  <2>4. CASE Register(p)
    BY <2>1, <2>2, <2>4 DEF Register, TypeOK
  <2>5. CASE RemovePlayer(p)
    BY <2>5 DEF RemovePlayer, TypeOK
  <2> QED BY <2>3, <2>4, <2>5
<1>3. TypeOK'
  BY <1>1, <1>2 DEF TypeOK, serviceVars, rateVars
<1>4. TaskInv' /\ DownInv' /\ TxInv' /\ GamesInv'
  BY <1>1 DEF serviceVars, rateVars, TaskInv, DownInv, TxInv, GamesInv
<1>5. RatedOnce' /\ PublishInv'
  BY <1>1 DEF serviceVars, rateVars, RatedOnce, PublishInv, PublishedIsPersisted
<1> QED BY <1>3, <1>4, <1>5

\* Steps of the queue, the worker and the shutdown.
LEMMA ServiceStepInv ==
    ASSUME Inv, (\E g \in Games : Enqueue(g)) \/ Get \/ Shutdown \/ Joined \/ Exit
    PROVE  Inv'
<1> USE DEF Inv
<1>1. ASSUME NEW g \in Games, Enqueue(g) PROVE Inv'
  <2>1. /\ Append(queue, g) \in Seq(Games)
        /\ \A x : Occurs(x, Append(queue, g)) <=> Occurs(x, queue) \/ x = g
    BY AppendOccurs DEF TypeOK
  <2>2. NoRepeats(queue')
    BY <1>1, AppendNoRepeats DEF Enqueue, GamesInv, TypeOK
  <2>3. UNCHANGED <<accept, worker, down, rateVars, playerVars, failures>>
    BY <1>1 DEF Enqueue
  <2>4. TypeOK'
    BY <1>1, <2>1, <2>3 DEF Enqueue, TypeOK, rateVars, playerVars
  <2>5. TaskInv' /\ DownInv' /\ TxInv' /\ RatedOnce'
    BY <1>1, <2>3 DEF Enqueue, rateVars, TaskInv, DownInv, TxInv, RatedOnce
  <2>6. PublishInv'
    BY <2>3 DEF rateVars, PublishInv, PublishedIsPersisted
  <2>7. GamesInv'
    BY <1>1, <2>1, <2>2, <2>3, RatingAssumption
       DEF Enqueue, rateVars, GamesInv, TaskInv, TypeOK
  <2> QED BY <2>4, <2>5, <2>6, <2>7
<1>2. ASSUME Get PROVE Inv'
  <2>1. rpc = "none" /\ current = NoGame
    BY <1>2 DEF Get, TaskInv
  <2>2. /\ Head(queue) \in Games /\ Tail(queue) \in Seq(Games)
        /\ \A x : Occurs(x, Tail(queue)) => Occurs(x, queue)
        /\ Occurs(Head(queue), queue)
        /\ NoRepeats(Tail(queue)) /\ ~Occurs(Head(queue), Tail(queue))
    BY <1>2, TailOccurs DEF Get, TypeOK, GamesInv
  <2>3. UNCHANGED <<accept, down, db, tx, published, playerVars, accepted, failures>>
    BY <1>2 DEF Get
  <2>4. TypeOK'
    BY <1>2, <2>2, <2>3 DEF Get, TypeOK, playerVars, Uncommitted
  <2>5. TaskInv' /\ DownInv' /\ TxInv'
    BY <1>2, <2>2, RatingAssumption DEF Get, TaskInv, DownInv, TxInv
  <2>6. GamesInv'
    BY <1>2, <2>2, <2>3 DEF Get, GamesInv
  <2>7. RatedOnce' /\ PublishInv'
    BY <1>2, <2>3 DEF Get, RatedOnce, PublishInv, PublishedIsPersisted
  <2> QED BY <2>4, <2>5, <2>6, <2>7
<1>3. ASSUME Shutdown \/ Joined PROVE Inv'
  <2>1. /\ UNCHANGED <<queue, rateVars, playerVars, accepted, failures>>
        /\ worker' \in {worker, "stopped"}
        /\ down' \in {"join", "done"}
    BY <1>3 DEF Shutdown, Joined
  <2>0. accept' \in BOOLEAN
    BY <1>3, Zenon DEF Shutdown, Joined, TypeOK
  <2>2. TypeOK'
    BY <2>0, <2>1 DEF TypeOK, rateVars, playerVars
  <2>3. TxInv' /\ GamesInv' /\ RatedOnce'
    BY <2>1 DEF rateVars, TxInv, GamesInv, RatedOnce
  <2>5. TaskInv' /\ DownInv'
    BY <1>3, <2>1 DEF Shutdown, Joined, rateVars, TaskInv, DownInv
  <2>4. PublishInv'
    BY <2>1 DEF rateVars, PublishInv, PublishedIsPersisted
  <2> QED BY <2>2, <2>3, <2>4, <2>5
<1>4. ASSUME Exit PROVE Inv'
  <2>1. UNCHANGED <<accept, queue, worker, db, tx, published, playerVars,
                    accepted, failures>>
    BY <1>4 DEF Exit
  <2>2. TypeOK'
    BY <1>4, <2>1 DEF Exit, TypeOK, playerVars, Uncommitted
  <2>3. TaskInv' /\ DownInv' /\ TxInv'
    BY <1>4, <2>1, RatingAssumption DEF Exit, TaskInv, DownInv, TxInv, TypeOK,
       Uncommitted
  <2>4. GamesInv' /\ RatedOnce'
    BY <1>4, <2>1, RatingAssumption DEF Exit, GamesInv, RatedOnce, Uncommitted
  <2>5. PublishInv'
    BY <1>4, <2>1 DEF Exit, PublishInv, PublishedIsPersisted
  <2> QED BY <2>2, <2>3, <2>4, <2>5
<1> QED BY <1>1, <1>2, <1>3, <1>4

\* The game of a task that has not ended.
LEMMA CurrentIsGame ==
    ASSUME Inv, rpc # "none"
    PROVE  /\ current \in Games
           /\ PlayersIn[current] \subseteq Players
           /\ BoardOf[current] \in Boards
BY RatingAssumption DEF Inv, TypeOK, TaskInv

\* Steps of _rate that write to the transaction and to memory.
LEMMA PersistInv ==
    ASSUME Inv, RateForLeaderboard \/ (\E A \in SUBSET Players : AdjustGlobalRating(A))
    PROVE  Inv'
<1> USE DEF Inv
<1>1. /\ rpc \in {"persist", "adjust"} /\ rpc' \in {"adjust", "commit"}
      /\ UNCHANGED <<serviceVars, current, db, published, online, fetched,
                     loggingIn, logins, accepted, failures>>
  BY DEF RateForLeaderboard, AdjustGlobalRating
<1>2. current \in Games /\ PlayersIn[current] \subseteq Players /\ BoardOf[current] \in Boards
  BY <1>1, CurrentIsGame
<1>3. ASSUME NEW S, NEW b \in Boards, PersistRatingChanges(S, b)
      PROVE  tx' = Count(tx, S, b, current) /\ tx' \in Ratings /\ ratings' \in Ratings
  <2>1. tx' = Count(tx, S, b, current) /\ tx' \in Ratings
    BY <1>2, <1>3, CountAdds DEF PersistRatingChanges, TypeOK
  <2>2. ASSUME NEW p \in Players
        PROVE  /\ ratings[p] \in [Boards -> Seq(Games)]
               /\ [ratings[p] EXCEPT ![b] = tx'[p][b]] \in [Boards -> Seq(Games)]
    BY <2>1 DEF TypeOK, Ratings
  <2>3. ratings' \in Ratings
    BY <1>3, <2>2 DEF PersistRatingChanges, Ratings
  <2> QED BY <2>1, <2>3
<1>4. tx' \in Ratings /\ ratings' \in Ratings
  BY <1>2, <1>3, RatingAssumption DEF RateForLeaderboard, AdjustGlobalRating
<1>5. TypeOK'
  BY <1>1, <1>4 DEF TypeOK, serviceVars, Uncommitted
<1>6. TaskInv' /\ DownInv'
  BY <1>1 DEF serviceVars, TaskInv, DownInv
<1>7. GamesInv' /\ RatedOnce'
  BY <1>1 DEF serviceVars, GamesInv, RatedOnce, Uncommitted
<1>8. PublishInv'
  BY <1>1 DEF PublishInv, PublishedIsPersisted
<1>9. TxInv'
  <2> DEFINE S == IF current \in Unlisted THEN {} ELSE PlayersIn[current]
  <2>1. CASE RateForLeaderboard
    <3>1. tx' = Count(db, S, BoardOf[current], current)
      BY <1>2, <1>3, <2>1 DEF RateForLeaderboard, TxInv
    <3>2. CASE BoardOf[current] # Global
      BY <1>1, <2>1, <3>1, <3>2 DEF RateForLeaderboard, TxInv
    <3>3. CASE BoardOf[current] = Global
      <4>1. Count(db, S, BoardOf[current], current) \in Ratings
        BY <1>2, CountAdds DEF TypeOK
      <4>2. tx' = Count(Count(db, S, BoardOf[current], current), {}, Global, current)
        BY <3>1, <4>1, CountNobody
      <4>3. rpc' = "commit"
        BY <2>1, <3>3 DEF RateForLeaderboard
      <4> QED BY <1>1, <4>2, <4>3 DEF TxInv
    <3> QED BY <3>2, <3>3
  <2>2. ASSUME NEW A \in SUBSET Players, AdjustGlobalRating(A) PROVE TxInv'
    <3>1. A \subseteq PlayersIn[current] /\ rpc = "adjust" /\ rpc' = "commit"
      BY <2>2 DEF AdjustGlobalRating
    <3>2. tx' = Count(Count(db, S, BoardOf[current], current), A, Global, current)
      BY <1>3, <2>2, <3>1, RatingAssumption DEF AdjustGlobalRating, TxInv
    <3>3. BoardOf[current] # Global
      BY <3>1 DEF TxInv
    <3> QED BY <1>1, <3>1, <3>2, <3>3 DEF TxInv
  <2> QED BY <2>1, <2>2
<1> QED BY <1>5, <1>6, <1>7, <1>8, <1>9

\* What a commit adds to the ratings.
LEMMA CommitAdds ==
    ASSUME Inv, Commit
    PROVE  \E A \in SUBSET PlayersIn[current] :
             /\ BoardOf[current] = Global => A = {}
             /\ db' = Count(Count(db, IF current \in Unlisted THEN {}
                                      ELSE PlayersIn[current],
                                  BoardOf[current], current), A, Global, current)
BY DEF Inv, TxInv, Commit

\* The commit keeps the invariant: the game counts at most once on every
\* leaderboard, since it is adjusted only where it was not rated.
LEMMA CommitInv ==
    ASSUME Inv, Commit
    PROVE  Inv'
<1> USE DEF Inv
<1>1. /\ rpc = "commit" /\ rpc' = "publish"
      /\ UNCHANGED <<serviceVars, current, tx, published, playerVars, accepted,
                     failures>>
  BY DEF Commit
<1>2. current \in Games /\ PlayersIn[current] \subseteq Players /\ BoardOf[current] \in Boards
  BY <1>1, CurrentIsGame
<1> DEFINE S == IF current \in Unlisted THEN {} ELSE PlayersIn[current]
           r == Count(db, S, BoardOf[current], current)
<1>3. PICK A \in SUBSET PlayersIn[current] :
        /\ BoardOf[current] = Global => A = {}
        /\ db' = Count(r, A, Global, current)
  BY CommitAdds
<1>4. /\ r \in Ratings
      /\ \A p \in Players, c \in Boards :
           r[p][c] = IF p \in S /\ c = BoardOf[current]
                     THEN Append(db[p][c], current) ELSE db[p][c]
  BY <1>2, CountAdds DEF TypeOK
<1>5. /\ db' \in Ratings
      /\ \A p \in Players, c \in Boards :
           db'[p][c] = IF p \in A /\ c = Global
                       THEN Append(r[p][c], current) ELSE r[p][c]
  BY <1>2, <1>3, <1>4, CountAdds, RatingAssumption
<1> HIDE DEF r
<1>6. ASSUME NEW p \in Players, NEW c \in Boards
      PROVE  /\ db[p][c] \in Seq(Games)
             /\ \/ db'[p][c] = db[p][c]
                \/ db'[p][c] = Append(db[p][c], current)
             /\ p \in S /\ c = BoardOf[current] => db'[p][c] = Append(db[p][c], current)
  <2>1. db[p][c] \in Seq(Games)
    BY DEF TypeOK, Ratings
  <2>2. CASE p \in A /\ c = Global
    <3>1. BoardOf[current] # Global
      BY <1>3, <2>2
    <3>2. r[p][c] = db[p][c]
      BY <1>4, <2>2, <3>1
    <3> QED BY <1>5, <2>1, <2>2, <3>1, <3>2
  <2>3. CASE ~(p \in A /\ c = Global)
    <3>1. db'[p][c] = r[p][c]
      BY <1>5, <2>3
    <3> QED BY <1>4, <2>1, <3>1
  <2> QED BY <2>2, <2>3
<1>7. ASSUME NEW p \in Players, NEW c \in Boards
      PROVE  /\ \A g \in Games : Occurs(g, db[p][c]) => Occurs(g, db'[p][c])
             /\ \A g \in Games : Occurs(g, db'[p][c]) => Occurs(g, db[p][c]) \/ g = current
             /\ p \in S /\ c = BoardOf[current] => Occurs(current, db'[p][c])
             /\ NoRepeats(db'[p][c])
  <2>1. \A g : Occurs(g, Append(db[p][c], current)) <=> Occurs(g, db[p][c]) \/ g = current
    BY <1>2, <1>6, AppendOccurs
  <2>2. ~Occurs(current, db[p][c])
    BY <1>1, <1>2 DEF GamesInv, Uncommitted
  <2>3. NoRepeats(db[p][c]) /\ NoRepeats(Append(db[p][c], current))
    BY <1>2, <1>6, <2>2, AppendNoRepeats DEF RatedOnce
  <2> QED BY <1>6, <2>1, <2>3
<1>8. TypeOK'
  BY <1>1, <1>5 DEF TypeOK, serviceVars, playerVars
<1>9. TaskInv' /\ DownInv' /\ TxInv'
  BY <1>1 DEF serviceVars, TaskInv, DownInv, TxInv
<1>10. GamesInv'
  BY <1>1, <1>2, <1>7, RatingAssumption DEF serviceVars, GamesInv, Uncommitted
<1>11. RatedOnce'
  BY <1>7 DEF RatedOnce
<1>12. PublishInv'
  <2>1. PublishedIsPersisted'
    BY <1>1, <1>7, RatingAssumption DEF PublishInv, PublishedIsPersisted, TypeOK
  <2>2. current \notin Unlisted =>
          \A p \in PlayersIn[current] : Occurs(current, db'[p][BoardOf[current]])
    BY <1>2, <1>7
  <2> QED BY <1>1, <2>1, <2>2 DEF PublishInv
<1> QED BY <1>8, <1>9, <1>10, <1>11, <1>12

\* The other steps of _rate.
LEMMA RateStepInv ==
    ASSUME Inv, RateStep \/ Failure
    PROVE  Inv'
<1> USE DEF Inv
<1>1. CASE RateStarts
  <2>1. CASE current \in Unratable
    <3>1. /\ Done /\ rpc # "none" /\ failures' = failures /\ published' = published
          /\ UNCHANGED <<db, tx, playerVars, accepted>>
      BY <1>1, <2>1 DEF RateStarts
    <3> QED BY <3>1, DoneInv DEF TypeOK
  <2>2. CASE current \notin Unratable
    <3>1. /\ rpc = "start" /\ rpc' = "fetch"
          /\ UNCHANGED <<serviceVars, current, db, tx, published, playerVars,
                         accepted, failures>>
      BY <1>1, <2>2 DEF RateStarts
    <3>2. TypeOK' /\ TaskInv' /\ DownInv' /\ TxInv'
      BY <3>1 DEF TypeOK, serviceVars, playerVars, TaskInv, DownInv, TxInv, Uncommitted
    <3>3. GamesInv' /\ RatedOnce'
      BY <3>1 DEF serviceVars, GamesInv, RatedOnce, Uncommitted
    <3>4. PublishInv'
      BY <3>1 DEF PublishInv, PublishedIsPersisted
    <3> QED BY <3>2, <3>3, <3>4
  <2> QED BY <2>1, <2>2
<1>2. CASE GetAllPlayerRatings
  <2>1. /\ rpc = "fetch" /\ rpc' = "persist" /\ tx' = db
        /\ UNCHANGED <<serviceVars, current, db, published, playerVars, accepted,
                       failures>>
    BY <1>2 DEF GetAllPlayerRatings
  <2>2. TypeOK' /\ TaskInv' /\ DownInv' /\ TxInv'
    BY <2>1 DEF TypeOK, serviceVars, playerVars, TaskInv, DownInv, TxInv, Uncommitted
  <2>3. GamesInv' /\ RatedOnce'
    BY <2>1 DEF serviceVars, GamesInv, RatedOnce, Uncommitted
  <2>4. PublishInv'
    BY <2>1 DEF PublishInv, PublishedIsPersisted
  <2> QED BY <2>2, <2>3, <2>4
<1>3. CASE PublishRatingChanges
  <2>1. /\ Done /\ rpc = "publish" /\ published' = published \cup {current}
        /\ failures' = failures /\ UNCHANGED <<db, tx, playerVars, accepted>>
    BY <1>3 DEF PublishRatingChanges
  <2> QED BY <2>1, DoneInv DEF TypeOK
<1>4. CASE Failure
  <2>1. /\ Done /\ rpc # "none" /\ failures' = failures + 1 /\ failures < MaxFailures
        /\ published' = published /\ UNCHANGED <<db, tx, playerVars, accepted>>
    BY <1>4 DEF Failure
  <2>2. failures' \in 0..MaxFailures
    BY <2>1, RatingAssumption DEF TypeOK
  <2> QED BY <2>1, <2>2, DoneInv
<1> QED BY <1>1, <1>2, <1>3, <1>4, PersistInv, CommitInv DEF RateStep

\* Every step keeps the invariant.
LEMMA NextInv == Inv /\ [Next]_vars => Inv'
<1> SUFFICES ASSUME Inv, [Next]_vars PROVE Inv'
  OBVIOUS
<1>1. CASE Next
  BY <1>1, ServiceStepInv, RateStepInv, PlayerStepInv DEF Next
<1>2. CASE UNCHANGED vars
  <2> USE <1>2 DEF vars, serviceVars, rateVars, playerVars, Inv
  <2>1. TypeOK' /\ TaskInv' /\ DownInv' /\ TxInv'
    BY DEF TypeOK, TaskInv, DownInv, TxInv
  <2>2. GamesInv' /\ RatedOnce'
    BY DEF GamesInv, RatedOnce
  <2>3. PublishInv'
    BY DEF PublishInv, PublishedIsPersisted
  <2> QED BY <2>1, <2>2, <2>3
<1> QED BY <1>1, <1>2

\* The invariant holds in every reachable state.
LEMMA Invariance == Spec => []Inv
BY InitInv, NextInv, PTL DEF Spec

-----------------------------------------------------------------------------
(* The ledger *)

\* The games that are accepted and not settled
Pending == (IF rpc \in Uncommitted THEN <<current>> ELSE <<>>) \o queue

\* A step that keeps the ratings and the games in waiting is none of the ledger.
LEMMA LedgerStutters ==
    ASSUME db' = db, Pending' = Pending, accepted' = accepted
    PROVE  UNCHANGED Ledger!ledgerVars
BY DEF Ledger!ledgerVars, Pending

\* Games in waiting with and without a game that _rate works on.
LEMMA PendingIs ==
    ASSUME Inv
    PROVE  /\ rpc \in Uncommitted => /\ current \in Games
                                     /\ Pending = <<current>> \o queue
                                     /\ Pending # <<>>
                                     /\ Head(Pending) = current
                                     /\ Tail(Pending) = queue
           /\ rpc \notin Uncommitted => Pending = queue
<1>1. queue \in Seq(Games)
  BY DEF Inv, TypeOK
<1>2. CASE rpc \in Uncommitted
  <2>1. current \in Games
    BY <1>2 DEF Inv, TypeOK, TaskInv, Uncommitted
  <2> QED BY <1>1, <1>2, <2>1, FrontOfQueue DEF Pending
<1>3. CASE rpc \notin Uncommitted
  <2>1. <<>> \o queue = queue
    BY <1>1
  <2> QED BY <1>3, <2>1 DEF Pending
<1> QED BY <1>2, <1>3

\* A game that is given up before its commit is settled for nobody.
LEMMA GivenUpIsSettled ==
    ASSUME Inv, rpc \in Uncommitted, rpc' = "none", queue' = queue, db' = db,
           accepted' = accepted
    PROVE  Ledger!Settle({}, {})
<1>1. /\ current \in Games /\ Pending # <<>>
      /\ Head(Pending) = current /\ Tail(Pending) = queue
  BY PendingIs
<1>2. queue \in Seq(Games) /\ db \in Ratings
  BY DEF Inv, TypeOK
<1>3. Pending' = queue
  <2>1. <<>> \o queue = queue
    BY <1>2
  <2> QED BY <2>1 DEF Pending, Uncommitted
<1>4. Ledger!Count(Ledger!Count(db, {}, BoardOf[current], current), {}, Global,
                   current) = db
  BY <1>2, CountNobody DEF Count, Ledger!Count
<1> QED BY <1>1, <1>3, <1>4 DEF Ledger!Settle, Pending

\* The commit settles the game that _rate works on.
LEMMA CommitSettles ==
    ASSUME Inv, Commit
    PROVE  \E S, A \in SUBSET Players : Ledger!Settle(S, A)
<1>1. /\ rpc = "commit" /\ rpc' = "publish" /\ queue' = queue
      /\ accepted' = accepted
  BY DEF Commit, serviceVars
<1>2. /\ current \in Games /\ Pending # <<>>
      /\ Head(Pending) = current /\ Tail(Pending) = queue
  BY <1>1, PendingIs DEF Uncommitted
<1>3. PlayersIn[current] \subseteq Players
  BY <1>2, RatingAssumption
<1> DEFINE S == IF current \in Unlisted THEN {} ELSE PlayersIn[current]
<1>4. PICK A \in SUBSET PlayersIn[current] :
        /\ BoardOf[current] = Global => A = {}
        /\ db' = Count(Count(db, S, BoardOf[current], current), A, Global, current)
  BY CommitAdds
<1>5. Pending' = queue
  <2>1. <<>> \o queue = queue
    BY DEF Inv, TypeOK
  <2> QED BY <1>1, <2>1 DEF Pending, Uncommitted
<1>6. db' = Ledger!Count(Ledger!Count(db, S, BoardOf[current], current), A, Global,
                         current)
  BY <1>4 DEF Count, Ledger!Count
<1>7. Ledger!Settle(S, A)
  BY <1>1, <1>2, <1>4, <1>5, <1>6 DEF Ledger!Settle, Pending
<1>8. S \in SUBSET Players /\ A \in SUBSET Players
  BY <1>3
<1> QED BY <1>7, <1>8

\* The end of _rate: a game that was not committed is settled for nobody,
\* another one has been settled by its commit.
LEMMA DoneIsLedgerStep ==
    ASSUME Inv, Done, rpc # "none", db' = db, accepted' = accepted
    PROVE  [Ledger!LedgerNext]_(Ledger!ledgerVars)
<1>1. rpc' = "none" /\ queue' = queue
  BY DEF Done
<1>2. CASE rpc \in Uncommitted
  <2>1. Ledger!Settle({}, {})
    BY <1>1, <1>2, GivenUpIsSettled
  <2> QED BY <2>1 DEF Ledger!LedgerNext
<1>3. CASE rpc \notin Uncommitted
  <2>1. Pending' = Pending
    BY <1>1, <1>3 DEF Pending, Uncommitted
  <2> QED BY <1>1, <2>1, LedgerStutters
<1> QED BY <1>2, <1>3

\* A game that is enqueued is accepted by the ledger.
LEMMA EnqueueAccepts ==
    ASSUME Inv, NEW g \in Games, Enqueue(g)
    PROVE  Ledger!Accept(g)
<1>1. /\ g \notin accepted /\ accepted' = accepted \cup {g} /\ db' = db
      /\ queue' = Append(queue, g) /\ rpc' = rpc /\ current' = current
  BY DEF Enqueue, rateVars
<1>2. queue \in Seq(Games)
  BY DEF Inv, TypeOK
<1>3. Pending' = Append(Pending, g)
  <2>1. CASE rpc \in Uncommitted
    <3>1. current \in Games
      BY <2>1, PendingIs
    <3> QED BY <1>1, <1>2, <2>1, <3>1, FrontOfQueue DEF Pending
  <2>2. CASE rpc \notin Uncommitted
    <3>1. /\ <<>> \o Append(queue, g) = Append(queue, g)
          /\ <<>> \o queue = queue
      BY <1>2
    <3> QED BY <1>1, <2>2, <3>1 DEF Pending
  <2> QED BY <2>1, <2>2
<1> QED BY <1>1, <1>3 DEF Ledger!Accept, Pending

\* Taking a game from the queue leaves it in front of the others.
LEMMA GetStutters ==
    ASSUME Inv, Get
    PROVE  UNCHANGED Ledger!ledgerVars
<1>1. /\ queue # <<>> /\ queue' = Tail(queue) /\ current' = Head(queue)
      /\ rpc' = "start" /\ db' = db /\ accepted' = accepted /\ worker = "get"
  BY DEF Get
<1>2. queue \in Seq(Games) /\ rpc = "none"
  BY <1>1 DEF Inv, TypeOK, TaskInv
<1>3. Pending = queue
  BY <1>2, PendingIs DEF Uncommitted
<1>4. Pending' = <<Head(queue)>> \o Tail(queue)
  BY <1>1 DEF Pending, Uncommitted
<1>5. Pending' = Pending
  BY <1>1, <1>2, <1>3, <1>4, HeadInFront
<1> QED BY <1>1, <1>5, LedgerStutters

\* Every step of the service is a step of the ledger or changes nothing there.
LEMMA NextRefines ==
    ASSUME Inv, [Next]_vars
    PROVE  [Ledger!LedgerNext]_(Ledger!ledgerVars)
<1>1. ASSUME NEW g \in Games, Enqueue(g) PROVE Ledger!LedgerNext
  BY <1>1, EnqueueAccepts DEF Ledger!LedgerNext
<1>2. CASE Get
  BY <1>2, GetStutters
<1>3. CASE RateStarts
  <2>1. CASE current \in Unratable
    <3>1. Done /\ rpc # "none" /\ db' = db /\ accepted' = accepted
      BY <1>3, <2>1 DEF RateStarts
    <3> QED BY <3>1, DoneIsLedgerStep
  <2>2. CASE current \notin Unratable
    <3>1. /\ rpc = "start" /\ rpc' = "fetch" /\ current' = current
          /\ queue' = queue /\ db' = db /\ accepted' = accepted
      BY <1>3, <2>2 DEF RateStarts, serviceVars
    <3>2. Pending' = Pending
      BY <3>1 DEF Pending, Uncommitted
    <3> QED BY <3>1, <3>2, LedgerStutters
  <2> QED BY <2>1, <2>2
<1>4. ASSUME \/ GetAllPlayerRatings \/ RateForLeaderboard
             \/ \E A \in SUBSET Players : AdjustGlobalRating(A)
      PROVE  UNCHANGED Ledger!ledgerVars
  <2>1. /\ rpc \in Uncommitted /\ rpc' \in Uncommitted /\ current' = current
        /\ queue' = queue /\ db' = db /\ accepted' = accepted
    BY <1>4 DEF GetAllPlayerRatings, RateForLeaderboard, AdjustGlobalRating,
                serviceVars, Uncommitted
  <2>2. Pending' = Pending
    BY <2>1 DEF Pending
  <2> QED BY <2>1, <2>2, LedgerStutters
<1>5. CASE Commit
  BY <1>5, CommitSettles DEF Ledger!LedgerNext
<1>6. CASE PublishRatingChanges \/ Failure
  <2>1. Done /\ rpc # "none" /\ db' = db /\ accepted' = accepted
    BY <1>6 DEF PublishRatingChanges, Failure
  <2> QED BY <2>1, DoneIsLedgerStep
<1>7. CASE Exit
  <2>1. queue' = queue /\ db' = db /\ accepted' = accepted
    BY <1>7 DEF Exit
  <2>2. Pending' = Pending
    <3>1. CASE rpc \in Uncommitted
      <4>1. rpc' = "lost" /\ current' = current
        BY <1>7, <3>1 DEF Exit
      <4> QED BY <2>1, <3>1, <4>1 DEF Pending, Uncommitted
    <3>2. CASE rpc \notin Uncommitted
      <4>1. rpc' = "none"
        BY <1>7, <3>2 DEF Exit
      <4> QED BY <2>1, <3>2, <4>1 DEF Pending, Uncommitted
    <3> QED BY <3>1, <3>2
  <2> QED BY <2>1, <2>2, LedgerStutters
<1>8. ASSUME \/ Shutdown \/ Joined \/ UNCHANGED vars
             \/ \E p \in Players : FetchPlayerData(p) \/ Register(p) \/ RemovePlayer(p)
      PROVE  UNCHANGED Ledger!ledgerVars
  <2>1. /\ rpc' = rpc /\ current' = current /\ queue' = queue
        /\ db' = db /\ accepted' = accepted
    BY <1>8 DEF Shutdown, Joined, FetchPlayerData, Register, RemovePlayer,
                vars, serviceVars, rateVars
  <2>2. Pending' = Pending
    BY <2>1 DEF Pending
  <2> QED BY <2>1, <2>2, LedgerStutters
<1> QED BY <1>1, <1>2, <1>3, <1>4, <1>5, <1>6, <1>7, <1>8 DEF Next, RateStep

-----------------------------------------------------------------------------
(* Theorems *)

\* The state of the rating service keeps its types.
THEOREM RatingTypeCorrect == Spec => []TypeOK
<1>1. Inv => TypeOK BY DEF Inv
<1> QED BY <1>1, Invariance, PTL

\* No game counts twice for a player on one leaderboard.
THEOREM RatedAtMostOnce == Spec => []RatedOnce
<1>1. Inv => RatedOnce BY DEF Inv
<1> QED BY <1>1, Invariance, PTL

\* Rating changes that are published are in the database.
THEOREM PublishedPersisted == Spec => []PublishedIsPersisted
<1>1. Inv => PublishedIsPersisted BY DEF Inv, PublishInv
<1> QED BY <1>1, Invariance, PTL

\* RatingService implements the ledger: games count in the order of acceptance,
\* for all their players or for none, whatever fails and whenever the service
\* is shut down.
THEOREM LedgerRefined == Spec => LedgerSpec
<1>1. Init => Ledger!LedgerInit
  BY DEF Init, NoRatings, Uncommitted, Ledger!LedgerInit
<1>2. Inv /\ [Next]_vars => [Ledger!LedgerNext]_(Ledger!ledgerVars)
  BY NextRefines
<1> QED BY <1>1, <1>2, Invariance, PTL DEF Spec, LedgerSpec, Ledger!LedgerSpec
-----------------------------------------------------------------------------
(* The ratings of signed-in players *)

\* One rating is an earlier state of another
IsOld(s, t) == Len(s) <= Len(t) /\ \A i \in 1..Len(s) : s[i] = t[i]

\* What _rate has stored so far: the Player objects do not wait for the commit
Stored == IF rpc \in {"adjust", "commit"} THEN tx ELSE db

\* Player objects, and what a login in progress has read, are behind what is
\* stored, and nothing is shown that was not stored
ShownInv ==
    /\ rpc \in {"adjust", "commit"} =>
         \A p \in Players, b \in Boards : IsOld(db[p][b], tx[p][b])
    /\ failures = 0 /\ rpc # "lost" =>
         /\ \A p \in online, b \in Boards : IsOld(ratings[p][b], Stored[p][b])
         /\ \A p \in loggingIn, b \in Boards : IsOld(fetched[p][b], db[p][b])
         /\ logins = 0 => /\ loggingIn = {}
                          /\ \A p \in online, b \in Boards :
                               ratings[p][b] = Stored[p][b]

\* Being old is transitive, and a game that is added makes a rating old
LEMMA OldFacts ==
    ASSUME NEW s \in Seq(Games)
    PROVE  /\ IsOld(s, s)
           /\ \A g \in Games : IsOld(s, Append(s, g))
           /\ \A t, u \in Seq(Games) : IsOld(s, t) /\ IsOld(t, u) => IsOld(s, u)
BY DEF IsOld

\* Games that count make ratings old
LEMMA CountIsLater ==
    ASSUME NEW r \in Ratings, NEW S, NEW b \in Boards, NEW g \in Games
    PROVE  \A p \in Players, c \in Boards : IsOld(r[p][c], Count(r, S, b, g)[p][c])
<1> SUFFICES ASSUME NEW p \in Players, NEW c \in Boards
             PROVE  IsOld(r[p][c], Count(r, S, b, g)[p][c])
  OBVIOUS
<1>1. r[p][c] \in Seq(Games)
  BY DEF Ratings
<1>2. Count(r, S, b, g)[p][c] = IF p \in S /\ c = b THEN Append(r[p][c], g) ELSE r[p][c]
  BY CountAdds
<1> QED
  BY <1>1, <1>2, OldFacts

\* Steps that neither store nor show anything
LEMMA ShownKept ==
    ASSUME ShownInv, UNCHANGED <<db, playerVars>>, failures' # 0 \/ failures' = failures,
           \/ rpc' \in {"lost", "adjust", "commit"} /\ rpc' = rpc /\ tx' = tx
           \/ /\ rpc' \notin {"adjust", "commit"}
              /\ rpc' = "lost" \/ failures' # 0
                 \/ rpc \notin {"adjust", "commit", "lost"}
    PROVE  ShownInv'
<1>1. (rpc \in {"adjust", "commit"} =>
         \A p \in Players, b \in Boards : IsOld(db[p][b], tx[p][b]))'
  BY DEF ShownInv
<1>2. ASSUME failures' = 0, rpc' # "lost"
      PROVE  failures = 0 /\ rpc # "lost" /\ Stored' = Stored
  BY <1>2 DEF Stored
<1> QED
  BY <1>1, <1>2 DEF ShownInv, playerVars

\* Players who sign in or out
LEMMA PlayerStepShown ==
    ASSUME Inv, ShownInv, NEW p \in Players,
           FetchPlayerData(p) \/ Register(p) \/ RemovePlayer(p)
    PROVE  ShownInv'
<1>1. UNCHANGED <<rpc, tx, db, failures>>
  BY DEF FetchPlayerData, Register, RemovePlayer, rateVars
<1>2. /\ db \in Ratings /\ tx \in Ratings /\ fetched \in Ratings /\ ratings \in Ratings
      /\ online \subseteq Players /\ loggingIn \subseteq Players /\ logins \in Nat
  BY RatingAssumption DEF Inv, TypeOK
<1>3. \A q \in Players, b \in Boards :
        db[q][b] \in Seq(Games) /\ tx[q][b] \in Seq(Games) /\ fetched[q][b] \in Seq(Games)
  BY <1>2 DEF Ratings
<1>4. Stored' = Stored
  BY <1>1 DEF Stored
<1>5. (rpc \in {"adjust", "commit"} =>
         \A q \in Players, b \in Boards : IsOld(db[q][b], tx[q][b]))'
  BY <1>1 DEF ShownInv
<1> SUFFICES ASSUME failures = 0 /\ rpc # "lost"
             PROVE  (/\ \A q \in online, b \in Boards : IsOld(ratings[q][b], Stored[q][b])
                     /\ \A q \in loggingIn, b \in Boards : IsOld(fetched[q][b], db[q][b])
                     /\ logins = 0 => /\ loggingIn = {}
                                      /\ \A q \in online, b \in Boards :
                                           ratings[q][b] = Stored[q][b])'
  BY <1>1, <1>5 DEF ShownInv
<1>6. /\ \A q \in online, b \in Boards : IsOld(ratings[q][b], Stored[q][b])
      /\ \A q \in loggingIn, b \in Boards : IsOld(fetched[q][b], db[q][b])
      /\ logins = 0 => /\ loggingIn = {}
                       /\ \A q \in online, b \in Boards : ratings[q][b] = Stored[q][b]
  BY DEF ShownInv
<1>7. CASE FetchPlayerData(p)
  <2>1. /\ logins' = logins + 1 /\ loggingIn' = loggingIn \cup {p}
        /\ fetched' = [fetched EXCEPT ![p] = db[p]] /\ UNCHANGED <<online, ratings>>
    BY <1>7 DEF FetchPlayerData
  <2>2. \A q \in Players : fetched'[q] = IF q = p THEN db[q] ELSE fetched[q]
    BY <1>2, <2>1 DEF Ratings
  <2>3. \A b \in Boards : IsOld(db[p][b], db[p][b])
    BY <1>3, OldFacts
  <2>4. \A q \in loggingIn', b \in Boards : IsOld(fetched'[q][b], db'[q][b])
    BY <1>1, <1>2, <1>6, <2>1, <2>2, <2>3
  <2>5. logins' # 0
    BY <1>2, <2>1
  <2> QED
    BY <1>4, <1>6, <2>1, <2>4, <2>5
<1>8. CASE Register(p)
  <2>1. /\ p \in loggingIn /\ loggingIn' = loggingIn \ {p} /\ online' = online \cup {p}
        /\ ratings' = [ratings EXCEPT ![p] = fetched[p]] /\ UNCHANGED <<fetched, logins>>
    BY <1>8 DEF Register
  <2>2. \A q \in Players : ratings'[q] = IF q = p THEN fetched[q] ELSE ratings[q]
    BY <1>2, <2>1 DEF Ratings
  <2>3. \A b \in Boards : IsOld(db[p][b], Stored[p][b])
    BY <1>3, OldFacts DEF ShownInv, Stored
  <2>4. \A b \in Boards : IsOld(fetched[p][b], db[p][b]) /\ Stored[p][b] \in Seq(Games)
    BY <1>3, <1>6, <2>1 DEF Stored
  <2>5. \A b \in Boards : IsOld(fetched[p][b], Stored[p][b])
    BY <1>3, <2>3, <2>4, OldFacts
  <2>6. \A q \in online', b \in Boards : IsOld(ratings'[q][b], Stored'[q][b])
    BY <1>2, <1>4, <1>6, <2>1, <2>2, <2>5
  <2>7. logins' # 0
    BY <1>6, <2>1
  <2> QED
    BY <1>1, <1>6, <2>1, <2>6, <2>7
<1>9. CASE RemovePlayer(p)
  BY <1>1, <1>4, <1>6, <1>9 DEF RemovePlayer
<1> QED
  BY <1>7, <1>8, <1>9

\* _persist_rating_changes and _update_player_object
LEMMA PersistShown ==
    ASSUME Inv, ShownInv,
           RateForLeaderboard \/ (\E A \in SUBSET Players : AdjustGlobalRating(A))
    PROVE  ShownInv'
<1>1. /\ rpc \in {"persist", "adjust"} /\ rpc' \in {"adjust", "commit"}
      /\ UNCHANGED <<current, db, online, fetched, loggingIn, logins, failures>>
  BY DEF RateForLeaderboard, AdjustGlobalRating
<1>2. current \in Games /\ BoardOf[current] \in Boards
  BY <1>1, CurrentIsGame
<1>3. PICK S \in SUBSET Players, b \in Boards : PersistRatingChanges(S, b)
  <2>1. PlayersIn[current] \subseteq Players
    BY <1>1, CurrentIsGame
  <2> QED
    BY <1>2, <2>1, RatingAssumption DEF RateForLeaderboard, AdjustGlobalRating
<1>4. /\ tx' = Count(tx, S, b, current)
      /\ ratings' = [p \in Players |->
                       IF p \in S \cap online
                       THEN [ratings[p] EXCEPT ![b] = tx'[p][b]] ELSE ratings[p]]
  BY <1>3 DEF PersistRatingChanges
<1>5. /\ tx \in Ratings /\ db \in Ratings /\ ratings \in Ratings
      /\ online \subseteq Players
  BY DEF Inv, TypeOK
<1>6. /\ tx' \in Ratings
      /\ \A p \in Players, c \in Boards :
           tx'[p][c] = IF p \in S /\ c = b THEN Append(tx[p][c], current) ELSE tx[p][c]
  BY <1>2, <1>4, <1>5, CountAdds
<1>7. \A p \in online, c \in Boards :
        ratings'[p][c] = IF p \in S /\ c = b THEN tx'[p][c] ELSE ratings[p][c]
  BY <1>4, <1>5 DEF Ratings
<1>8. Stored = tx /\ Stored' = tx'
  BY <1>1 DEF Stored, Inv, TxInv
<1>9. \A p \in Players, c \in Boards :
        /\ db[p][c] \in Seq(Games) /\ tx[p][c] \in Seq(Games) /\ tx'[p][c] \in Seq(Games)
        /\ ratings[p][c] \in Seq(Games)
  BY <1>5, <1>6 DEF Ratings
<1>10. \A p \in Players, c \in Boards : IsOld(tx[p][c], tx'[p][c])
  BY <1>2, <1>4, <1>5, CountIsLater
<1>11. \A p \in Players, c \in Boards : IsOld(db[p][c], tx[p][c])
  BY <1>1, <1>9, OldFacts DEF ShownInv, Inv, TxInv
<1>12. \A p \in Players, c \in Boards : IsOld(db[p][c], tx'[p][c])
  BY <1>9, <1>10, <1>11, OldFacts
<1>13. ASSUME failures = 0
       PROVE  /\ \A p \in online, c \in Boards : IsOld(ratings'[p][c], tx'[p][c])
              /\ logins = 0 => \A p \in online, c \in Boards : ratings'[p][c] = tx'[p][c]
  <2>1. rpc # "lost"
    BY <1>1
  <2>2. ASSUME NEW p \in online, NEW c \in Boards
        PROVE  /\ IsOld(ratings'[p][c], tx'[p][c])
               /\ logins = 0 => ratings'[p][c] = tx'[p][c]
    <3>1. IsOld(ratings[p][c], tx[p][c]) /\ (logins = 0 => ratings[p][c] = tx[p][c])
      BY <1>8, <1>13, <2>1 DEF ShownInv
    <3>2. IsOld(ratings[p][c], tx'[p][c]) /\ IsOld(tx'[p][c], tx'[p][c])
      BY <1>5, <1>9, <1>10, <3>1, OldFacts
    <3> QED
      BY <1>5, <1>6, <1>7, <3>1, <3>2
  <2> QED
    BY <2>2
<1> QED
  BY <1>1, <1>8, <1>12, <1>13 DEF ShownInv

\* Every step keeps the ratings that are shown old
LEMMA ShownStep == Inv /\ ShownInv /\ [Next]_vars => ShownInv'
<1> SUFFICES ASSUME Inv, ShownInv, [Next]_vars PROVE ShownInv'
  OBVIOUS
<1>1. CASE UNCHANGED vars
  BY <1>1 DEF vars, rateVars, playerVars, ShownInv, Stored
<1>2. ASSUME NEW p \in Players, FetchPlayerData(p) \/ Register(p) \/ RemovePlayer(p)
      PROVE  ShownInv'
  BY <1>2, PlayerStepShown
<1>3. CASE RateForLeaderboard \/ \E A \in SUBSET Players : AdjustGlobalRating(A)
  BY <1>3, PersistShown
<1>4. CASE Commit
  <2>1. /\ rpc = "commit" /\ rpc' = "publish" /\ db' = tx
        /\ UNCHANGED <<tx, playerVars, failures>>
    BY <1>4 DEF Commit
  <2>2. Stored' = Stored
    BY <2>1 DEF Stored
  <2>3. loggingIn \subseteq Players /\ \A p \in Players, b \in Boards :
          fetched[p][b] \in Seq(Games) /\ db[p][b] \in Seq(Games) /\ tx[p][b] \in Seq(Games)
    BY DEF Inv, TypeOK, Ratings
  <2>4. failures = 0 => \A p \in loggingIn, b \in Boards : IsOld(fetched[p][b], tx[p][b])
    <3> SUFFICES ASSUME failures = 0, NEW p \in loggingIn, NEW b \in Boards
                 PROVE  IsOld(fetched[p][b], tx[p][b])
      OBVIOUS
    <3>1. IsOld(fetched[p][b], db[p][b]) /\ IsOld(db[p][b], tx[p][b])
      BY <2>1, <2>3 DEF ShownInv
    <3> QED
      BY <2>3, <3>1, OldFacts
  <2> QED
    BY <2>1, <2>2, <2>4 DEF ShownInv, playerVars
<1>5. CASE Failure
  <2>1. /\ UNCHANGED <<db, playerVars>> /\ rpc' = "none" /\ failures' = failures + 1
    BY <1>5 DEF Failure, Done
  <2>2. failures' # 0
    BY <2>1, RatingAssumption DEF Inv, TypeOK
  <2> QED
    BY <2>1, <2>2, ShownKept
<1>6. CASE (\E g \in Games : Enqueue(g)) \/ Shutdown \/ Joined
  <2>1. UNCHANGED <<rateVars, playerVars, failures>>
    BY <1>6 DEF Enqueue, Shutdown, Joined
  <2> QED
    BY <2>1 DEF rateVars, playerVars, ShownInv, Stored
<1>7. CASE Get
  <2>1. UNCHANGED <<db, playerVars, failures>> /\ rpc' = "start"
    BY <1>7 DEF Get
  <2>2. rpc = "none"
    BY <1>7 DEF Get, Inv, TaskInv
  <2> QED
    BY <2>1, <2>2, ShownKept
<1>8. CASE Exit
  <2>1. UNCHANGED <<db, playerVars, failures>>
    BY <1>8 DEF Exit
  <2>2. rpc' = "lost" \/ (rpc' = "none" /\ rpc \notin Uncommitted)
    BY <1>8 DEF Exit
  <2> QED
    BY <2>1, <2>2, ShownKept DEF Uncommitted
<1>9. CASE RateStarts \/ GetAllPlayerRatings \/ PublishRatingChanges
  <2>1. UNCHANGED <<db, playerVars, failures>>
    BY <1>9 DEF RateStarts, GetAllPlayerRatings, PublishRatingChanges
  <2>2. /\ rpc \in {"start", "fetch", "publish"}
        /\ rpc' \in {"none", "fetch", "persist"}
    BY <1>9 DEF RateStarts, GetAllPlayerRatings, PublishRatingChanges, Done
  <2> QED
    BY <2>1, <2>2, ShownKept
<1> QED
  BY <1>1, <1>2, <1>3, <1>4, <1>5, <1>6, <1>7, <1>8, <1>9, Zenon DEF Next, RateStep

\* A signed-in player is shown the ratings of the database, or older ones of it
\* if the login raced a game (fetch_player_data, _update_player_object)
THEOREM ShownWasStored == Spec => []ShownIsOld
<1>1. Init => ShownInv
  <2>1. \A p \in Players, b \in Boards : NoRatings[p][b] = <<>> /\ <<>> \in Seq(Games)
    BY DEF NoRatings
  <2>2. IsOld(<<>>, <<>>)
    BY DEF IsOld
  <2> SUFFICES ASSUME Init PROVE ShownInv
    OBVIOUS
  <2>3. /\ rpc = "none" /\ db = NoRatings /\ ratings = NoRatings
        /\ online = Players /\ loggingIn = {}
    BY DEF Init
  <2>4. Stored = NoRatings
    BY <2>3 DEF Stored
  <2> QED
    BY <2>1, <2>2, <2>3, <2>4 DEF ShownInv
<1>2. Inv /\ ShownInv => ShownIsOld
  BY DEF Inv, TaskInv, ShownInv, Stored, IsOld, ShownIsOld
<1> QED
  BY <1>1, <1>2, ShownStep, Invariance, PTL DEF Spec
=============================================================================

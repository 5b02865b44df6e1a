---------------------------- MODULE ServerProofs ----------------------------
(***************************************************************************)
(* Proofs about ServerShutdown, for every number of games, reports and     *)
(* attempts to connect, and about LobbySessions, for all connections and   *)
(* accounts.                                                               *)
(***************************************************************************)
EXTENDS ServerShutdown, LobbySessions, TLAPS

-----------------------------------------------------------------------------
(* Types *)

GameTypeOK ==
    /\ life \in [Games -> {"live", "publishing", "ended", "removed",
                           "removed late"}]
    /\ rated \subseteq Games

ReportTypeOK ==
    /\ doing \in [Reports -> {"none", "players", "games"}]
    /\ popped \in [Reports -> SUBSET Games]
    /\ latest \in Reports \cup {0}
    /\ cut \subseteq Games
    /\ awaited \in Reports \cup {0}

BrokerTypeOK ==
    /\ channel \in Nat /\ exchange \in Nat /\ opened \in Nat
    /\ holder \in {"none", "initialize", "reconnect", "shutdown"}
    /\ step \in {"none", "connect", "declare", "close"}

MainTypeOK ==
    /\ main \in {"starting", "running", "drain", "wait", "stopping", "done",
                 "crashed"}
    /\ waited \subseteq Games

TxTypeOK == tx \in [Games \cup Reports -> Nat]

FlagsTypeOK == ready \in BOOLEAN /\ stopped \in BOOLEAN

\* The type invariant is the conjunction of its parts
LEMMA TypeParts ==
    ServerTypeOK <=> /\ MainTypeOK /\ GameTypeOK /\ ReportTypeOK
               /\ BrokerTypeOK /\ TxTypeOK /\ FlagsTypeOK
BY Zenon DEF ServerTypeOK, MainTypeOK, GameTypeOK, ReportTypeOK, BrokerTypeOK,
             TxTypeOK, FlagsTypeOK

\* ... after a step too
LEMMA TypePartsNext ==
    ASSUME MainTypeOK', GameTypeOK', ReportTypeOK', BrokerTypeOK', TxTypeOK',
           FlagsTypeOK'
    PROVE  ServerTypeOK'
BY Zenon DEF ServerTypeOK, MainTypeOK, GameTypeOK, ReportTypeOK, BrokerTypeOK,
             TxTypeOK, FlagsTypeOK

\* A report that is over leaves values of their types
LEMMA OverType ==
    ASSUME ReportTypeOK, TxTypeOK,
           NEW r \in Reports, NEW lost \in SUBSET Games, Over(r, lost)
    PROVE  /\ doing' \in [Reports -> {"none", "players", "games"}]
           /\ popped' \in [Reports -> SUBSET Games]
           /\ cut' \subseteq Games
           /\ awaited' \in Reports \cup {0}
           /\ TxTypeOK'
<1>1. cut' \in {cut, cut \cup lost}
  BY Zenon DEF Over
<1>2. /\ doing' = [doing EXCEPT ![r] = "none"]
      /\ popped' = [popped EXCEPT ![r] = {}]
      /\ tx' = [tx EXCEPT ![r] = 0]
      /\ awaited' \in {awaited, 0}
  BY Zenon DEF Over
<1> QED
  BY <1>1, <1>2 DEF ReportTypeOK, TxTypeOK

\* So does one that goes on
LEMMA PublishingType ==
    ASSUME ReportTypeOK, TxTypeOK, BrokerTypeOK,
           NEW r \in Reports, NEW what \in {"players", "games"},
           NEW games \in SUBSET Games, Publishing(r, what, games)
    PROVE  /\ doing' \in [Reports -> {"none", "players", "games"}]
           /\ popped' \in [Reports -> SUBSET Games]
           /\ cut' \subseteq Games
           /\ awaited' \in Reports \cup {0}
           /\ TxTypeOK'
<1>1. CASE Over(r, games)
  BY <1>1, OverType
<1>2. CASE /\ doing' = [doing EXCEPT ![r] = what]
           /\ popped' = [popped EXCEPT ![r] = games]
           /\ tx' = [tx EXCEPT ![r] = channel]
           /\ UNCHANGED <<cut, awaited>>
  BY <1>2 DEF ReportTypeOK, TxTypeOK, BrokerTypeOK
<1> QED
  BY <1>1, <1>2, Zenon DEF Publishing

\* The steps of the broker; an exception may end main
LEMMA BrokerType ==
    ASSUME BrokerTypeOK, FlagsTypeOK,
           Connect \/ Declare \/ Reconnect \/ Stop \/ Close
    PROVE  /\ BrokerTypeOK' /\ FlagsTypeOK'
           /\ main' \in {main, "crashed"}
           /\ UNCHANGED <<awaited, waited, tx, lifeVars, reportVars>>
<1>1. FlagsTypeOK'
  BY Zenon DEF FlagsTypeOK, Connect, Declare, Reconnect, Stop, Close, Released,
               Raised
<1>2. /\ opened' \in {opened, opened + 1}
      /\ channel' \in {channel, opened', 0}
      /\ exchange' \in {exchange, channel}
  BY Zenon DEF Connect, Declare, Reconnect, Stop, Close, Released, Raised
<1>3. /\ holder' \in {holder, "none", "reconnect", "shutdown"}
      /\ step' \in {"none", "connect", "declare", "close"}
  BY Zenon DEF Connect, Declare, Reconnect, Stop, Close, Released, Raised
<1>5. /\ main' \in {main, "crashed"}
      /\ UNCHANGED <<awaited, waited, tx, lifeVars, reportVars>>
  BY Zenon DEF Connect, Declare, Reconnect, Stop, Close, Released, Raised, mainVars
<1>4. BrokerTypeOK'
  BY <1>2, <1>3 DEF BrokerTypeOK
<1> QED
  BY <1>1, <1>4, <1>5

\* Every step of the server preserves the types of its variables
LEMMA TypeStep ==
    ASSUME ServerTypeOK, [ServerNext]_serverVars
    PROVE  ServerTypeOK'
<1>1. /\ MainTypeOK /\ GameTypeOK /\ ReportTypeOK
      /\ BrokerTypeOK /\ TxTypeOK /\ FlagsTypeOK
  BY TypeParts
<1>2. CASE Connect \/ Declare \/ Reconnect \/ Stop \/ Close
  <2>1. BrokerTypeOK' /\ FlagsTypeOK'
    BY <1>1, <1>2, BrokerType
  <2>2. /\ main' \in {main, "crashed"}
        /\ UNCHANGED <<awaited, waited, tx, lifeVars, reportVars>>
    BY <1>1, <1>2, BrokerType
  <2>3. MainTypeOK' /\ GameTypeOK' /\ ReportTypeOK' /\ TxTypeOK'
    BY <1>1, <2>2 DEF lifeVars, reportVars, MainTypeOK, GameTypeOK,
                      ReportTypeOK, TxTypeOK
  <2> QED
    BY <2>1, <2>3, TypePartsNext
<1>3. ASSUME NEW g \in Games, EndGame(g) \/ ResultsPublished(g)
      PROVE  ServerTypeOK'
  <2>1. /\ life' \in {[life EXCEPT ![g] = "ended"], [life EXCEPT ![g] = "publishing"]}
        /\ rated' \in {rated, rated \cup {g}}
        /\ tx' \in {tx, [tx EXCEPT ![g] = channel], [tx EXCEPT ![g] = 0]}
    BY <1>3, Zenon DEF EndGame, ResultsPublished
  <2>2. GameTypeOK'
    BY <1>1, <2>1 DEF GameTypeOK
  <2>3. TxTypeOK'
    BY <1>1, <2>1 DEF TxTypeOK, BrokerTypeOK
  <2>4. UNCHANGED <<mainVars, reportVars, brokerVars>>
    BY <1>3, Zenon DEF EndGame, ResultsPublished
  <2>5. MainTypeOK' /\ ReportTypeOK' /\ BrokerTypeOK' /\ FlagsTypeOK'
    BY <1>1, <2>4, Zenon DEF mainVars, reportVars, brokerVars, MainTypeOK,
                             ReportTypeOK, BrokerTypeOK, FlagsTypeOK
  <2> QED
    BY <2>2, <2>3, <2>5, TypePartsNext
<1>4. ASSUME NEW r \in Reports, Report(r)
      PROVE  ServerTypeOK'
  <2> DEFINE ended == {g \in Games : life[g] = "ended"}
  <2>1. PICK what \in {"players", "games"} : Publishing(r, what, ended)
    BY <1>4, Zenon DEF Report
  <2>2. PICK leave \in {"removed", "removed late"} :
          life' = [g \in Games |-> IF g \in ended THEN leave ELSE life[g]]
    BY <1>4, Zenon DEF Report
  <2>3. latest' \in Reports \cup {0}
    BY <1>4, Zenon DEF Report
  <2>4. UNCHANGED <<main, waited, rated, brokerVars>>
    BY <1>4, Zenon DEF Report
  <2>5. ended \in SUBSET Games
    OBVIOUS
  <2> HIDE DEF ended
  <2>6. ReportTypeOK' /\ TxTypeOK'
    BY <1>1, <2>1, <2>3, <2>5, PublishingType DEF ReportTypeOK
  <2>7. GameTypeOK'
    BY <1>1, <2>2, <2>4 DEF GameTypeOK
  <2>8. MainTypeOK' /\ BrokerTypeOK' /\ FlagsTypeOK'
    BY <1>1, <2>4, Zenon DEF brokerVars, MainTypeOK, BrokerTypeOK, FlagsTypeOK
  <2> QED
    BY <2>6, <2>7, <2>8, TypePartsNext
<1>5. ASSUME NEW r \in Reports, Published(r)
      PROVE  ServerTypeOK'
  <2>1. popped[r] \in SUBSET Games
    BY <1>1 DEF ReportTypeOK
  <2>2. \/ Over(r, popped[r]) \/ Over(r, {})
        \/ Publishing(r, "games", popped[r])
    BY <1>5, Zenon DEF Published
  <2>3. latest' \in {0, latest}
    BY <1>5, Zenon DEF Published
  <2>4. UNCHANGED <<main, waited, lifeVars, brokerVars>>
    BY <1>5, Zenon DEF Published
  <2>5. ReportTypeOK' /\ TxTypeOK'
    BY <1>1, <2>1, <2>2, <2>3, OverType, PublishingType DEF ReportTypeOK
  <2>6. MainTypeOK' /\ GameTypeOK' /\ BrokerTypeOK' /\ FlagsTypeOK'
    BY <1>1, <2>4, Zenon DEF lifeVars, brokerVars, MainTypeOK, GameTypeOK,
                             BrokerTypeOK, FlagsTypeOK
  <2> QED
    BY <2>5, <2>6, TypePartsNext
<1>6. CASE Started \/ Signal \/ Drained \/ Interrupted \/ Waited \/ ServicesDown
  <2>1. main' \in {"running", "drain", "wait", "crashed", "stopping", "done"}
    BY <1>6, Zenon DEF Started, Signal, Drained, Interrupted, Waited, ServicesDown
  <2>2. /\ awaited' \in {awaited, latest}
        /\ waited' \in {waited, StillPublished}
    BY <1>6, Zenon DEF Started, Signal, Drained, Interrupted, Waited, ServicesDown
  <2>6. StillPublished \subseteq Games
    BY <1>1 DEF StillPublished, ReportTypeOK
  <2>3. UNCHANGED <<lifeVars, reportVars, brokerVars, tx>>
    BY <1>6, Zenon DEF Started, Signal, Drained, Interrupted, Waited, ServicesDown
  <2>4. MainTypeOK' /\ ReportTypeOK'
    BY <1>1, <2>1, <2>2, <2>3, <2>6 DEF MainTypeOK, ReportTypeOK, reportVars
  <2>5. GameTypeOK' /\ BrokerTypeOK' /\ FlagsTypeOK' /\ TxTypeOK'
    BY <1>1, <2>3, Zenon DEF lifeVars, brokerVars, GameTypeOK, BrokerTypeOK,
                             FlagsTypeOK, TxTypeOK
  <2> QED
    BY <2>4, <2>5, TypePartsNext
<1>7. CASE UNCHANGED serverVars
  BY <1>7, Zenon DEF serverVars, mainVars, lifeVars, reportVars, brokerVars, ServerTypeOK
<1> QED
  BY <1>2, <1>3, <1>4, <1>5, <1>6, <1>7, Zenon DEF ServerNext

\* Every variable of the server holds a value of its kind
THEOREM ShutdownTypeCorrect ==
    ASSUME ShutdownAssumption
    PROVE  ServerSpec => []ServerTypeOK
<1>1. ServerInit => ServerTypeOK
  <2>1. SUFFICES ASSUME ServerInit PROVE ServerTypeOK
    OBVIOUS
  <2>2. FlagsTypeOK
    BY <2>1, Zenon DEF ServerInit, FlagsTypeOK
  <2>3. MainTypeOK /\ GameTypeOK /\ ReportTypeOK /\ BrokerTypeOK /\ TxTypeOK
    BY <2>1 DEF ServerInit, MainTypeOK, GameTypeOK, ReportTypeOK, BrokerTypeOK, TxTypeOK
  <2> QED
    BY <2>2, <2>3, TypeParts
<1>2. ServerTypeOK /\ [ServerNext]_serverVars => ServerTypeOK'
  BY TypeStep
<1> QED
  BY <1>1, <1>2, PTL DEF ServerSpec

-----------------------------------------------------------------------------
(* The broker *)

\* What initialize, reconnect and shutdown leave to each other through the
\* lock: a channel is declared on while it is there, the first exchange is not
\* known before initialize has declared it, and nobody publishes while the
\* connection is replaced or closed
BrokerInv ==
    /\ step = "declare" => channel # 0
    /\ holder = "initialize" => exchange = 0
    /\ holder \in {"reconnect", "shutdown"} => ~ready
    /\ step = "close" => holder \in {"reconnect", "shutdown"}
    /\ step = "connect" => holder \in {"initialize", "reconnect"} /\ ~ready

\* Steps of the others leave the broker alone
LEMMA BrokerAlone ==
    ASSUME BrokerInv, ReadyIsUsable, UNCHANGED brokerVars
    PROVE  BrokerInv' /\ ReadyIsUsable'
BY Zenon DEF brokerVars, BrokerInv, ReadyIsUsable

\* The invariant of the broker, with what it is for
LEMMA BrokerStep ==
    ASSUME ServerTypeOK, BrokerInv, ReadyIsUsable, [ServerNext]_serverVars
    PROVE  BrokerInv' /\ ReadyIsUsable'
<1>1. CASE Connect
  <2>1. opened \in Nat
    BY TypeParts DEF BrokerTypeOK
  <2>2. opened' = opened + 1
    BY <1>1, Zenon DEF Connect
  <2>3. opened' # 0
    BY <2>1, <2>2
  <2>4. ~ready /\ step = "connect" /\ holder \in {"initialize", "reconnect"}
    BY <1>1, Zenon DEF Connect, BrokerInv
  <2>5. exchange' = exchange
    BY <1>1, Zenon DEF Connect, Raised
  <2>6. CASE step' = "none" /\ holder' = "none" /\ UNCHANGED <<ready, channel>>
    BY <2>4, <2>5, <2>6, Zenon DEF BrokerInv, ReadyIsUsable
  <2>7. CASE /\ channel' = opened' /\ holder = "initialize"
             /\ step' = "declare" /\ holder' = holder
    BY <2>3, <2>5, <2>7, Zenon DEF BrokerInv, ReadyIsUsable
  <2>8. CASE /\ channel' = opened' /\ exchange # 0 /\ holder = "reconnect"
             /\ step' = "declare" /\ holder' = holder /\ ~ready'
    BY <2>3, <2>8, Zenon DEF BrokerInv, ReadyIsUsable
  <2>9. CASE /\ channel' = opened' /\ exchange = 0
             /\ step' = "none" /\ holder' = "none"
    BY <2>3, <2>5, <2>9, Zenon DEF BrokerInv, ReadyIsUsable
  <2> QED
    BY <1>1, <2>4, <2>6, <2>7, <2>8, <2>9, Zenon DEF Connect, Released, Raised
<1>2. CASE Declare
  <2>1. step = "declare" /\ step' = "none" /\ holder' = "none"
    BY <1>2, Zenon DEF Declare, Released, Raised
  <2>2. BrokerInv'
    BY <2>1 DEF BrokerInv
  <2>3. CASE exchange' = channel /\ UNCHANGED channel
    BY <2>1, <2>2, <2>3 DEF BrokerInv, ReadyIsUsable
  <2>4. CASE UNCHANGED <<ready, channel, exchange>>
    BY <2>2, <2>4, Zenon DEF ReadyIsUsable
  <2> QED
    BY <1>2, <2>3, <2>4, Zenon DEF Declare, Raised
<1>3. CASE Reconnect \/ Stop
  BY <1>3, Zenon DEF Reconnect, Stop, BrokerInv, ReadyIsUsable
<1>4. CASE Close
  BY <1>4, Zenon DEF Close, BrokerInv, ReadyIsUsable
<1>5. CASE \/ \E g \in Games : EndGame(g) \/ ResultsPublished(g)
           \/ \E r \in Reports : Report(r) \/ Published(r)
           \/ Started \/ Signal \/ Drained \/ Interrupted \/ Waited \/ ServicesDown
  <2>1. UNCHANGED brokerVars
    BY <1>5, Zenon DEF EndGame, ResultsPublished, Report, Published, Started,
                Signal, Drained, Interrupted, Waited, ServicesDown
  <2> QED
    BY <2>1, BrokerAlone
<1>6. CASE UNCHANGED serverVars
  BY <1>6, BrokerAlone, Zenon DEF serverVars
<1> QED
  BY <1>1, <1>2, <1>3, <1>4, <1>5, <1>6, Zenon DEF ServerNext

\* A service that is ready publishes on the channel it has and to exchanges of
\* that channel: the assertion of publish_many never fails
THEOREM ReadyServiceUsable ==
    ASSUME ShutdownAssumption
    PROVE  ServerSpec => []ReadyIsUsable
<1>1. ServerInit => BrokerInv /\ ReadyIsUsable
  BY Zenon DEF ServerInit, BrokerInv, ReadyIsUsable
<1>2. ServerTypeOK /\ BrokerInv /\ ReadyIsUsable /\ [ServerNext]_serverVars
          => BrokerInv' /\ ReadyIsUsable'
  BY BrokerStep
<1>3. ServerSpec => []ServerTypeOK
  BY ShutdownTypeCorrect
<1> QED
  BY <1>1, <1>2, <1>3, PTL DEF ServerSpec

-----------------------------------------------------------------------------
(* The wait for the last report *)

Gone == {"removed", "removed late"}

\* The services are shut down only after the wait, which is over only once the
\* report it was for is
WaitMain ==
    /\ stopped => main \in {"stopping", "done"}
    /\ holder = "initialize" => ~stopped
    /\ main \in {"stopping", "done"} => awaited = 0
    /\ main \in {"starting", "running", "drain"} => waited = {}

\* What a report has still to publish nobody else publishes, as its games have
\* left the service; what the wait is for is published by its report alone
WaitGames ==
    /\ \A r \in Reports : \A g \in popped[r] : life[g] \in Gone
    /\ \A g \in waited : life[g] \in Gone
    /\ \A r, s \in Reports : r # s => popped[r] \cap popped[s] = {}
    /\ \A r \in Reports : popped[r] \cap waited # {} => awaited = r

\* Messages are lost to the shutdown only after it has begun, and none of those
\* that the wait was for
WaitCut ==
    /\ ~stopped => cut = {}
    /\ AwaitedIsPosted

WaitInv == WaitMain /\ WaitGames /\ WaitCut

\* What a step of report r does to the games it publishes: it has still p to
\* publish, and ends its wait only with nothing left
Effect(r, games, p) ==
    /\ popped' = [popped EXCEPT ![r] = p]
    /\ awaited' = awaited \/ (awaited = r /\ awaited' = 0 /\ p = {})
    /\ cut' = cut \/ (stopped /\ cut' \subseteq cut \cup games)

\* A report that is over loses at most what it had to publish
LEMMA OverEffect ==
    ASSUME NEW r, NEW games, NEW lost \in SUBSET games, Over(r, lost)
    PROVE  Effect(r, games, {})
<1>1. /\ popped' = [popped EXCEPT ![r] = {}]
      /\ awaited' = IF awaited = r THEN 0 ELSE awaited
      /\ stopped => cut' = cut \cup lost
      /\ ~stopped => cut' = cut
  BY Zenon DEF Over
<1>2. cut' = cut \/ (stopped /\ cut' \subseteq cut \cup games)
  BY <1>1
<1>3. awaited' = awaited \/ (awaited = r /\ awaited' = 0)
  BY <1>1
<1> QED
  BY <1>1, <1>2, <1>3, Zenon DEF Effect

\* So does one that goes on
LEMMA PublishingEffect ==
    ASSUME NEW r, NEW what, NEW games, Publishing(r, what, games)
    PROVE  Effect(r, games, {}) \/ Effect(r, games, games)
<1>1. CASE Over(r, games)
  <2>1. Effect(r, games, {})
    BY <1>1, OverEffect
  <2> QED
    BY <2>1, Zenon
<1>2. CASE popped' = [popped EXCEPT ![r] = games] /\ UNCHANGED <<cut, awaited>>
  BY <1>2, Zenon DEF Effect
<1> QED
  BY <1>1, <1>2, Zenon DEF Publishing

\* The step of a report preserves the invariant, if its games have left the
\* service, no other report publishes them, and the wait is for none of them or
\* for this very report
LEMMA EffectKeepsWait ==
    ASSUME ServerTypeOK, WaitInv, ShutdownAssumption,
           NEW r \in Reports, NEW games \in SUBSET Games,
           Effect(r, games, {}) \/ Effect(r, games, games),
           UNCHANGED <<main, waited, stopped, holder>>,
           games \cap waited # {} => awaited = r,
           \A s \in Reports \ {r} : games \cap popped[s] = {},
           \A g \in games : life'[g] \in Gone,
           \A g \in Games : life[g] \in Gone => life'[g] \in Gone
    PROVE  WaitInv'
<1>1. ReportTypeOK /\ waited \subseteq Games /\ r # 0
  BY TypeParts DEF ShutdownAssumption, MainTypeOK
<1>2. PICK p \in {{}, games} : Effect(r, games, p)
  <2>1. ASSUME Effect(r, games, {}) PROVE \E p \in {{}, games} : Effect(r, games, p)
    BY <2>1, Zenon
  <2>2. ASSUME Effect(r, games, games)
        PROVE  \E p \in {{}, games} : Effect(r, games, p)
    BY <2>2, Zenon
  <2> QED
    BY <2>1, <2>2
<1>3. /\ popped'[r] = p /\ p \subseteq games
      /\ \A s \in Reports \ {r} : popped'[s] = popped[s]
  BY <1>1, <1>2 DEF Effect, ReportTypeOK
<1>4. awaited' = awaited \/ (awaited = r /\ awaited' = 0 /\ p = {})
  BY <1>2, Zenon DEF Effect
<1>5. cut' = cut \/ (stopped /\ cut' \subseteq cut \cup games)
  BY <1>2, Zenon DEF Effect
<1>6. WaitMain'
  <2>1. awaited = 0 => awaited' = 0
    BY <1>4
  <2> QED
    BY <2>1, Zenon DEF WaitInv, WaitMain
<1>7. WaitGames'
  <2>1. \A s \in Reports : \A g \in popped'[s] : life'[g] \in Gone
    BY <1>1, <1>3 DEF WaitInv, WaitGames, ReportTypeOK
  <2>2. \A g \in waited' : life'[g] \in Gone
    BY <1>1 DEF WaitInv, WaitGames
  <2>3. \A s, t \in Reports : s # t => popped'[s] \cap popped'[t] = {}
    BY <1>3 DEF WaitInv, WaitGames
  <2>4. \A s \in Reports : popped'[s] \cap waited' # {} => awaited' = s
    BY <1>3, <1>4 DEF WaitInv, WaitGames
  <2> QED
    BY <2>1, <2>2, <2>3, <2>4, Zenon DEF WaitGames
<1>8. WaitCut'
  <2>1. ~stopped => cut' = {}
    BY <1>5 DEF WaitInv, WaitCut
  <2>2. stopped => awaited = 0
    BY Zenon DEF WaitInv, WaitMain
  <2>3. stopped => games \cap waited = {}
    BY <1>1, <2>2
  <2>4. cut \cap waited = {}
    BY Zenon DEF WaitInv, WaitCut, AwaitedIsPosted
  <2>5. cut' \cap waited' = {}
    BY <1>5, <2>3, <2>4
  <2> QED
    BY <2>1, <2>5, Zenon DEF WaitCut, AwaitedIsPosted
<1> QED
  BY <1>6, <1>7, <1>8, Zenon DEF WaitInv

\* Every step preserves the invariant, however the reports overlap
LEMMA WaitStep ==
    ASSUME ServerTypeOK, WaitInv, ShutdownAssumption, [ServerNext]_serverVars
    PROVE  WaitInv'
<1>1. GameTypeOK /\ ReportTypeOK
  BY TypeParts
<1>2. CASE Stop
  <2>1. /\ UNCHANGED <<mainVars, lifeVars, reportVars>> /\ main = "stopping"
        /\ holder' = "shutdown" /\ stopped' = TRUE /\ ~stopped
    BY <1>2, Zenon DEF Stop
  <2>2. holder' # "initialize"
    BY <2>1
  <2> QED
    BY <2>1, <2>2, Zenon DEF WaitInv, WaitMain, WaitGames, WaitCut, AwaitedIsPosted,
                             mainVars, lifeVars, reportVars
<1>3. CASE Connect \/ Declare \/ Reconnect \/ Close
  <2>1. /\ UNCHANGED <<awaited, waited, lifeVars, reportVars, stopped>>
        /\ main' = main \/ (main' = "crashed" /\ holder = "initialize")
        /\ holder' \in {holder, "none", "reconnect"}
    BY <1>3, Zenon DEF Connect, Declare, Reconnect, Close, Released, Raised, mainVars
  <2>2. WaitMain'
    BY <2>1 DEF WaitInv, WaitMain
  <2> QED
    BY <2>1, <2>2, Zenon DEF WaitInv, WaitGames, WaitCut, AwaitedIsPosted,
                             lifeVars, reportVars
<1>4. ASSUME NEW h \in Games, EndGame(h) \/ ResultsPublished(h)
      PROVE  WaitInv'
  <2>1. /\ life[h] \in {"live", "publishing"}
        /\ life' \in {[life EXCEPT ![h] = "ended"],
                       [life EXCEPT ![h] = "publishing"]}
    BY <1>4, Zenon DEF EndGame, ResultsPublished
  <2>2. UNCHANGED <<mainVars, reportVars, stopped, holder>>
    BY <1>4, Zenon DEF EndGame, ResultsPublished, brokerVars
  <2>3. \A g \in Games : life[g] \in Gone => life'[g] \in Gone
    BY <1>1, <2>1 DEF GameTypeOK, Gone
  <2>4. /\ waited \subseteq Games
        /\ \A r \in Reports : popped[r] \subseteq Games
    BY <1>1, TypeParts DEF ReportTypeOK, MainTypeOK
  <2>5. WaitGames'
    BY <2>2, <2>3, <2>4 DEF WaitInv, WaitGames, mainVars, reportVars
  <2> QED
    BY <2>2, <2>5, Zenon DEF WaitInv, WaitMain, WaitCut, AwaitedIsPosted,
                             mainVars, reportVars
<1>5. ASSUME NEW r \in Reports, Report(r)
      PROVE  WaitInv'
  <2> DEFINE ended == {g \in Games : life[g] = "ended"}
  <2>1. PICK leave \in Gone :
          life' = [g \in Games |-> IF g \in ended THEN leave ELSE life[g]]
    BY <1>5, Zenon DEF Report, Gone
  <2>2. PICK what \in {"players", "games"} : Publishing(r, what, ended)
    BY <1>5, Zenon DEF Report
  <2>3. /\ \A g \in ended : life'[g] \in Gone
        /\ \A g \in Games : life[g] \in Gone => life'[g] \in Gone
    BY <2>1
  <2>4. UNCHANGED <<main, waited, stopped, holder>>
    BY <1>5, Zenon DEF Report, brokerVars
  <2>5. /\ ended \in SUBSET Games
        /\ \A g \in ended : life[g] \notin Gone
    BY DEF Gone
  <2> HIDE DEF ended
  <2>6. Effect(r, ended, {}) \/ Effect(r, ended, ended)
    BY <2>2, PublishingEffect
  <2>7. ended \cap waited = {} /\ \A s \in Reports : ended \cap popped[s] = {}
    BY <2>5 DEF WaitInv, WaitGames
  <2> QED
    BY <2>3, <2>4, <2>5, <2>6, <2>7, EffectKeepsWait
<1>6. ASSUME NEW r \in Reports, Published(r)
      PROVE  WaitInv'
  <2>1. popped[r] \in SUBSET Games
    BY <1>1 DEF ReportTypeOK
  <2>2. UNCHANGED <<main, waited, stopped, holder, life>>
    BY <1>6, Zenon DEF Published, lifeVars, brokerVars
  <2>3. Effect(r, popped[r], {}) \/ Effect(r, popped[r], popped[r])
    <3>1. \/ Over(r, popped[r]) \/ Over(r, {})
          \/ Publishing(r, "games", popped[r])
      BY <1>6, Zenon DEF Published
    <3> QED
      BY <3>1, OverEffect, PublishingEffect
  <2>4. /\ popped[r] \cap waited # {} => awaited = r
        /\ \A s \in Reports \ {r} : popped[r] \cap popped[s] = {}
        /\ \A g \in popped[r] : life[g] \in Gone
    BY DEF WaitInv, WaitGames
  <2> QED
    BY <2>1, <2>2, <2>3, <2>4, EffectKeepsWait
<1>7. CASE Drained
  <2>1. /\ main = "drain" /\ main' = "wait" /\ awaited' = latest
        /\ waited' = StillPublished
        /\ UNCHANGED <<lifeVars, reportVars, stopped, holder>>
    BY <1>7, Zenon DEF Drained, brokerVars
  <2>2. ~stopped /\ cut = {}
    BY <2>1 DEF WaitInv, WaitMain, WaitCut
  <2>3. WaitMain' /\ WaitCut'
    BY <2>1, <2>2 DEF WaitMain, WaitCut, AwaitedIsPosted, reportVars
  <2>4. UNCHANGED <<popped, life>>
    BY <2>1 DEF lifeVars, reportVars
  <2>5. /\ \A g \in waited' : life[g] \in Gone
        /\ \A r \in Reports : popped[r] \cap waited' # {} => latest = r
    BY <1>1, <2>1 DEF WaitInv, WaitGames, StillPublished, ReportTypeOK
  <2>6. WaitGames'
    BY <2>1, <2>4, <2>5, Zenon DEF WaitInv, WaitGames
  <2> QED
    BY <2>3, <2>6, Zenon DEF WaitInv
<1>8. CASE Started \/ Signal \/ Interrupted \/ Waited \/ ServicesDown
  <2>1. UNCHANGED <<awaited, waited, lifeVars, reportVars, stopped, holder>>
    BY <1>8, Zenon DEF Started, Signal, Interrupted, Waited, ServicesDown,
                       brokerVars
  <2>2. WaitMain'
    BY <1>8, <2>1 DEF Started, Signal, Interrupted, Waited, ServicesDown, WaitInv,
                      WaitMain
  <2> QED
    BY <2>1, <2>2, Zenon DEF WaitInv, WaitGames, WaitCut, AwaitedIsPosted,
                             lifeVars, reportVars
<1>9. CASE UNCHANGED serverVars
  BY <1>9, Zenon DEF serverVars, mainVars, lifeVars, reportVars, brokerVars, WaitInv,
                     WaitMain, WaitGames, WaitCut, AwaitedIsPosted
<1> QED
  BY <1>2, <1>3, <1>4, <1>5, <1>6, <1>7, <1>8, <1>9, Zenon DEF ServerNext

\* What drain waits for is posted or refused: no game of the report that began
\* last before the wait loses its message to the shutdown of the services,
\* whatever other reports run meanwhile and whatever happens to the broker
THEOREM DrainWaitsForReport ==
    ASSUME ShutdownAssumption
    PROVE  ServerSpec => []AwaitedIsPosted
<1>1. ServerInit => WaitInv
  BY DEF ServerInit, WaitInv, WaitMain, WaitGames, WaitCut, AwaitedIsPosted
<1>2. ServerTypeOK /\ WaitInv /\ [ServerNext]_serverVars => WaitInv'
  BY WaitStep
<1>3. WaitInv => AwaitedIsPosted
  BY DEF WaitInv, WaitCut
<1>4. ServerSpec => []ServerTypeOK
  BY ShutdownTypeCorrect
<1> QED
  BY <1>1, <1>2, <1>3, <1>4, PTL DEF ServerSpec

-----------------------------------------------------------------------------
(* The registry of players *)

\* Where the handler of a connection stands says whether it is served; a sign-in
\* knows its account, and NoGhost
SessionInv ==
    /\ \A c \in Conns : c \in connections <=> at[c] \in SigningIn \cup {"read"}
    /\ \A c \in Conns : at[c] \in {"policy", "update"} => want[c] \in Accounts
    /\ NoGhost

\* The invariant of the sessions
SessionsInv == LobbyTypeOK /\ SessionInv

\* Closing transports leaves a transport of its type
LEMMA ClosedType ==
    ASSUME LobbyTypeOK, NEW C
    PROVE  Closed(C) \in [Conns -> {"none", "accepted", "open", "closing", "lost"}]
BY DEF LobbyTypeOK, Closed

\* The end of a handler takes the player of its connection out of the registry,
\* which may have been changed by an entry for this very connection
LEMMA LeaveKeeps ==
    ASSUME SessionsInv, NEW c \in Conns, at[c] \in SigningIn \cup {"read"},
           NEW registry \in [Accounts -> Conns \cup {NoConn}],
           \A a \in Accounts : registry[a] = players[a] \/ a = me[c],
           Leave(c, registry), UNCHANGED <<me, downVars>>
    PROVE  SessionsInv'
<1> USE DEF SessionsInv
<1>1. LobbyTypeOK'
  <2>1. players' \in [Accounts -> Conns \cup {NoConn}]
    BY Zenon DEF Leave
  <2>2. /\ link' \in [Conns -> {"none", "accepted", "open", "closing", "lost"}]
        /\ at' \in [Conns -> SigningIn \cup {"none", "read", "done"}]
        /\ want' \in [Conns -> Accounts \cup {NoAccount}]
    BY DEF Leave, LobbyTypeOK
  <2>3. timers' \subseteq connections' /\ auth' \subseteq Conns
        /\ kicked' \subseteq Conns /\ connections' \subseteq Conns
    BY DEF Leave, LobbyTypeOK
  <2> QED
    BY <2>1, <2>2, <2>3 DEF LobbyTypeOK, downVars
<1>2. ASSUME NEW d \in Conns
      PROVE  /\ d \in connections' <=> at'[d] \in SigningIn \cup {"read"}
             /\ at'[d] \in {"policy", "update"} => want'[d] \in Accounts
  BY DEF Leave, LobbyTypeOK, SessionInv, SigningIn
<1>3. NoGhost'
  <2> SUFFICES ASSUME NEW a \in Accounts, players'[a] # NoConn
               PROVE  players'[a] \in connections' \/ me'[players'[a]] # a
    BY DEF NoGhost
  <2>1. a # me[c] /\ players'[a] = players[a]
    BY DEF Leave
  <2>2. players[a] \in connections \/ me[players[a]] # a
    BY <2>1 DEF SessionInv, NoGhost
  <2> QED
    BY <2>1, <2>2 DEF Leave
<1> QED
  BY <1>1, <1>2, <1>3 DEF SessionInv

\* The steps that leave the handlers and the registry alone
LEMMA TransportKeeps ==
    ASSUME SessionsInv, UNCHANGED <<connections, at, want, me, players>>,
           link' \in [Conns -> {"none", "accepted", "open", "closing", "lost"}],
           timers' \subseteq timers, kicked' \subseteq kicked, auth' \subseteq auth,
           down' \in {"no", "closing", "done"}, ending' \subseteq Conns
    PROVE  SessionsInv'
BY DEF SessionsInv, LobbyTypeOK, SessionInv, NoGhost

\* Every step keeps the invariant
LEMMA SessionStep ==
    ASSUME LobbyAssumption, SessionsInv, [LobbyNext]_lobbyVars
    PROVE  SessionsInv'
<1> USE DEF SessionsInv
<1>1. ASSUME NEW c \in Conns,
             Accept(c) \/ PeerLeaves(c) \/ Flush(c) \/ Garbage(c) \/ Timeout(c)
             \/ Kicked(c) \/ Kick(c) \/ CloseOrAbort(c)
      PROVE  SessionsInv'
  <2>1. UNCHANGED <<connections, at, want, me, players>>
    BY <1>1, Zenon DEF Accept, PeerLeaves, Flush, Garbage, Timeout, Kicked, Kick,
                CloseOrAbort, netVars, loginVars, downVars
  <2>2. link' \in {link, Closed({c}), [link EXCEPT ![c] = "lost"],
                   [link EXCEPT ![c] = "accepted"]}
    BY <1>1, Zenon DEF Accept, PeerLeaves, Flush, Garbage, Timeout, Kicked, Kick,
                CloseOrAbort, AbortSession
  <2>3. /\ timers' \in {timers, timers \ {c}}
        /\ kicked' \in {kicked, kicked \ {c}}
        /\ auth' \in {auth, auth \ {c}}
        /\ ending' \in {ending, ending \ {c}} /\ down' = down
    BY <1>1, Zenon DEF Accept, PeerLeaves, Flush, Garbage, Timeout, Kicked, Kick,
                CloseOrAbort, AbortSession, netVars, loginVars, downVars
  <2>4. link' \in [Conns -> {"none", "accepted", "open", "closing", "lost"}]
    BY <2>2, ClosedType DEF LobbyTypeOK
  <2> QED
    BY <2>1, <2>3, <2>4, TransportKeeps DEF LobbyTypeOK
<1>2. ASSUME NEW c \in Conns, ClientConnected(c)
      PROVE  SessionsInv'
  BY <1>2 DEF ClientConnected, LobbyTypeOK, SessionInv, NoGhost, SigningIn, downVars
<1>3. ASSUME NEW c \in Conns, Exit(c) \/ WriteFails(c) \/ Cancelled(c)
      PROVE  SessionsInv'
  <2>1. /\ at[c] \in SigningIn \cup {"read"} /\ Leave(c, players)
        /\ UNCHANGED <<me, downVars>>
    BY <1>3 DEF Exit, WriteFails, Cancelled
  <2> QED
    BY <2>1, LeaveKeeps DEF LobbyTypeOK
<1>4. ASSUME NEW c \in Conns, NEW a \in AccountsOf[c], SignIn(c, a)
      PROVE  SessionsInv'
  <2>1. a \in Accounts
    BY <1>4 DEF LobbyAssumption
  <2> QED
    BY <1>4, <2>1 DEF SignIn, LobbyTypeOK, SessionInv, NoGhost, SigningIn, netVars, downVars
<1>5. ASSUME NEW c \in Conns, Refuse(c)
      PROVE  SessionsInv'
  BY <1>5 DEF Refuse, LobbyTypeOK, SessionInv, NoGhost, SigningIn, netVars, downVars
<1>6. ASSUME NEW c \in Conns, SignInFails(c)
      PROVE  SessionsInv'
  <2>1. CASE link[c] = "open"
    <3>1. link' = Closed({c}) /\ auth' = auth \ {c} /\ at[c] \in SigningIn
          /\ at' = [at EXCEPT ![c] = "read"]
          /\ want' = [want EXCEPT ![c] = NoAccount]
          /\ UNCHANGED <<connections, timers, kicked, players, me, downVars>>
      BY <1>6, <2>1, Zenon DEF SignInFails, AbortSession
    <3>2. link' \in [Conns -> {"none", "accepted", "open", "closing", "lost"}]
      BY <3>1, ClosedType
    <3> QED
      BY <3>1, <3>2 DEF LobbyTypeOK, SessionInv, NoGhost, SigningIn, downVars
  <2>2. CASE link[c] # "open"
    BY <1>6, <2>2, LeaveKeeps DEF SignInFails, LobbyTypeOK
  <2> QED
    BY <2>1, <2>2
<1>7. ASSUME NEW c \in Conns, Check(c)
      PROVE  SessionsInv'
  <2>1. PICK old : old = players[want[c]]
    OBVIOUS
  <2>2. /\ at[c] = "policy"
        /\ UNCHANGED <<link, connections, timers, me, auth, players, downVars>>
    BY <1>7 DEF Check
  <2>3. old \in Conns \cup {NoConn}
    BY <2>1, <2>2 DEF SessionInv, LobbyTypeOK
  <2>4. CASE old = c
    <3>1. /\ at' = [at EXCEPT ![c] = "read"]
          /\ want' = [want EXCEPT ![c] = NoAccount] /\ kicked' = kicked
      BY <1>7, <2>1, <2>4, Zenon DEF Check
    <3> QED
      BY <2>2, <3>1 DEF LobbyTypeOK, SessionInv, NoGhost, SigningIn, downVars
  <2>5. CASE old # c
    <3>1. /\ at' = [at EXCEPT ![c] = "update"] /\ want' = want
          /\ kicked' = IF old # NoConn /\ link[old] = "open"
                       THEN kicked \cup {old} ELSE kicked
      BY <1>7, <2>1, <2>5, Zenon DEF Check
    <3>2. kicked' \subseteq Conns
      BY <2>3, <3>1 DEF LobbyTypeOK
    <3> QED
      BY <2>2, <3>1, <3>2 DEF LobbyTypeOK, SessionInv, NoGhost, SigningIn, downVars
  <2> QED
    BY <2>4, <2>5
<1>8. ASSUME NEW c \in Conns, Update(c)
      PROVE  SessionsInv'
  <2>1. /\ at[c] = "update" /\ at' = [at EXCEPT ![c] = "fetch"]
        /\ me' = [me EXCEPT ![c] = want[c]]
        /\ want' = [want EXCEPT ![c] = NoAccount]
        /\ UNCHANGED <<netVars, auth, players, downVars>>
    BY <1>8 DEF Update
  <2>2. NoGhost'
    BY <2>1 DEF LobbyTypeOK, SessionInv, NoGhost, SigningIn, netVars
  <2> QED
    BY <2>1, <2>2 DEF LobbyTypeOK, SessionInv, SigningIn, netVars, downVars
<1>9. ASSUME NEW c \in Conns, Register(c)
      PROVE  SessionsInv'
  <2>1. PICK registry : registry = [players EXCEPT ![me[c]] = c]
    OBVIOUS
  <2>2. at[c] = "fetch" /\ UNCHANGED <<me, downVars>>
    BY <1>9 DEF Register
  <2>3. /\ registry \in [Accounts -> Conns \cup {NoConn}]
        /\ \A a \in Accounts : registry[a] = IF a = me[c] THEN c ELSE players[a]
    BY <2>1 DEF LobbyTypeOK
  <2>4. CASE link[c] = "open"
    <3>1. /\ players' = registry /\ auth' = auth \cup {c}
          /\ at' = [at EXCEPT ![c] = "read"] /\ UNCHANGED <<netVars, want>>
      BY <1>9, <2>1, <2>4, Zenon DEF Register
    <3>2. c \in connections
      BY <2>2 DEF SessionInv, SigningIn
    <3>3. NoGhost'
      BY <2>2, <2>3, <3>1, <3>2 DEF LobbyTypeOK, SessionInv, NoGhost, netVars
    <3> QED
      BY <2>2, <2>3, <3>1, <3>2, <3>3
         DEF LobbyTypeOK, SessionInv, SigningIn, netVars, downVars
  <2>5. CASE link[c] # "open"
    <3>1. Leave(c, registry)
      BY <1>9, <2>1, <2>5, Zenon DEF Register
    <3> QED
      BY <2>2, <2>3, <3>1, LeaveKeeps DEF SigningIn
  <2> QED
    BY <2>4, <2>5
<1>10. CASE Shutdown \/ ShutdownReturns
  <2>1. /\ UNCHANGED <<connections, timers, kicked, at, want, me, auth, players>>
        /\ link' \in {link, Closed(connections)}
        /\ down' \in {"no", "closing", "done"} /\ ending' \in {ending, connections}
    BY <1>10 DEF Shutdown, ShutdownReturns, netVars, loginVars
  <2>2. link' \in [Conns -> {"none", "accepted", "open", "closing", "lost"}]
    BY <2>1, ClosedType DEF LobbyTypeOK
  <2> QED
    BY <2>1, <2>2, TransportKeeps DEF LobbyTypeOK
<1>11. CASE UNCHANGED lobbyVars
  BY <1>11 DEF lobbyVars, netVars, loginVars, downVars, LobbyTypeOK, SessionInv, NoGhost
<1> QED
  BY <1>1, <1>2, <1>3, <1>4, <1>5, <1>6, <1>7, <1>8, <1>9, <1>10, <1>11, Zenon DEF LobbyNext

\* It holds in every state
LEMMA SessionsInvariant ==
    ASSUME LobbyAssumption
    PROVE  LobbySpec => []SessionsInv
<1>1. LobbyInit => SessionsInv
  BY DEF LobbyInit, SessionsInv, LobbyTypeOK, SessionInv, NoGhost, SigningIn
<1>2. SessionsInv /\ [LobbyNext]_lobbyVars => SessionsInv'
  BY SessionStep
<1> QED
  BY <1>1, <1>2, PTL DEF LobbySpec

\* A player in the registry has a connection that is still served, unless the
\* connection has signed in with another account since: every end of a handler
\* takes its player out (on_connection_lost), in whatever order sign-ins, kicks,
\* timeouts and the shutdown interrupt each other
THEOREM RegistryHasNoGhosts ==
    ASSUME LobbyAssumption
    PROVE  LobbySpec => []NoGhost
<1>1. SessionsInv => NoGhost
  BY DEF SessionsInv, SessionInv
<1> QED
  BY <1>1, SessionsInvariant, PTL

\* Every variable of the sessions holds a value of its kind
THEOREM SessionsTypeCorrect ==
    ASSUME LobbyAssumption
    PROVE  LobbySpec => []LobbyTypeOK
<1>1. SessionsInv => LobbyTypeOK
  BY DEF SessionsInv
<1> QED
  BY <1>1, SessionsInvariant, PTL
=============================================================================

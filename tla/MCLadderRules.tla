---------------------------- MODULE MCLadderRules ----------------------------
(* The rules of the ladder, for model checking in one run.  The parts share *)
(* no state within one pop of a queue: every behaviour is one of one part,  *)
(* and the variables of the others do not change.                           *)
EXTENDS MCMatchmakerQueue, ViolationService, VetoService

VARIABLES
    part,  \* the part this behaviour is about
    \* TeamMatchmaker
    queue, index, games, made, pc

\* Parties of players with 500 points more or less, and equal players
Averages == {<<2, 4, 6, 8, 9, 10, 11>>, <<0, 1, 7, 8, 20, 24, 25>>,
             <<10, 10, 10, 10, 10, 10, 10>>}
MCParties(n, sizes) ==
    {[i \in 1..n |-> [size |-> z[i], avg |-> a[i], failed |-> (3 * i) % 5,
                      newbies |-> IF a[i] < 3 THEN 1 ELSE 0]] :
        z \in [1..n -> sizes], a \in Averages}

Assembly == INSTANCE TeamMatchmaker WITH
    TeamSize <- 4, RatingPeak <- 9,
    Queues <- MCParties(5, 1..4) \cup MCParties(7, {1, 2})

Pool(maps, tokens, max, min) ==
    [maps |-> maps, tokens |-> tokens, max |-> max, min |-> min]

\* The last two pools of the first queue have a minimum of 0, with fixed and with
\* dynamic tokens: their players may veto every map
Pools ==
    <<{Pool(<<1, 2, 3>>, 2, 0, 2), Pool(<<1, 2, 3>>, 1, 1, 1),
       Pool(<<3, 1, 2>>, 4, 0, 1), Pool(<<1, 2, 3>>, 0, 0, 3),
       Pool(<<>>, 0, 1, 1), Pool(<<1, 2>>, 2, 2, 0), Pool(<<1, 2>>, 2, 0, 0)},
      {Pool(<<1, 2>>, 0, 1, 1)}>>

\* The tokens of a wish
MCWishes == {<<0, 0, 0>>, <<2, 2, 0>>, <<1, 1, 0>>, <<2, 2, 2>>}

\* The parties that ViolationService is asked about
Asking == {{1}, {1, 2}}

ASSUME ViolationAssumption /\ VetoAssumption

teamVars == <<queue, index, games, made, pc>>

-----------------------------------------------------------------------------
(* The parts that a behaviour is not about *)

TeamsOff == queue = <<>> /\ index = 1 /\ games = <<>> /\ made = {} /\ pc = "off"

VetoesOff ==
    /\ pools = [q \in 1..2 |-> CHOOSE c \in Pools[q] : c.tokens = 0]
    /\ vetoData = VetoDataOf(pools)
    /\ vetoes = [p \in 1..2 |-> [q \in 1..2 |-> NoVetoes]]
    /\ searching = <<{}, {}>>
    /\ fetched = pools
    /\ next = 0 /\ updates = 1 /\ failed = NoMatch

RulesInit ==
    /\ Init
    /\ BansInit
    /\ \/ part \in {"queue", "bans"} /\ TeamsOff /\ VetoesOff
       \/ part = "teams" /\ Assembly!Init /\ VetoesOff
       \/ part = "vetoes" /\ TeamsOff /\ VetoInit

RulesNext ==
    /\ UNCHANGED part
    /\ \/ part = "queue" /\ Next /\ UNCHANGED <<teamVars, vetoVars, banVars>>
       \/ part = "teams" /\ Assembly!Next /\ UNCHANGED <<vars, vetoVars, banVars>>
       \/ part = "vetoes" /\ VetoNext /\ UNCHANGED <<vars, teamVars, banVars>>
       \/ part = "bans" /\ BansNext /\ UNCHANGED <<vars, teamVars, vetoVars>>

RulesSpec == RulesInit /\ [][RulesNext]_<<part, vars, teamVars, vetoVars, banVars>>

-----------------------------------------------------------------------------
(* The property of the teams *)

EvenSplitIsFound == Assembly!EvenSplitIsFound
=============================================================================

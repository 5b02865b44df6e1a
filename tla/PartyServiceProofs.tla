-------------------------- MODULE PartyServiceProofs --------------------------
(***************************************************************************)
(* Theorems about PartyService, for any number of players, party objects   *)
(* and queues.  RemovePlayer and AddPlayer are where memberships change;   *)
(* what they do to the invariant is stated once (RemovePlayerKeeps,        *)
(* AddPlayerKeeps, OpenPartyKeeps) and used for every command.             *)
(***************************************************************************)
EXTENDS PartyService, TLAPS

-----------------------------------------------------------------------------
(* Searches *)

\* The type invariant and the two promises about searches
SearchInv == SearchTypeOK /\ OneSearchPerQueue /\ SearchersAreQueued

\* Cancelled yields states of players.
LEMMA CancelledType ==
    ASSUME SearchTypeOK, NEW C
    PROVE  Cancelled(C) \in [Players -> PlayerStates]
BY DEF Cancelled, SearchTypeOK, PlayerStates

\* Cancelling some of the searches keeps the invariant.
LEMMA CancelKeeps ==
    ASSUME SearchInv, NEW C \in SUBSET searches,
           searches' = searches \ C, pstate' = Cancelled(C),
           launching' \subseteq Players, aborting' \subseteq Players,
           online' \subseteq Players,
           open' \in BOOLEAN
    PROVE  SearchInv'
<1>1. SearchTypeOK'
  BY CancelledType DEF SearchInv, SearchTypeOK
<1>2. OneSearchPerQueue'
  BY DEF SearchInv, OneSearchPerQueue
<1>3. SearchersAreQueued'
  BY DEF SearchInv, SearchersAreQueued, Cancelled, PlayersOf
<1> QED BY <1>1, <1>2, <1>3 DEF SearchInv

\* cancel_search keeps the invariant.
LEMMA CancelSearchKeeps ==
    ASSUME SearchInv, NEW p \in Players, NEW Q, CancelSearch(p, Q),
           launching' \subseteq Players, aborting' \subseteq Players,
           online' \subseteq Players,
           open' \in BOOLEAN
    PROVE  SearchInv'
<1> DEFINE C == {s \in searches : s.queue \in Q /\ p \in s.players}
<1>1. searches' = searches \ C /\ pstate' = Cancelled(C)
  BY DEF CancelSearch
<1>2. C \in SUBSET searches
  OBVIOUS
<1> HIDE DEF C
<1> QED BY <1>1, <1>2, CancelKeeps

\* start_search keeps the invariant.
LEMMA StartSearchKeeps ==
    ASSUME SearchInv, NEW T \in SUBSET Players, NEW q \in Queues,
           StartSearch(T, q), UNCHANGED <<gameVars, online, open>>
    PROVE  SearchInv'
<1> DEFINE C == {s \in searches : s.queue = q /\ s.players \cap T # {}}
           new == [queue |-> q, players |-> T]
<1>1. /\ searches' = (searches \ C) \cup {new}
      /\ pstate' = [p \in Players |->
                      IF p \in T THEN "SEARCHING_LADDER" ELSE Cancelled(C)[p]]
  BY DEF StartSearch
<1>2. SearchTypeOK'
  <2>1. new \in Searches
    BY DEF Searches
  <2>2. Cancelled(C) \in [Players -> PlayerStates]
    BY CancelledType DEF SearchInv
  <2>3. pstate' \in [Players -> PlayerStates]
    BY <1>1, <2>2 DEF PlayerStates
  <2> HIDE DEF new, C
  <2> QED BY <1>1, <2>1, <2>3 DEF SearchInv, SearchTypeOK, gameVars
<1>3. OneSearchPerQueue'
  <2>1. \A s \in searches \ C : s.queue = q => s.players \cap T = {}
    OBVIOUS
  <2>2. new.queue = q /\ new.players = T
    OBVIOUS
  <2>3. \A s, x \in searches \ C :
          s.queue = x.queue /\ s.players \cap x.players # {} => s = x
    BY DEF SearchInv, OneSearchPerQueue
  <2>4. \A s, x \in (searches \ C) \cup {new} :
          s.queue = x.queue /\ s.players \cap x.players # {} => s = x
    <3> HIDE DEF new, C
    <3> QED BY <2>1, <2>2, <2>3
  <2> QED BY <1>1, <2>4 DEF OneSearchPerQueue
<1>4. SearchersAreQueued'
  <2> SUFFICES ASSUME NEW p \in Players, pstate'[p] = "SEARCHING_LADDER"
               PROVE  \E s \in searches' : p \in s.players
    BY DEF SearchersAreQueued, PlayersOf
  <2>1. CASE p \in T
    <3>1. new \in searches' /\ p \in new.players
      BY <1>1, <2>1
    <3> QED BY <3>1
  <2>2. CASE p \notin T
    <3>1. Cancelled(C)[p] = "SEARCHING_LADDER"
      BY <1>1, <2>2
    <3>2. pstate[p] = "SEARCHING_LADDER" /\ (p \in PlayersOf(C) => p \in PlayersOf(searches \ C))
      BY <3>1 DEF Cancelled
    <3>3. p \in PlayersOf(searches)
      BY <3>2 DEF SearchInv, SearchersAreQueued
    <3>4. \E s \in searches \ C : p \in s.players
      BY <3>2, <3>3 DEF PlayersOf
    <3> QED BY <1>1, <3>4
  <2> QED BY <2>1, <2>2
<1> QED BY <1>2, <1>3, <1>4 DEF SearchInv

\* A match keeps the invariant.
LEMMA MatchKeeps ==
    ASSUME SearchInv, NEW M \in SUBSET searches, Match(M)
    PROVE  SearchInv'
<1> DEFINE P == PlayersOf(M)
           C == {s \in searches : s.players \cap P # {}}
<1>1. /\ searches' = searches \ C
      /\ pstate' = [p \in Players |->
                      IF p \in P THEN "STARTING_AUTOMATCH" ELSE Cancelled(C)[p]]
      /\ UNCHANGED <<gameVars, online, open>>
  BY DEF Match, MatchFound
<1>2. Cancelled(C) \in [Players -> PlayerStates]
  BY CancelledType DEF SearchInv
<1>3. SearchTypeOK'
  <2>1. pstate' \in [Players -> PlayerStates]
    BY <1>1, <1>2 DEF PlayerStates
  <2> QED BY <1>1, <2>1 DEF SearchInv, SearchTypeOK, gameVars
<1>4. OneSearchPerQueue'
  BY <1>1 DEF SearchInv, OneSearchPerQueue
<1>5. SearchersAreQueued'
  <2> SUFFICES ASSUME NEW p \in Players, pstate'[p] = "SEARCHING_LADDER"
               PROVE  \E s \in searches' : p \in s.players
    BY DEF SearchersAreQueued, PlayersOf
  <2>1. Cancelled(C)[p] = "SEARCHING_LADDER"
    BY <1>1
  <2>2. pstate[p] = "SEARCHING_LADDER" /\ (p \in PlayersOf(C) => p \in PlayersOf(searches \ C))
    BY <2>1 DEF Cancelled
  <2>3. p \in PlayersOf(searches)
    BY <2>2 DEF SearchInv, SearchersAreQueued
  <2>4. \E s \in searches \ C : p \in s.players
    BY <2>2, <2>3 DEF PlayersOf
  <2> QED BY <1>1, <2>4
<1> QED BY <1>3, <1>4, <1>5 DEF SearchInv

-----------------------------------------------------------------------------
(* Parties *)

PartyTypeOK ==
    /\ partyOf \in [Players -> Parties \cup {NoParty}]
    /\ party \in [Parties -> PartyObjects]
    /\ dirtyParties \subseteq Parties
    /\ accepting \in [Players -> Parties \cup {NoParty}]
    /\ informed \subseteq Players

\* While accept_invite is suspended, the recipient is in no party
AcceptingHasNoParty ==
    \A p \in Players : accepting[p] # NoParty => partyOf[p] = NoParty

Membership ==
    /\ PartyTypeOK
    /\ MembershipAgrees
    /\ OrphanPartyIsClosed
    /\ MembersAreInformed

PartyInv == Membership /\ AcceptingHasNoParty

\* _remove_player_from_party of a member
LEMMA RemovePlayerKeeps ==
    ASSUME Membership, NEW p \in Players, partyOf[p] # NoParty,
           RemovePlayer(p, partyOf[p]),
           accepting' \in [Players -> Parties \cup {NoParty}]
    PROVE  /\ Membership'
           /\ partyOf'[p] = NoParty
           /\ \A x \in Players : partyOf[x] = NoParty => partyOf'[x] = NoParty
<1> DEFINE i == partyOf[p]
           rest == party[i].members \ {p}
<1>1. i \in Parties /\ party[i] \in PartyObjects
  BY DEF Membership, PartyTypeOK
<1>2. rest \subseteq Players
  BY <1>1 DEF PartyObjects
<1>3. /\ party' \in [Parties -> PartyObjects]
      /\ \A j \in Parties : j # i => party'[j] = party[j]
      /\ party'[i].owner = party[i].owner
      /\ informed' = informed \ (rest \cup {p})
  BY <1>1, <1>2 DEF RemovePlayer, Membership, PartyTypeOK, PartyObjects
<1>4. \A x \in Players, j \in Parties : x \in party[j].members <=> partyOf[x] = j
  BY DEF Membership, MembershipAgrees
<1>5. CASE party[i].owner \in rest
  <2>1. /\ party'[i].members = rest
        /\ party'[i].invited = party[i].invited
        /\ partyOf' = [partyOf EXCEPT ![p] = NoParty]
        /\ dirtyParties' = dirtyParties \cup {i}
    BY <1>1, <1>5 DEF RemovePlayer, Membership, PartyTypeOK, PartyObjects
  <2>2. PartyTypeOK'
    BY <1>1, <1>3, <2>1 DEF Membership, PartyTypeOK
  <2>3. MembershipAgrees'
    BY <1>1, <1>3, <1>4, <2>1, PartyAssumption
       DEF Membership, PartyTypeOK, MembershipAgrees
  <2>4. OrphanPartyIsClosed'
    BY <1>3, <1>5, <2>1 DEF Membership, OrphanPartyIsClosed
  <2>5. MembersAreInformed'
    <3> SUFFICES ASSUME NEW j \in Parties, j \notin dirtyParties',
                        NEW x \in party'[j].members, NEW y \in party'[j].members,
                        x # y
                 PROVE  x \in informed'
      BY DEF MembersAreInformed
    <3>1. j # i /\ j \notin dirtyParties /\ party'[j] = party[j]
      BY <1>3, <2>1
    <3>2. x \in Players /\ x \in informed
      BY <3>1 DEF Membership, MembersAreInformed, PartyTypeOK, PartyObjects
    <3>3. x \notin party[i].members
      BY <1>1, <1>4, <3>1, <3>2
    <3> QED BY <1>1, <1>3, <1>4, <3>2, <3>3
  <2> QED BY <2>1, <2>2, <2>3, <2>4, <2>5 DEF Membership, PartyTypeOK
<1>6. CASE party[i].owner \notin rest
  <2>1. /\ party'[i].members = {}
        /\ party'[i].invited = {}
        /\ partyOf' = [x \in Players |->
                          IF x = p \/ (x \in rest /\ partyOf[x] = i)
                          THEN NoParty ELSE partyOf[x]]
        /\ dirtyParties' = dirtyParties
    BY <1>1, <1>6 DEF RemovePlayer, Membership, PartyTypeOK, PartyObjects
  <2>2. PartyTypeOK'
    BY <1>1, <1>3, <2>1 DEF Membership, PartyTypeOK
  <2>3. MembershipAgrees'
    BY <1>1, <1>3, <1>4, <2>1, PartyAssumption
       DEF Membership, PartyTypeOK, MembershipAgrees
  <2>4. OrphanPartyIsClosed'
    BY <1>3, <2>1 DEF Membership, OrphanPartyIsClosed
  <2>5. MembersAreInformed'
    <3> SUFFICES ASSUME NEW j \in Parties, j \notin dirtyParties',
                        NEW x \in party'[j].members, NEW y \in party'[j].members,
                        x # y
                 PROVE  x \in informed'
      BY DEF MembersAreInformed
    <3>1. j # i /\ j \notin dirtyParties /\ party'[j] = party[j]
      BY <1>3, <2>1
    <3>2. x \in Players /\ x \in informed
      BY <3>1 DEF Membership, MembersAreInformed, PartyTypeOK, PartyObjects
    <3>3. x \notin party[i].members
      BY <1>1, <1>4, <3>1, <3>2
    <3> QED BY <1>1, <1>3, <1>4, <3>2, <3>3
  <2> QED BY <2>1, <2>2, <2>3, <2>4, <2>5 DEF Membership, PartyTypeOK
<1> QED BY <1>5, <1>6

\* add_member of a player who is in no party
LEMMA AddPlayerKeeps ==
    ASSUME Membership, NEW p \in Players, NEW i \in Parties,
           partyOf[p] = NoParty, AddPlayer(p, i),
           accepting' \in [Players -> Parties \cup {NoParty}]
    PROVE  /\ Membership'
           /\ \A x \in Players \ {p} : partyOf'[x] = partyOf[x]
<1>1. party[i] \in PartyObjects /\ party[i].members \subseteq Players
  BY DEF Membership, PartyTypeOK, PartyObjects
<1>2. /\ party' \in [Parties -> PartyObjects]
      /\ \A j \in Parties : j # i => party'[j] = party[j]
      /\ party'[i].owner = party[i].owner
      /\ party'[i].invited = party[i].invited
      /\ party'[i].members = party[i].members \cup {p}
  BY <1>1 DEF AddPlayer, Membership, PartyTypeOK, PartyObjects
<1>3. /\ partyOf' = [partyOf EXCEPT ![p] = i]
      /\ dirtyParties' = dirtyParties \cup {i}
      /\ informed' = informed \ (party[i].members \cup {p})
  BY DEF AddPlayer
<1>4. \A x \in Players, j \in Parties : x \in party[j].members <=> partyOf[x] = j
  BY DEF Membership, MembershipAgrees
<1>5. PartyTypeOK'
  BY <1>2, <1>3 DEF Membership, PartyTypeOK
<1>6. MembershipAgrees'
  BY <1>2, <1>3, <1>4, PartyAssumption DEF Membership, PartyTypeOK, MembershipAgrees
<1>7. OrphanPartyIsClosed'
  BY <1>2 DEF Membership, OrphanPartyIsClosed
<1>8. MembersAreInformed'
  <2> SUFFICES ASSUME NEW j \in Parties, j \notin dirtyParties',
                      NEW x \in party'[j].members, NEW y \in party'[j].members,
                      x # y
               PROVE  x \in informed'
    BY DEF MembersAreInformed
  <2>1. j # i /\ j \notin dirtyParties /\ party'[j] = party[j]
    BY <1>2, <1>3
  <2>2. x \in Players /\ x \in informed
    BY <2>1 DEF Membership, MembersAreInformed, PartyTypeOK, PartyObjects
  <2>3. x \notin party[i].members /\ x # p
    BY <1>4, <2>1, <2>2, PartyAssumption
  <2> QED BY <1>3, <2>2, <2>3
<1> QED BY <1>3, <1>5, <1>6, <1>7, <1>8 DEF Membership, PartyTypeOK

\* get_party, and an invitation by the owner
LEMMA OpenPartyKeeps ==
    ASSUME Membership, NEW p \in Players, NEW i \in Parties, GetsParty(p, i),
           NEW r \in SUBSET Players,
           r # {} => PartyFor(p, i).owner = p,
           party' = [party EXCEPT ![i] =
                       [PartyFor(p, i) EXCEPT !.invited = @ \cup r]],
           partyOf' = [partyOf EXCEPT ![p] = i],
           dirtyParties' \in SUBSET Parties, MarksFor(p, i) \subseteq dirtyParties',
           UNCHANGED <<accepting, informed>>
    PROVE  Membership' /\ \A x \in Players \ {p} : partyOf'[x] = partyOf[x]
<1>1. PartyFor(p, i) \in PartyObjects
  BY DEF PartyFor, PartyObjects, Membership, PartyTypeOK
<1>2. /\ party' \in [Parties -> PartyObjects]
      /\ \A j \in Parties : j # i => party'[j] = party[j]
      /\ party'[i].owner = PartyFor(p, i).owner
      /\ party'[i].invited = PartyFor(p, i).invited \cup r
      /\ party'[i].members = PartyFor(p, i).members
  BY <1>1 DEF Membership, PartyTypeOK, PartyObjects
<1>3. \A x \in Players, j \in Parties : x \in party[j].members <=> partyOf[x] = j
  BY DEF Membership, MembershipAgrees
<1>4. PartyTypeOK'
  BY <1>2 DEF Membership, PartyTypeOK
<1>5. CASE partyOf[p] # NoParty
  <2>1. i = partyOf[p] /\ PartyFor(p, i) = party[i] /\ MarksFor(p, i) = dirtyParties
    BY <1>5 DEF GetsParty, PartyFor, MarksFor
  <2>2. partyOf' = partyOf
    BY <2>1 DEF Membership, PartyTypeOK
  <2>3. \A j \in Parties : /\ party'[j].members = party[j].members
                           /\ party'[j].owner = party[j].owner
    BY <1>2, <2>1
  <2>4. MembershipAgrees'
    BY <1>3, <2>2, <2>3 DEF MembershipAgrees
  <2>5. OrphanPartyIsClosed'
    <3>1. p \in party[i].members
      BY <1>3, <2>1
    <3>2. \A j \in Parties : party[j].owner \notin party[j].members => party[j].invited = {}
      BY DEF Membership, OrphanPartyIsClosed
    <3>3. party'[i].owner \notin party'[i].members => party'[i].invited = {}
      BY <1>2, <2>1, <3>1, <3>2
    <3> QED BY <1>2, <3>2, <3>3 DEF OrphanPartyIsClosed
  <2>6. MembersAreInformed'
    BY <2>1, <2>3 DEF Membership, MembersAreInformed
  <2> QED BY <1>4, <2>2, <2>4, <2>5, <2>6 DEF Membership
<1>6. CASE partyOf[p] = NoParty
  <2>1. /\ Unused(i)
        /\ PartyFor(p, i) = [owner |-> p, members |-> {p}, invited |-> {}]
        /\ MarksFor(p, i) = dirtyParties \ {i}
    BY <1>6 DEF GetsParty, PartyFor, MarksFor
  <2>2. party'[i].owner = p /\ party'[i].members = {p}
    BY <1>2, <2>1
  <2>3. \A x \in Players : partyOf[x] # i
    BY <2>1 DEF Unused
  <2>4. MembershipAgrees'
    BY <1>2, <1>3, <1>6, <2>2, <2>3, PartyAssumption
       DEF Membership, PartyTypeOK, MembershipAgrees
  <2>5. OrphanPartyIsClosed'
    BY <1>2, <2>2 DEF Membership, OrphanPartyIsClosed
  <2>6. MembersAreInformed'
    BY <1>2, <2>1, <2>2 DEF Membership, MembersAreInformed
  <2>7. \A x \in Players \ {p} : partyOf'[x] = partyOf[x]
    BY DEF Membership, PartyTypeOK
  <2> QED BY <1>4, <2>4, <2>5, <2>6, <2>7 DEF Membership
<1> QED BY <1>5, <1>6

\* get_party alone
LEMMA GetPartyKeeps ==
    ASSUME Membership, NEW p \in Players, NEW i \in Parties, GetsParty(p, i),
           party' = [party EXCEPT ![i] = PartyFor(p, i)],
           partyOf' = [partyOf EXCEPT ![p] = i],
           dirtyParties' \in SUBSET Parties, MarksFor(p, i) \subseteq dirtyParties',
           UNCHANGED <<accepting, informed>>
    PROVE  Membership' /\ \A x \in Players \ {p} : partyOf'[x] = partyOf[x]
<1>1. PartyFor(p, i) \in PartyObjects
  BY DEF PartyFor, PartyObjects, Membership, PartyTypeOK
<1>2. [PartyFor(p, i) EXCEPT !.invited = @ \cup {}] = PartyFor(p, i)
  BY <1>1 DEF PartyObjects
<1>3. party' = [party EXCEPT ![i] = [PartyFor(p, i) EXCEPT !.invited = @ \cup {}]]
  BY <1>2
<1> QED BY <1>3, OpenPartyKeeps, {} \in SUBSET Players

\* kick_player_from_party, the owner included
LEMMA KickPlayerKeeps ==
    ASSUME Membership, NEW p \in Players, NEW k \in Players, KickPlayer(p, k)
    PROVE  /\ Membership'
           /\ \A x \in Players : partyOf[x] = NoParty => partyOf'[x] = NoParty
<1> DEFINE i == partyOf[p]
<1>1. i \in Parties /\ party[i] \in PartyObjects
  BY DEF KickPlayer, Membership, PartyTypeOK
<1>2. /\ party' \in [Parties -> PartyObjects]
      /\ \A j \in Parties : j # i => party'[j] = party[j]
      /\ party'[i].owner = party[i].owner
      /\ party'[i].members = party[i].members \ {k}
      /\ party'[i].invited = IF k = party[i].owner THEN {} ELSE party[i].invited
  BY <1>1 DEF KickPlayer, Membership, PartyTypeOK, PartyObjects
<1>3. /\ partyOf' = [partyOf EXCEPT ![k] = NoParty]
      /\ dirtyParties' = dirtyParties \cup {i}
      /\ informed' = informed \ party[i].members
      /\ accepting' = accepting
      /\ k \in party[i].members
      /\ party[i].owner = p
  BY DEF KickPlayer
<1>4. \A x \in Players, j \in Parties : x \in party[j].members <=> partyOf[x] = j
  BY DEF Membership, MembershipAgrees
<1>5. PartyTypeOK'
  BY <1>1, <1>2, <1>3 DEF Membership, PartyTypeOK
<1>6. MembershipAgrees'
  BY <1>1, <1>2, <1>3, <1>4, PartyAssumption
     DEF Membership, PartyTypeOK, MembershipAgrees
<1>7. OrphanPartyIsClosed'
  <2>1. p \in party[i].members
    BY <1>1, <1>4
  <2> QED BY <1>2, <1>3, <2>1 DEF Membership, OrphanPartyIsClosed
<1>8. MembersAreInformed'
  <2> SUFFICES ASSUME NEW j \in Parties, j \notin dirtyParties',
                      NEW x \in party'[j].members, NEW y \in party'[j].members,
                      x # y
               PROVE  x \in informed'
    BY DEF MembersAreInformed
  <2>1. j # i /\ j \notin dirtyParties /\ party'[j] = party[j]
    BY <1>2, <1>3
  <2>2. x \in Players /\ x \in informed
    BY <2>1 DEF Membership, MembersAreInformed, PartyTypeOK, PartyObjects
  <2>3. x \notin party[i].members
    BY <1>1, <1>4, <2>1, <2>2
  <2> QED BY <1>3, <2>2, <2>3
<1> QED BY <1>3, <1>5, <1>6, <1>7, <1>8 DEF Membership, PartyTypeOK

-----------------------------------------------------------------------------
(* Every step *)

Inv == SearchInv /\ PartyInv

\* Steps that concern searches and games only leave the parties alone.
LEMMA SearchStepKeeps ==
    ASSUME Inv, UNCHANGED partyVars, SearchInv'
    PROVE  Inv'
BY DEF Inv, PartyInv, Membership, PartyTypeOK, partyVars, AcceptingHasNoParty,
       MembershipAgrees, OrphanPartyIsClosed, MembersAreInformed

\* Steps that concern parties only leave the searches alone.
LEMMA PartyStepKeeps ==
    ASSUME Inv, UNCHANGED searchVars, PartyInv'
    PROVE  Inv'
BY DEF Inv, SearchInv, SearchTypeOK, searchVars, gameVars, OneSearchPerQueue,
       SearchersAreQueued, PlayersOf

\* The initial state satisfies the invariant.
LEMMA InitInv ==
    Init => Inv
<1> SUFFICES ASSUME Init PROVE Inv
  OBVIOUS
<1>1. SearchInv
  BY DEF Init, SearchInit, SearchInv, SearchTypeOK, PlayerStates,
         OneSearchPerQueue, SearchersAreQueued
<1>2. PartyTypeOK
  BY DEF Init, PartyTypeOK, PartyObjects
<1>3. MembershipAgrees /\ OrphanPartyIsClosed /\ MembersAreInformed /\ AcceptingHasNoParty
  BY PartyAssumption DEF Init, MembershipAgrees, OrphanPartyIsClosed,
     MembersAreInformed, AcceptingHasNoParty
<1> QED BY <1>1, <1>2, <1>3 DEF Inv, PartyInv, Membership

\* Every command of a player keeps the invariant.
LEMMA CommandKeeps ==
    ASSUME Inv, NEW p \in Players, Command(p)
    PROVE  Inv'
<1> USE DEF Inv
<1>m. Membership /\ AcceptingHasNoParty /\ SearchInv
  BY DEF PartyInv
<1>t. /\ accepting \in [Players -> Parties \cup {NoParty}]
      /\ partyOf \in [Players -> Parties \cup {NoParty}]
      /\ dirtyParties \subseteq Parties
      /\ launching \subseteq Players
      /\ aborting \subseteq Players
      /\ online \subseteq Players
      /\ open \in BOOLEAN
  BY <1>m DEF Membership, PartyTypeOK, SearchInv, SearchTypeOK
<1>1. ASSUME NEW r \in Players, InvitePlayer(p, r) PROVE Inv'
  <2>1. accepting[p] = NoParty /\ UNCHANGED <<searchVars, accepting, informed>>
    BY <1>1 DEF InvitePlayer, Idle, Free
  <2>2. PICK i \in Parties :
          /\ GetsParty(p, i)
          /\ PartyFor(p, i).owner = p
          /\ party' = [party EXCEPT ![i] =
                         [PartyFor(p, i) EXCEPT !.invited = @ \cup {r}]]
          /\ partyOf' = [partyOf EXCEPT ![p] = i]
          /\ dirtyParties' = MarksFor(p, i)
    BY <1>1 DEF InvitePlayer
  <2>3. MarksFor(p, i) \in SUBSET Parties
    BY <1>t DEF MarksFor
  <2>4. Membership' /\ \A x \in Players \ {p} : partyOf'[x] = partyOf[x]
    BY <1>m, <2>1, <2>2, <2>3, OpenPartyKeeps, {r} \in SUBSET Players
  <2>5. AcceptingHasNoParty'
    BY <1>m, <2>1, <2>4 DEF AcceptingHasNoParty
  <2> QED BY <2>1, <2>4, <2>5, PartyStepKeeps DEF PartyInv
<1>2. ASSUME NEW r \in Players, AcceptInvite(p, r) PROVE Inv'
  <2>1. /\ accepting[p] = NoParty
        /\ UNCHANGED searchVars
        /\ partyOf[r] \in Parties
    BY <1>2, <1>t DEF AcceptInvite, Idle, Free
  <2>2. CASE partyOf[p] = NoParty
    <3>1. AddPlayer(p, partyOf[r]) /\ accepting' = accepting
      BY <1>2, <2>2 DEF AcceptInvite
    <3>2. Membership' /\ \A x \in Players \ {p} : partyOf'[x] = partyOf[x]
      BY <1>m, <1>t, <2>1, <2>2, <3>1, AddPlayerKeeps
    <3>3. AcceptingHasNoParty'
      BY <1>m, <2>1, <3>1, <3>2 DEF AcceptingHasNoParty
    <3> QED BY <2>1, <3>2, <3>3, PartyStepKeeps DEF PartyInv
  <2>3. CASE partyOf[p] # NoParty
    <3>1. /\ RemovePlayer(p, partyOf[p])
          /\ accepting' = [accepting EXCEPT ![p] = partyOf[r]]
      BY <1>2, <2>3 DEF AcceptInvite
    <3>2. accepting' \in [Players -> Parties \cup {NoParty}]
      BY <1>t, <2>1, <3>1
    <3>3. /\ Membership'
          /\ partyOf'[p] = NoParty
          /\ \A x \in Players : partyOf[x] = NoParty => partyOf'[x] = NoParty
      BY <1>m, <2>3, <3>1, <3>2, RemovePlayerKeeps
    <3>4. AcceptingHasNoParty'
      BY <1>m, <1>t, <3>1, <3>3 DEF AcceptingHasNoParty
    <3> QED BY <2>1, <3>3, <3>4, PartyStepKeeps DEF PartyInv
  <2> QED BY <2>2, <2>3
<1>3. ASSUME NEW k \in Players, KickPlayer(p, k) PROVE Inv'
  <2>1. UNCHANGED <<searchVars, accepting>>
    BY <1>3 DEF KickPlayer
  <2>2. /\ Membership'
        /\ \A x \in Players : partyOf[x] = NoParty => partyOf'[x] = NoParty
    BY <1>m, <1>3, KickPlayerKeeps
  <2>3. AcceptingHasNoParty'
    BY <1>m, <2>1, <2>2 DEF AcceptingHasNoParty
  <2> QED BY <2>1, <2>2, <2>3, PartyStepKeeps DEF PartyInv
<1>4. ASSUME LeaveParty(p) PROVE Inv'
  <2>1. /\ CancelSearch(p, Queues)
        /\ UNCHANGED <<gameVars, online, open, accepting>>
    BY <1>4 DEF LeaveParty
  <2>2. SearchInv'
    BY <1>m, <1>t, <2>1, CancelSearchKeeps DEF gameVars
  <2>3. CASE partyOf[p] = NoParty
    <3>1. UNCHANGED partyVars
      BY <1>4, <2>1, <2>3 DEF LeaveParty, partyVars
    <3> QED BY <2>2, <3>1, SearchStepKeeps
  <2>4. CASE partyOf[p] # NoParty
    <3>1. RemovePlayer(p, partyOf[p])
      BY <1>4, <2>4 DEF LeaveParty
    <3>2. /\ Membership'
          /\ \A x \in Players : partyOf[x] = NoParty => partyOf'[x] = NoParty
      BY <1>m, <1>t, <2>1, <2>4, <3>1, RemovePlayerKeeps
    <3>3. AcceptingHasNoParty'
      BY <1>m, <2>1, <3>2 DEF AcceptingHasNoParty
    <3> QED BY <2>2, <3>2, <3>3 DEF PartyInv
  <2> QED BY <2>3, <2>4
<1>5. ASSUME SetFactions(p) PROVE Inv'
  <2>1. accepting[p] = NoParty /\ UNCHANGED <<searchVars, accepting, informed>>
    BY <1>5 DEF SetFactions, Free
  <2>2. PICK i \in Parties :
          /\ GetsParty(p, i)
          /\ party' = [party EXCEPT ![i] = PartyFor(p, i)]
          /\ partyOf' = [partyOf EXCEPT ![p] = i]
          /\ dirtyParties' = MarksFor(p, i) \cup {i}
    BY <1>5 DEF SetFactions
  <2>3. dirtyParties' \in SUBSET Parties /\ MarksFor(p, i) \subseteq dirtyParties'
    BY <1>t, <2>2 DEF MarksFor
  <2>4. Membership' /\ \A x \in Players \ {p} : partyOf'[x] = partyOf[x]
    BY <1>m, <2>1, <2>2, <2>3, GetPartyKeeps
  <2>5. AcceptingHasNoParty'
    BY <1>m, <2>1, <2>4 DEF AcceptingHasNoParty
  <2> QED BY <2>1, <2>4, <2>5, PartyStepKeeps DEF PartyInv
<1>6. ASSUME NEW q \in Queues, GameMatchmaking(p, q) PROVE Inv'
  <2>1. /\ accepting[p] = NoParty
        /\ UNCHANGED <<gameVars, online, open, accepting, informed>>
    BY <1>6 DEF GameMatchmaking, Free
  <2>2. PICK i \in Parties :
          /\ GetsParty(p, i)
          /\ \/ UNCHANGED <<pstate, searches>>
             \/ StartSearch(PartyFor(p, i).members, q)
          /\ party' = [party EXCEPT ![i] = PartyFor(p, i)]
          /\ partyOf' = [partyOf EXCEPT ![p] = i]
          /\ dirtyParties' = MarksFor(p, i)
    BY <1>6 DEF GameMatchmaking
  <2>3. dirtyParties' \in SUBSET Parties /\ MarksFor(p, i) \subseteq dirtyParties'
    BY <1>t, <2>2 DEF MarksFor
  <2>4. Membership' /\ \A x \in Players \ {p} : partyOf'[x] = partyOf[x]
    BY <1>m, <2>1, <2>2, <2>3, GetPartyKeeps
  <2>5. AcceptingHasNoParty'
    BY <1>m, <2>1, <2>4 DEF AcceptingHasNoParty
  <2>6. PartyFor(p, i).members \in SUBSET Players
    BY <1>m DEF PartyFor, PartyObjects, Membership, PartyTypeOK
  <2>7. SearchInv'
    <3>1. CASE StartSearch(PartyFor(p, i).members, q)
      BY <1>m, <2>1, <2>6, <3>1, StartSearchKeeps
    <3>2. CASE UNCHANGED <<pstate, searches>>
      BY <1>m, <2>1, <3>2 DEF SearchInv, SearchTypeOK, gameVars, OneSearchPerQueue,
         SearchersAreQueued, PlayersOf
    <3> QED BY <2>2, <3>1, <3>2
  <2> QED BY <2>4, <2>5, <2>7 DEF PartyInv
<1>7. ASSUME NEW q \in Queues, StopSearch(p, q), UNCHANGED partyVars PROVE Inv'
  <2>1. CancelSearch(p, {q}) /\ UNCHANGED <<gameVars, online, open>>
    BY <1>7 DEF StopSearch
  <2> QED BY <1>m, <1>t, <1>7, <2>1, CancelSearchKeeps, SearchStepKeeps
      DEF gameVars
<1>8. ASSUME CommandGame(p), UNCHANGED partyVars PROVE Inv'
  <2>1. SearchInv'
    BY <1>m, <1>8 DEF CommandGame, SearchInv, SearchTypeOK, OneSearchPerQueue,
       SearchersAreQueued, PlayersOf
  <2> QED BY <1>8, <2>1, SearchStepKeeps
<1> QED BY <1>1, <1>2, <1>3, <1>4, <1>5, <1>6, <1>7, <1>8 DEF Command

\* Every step keeps the invariant.
LEMMA NextInv ==
    ASSUME Inv, [Next]_vars
    PROVE  Inv'
<1> USE DEF Inv
<1>m. Membership /\ AcceptingHasNoParty /\ SearchInv
  BY DEF PartyInv
<1>t. /\ accepting \in [Players -> Parties \cup {NoParty}]
      /\ launching \subseteq Players
      /\ aborting \subseteq Players
      /\ online \subseteq Players
      /\ open \in BOOLEAN
      /\ pstate \in [Players -> PlayerStates]
  BY <1>m DEF Membership, PartyTypeOK, SearchInv, SearchTypeOK
<1>1. ASSUME NEW p \in Players, Command(p) PROVE Inv'
  BY <1>1, CommandKeeps
<1>2. ASSUME NEW p \in Players, EnterParty(p) PROVE Inv'
  <2>1. /\ accepting[p] \in Parties
        /\ AddPlayer(p, accepting[p])
        /\ accepting' = [accepting EXCEPT ![p] = NoParty]
        /\ UNCHANGED searchVars
    BY <1>2, <1>t DEF EnterParty
  <2>2. partyOf[p] = NoParty
    BY <1>m, <1>2 DEF EnterParty, AcceptingHasNoParty
  <2>3. accepting' \in [Players -> Parties \cup {NoParty}]
    BY <1>t, <2>1
  <2>4. Membership' /\ \A x \in Players \ {p} : partyOf'[x] = partyOf[x]
    BY <1>m, <2>1, <2>2, <2>3, AddPlayerKeeps
  <2>5. AcceptingHasNoParty'
    BY <1>m, <1>t, <2>1, <2>4 DEF AcceptingHasNoParty
  <2> QED BY <2>1, <2>4, <2>5, PartyStepKeeps DEF PartyInv
<1>3. ASSUME NEW p \in Players, ConnectionLost(p) PROVE Inv'
  <2>1. /\ CancelSearch(p, Queues)
        /\ UNCHANGED <<gameVars, open>>
        /\ online' = online \ {p}
        /\ accepting' = [accepting EXCEPT ![p] = NoParty]
    BY <1>3 DEF ConnectionLost, Disconnect
  <2>2. SearchInv'
    BY <1>m, <1>t, <2>1, CancelSearchKeeps DEF gameVars
  <2>3. accepting' \in [Players -> Parties \cup {NoParty}]
    BY <1>t, <2>1
  <2>4. CASE partyOf[p] = NoParty
    <3>1. UNCHANGED <<partyOf, party, dirtyParties, informed>>
      BY <1>3, <2>4 DEF ConnectionLost
    <3>2. Membership'
      BY <1>m, <2>3, <3>1 DEF Membership, PartyTypeOK, MembershipAgrees,
         OrphanPartyIsClosed, MembersAreInformed
    <3>3. AcceptingHasNoParty'
      BY <1>m, <1>t, <2>1, <3>1 DEF AcceptingHasNoParty
    <3> QED BY <2>2, <3>2, <3>3 DEF PartyInv
  <2>5. CASE partyOf[p] # NoParty
    <3>1. RemovePlayer(p, partyOf[p])
      BY <1>3, <2>5 DEF ConnectionLost
    <3>2. /\ Membership'
          /\ \A x \in Players : partyOf[x] = NoParty => partyOf'[x] = NoParty
      BY <1>m, <2>3, <2>5, <3>1, RemovePlayerKeeps
    <3>3. AcceptingHasNoParty'
      BY <1>m, <1>t, <2>1, <3>2 DEF AcceptingHasNoParty
    <3> QED BY <2>2, <3>2, <3>3 DEF PartyInv
  <2> QED BY <2>4, <2>5
<1>4. ASSUME NEW p \in Players, GameStep(p), UNCHANGED partyVars
      PROVE  Inv'
  <2>1. /\ searches' = searches
        /\ online' = online
        /\ open' = open
        /\ launching' \subseteq Players
        /\ aborting' \subseteq Players
        /\ pstate' \in [Players -> PlayerStates]
        /\ \A x \in Players : pstate'[x] = "SEARCHING_LADDER" => pstate[x] = pstate'[x]
    BY <1>t, <1>4 DEF GameStep, LaunchGame, LeaveGame, AbortWaits, AbortDone,
       PlayerStates, gameVars
  <2>2. SearchInv'
    BY <1>m, <2>1 DEF SearchInv, SearchTypeOK, OneSearchPerQueue,
       SearchersAreQueued, PlayersOf
  <2> QED BY <1>4, <2>2, SearchStepKeeps
<1>5. ASSUME NEW M \in SUBSET searches, Match(M), UNCHANGED partyVars PROVE Inv'
  BY <1>m, <1>5, MatchKeeps, SearchStepKeeps
<1>6. ASSUME UpdateDirties PROVE Inv'
  <2>1. /\ UNCHANGED <<searchVars, partyOf, party, accepting>>
        /\ dirtyParties' = {}
        /\ informed' = informed \cup UNION {party[i].members : i \in dirtyParties}
    BY <1>6 DEF UpdateDirties
  <2>2. UNION {party[i].members : i \in dirtyParties} \subseteq Players
    BY <1>m DEF Membership, PartyTypeOK, PartyObjects
  <2>3. PartyTypeOK'
    BY <1>m, <2>1, <2>2 DEF Membership, PartyTypeOK
  <2>4. MembersAreInformed'
    BY <1>m, <2>1 DEF Membership, MembersAreInformed
  <2>5. PartyInv'
    BY <1>m, <2>1, <2>3, <2>4 DEF PartyInv, Membership, MembershipAgrees,
       OrphanPartyIsClosed, AcceptingHasNoParty
  <2> QED BY <2>1, <2>5, PartyStepKeeps
<1>7. ASSUME UNCHANGED vars PROVE Inv'
  <2>1. UNCHANGED searchVars /\ UNCHANGED partyVars
    BY <1>7 DEF vars
  <2>2. SearchInv'
    BY <1>m, <2>1 DEF searchVars, gameVars, SearchInv, SearchTypeOK, OneSearchPerQueue,
       SearchersAreQueued, PlayersOf
  <2> QED BY <2>1, <2>2, SearchStepKeeps
<1> QED BY <1>1, <1>2, <1>3, <1>4, <1>5, <1>6, <1>7 DEF Next

-----------------------------------------------------------------------------
\* The invariant holds in every reachable state.
LEMMA Invariance ==
    Spec => []Inv
<1>1. Init => Inv
  BY InitInv
<1>2. Inv /\ [Next]_vars => Inv'
  BY NextInv
<1> QED BY <1>1, <1>2, PTL DEF Spec

\* Parties, searches and player states stay in their types.
THEOREM PartyTypeCorrect ==
    Spec => []TypeOK
<1>1. Inv => TypeOK
  BY DEF Inv, PartyInv, Membership, PartyTypeOK, SearchInv, TypeOK
<1> QED BY <1>1, Invariance, PTL

\* player_parties and the members of the parties agree, whatever is suspended
\* in accept_invite: nobody is in two parties.
THEOREM MembershipCorrect ==
    Spec => []MembershipAgrees
<1>1. Inv => MembershipAgrees
  BY DEF Inv, PartyInv, Membership
<1> QED BY <1>1, Invariance, PTL

\* A party that lost its owner, by a disband, a lost connection or a kick of
\* the owner by himself, has no open invitation.
THEOREM OrphanPartyClosed ==
    Spec => []OrphanPartyIsClosed
<1>1. Inv => OrphanPartyIsClosed
  BY DEF Inv, PartyInv, Membership
<1> QED BY <1>1, Invariance, PTL

\* Every member of a party of several knows the party or will be told by
\* update_dirties.
THEOREM MembersInformed ==
    Spec => []MembersAreInformed
<1>1. Inv => MembersAreInformed
  BY DEF Inv, PartyInv, Membership
<1> QED BY <1>1, Invariance, PTL

\* Nobody takes part in two searches of one queue.
THEOREM SearchPerQueue ==
    Spec => []OneSearchPerQueue
<1>1. Inv => OneSearchPerQueue
  BY DEF Inv, SearchInv
<1> QED BY <1>1, Invariance, PTL

\* Whoever counts as searching is in a queue.
THEOREM SearchersQueued ==
    Spec => []SearchersAreQueued
<1>1. Inv => SearchersAreQueued
  BY DEF Inv, SearchInv
<1> QED BY <1>1, Invariance, PTL
=============================================================================

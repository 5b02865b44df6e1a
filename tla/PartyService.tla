----------------------------- MODULE PartyService -----------------------------
(***************************************************************************)
(* Parties (server/party_service.py, server/team_matchmaker) and the party *)
(* commands of the lobby connections, together with the searches that a    *)
(* party's owner starts and that a leaving member cancels.                 *)
(*                                                                         *)
(* A party is an object: it lives on while a coroutine holds it, and a     *)
(* player may create a new one meanwhile.  The only await inside an        *)
(* operation is the one of accept_invite, where the recipient has left the *)
(* old party and has not entered the new one; accepting[p] is the party    *)
(* that the suspended call holds.                                          *)
(***************************************************************************)
EXTENDS LadderSearch

CONSTANTS Parties,    \* party objects
          NoParty,
          MaxTeamSize \* the largest team of any queue

ASSUME PartyAssumption ==
    /\ NoParty \notin Parties
    /\ MaxTeamSize \in Nat

VARIABLES
    partyOf,      \* player_parties
    party,        \* the party objects
    dirtyParties, \* _dirty_parties
    accepting,    \* the party that accept_invite of a player is about to enter
    informed      \* players who were sent their party as it is now

partyVars == <<partyOf, party, dirtyParties, accepting, informed>>
vars == <<searchVars, partyVars>>

PartyObjects ==
    [owner : Players \cup {NoParty}, members : SUBSET Players,
     invited : SUBSET Players]

TypeOK ==
    /\ SearchTypeOK
    /\ partyOf \in [Players -> Parties \cup {NoParty}]
    /\ party \in [Parties -> PartyObjects]
    /\ dirtyParties \subseteq Parties
    /\ accepting \in [Players -> Parties \cup {NoParty}]
    /\ informed \subseteq Players

Init ==
    /\ SearchInit
    /\ partyOf = [p \in Players |-> NoParty]
    /\ party = [i \in Parties |->
                  [owner |-> NoParty, members |-> {}, invited |-> {}]]
    /\ dirtyParties = {}
    /\ accepting = [p \in Players |-> NoParty]
    /\ informed = {}

-----------------------------------------------------------------------------
(* Party objects *)

\* Nobody holds the object: it stands for one that is yet to be created
Unused(i) == \A p \in Players : partyOf[p] # i /\ accepting[p] # i

\* get_party returns i for p
GetsParty(p, i) == IF partyOf[p] # NoParty THEN i = partyOf[p] ELSE Unused(i)

\* ... and this is the object
PartyFor(p, i) ==
    IF partyOf[p] # NoParty THEN party[i]
    ELSE [owner |-> p, members |-> {p}, invited |-> {}]

\* The dirty marks that are left when i may be a new object
MarksFor(p, i) ==
    IF partyOf[p] # NoParty THEN dirtyParties ELSE dirtyParties \ {i}

\* Mutant: the others keep their entry when the party is disbanded
RemovePlayerKeepEntries(p, i) ==
    LET rest == party[i].members \ {p} IN
    IF party[i].owner \in rest
    THEN /\ party' = [party EXCEPT ![i].members = rest]
         /\ partyOf' = [partyOf EXCEPT ![p] = NoParty]
         /\ dirtyParties' = dirtyParties \cup {i}
         /\ informed' = informed \ (rest \cup {p})
    ELSE /\ party' = [party EXCEPT ![i].members = {}, ![i].invited = {}]
         /\ partyOf' = [partyOf EXCEPT ![p] = NoParty]
         /\ informed' = informed \ (rest \cup {p})
         /\ UNCHANGED dirtyParties

\* _remove_player_from_party: without its owner a party is disbanded
RemovePlayer(p, i) ==
    LET rest == party[i].members \ {p} IN
    IF party[i].owner \in rest
    THEN /\ party' = [party EXCEPT ![i].members = rest]
         /\ partyOf' = [partyOf EXCEPT ![p] = NoParty]
         /\ dirtyParties' = dirtyParties \cup {i}
         /\ informed' = informed \ (rest \cup {p})
    ELSE /\ party' = [party EXCEPT ![i].members = {}, ![i].invited = {}]
         /\ partyOf' = [x \in Players |->
                          IF x = p \/ (x \in rest /\ partyOf[x] = i)
                          THEN NoParty ELSE partyOf[x]]
         /\ informed' = informed \ (rest \cup {p})
         /\ UNCHANGED dirtyParties

\* add_player or add_member, and what accept_invite does after it
AddPlayer(p, i) ==
    /\ party' = [party EXCEPT ![i].members = @ \cup {p}]
    /\ partyOf' = [partyOf EXCEPT ![p] = i]
    /\ dirtyParties' = dirtyParties \cup {i}
    /\ informed' = informed \ (party[i].members \cup {p})

-----------------------------------------------------------------------------
(* Commands *)

Free(p) == LoopFree(p) /\ accepting[p] = NoParty

\* player_idle
Idle(p) == Free(p) /\ pstate[p] = "IDLE"

\* command_invite_to_party
InvitePlayer(p, r) ==
    /\ Idle(p)
    /\ r \in online
    /\ \E i \in Parties :
         /\ GetsParty(p, i)
         /\ PartyFor(p, i).owner = p
         /\ party' = [party EXCEPT ![i] =
                        [PartyFor(p, i) EXCEPT !.invited = @ \cup {r}]]
         /\ partyOf' = [partyOf EXCEPT ![p] = i]
         /\ dirtyParties' = MarksFor(p, i)
    /\ UNCHANGED <<searchVars, accepting, informed>>

\* command_accept_party_invite.  A recipient without a party enters the new
\* one at once, the others leave their old one first and wait for the message
\* about it to be sent.
AcceptInvite(p, sender) ==
    LET i == partyOf[sender] IN
    /\ Idle(p)
    /\ sender \in online
    /\ i # NoParty
    /\ p \in party[i].invited
    /\ pstate[sender] # "SEARCHING_LADDER"
    /\ IF partyOf[p] = NoParty
       THEN AddPlayer(p, i) /\ UNCHANGED accepting
       ELSE /\ RemovePlayer(p, partyOf[p])
            /\ accepting' = [accepting EXCEPT ![p] = i]
    /\ UNCHANGED searchVars

\* The rest of accept_invite
EnterParty(p) ==
    /\ accepting[p] # NoParty
    /\ AddPlayer(p, accepting[p])
    /\ accepting' = [accepting EXCEPT ![p] = NoParty]
    /\ UNCHANGED searchVars

\* Mutant: kicking somebody leaves the invitations of the party as they are
KickPlayerKeepInvitations(p, k) ==
    LET i == partyOf[p] IN
    /\ Idle(p)
    /\ k \in online
    /\ i # NoParty
    /\ party[i].owner = p
    /\ k \in party[i].members
    /\ party' = [party EXCEPT ![i].members = @ \ {k}]
    /\ partyOf' = [partyOf EXCEPT ![k] = NoParty]
    /\ dirtyParties' = dirtyParties \cup {i}
    /\ informed' = informed \ party[i].members
    /\ UNCHANGED <<searchVars, accepting>>

\* Mutant: the members who stay are not told about the kick
KickPlayerQuietly(p, k) ==
    LET i == partyOf[p] IN
    /\ Idle(p)
    /\ k \in online
    /\ i # NoParty
    /\ party[i].owner = p
    /\ k \in party[i].members
    /\ party' = [party EXCEPT
                   ![i].members = @ \ {k},
                   ![i].invited = IF k = party[i].owner THEN {} ELSE @]
    /\ partyOf' = [partyOf EXCEPT ![k] = NoParty]
    /\ informed' = informed \ party[i].members
    /\ UNCHANGED <<searchVars, accepting, dirtyParties>>

\* command_kick_player_from_party.  The owner may be the one who is kicked.
KickPlayer(p, k) ==
    LET i == partyOf[p] IN
    /\ Idle(p)
    /\ k \in online
    /\ i # NoParty
    /\ party[i].owner = p
    /\ k \in party[i].members
    /\ party' = [party EXCEPT
                   ![i].members = @ \ {k},
                   ![i].invited = IF k = party[i].owner THEN {} ELSE @]
    /\ partyOf' = [partyOf EXCEPT ![k] = NoParty]
    /\ dirtyParties' = dirtyParties \cup {i}
    /\ informed' = informed \ party[i].members
    /\ UNCHANGED <<searchVars, accepting>>

\* command_leave_party: cancels all searches first
LeaveParty(p) ==
    /\ Free(p)
    /\ CancelSearch(p, Queues)
    /\ IF partyOf[p] = NoParty
       THEN UNCHANGED <<partyOf, party, dirtyParties, informed>>
       ELSE RemovePlayer(p, partyOf[p])
    /\ UNCHANGED <<gameVars, online, open, accepting>>

\* command_set_party_factions.  Factions are left out; the party is reported.
SetFactions(p) ==
    /\ Free(p)
    /\ \E i \in Parties :
         /\ GetsParty(p, i)
         /\ party' = [party EXCEPT ![i] = PartyFor(p, i)]
         /\ partyOf' = [partyOf EXCEPT ![p] = i]
         /\ dirtyParties' = MarksFor(p, i) \cup {i}
    /\ UNCHANGED <<searchVars, accepting, informed>>

\* command_game_matchmaking with state "start".  Only the owner may, and
\* start_search refuses while a member is banned or the server is closing.
GameMatchmaking(p, q) ==
    /\ Free(p)
    /\ \E i \in Parties :
         /\ GetsParty(p, i)
         /\ LET T == PartyFor(p, i).members IN
            \/ UNCHANGED <<pstate, searches>>
            \/ /\ PartyFor(p, i).owner = p
               /\ \A x \in T : pstate[x] \in {"IDLE", "SEARCHING_LADDER"}
               /\ Cardinality(T) <= MaxTeamSize
               /\ StartSearch(T, q)
         /\ party' = [party EXCEPT ![i] = PartyFor(p, i)]
         /\ partyOf' = [partyOf EXCEPT ![p] = i]
         /\ dirtyParties' = MarksFor(p, i)
    /\ UNCHANGED <<gameVars, online, open, accepting, informed>>

\* on_connection_lost of PartyService and LadderService
ConnectionLost(p) ==
    /\ Disconnect(p)
    /\ accepting' = [accepting EXCEPT ![p] = NoParty]
    /\ IF partyOf[p] = NoParty
       THEN UNCHANGED <<partyOf, party, dirtyParties, informed>>
       ELSE RemovePlayer(p, partyOf[p])

\* update_dirties
UpdateDirties ==
    /\ dirtyParties # {}
    /\ dirtyParties' = {}
    /\ informed' = informed \cup UNION {party[i].members : i \in dirtyParties}
    /\ UNCHANGED <<searchVars, partyOf, party, accepting>>

-----------------------------------------------------------------------------
Command(p) ==
    \/ \E r \in Players : InvitePlayer(p, r) \/ AcceptInvite(p, r)
                            \/ KickPlayer(p, r)
    \/ LeaveParty(p)
    \/ SetFactions(p)
    \/ \E q \in Queues : GameMatchmaking(p, q)
    \/ \E q \in Queues :
         accepting[p] = NoParty /\ StopSearch(p, q) /\ UNCHANGED partyVars
    \/ accepting[p] = NoParty /\ CommandGame(p) /\ UNCHANGED partyVars

GameStep(p) == LaunchGame(p) \/ LeaveGame(p) \/ AbortWaits(p) \/ AbortDone(p)

Next ==
    \/ \E p \in Players : Command(p) \/ EnterParty(p) \/ ConnectionLost(p)
    \/ \E p \in Players : GameStep(p) /\ UNCHANGED partyVars
    \/ \E M \in SUBSET searches : Match(M) /\ UNCHANGED partyVars
    \/ UpdateDirties

Spec == Init /\ [][Next]_vars

-----------------------------------------------------------------------------
(* Safety *)

\* The members of a party are exactly the players whose entry in
\* player_parties is this party: whatever leaves, kicks, disbands and
\* suspended invitations interleave, nobody "was in two parties at once"
\* (remove_party) and nobody is sent into a queue by a party left long ago.
MembershipAgrees ==
    \A p \in Players, i \in Parties : p \in party[i].members <=> partyOf[p] = i

\* A party that has lost its owner hands out no more invitations: nobody can
\* accept one and get stuck in a party that only its owner could queue.
OrphanPartyIsClosed ==
    \A i \in Parties :
        party[i].owner \notin party[i].members => party[i].invited = {}

\* The members of a party of several have been sent the party as it is, or
\* the next update_dirties will send it.
MembersAreInformed ==
    \A i \in Parties \ dirtyParties : \A p, x \in party[i].members :
        p # x => p \in informed

\* test_parties.py, test_accept_while_party_queued: who accepts the invitation
\* of a party that is in a queue is told "That party is already in queue".
\* So nobody becomes a member of a party whose owner is searching.
NobodyJoinsQueuedParty ==
    [][\A i \in Parties :
         /\ party'[i].owner = party[i].owner
         /\ party[i].owner \in Players
         /\ pstate[party[i].owner] = "SEARCHING_LADDER"
         => party'[i].members \subseteq party[i].members]_vars
=============================================================================

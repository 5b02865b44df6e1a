------------------------ MODULE LadderServiceProofs -------------------------
(***************************************************************************)
(* Proofs about the parts of the LadderService: LadderMatch for any number *)
(* of guests; ViolationService for every set of players and parties and    *)
(* every threshold and duration with bans up to the reset time; and        *)
(* VetoService for all players, maps, pools and wishes.                    *)
(***************************************************************************)
EXTENDS LadderMatch, ViolationService, VetoService, FiniteSums, FiniteSetTheorems, TLAPS

-----------------------------------------------------------------------------
(* The inductive invariant *)

\* What the progress of _start_game says about the hosted future.
StageInv ==
    /\ pc = "history" => gstate = "NONE" /\ hosted = "pending"
    /\ pc = "history" => conn[Host] = "NONE"
    /\ pc \in {"waiting", "finishing"} => hosted = "result"
    /\ pc = "failed" /\ hosted = "pending" => conn[Host] \in {"NONE", "UNSENT", "ENDED"}
    /\ pc = "failed" /\ gstate = "LOBBY" => hosted # "result"
    /\ gstate = "LIVE" \/ launching => hosted = "result"
    /\ conn[Host] \in {"NONE", "UNSENT", "INITIALIZING"} => hosted # "result"

\* No guest has a connection before the hosted future is done.
GuestsInv ==
    /\ pc \in {"history", "hosting"} => \A g \in Guests : conn[g] = "NONE"
    /\ hosted = "pending" => \A g \in Guests : conn[g] = "NONE"

\* Who is in the game, who left it and who is offline.
ConnsInv ==
    \A p \in Players :
      /\ p \in conns => conn[p] = "CONNECTED"
      /\ p \in closer => conn[p] = "ENDED"
      /\ ~online[p] => conn[p] \in {"NONE", "ENDED"}

ToldInv == told => pc = "failed"

Inv == TypeOK /\ StageInv /\ GuestsInv /\ ConnsInv /\ ToldInv

-----------------------------------------------------------------------------
(* Type correctness *)

\* The host is a player and not a guest, and there is nobody else.
LEMMA HostIsPlayer ==
    /\ Host \in Players
    /\ Guests \subseteq Players
    /\ Host \notin Guests
    /\ \A p \in Players : p \in Guests \/ p = Host
BY MatchAssumption DEF Players

\* Abort keeps every variable it changes within its type.
LEMMA AbortType ==
    ASSUME TypeOK, NEW p \in Players, Abort(p)
    PROVE  /\ gstate' \in {"NONE", "INITIALIZING", "LOBBY", "LIVE", "ENDED"}
           /\ hosted' \in FutureStates
           /\ launch' \in FutureStates
           /\ closer' \subseteq Players
           /\ \A x, y \in closer' : x = y
           /\ conns' \subseteq Players
           /\ conn' \in [Players -> ConnStates]
           /\ pstate' \in [Players -> {"STARTING_AUTOMATCH", "HOSTING",
                                       "JOINING", "PLAYING", "IDLE"}]
BY DEF TypeOK, Abort, RemoveConnection, FutureStates, ConnStates

\* Launching the guests concerns their connections only.
GuestsTouched ==
    /\ conn' \in [Players -> ConnStates]
    /\ \A p \in Players : conn'[p] = conn[p] \/ (p \in Guests /\ online[p])

\* All guests are online when they are launched.
LEMMA LaunchTouches ==
    ASSUME TypeOK, LaunchGuests
    PROVE  GuestsTouched
BY DEF LaunchGuests, OfflineGuests, GuestsTouched, TypeOK, ConnStates, Players

\* An error on the way to the guests is a failure of the offline ones, or of nobody.
LEMMA GuestsFailEffect ==
    ASSUME TypeOK, GuestsFail
    PROVE  GuestsTouched /\ \E F \in {OfflineGuests, {}} : Fail(F)
<1>1. CASE OfflineGuests # {}
  BY <1>1 DEF GuestsFail, GuestsTouched, TypeOK
<1>2. CASE OfflineGuests = {}
  <2>1. Fail({})
    BY <1>2 DEF GuestsFail
  <2>2. PICK g \in Guests, L \in SUBSET Guests, c \in Unlaunched :
          conn' = [p \in Players |-> IF p \in L THEN "INITIALIZING"
                                     ELSE IF p = g THEN c ELSE conn[p]]
    BY <1>2 DEF GuestsFail
  <2>3. \A p \in Guests : online[p]
    BY <1>2 DEF OfflineGuests, TypeOK, Players
  <2>4. GuestsTouched
    BY <2>2, <2>3 DEF GuestsTouched, Unlaunched, TypeOK, ConnStates
  <2> QED
    BY <2>1, <2>4
<1> QED
  BY <1>1, <1>2

\* What is raised while the guests are launched may hide who was to blame before.
LEMMA LaunchingEffect ==
    ASSUME TypeOK, NEW S, FailAfterLaunching(S)
    PROVE  GuestsTouched /\ \E F \in {S, OfflineGuests, {}} : Fail(F)
BY LaunchTouches, GuestsFailEffect DEF FailAfterLaunching

\* wait_hosted returns to launched guests, or to a failure.
LEMMA HostedEffect ==
    ASSUME TypeOK, HostedInTime
    PROVE  /\ GuestsTouched
           /\ \/ \E F \in {OfflineGuests, {}} : Fail(F)
              \/ pc' = "waiting" /\ UNCHANGED <<gstate, endVars>>
BY LaunchTouches, GuestsFailEffect DEF HostedInTime

\* A failure keeps the types.
LEMMA FailType ==
    ASSUME TypeOK, NEW S \in SUBSET Players, Fail(S)
    PROVE  /\ pc' \in {"finishing", "failed"}
           /\ gstate' \in {"NONE", "INITIALIZING", "LOBBY", "LIVE", "ENDED"}
           /\ told' \in BOOLEAN
           /\ abandoning' \subseteq Players
           /\ blamed' \subseteq Players
BY DEF Fail, TypeOK

\* Every step keeps the types.
LEMMA TypeStep ==
    ASSUME TypeOK, [Next]_vars
    PROVE  TypeOK'
<1> USE HostIsPlayer
<1>a. OfflineGuests \in SUBSET Players /\ {} \in SUBSET Players
  BY DEF OfflineGuests, Players
<1>1. CASE StartError \/ LaunchHost
  BY <1>1 DEF StartError, LaunchHost, Fail, TypeOK, ConnStates, playerVars,
              endVars
<1>b. CASE LaunchHostFails
  BY <1>b DEF LaunchHostFails, Unlaunched, TypeOK, ConnStates
<1>2. CASE HostedInTime
  <2>1. GuestsTouched
    BY <1>2, HostedEffect
  <2>2. CASE \E F \in {OfflineGuests, {}} : Fail(F)
    <3>1. PICK F \in SUBSET Players : Fail(F)
      BY <1>a, <2>2
    <3> QED
      BY <1>2, <2>1, <3>1, FailType DEF HostedInTime, GuestsTouched, TypeOK
  <2>3. CASE pc' = "waiting" /\ UNCHANGED <<gstate, endVars>>
    BY <1>2, <2>1, <2>3 DEF HostedInTime, GuestsTouched, TypeOK, endVars
  <2> QED
    BY <1>2, <2>2, <2>3, HostedEffect
<1>3. CASE HostClosed
  <2>1. GuestsTouched /\ \E F \in {closer, OfflineGuests, {}} : Fail(F)
    BY <1>3, LaunchingEffect DEF HostClosed
  <2>2. PICK F \in SUBSET Players : Fail(F)
    BY <1>a, <2>1 DEF TypeOK
  <2> QED
    BY <1>3, <2>1, <2>2, FailType DEF HostClosed, GuestsTouched, TypeOK
<1>4. CASE HostTimeout
  <2>1. GuestsTouched /\ \E F \in {{Host}, OfflineGuests, {}} : Fail(F)
    BY <1>4, LaunchingEffect DEF HostTimeout
  <2>2. PICK F \in SUBSET Players : Fail(F)
    BY <1>a, <2>1
  <2> QED
    BY <1>4, <2>1, <2>2, FailType DEF HostTimeout, GuestsTouched, TypeOK,
                                      FutureStates
<1>5. CASE LaunchedInTime \/ LaunchClosed \/ LaunchTimeout \/ FinishCancelled
  BY <1>5 DEF LaunchedInTime, LaunchClosed, LaunchTimeout, FinishCancelled,
              Fail, TypeOK, FutureStates, gameVars, playerVars, endVars
<1>6. CASE HostIdle \/ Launch \/ GameTimeout
  BY <1>6 DEF HostIdle, Launch, GameTimeout, TypeOK, ConnStates, playerVars,
              endVars
<1>7. CASE HostLobby
  BY <1>7, AbortType DEF HostLobby, TypeOK, FutureStates, endVars
<1>8. CASE LaunchDone
  BY <1>8, AbortType DEF LaunchDone, TypeOK, FutureStates, endVars
<1>9. CASE LaunchFails
  BY <1>9, AbortType DEF LaunchFails, TypeOK, endVars
<1>10. ASSUME NEW g \in Guests, GuestIdle(g)
       PROVE  TypeOK'
  BY <1>10 DEF GuestIdle, TypeOK, ConnStates, gameVars, endVars
<1>11. ASSUME NEW g \in Guests, GuestLobby(g)
       PROVE  TypeOK'
  BY <1>11, AbortType DEF GuestLobby, TypeOK, ConnStates, endVars
<1>12. ASSUME NEW p \in Players, Configure(p)
       PROVE  TypeOK'
  BY <1>12 DEF Configure, TypeOK, playerVars, endVars
<1>13. ASSUME NEW p \in Players, CloseGame(p)
       PROVE  TypeOK'
  BY <1>13, AbortType DEF CloseGame, TypeOK, endVars
<1>14. ASSUME NEW p \in Players, Disconnect(p)
       PROVE  TypeOK'
  BY <1>14, AbortType DEF Disconnect, TypeOK, endVars
<1>15. ASSUME NEW p \in Players, ConnTimeout(p)
       PROVE  TypeOK'
  BY <1>15, AbortType DEF ConnTimeout, TypeOK, endVars
<1>16. CASE UNCHANGED vars
  BY <1>16 DEF vars, gameVars, playerVars, endVars, TypeOK
<1> QED
  BY <1>1, <1>b, <1>2, <1>3, <1>4, <1>5, <1>6, <1>7, <1>8, <1>9, <1>10, <1>11,
     <1>12, <1>13, <1>14, <1>15, <1>16 DEF Next, StartGame

-----------------------------------------------------------------------------
(* The other parts of the invariant *)

\* What Abort(p) does, in the terms of the invariant.
LEMMA AbortEffect ==
    ASSUME TypeOK, NEW p \in Players, Abort(p)
    PROVE  /\ conns' = conns \ {p}
           /\ conn' = [conn EXCEPT ![p] = "ENDED"]
           /\ gstate' \in {gstate, "ENDED"}
           /\ hosted' \in {hosted, "closed"}
           /\ closer' \in {closer, {p}}
           /\ p \notin conns => hosted' = hosted /\ gstate' = gstate
           /\ hosted' # hosted => hosted = "pending"
BY DEF Abort, RemoveConnection, TypeOK

\* Fail ends in failed, or in finishing when the game is LIVE.
LEMMA FailEffect ==
    ASSUME NEW S, Fail(S)
    PROVE  /\ abandoning' = S
           /\ \/ pc' = "finishing" /\ gstate = "LIVE" /\ gstate' = "LIVE"
              \/ /\ pc' = "failed" /\ gstate # "LIVE"
                 /\ gstate' \in {"NONE", "ENDED"}
BY DEF Fail

\* Every step keeps StageInv.
LEMMA StageStep ==
    ASSUME Inv, [Next]_vars
    PROVE  StageInv'
<1> USE HostIsPlayer
<1>0. TypeOK /\ StageInv /\ GuestsInv /\ ConnsInv
  BY DEF Inv
<1>1. CASE StartError
  BY <1>0, <1>1, FailEffect DEF StartError, StageInv, playerVars
<1>2. CASE LaunchHost
  BY <1>0, <1>2 DEF LaunchHost, StageInv, TypeOK, ConnStates
<1>b. CASE LaunchHostFails
  BY <1>0, <1>b DEF LaunchHostFails, StageInv, TypeOK, ConnStates, Unlaunched
<1>c. ASSUME GuestsTouched PROVE conn'[Host] = conn[Host]
  BY <1>c, MatchAssumption DEF GuestsTouched
<1>3. CASE HostedInTime
  BY <1>0, <1>3, <1>c, FailEffect, HostedEffect DEF HostedInTime, StageInv
<1>4. CASE HostClosed
  BY <1>0, <1>4, <1>c, FailEffect, LaunchingEffect DEF HostClosed, StageInv
<1>5. CASE HostTimeout
  BY <1>0, <1>5, <1>c, FailEffect, LaunchingEffect DEF HostTimeout, StageInv
<1>6. CASE LaunchedInTime \/ FinishCancelled
  BY <1>0, <1>6 DEF LaunchedInTime, FinishCancelled, StageInv, gameVars,
                    playerVars
<1>7. CASE LaunchClosed \/ LaunchTimeout
  BY <1>0, <1>7, FailEffect DEF LaunchClosed, LaunchTimeout, StageInv, playerVars
<1>8. CASE HostIdle
  BY <1>0, <1>8 DEF HostIdle, StageInv, TypeOK
<1>9. CASE Launch \/ GameTimeout
  BY <1>0, <1>9 DEF Launch, GameTimeout, StageInv, playerVars
<1>10. CASE HostLobby
  <2>1. CASE hosted = "pending"
    BY <1>0, <1>10, <2>1 DEF HostLobby, StageInv
  <2>2. CASE hosted # "pending"
    BY <1>0, <1>10, <2>2, AbortEffect DEF HostLobby, StageInv, TypeOK
  <2> QED
    BY <2>1, <2>2
<1>11. CASE LaunchDone \/ LaunchFails
  <2>1. CASE Abort(Host)
    <3>1. pc' = pc /\ ~launching' /\ hosted = "result"
      BY <1>0, <1>11 DEF LaunchDone, LaunchFails, StageInv
    <3>2. hosted' = "result" /\ gstate' \in {gstate, "ENDED"}
      BY <2>1, <3>1 DEF Abort, RemoveConnection
    <3>3. conn' = [conn EXCEPT ![Host] = "ENDED"]
      BY <2>1 DEF Abort
    <3>4. conn'[Host] = "ENDED"
      BY <1>0, <3>3 DEF TypeOK
    <3> QED
      BY <1>0, <3>1, <3>2, <3>4 DEF StageInv
  <2>2. CASE ~Abort(Host)
    BY <1>0, <1>11, <2>2 DEF LaunchDone, LaunchFails, StageInv
  <2> QED
    BY <2>1, <2>2
<1>12. ASSUME NEW g \in Guests, GuestIdle(g)
       PROVE  StageInv'
  BY <1>0, <1>12 DEF GuestIdle, StageInv, gameVars, TypeOK
<1>13. ASSUME NEW p \in Players, Abort(p), pc' = pc, launching' = launching,
              conn[p] # "NONE", ~(launching /\ p = Host)
       PROVE  StageInv'
  <2>1. /\ gstate' \in {gstate, "ENDED"}
        /\ hosted' = hosted \/ (hosted = "pending" /\ hosted' = "closed")
    BY <1>13 DEF Abort, RemoveConnection
  <2>3. conn'[Host] = IF p = Host THEN "ENDED" ELSE conn[Host]
    <3>1. conn' = [conn EXCEPT ![p] = "ENDED"]
      BY <1>13 DEF Abort
    <3> QED
      BY <1>0, <3>1 DEF TypeOK
  <2>2. pc = "history" => p # Host /\ p \notin Guests
    BY <1>0, <1>13 DEF StageInv, GuestsInv
  <2> QED
    BY <1>0, <1>13, <2>1, <2>2, <2>3 DEF StageInv
<1>14. ASSUME NEW g \in Guests, GuestLobby(g)
       PROVE  StageInv'
  <2>1. CASE Abort(g)
    BY <1>13, <1>14, <2>1 DEF GuestLobby
  <2>2. CASE ~Abort(g)
    BY <1>0, <1>14, <2>2 DEF GuestLobby, StageInv, TypeOK
  <2> QED
    BY <2>1, <2>2
<1>15. ASSUME NEW p \in Players, Configure(p)
       PROVE  StageInv'
  BY <1>0, <1>15 DEF Configure, StageInv, playerVars
<1>16. ASSUME NEW p \in Players, CloseGame(p) \/ ConnTimeout(p)
       PROVE  StageInv'
  <2>1. CASE CloseGame(p)
    BY <1>13, <2>1 DEF CloseGame, Attached, Free
  <2>2. CASE ConnTimeout(p)
    BY <1>0, <1>13, <2>2 DEF ConnTimeout, StageInv
  <2> QED
    BY <1>16, <2>1, <2>2
<1>17. ASSUME NEW p \in Players, Disconnect(p)
       PROVE  StageInv'
  <2>1. CASE Attached(p) /\ Abort(p)
    BY <1>13, <1>17, <2>1 DEF Disconnect, Attached, Free
  <2>2. CASE ~Attached(p)
    BY <1>0, <1>17, <2>2 DEF Disconnect, StageInv
  <2> QED
    BY <1>17, <2>1, <2>2 DEF Disconnect
<1>18. CASE UNCHANGED vars
  BY <1>0, <1>18 DEF vars, gameVars, playerVars, StageInv
<1> QED
  BY <1>1, <1>2, <1>b, <1>3, <1>4, <1>5, <1>6, <1>7, <1>8, <1>9, <1>10, <1>11,
     <1>12, <1>14, <1>15, <1>16, <1>17, <1>18 DEF Next, StartGame

\* Every step keeps GuestsInv.
LEMMA GuestsStep ==
    ASSUME Inv, [Next]_vars
    PROVE  GuestsInv'
<1> USE HostIsPlayer
<1>0. TypeOK /\ StageInv /\ GuestsInv /\ ConnsInv
  BY DEF Inv
<1>1. CASE StartError \/ LaunchHost
  BY <1>0, <1>1, FailEffect DEF StartError, LaunchHost, GuestsInv, TypeOK,
                                playerVars
<1>b. CASE LaunchHostFails
  BY <1>0, <1>b DEF LaunchHostFails, GuestsInv, TypeOK
<1>2. CASE HostedInTime
  BY <1>0, <1>2, FailEffect, HostedEffect DEF HostedInTime, GuestsInv
<1>3. CASE HostClosed
  BY <1>0, <1>3, FailEffect, LaunchingEffect DEF HostClosed, GuestsInv
<1>4. CASE HostTimeout
  BY <1>0, <1>4, FailEffect, LaunchingEffect DEF HostTimeout, GuestsInv
<1>5. CASE LaunchedInTime \/ FinishCancelled
  BY <1>0, <1>5 DEF LaunchedInTime, FinishCancelled, GuestsInv, gameVars,
                    playerVars
<1>6. CASE LaunchClosed \/ LaunchTimeout
  BY <1>0, <1>6, FailEffect DEF LaunchClosed, LaunchTimeout, GuestsInv,
                                playerVars
<1>7. CASE HostIdle \/ Launch \/ GameTimeout
  BY <1>0, <1>7 DEF HostIdle, Launch, GameTimeout, GuestsInv, TypeOK, playerVars
<1>8. ASSUME NEW p \in Players, Abort(p), pc' = pc,
             p \in Guests => conn[p] # "NONE"
      PROVE  GuestsInv'
  <2>1. conn' = [conn EXCEPT ![p] = "ENDED"] /\ hosted' \in {hosted, "closed"}
    BY <1>8 DEF Abort, RemoveConnection
  <2> SUFFICES ASSUME NEW g \in Guests,
                      pc \in {"history", "hosting"} \/ hosted = "pending"
               PROVE  conn'[g] = "NONE"
    BY <1>8, <2>1 DEF GuestsInv
  <2>2. conn[g] = "NONE" /\ g # p
    BY <1>0, <1>8 DEF GuestsInv
  <2> QED
    BY <1>0, <2>1, <2>2 DEF TypeOK
<1>9. CASE HostLobby
  <2>1. CASE Abort(Host)
    BY <1>8, <1>9, <2>1 DEF HostLobby
  <2>2. CASE ~Abort(Host)
    BY <1>0, <1>9, <2>2 DEF HostLobby, GuestsInv
  <2> QED
    BY <2>1, <2>2
<1>10. CASE LaunchDone \/ LaunchFails
  <2>1. CASE Abort(Host)
    BY <1>8, <1>10, <2>1 DEF LaunchDone, LaunchFails
  <2>2. CASE ~Abort(Host)
    BY <1>0, <1>10, <2>2 DEF LaunchDone, LaunchFails, GuestsInv
  <2> QED
    BY <2>1, <2>2
<1>11. ASSUME NEW g \in Guests, conn[g] # "NONE", ~Abort(g), pc' = pc,
              hosted' = hosted, NEW c, conn' = [conn EXCEPT ![g] = c]
       PROVE  GuestsInv'
  BY <1>0, <1>11 DEF GuestsInv, TypeOK
<1>12. ASSUME NEW g \in Guests, GuestIdle(g)
       PROVE  GuestsInv'
  BY <1>0, <1>12 DEF GuestIdle, GuestsInv, TypeOK, gameVars
<1>13. ASSUME NEW g \in Guests, GuestLobby(g)
       PROVE  GuestsInv'
  <2>1. CASE Abort(g)
    BY <1>8, <1>13, <2>1 DEF GuestLobby
  <2>2. CASE ~Abort(g)
    BY <1>11, <1>13, <2>2 DEF GuestLobby
  <2> QED
    BY <2>1, <2>2
<1>14. ASSUME NEW p \in Players, Configure(p)
       PROVE  GuestsInv'
  BY <1>0, <1>14 DEF Configure, GuestsInv, playerVars
<1>15. ASSUME NEW p \in Players, CloseGame(p) \/ ConnTimeout(p)
       PROVE  GuestsInv'
  BY <1>8, <1>15 DEF CloseGame, ConnTimeout, Attached
<1>16. ASSUME NEW p \in Players, Disconnect(p)
       PROVE  GuestsInv'
  <2>1. CASE Attached(p) /\ Abort(p)
    BY <1>8, <1>16, <2>1 DEF Disconnect, Attached
  <2>2. CASE ~Attached(p)
    BY <1>0, <1>16, <2>2 DEF Disconnect, GuestsInv
  <2> QED
    BY <1>16, <2>1, <2>2 DEF Disconnect
<1>17. CASE UNCHANGED vars
  BY <1>0, <1>17 DEF vars, gameVars, playerVars, GuestsInv
<1> QED
  BY <1>1, <1>b, <1>2, <1>3, <1>4, <1>5, <1>6, <1>7, <1>9, <1>10, <1>12, <1>13,
     <1>14, <1>15, <1>16, <1>17 DEF Next, StartGame

\* A step that leaves the sets alone and gives the players connections in
\* which nobody who is in the game, left it or is offline is touched.
LEMMA ConnsKept ==
    ASSUME TypeOK, ConnsInv, UNCHANGED <<conns, closer, online>>,
           \A p \in Players : \/ conn'[p] = conn[p]
                              \/ conn[p] = "NONE" /\ online[p]
    PROVE  ConnsInv'
BY DEF ConnsInv

\* Every step keeps ConnsInv.
LEMMA ConnsStep ==
    ASSUME Inv, [Next]_vars
    PROVE  ConnsInv'
<1> USE HostIsPlayer
<1>0. TypeOK /\ StageInv /\ GuestsInv /\ ConnsInv
  BY DEF Inv
<1>1. CASE StartError \/ LaunchedInTime \/ LaunchClosed \/ LaunchTimeout
           \/ FinishCancelled \/ Launch \/ GameTimeout
  BY <1>0, <1>1 DEF StartError, LaunchedInTime, LaunchClosed, LaunchTimeout,
     FinishCancelled, Launch, GameTimeout, gameVars, playerVars, ConnsInv
<1>2. CASE LaunchHost
  BY <1>0, <1>2, ConnsKept DEF LaunchHost, StageInv, TypeOK
<1>b. CASE LaunchHostFails
  BY <1>0, <1>b, ConnsKept DEF LaunchHostFails, StageInv, TypeOK
<1>3. ASSUME GuestsTouched, pc = "hosting", UNCHANGED <<conns, closer, online>>
      PROVE  ConnsInv'
  BY <1>0, <1>3, ConnsKept DEF GuestsInv, GuestsTouched
<1>4. ASSUME UNCHANGED <<conn, conns, closer, online>>
      PROVE  ConnsInv'
  BY <1>0, <1>4 DEF ConnsInv
<1>5. CASE HostedInTime
  BY <1>0, <1>3, <1>5, HostedEffect DEF HostedInTime
<1>6. CASE HostClosed
  BY <1>0, <1>3, <1>6, LaunchingEffect DEF HostClosed
<1>7. CASE HostTimeout
  BY <1>0, <1>3, <1>7, LaunchingEffect DEF HostTimeout
<1>8. CASE HostIdle
  BY <1>0, <1>8 DEF HostIdle, ConnsInv, TypeOK
<1>9. ASSUME NEW p \in Players, Abort(p),
             \A q \in Players : online'[q] = online[q] \/ q = p
      PROVE  ConnsInv'
  <2>1. conn' = [conn EXCEPT ![p] = "ENDED"] /\ conns' = conns \ {p}
        /\ closer' \in {closer, {p}}
    BY <1>9 DEF Abort, RemoveConnection
  <2> SUFFICES ASSUME NEW q \in Players
               PROVE  /\ q \in conns' => conn'[q] = "CONNECTED"
                      /\ q \in closer' => conn'[q] = "ENDED"
                      /\ ~online'[q] => conn'[q] \in {"NONE", "ENDED"}
    BY DEF ConnsInv
  <2>2. conn'[q] = IF q = p THEN "ENDED" ELSE conn[q]
    BY <1>0, <2>1 DEF TypeOK
  <2>3. CASE q = p
    BY <2>1, <2>2, <2>3
  <2>4. CASE q # p
    BY <1>0, <1>9, <2>1, <2>2, <2>4 DEF ConnsInv
  <2> QED
    BY <2>3, <2>4
<1>10. CASE HostLobby
  BY <1>4, <1>9, <1>10 DEF HostLobby
<1>11. CASE LaunchDone \/ LaunchFails
  BY <1>4, <1>9, <1>11 DEF LaunchDone, LaunchFails
<1>12. ASSUME NEW g \in Guests, GuestIdle(g)
       PROVE  ConnsInv'
  BY <1>0, <1>12 DEF GuestIdle, gameVars, ConnsInv, TypeOK
<1>13. ASSUME NEW g \in Guests, GuestLobby(g)
       PROVE  ConnsInv'
  <2>1. CASE Abort(g)
    BY <1>9, <1>13, <2>1 DEF GuestLobby
  <2>2. CASE ~Abort(g)
    BY <1>0, <1>13, <2>2 DEF GuestLobby, ConnsInv, TypeOK
  <2> QED
    BY <2>1, <2>2
<1>14. ASSUME NEW p \in Players, Configure(p)
       PROVE  ConnsInv'
  BY <1>4, <1>14 DEF Configure, playerVars
<1>15. ASSUME NEW p \in Players, CloseGame(p) \/ ConnTimeout(p)
       PROVE  ConnsInv'
  BY <1>9, <1>15 DEF CloseGame, ConnTimeout
<1>16. ASSUME NEW p \in Players, Disconnect(p)
       PROVE  ConnsInv'
  <2>1. online' = [online EXCEPT ![p] = FALSE]
    BY <1>16 DEF Disconnect
  <2>2. \A q \in Players : online'[q] = online[q] \/ q = p
    BY <1>0, <2>1 DEF TypeOK
  <2>3. CASE Abort(p)
    BY <1>9, <2>2, <2>3
  <2>4. CASE ~Abort(p)
    <3>1. conn[p] \in {"NONE", "ENDED"} /\ UNCHANGED <<conn, conns, closer>>
      BY <1>16, <2>4 DEF Disconnect, Attached
    <3> QED
      BY <1>0, <2>2, <3>1 DEF ConnsInv
  <2> QED
    BY <2>3, <2>4
<1>17. CASE UNCHANGED vars
  BY <1>4, <1>17 DEF vars, gameVars, playerVars
<1> QED
  BY <1>1, <1>2, <1>b, <1>5, <1>6, <1>7, <1>8, <1>10, <1>11, <1>12, <1>13, <1>14,
     <1>15, <1>16, <1>17 DEF Next, StartGame

\* The players are told only when _start_game has failed.
LEMMA ToldStep ==
    ASSUME Inv, [Next]_vars
    PROVE  ToldInv'
<1>0. ToldInv
  BY DEF Inv
<1>1. ASSUME NEW S, Fail(S), ~told
      PROVE  ToldInv'
  BY <1>1 DEF Fail, ToldInv
<1>2. CASE StartGame
  <2>1. ~told
    BY <1>0, <1>2 DEF StartGame, StartError, LaunchHost, LaunchHostFails, HostedInTime,
       HostClosed, HostTimeout, LaunchedInTime, LaunchClosed, LaunchTimeout,
       FinishCancelled, ToldInv
  <2>2. CASE StartError \/ LaunchClosed \/ LaunchTimeout
    BY <1>1, <2>1, <2>2 DEF StartError, LaunchClosed, LaunchTimeout
  <2>3. CASE HostedInTime
    <3>1. TypeOK
      BY DEF Inv
    <3> QED
      BY <1>1, <2>1, <2>3, <3>1, HostedEffect DEF endVars, ToldInv
  <2>4. CASE HostClosed \/ HostTimeout
    <3>1. TypeOK
      BY DEF Inv
    <3> QED
      BY <1>1, <2>1, <2>4, <3>1, LaunchingEffect DEF HostClosed, HostTimeout
  <2>5. CASE LaunchHost \/ LaunchHostFails \/ LaunchedInTime \/ FinishCancelled
    BY <2>1, <2>5 DEF LaunchHost, LaunchHostFails, LaunchedInTime, FinishCancelled,
       endVars, ToldInv
  <2> QED
    BY <1>2, <2>2, <2>3, <2>4, <2>5 DEF StartGame
<1>3. CASE ~StartGame
  <2>1. pc' = pc /\ told' = told
    BY <1>3 DEF Next, HostIdle, HostLobby, Launch, LaunchDone, LaunchFails,
       GameTimeout, GuestIdle, GuestLobby, Configure, CloseGame, Disconnect,
       ConnTimeout, vars, gameVars, playerVars, endVars
  <2> QED
    BY <1>0, <2>1 DEF ToldInv
<1> QED
  BY <1>2, <1>3

-----------------------------------------------------------------------------
(* Theorems *)

\* Inv holds at the start.
LEMMA InvInit == Init => Inv
BY HostIsPlayer DEF Init, Inv, TypeOK, StageInv, GuestsInv, ConnsInv, ToldInv,
   FutureStates, ConnStates

\* Inv is an invariant of the match start.
THEOREM MatchInvariant == Spec => []Inv
<1>1. Inv /\ [Next]_vars => Inv'
  <2> SUFFICES ASSUME Inv, [Next]_vars PROVE Inv'
    OBVIOUS
  <2>1. TypeOK'
    BY TypeStep DEF Inv
  <2> QED
    BY <2>1, StageStep, GuestsStep, ConnsStep, ToldStep DEF Inv
<1> QED
  BY InvInit, <1>1, PTL DEF Spec

\* Every variable of the match start keeps its type, and a future fails with
\* one player only.
THEOREM MatchTypeCorrect == Spec => []TypeOK
<1>1. Inv => TypeOK
  BY DEF Inv
<1> QED
  BY <1>1, MatchInvariant, PTL

\* The assertion of LadderGame.check_game_finish never fails, for any number
\* of guests.
THEOREM HostAssertionHolds == Spec => []OnlyHostBeforeHosted
<1>1. Inv => OnlyHostBeforeHosted
  <2> SUFFICES ASSUME Inv, hosted = "pending", NEW p \in conns
               PROVE  p = Host
    BY DEF OnlyHostBeforeHosted
  <2>1. p \in Players /\ conn[p] = "CONNECTED"
    BY DEF Inv, TypeOK, ConnsInv
  <2>2. p \notin Guests
    BY <2>1 DEF Inv, GuestsInv
  <2> QED
    BY <2>1, <2>2, HostIsPlayer
<1> QED
  BY <1>1, MatchInvariant, PTL

\* A game whose match was cancelled does not go LIVE afterwards: only Launch
\* makes it LIVE, in a LOBBY that was hosted, and a cancelled match has none.
THEOREM CancelledNeverLive == Spec => CancelledStaysDown
<1>1. Inv /\ [Next]_vars => [told /\ gstate # "LIVE" => gstate' # "LIVE"]_vars
  <2> SUFFICES ASSUME Inv, [Next]_vars, told, gstate # "LIVE"
               PROVE  gstate' # "LIVE"
    OBVIOUS
  <2>1. pc = "failed"
    BY DEF Inv, ToldInv
  <2>2. ~StartGame
    BY <2>1 DEF StartGame, StartError, LaunchHost, LaunchHostFails, HostedInTime,
       HostClosed, HostTimeout, LaunchedInTime, LaunchClosed, LaunchTimeout, FinishCancelled
  <2>3. ~Launch
    BY <2>1 DEF Launch, Inv, StageInv
  <2>4. ASSUME NEW p, Abort(p)
        PROVE  gstate' # "LIVE"
    BY <2>4 DEF Abort, RemoveConnection
  <2> QED
    BY <2>2, <2>3, <2>4 DEF Next, HostIdle, HostLobby, LaunchDone, LaunchFails,
       GameTimeout, GuestIdle, GuestLobby, Configure, CloseGame, Disconnect,
       ConnTimeout, vars, gameVars
<1> QED
  BY <1>1, MatchInvariant, PTL DEF Spec, CancelledStaysDown

\* Nobody is blamed for the failure of somebody else: the closer of a future
\* and an offline guest have no connection in the game.
THEOREM BlameJustified == Spec => BlameIsJust
<1> DEFINE Just(p) == /\ p \in Guests => p \notin Connected
                      /\ p = Host => hosted' # "result" \/ Host \notin conns
<1>1. Inv /\ [Next]_vars => [\A p \in abandoning' \ abandoning : Just(p)]_vars
  <2> SUFFICES ASSUME Inv, [Next]_vars, NEW p \in abandoning',
                      p \notin abandoning
               PROVE  Just(p)
    OBVIOUS
  <2> USE HostIsPlayer
  <2>0. TypeOK /\ ConnsInv
    BY DEF Inv
  <2>1. CASE p \in OfflineGuests \/ p \in closer
    <3>1. p \in Players /\ conn[p] # "CONNECTED"
      BY <2>0, <2>1 DEF TypeOK, ConnsInv, OfflineGuests
    <3>2. p \notin conns
      BY <2>0, <3>1 DEF ConnsInv
    <3> QED
      BY <3>2 DEF Connected
  <2>2. ASSUME NEW S, Fail(S)
        PROVE  p \in S
    BY <2>2 DEF Fail
  <2>3. CASE StartError
    BY <2>2, <2>3 DEF StartError
  <2>4. CASE LaunchHost \/ LaunchHostFails
    BY <2>4 DEF LaunchHost, LaunchHostFails, endVars, Inv, StageInv
  <2>5. CASE HostedInTime \/ HostClosed \/ LaunchClosed
    <3>1. CASE HostedInTime
      BY <2>0, <2>1, <2>2, <3>1, HostedEffect DEF endVars
    <3>2. CASE HostClosed
      BY <2>0, <2>1, <2>2, <3>2, LaunchingEffect DEF HostClosed
    <3>3. CASE LaunchClosed
      BY <2>1, <2>2, <3>3 DEF LaunchClosed
    <3> QED
      BY <2>5, <3>1, <3>2, <3>3
  <2>6. CASE HostTimeout
    <3>1. p \in OfflineGuests \/ p = Host
      BY <2>0, <2>2, <2>6, LaunchingEffect DEF HostTimeout
    <3> QED
      BY <2>1, <2>6, <3>1 DEF HostTimeout
  <2>7. CASE LaunchTimeout
    BY <2>2, <2>7 DEF LaunchTimeout
  <2>8. CASE abandoning' = abandoning
    BY <2>8
  <2> QED
    BY <2>3, <2>4, <2>5, <2>6, <2>7, <2>8 DEF Next, StartGame, LaunchedInTime,
       FinishCancelled, HostIdle, HostLobby, Launch, LaunchDone, LaunchFails,
       GameTimeout, GuestIdle, GuestLobby, Configure, CloseGame, Disconnect,
       ConnTimeout, vars, endVars
<1> QED
  BY <1>1, MatchInvariant, PTL DEF Spec, BlameIsJust

-----------------------------------------------------------------------------
(* Violations *)

\* A failure that the service has forgotten is older than the reset time, and
\* one that it remembers it remembers as it was
Remembered(p) ==
    /\ violations[p].count = 0 =>
          \/ failures[p].count = 0
          \/ failures[p].time + ResetTime <= now
    /\ violations[p].count > 0 => violations[p] = failures[p]
    /\ failures[p].time <= now

HistoryInv == \A p \in Searchers : Remembered(p)

\* Cleaning up expired entries
LEMMA WithoutKeeps ==
    ASSUME BansTypeOK, HistoryInv, NEW S \in SUBSET Expired,
           violations' = Without(S), UNCHANGED <<now, failures>>
    PROVE  HistoryInv' /\ violations' \in [Searchers -> Entry]
<1>1. violations' \in [Searchers -> Entry]
  BY DEF BansTypeOK, Without, NoEntry, Entry
<1>2. ASSUME NEW p \in Searchers
      PROVE  Remembered(p)'
  <2>1. CASE p \in S
    <3>1. violations[p].count > 0 /\ violations[p].time + ResetTime <= now
      BY <2>1 DEF Expired, IsExpired
    <3>2. failures[p].time + ResetTime <= now /\ failures[p].time <= now
      BY <3>1 DEF HistoryInv, Remembered
    <3>3. violations'[p].count = 0
      BY <2>1 DEF Without, NoEntry
    <3> QED
      BY <3>2, <3>3 DEF Remembered
  <2>2. CASE p \notin S
    <3>1. violations'[p] = violations[p]
      BY <2>2 DEF Without
    <3>2. Remembered(p)
      BY DEF HistoryInv
    <3> QED
      BY <3>1, <3>2 DEF Remembered
  <2> QED
    BY <2>1, <2>2
<1> QED
  BY <1>1, <1>2, Zenon DEF HistoryInv

\* A registration counts exactly the failures that still count
LEMMA RegisterKeeps ==
    ASSUME ViolationAssumption, BansTypeOK, HistoryInv, NEW S \in SUBSET Searchers,
           RegisterViolations(S)
    PROVE  BansTypeOK' /\ HistoryInv'
<1> DEFINE new(p) == [count |-> IF /\ failures[p].count > 0
                                   /\ now < failures[p].time + ResetTime
                                THEN failures[p].count + 1 ELSE 1,
                      time |-> now]
<1>1. /\ violations' = [p \in Searchers |->
                          IF p \in S THEN Count(violations[p]) ELSE violations[p]]
      /\ failures' = [p \in Searchers |-> IF p \in S THEN new(p) ELSE failures[p]]
      /\ UNCHANGED <<now, accepted, refused>>
  BY DEF RegisterViolations
<1>2. ASSUME NEW p \in Searchers
      PROVE  Count(violations[p]) = new(p) /\ new(p) \in Entry /\ new(p).count > 0
  <2>1. Remembered(p)
    BY DEF HistoryInv
  <2>2. /\ violations[p] \in Entry /\ failures[p] \in Entry
        /\ now \in Nat /\ ResetTime \in Nat \ {0}
    BY DEF BansTypeOK, ViolationAssumption
  <2>3. (violations[p].count = 0 \/ IsExpired(violations[p]))
          <=> ~(failures[p].count > 0 /\ now < failures[p].time + ResetTime)
    BY <2>1, <2>2 DEF Remembered, IsExpired, Entry
  <2>4. violations[p].count # 0 => violations[p].count = failures[p].count
    BY <2>1, <2>2 DEF Remembered, Entry
  <2>5. Count(violations[p]) = new(p)
    BY <2>3, <2>4 DEF Count
  <2>6. new(p) \in Entry /\ new(p).count > 0
    BY <2>2 DEF Entry
  <2> QED
    BY <2>5, <2>6
<1>3. ASSUME NEW p \in Searchers
      PROVE  /\ violations'[p] = IF p \in S THEN new(p) ELSE violations[p]
             /\ failures'[p] = IF p \in S THEN new(p) ELSE failures[p]
  BY <1>1, <1>2
<1>4. BansTypeOK'
  BY <1>1, <1>2 DEF BansTypeOK
<1>5. ASSUME NEW p \in Searchers
      PROVE  Remembered(p)'
  <2>1. Remembered(p) /\ now \in Nat
    BY DEF HistoryInv, BansTypeOK
  <2>2. CASE p \in S
    <3>1. /\ violations'[p] = new(p) /\ failures'[p] = new(p)
          /\ new(p).count \in Nat /\ new(p).count > 0 /\ new(p).time = now
      BY <1>2, <1>3, <2>2 DEF Entry
    <3> QED
      BY <1>1, <2>1, <3>1 DEF Remembered
  <2>3. CASE p \notin S
    BY <1>1, <1>3, <2>1, <2>3 DEF Remembered
  <2> QED
    BY <2>2, <2>3
<1> QED
  BY <1>4, <1>5, Zenon DEF HistoryInv

\* Every step keeps the memory of the service right
LEMMA HistoryStep ==
    ASSUME ViolationAssumption, BansTypeOK, HistoryInv, [BansNext]_banVars
    PROVE  BansTypeOK' /\ HistoryInv'
<1>1. CASE Tick
  <2>1. /\ now' = now + 1 /\ accepted' = {} /\ refused' = {}
        /\ UNCHANGED <<violations, failures>>
    BY <1>1 DEF Tick
  <2>2. BansTypeOK'
    BY <2>1 DEF BansTypeOK
  <2>3. ASSUME NEW p \in Searchers
        PROVE  Remembered(p)'
    BY <2>1 DEF HistoryInv, Remembered, BansTypeOK, ViolationAssumption, Entry
  <2> QED
    BY <2>2, <2>3, Zenon DEF HistoryInv
<1>2. CASE ClearExpired
  BY <1>2, WithoutKeeps DEF ClearExpired, BansTypeOK
<1>3. ASSUME NEW S \in SUBSET Searchers, RegisterViolations(S)
      PROVE  BansTypeOK' /\ HistoryInv'
  BY <1>3, RegisterKeeps
<1>4. ASSUME NEW S \in Parties, GetViolations(S)
      PROVE  BansTypeOK' /\ HistoryInv'
  <2>1. /\ violations' = Without((S \ Banned(S)) \cap Expired)
        /\ accepted' \in {accepted, accepted \cup {S}}
        /\ refused' \in {refused, refused \cup {S}}
        /\ UNCHANGED <<now, failures>>
    BY <1>4, Zenon DEF GetViolations
  <2> QED
    BY <2>1, WithoutKeeps DEF BansTypeOK
<1>5. CASE UNCHANGED banVars
  <2>1. BansTypeOK'
    BY <1>5 DEF banVars, BansTypeOK
  <2>2. HistoryInv'
    BY <1>5 DEF banVars, HistoryInv, Remembered
  <2> QED
    BY <2>1, <2>2
<1> QED
  BY <1>1, <1>2, <1>3, <1>4, <1>5, Zenon DEF BansNext

\* What the service returns for a party are the players whose own failures ban
\* them now
LEMMA BannedIsJust ==
    ASSUME ViolationAssumption, BansTypeOK, HistoryInv, NEW S \in Parties
    PROVE  Banned(S) = {p \in S : IsBanned(p)}
<1>1. SUFFICES ASSUME NEW p \in S
               PROVE  violations[p].count > 0 /\ BanExpiration(violations[p]) > now
                         <=> IsBanned(p)
  BY Zenon DEF Banned
<1>2. p \in Searchers
  BY DEF ViolationAssumption
<1>3. Remembered(p)
  BY <1>2 DEF HistoryInv
<1>4. /\ violations[p] \in Entry /\ failures[p] \in Entry /\ now \in Nat
      /\ Threshold \in Nat \ {0} /\ FirstBan \in Nat /\ LongBan \in Nat
      /\ ResetTime \in Nat /\ FirstBan <= ResetTime /\ LongBan <= ResetTime
  BY <1>2 DEF BansTypeOK, ViolationAssumption
<1>5. CASE violations[p].count = 0
  BY <1>3, <1>4, <1>5 DEF Remembered, IsBanned, Entry
<1>6. CASE violations[p].count > 0
  <2>1. violations[p] = failures[p] /\ failures[p].time <= now
    BY <1>3, <1>6 DEF Remembered
  <2> QED
    BY <1>4, <1>6, <2>1 DEF BanExpiration, IsBanned, Entry
<1> QED
  BY <1>4, <1>5, <1>6 DEF Entry

\* A party is let into a queue exactly when none of its players serves a ban,
\* for every threshold and every duration up to the reset time: the history of
\* failures that BansAreServed is about is never cleaned up
THEOREM BansServed ==
    ASSUME ViolationAssumption
    PROVE  BansSpec => BansAreServed
<1> DEFINE Just == /\ \A S \in accepted' \ accepted : ~\E p \in S : IsBanned(p)
                   /\ \A S \in refused' \ refused : \E p \in S : IsBanned(p)
<1>1. BansInit => BansTypeOK /\ HistoryInv
  BY DEF BansInit, BansTypeOK, HistoryInv, Remembered, NoEntry, Entry
<1>2. BansTypeOK /\ HistoryInv /\ [BansNext]_banVars => BansTypeOK' /\ HistoryInv'
  BY HistoryStep
<1>3. ASSUME BansTypeOK, HistoryInv, [BansNext]_banVars
      PROVE  [Just]_banVars
  <2>1. CASE UNCHANGED banVars
    BY <2>1
  <2>2. CASE Tick \/ ClearExpired \/ \E S \in SUBSET Searchers : RegisterViolations(S)
    <3>1. accepted' \subseteq accepted /\ refused' \subseteq refused
      BY <2>2, Zenon DEF Tick, ClearExpired, RegisterViolations
    <3> QED
      BY <3>1
  <2>3. ASSUME NEW S \in Parties, GetViolations(S)
        PROVE  Just
    <3>1. Banned(S) = {p \in S : IsBanned(p)}
      BY <1>3, BannedIsJust
    <3>2. CASE Banned(S) = {}
      <4>1. accepted' = accepted \cup {S} /\ refused' = refused
        BY <2>3, <3>2, Zenon DEF GetViolations
      <4>2. ~\E p \in S : IsBanned(p)
        BY <3>1, <3>2
      <4> QED
        BY <4>1, <4>2
    <3>3. CASE Banned(S) # {}
      <4>1. refused' = refused \cup {S} /\ accepted' = accepted
        BY <2>3, <3>3, Zenon DEF GetViolations
      <4>2. \E p \in S : IsBanned(p)
        BY <3>1, <3>3
      <4> QED
        BY <4>1, <4>2
    <3> QED
      BY <3>2, <3>3
  <2> QED
    BY <1>3, <2>1, <2>2, <2>3, Zenon DEF BansNext
<1> QED
  BY <1>1, <1>2, <1>3, PTL DEF BansSpec, BansAreServed

-----------------------------------------------------------------------------
(* Holding the vetoes to the limits *)

\* What update_data can read for a pool
PoolConfigs ==
    {c \in [maps : Seq(Maps), tokens : Nat, max : Nat, min : Nat] :
        IsInjective(c.maps)}

\* The tokens v on the maps of a pool are within the limit of its players
Within(d, v) ==
    /\ v \in [Maps -> Nat]
    /\ SumOf(v, ToSet(d.maps)) <= d.tokens

\* A pool has as many maps as its sequence says
LEMMA PoolMaps ==
    ASSUME NEW c \in PoolConfigs
    PROVE  /\ ToSet(c.maps) \subseteq Maps
           /\ IsFiniteSet(ToSet(c.maps))
           /\ Cardinality(ToSet(c.maps)) = NumMaps(c)
           /\ NumMaps(c) \in Nat
<1>1. /\ c.maps \in Seq(Maps) /\ NumMaps(c) \in Nat
      /\ DOMAIN c.maps = 1..NumMaps(c)
  BY DEF PoolConfigs, NumMaps
<1>2. ToSet(c.maps) \subseteq Maps
  BY <1>1 DEF ToSet
<1>3. c.maps \in Bijection(1..NumMaps(c), ToSet(c.maps))
  <2>1. c.maps \in [1..NumMaps(c) -> ToSet(c.maps)]
    BY <1>1 DEF ToSet
  <2>2. \A t \in ToSet(c.maps) : \E i \in 1..NumMaps(c) : c.maps[i] = t
    BY <1>1 DEF ToSet
  <2> QED
    BY <1>1, <2>1, <2>2 DEF PoolConfigs, Bijection, Injection, Surjection, IsInjective
<1>4. /\ IsFiniteSet(1..NumMaps(c))
      /\ Cardinality(1..NumMaps(c)) = NumMaps(c)
  BY <1>1, FS_Interval
<1>5. ExistsBijection(1..NumMaps(c), ToSet(c.maps))
  BY <1>3 DEF ExistsBijection
<1> QED
  BY <1>1, <1>2, <1>4, <1>5, FS_Bijection

\* Without vetoes no tokens are used
LEMMA NoTokens ==
    ASSUME NEW d \in PoolConfigs
    PROVE  /\ NoVetoes \in [Maps -> Nat]
           /\ SumOf(NoVetoes, ToSet(d.maps)) = 0
           /\ Within(d, NoVetoes)
<1> DEFINE M == ToSet(d.maps)
<1>1. NoVetoes \in [Maps -> Nat] /\ \A m \in M : NoVetoes[m] = 0
  BY PoolMaps DEF NoVetoes
<1>2. IsFiniteSet(M) /\ \A m \in M : NoVetoes[m] \in Int
  BY <1>1, PoolMaps
<1>3. SumOf(NoVetoes, M) \in Int /\ Cardinality(M) \in Int
  BY <1>2, SumInteger, FS_CardinalityType
<1>4. \A m \in M : NoVetoes[m] = 0 * NoVetoes[m] + 0 * NoVetoes[m] + 0
  BY <1>1
<1>5. d.tokens \in Nat
  BY DEF PoolConfigs
<1> HIDE DEF M
<1>6. SumOf(NoVetoes, M)
        = 0 * SumOf(NoVetoes, M) + 0 * SumOf(NoVetoes, M) + 0 * Cardinality(M)
  BY <1>2, <1>4, SumLinear, SMT
<1>7. SumOf(NoVetoes, M) = 0
  BY <1>3, <1>6
<1> QED
  BY <1>1, <1>5, <1>7 DEF M, Within

\* What has been given to the maps so far: the function _cap_tokens is folded
\* over the pool with it
Given(d) ==
    {a \in [sum : Nat, cap : [Maps -> Nat]] :
        a.sum <= d.tokens /\ SumOf(a.cap, ToSet(d.maps)) <= a.sum}

\* One map more
Give(d, v, a, m) ==
    LET n == Min({v[m], d.tokens - a.sum} \cup (IF d.max > 0 THEN {d.max} ELSE {}))
    IN  [sum |-> a.sum + n, cap |-> [a.cap EXCEPT ![m] = n]]

\* The tokens given stay within the limit, map by map
LEMMA GiveKeeps ==
    ASSUME NEW d \in PoolConfigs, NEW v \in [Maps -> Nat],
           NEW a \in Given(d), NEW m \in ToSet(d.maps)
    PROVE  Give(d, v, a, m) \in Given(d)
<1> DEFINE U == IF d.max > 0 THEN {d.max} ELSE {}
           n == Min({v[m], d.tokens - a.sum} \cup U)
           M == ToSet(d.maps)
           new == [a.cap EXCEPT ![m] = n]
<1>1. /\ d.tokens \in Nat /\ d.max \in Nat
      /\ M \subseteq Maps /\ IsFiniteSet(M) /\ m \in M
  BY PoolMaps DEF PoolConfigs
<1>2. /\ a \in [sum : Nat, cap : [Maps -> Nat]]
      /\ a.sum <= d.tokens
      /\ SumOf(a.cap, M) <= a.sum
  BY DEF Given
<1>3. a.sum \in Nat /\ a.cap \in [Maps -> Nat] /\ v[m] \in Nat
  BY <1>1, <1>2
<1>4. n \in Nat /\ n <= d.tokens - a.sum
  <2>1. d.tokens - a.sum \in Nat
    BY <1>1, <1>2, <1>3
  <2>2. U = {} \/ \E k \in Nat : U = {k}
    BY <1>1
  <2> HIDE DEF U
  <2> QED
    BY <1>3, <2>1, <2>2, LeastOfThree
<1>5. Give(d, v, a, m) = [sum |-> a.sum + n, cap |-> new]
  BY DEF Give
<1> HIDE DEF n, M
<1>6. new \in [Maps -> Nat] /\ new[m] = n /\ \A x \in Maps \ {m} : new[x] = a.cap[x]
  BY <1>1, <1>3, <1>4
<1> HIDE DEF new
<1>7. SumOf(new, M) = SumOf(a.cap, M) - a.cap[m] + n
  <2>1. \A x \in M : a.cap[x] \in Int /\ new[x] \in Int
    BY <1>1, <1>3, <1>6
  <2>2. \A x \in M \ {m} : new[x] = a.cap[x]
    BY <1>1, <1>6
  <2> DEFINE old == a.cap
  <2>3. /\ \A x \in M : old[x] \in Int /\ new[x] \in Int
        /\ \A x \in M \ {m} : new[x] = old[x]
    BY <2>1, <2>2
  <2> HIDE DEF old
  <2>4. SumOf(new, M) = SumOf(old, M) - old[m] + new[m]
    BY <1>1, <2>3, SumChanged, SMT
  <2> QED
    BY <1>6, <2>4 DEF old
<1>8. SumOf(a.cap, M) \in Int
  <2>1. \A x \in M : a.cap[x] \in Int
    BY <1>1, <1>3
  <2> QED
    BY <1>1, <2>1, SumInteger
<1>9. a.cap[m] \in Nat
  BY <1>1, <1>3
<1>10. /\ a.sum + n \in Nat
       /\ a.sum + n <= d.tokens
       /\ SumOf(new, M) <= a.sum + n
  BY <1>1, <1>2, <1>3, <1>4, <1>7, <1>8, <1>9
<1> DEFINE b == [sum |-> a.sum + n, cap |-> new]
<1>11. b \in [sum : Nat, cap : [Maps -> Nat]] /\ b.sum = a.sum + n /\ b.cap = new
  BY <1>6, <1>10
<1> HIDE DEF b
<1>12. b \in Given(d)
  BY <1>10, <1>11 DEF Given, M
<1> QED
  BY <1>5, <1>12 DEF b

\* Whatever a player wished, what _adjust_vetoes leaves him is within the limits
LEMMA CapWithin ==
    ASSUME NEW d \in PoolConfigs, NEW v \in [Maps -> Nat]
    PROVE  Within(d, Cap(d, v))
<1> DEFINE N == NumMaps(d)
           I == 1..N
           base == [sum |-> 0, cap |-> NoVetoes]
           G == [x \in Given(d) \X I |-> Give(d, v, x[1], d.maps[x[2]])]
           c == [s \in SUBSET I |-> Max(s)]
           P(f) == f = [s \in SUBSET I |->
                          IF s = {} THEN base
                          ELSE Give(d, v, f[s \ {Max(s)}], d.maps[Max(s)])]
<1>1. /\ d.maps \in Seq(Maps) /\ N \in Nat /\ DOMAIN d.maps = I
      /\ \A i \in I : d.maps[i] \in ToSet(d.maps)
      /\ d.tokens \in Nat
  BY DEF PoolConfigs, NumMaps, ToSet
<1>2. IsFiniteSet(I)
  BY <1>1, FS_Interval
<1>3. \A s \in SUBSET I : s # {} => Max(s) \in s
  <2> SUFFICES ASSUME NEW s \in SUBSET I, s # {}
               PROVE  \E x \in s : \A y \in s : x >= y
    BY DEF Max
  <2> DEFINE T == {N - x : x \in s}
  <2>1. s \in SUBSET Nat /\ \A x \in s : x <= N
    BY <1>1
  <2> HIDE DEF N, I
  <2>2. T \in SUBSET Nat /\ T # {}
    <3>1. N \in Nat
      BY <1>1
    <3>2. \A x \in s : N - x \in Nat
      BY <2>1, <3>1
    <3> QED
      BY <3>2
  <2>3. PICK t \in T : \A u \in T : t <= u
    <3> HIDE DEF T
    <3> QED
      BY <2>2, LeastNat
  <2>4. PICK x \in s : t = N - x
    OBVIOUS
  <2>5. \A y \in s : N - x <= N - y
    BY <2>3, <2>4
  <2> QED
    BY <1>1, <2>1, <2>5
<1>4. Cap(d, v) = (CHOOSE f : P(f))[I].cap
  <2>1. Cap(d, v) = FoldLeft(LAMBDA a, m : Give(d, v, a, m), base, d.maps).cap
    BY DEF Cap, Give
  <2> QED
    BY <1>1, <2>1 DEF FoldLeft, MapThenFoldSet
<1>5. base \in Given(d)
  <2>1. NoVetoes \in [Maps -> Nat] /\ SumOf(NoVetoes, ToSet(d.maps)) = 0
    BY NoTokens
  <2>2. base.sum = 0 /\ base.cap = NoVetoes /\ base \in [sum : Nat, cap : [Maps -> Nat]]
    BY <2>1
  <2> HIDE DEF base
  <2> QED
    BY <1>1, <2>1, <2>2 DEF Given
<1>6. \A a \in Given(d), i \in I : /\ Give(d, v, a, d.maps[i]) \in Given(d)
                                   /\ G[<<a, i>>] = Give(d, v, a, d.maps[i])
  BY <1>1, GiveKeeps
<1>7. PICK f : Folding(f, base, G, c, SUBSET I)
  <2>1. Chooses(c, I)
    BY <1>3 DEF Chooses
  <2> HIDE DEF I, c, G, base
  <2> QED
    BY <1>2, <2>1, FoldExists
<1>8. \A s \in SUBSET I : f[s] = IF s = {} THEN base
                                 ELSE G[<<f[s \ {Max(s)}], Max(s)>>]
  BY <1>7 DEF Folding
<1>9. \A s \in SUBSET I : f[s] \in Given(d)
  <2> DEFINE T == {s \in SUBSET I : f[s] \in Given(d)}
  <2>1. {} \in T
    BY <1>5, <1>8
  <2>2. ASSUME NEW s \in SUBSET I, s # {}, \A x \in s : s \ {x} \in T
        PROVE  s \in T
    <3>1. Max(s) \in s /\ Max(s) \in I
      BY <1>3, <2>2
    <3>2. f[s \ {Max(s)}] \in Given(d)
      BY <2>2, <3>1
    <3> HIDE DEF G, I
    <3>3. f[s] = G[<<f[s \ {Max(s)}], Max(s)>>]
      BY <1>8, <2>2
    <3>4. G[<<f[s \ {Max(s)}], Max(s)>>] \in Given(d)
      BY <1>6, <3>1, <3>2
    <3> QED
      BY <3>3, <3>4
  <2>3. SUBSET I \subseteq T
    <3> HIDE DEF T, I
    <3> QED
      BY <1>2, <2>1, <2>2, AllSubsets
  <2> QED
    BY <2>3
<1>10. P(f)
  <2>1. ASSUME NEW s \in SUBSET I, s # {}
        PROVE  f[s] = Give(d, v, f[s \ {Max(s)}], d.maps[Max(s)])
    <3>1. Max(s) \in I /\ s \ {Max(s)} \in SUBSET I
      BY <1>3, <2>1
    <3> HIDE DEF G, I
    <3> QED
      BY <1>6, <1>8, <1>9, <2>1, <3>1
  <2>2. f = [s \in SUBSET I |-> f[s]]
    BY <1>7 DEF Folding
  <2> HIDE DEF I, base, G, c
  <2> QED
    BY <1>8, <2>1, <2>2
<1>11. PICK g : P(g) /\ Cap(d, v) = g[I].cap
  <2> HIDE DEF P
  <2> QED
    BY <1>4, <1>10
<1>12. \A s \in SUBSET I : g[s] \in Given(d)
  <2> DEFINE T == {s \in SUBSET I : g[s] \in Given(d)}
  <2>1. {} \in T
    <3>1. g[{}] = base
      BY <1>11
    <3> HIDE DEF base
    <3> QED
      BY <1>5, <3>1
  <2>2. ASSUME NEW s \in SUBSET I, s # {}, \A x \in s : s \ {x} \in T
        PROVE  s \in T
    <3>1. Max(s) \in s /\ Max(s) \in I
      BY <1>3, <2>2
    <3>2. g[s \ {Max(s)}] \in Given(d)
      BY <2>2, <3>1
    <3>3. g[s] = Give(d, v, g[s \ {Max(s)}], d.maps[Max(s)])
      BY <1>11, <2>2
    <3> HIDE DEF G, I
    <3>4. g[s] \in Given(d)
      BY <1>6, <3>1, <3>2, <3>3
    <3> QED
      BY <3>4
  <2>3. SUBSET I \subseteq T
    <3> HIDE DEF T, I
    <3> QED
      BY <1>2, <2>1, <2>2, AllSubsets
  <2> QED
    BY <2>3
<1>13. g[I] \in Given(d)
  BY <1>12
<1> DEFINE w == g[I].cap
<1>14. /\ w \in [Maps -> Nat]
       /\ g[I].sum \in Nat
       /\ g[I].sum <= d.tokens
       /\ SumOf(w, ToSet(d.maps)) <= g[I].sum
  <2> HIDE DEF I
  <2> QED
    BY <1>13 DEF Given
<1> HIDE DEF w
<1>15. SumOf(w, ToSet(d.maps)) \in Int
  <2>1. \A m \in ToSet(d.maps) : w[m] \in Int
    BY <1>14, PoolMaps
  <2> QED
    BY <2>1, PoolMaps, SumInteger
<1>16. SumOf(w, ToSet(d.maps)) <= d.tokens
  <2> HIDE DEF I
  <2> QED
    BY <1>1, <1>14, <1>15
<1>17. Cap(d, v) = w
  BY <1>11 DEF w
<1> QED
  BY <1>14, <1>16, <1>17 DEF Within

-----------------------------------------------------------------------------
(* The weights of the maps *)

\* The weights when V tokens were used and T[1] / T[2] of them take a map out
WeightsOf(V, T) ==
    IF T[1] = 0 THEN [of |-> [m \in DOMAIN V |-> 1], one |-> 1]
    ELSE [of |-> [m \in DOMAIN V |-> Max({0, T[1] - V[m] * T[2]})], one |-> T[1]]

\* No weight is negative
LEMMA NotNegative ==
    ASSUME NEW x \in Int
    PROVE  Max({0, x}) = IF x > 0 THEN x ELSE 0
<1> DEFINE y == IF x > 0 THEN x ELSE 0
<1>1. y \in {0, x} /\ \A z \in {0, x} : y >= z
  OBVIOUS
<1>2. \A w \in {0, x} : (\A z \in {0, x} : w >= z) => w = y
  OBVIOUS
<1> HIDE DEF y
<1>3. Max({0, x}) = y
  BY <1>1, <1>2 DEF Max
<1> QED
  BY <1>3 DEF y

\* With a fixed number of tokens per map, so few tokens leave enough weight
LEMMA FixedWeights ==
    ASSUME NEW M, IsFiniteSet(M), NEW V \in [M -> Nat], NEW max \in Nat \ {0},
           NEW min \in Nat, SumOf(V, M) <= (Cardinality(M) - min) * max
    PROVE  LET W == WeightsOf(V, <<max, 1>>)
           IN  /\ W.of \in [M -> Nat] /\ W.one = max
               /\ SumOf(W.of, M) >= min * max
<1> DEFINE F == [m \in M |-> Max({0, max - V[m] * 1})]
           L == [m \in M |-> max - V[m]]
           n == Cardinality(M)
<1>1. WeightsOf(V, <<max, 1>>) = [of |-> F, one |-> max]
  BY DEF WeightsOf
<1>2. \A m \in M : F[m] \in Nat /\ L[m] \in Int /\ L[m] <= F[m] /\ V[m] \in Int
  <2> SUFFICES ASSUME NEW m \in M
               PROVE  F[m] \in Nat /\ L[m] \in Int /\ L[m] <= F[m]
    OBVIOUS
  <2>1. max - V[m] * 1 \in Int /\ max - V[m] * 1 = max - V[m]
    OBVIOUS
  <2>2. F[m] = Max({0, max - V[m] * 1}) /\ L[m] = max - V[m]
    OBVIOUS
  <2> HIDE DEF F, L
  <2>3. F[m] = IF max - V[m] * 1 > 0 THEN max - V[m] * 1 ELSE 0
    BY <2>1, <2>2, NotNegative
  <2> QED
    BY <2>1, <2>2, <2>3
<1>3. \A m \in M : L[m] = (-1) * V[m] + 0 * V[m] + max
  OBVIOUS
<1>4. F \in [M -> Nat]
  BY <1>2
<1> HIDE DEF F, L
<1>5. SumOf(L, M) = (-1) * SumOf(V, M) + 0 * SumOf(V, M) + max * n
  BY <1>2, <1>3, SumLinear, SMT
<1>6. SumOf(L, M) <= SumOf(F, M)
  <2>1. \A m \in M : L[m] \in Int /\ F[m] \in Int /\ L[m] <= F[m]
    BY <1>2
  <2> QED
    BY <2>1, SumMonotone
<1>7. SumOf(V, M) \in Int /\ SumOf(F, M) \in Int /\ SumOf(L, M) \in Int /\ n \in Int
  <2>1. \A m \in M : L[m] \in Int /\ F[m] \in Int
    BY <1>2
  <2> QED
    BY <1>2, <2>1, SumInteger, FS_CardinalityType
<1> HIDE DEF n
<1>8. SumOf(V, M) <= (n - min) * max
  BY DEF n
<1>9. (n - min) * max = max * n - min * max
  BY <1>7
<1>10. SumOf(L, M) = max * n - SumOf(V, M)
  BY <1>5, <1>7
<1>11. SumOf(F, M) >= min * max
  BY <1>6, <1>7, <1>8, <1>9, <1>10
<1> QED
  BY <1>1, <1>4, <1>11

\* Among the tokens on the maps there is a largest number
LEMMA MostTokens ==
    ASSUME NEW M, IsFiniteSet(M), M # {}, NEW V \in [M -> Nat]
    PROVE  \E t \in M : \A m \in M : V[m] <= V[t]
<1> DEFINE X == {SumOf(V, M) - V[m] : m \in M}
<1>1. SumOf(V, M) \in Nat /\ \A m \in M : V[m] <= SumOf(V, M)
  BY SumOfNaturals
<1>2. X \in SUBSET Nat /\ X # {}
  <2>1. \A m \in M : SumOf(V, M) - V[m] \in Nat
    BY <1>1
  <2> QED
    BY <2>1
<1>3. PICK x \in X : \A y \in X : x <= y
  <2> HIDE DEF X
  <2> QED
    BY <1>2, LeastNat
<1>4. PICK t \in M : x = SumOf(V, M) - V[t]
  OBVIOUS
<1>5. \A m \in M : SumOf(V, M) - V[t] <= SumOf(V, M) - V[m]
  BY <1>3, <1>4
<1> QED
  BY <1>1, <1>5

\* The maps with at most v tokens, those with fewer, and the tokens on the first
AtMost(V, v) == {m \in DOMAIN V : V[m] <= v}
Fewer(V, v) == {m \in DOMAIN V : V[m] < v}
TokensUpTo(V, v) == MapThenSumSet(LAMBDA m : V[m], AtMost(V, v))

\* What solved, Free and Solved of DynamicTokens say
FreeAt(V, min, v) == TokensUpTo(V, v) = 0 /\ Cardinality(AtMost(V, v)) >= min
SolvedAt(V, min, v) ==
    /\ Cardinality(AtMost(V, v)) > min
    /\ CandidateFits(TokensUpTo(V, v), Cardinality(AtMost(V, v)) - min,
                     {V[m] : m \in DOMAIN V \ AtMost(V, v)})
Candidates(V, min) ==
    {v \in {V[m] : m \in DOMAIN V} : FreeAt(V, min, v) \/ SolvedAt(V, min, v)}

\* DynamicTokens, in these terms
LEMMA DynamicCases ==
    ASSUME NEW V, NEW min
    PROVE  LET v1 == Min(Candidates(V, min))
           IN  DynamicTokens(V, min) =
                 CASE Candidates(V, min) = {} -> <<0, 1>>
                   [] Candidates(V, min) # {} /\ FreeAt(V, min, v1) -> <<1, 1>>
                   [] OTHER -> <<TokensUpTo(V, v1),
                                 Cardinality(AtMost(V, v1)) - min>>
BY DEF DynamicTokens, AtMost, TokensUpTo, Candidates, FreeAt, SolvedAt

\* Products grow with their factors
LEMMA Product ==
    ASSUME NEW a \in Int, NEW b \in Int, NEW c \in Nat, a <= b
    PROVE  a * c <= b * c
OBVIOUS

\* Counting maps and tokens up to a number
LEMMA UpTo ==
    ASSUME NEW M, IsFiniteSet(M), NEW V \in [M -> Nat], NEW v
    PROVE  /\ AtMost(V, v) \subseteq M /\ IsFiniteSet(AtMost(V, v))
           /\ TokensUpTo(V, v) = SumOf(V, AtMost(V, v))
           /\ TokensUpTo(V, v) \in Nat
           /\ Cardinality(AtMost(V, v)) \in Nat
           /\ Cardinality(AtMost(V, v)) <= Cardinality(M)
<1> DEFINE A == AtMost(V, v)
<1>1. A \subseteq M
  BY DEF AtMost
<1>2. IsFiniteSet(A) /\ Cardinality(A) <= Cardinality(M) /\ Cardinality(A) \in Nat
  BY <1>1, FS_Subset, FS_CardinalityType
<1>3. TokensUpTo(V, v) = SumOf(V, A)
  BY FoldIsSum DEF TokensUpTo
<1>4. \A m \in A : V[m] \in Nat
  BY <1>1
<1> HIDE DEF A
<1>5. SumOf(V, A) \in Nat
  BY <1>2, <1>4, SumOfNaturals
<1> QED
  BY <1>1, <1>2, <1>3, <1>5 DEF A

\* Below the first solution the maps have so many tokens that its numerator
\* covers the maps up to it: none of them gets a negative weight
LEMMA FirstSolution ==
    ASSUME NEW M, IsFiniteSet(M), NEW V \in [M -> Nat], NEW min \in Nat,
           NEW v \in {V[m] : m \in M},
           \A w \in {V[m] : m \in M} : w < v => ~SolvedAt(V, min, w)
    PROVE  v * (Cardinality(AtMost(V, v)) - min) <= TokensUpTo(V, v)
<1> DEFINE A == AtMost(V, v)
           L == Fewer(V, v)
           E == {m \in M : V[m] = v}
           a == Cardinality(A)
           l == Cardinality(L)
           e == Cardinality(E)
<1>1. /\ A = L \cup E /\ L \cap E = {} /\ L \subseteq M /\ E \subseteq M
      /\ \A m \in L : V[m] \in Nat /\ V[m] < v
      /\ \A m \in E : V[m] = v
      /\ v \in Nat
  BY DEF AtMost, Fewer
<1>2. /\ IsFiniteSet(L) /\ IsFiniteSet(E)
      /\ l \in Nat /\ e \in Nat
  BY <1>1, FS_Subset, FS_CardinalityType
<1>3. a = l + e
  <2>1. Cardinality(L \cup E) = Cardinality(L) + Cardinality(E) - Cardinality(L \cap E)
    BY <1>2, FS_Union
  <2>2. Cardinality(L \cap E) = 0
    BY <1>1, FS_EmptySet
  <2> HIDE DEF A, L, E
  <2> QED
    BY <1>1, <1>2, <2>1, <2>2
<1>4. TokensUpTo(V, v) = SumOf(V, A)
  BY UpTo
<1> HIDE DEF A, L, E, a, l, e
<1>5. SumOf(V, A) = SumOf(V, L) + SumOf(V, E)
  <2>1. \A m \in L \cup E : V[m] \in Int
    BY <1>1
  <2> QED
    BY <1>1, <1>2, <2>1, SumUnion
<1>6. SumOf(V, L) \in Nat
  BY <1>1, <1>2, SumOfNaturals
<1>7. SumOf(V, E) = v * e
  <2>1. \A m \in E : V[m] \in Int
    BY <1>1
  <2>2. \A m \in E : V[m] = 0 * V[m] + 0 * V[m] + v
    BY <1>1
  <2>3. SumOf(V, E) = 0 * SumOf(V, E) + 0 * SumOf(V, E) + v * Cardinality(E)
    BY <1>1, <1>2, <2>1, <2>2, SumLinear, SMT
  <2>4. SumOf(V, E) \in Int
    BY <1>2, <2>1, SumInteger
  <2>5. SumOf(V, E) = 0 + 0 + v * e
    BY <2>3, <2>4 DEF e
  <2> QED
    BY <1>1, <1>2, <2>5
<1>8. v * (l - min) <= SumOf(V, L)
  <2>1. CASE l <= min
    <3>1. (l - min) * v <= 0 * v
      BY <1>1, <1>2, <2>1, Product
    <3> QED
      BY <1>1, <1>2, <1>6, <3>1
  <2>2. CASE l > min
    <3>1. L # {}
      BY <1>2, <2>2, FS_EmptySet DEF l
    <3> DEFINE VL == [m \in L |-> V[m]]
    <3>2. VL \in [L -> Nat]
      BY <1>1
    <3>3. PICK t \in L : \A m \in L : VL[m] <= VL[t]
      <4> HIDE DEF VL
      <4> QED
        BY <1>2, <3>1, <3>2, MostTokens
    <3> DEFINE w == V[t]
    <3>4. AtMost(V, w) = L
      BY <1>1, <3>3 DEF AtMost, L, Fewer
    <3>5. w \in {V[m] : m \in M} /\ w < v /\ w \in Nat
      BY <1>1
    <3>6. ~SolvedAt(V, min, w)
      BY <3>5
    <3>7. TokensUpTo(V, w) = SumOf(V, L)
      BY <3>4, UpTo
    <3> HIDE DEF w
    <3>8. PICK u \in {V[m] : m \in DOMAIN V \ L} : ~(SumOf(V, L) <= u * (l - min))
      BY <2>2, <3>4, <3>6, <3>7 DEF SolvedAt, CandidateFits, l
    <3>9. u \in Nat /\ v <= u
      BY <1>1, <3>8 DEF L, Fewer
    <3>10. v * (l - min) <= u * (l - min)
      BY <1>1, <1>2, <2>2, <3>9, Product
    <3>11. u * (l - min) \in Int /\ v * (l - min) \in Int
      BY <1>1, <1>2, <3>9
    <3> QED
      BY <1>6, <3>8, <3>10, <3>11
  <2> QED
    BY <1>2, <2>1, <2>2
<1>9. v * (a - min) = v * (l - min) + v * e
  BY <1>1, <1>2, <1>3
<1>10. v * (l - min) \in Int /\ v * e \in Int
  BY <1>1, <1>2
<1>11. v * (a - min) <= TokensUpTo(V, v)
  BY <1>4, <1>5, <1>6, <1>7, <1>8, <1>9, <1>10
<1> QED
  BY <1>11 DEF a, A

\* The least of some naturals
LEMMA LeastOfSome ==
    ASSUME NEW X \in SUBSET Nat, X # {}
    PROVE  Min(X) \in X /\ \A y \in X : Min(X) <= y
BY LeastNat DEF Min

\* When all candidates fail, no map can be spared
LEMMA NoSolution ==
    ASSUME NEW M, IsFiniteSet(M), NEW V \in [M -> Nat], NEW min \in Nat,
           min <= Cardinality(M), Candidates(V, min) = {}
    PROVE  Cardinality(M) = min
<1> SUFFICES ASSUME Cardinality(M) > min PROVE FALSE
  BY FS_CardinalityType
<1>1. M # {}
  BY FS_EmptySet
<1>2. PICK t \in M : \A m \in M : V[m] <= V[t]
  BY <1>1, MostTokens
<1>3. AtMost(V, V[t]) = M
  BY <1>2 DEF AtMost
<1>4. CandidateFits(TokensUpTo(V, V[t]), Cardinality(M) - min, {})
  BY DEF CandidateFits
<1>5. {V[m] : m \in DOMAIN V \ M} = {}
  OBVIOUS
<1>6. SolvedAt(V, min, V[t])
  BY <1>3, <1>4, <1>5 DEF SolvedAt
<1> QED
  BY <1>6 DEF Candidates

\* With the number of tokens per map computed for the match, the weights sum up
\* to the maps that must remain, or to more when so many have no tokens
LEMMA DynamicWeights ==
    ASSUME NEW M, IsFiniteSet(M), NEW V \in [M -> Nat], NEW min \in Nat,
           min <= Cardinality(M)
    PROVE  LET W == WeightsOf(V, DynamicTokens(V, min))
           IN  /\ W.of \in [M -> Nat] /\ W.one \in Nat \ {0}
               /\ SumOf(W.of, M) >= min * W.one
               /\ Cardinality({m \in M : V[m] = 0}) < min
                    => SumOf(W.of, M) = min * W.one
<1> DEFINE Fine(W) == /\ W.of \in [M -> Nat] /\ W.one \in Nat \ {0}
                      /\ SumOf(W.of, M) >= min * W.one
                      /\ Cardinality({m \in M : V[m] = 0}) < min
                           => SumOf(W.of, M) = min * W.one
           T == DynamicTokens(V, min)
           v1 == Min(Candidates(V, min))
           A == AtMost(V, v1)
           s == TokensUpTo(V, v1)
           k == Cardinality(A) - min
<1>1. CASE Candidates(V, min) = {}
  <2> DEFINE F == [m \in M |-> 1]
  <2>1. T = <<0, 1>>
    BY <1>1, DynamicCases
  <2>2. WeightsOf(V, T) = [of |-> F, one |-> 1]
    BY <2>1 DEF WeightsOf
  <2>3. F \in [M -> Nat] /\ \A m \in M : F[m] = 0 * F[m] + 0 * F[m] + 1 /\ F[m] \in Int
    OBVIOUS
  <2> HIDE DEF F
  <2>4. SumOf(F, M) = 0 * SumOf(F, M) + 0 * SumOf(F, M) + 1 * Cardinality(M)
    BY <2>3, SumLinear, SMT
  <2>5. SumOf(F, M) \in Int /\ Cardinality(M) \in Int
    BY <2>3, SumInteger, FS_CardinalityType
  <2>6. SumOf(F, M) = min
    BY <1>1, <2>4, <2>5, NoSolution
  <2>7. Fine([of |-> F, one |-> 1])
    BY <2>3, <2>6
  <2> HIDE DEF Fine, T
  <2>8. Fine(WeightsOf(V, T))
    BY <2>2, <2>7
  <2> QED
    BY <2>8 DEF Fine, T
<1>2. CASE Candidates(V, min) # {}
  <2>1. Candidates(V, min) \in SUBSET Nat
    BY DEF Candidates
  <2>2. /\ v1 \in Candidates(V, min) /\ v1 \in Nat
        /\ \A w \in Candidates(V, min) : v1 <= w
    BY <1>2, <2>1, LeastOfSome
  <2>3. /\ A \subseteq M /\ IsFiniteSet(A) /\ IsFiniteSet(M \ A)
        /\ s = SumOf(V, A) /\ s \in Nat
        /\ Cardinality(A) \in Nat
    BY UpTo, FS_Subset
  <2>4. \A m \in A : V[m] <= v1
    BY DEF AtMost
  <2>5. \A m \in A : V[m] \in Nat
    BY <2>3
  <2>6. ASSUME NEW F \in [M -> Nat]
        PROVE  /\ SumOf(F, M) = SumOf(F, A) + SumOf(F, M \ A)
               /\ SumOf(F, A) \in Int
               /\ SumOf(F, M \ A) \in Nat
    <3> HIDE DEF A
    <3>1. A \cup (M \ A) = M /\ A \cap (M \ A) = {}
      BY <2>3
    <3>2. \A m \in A \cup (M \ A) : F[m] \in Int
      BY <3>1
    <3>3. SumOf(F, A \cup (M \ A)) = SumOf(F, A) + SumOf(F, M \ A)
      BY <2>3, <3>1, <3>2, SumUnion
    <3>4. SumOf(F, A) \in Int
      BY <2>3, <3>2, SumInteger
    <3>5. SumOf(F, M \ A) \in Nat
      <4>1. \A m \in M \ A : F[m] \in Nat
        OBVIOUS
      <4> QED
        BY <2>3, <4>1, SumOfNaturals
    <3> QED
      BY <3>1, <3>3, <3>4, <3>5
  <2>7. CASE FreeAt(V, min, v1)
    <3> DEFINE F == [m \in M |-> Max({0, 1 - V[m] * 1})]
               Z == {m \in M : V[m] = 0}
    <3>1. T = <<1, 1>>
      BY <1>2, <2>7, DynamicCases
    <3>2. WeightsOf(V, T) = [of |-> F, one |-> 1]
      BY <3>1 DEF WeightsOf
    <3>3. \A m \in M : F[m] = IF V[m] = 0 THEN 1 ELSE 0
      <4> SUFFICES ASSUME NEW m \in M
                   PROVE  F[m] = IF V[m] = 0 THEN 1 ELSE 0
        OBVIOUS
      <4>1. F[m] = Max({0, 1 - V[m] * 1}) /\ 1 - V[m] * 1 \in Int
        OBVIOUS
      <4> HIDE DEF F
      <4>2. F[m] = IF 1 - V[m] * 1 > 0 THEN 1 - V[m] * 1 ELSE 0
        BY <4>1, NotNegative
      <4> QED
        BY <4>2
    <3>4. F \in [M -> Nat]
      <4>1. \A m \in M : F[m] \in Nat
        BY <3>3
      <4> QED
        BY <4>1
    <3>5. s = 0 /\ Cardinality(A) >= min
      BY <2>7 DEF FreeAt
    <3>6. \A m \in A : V[m] = 0
      <4> HIDE DEF A
      <4>1. \A m \in A : V[m] <= SumOf(V, A)
        BY <2>3, <2>5, SumOfNaturals
      <4> QED
        BY <2>3, <2>5, <3>5, <4>1
    <3>7. Cardinality(Z) >= min
      <4>1. A \subseteq Z /\ IsFiniteSet(Z)
        BY <2>3, <3>6, FS_Subset
      <4>2. Cardinality(A) <= Cardinality(Z) /\ Cardinality(Z) \in Nat
        BY <4>1, FS_Subset, FS_CardinalityType
      <4> HIDE DEF A, Z
      <4> QED
        BY <2>3, <3>5, <4>2
    <3> HIDE DEF F, A
    <3>8. SumOf(F, A) = Cardinality(A)
      <4>1. \A m \in A : F[m] \in Int /\ F[m] = 0 * F[m] + 0 * F[m] + 1
        BY <2>3, <3>3, <3>6
      <4>2. SumOf(F, A) = 0 * SumOf(F, A) + 0 * SumOf(F, A) + 1 * Cardinality(A)
        BY <2>3, <4>1, SumLinear, SMT
      <4>3. SumOf(F, A) \in Int
        BY <2>3, <4>1, SumInteger
      <4> QED
        BY <2>3, <4>2, <4>3
    <3>9. SumOf(F, M) = Cardinality(A) + SumOf(F, M \ A) /\ SumOf(F, M \ A) \in Nat
      BY <2>6, <3>4, <3>8
    <3>10. SumOf(F, M) >= min * 1
      BY <2>3, <3>5, <3>9
    <3>11. ~(Cardinality({m \in M : V[m] = 0}) < min)
      <4>1. Cardinality(Z) \in Nat
        BY FS_Subset, FS_CardinalityType
      <4> HIDE DEF Z
      <4>2. ~(Cardinality(Z) < min)
        BY <3>7, <4>1
      <4> QED
        BY <4>2 DEF Z
    <3>12. Fine([of |-> F, one |-> 1])
      BY <3>4, <3>10, <3>11
    <3> HIDE DEF Fine, T
    <3>13. Fine(WeightsOf(V, T))
      BY <3>2, <3>12
    <3> QED
      BY <3>13 DEF Fine, T
  <2>8. CASE ~FreeAt(V, min, v1)
    <3> DEFINE F == [m \in M |-> Max({0, s - V[m] * k})]
    <3>1. T = <<s, k>>
      BY <1>2, <2>8, DynamicCases
    <3>2. SolvedAt(V, min, v1) /\ v1 \in {V[m] : m \in M}
      BY <2>2, <2>8 DEF Candidates
    <3>3. /\ Cardinality(A) > min
          /\ \A m \in M \ A : s <= V[m] * k
      BY <3>2 DEF SolvedAt, CandidateFits
    <3>4. k \in Nat \ {0} /\ Cardinality(A) = min + k
      BY <2>3, <3>3
    <3>5. s \in Nat \ {0}
      <4>1. Cardinality(A) >= min
        BY <2>3, <3>3
      <4>2. s # 0
        BY <2>8, <4>1 DEF FreeAt
      <4> QED
        BY <2>3, <4>2
    <3>6. v1 * k <= s
      <4>1. \A w \in {V[m] : m \in M} : w < v1 => ~SolvedAt(V, min, w)
        <5> SUFFICES ASSUME NEW w \in {V[m] : m \in M}, w < v1, SolvedAt(V, min, w)
                     PROVE  FALSE
          OBVIOUS
        <5>1. w \in Candidates(V, min) /\ w \in Nat
          BY DEF Candidates
        <5>2. v1 <= w
          BY <2>2, <5>1
        <5> HIDE DEF v1
        <5> QED
          BY <2>2, <5>1, <5>2
      <4> QED
        BY <3>2, <4>1, FirstSolution
    <3>7. WeightsOf(V, T) = [of |-> F, one |-> s]
      <4> HIDE DEF s, k
      <4> QED
        BY <3>1, <3>5 DEF WeightsOf
    <3>8. \A m \in M : F[m] = Max({0, s - V[m] * k})
      OBVIOUS
    <3> HIDE DEF F, A, s, k, v1
    <3>9. \A m \in M : F[m] = IF s - V[m] * k > 0 THEN s - V[m] * k ELSE 0
      <4> SUFFICES ASSUME NEW m \in M
                   PROVE  F[m] = IF s - V[m] * k > 0 THEN s - V[m] * k ELSE 0
        OBVIOUS
      <4>1. s - V[m] * k \in Int
        BY <3>4, <3>5
      <4> QED
        BY <3>8, <4>1, NotNegative
    <3>10. F \in [M -> Nat]
      <4>1. \A m \in M : F[m] \in Nat
        <5> SUFFICES ASSUME NEW m \in M
                     PROVE  F[m] \in Nat
          OBVIOUS
        <5>1. s - V[m] * k \in Int
          BY <3>4, <3>5
        <5> QED
          BY <3>9, <5>1
      <4> QED
        BY <4>1 DEF F
    <3>11. \A m \in M \ A : F[m] = 0
      <4> SUFFICES ASSUME NEW m \in M \ A
                   PROVE  F[m] = 0
        OBVIOUS
      <4>1. s <= V[m] * k /\ V[m] * k \in Int
        BY <3>3, <3>4
      <4> QED
        BY <3>5, <3>9, <4>1
    <3>12. \A m \in A : F[m] = (-k) * V[m] + 0 * V[m] + s
      <4> SUFFICES ASSUME NEW m \in A
                   PROVE  F[m] = (-k) * V[m] + 0 * V[m] + s
        OBVIOUS
      <4>1. m \in M /\ V[m] \in Nat /\ V[m] <= v1 /\ v1 \in Nat
        BY <2>2, <2>3, <2>4
      <4>2. V[m] * k <= v1 * k
        BY <3>4, <4>1, Product
      <4>3. V[m] * k \in Int /\ v1 * k \in Int /\ s \in Int
        BY <3>4, <3>5, <4>1
      <4>4. s - V[m] * k >= 0
        BY <3>6, <4>2, <4>3
      <4>5. F[m] = s - V[m] * k
        BY <3>9, <4>1, <4>3, <4>4
      <4> QED
        BY <3>4, <4>1, <4>3, <4>5
    <3>13. SumOf(F, A) = (-k) * SumOf(V, A) + 0 * SumOf(V, A) + s * Cardinality(A)
      <4>1. \A m \in A : V[m] \in Int
        BY <2>5
      <4>2. -k \in Int /\ s \in Int
        BY <3>4, <3>5
      <4> QED
        BY <2>3, <3>12, <4>1, <4>2, SumLinear, SMT
    <3>14. SumOf(F, A) = min * s
      <4>1. SumOf(F, A) = (-k) * s + 0 + s * (min + k)
        BY <2>3, <3>4, <3>5, <3>13
      <4>2. (-k) * s + 0 + s * (min + k) = min * s
        BY <3>4, <3>5
      <4> QED
        BY <4>1, <4>2
    <3>15. SumOf(F, M \ A) = 0
      <4>1. \A m \in M \ A : F[m] \in Int /\ F[m] = 0 * F[m] + 0 * F[m] + 0
        BY <3>11
      <4>2. SumOf(F, M \ A)
              = 0 * SumOf(F, M \ A) + 0 * SumOf(F, M \ A) + 0 * Cardinality(M \ A)
        BY <2>3, <4>1, SumLinear, SMT
      <4>3. SumOf(F, M \ A) \in Int /\ Cardinality(M \ A) \in Int
        BY <2>3, <4>1, SumInteger, FS_CardinalityType
      <4> QED
        BY <4>2, <4>3
    <3>16. SumOf(F, M) = min * s
      BY <2>6, <3>10, <3>14, <3>15
    <3>17. SumOf(F, M) >= min * s
      <4>1. min * s \in Int
        BY <3>5
      <4> QED
        BY <3>16, <4>1
    <3>18. Fine([of |-> F, one |-> s])
      BY <3>5, <3>10, <3>16, <3>17
    <3> HIDE DEF Fine, T
    <3>19. Fine(WeightsOf(V, T))
      BY <3>7, <3>18
    <3> QED
      BY <3>19 DEF Fine, T
  <2> QED
    BY <2>7, <2>8
<1> QED
  BY <1>1, <1>2

-----------------------------------------------------------------------------
(* The invariant *)

\* The vetoes of all players keep to the limits that are in force, which are
\* those of the pools unless update_data is under way
VetoInv ==
    /\ pools \in [Brackets -> PoolConfigs]
    /\ fetched \in [Brackets -> PoolConfigs]
    /\ vetoData \in [Brackets -> PoolConfigs]
    /\ vetoes \in [Vetoers -> [Brackets -> [Maps -> Nat]]]
    /\ \A p \in Vetoers, q \in Brackets : Within(vetoData[q], vetoes[p][q])

\* The configurations of the database are pool configurations
LEMMA ConfigsOfPools ==
    ASSUME VetoAssumption, NEW q \in Brackets, NEW c \in Configs[q]
    PROVE  c \in PoolConfigs
BY DEF VetoAssumption, PoolConfigs

\* The limits of pools are pool configurations
LEMMA VetoDataType ==
    ASSUME NEW pp \in [Brackets -> PoolConfigs]
    PROVE  VetoDataOf(pp) \in [Brackets -> PoolConfigs]
<1> SUFFICES ASSUME NEW q \in Brackets
             PROVE  VetoDataOf(pp)[q] \in PoolConfigs
  BY DEF VetoDataOf
<1> DEFINE c == pp[q]
           d == [c EXCEPT !.tokens = 0, !.max = 1, !.min = 1]
<1>1. c \in PoolConfigs
  OBVIOUS
<1>2. VetoDataOf(pp)[q] = IF IsValid(c) THEN c ELSE d
  BY DEF VetoDataOf
<1>3. d \in PoolConfigs
  <2> HIDE DEF c
  <2>1. /\ d \in [maps : Seq(Maps), tokens : Nat, max : Nat, min : Nat]
        /\ d.maps = c.maps
    BY <1>1 DEF PoolConfigs
  <2> HIDE DEF d
  <2> QED
    BY <1>1, <2>1 DEF PoolConfigs
<1> QED
  BY <1>1, <1>2, <1>3

\* Adjusted vetoes keep to the limits
LEMMA AdjustWithin ==
    ASSUME NEW data \in [Brackets -> PoolConfigs],
           NEW v \in [Brackets -> [Maps -> Nat]]
    PROVE  /\ Adjust(data, v) \in [Brackets -> [Maps -> Nat]]
           /\ \A q \in Brackets : Within(data[q], Adjust(data, v)[q])
<1>1. ASSUME NEW q \in Brackets
      PROVE  Within(data[q], Cap(data[q], v[q]))
  BY CapWithin
<1>2. \A q \in Brackets : Cap(data[q], v[q]) \in [Maps -> Nat]
  BY <1>1 DEF Within
<1> QED
  BY <1>1, <1>2 DEF Adjust

\* The vetoes of every player stay within the limits in force, through changed
\* limits and whatever he wishes (set_player_vetoes, update_pools_veto_config)
THEOREM LimitsKept ==
    ASSUME VetoAssumption
    PROVE  VetoSpec => []VetoInv
<1>1. VetoInit => VetoInv
  <2> SUFFICES ASSUME VetoInit
               PROVE  VetoInv
    OBVIOUS
  <2>1. pools \in [Brackets -> PoolConfigs]
    <3>1. \A q \in Brackets : pools[q] \in PoolConfigs
      BY ConfigsOfPools DEF VetoInit
    <3>2. pools = [q \in Brackets |-> pools[q]]
      BY DEF VetoInit
    <3> QED
      BY <3>1, <3>2
  <2>2. fetched \in [Brackets -> PoolConfigs] /\ vetoData \in [Brackets -> PoolConfigs]
    BY <2>1, VetoDataType DEF VetoInit
  <2>3. NoVetoes \in [Maps -> Nat]
    BY DEF NoVetoes
  <2>4. ASSUME NEW d \in PoolConfigs
        PROVE  Within(d, NoVetoes)
    BY NoTokens
  <2>5. \A p \in Vetoers, q \in Brackets : vetoes[p][q] = NoVetoes
    BY DEF VetoInit
  <2>6. vetoes \in [Vetoers -> [Brackets -> [Maps -> Nat]]]
    BY <2>3 DEF VetoInit
  <2> QED
    BY <2>1, <2>2, <2>4, <2>5, <2>6 DEF VetoInv
<1>2. VetoInv /\ [VetoNext]_vetoVars => VetoInv'
  <2> SUFFICES ASSUME VetoInv, [VetoNext]_vetoVars
               PROVE  VetoInv'
    OBVIOUS
  <2>1. CASE Fetch
    <3>1. fetched' \in [Brackets -> PoolConfigs]
      <4>1. PICK q \in Brackets, c \in PoolConfigs : fetched' = [pools EXCEPT ![q] = c]
        BY <2>1, ConfigsOfPools DEF Fetch
      <4> QED
        BY <4>1 DEF VetoInv
    <3> QED
      BY <2>1, <3>1 DEF Fetch, VetoInv
  <2>2. CASE UpdateQueue
    <3>1. pools' \in [Brackets -> PoolConfigs] /\ fetched' = fetched
      <4>1. pools' = [pools EXCEPT ![next] = fetched[next]] /\ fetched' = fetched
        BY <2>2 DEF UpdateQueue
      <4>2. CASE next \in Brackets
        BY <4>1, <4>2 DEF VetoInv
      <4>3. CASE next \notin Brackets
        BY <4>1, <4>3 DEF VetoInv
      <4> QED
        BY <4>1, <4>2, <4>3
    <3>2. CASE UNCHANGED <<vetoData, vetoes>>
      BY <3>1, <3>2 DEF VetoInv
    <3>3. CASE ~ UNCHANGED <<vetoData, vetoes>>
      <4> DEFINE data == VetoDataOf(pools')
                 new == [p \in Vetoers |-> Adjust(data, vetoes[p])]
      <4>1. vetoData' = data /\ vetoes' = new
        BY <2>2, <3>3 DEF UpdateQueue, UpdateVetoConfig
      <4>2. data \in [Brackets -> PoolConfigs]
        BY <3>1, VetoDataType
      <4> HIDE DEF data
      <4>3. \A p \in Vetoers : /\ new[p] \in [Brackets -> [Maps -> Nat]]
                               /\ \A q \in Brackets : Within(data[q], new[p][q])
        BY <4>2, AdjustWithin DEF VetoInv
      <4> QED
        BY <3>1, <4>1, <4>2, <4>3 DEF VetoInv
    <3> QED
      BY <3>2, <3>3
  <2>3. ASSUME NEW p \in Vetoers, SetVetoes(p)
        PROVE  VetoInv'
    <3>1. PICK q \in Brackets, v \in Wishes :
            vetoes' = [vetoes EXCEPT
                         ![p] = Adjust(vetoData, [vetoes[p] EXCEPT ![q] = v])]
      BY <2>3 DEF SetVetoes
    <3> DEFINE wish == [vetoes[p] EXCEPT ![q] = v]
    <3>2. wish \in [Brackets -> [Maps -> Nat]]
      <4>1. v \in [Maps -> Nat]
        BY DEF VetoAssumption
      <4> QED
        BY <4>1 DEF VetoInv
    <3> HIDE DEF wish
    <3>3. /\ Adjust(vetoData, wish) \in [Brackets -> [Maps -> Nat]]
          /\ \A k \in Brackets : Within(vetoData[k], Adjust(vetoData, wish)[k])
      BY <3>2, AdjustWithin DEF VetoInv
    <3>4. /\ vetoes' \in [Vetoers -> [Brackets -> [Maps -> Nat]]]
          /\ vetoes'[p] = Adjust(vetoData, wish)
          /\ \A x \in Vetoers \ {p} : vetoes'[x] = vetoes[x]
      BY <3>1, <3>3 DEF VetoInv, wish
    <3>5. UNCHANGED <<pools, vetoData, fetched>>
      BY <2>3 DEF SetVetoes, updateVars
    <3> QED
      BY <3>3, <3>4, <3>5 DEF VetoInv
  <2>4. CASE \/ \E p \in Vetoers, q \in Brackets : StartSearch(p, q)
             \/ \E S \in Sides, q \in Brackets : StartMatch(S, q)
             \/ UNCHANGED vetoVars
    <3>1. UNCHANGED <<pools, vetoData, fetched, vetoes>>
      BY <2>4 DEF StartSearch, StartMatch, vetoVars, updateVars
    <3> QED
      BY <3>1 DEF VetoInv
  <2> QED
    BY <2>1, <2>2, <2>3, <2>4 DEF VetoNext
<1> QED
  BY <1>1, <1>2, PTL DEF VetoSpec

-----------------------------------------------------------------------------
(* The map of a match *)

\* The tokens on a map are summed over the players
LEMMA TokensAreSum ==
    ASSUME VetoAssumption, NEW S \in SUBSET Vetoers, NEW q, NEW m
    PROVE  Tokens(S, q, m) = SumOf([p \in S |-> vetoes[p][q][m]], S)
<1> DEFINE F == [p \in S |-> vetoes[p][q][m]]
           P(f) == f = [s \in SUBSET S |->
                          IF s = {} THEN 0
                          ELSE vetoes[First(s)][q][m] + f[s \ {First(s)}]]
<1>1. IsFiniteSet(S)
  BY FS_Subset DEF VetoAssumption
<1>2. Tokens(S, q, m) = (CHOOSE f : P(f))[S]
  BY DEF Tokens, MapThenSumSet, MapThenFoldSet, First
<1>3. \A s \in SUBSET S : s # {} => F[First(s)] = vetoes[First(s)][q][m]
  BY DEF First
<1>4. PICK f : Partial(f, F, SUBSET S)
  BY <1>1, PartialExists
<1>5. P(f)
  BY <1>3, <1>4 DEF Partial
<1>6. PICK g : P(g) /\ Tokens(S, q, m) = g[S]
  <2> HIDE DEF P
  <2> QED
    BY <1>2, <1>5
<1>7. Partial(g, F, SUBSET S)
  BY <1>3, <1>6 DEF Partial
<1> HIDE DEF F
<1>8. SumOf(F, S) = g[S]
  BY <1>1, <1>7, SumIs, SMT
<1> QED
  BY <1>6, <1>8 DEF F

\* Unless limits are outdated, the tokens of the players of a match are within
\* what the pool allows all of them, and there are none in a pool that is set
\* up wrongly
LEMMA PoolTokens ==
    ASSUME VetoAssumption, VetoInv, ~Outdated, NEW S \in Sides, NEW q \in Brackets
    PROVE  LET c == pools[q]
               M == ToSet(c.maps)
               V == [m \in M |-> Tokens(S, q, m)]
           IN  /\ V \in [M -> Nat]
               /\ IsValid(c) => SumOf(V, M) <= c.tokens * (2 * PlayersPerTeam)
               /\ ~IsValid(c) => \A m \in M : V[m] = 0
<1> DEFINE c == pools[q]
           d == vetoData[q]
           M == ToSet(c.maps)
           V == [m \in M |-> Tokens(S, q, m)]
           A == [p \in S |-> vetoes[p][q]]
<1>1. /\ c \in PoolConfigs /\ d \in PoolConfigs
      /\ \A p \in Vetoers : /\ vetoes[p][q] \in [Maps -> Nat]
                            /\ Within(d, vetoes[p][q])
  BY DEF VetoInv
<1>2. d = IF IsValid(c) THEN c ELSE [c EXCEPT !.tokens = 0, !.max = 1, !.min = 1]
  BY DEF Outdated, VetoDataOf
<1>3. d.maps = c.maps /\ (IsValid(c) => d.tokens = c.tokens)
      /\ (~IsValid(c) => d.tokens = 0) /\ d.tokens \in Nat
  <2> HIDE DEF c, d
  <2> QED
    BY <1>1, <1>2 DEF PoolConfigs
<1>4. M \subseteq Maps /\ IsFiniteSet(M)
  BY <1>1, PoolMaps
<1>5. S \in SUBSET Vetoers /\ Cardinality(S) = 2 * PlayersPerTeam /\ IsFiniteSet(S)
  BY FS_Subset DEF Sides, VetoAssumption
<1>6. \A m \in M : V[m] = SumOf([p \in S |-> vetoes[p][q][m]], S)
  BY <1>5, TokensAreSum
<1>7. \A p \in S : A[p] = vetoes[p][q]
  OBVIOUS
<1> HIDE DEF A, M, V, c, d
<1>8. \A p \in S : \A m \in M : A[p][m] \in Nat
  BY <1>1, <1>4, <1>5, <1>7
<1>9. \A p \in S : SumOf(A[p], M) <= d.tokens
  <2>1. ToSet(d.maps) = M
    BY <1>3 DEF M
  <2> QED
    BY <1>1, <1>5, <1>7, <2>1 DEF Within
<1>10. ASSUME NEW m \in M
       PROVE  V[m] = SumOf([p \in S |-> A[p][m]], S) /\ V[m] \in Nat
  <2> DEFINE F == [p \in S |-> A[p][m]]
  <2>1. F = [p \in S |-> vetoes[p][q][m]]
    BY <1>7
  <2>2. \A p \in S : F[p] \in Nat
    BY <1>8
  <2> HIDE DEF F
  <2>3. V[m] = SumOf(F, S)
    BY <1>6, <2>1
  <2>4. SumOf(F, S) \in Nat
    BY <1>5, <2>2, SumOfNaturals
  <2> QED
    BY <2>3, <2>4 DEF F
<1>11. V \in [M -> Nat]
  <2>1. \A m \in M : V[m] \in Nat
    BY <1>10
  <2>2. V = [m \in M |-> V[m]]
    BY DEF V
  <2> QED
    BY <2>1, <2>2
<1>12. SumOf(V, M) <= d.tokens * (2 * PlayersPerTeam)
  <2>1. \A p \in S : \A m \in M : A[p][m] \in Int
    BY <1>8
  <2>2. ColumnSums(V, A, S, M)
    BY <1>10, Zenon DEF ColumnSums
  <2>3. SumOf(V, M) <= d.tokens * Cardinality(S)
    <3>1. d.tokens \in Int
      BY <1>3
    <3> QED
      BY <1>4, <1>5, <1>9, <2>1, <2>2, <3>1, SumByColumns
  <2> QED
    BY <1>5, <2>3
<1>13. ASSUME ~IsValid(c), NEW m \in M
       PROVE  V[m] = 0
  <2>1. d.tokens * (2 * PlayersPerTeam) = 0
    BY <1>3, <1>13 DEF VetoAssumption
  <2>2. V[m] <= SumOf(V, M) /\ SumOf(V, M) \in Nat /\ V[m] \in Nat
    BY <1>4, <1>11, SumOfNaturals
  <2> QED
    BY <1>12, <2>1, <2>2
<1>14. IsValid(c) => SumOf(V, M) <= c.tokens * (2 * PlayersPerTeam)
  BY <1>3, <1>12
<1> QED
  BY <1>11, <1>13, <1>14 DEF c, M, V

\* What a pool promises is kept by the weights
LEMMA PromiseKept ==
    ASSUME VetoAssumption, VetoInv, ~Outdated, NEW S \in Sides, NEW q \in Brackets,
           IsValid(pools[q])
    PROVE  LET c == pools[q]
               M == ToSet(c.maps)
               W == Weights(S, q)
               free == {m \in M : Tokens(S, q, m) = 0}
           IN  /\ W.of \in [M -> Nat]
               /\ W.one \in Nat \ {0}
               /\ SumOf(W.of, M) >= c.min * W.one
               /\ c.max = 0 /\ Cardinality(free) < c.min
                    => SumOf(W.of, M) = c.min * W.one
<1> DEFINE c == pools[q]
           M == ToSet(c.maps)
           V == [m \in M |-> Tokens(S, q, m)]
           T == IF c.max = 0 THEN DynamicTokens(V, c.min) ELSE <<c.max, 1>>
           W == Weights(S, q)
           free == {m \in M : Tokens(S, q, m) = 0}
           Kept(w) == /\ w.of \in [M -> Nat]
                      /\ w.one \in Nat \ {0}
                      /\ SumOf(w.of, M) >= c.min * w.one
                      /\ c.max = 0 /\ Cardinality(free) < c.min
                           => SumOf(w.of, M) = c.min * w.one
<1>1. W = WeightsOf(V, T)
  BY DEF Weights, WeightsOf
<1>2. c \in PoolConfigs /\ c.tokens \in Nat /\ c.max \in Nat /\ c.min \in Nat
  BY DEF VetoInv, PoolConfigs
<1>3. IsFiniteSet(M) /\ Cardinality(M) = NumMaps(c) /\ NumMaps(c) \in Nat
  BY <1>2, PoolMaps
<1>4. V \in [M -> Nat] /\ SumOf(V, M) <= c.tokens * (2 * PlayersPerTeam)
  BY PoolTokens
<1>5. /\ c.min <= Cardinality(M)
      /\ c.max # 0 => 2 * PlayersPerTeam * c.tokens <= (Cardinality(M) - c.min) * c.max
  BY <1>3 DEF IsValid
<1>6. free = {m \in M : V[m] = 0}
  OBVIOUS
<1> HIDE DEF c, M, V, W, free
<1>7. CASE c.max = 0
  <2>1. T = DynamicTokens(V, c.min)
    BY <1>7
  <2>2. Kept(WeightsOf(V, DynamicTokens(V, c.min)))
    <3> HIDE DEF T
    <3> QED
      BY <1>2, <1>3, <1>4, <1>5, <1>6, DynamicWeights
  <2>3. Kept(W)
    <3> HIDE DEF Kept, T
    <3> QED
      BY <1>1, <2>1, <2>2
  <2> QED
    BY <2>3 DEF W, M, c, free
<1>8. CASE c.max # 0
  <2>1. T = <<c.max, 1>> /\ c.max \in Nat \ {0}
    BY <1>2, <1>8
  <2>2. SumOf(V, M) <= (Cardinality(M) - c.min) * c.max
    <3>1. SumOf(V, M) \in Nat
      BY <1>3, <1>4, SumOfNaturals
    <3>2. c.tokens * (2 * PlayersPerTeam) = 2 * PlayersPerTeam * c.tokens
      BY <1>2 DEF VetoAssumption
    <3>3. 2 * PlayersPerTeam * c.tokens \in Int /\ (Cardinality(M) - c.min) * c.max \in Int
      BY <1>2, <1>3 DEF VetoAssumption
    <3>4. 2 * PlayersPerTeam * c.tokens <= (Cardinality(M) - c.min) * c.max
      BY <1>5, <1>8
    <3> QED
      BY <1>4, <3>1, <3>2, <3>3, <3>4
  <2> DEFINE X == WeightsOf(V, <<c.max, 1>>)
  <2>3. /\ X.of \in [M -> Nat] /\ X.one = c.max
        /\ SumOf(X.of, M) >= c.min * c.max
    BY <1>2, <1>3, <1>4, <2>1, <2>2, FixedWeights
  <2> HIDE DEF X
  <2>4. Kept(X)
    BY <1>8, <2>1, <2>3
  <2>5. W = X
    <3> HIDE DEF T
    <3> QED
      BY <1>1, <2>1 DEF X
  <2>6. Kept(W)
    <3> HIDE DEF Kept
    <3> QED
      BY <2>4, <2>5
  <2> QED
    BY <2>6 DEF W, M, c, free
<1> QED
  BY <1>7, <1>8

\* Whatever is in the database and whatever the players wish, while the limits
\* are those of the pools the tokens of the players of a match leave the number
\* of maps that _is_valid_veto_config guarantees (MinimumMapsRemain)
THEOREM PromisedMapsRemain ==
    ASSUME VetoAssumption
    PROVE  VetoSpec => []MinimumMapsRemain
<1>1. VetoInv => MinimumMapsRemain
  <2> SUFFICES ASSUME VetoInv, ~Outdated, NEW S \in Sides, NEW q \in Brackets,
                      IsValid(pools[q])
               PROVE  LET c == pools[q]
                          W == Weights(S, q)
                          free == {m \in ToSet(c.maps) : Tokens(S, q, m) = 0}
                      IN  /\ WeightSum(W) >= c.min * W.one
                          /\ c.max = 0 /\ Cardinality(free) < c.min
                                => WeightSum(W) = c.min * W.one
    BY DEF MinimumMapsRemain
  <2> DEFINE M == ToSet(pools[q].maps)
             W == Weights(S, q)
  <2>1. W.of \in [M -> Nat]
    BY PromiseKept
  <2>2. DOMAIN W.of = M
    BY <2>1
  <2>3. WeightSum(W) = SumOf(W.of, M)
    <3> HIDE DEF W, M
    <3>1. WeightSum(W) = SumOf(W.of, DOMAIN W.of)
      BY FoldIsSum DEF WeightSum
    <3> QED
      BY <2>2, <3>1
  <2> QED
    BY <2>3, PromiseKept
<1> QED
  BY <1>1, LimitsKept, PTL

\* The dynamic number of tokens is a fraction
LEMMA DynamicIsFraction ==
    ASSUME NEW M, IsFiniteSet(M), NEW V \in [M -> Nat], NEW min \in Nat
    PROVE  \E a \in Nat, b \in Int : DynamicTokens(V, min) = <<a, b>>
<1> DEFINE v1 == Min(Candidates(V, min))
<1>1. DynamicTokens(V, min) =
         CASE Candidates(V, min) = {} -> <<0, 1>>
           [] Candidates(V, min) # {} /\ FreeAt(V, min, v1) -> <<1, 1>>
           [] OTHER -> <<TokensUpTo(V, v1), Cardinality(AtMost(V, v1)) - min>>
  BY DynamicCases
<1>2. TokensUpTo(V, v1) \in Nat /\ Cardinality(AtMost(V, v1)) - min \in Int
  BY UpTo
<1> HIDE DEF v1
<1> QED
  BY <1>1, <1>2

\* A map without tokens has weight, and one whose tokens are below the limit of
\* a map
LEMMA KeepsWeight ==
    ASSUME NEW M, IsFiniteSet(M), NEW V \in [M -> Nat],
           NEW min \in Nat, NEW max \in Nat, NEW x \in M, V[x] = 0 \/ V[x] < max
    PROVE  LET T == IF max = 0 THEN DynamicTokens(V, min) ELSE <<max, 1>>
           IN  WeightsOf(V, T).of[x] > 0
<1> DEFINE T == IF max = 0 THEN DynamicTokens(V, min) ELSE <<max, 1>>
<1>1. ASSUME NEW a \in Nat, NEW b, a # 0, a - V[x] * b \in Int, a - V[x] * b > 0
      PROVE  WeightsOf(V, <<a, b>>).of[x] > 0
  <2>1. WeightsOf(V, <<a, b>>).of = [m \in M |-> Max({0, a - V[m] * b})]
    BY <1>1 DEF WeightsOf
  <2>2. WeightsOf(V, <<a, b>>).of[x] = Max({0, a - V[x] * b})
    BY <2>1
  <2>3. Max({0, a - V[x] * b}) = a - V[x] * b
    BY <1>1, NotNegative
  <2> QED
    BY <1>1, <2>2, <2>3
<1>2. ASSUME NEW b
      PROVE  WeightsOf(V, <<0, b>>).of[x] > 0
  BY DEF WeightsOf
<1>3. CASE max # 0
  <2>1. max \in Nat /\ max # 0 /\ T = <<max, 1>>
    BY <1>3
  <2>2. max - V[x] * 1 \in Int /\ max - V[x] * 1 > 0
    BY <2>1
  <2> HIDE DEF T
  <2>3. WeightsOf(V, T).of[x] > 0
    BY <1>1, <2>1, <2>2
  <2> QED
    BY <2>3 DEF T
<1>4. CASE max = 0
  <2>1. V[x] = 0 /\ T = DynamicTokens(V, min)
    BY <1>4
  <2>2. \E a \in Nat, b \in Int : T = <<a, b>>
    BY <2>1, DynamicIsFraction
  <2>3. PICK a \in Nat, b \in Int : T = <<a, b>>
    BY <2>2
  <2> HIDE DEF T
  <2>4. a - V[x] * b = a
    BY <2>1
  <2>5. WeightsOf(V, T).of[x] > 0
    BY <1>1, <1>2, <2>3, <2>4
  <2> QED
    BY <2>5 DEF T
<1> QED
  BY <1>3, <1>4

\* No weight is negative
LEMMA WeightsAreNat ==
    ASSUME NEW M, IsFiniteSet(M), NEW V \in [M -> Nat],
           NEW min \in Nat, NEW max \in Nat
    PROVE  LET T == IF max = 0 THEN DynamicTokens(V, min) ELSE <<max, 1>>
           IN  WeightsOf(V, T).of \in [M -> Nat]
<1> DEFINE T == IF max = 0 THEN DynamicTokens(V, min) ELSE <<max, 1>>
<1>1. \E a \in Nat, b \in Int : T = <<a, b>>
  BY DynamicIsFraction
<1>2. PICK a \in Nat, b \in Int : T = <<a, b>>
  BY <1>1
<1> HIDE DEF T
<1>3. WeightsOf(V, T).of = [m \in M |-> IF a = 0 THEN 1 ELSE Max({0, a - V[m] * b})]
  BY <1>2 DEF WeightsOf
<1>4. \A m \in M : Max({0, a - V[m] * b}) \in Nat
  <2> SUFFICES ASSUME NEW m \in M
               PROVE  Max({0, a - V[m] * b}) \in Nat
    OBVIOUS
  <2>1. a - V[m] * b \in Int
    OBVIOUS
  <2> QED
    BY <2>1, NotNegative
<1>5. WeightsOf(V, T).of \in [M -> Nat]
  BY <1>3, <1>4
<1> QED
  BY <1>5 DEF T

\* Avoiding repetitions never takes the last map: the one that was played least
\* keeps its weight
LEMMA SomeRemain ==
    ASSUME NEW M \in SUBSET Maps, NEW w \in [M -> Nat], NEW x \in M, w[x] > 0,
           NEW played \in [Maps -> 0..2]
    PROVE  Remaining(w, played) # {}
<1> DEFINE live == {m \in M : w[m] > 0}
           X == {played[m] : m \in live}
<1>1. X \in SUBSET Nat /\ X # {}
  OBVIOUS
<1>2. PICK n \in X : \A k \in X : n <= k
  <2> HIDE DEF X
  <2> QED
    BY <1>1, LeastNat
<1>3. PICK m \in live : played[m] = n
  OBVIOUS
<1>4. \A t \in live : played[m] <= played[t] /\ played[t] \in Nat
  BY <1>2, <1>3
<1>5. m \in Remaining(w, played)
  <2>1. DOMAIN w = M
    OBVIOUS
  <2>2. m \in M /\ w[m] > 0 /\ played[m] \in Nat
    BY <1>3
  <2>3. \A t \in {k \in DOMAIN w : w[k] > 0} :
           ~(played[t] = 0 /\ played[m] > 0) /\ ~(played[t] < played[m])
    BY <1>4, <2>1, <2>2
  <2> QED
    BY <2>1, <2>2, <2>3 DEF Remaining
<1> QED
  BY <1>5

\* The pools come from the database
FromDatabase ==
    \A q \in Brackets : pools[q] \in Configs[q] /\ fetched[q] \in Configs[q]

\* They do in every state
LEMMA PoolsFromDatabase ==
    ASSUME VetoAssumption
    PROVE  VetoSpec => []FromDatabase
<1>1. VetoInit => FromDatabase
  BY DEF VetoInit, FromDatabase
<1>2. ASSUME FromDatabase, VetoInv, [VetoNext]_vetoVars
      PROVE  FromDatabase'
  <2>1. pools \in [Brackets -> PoolConfigs] /\ fetched \in [Brackets -> PoolConfigs]
    BY <1>2 DEF VetoInv
  <2>2. CASE Fetch
    <3>1. PICK k \in Brackets : \E c \in Configs[k] :
             fetched' = [pools EXCEPT ![k] = c] /\ pools' = pools
      BY <2>2 DEF Fetch
    <3> QED
      BY <1>2, <2>1, <3>1 DEF FromDatabase
  <2>3. CASE UpdateQueue
    <3>1. pools' = [pools EXCEPT ![next] = fetched[next]] /\ fetched' = fetched
      BY <2>3 DEF UpdateQueue
    <3> QED
      BY <1>2, <2>1, <3>1 DEF FromDatabase
  <2>4. CASE UNCHANGED updateVars
    BY <1>2, <2>4 DEF FromDatabase, updateVars
  <2>5. ASSUME ~Fetch, ~UpdateQueue
        PROVE  UNCHANGED updateVars
    BY <1>2, <2>5 DEF VetoNext, SetVetoes, StartSearch, StartMatch, vetoVars
  <2> QED
    BY <2>2, <2>3, <2>4, <2>5
<1> QED
  BY <1>1, <1>2, LimitsKept, PTL DEF VetoSpec

\* A match of the players S finds no map in the queue q only if its pool is empty,
\* or need not keep any map and its players have vetoed all
NoMapIn(S, q) ==
    \/ pools[q].maps = <<>>
    \/ pools[q].min = 0 /\ AllVetoed(S, q)

\* A match finds a map unless its pool is empty or being replaced, or has a minimum
\* of 0 and is vetoed map by map: neither the vetoes of any other pool nor the maps
\* played lately take all weight away (MatchFindsMap)
THEOREM AMapIsFound ==
    ASSUME VetoAssumption
    PROVE  VetoSpec => MatchFindsMap
<1>1. ASSUME VetoInv, FromDatabase, ~Outdated, NEW S \in Sides, NEW q \in Brackets,
             ~NoMapIn(S, q), NEW played \in [Maps -> 0..2]
      PROVE  Remaining(Weights(S, q).of, played) # {}
  <2> DEFINE c == pools[q]
             M == ToSet(c.maps)
             V == [m \in M |-> Tokens(S, q, m)]
             W == Weights(S, q)
  <2>1. c \in PoolConfigs /\ c.max \in Nat /\ c.min \in Nat
    BY <1>1 DEF VetoInv, PoolConfigs, FromDatabase
  <2>2. M \in SUBSET Maps /\ IsFiniteSet(M)
    BY <2>1, PoolMaps
  <2>3. PICK y \in M : TRUE
    <3>1. c.maps \in Seq(Maps) /\ c.maps # <<>>
      BY <1>1, <2>1 DEF PoolConfigs, NoMapIn
    <3>2. 1 \in DOMAIN c.maps
      <4> HIDE DEF c
      <4> QED
        BY <3>1
    <3> QED
      BY <3>2 DEF ToSet
  <2>4. V \in [M -> Nat] /\ (~IsValid(c) => \A m \in M : V[m] = 0)
    BY <1>1, PoolTokens
  <2>5. W = WeightsOf(V, IF c.max = 0 THEN DynamicTokens(V, c.min) ELSE <<c.max, 1>>)
    BY DEF Weights, WeightsOf
  <2>6. W.of \in [M -> Nat]
    <3> HIDE DEF V, W, M, c
    <3> QED
      BY <2>1, <2>2, <2>4, <2>5, WeightsAreNat
  <2>7. ASSUME NEW x \in M, V[x] = 0 \/ V[x] < c.max
        PROVE  W.of[x] > 0
    <3> HIDE DEF V, W, M, c
    <3> QED
      BY <2>1, <2>2, <2>4, <2>5, <2>7, KeepsWeight
  <2>8. \E x \in M : W.of[x] > 0
    <3>1. CASE IsValid(c) /\ c.min >= 1
      <4>1. /\ W.of \in [M -> Nat] /\ W.one \in Nat \ {0}
            /\ SumOf(W.of, M) >= c.min * W.one
        BY <1>1, <3>1, PromiseKept
      <4> HIDE DEF W, M, c
      <4>2. ~(\A x \in M : W.of[x] = 0)
        <5>1. ASSUME \A x \in M : W.of[x] = 0
              PROVE  FALSE
          <6>1. SumOf(W.of, M) = 0
            BY <2>2, <5>1, SumOfZeros
          <6>2. 1 * W.one <= c.min * W.one
            BY <2>1, <3>1, <4>1, Product
          <6> QED
            BY <2>1, <4>1, <6>1, <6>2
        <5> QED
          BY <5>1
      <4> QED
        BY <4>1, <4>2
    <3>2. CASE ~IsValid(c)
      <4>1. \A m \in M : V[m] = 0
        BY <2>4, <3>2
      <4> HIDE DEF V, W, M, c
      <4> QED
        BY <2>3, <2>7, <4>1
    <3>3. CASE c.min = 0
      <4>1. ~AllVetoed(S, q)
        BY <1>1, <3>3 DEF NoMapIn
      <4>2. PICK x \in M : ~(Tokens(S, q, x) > 0 /\ Tokens(S, q, x) >= c.max)
        BY <4>1 DEF AllVetoed
      <4>3. V[x] = Tokens(S, q, x)
        OBVIOUS
      <4> HIDE DEF V, W, M, c
      <4>4. V[x] = 0 \/ V[x] < c.max
        BY <2>1, <2>4, <4>2, <4>3
      <4> QED
        BY <2>7, <4>4
    <3> QED
      BY <2>1, <3>1, <3>2, <3>3
  <2>9. PICK x \in M : W.of[x] > 0
    BY <2>8
  <2> HIDE DEF W, M
  <2>10. Remaining(W.of, played) # {}
    BY <2>2, <2>6, <2>9, SomeRemain
  <2> QED
    BY <2>10 DEF W
<1> DEFINE Failure == failed' \notin {failed, NoMatch}
           Excused == LET S == failed'[1]
                          q == failed'[2]
                      IN  \/ Outdated
                          \/ pools[q].maps = <<>>
                          \/ pools[q].min = 0 /\ AllVetoed(S, q)
<1>2. ASSUME VetoInv, FromDatabase, [VetoNext]_vetoVars, Failure
      PROVE  Excused
  <2>1. PICK S \in Sides, q \in Brackets : StartMatch(S, q)
    BY <1>2 DEF VetoNext, Fetch, UpdateQueue, SetVetoes, StartSearch, vetoVars
  <2>2. PICK played \in [Maps -> 0..2] :
           failed' = IF Remaining(Weights(S, q).of, played) = {}
                     THEN <<S, q>> ELSE NoMatch
    BY <2>1 DEF StartMatch
  <2>3. Remaining(Weights(S, q).of, played) = {} /\ failed' = <<S, q>>
    BY <1>2, <2>2
  <2>4. Outdated \/ NoMapIn(S, q)
    BY <1>1, <1>2, <2>3
  <2>5. failed'[1] = S /\ failed'[2] = q
    BY <2>3
  <2> QED
    BY <2>4, <2>5 DEF NoMapIn
<1>3. VetoInv /\ FromDatabase /\ [VetoNext]_vetoVars => [Failure => Excused]_vetoVars
  BY <1>2
<1> QED
  BY <1>3, LimitsKept, PoolsFromDatabase, PTL DEF VetoSpec, MatchFindsMap
=============================================================================

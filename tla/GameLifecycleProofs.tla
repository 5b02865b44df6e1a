------------------------- MODULE GameLifecycleProofs -------------------------
(***************************************************************************)
(* Invariance proofs for GameLifecycle, for any set of sessions, players   *)
(* and any bounds.                                                         *)
(***************************************************************************)
EXTENDS GameLifecycle, TLAPS

\* A task inside a synchronous stretch is the one that runs, and no two run.
StretchInv ==
    /\ \A t \in Tasks : pc[t] \notin Suspended => running = {t}
    /\ \A t, u \in running : t = u

\* The lock is held exactly by the coroutine that is ending the game.
LockInv ==
    /\ \A t \in Tasks : t \in finishLock <=> pc[t] \in {"finish", "results"}
    /\ \A t, u \in finishLock : t = u

\* The abort task of a session has not run while the session is signed in.
KickInv ==
    \A s \in Sessions :
        /\ link[s] \in {"none", "login"} => pc[<<s, "kick">>] = "rest"
        /\ link[s] = "up" => pc[<<s, "kick">>] \in {"rest", "kickSend", "kick"}

\* The host's next message may put the game into LOBBY.
MayReportIdle == attached[HostSession] /\ fa[HostSession] = "off"

\* Only the login that hosted the game hosts.
HostingInv == \A s \in Sessions : pstate[s] = "HOSTING" => s = HostSession

\* That message has come once the game is LIVE or its results are out, and a
\* coroutine that writes results does so for a LIVE game.
NoReopenInv ==
    /\ gstate = "LIVE" => ~MayReportIdle
    /\ published > 0 => gstate = "ENDED" /\ ~MayReportIdle
    /\ \A t \in Tasks : pc[t] = "results" => gstate = "LIVE"

\* t has removed the connection of the host and has not let go of the loop yet
HostLeaves(t) ==
    /\ running = {t}
    /\ t[1] = HostSession
    /\ pc[t] \in {"check", "lock", "finish"}

\* While the host's connection is missing from a LOBBY game, the task that
\* removed it is on its way to end the game.
HostInv ==
    gstate = "LOBBY" => HostSession \in conns \/ \E t \in Tasks : HostLeaves(t)

-----------------------------------------------------------------------------
(* Type correctness *)

\* What the steps need to know of tasks
LEMMA TaskFacts ==
    /\ \A s \in Sessions :
         /\ Loop(s) \in Tasks
         /\ <<s, "msg">> \in Tasks
         /\ <<s, "tmo">> \in Tasks
         /\ <<s, "kick">> \in Tasks
    /\ \A t \in Tasks : t[1] \in Sessions
BY DEF Tasks, Loop

\* A task moves from label to label.
LEMMA TypeSchedule ==
  ASSUME TypeOK, NEW t \in Tasks, NEW l \in Labels
  PROVE  /\ Goto(t, l) => pc' \in [Tasks -> Labels] /\ running' \subseteq Tasks
         /\ Await(t, l) => pc' \in [Tasks -> Labels] /\ running' \subseteq Tasks
         /\ \A r \in {"rest", "abort", "tail"} :
              Call(t, l, r) => /\ pc' \in [Tasks -> Labels]
                               /\ ret' \in [Tasks -> {"rest", "abort", "tail"}]
                               /\ running' \subseteq Tasks
BY DEF TypeOK, Goto, Await, Call

\* check_game_finish goes on where its caller said
LEMMA TypeReturn ==
  ASSUME TypeOK, NEW t \in Tasks, Return(t)
  PROVE  /\ pc' \in [Tasks -> Labels]
         /\ ret' \in [Tasks -> {"rest", "abort", "tail"}]
         /\ running' \subseteq Tasks
BY DEF TypeOK, Return, Labels, Suspended

\* A coroutine that ends leaves a link in its type.
LEMMA TypeLeaves ==
  ASSUME TypeOK, NEW t \in Tasks, Leave(t)
  PROVE  /\ pc' \in [Tasks -> Labels]
         /\ running' \subseteq Tasks
         /\ link' \in [Sessions -> Links]
BY TaskFacts DEF TypeOK, Leave, Await, Links, Labels, Suspended

\* Messages, logins and failures keep the types.
LEMMA TypeEnvironment == TypeOK /\ Environment => TypeOK'
<1> SUFFICES ASSUME TypeOK, NEW s \in Sessions PROVE
      /\ Login(s) => TypeOK'
      /\ AdminKick(s) => TypeOK'
      /\ UnauthenticatedMessage(s) => TypeOK'
      /\ LinkDown(s) => TypeOK'
      /\ CommandGameJoin(s) => TypeOK'
      /\ RestoreGameSession(s) => TypeOK'
      /\ HandleIdle(s) => TypeOK'
      /\ HandleLobby(s) => TypeOK'
      /\ HandleLaunching(s) => TypeOK'
      /\ HandleGameEnded(s) => TypeOK'
      /\ HandleEnded(s) => TypeOK'
  BY DEF Environment
<1> USE LifecycleAssumption
    DEF TypeOK, gameVars, serviceVars, sessionVars, taskVars, history,
        GameStates, ConnStates, PlayerStates, Links, Labels, Suspended
<1>t. Loop(s) \in Tasks /\ <<s, "kick">> \in Tasks  BY TaskFacts
<1>1. Login(s) => TypeOK'  BY DEF Login
<1>2. AdminKick(s) => TypeOK'  BY <1>t DEF AdminKick
<1>3. LinkDown(s) => TypeOK'  BY DEF LinkDown
<1>12. UnauthenticatedMessage(s) => TypeOK'
  BY <1>t, TypeSchedule DEF UnauthenticatedMessage
<1>4. CommandGameJoin(s) => TypeOK'  BY <1>t, TypeSchedule DEF CommandGameJoin
<1>5. RestoreGameSession(s) => TypeOK'
  BY DEF RestoreGameSession
<1>6. HandleIdle(s) => TypeOK'  BY DEF HandleIdle
<1>7. HandleLobby(s) => TypeOK'  BY <1>t, TypeSchedule DEF HandleLobby
<1>8. HandleLaunching(s) => TypeOK'  BY <1>t, TypeSchedule DEF HandleLaunching
<1>9. HandleGameEnded(s) => TypeOK'  BY <1>t, TypeSchedule DEF HandleGameEnded
<1>10. HandleEnded(s) => TypeOK'
  BY <1>t, TypeSchedule DEF HandleEnded
<1>13. QED
  BY <1>1, <1>2, <1>3, <1>4, <1>5, <1>6, <1>7, <1>8, <1>9, <1>10, <1>12

\* The read loop and the setup timeout keep the types.
LEMMA TypeLoop ==
  ASSUME TypeOK, NEW s \in Sessions, LoopStep(s) \/ ConnectionTimeout(s)
  PROVE  TypeOK'
<1> USE LifecycleAssumption
    DEF TypeOK, gameVars, serviceVars, sessionVars, taskVars, history,
        GameStates, ConnStates, PlayerStates, Links, Labels, Suspended
<1>t. Loop(s) \in Tasks /\ <<s, "kick">> \in Tasks /\ <<s, "tmo">> \in Tasks
  BY TaskFacts
<1>1. LoginDone(s) => TypeOK'  BY DEF LoginDone
<1>2. Kick(s) => TypeOK'  BY <1>t, TypeSchedule DEF Kick
<1>3. ConnectionLost(s) => TypeOK'
  BY <1>t, TypeSchedule DEF ConnectionLost
<1>4. HostSent(s) => TypeOK'  BY <1>t, TypeSchedule DEF HostSent
<1>5. JoinSent(s) => TypeOK'  BY <1>t, TypeSchedule DEF JoinSent
<1>6. PeerSent(s) => TypeOK'
  <2> SUFFICES ASSUME PeerSent(s) PROVE TypeOK'  OBVIOUS
  <2>1. cstate' \in [Sessions -> ConnStates]  BY DEF PeerSent
  <2>2. conns' \subseteq Sessions  BY DEF PeerSent
  <2>3. dirty' = TRUE \/ dirty' = dirty  BY DEF PeerSent
  <2>4. pc' \in [Tasks -> Labels] /\ running' \subseteq Tasks
    BY <1>t, TypeSchedule DEF PeerSent
  <2>5. QED  BY <2>1, <2>2, <2>3, <2>4 DEF PeerSent
<1>7. LaunchWritten(s) => TypeOK'  BY <1>t, TypeSchedule DEF LaunchWritten
<1>8. ConnectionTimeout(s) => TypeOK'  BY <1>t, TypeSchedule DEF ConnectionTimeout
<1>9. JoinGame(s) => TypeOK'
  <2> SUFFICES ASSUME JoinGame(s) PROVE TypeOK'  OBVIOUS
  <2>1. /\ cstate' \in [Sessions -> ConnStates]
        /\ attached' \in [Sessions -> BOOLEAN]
        /\ pstate' \in [Sessions -> PlayerStates]
    BY DEF JoinGame
  <2>2. pc' \in [Tasks -> Labels] /\ running' \subseteq Tasks
    BY <1>t, TypeSchedule DEF JoinGame
  <2>3. QED  BY <2>1, <2>2 DEF JoinGame
<1>10. PeersConnected(s) => TypeOK'  BY <1>t, TypeSchedule DEF PeersConnected
<1>11. KickSent(s) => TypeOK'  BY <1>t, TypeSchedule DEF KickSent
<1>12. QED
  BY <1>1, <1>2, <1>3, <1>4, <1>5, <1>6, <1>7, <1>8, <1>9, <1>10, <1>11
  DEF LoopStep, LoopEnds, LoopEndsWithHost

\* Every step of leaving and of check_game_finish keeps the types.
LEMMA TypeLeave == ASSUME TypeOK, NEW t \in Tasks, LeaveStep(t) PROVE TypeOK'
<1> USE LifecycleAssumption
    DEF TypeOK, gameVars, serviceVars, sessionVars, taskVars, history,
        GameStates, ConnStates, PlayerStates, Links, Labels, Suspended
<1>t. t[1] \in Sessions  BY TaskFacts
<1>1. Abort(t) => TypeOK'
  <2> SUFFICES ASSUME Abort(t) PROVE TypeOK'  OBVIOUS
  <2>1. dirty' \in BOOLEAN  BY Zenon DEF Abort
  <2>2. QED  BY <2>1, <1>t, TypeSchedule, TypeLeaves DEF Abort
<1>2. PeersTold(t) => TypeOK'  BY TypeSchedule DEF PeersTold
<1>3. EndConnection(t) => TypeOK'
  BY <1>t, TypeSchedule DEF EndConnection
<1>4. ReleasePlayer(t) => TypeOK'  BY <1>t, TypeLeaves DEF ReleasePlayer
<1>5. CheckSimEnd(t) => TypeOK'  BY TypeSchedule DEF CheckSimEnd
<1>6. SimEndWritten(t) => TypeOK'  BY TypeSchedule DEF SimEndWritten
<1>7. WaitForLock(t) => TypeOK'  BY DEF WaitForLock
<1>8. CheckGameFinish(t) => TypeOK'
  BY TypeSchedule, TypeReturn DEF CheckGameFinish
<1>9. CancelGame(t) => TypeOK'  BY TypeReturn DEF CancelGame, EndGame
<1>10. FinishGame(t) => TypeOK'  BY TypeSchedule DEF FinishGame
<1>11. FinishUnrated(t) => TypeOK'  BY TypeReturn DEF FinishUnrated, EndGame
<1>12. FinishWithResults(t) => TypeOK'
  BY TypeReturn DEF FinishWithResults, EndGame
<1>13. QED
  BY <1>1, <1>2, <1>3, <1>4, <1>5, <1>6, <1>7, <1>8, <1>9, <1>10, <1>11, <1>12
  DEF LeaveStep

\* GameLifecycle is type correct: states, sets of connections and program
\* counters of a game never leave the values the code uses, for any number of
\* logins.
THEOREM TypeCorrect == Spec => []TypeOK
<1>1. Init => TypeOK
  <2> SUFFICES ASSUME Init PROVE TypeOK  OBVIOUS
  <2>1. /\ attached \in [Sessions -> BOOLEAN]
        /\ simDone \in [Sessions -> BOOLEAN]
    BY Zenon DEF Init
  <2>2. link \in [Sessions -> Links]  BY DEF Init, Links
  <2>3. /\ cstate \in [Sessions -> ConnStates]
        /\ pstate \in [Sessions -> PlayerStates]
    BY DEF Init, ConnStates, PlayerStates
  <2>4. /\ fa \in [Sessions -> {"off", "idle", "ready", "closed"}]
        /\ pc \in [Tasks -> Labels]
        /\ ret \in [Tasks -> {"rest", "abort", "tail"}]
    BY DEF Init, Labels, Suspended
  <2>5. faults \in 0..MaxFaults /\ published \in 0..MaxPublished
    BY LifecycleAssumption DEF Init
  <2>6. QED  BY <2>1, <2>2, <2>3, <2>4, <2>5 DEF Init, TypeOK, GameStates
<1>2. TypeOK /\ [Next]_vars => TypeOK'
  <2> SUFFICES ASSUME TypeOK, [Next]_vars PROVE TypeOK'  OBVIOUS
  <2>1. CASE Environment  BY <2>1, TypeEnvironment
  <2>2. CASE \E s \in Sessions : LoopStep(s) \/ ConnectionTimeout(s)
    BY <2>2, TypeLoop
  <2>3. CASE \E t \in Tasks : LeaveStep(t)  BY <2>3, TypeLeave
  <2>4. CASE GameTimeout
    BY <2>4 DEF GameTimeout, TypeOK, GameStates, sessionVars, taskVars, history
  <2>5. CASE ReportDirties
    BY <2>5 DEF ReportDirties, TypeOK, gameVars, sessionVars, taskVars, history
  <2>6. CASE UNCHANGED vars
    BY <2>6 DEF vars, TypeOK, gameVars, serviceVars, sessionVars, taskVars,
                history
  <2>7. QED  BY <2>1, <2>2, <2>3, <2>4, <2>5, <2>6 DEF Next
<1>3. QED  BY <1>1, <1>2, PTL DEF Spec

-----------------------------------------------------------------------------
(* The end of a game is reported *)

\* Every step keeps EndedIsReported.
LEMMA ReportedNext ==
  ASSUME TypeOK, EndedIsReported, [Next]_vars
  PROVE  EndedIsReported'
<1> USE DEF EndedIsReported, gameVars, serviceVars, sessionVars, taskVars,
        history
<1>1. ASSUME NEW s \in Sessions,
             \/ Login(s) \/ AdminKick(s) \/ UnauthenticatedMessage(s) \/ LinkDown(s)
             \/ CommandGameJoin(s) \/ RestoreGameSession(s)
             \/ HandleIdle(s) \/ HandleLobby(s) \/ HandleLaunching(s)
             \/ HandleGameEnded(s) \/ HandleEnded(s)
      PROVE  EndedIsReported'
  BY <1>1 DEF Login, AdminKick, UnauthenticatedMessage, LinkDown, CommandGameJoin,
      RestoreGameSession, HandleIdle, HandleLobby, HandleLaunching, HandleGameEnded,
      HandleEnded
<1>2. ASSUME NEW s \in Sessions, LoopStep(s) \/ ConnectionTimeout(s)
      PROVE  EndedIsReported'
  BY <1>2 DEF LoopStep, ConnectionTimeout, LoginDone, KickSent, Kick, LoopEnds,
              LoopEndsWithHost, ConnectionLost, HostSent, JoinSent, PeerSent,
              LaunchWritten, JoinGame, PeersConnected, KickSent
<1>3. ASSUME NEW t \in Tasks, LeaveStep(t)
      PROVE  EndedIsReported'
  BY <1>3 DEF LeaveStep, Abort, PeersTold, EndConnection, ReleasePlayer,
              CheckSimEnd, SimEndWritten, WaitForLock, CheckGameFinish,
              CancelGame, FinishGame, FinishUnrated, FinishWithResults, EndGame
<1>4. CASE GameTimeout  BY <1>4 DEF GameTimeout
<1>5. CASE ReportDirties  BY <1>5 DEF ReportDirties
<1>6. CASE UNCHANGED vars  BY <1>6 DEF vars
<1>7. QED  BY <1>1, <1>2, <1>3, <1>4, <1>5, <1>6 DEF Next, Environment

\* No ENDED game is forgotten by the service: on_game_finish, the timer and
\* the report keep EndedIsReported in every interleaving of any number of
\* sessions.
THEOREM EndIsReported == Spec => []EndedIsReported
<1>1. Init => EndedIsReported  BY DEF Init, EndedIsReported
<1>2. QED  BY <1>1, ReportedNext, TypeCorrect, PTL DEF Spec

-----------------------------------------------------------------------------
(* The lock *)

\* The task that runs moves on and the others stay where they were.
LEMMA StretchStep ==
  ASSUME TypeOK, StretchInv, NEW t \in Tasks, running \subseteq {t},
         NEW l \in Labels
  PROVE  /\ Goto(t, l) => StretchInv'
         /\ Await(t, l) /\ l \in Suspended => StretchInv'
BY DEF TypeOK, StretchInv, Goto, Await

\* check_game_finish returns inside the stretch of its task.
LEMMA StretchReturn ==
  ASSUME TypeOK, StretchInv, NEW t \in Tasks, running \subseteq {t}, Return(t)
  PROVE  StretchInv'
BY DEF TypeOK, StretchInv, Return, Suspended

\* Nothing outside the end of the game touches the lock.
LEMMA LockStep ==
  ASSUME TypeOK, LockInv, NEW t \in Tasks, pc[t] \notin {"finish", "results"},
         NEW l \in Labels \ {"finish", "results"}, finishLock' = finishLock,
         pc' = [pc EXCEPT ![t] = l]
  PROVE  LockInv'
BY DEF TypeOK, LockInv

\* What every step of a task outside the lock preserves
LEMMA LockMove ==
  ASSUME TypeOK, StretchInv, LockInv, NEW t \in Tasks, running \subseteq {t},
         pc[t] \notin {"finish", "results"},
         NEW l \in Labels \ {"finish", "results"}, finishLock' = finishLock
  PROVE  /\ Goto(t, l) => StretchInv' /\ LockInv'
         /\ Await(t, l) /\ l \in Suspended => StretchInv' /\ LockInv'
         /\ \A r : Call(t, l, r) => StretchInv' /\ LockInv'
BY StretchStep, LockStep DEF Goto, Await, Call

\* A step that moves no task keeps the stretch and the lock.
LEMMA LockUnchanged ==
  ASSUME StretchInv, LockInv, pc' = pc, running' = running,
         finishLock' = finishLock
  PROVE  StretchInv' /\ LockInv'
BY DEF StretchInv, LockInv

\* Scheduling an abort task
LEMMA LockKick ==
  ASSUME TypeOK, StretchInv, LockInv, running = {}, running' = running,
         finishLock' = finishLock, pc' \in [Tasks -> Labels],
         \A t \in Tasks : \/ pc'[t] = pc[t]
                          \/ /\ pc'[t] \in {"kick", "kickSend"}
                             /\ pc[t] \notin {"finish", "results"}
  PROVE  StretchInv' /\ LockInv'
BY DEF TypeOK, StretchInv, LockInv, Suspended

\* The inductive strengthening of FinishIsExclusive
FinishInv == StretchInv /\ KickInv /\ LockInv

\* Messages, logins and failures do not touch the lock.
LEMMA FinishEnvironment ==
  ASSUME TypeOK, TypeOK', StretchInv, KickInv, LockInv, NEW s \in Sessions,
         \/ Login(s) \/ AdminKick(s) \/ UnauthenticatedMessage(s) \/ LinkDown(s)
         \/ CommandGameJoin(s) \/ RestoreGameSession(s)
         \/ HandleIdle(s) \/ HandleLobby(s) \/ HandleLaunching(s)
         \/ HandleGameEnded(s) \/ HandleEnded(s)
  PROVE  StretchInv' /\ LockInv'
<1>t. Loop(s) \in Tasks /\ <<s, "kick">> \in Tasks  BY TaskFacts
<1> USE DEF gameVars, serviceVars, sessionVars, taskVars, history, At, LoopFree,
        GameMessage, Labels, Suspended
<1>1. CASE Login(s)
  <2>1. \A t \in Tasks : \/ pc'[t] = pc[t]
                         \/ pc'[t] = "kick" /\ pc[t] \notin {"finish", "results"}
    BY <1>1, TaskFacts DEF Login, KickInv, Tasks
  <2>2. QED  BY <1>1, <2>1, LockKick DEF Login, TypeOK
<1>2. CASE AdminKick(s)
  BY <1>2, <1>t, LockKick DEF AdminKick, TypeOK
<1>3. CASE LinkDown(s)  BY <1>3, LockUnchanged DEF LinkDown
<1>12. CASE UnauthenticatedMessage(s)
  BY <1>12, <1>t, LockMove DEF UnauthenticatedMessage
<1>4. CASE CommandGameJoin(s)  BY <1>4, <1>t, LockMove DEF CommandGameJoin
<1>5. CASE RestoreGameSession(s)  BY <1>5, LockUnchanged DEF RestoreGameSession
<1>6. CASE HandleIdle(s)  BY <1>6, LockUnchanged DEF HandleIdle
<1>7. CASE HandleLobby(s)  BY <1>7, <1>t, LockMove DEF HandleLobby
<1>8. CASE HandleLaunching(s)  BY <1>8, <1>t, LockMove DEF HandleLaunching
<1>9. CASE HandleGameEnded(s)  BY <1>9, <1>t, LockMove DEF HandleGameEnded
<1>10. CASE HandleEnded(s)  BY <1>10, <1>t, LockMove DEF HandleEnded
<1>13. QED
  BY <1>1, <1>2, <1>3, <1>4, <1>5, <1>6, <1>7, <1>8, <1>9, <1>10, <1>12

\* The read loop and the setup timeout do not touch the lock.
LEMMA FinishLoop ==
  ASSUME TypeOK, StretchInv, LockInv, NEW s \in Sessions,
         LoopStep(s) \/ ConnectionTimeout(s)
  PROVE  StretchInv' /\ LockInv'
<1>t. Loop(s) \in Tasks /\ <<s, "kick">> \in Tasks /\ <<s, "tmo">> \in Tasks
  BY TaskFacts
<1> USE DEF gameVars, serviceVars, sessionVars, taskVars, history, At,
        Labels, Suspended
<1>1. CASE LoginDone(s)  BY <1>1, LockUnchanged DEF LoginDone
<1>2. CASE Kick(s)  BY <1>2, <1>t, LockMove DEF Kick
<1>3. CASE LoopEnds(s) \/ LoopEndsWithHost(s)
  BY <1>3, <1>t, LockMove DEF LoopEnds, LoopEndsWithHost, ConnectionLost
<1>4. CASE JoinGame(s)  BY <1>4, <1>t, LockMove DEF JoinGame
<1>5. CASE HostSent(s)  BY <1>5, <1>t, LockMove DEF HostSent
<1>6. CASE JoinSent(s)  BY <1>6, <1>t, LockMove DEF JoinSent
<1>7. CASE PeerSent(s)  BY <1>7, <1>t, LockMove DEF PeerSent
<1>8. CASE PeersConnected(s)  BY <1>8, <1>t, LockMove DEF PeersConnected
<1>9. CASE LaunchWritten(s)  BY <1>9, <1>t, LockMove DEF LaunchWritten
<1>10. CASE ConnectionTimeout(s)  BY <1>10, <1>t, LockMove DEF ConnectionTimeout
<1>11. CASE KickSent(s)  BY <1>11, <1>t, LockMove DEF KickSent
<1>12. QED
  BY <1>1, <1>2, <1>3, <1>4, <1>5, <1>6, <1>7, <1>8, <1>9, <1>10, <1>11
  DEF LoopStep

\* on_game_finish ends and gives the lock back.
LEMMA FinishEnd ==
  ASSUME TypeOK, StretchInv, LockInv, NEW t \in Tasks, running \subseteq {t},
         pc[t] \in {"finish", "results"}, EndGame(t)
  PROVE  StretchInv' /\ LockInv'
<1>1. StretchInv'  BY StretchReturn DEF EndGame
<1>2. LockInv'  BY DEF EndGame, Return, LockInv, TypeOK
<1>3. QED  BY <1>1, <1>2

\* Leaving takes the lock before the game is ended, and releases it.
LEMMA FinishLeave ==
  ASSUME TypeOK, StretchInv, LockInv, NEW t \in Tasks, LeaveStep(t)
  PROVE  StretchInv' /\ LockInv'
<1> USE DEF gameVars, serviceVars, sessionVars, taskVars, history, At,
        Labels, Suspended
<1>1. CASE Abort(t)  BY <1>1, LockMove DEF Abort, Leave
<1>2. CASE PeersTold(t)  BY <1>2, LockMove DEF PeersTold
<1>3. CASE EndConnection(t)  BY <1>3, LockMove DEF EndConnection
<1>4. CASE ReleasePlayer(t)  BY <1>4, LockMove DEF ReleasePlayer, Leave
<1>5. CASE CheckSimEnd(t)  BY <1>5, LockMove DEF CheckSimEnd
<1>6. CASE SimEndWritten(t)  BY <1>6, LockMove DEF SimEndWritten
<1>7. CASE WaitForLock(t)
  BY <1>7 DEF WaitForLock, StretchInv, LockInv
<1>8. CASE CheckGameFinish(t)
  <2>1. CASE MustFinish(t)
    <3>1. StretchInv'  BY <1>8, <2>1, StretchStep DEF CheckGameFinish
    <3>2. LockInv'  BY <1>8, <2>1 DEF CheckGameFinish, Goto, LockInv, TypeOK
    <3>3. QED  BY <3>1, <3>2
  <2>2. CASE ~MustFinish(t)
    <3>1. StretchInv'  BY <1>8, <2>2, StretchReturn DEF CheckGameFinish
    <3>2. LockInv'  BY <1>8, <2>2 DEF CheckGameFinish, Return, LockInv, TypeOK
    <3>3. QED  BY <3>1, <3>2
  <2>3. QED  BY <2>1, <2>2
<1>9. CASE FinishGame(t)
  <2>1. StretchInv'  BY <1>9, StretchStep DEF FinishGame
  <2>2. LockInv'  BY <1>9 DEF FinishGame, Await, LockInv, TypeOK
  <2>3. QED  BY <2>1, <2>2
<1>10. CASE CancelGame(t) \/ FinishUnrated(t) \/ FinishWithResults(t)
  BY <1>10, FinishEnd DEF CancelGame, FinishUnrated, FinishWithResults
<1>11. QED
  BY <1>1, <1>2, <1>3, <1>4, <1>5, <1>6, <1>7, <1>8, <1>9, <1>10 DEF LeaveStep

\* The read loop and the timeout of a session are not its abort task.
LEMMA KickOther ==
  ASSUME TypeOK, KickInv, NEW s \in Sessions, NEW k \in {"msg", "tmo"}, NEW l,
         pc' = [pc EXCEPT ![<<s, k>>] = l],
         \A x \in Sessions : link'[x] = link[x] \/ link'[x] \notin {"none", "login", "up"}
  PROVE  KickInv'
<1>1. \A x \in Sessions : pc'[<<x, "kick">>] = pc[<<x, "kick">>]
  BY TaskFacts DEF TypeOK
<1>2. QED  BY <1>1 DEF KickInv

\* Leaving keeps KickInv.
LEMMA KickLeave ==
  ASSUME TypeOK, KickInv, NEW t \in Tasks, LeaveStep(t)
  PROVE  KickInv'
<1> USE DEF gameVars, serviceVars, sessionVars, taskVars, history, At,
        Labels, Suspended
<1>1. \/ pc' = pc
      \/ \E l \in Labels : pc' = [pc EXCEPT ![t] = l]
  BY DEF LeaveStep, Abort, PeersTold, EndConnection, ReleasePlayer, CheckSimEnd,
         SimEndWritten, WaitForLock, CheckGameFinish, CancelGame, FinishGame,
         FinishUnrated, FinishWithResults, EndGame, Leave, Goto, Await, Call,
         Return, TypeOK
<1>2. pc[t] \notin {"rest", "kickSend", "kick"}
  BY DEF LeaveStep, Abort, PeersTold, EndConnection, ReleasePlayer, CheckSimEnd,
         SimEndWritten, WaitForLock, CheckGameFinish, CancelGame, FinishGame,
         FinishUnrated, FinishWithResults
<1>3. \A x \in Sessions : link'[x] = link[x] \/ link'[x] = "down"
  BY TaskFacts
  DEF LeaveStep, Abort, PeersTold, EndConnection, ReleasePlayer, CheckSimEnd,
      SimEndWritten, WaitForLock, CheckGameFinish, CancelGame, FinishGame,
      FinishUnrated, FinishWithResults, Leave, TypeOK
<1>4. \A x \in Sessions : \/ pc'[<<x, "kick">>] = pc[<<x, "kick">>]
                          \/ pc[<<x, "kick">>] \notin {"rest", "kickSend", "kick"}
  BY <1>1, <1>2, TaskFacts DEF TypeOK
<1>5. QED  BY <1>3, <1>4 DEF KickInv

\* The read loop and the setup timeout keep KickInv.
LEMMA KickLoop ==
  ASSUME TypeOK, KickInv, NEW s \in Sessions,
         LoopStep(s) \/ ConnectionTimeout(s)
  PROVE  KickInv'
<1> USE DEF gameVars, serviceVars, sessionVars, taskVars, history, At, Goto,
        Await, Call, Loop
<1>1. CASE LoginDone(s)
  BY <1>1, TaskFacts DEF LoginDone, KickInv, TypeOK
<1>2. CASE Kick(s)
  <2>1. link'[s] \notin {"none", "login", "up"}
    BY <1>2 DEF Kick, KickInv, TypeOK
  <2>2. \E l : pc' = [pc EXCEPT ![<<s, "kick">>] = l]  BY <1>2 DEF Kick
  <2>3. \A x \in Sessions \ {s} : pc'[<<x, "kick">>] = pc[<<x, "kick">>]
    BY <2>2, TaskFacts DEF TypeOK
  <2>4. \A x \in Sessions \ {s} : link'[x] = link[x]
    BY <1>2 DEF Kick, TypeOK
  <2>5. QED  BY <2>1, <2>3, <2>4 DEF KickInv
<1>3. CASE LoopEnds(s) \/ LoopEndsWithHost(s)
  <2>1. \A x \in Sessions : link'[x] = link[x] \/ link'[x] = "gone"
    BY <1>3 DEF LoopEnds, LoopEndsWithHost, ConnectionLost, TypeOK
  <2>2. \E l : pc' = [pc EXCEPT ![<<s, "msg">>] = l]
    BY <1>3 DEF LoopEnds, LoopEndsWithHost, ConnectionLost
  <2>3. QED  BY <2>1, <2>2, KickOther
<1>4. CASE \/ JoinGame(s) \/ HostSent(s) \/ JoinSent(s) \/ PeerSent(s)
           \/ PeersConnected(s) \/ LaunchWritten(s)
  <2>1. link' = link
    BY <1>4 DEF JoinGame, HostSent, JoinSent, PeerSent, PeersConnected,
                LaunchWritten
  <2>2. \E l : pc' = [pc EXCEPT ![<<s, "msg">>] = l]
    BY <1>4 DEF JoinGame, HostSent, JoinSent, PeerSent, PeersConnected,
                LaunchWritten
  <2>3. QED  BY <2>1, <2>2, KickOther
<1>5. CASE ConnectionTimeout(s)  BY <1>5, KickOther DEF ConnectionTimeout
<1>6. CASE KickSent(s)
  <2>1. link' = link  BY <1>6 DEF KickSent
  <2>2. /\ pc[<<s, "kick">>] = "kickSend"
        /\ \E l \in {"rest", "kick"} : pc' = [pc EXCEPT ![<<s, "kick">>] = l]
    BY <1>6 DEF KickSent
  <2>3. QED  BY <2>1, <2>2, TaskFacts DEF KickInv, TypeOK
<1>7. QED  BY <1>1, <1>2, <1>3, <1>4, <1>5, <1>6 DEF LoopStep

\* Messages, logins and failures keep KickInv.
LEMMA KickEnvironment ==
  ASSUME TypeOK, KickInv, NEW s \in Sessions,
         \/ Login(s) \/ AdminKick(s) \/ UnauthenticatedMessage(s) \/ LinkDown(s)
         \/ CommandGameJoin(s) \/ RestoreGameSession(s)
         \/ HandleIdle(s) \/ HandleLobby(s) \/ HandleLaunching(s)
         \/ HandleGameEnded(s) \/ HandleEnded(s)
  PROVE  KickInv'
<1> USE DEF gameVars, serviceVars, sessionVars, taskVars, history, Goto, Await,
        Call, Loop
<1>1. CASE Login(s)
  <2>1. \A x \in Sessions :
          pc'[<<x, "kick">>] = IF SamePlayer(x, s) /\ link[x] = "up"
                               THEN "kick" ELSE pc[<<x, "kick">>]
    BY <1>1, TaskFacts DEF Login, TypeOK
  <2>2. \A x \in Sessions : link'[x] = link[x] \/ (link[x] = "none" /\ link'[x] = "login")
    BY <1>1 DEF Login, TypeOK
  <2>3. QED  BY <2>1, <2>2 DEF KickInv
<1>2. CASE AdminKick(s)
  BY <1>2, TaskFacts DEF AdminKick, KickInv, TypeOK
<1>3. CASE LinkDown(s)  BY <1>3 DEF LinkDown, KickInv, TypeOK
<1>4. CASE RestoreGameSession(s) \/ HandleIdle(s)
  BY <1>4 DEF RestoreGameSession, HandleIdle, KickInv
<1>5. CASE \/ CommandGameJoin(s) \/ HandleLobby(s) \/ HandleLaunching(s)
           \/ HandleGameEnded(s) \/ HandleEnded(s)
  <2>1. link' = link
    BY <1>5 DEF CommandGameJoin, HandleLobby, HandleLaunching, HandleGameEnded,
                HandleEnded
  <2>2. \E l : pc' = [pc EXCEPT ![<<s, "msg">>] = l]
    BY <1>5 DEF CommandGameJoin, HandleLobby, HandleLaunching, HandleGameEnded,
                HandleEnded
  <2>3. QED  BY <2>1, <2>2, KickOther
<1>6. CASE UnauthenticatedMessage(s)
  <2>1. \A x \in Sessions :
          link'[x] = link[x] \/ link'[x] \notin {"none", "login", "up"}
    BY <1>6 DEF UnauthenticatedMessage, TypeOK
  <2>2. \E l : pc' = [pc EXCEPT ![<<s, "msg">>] = l]
    BY <1>6 DEF UnauthenticatedMessage
  <2>3. QED  BY <2>1, <2>2, KickOther
<1>7. QED  BY <1>1, <1>2, <1>3, <1>4, <1>5, <1>6

\* Every step keeps FinishInv.
LEMMA FinishNext ==
  ASSUME TypeOK, TypeOK', FinishInv, [Next]_vars
  PROVE  FinishInv'
<1> USE DEF FinishInv
<1>1. CASE Environment
  BY <1>1, FinishEnvironment, KickEnvironment DEF Environment
<1>2. CASE \E s \in Sessions : LoopStep(s) \/ ConnectionTimeout(s)
  BY <1>2, FinishLoop, KickLoop
<1>3. CASE \E t \in Tasks : LeaveStep(t)  BY <1>3, FinishLeave, KickLeave
<1>4. CASE GameTimeout \/ ReportDirties \/ UNCHANGED vars
  BY <1>4, LockUnchanged
  DEF GameTimeout, ReportDirties, vars, gameVars, sessionVars, taskVars, KickInv
<1>5. QED  BY <1>1, <1>2, <1>3, <1>4 DEF Next

\* Of all the coroutines of check_game_finish, however many sessions leave at
\* once, only the holder of _finish_lock ends the game.
THEOREM FinishExclusive == Spec => []FinishIsExclusive
<1>1. Init => FinishInv
  BY TaskFacts DEF Init, FinishInv, StretchInv, KickInv, LockInv, Suspended
<1>2. FinishInv => FinishIsExclusive
  BY DEF FinishInv, LockInv, FinishIsExclusive
<1>3. QED  BY <1>1, <1>2, FinishNext, TypeCorrect, PTL DEF Spec

-----------------------------------------------------------------------------
(* Published results *)

\* Every step keeps HostingInv.
LEMMA HostingNext ==
  ASSUME TypeOK, HostingInv, [Next]_vars
  PROVE  HostingInv'
<1> USE DEF gameVars, serviceVars, sessionVars, taskVars, history, HostingInv
<1>1. ASSUME NEW s \in Sessions,
             \/ Login(s) \/ AdminKick(s) \/ UnauthenticatedMessage(s) \/ LinkDown(s)
             \/ CommandGameJoin(s) \/ HandleLobby(s)
             \/ HandleGameEnded(s) \/ HandleEnded(s) \/ ConnectionTimeout(s)
             \/ LoginDone(s) \/ KickSent(s) \/ Kick(s)
             \/ LoopEnds(s) \/ LoopEndsWithHost(s)
             \/ HostSent(s) \/ JoinSent(s) \/ PeerSent(s)
             \/ PeersConnected(s) \/ LaunchWritten(s)
      PROVE  HostingInv'
  BY <1>1 DEF Login, AdminKick, UnauthenticatedMessage, LinkDown, CommandGameJoin,
      HandleLobby, HandleGameEnded, HandleEnded, ConnectionTimeout, LoginDone,
      KickSent, Kick, LoopEnds, LoopEndsWithHost, ConnectionLost, HostSent,
      JoinSent, PeerSent, PeersConnected, LaunchWritten
<1>2. ASSUME NEW s \in Sessions, JoinGame(s) \/ RestoreGameSession(s)
      PROVE  HostingInv'
  BY <1>2 DEF JoinGame, RestoreGameSession, TypeOK
<1>3. ASSUME NEW s \in Sessions, HandleIdle(s) PROVE HostingInv'
  BY <1>3 DEF HandleIdle, TypeOK
<1>4. ASSUME NEW s \in Sessions, HandleLaunching(s) PROVE HostingInv'
  BY <1>4 DEF HandleLaunching, TypeOK
<1>5. ASSUME NEW t \in Tasks, LeaveStep(t) PROVE HostingInv'
  BY <1>5, TaskFacts
  DEF LeaveStep, Abort, PeersTold, EndConnection, ReleasePlayer, CheckSimEnd,
      SimEndWritten, WaitForLock, CheckGameFinish, CancelGame, FinishGame,
      FinishUnrated, FinishWithResults, TypeOK
<1>6. CASE GameTimeout \/ ReportDirties \/ UNCHANGED vars
  BY <1>6 DEF GameTimeout, ReportDirties, vars
<1>7. QED
  BY <1>1, <1>2, <1>3, <1>4, <1>5, <1>6 DEF Next, Environment, LoopStep

\* Only joining an open game can make the host report "Idle" again.
LEMMA IdleNext ==
  ASSUME TypeOK, [Next]_vars, MayReportIdle', ~MayReportIdle
  PROVE  gstate = "LOBBY" /\ gstate' = gstate
<1> USE LifecycleAssumption
    DEF gameVars, serviceVars, sessionVars, taskVars, history, MayReportIdle
<1>1. ASSUME NEW s \in Sessions,
             \/ Login(s) \/ AdminKick(s) \/ UnauthenticatedMessage(s) \/ LinkDown(s)
             \/ CommandGameJoin(s)
             \/ HandleGameEnded(s) \/ ConnectionTimeout(s) \/ LoginDone(s)
             \/ KickSent(s) \/ Kick(s) \/ LoopEnds(s) \/ LoopEndsWithHost(s)
             \/ HostSent(s) \/ JoinSent(s) \/ PeerSent(s) \/ PeersConnected(s)
             \/ LaunchWritten(s) \/ HandleLaunching(s)
      PROVE  FALSE
  BY <1>1 DEF Login, AdminKick, UnauthenticatedMessage, LinkDown, CommandGameJoin,
      HandleGameEnded, ConnectionTimeout, LoginDone, KickSent, Kick, LoopEnds,
      LoopEndsWithHost, ConnectionLost, HostSent, JoinSent, PeerSent,
      PeersConnected, LaunchWritten, HandleLaunching
<1>2. ASSUME NEW s \in Sessions,
             \/ RestoreGameSession(s) \/ HandleIdle(s) \/ HandleLobby(s)
             \/ HandleEnded(s)
      PROVE  FALSE
  BY <1>2 DEF RestoreGameSession, HandleIdle, HandleLobby, HandleEnded, TypeOK
<1>3. ASSUME NEW s \in Sessions, JoinGame(s)
      PROVE  gstate = "LOBBY" /\ gstate' = gstate
  BY <1>3 DEF JoinGame
<1>4. ASSUME NEW t \in Tasks, LeaveStep(t) PROVE FALSE
  <2> USE <1>4 DEF LeaveStep, Abort, PeersTold, EndConnection, ReleasePlayer,
        CheckSimEnd, SimEndWritten, WaitForLock, CheckGameFinish, CancelGame,
        FinishGame, FinishUnrated, FinishWithResults
  <2>1. (attached' = attached /\ fa' = fa) \/ ReleasePlayer(t)  OBVIOUS
  <2>2. CASE ReleasePlayer(t)  BY <2>2, TaskFacts DEF ReleasePlayer, TypeOK
  <2>3. QED  BY <2>1, <2>2
<1>5. CASE GameTimeout \/ ReportDirties \/ UNCHANGED vars
  BY <1>5 DEF GameTimeout, ReportDirties, vars
<1>6. QED
  BY <1>1, <1>2, <1>3, <1>4, <1>5 DEF Next, Environment, LoopStep

\* Who changes the state of the game, and to what
LEMMA StateNext ==
  ASSUME TypeOK, [Next]_vars
  PROVE  \/ gstate' = gstate /\ published' = published
         \/ /\ gstate' = "LOBBY" /\ published' = published
            /\ MayReportIdle /\ \E s \in Sessions : HandleIdle(s)
         \/ gstate' = "LIVE" /\ \E s \in Sessions : HandleLaunching(s)
         \/ \E t \in Tasks : CancelGame(t) \/ FinishUnrated(t) \/ FinishWithResults(t)
         \/ GameTimeout
<1> USE DEF gameVars, serviceVars, sessionVars, taskVars, history
<1>1. ASSUME NEW s \in Sessions,
             \/ Login(s) \/ AdminKick(s) \/ UnauthenticatedMessage(s) \/ LinkDown(s)
             \/ CommandGameJoin(s) \/ HandleLobby(s) \/ RestoreGameSession(s)
             \/ HandleGameEnded(s) \/ HandleEnded(s) \/ ConnectionTimeout(s)
             \/ LoginDone(s) \/ KickSent(s) \/ Kick(s)
             \/ LoopEnds(s) \/ LoopEndsWithHost(s)
             \/ HostSent(s) \/ JoinSent(s) \/ PeerSent(s) \/ JoinGame(s)
             \/ PeersConnected(s) \/ LaunchWritten(s)
      PROVE  gstate' = gstate /\ published' = published
  BY <1>1 DEF Login, AdminKick, UnauthenticatedMessage, LinkDown, CommandGameJoin,
      HandleLobby, RestoreGameSession, HandleGameEnded, HandleEnded,
      ConnectionTimeout, LoginDone, KickSent, Kick, LoopEnds, LoopEndsWithHost,
      ConnectionLost, HostSent, JoinSent, PeerSent, JoinGame, PeersConnected,
      LaunchWritten
<1>2. ASSUME NEW s \in Sessions, HandleIdle(s)
      PROVE  \/ gstate' = gstate /\ published' = published
             \/ gstate' = "LOBBY" /\ published' = published /\ MayReportIdle
  BY <1>2 DEF HandleIdle, GameMessage, MayReportIdle
<1>3. ASSUME NEW s \in Sessions, HandleLaunching(s) PROVE gstate' = "LIVE"
  BY <1>3 DEF HandleLaunching
<1>4. ASSUME NEW t \in Tasks, LeaveStep(t)
      PROVE  \/ gstate' = gstate /\ published' = published
             \/ CancelGame(t) \/ FinishUnrated(t) \/ FinishWithResults(t)
  BY <1>4 DEF LeaveStep, Abort, PeersTold, EndConnection, ReleasePlayer,
              CheckSimEnd, SimEndWritten, WaitForLock, CheckGameFinish,
              FinishGame
<1>5. CASE ReportDirties \/ UNCHANGED vars  BY <1>5 DEF ReportDirties, vars
<1>6. QED  BY <1>1, <1>2, <1>3, <1>4, <1>5 DEF Next, Environment, LoopStep

\* Which steps put a coroutine where it writes results
LEMMA ResultsNext ==
  ASSUME TypeOK, [Next]_vars, NEW t \in Tasks, pc'[t] = "results"
  PROVE  pc[t] = "results" \/ FinishGame(t)
<1> USE DEF gameVars, serviceVars, sessionVars, taskVars, history, Goto, Await, Call
<1>1. ASSUME NEW s \in Sessions,
             \/ Login(s) \/ AdminKick(s) \/ UnauthenticatedMessage(s) \/ LinkDown(s)
             \/ CommandGameJoin(s) \/ HandleLobby(s) \/ RestoreGameSession(s)
             \/ HandleGameEnded(s) \/ HandleEnded(s) \/ ConnectionTimeout(s)
             \/ HandleIdle(s) \/ HandleLaunching(s) \/ LoginDone(s)
             \/ KickSent(s) \/ Kick(s)
      PROVE  pc[t] = "results"
  BY <1>1 DEF Login, AdminKick, UnauthenticatedMessage, LinkDown, CommandGameJoin,
      HandleLobby, RestoreGameSession, HandleGameEnded, HandleEnded,
      ConnectionTimeout, HandleIdle, HandleLaunching, LoginDone, KickSent, Kick,
      TypeOK
<1>2. ASSUME NEW s \in Sessions,
             \/ LoopEnds(s) \/ LoopEndsWithHost(s)
             \/ HostSent(s) \/ JoinSent(s) \/ PeerSent(s) \/ JoinGame(s)
             \/ PeersConnected(s) \/ LaunchWritten(s)
      PROVE  pc[t] = "results"
  BY <1>2 DEF LoopEnds, LoopEndsWithHost, ConnectionLost, HostSent, JoinSent,
              PeerSent, JoinGame, PeersConnected, LaunchWritten, TypeOK
<1>3. ASSUME NEW u \in Tasks, LeaveStep(u)
      PROVE  pc[t] = "results" \/ FinishGame(t)
  BY <1>3
  DEF LeaveStep, Abort, PeersTold, EndConnection, ReleasePlayer, CheckSimEnd,
      SimEndWritten, WaitForLock, CheckGameFinish, CancelGame, FinishGame,
      FinishUnrated, FinishWithResults, EndGame, Return, Leave, TypeOK
<1>4. CASE GameTimeout \/ ReportDirties \/ UNCHANGED vars
  BY <1>4 DEF GameTimeout, ReportDirties, vars
<1>5. QED  BY <1>1, <1>2, <1>3, <1>4 DEF Next, Environment, LoopStep

\* Every step keeps NoReopenInv.
LEMMA NoReopenNext ==
  ASSUME TypeOK, TypeOK', LockInv, HostingInv, NoReopenInv, [Next]_vars
  PROVE  NoReopenInv'
<1> USE DEF gameVars, serviceVars, sessionVars, taskVars, history
<1>1. CASE gstate' = gstate /\ published' = published
  <2>1. gstate' = "LIVE" \/ published' > 0 => ~MayReportIdle'
    BY <1>1, IdleNext DEF NoReopenInv
  <2>2. \A t \in Tasks : pc'[t] = "results" => gstate' = "LIVE"
    BY <1>1, ResultsNext DEF NoReopenInv, FinishGame
  <2>3. QED  BY <1>1, <2>1, <2>2 DEF NoReopenInv
<1>2. ASSUME NEW s \in Sessions, MayReportIdle, HandleIdle(s),
             gstate' = "LOBBY", published' = published
      PROVE  NoReopenInv'
  <2>1. gstate # "LIVE" /\ published = 0  BY <1>2 DEF NoReopenInv, TypeOK
  <2>2. pc' = pc  BY <1>2 DEF HandleIdle
  <2>3. QED  BY <1>2, <2>1, <2>2 DEF NoReopenInv
<1>3. ASSUME NEW s \in Sessions, HandleLaunching(s) PROVE NoReopenInv'
  <2> USE <1>3 DEF HandleLaunching
  <2>1. gstate = "LOBBY" /\ gstate' = "LIVE" /\ published' = published  OBVIOUS
  <2>2. ~MayReportIdle'  BY DEF HostingInv, MayReportIdle
  <2>3. published = 0  BY <2>1 DEF NoReopenInv, TypeOK
  <2>4. QED  BY <2>1, <2>2, <2>3 DEF NoReopenInv
<1>4. ASSUME NEW t \in Tasks, CancelGame(t) \/ FinishUnrated(t) \/ FinishWithResults(t)
      PROVE  NoReopenInv'
  <2> USE <1>4 DEF CancelGame, FinishUnrated, FinishWithResults, EndGame, At
  <2>1. gstate' = "ENDED" /\ pc[t] \in {"finish", "results"}  OBVIOUS
  <2>2. \A u \in Tasks : pc'[u] # "results"
    BY <2>1 DEF Return, LockInv, TypeOK
  <2>3. MayReportIdle' <=> MayReportIdle  BY DEF MayReportIdle
  <2>4. published' = published \/ gstate = "LIVE"
    BY DEF NoReopenInv
  <2>5. QED  BY <2>1, <2>2, <2>3, <2>4 DEF NoReopenInv
<1>5. CASE GameTimeout
  <2> USE <1>5 DEF GameTimeout
  <2>1. /\ gstate = "INITIALIZING" /\ gstate' = "ENDED"
        /\ published' = published /\ pc' = pc
    OBVIOUS
  <2>2. published = 0  BY <2>1 DEF NoReopenInv, TypeOK
  <2>3. QED  BY <2>1, <2>2 DEF NoReopenInv
<1>6. QED  BY <1>1, <1>2, <1>3, <1>4, <1>5, StateNext

\* The inductive strengthening of PublishedStaysEnded and PublishedOnce
PublishInv ==
    /\ FinishInv /\ HostingInv /\ NoReopenInv /\ PublishedOnce

\* Every step keeps PublishInv.
LEMMA PublishNext ==
  ASSUME TypeOK, TypeOK', PublishInv, [Next]_vars
  PROVE  PublishInv'
<1> USE DEF PublishInv
<1>1. FinishInv' /\ HostingInv' /\ NoReopenInv'
  BY FinishNext, HostingNext, NoReopenNext DEF FinishInv
<1>2. PublishedOnce'
  <2>1. CASE published' = published  BY <2>1 DEF PublishedOnce
  <2>2. ASSUME NEW t \in Tasks, FinishWithResults(t) PROVE PublishedOnce'
    BY <2>2 DEF FinishWithResults, At, NoReopenInv, PublishedOnce, TypeOK
  <2>3. published' = published \/ \E t \in Tasks : FinishWithResults(t)
    BY StateNext DEF HandleLaunching, CancelGame, FinishUnrated, GameTimeout, history
  <2>4. QED  BY <2>1, <2>2, <2>3
<1>3. QED  BY <1>1, <1>2

\* PublishInv is an invariant of the game.
LEMMA PublishAlways == Spec => []PublishInv
<1>1. Init => FinishInv
  BY TaskFacts DEF Init, FinishInv, StretchInv, KickInv, LockInv, Suspended
<1>2. Init => HostingInv /\ NoReopenInv /\ PublishedOnce
  BY LifecycleAssumption DEF Init, HostingInv, NoReopenInv, PublishedOnce
<1>3. Init => PublishInv  BY <1>1, <1>2 DEF PublishInv
<1>4. QED  BY <1>3, PublishNext, TypeCorrect, PTL DEF Spec

\* Whatever logins, kicks, timeouts and late messages come: once the results
\* of a game are published the game stays ENDED.
THEOREM PublishedGameStaysEnded == Spec => []PublishedStaysEnded
<1>1. PublishInv => PublishedStaysEnded
  BY DEF PublishInv, NoReopenInv, PublishedStaysEnded
<1>2. QED  BY <1>1, PublishAlways, PTL

\* The results of a game are published, and handed to the rating service, at
\* most once, for any number of sessions leaving in any order.
THEOREM PublishedAtMostOnce == Spec => []PublishedOnce
<1>1. PublishInv => PublishedOnce  BY DEF PublishInv
<1>2. QED  BY <1>1, PublishAlways, PTL

-----------------------------------------------------------------------------
(* The host of an open game *)

\* A step of a lobby connection
LEMMA HostSessionNext ==
  ASSUME TypeOK, HostInv, NEW s \in Sessions,
         \/ Login(s) \/ AdminKick(s) \/ UnauthenticatedMessage(s) \/ LinkDown(s)
         \/ CommandGameJoin(s) \/ RestoreGameSession(s)
         \/ HandleIdle(s) \/ HandleLobby(s) \/ HandleLaunching(s)
         \/ HandleGameEnded(s) \/ HandleEnded(s)
         \/ LoopStep(s) \/ ConnectionTimeout(s)
  PROVE  HostInv'
<1> SUFFICES ASSUME gstate' = "LOBBY"
             PROVE  HostSession \in conns' \/ \E t \in Tasks : HostLeaves(t)'
  BY DEF HostInv
<1> USE DEF gameVars, serviceVars, sessionVars, taskVars, history, At, LoopFree,
        GameMessage
<1>t. /\ Loop(s) \in Tasks /\ Loop(s)[1] = s
      /\ <<s, "kick">> \in Tasks /\ <<s, "tmo">> \in Tasks
  BY TaskFacts DEF Loop
<1>1. CASE HandleIdle(s) /\ s = HostSession  BY <1>1 DEF HandleIdle
<1>2. CASE ~(HandleIdle(s) /\ s = HostSession)
  <2>1. gstate = "LOBBY"
    BY <1>2 DEF Login, AdminKick, UnauthenticatedMessage, LinkDown, CommandGameJoin,
        RestoreGameSession, HandleIdle, HandleLobby, HandleLaunching,
        HandleGameEnded, HandleEnded, LoopStep, LoginDone, KickSent, Kick, LoopEnds,
        LoopEndsWithHost, ConnectionLost, JoinGame, HostSent, JoinSent, PeerSent,
        PeersConnected, LaunchWritten, ConnectionTimeout
  <2>2. HostSession \in conns
    <3>1. \A t \in Tasks :
            ~(running = {t} /\ pc[t] \in {"check", "lock", "finish"})
      BY <1>t DEF Login, AdminKick, UnauthenticatedMessage, LinkDown,
          CommandGameJoin, RestoreGameSession, HandleIdle, HandleLobby,
          HandleLaunching, HandleGameEnded, HandleEnded, LoopStep, LoginDone,
          KickSent, Kick, LoopEnds, LoopEndsWithHost, JoinGame, HostSent, JoinSent,
          PeerSent, PeersConnected, LaunchWritten, ConnectionTimeout
    <3>2. QED  BY <2>1, <3>1 DEF HostInv, HostLeaves
  <2>3. CASE conns \subseteq conns'  BY <2>2, <2>3
  <2>4. CASE conns' = conns \ {s} /\ \E r : Call(Loop(s), "check", r)
    <3>1. CASE s # HostSession  BY <2>2, <2>4, <3>1
    <3>2. CASE s = HostSession
      <4>1. HostLeaves(Loop(s))'
        BY <1>t, <2>4, <3>2 DEF HostLeaves, Call, Goto, TypeOK
      <4>2. QED  BY <1>t, <4>1
    <3>3. QED  BY <3>1, <3>2
  <2>5. \/ conns \subseteq conns'
        \/ conns' = conns \ {s} /\ \E r : Call(Loop(s), "check", r)
    BY <1>2 DEF Login, AdminKick, UnauthenticatedMessage, LinkDown, CommandGameJoin,
        RestoreGameSession, HandleIdle, HandleLobby, HandleLaunching,
        HandleGameEnded, HandleEnded, LoopStep, LoginDone, KickSent, Kick, LoopEnds,
        LoopEndsWithHost, ConnectionLost, JoinGame, HostSent, JoinSent, PeerSent,
        PeersConnected, LaunchWritten, ConnectionTimeout
  <2>6. QED  BY <2>3, <2>4, <2>5
<1>3. QED  BY <1>1, <1>2

\* A step of a coroutine that leaves
LEMMA HostLeaveNext ==
  ASSUME TypeOK, StretchInv, LockInv, NoReopenInv, HostInv, NEW u \in Tasks,
         LeaveStep(u)
  PROVE  HostInv'
<1> SUFFICES ASSUME gstate' = "LOBBY"
             PROVE  HostSession \in conns' \/ \E t \in Tasks : HostLeaves(t)'
  BY DEF HostInv
<1> USE DEF gameVars, serviceVars, sessionVars, taskVars, history, At
<1>t. u[1] \in Sessions  BY TaskFacts
<1>1. gstate = "LOBBY"
  BY DEF LeaveStep, Abort, PeersTold, EndConnection, ReleasePlayer, CheckSimEnd,
         SimEndWritten, WaitForLock, CheckGameFinish, CancelGame, FinishGame,
         FinishUnrated, FinishWithResults, EndGame
<1>2. CASE HostSession \in conns
  <2>1. CASE conns' = conns  BY <1>2, <2>1
  <2>2. CASE EndConnection(u) /\ u[1] # HostSession
    BY <1>2, <2>2 DEF EndConnection
  <2>3. CASE EndConnection(u) /\ u[1] = HostSession
    <3>1. HostLeaves(u)'
      BY <1>2, <2>3 DEF EndConnection, HostLeaves, Call, Goto, TypeOK
    <3>2. QED  BY <3>1
  <2>4. conns' = conns \/ EndConnection(u)
    BY DEF LeaveStep, Abort, PeersTold, ReleasePlayer, CheckSimEnd,
           SimEndWritten, WaitForLock, CheckGameFinish, CancelGame, FinishGame,
           FinishUnrated, FinishWithResults
  <2>5. QED  BY <2>1, <2>2, <2>3, <2>4
<1>3. CASE \E t \in Tasks : HostLeaves(t)
  <2>1. PICK t \in Tasks : HostLeaves(t)  BY <1>3
  <2>2. u = t
    BY <2>1 DEF HostLeaves, LeaveStep, Abort, PeersTold, EndConnection,
           ReleasePlayer, CheckSimEnd, SimEndWritten, WaitForLock,
           CheckGameFinish, CancelGame, FinishGame, FinishUnrated,
           FinishWithResults
  <2>3. CASE CheckSimEnd(u)
    BY <1>1, <2>1, <2>2, <2>3 DEF HostLeaves, CheckSimEnd, Goto, TypeOK
  <2>4. ~WaitForLock(u)
    BY <1>1, <2>1, <2>2
    DEF WaitForLock, LockInv, StretchInv, NoReopenInv, Suspended, TypeOK
  <2>5. CASE CheckGameFinish(u)
    BY <1>1, <2>1, <2>2, <2>5
    DEF HostLeaves, CheckGameFinish, MustFinish, Goto, TypeOK
  <2>6. ~CancelGame(u) /\ ~FinishGame(u)
    BY <1>1 DEF CancelGame, EndGame, FinishGame
  <2>7. CheckSimEnd(u) \/ WaitForLock(u) \/ CheckGameFinish(u) \/ CancelGame(u)
        \/ FinishGame(u)
    BY <2>1, <2>2
    DEF HostLeaves, LeaveStep, Abort, PeersTold, EndConnection, ReleasePlayer,
        SimEndWritten, FinishUnrated, FinishWithResults
  <2>8. QED  BY <2>3, <2>4, <2>5, <2>6, <2>7
<1>4. QED  BY <1>1, <1>2, <1>3 DEF HostInv

\* Every step keeps HostInv.
LEMMA HostNext ==
  ASSUME TypeOK, PublishInv, HostInv, [Next]_vars
  PROVE  HostInv'
<1>1. CASE Environment  BY <1>1, HostSessionNext DEF Environment
<1>2. CASE \E s \in Sessions : LoopStep(s) \/ ConnectionTimeout(s)
  BY <1>2, HostSessionNext
<1>3. CASE \E t \in Tasks : LeaveStep(t)
  BY <1>3, HostLeaveNext DEF PublishInv, FinishInv
<1>4. CASE GameTimeout  BY <1>4 DEF GameTimeout, HostInv
<1>5. CASE ReportDirties \/ UNCHANGED vars
  BY <1>5 DEF ReportDirties, vars, gameVars, taskVars, HostInv, HostLeaves
<1>6. QED  BY <1>1, <1>2, <1>3, <1>4, <1>5 DEF Next

\* Nobody ever sees an open game without its host: the stretch of the loop that
\* removes the host's connection ends the game, for any number of logins of the
\* host and any order of departures.
THEOREM OpenGameHasHost == Spec => []LobbyHasHost
<1>1. Init => HostInv  BY DEF Init, HostInv
<1>2. HostInv => LobbyHasHost
  BY DEF HostInv, LobbyHasHost, HostLeaves
<1>3. QED  BY <1>1, <1>2, HostNext, PublishAlways, TypeCorrect, PTL DEF Spec
-----------------------------------------------------------------------------
(* Connected players are busy *)

ConnsInv ==
    \A s \in conns : /\ cstate[s] = "CONNECTED_TO_HOST"
                     /\ pstate[s] \in {"HOSTING", "JOINING", "PLAYING"}
                     /\ fa[s] # "off"

\* A guest whom connect_to_host is about to add is joining, unless an abort
\* has ended its connection
GuestInv ==
    \A s \in Sessions :
        pc[Loop(s)] \in {"sendJoin", "sendPeer"} /\ cstate[s] # "ENDED" =>
            pstate[s] \in {"JOINING", "PLAYING"} /\ fa[s] = "ready"

\* A connection exists while a session refers to it, and one is created once
CreatedInv ==
    \A s \in Sessions :
        /\ cstate[s] = "NONE" => ~attached[s]
        /\ pc[Loop(s)] = "joining" => cstate[s] = "NONE"

\* An abort has a connection, and past its middle that connection is ENDED
AbortInv ==
    \A t \in Tasks :
        /\ pc[t] = "tail" \/ ret[t] = "tail" => cstate[t[1]] = "ENDED"
        /\ pc[t] \in {"abort", "peers", "end"} \/ ret[t] = "abort"
             => cstate[t[1]] # "NONE"

\* The game process cannot bring an ENDED connection back with its "Idle":
\* before that message it can only be ENDED by a task that releases the
\* player in the same stretch
EndedInv ==
    \A s \in Sessions :
        cstate[s] = "ENDED" /\ attached[s] /\ fa[s] = "off" =>
            \E t \in Tasks : t[1] = s /\ pc[t] = "tail" /\ running = {t}

\* What keeps the connected players busy
BusyInv == ConnsInv /\ GuestInv /\ CreatedInv /\ AbortInv /\ EndedInv

\* The states of a player in a game
Busy == {"HOSTING", "JOINING", "PLAYING"}

\* While the release of EndedInv is pending no other task moves.
LEMMA NoneEnded ==
  ASSUME EndedInv, NEW t \in Tasks, running \subseteq {t}, pc[t] # "tail",
         NEW s \in Sessions, cstate[s] = "ENDED", attached[s], fa[s] = "off"
  PROVE  FALSE
BY DEF EndedInv

\* The same when the loop is idle.
LEMMA NoneEndedIdle ==
  ASSUME EndedInv, running = {},
         NEW s \in Sessions, cstate[s] = "ENDED", attached[s], fa[s] = "off"
  PROVE  FALSE
BY DEF EndedInv

\* A task moves on and no connection changes its state: what BusyInv asks of
\* the place it goes to.
LEMMA BusyMove ==
  ASSUME TypeOK, BusyInv, NEW t \in Tasks, NEW l, NEW r,
         running \subseteq {t}, pc[t] # "tail",
         pc' = [pc EXCEPT ![t] = l], ret' = [ret EXCEPT ![t] = r],
         conns' \subseteq conns, UNCHANGED <<cstate, attached>>,
         \A x \in Sessions : pstate'[x] \in {pstate[x], "PLAYING"},
         \A x \in Sessions : \/ fa'[x] = fa[x]
                             \/ t = Loop(x) /\ fa'[x] # "off",
         l = "joining" => cstate[t[1]] = "NONE",
         l \in {"abort", "peers", "end"} \/ r = "abort" => cstate[t[1]] # "NONE",
         l = "tail" \/ r = "tail" => cstate[t[1]] = "ENDED",
         l \in {"sendJoin", "sendPeer"} /\ cstate[t[1]] # "ENDED" =>
            pstate'[t[1]] \in {"JOINING", "PLAYING"} /\ fa'[t[1]] = "ready"
  PROVE  BusyInv'
<1>t. /\ \A x \in Sessions : Loop(x) \in Tasks /\ Loop(x)[1] = x
      /\ \A u \in Tasks : u[1] \in Sessions
  BY TaskFacts DEF Loop
<1>p. \A u \in Tasks : /\ pc'[u] = IF u = t THEN l ELSE pc[u]
                       /\ ret'[u] = IF u = t THEN r ELSE ret[u]
  BY DEF TypeOK
<1>1. ConnsInv'
  BY DEF TypeOK, BusyInv, ConnsInv
<1>2. GuestInv'
  <2> SUFFICES ASSUME NEW s \in Sessions, pc'[Loop(s)] \in {"sendJoin", "sendPeer"},
                      cstate[s] # "ENDED"
               PROVE  pstate'[s] \in {"JOINING", "PLAYING"} /\ fa'[s] = "ready"
    BY DEF GuestInv
  <2>1. CASE Loop(s) = t
    BY <1>t, <1>p, <2>1
  <2>2. CASE Loop(s) # t
    <3>1. pc[Loop(s)] \in {"sendJoin", "sendPeer"}
      BY <1>t, <1>p, <2>2
    <3>2. pstate[s] \in {"JOINING", "PLAYING"} /\ fa[s] = "ready"
      BY <3>1 DEF BusyInv, GuestInv
    <3> QED
      BY <2>2, <3>2
  <2> QED
    BY <2>1, <2>2
<1>3. CreatedInv'
  <2> SUFFICES ASSUME NEW s \in Sessions
               PROVE  /\ cstate[s] = "NONE" => ~attached[s]
                      /\ pc'[Loop(s)] = "joining" => cstate[s] = "NONE"
    BY DEF CreatedInv
  <2>1. cstate[s] = "NONE" => ~attached[s]
    BY DEF BusyInv, CreatedInv
  <2>2. pc'[Loop(s)] = "joining" => cstate[s] = "NONE"
    BY <1>t, <1>p DEF BusyInv, CreatedInv
  <2> QED
    BY <2>1, <2>2
<1>4. AbortInv'
  <2> SUFFICES ASSUME NEW u \in Tasks
               PROVE  /\ pc'[u] = "tail" \/ ret'[u] = "tail" => cstate[u[1]] = "ENDED"
                      /\ pc'[u] \in {"abort", "peers", "end"} \/ ret'[u] = "abort"
                           => cstate[u[1]] # "NONE"
    BY DEF AbortInv
  <2> QED
    BY <1>p DEF BusyInv, AbortInv
<1>5. EndedInv'
  <2> SUFFICES ASSUME NEW s \in Sessions, cstate[s] = "ENDED", attached[s],
                      fa'[s] = "off"
               PROVE  FALSE
    BY DEF EndedInv
  <2>1. fa[s] = "off"
    OBVIOUS
  <2> QED
    BY <2>1, NoneEnded DEF BusyInv
<1> QED
  BY <1>1, <1>2, <1>3, <1>4, <1>5 DEF BusyInv

\* The same when the task does not start to call anything.
LEMMA BusyGoes ==
  ASSUME TypeOK, BusyInv, NEW t \in Tasks, NEW l,
         running \subseteq {t}, pc[t] # "tail",
         pc' = [pc EXCEPT ![t] = l], UNCHANGED <<ret, conns, cstate, attached, pstate, fa>>,
         l = "joining" => cstate[t[1]] = "NONE",
         l \in {"abort", "peers", "end"} => cstate[t[1]] # "NONE",
         l = "tail" => cstate[t[1]] = "ENDED",
         l \in {"sendJoin", "sendPeer"} /\ cstate[t[1]] # "ENDED" =>
            pstate[t[1]] \in {"JOINING", "PLAYING"} /\ fa[t[1]] = "ready"
  PROVE  BusyInv'
<1>1. ret' = [ret EXCEPT ![t] = ret[t]]
  BY DEF TypeOK
<1>2. /\ ret[t] = "abort" => cstate[t[1]] # "NONE"
      /\ ret[t] = "tail" => cstate[t[1]] = "ENDED"
  BY DEF BusyInv, AbortInv
<1>3. DEFINE r == ret[t]
<1>4. ret' = [ret EXCEPT ![t] = r] /\ (r = "abort" => cstate[t[1]] # "NONE")
      /\ (r = "tail" => cstate[t[1]] = "ENDED")
  BY <1>1, <1>2
<1> HIDE DEF r
<1> QED
  BY <1>4, BusyMove

\* Nothing moves but the abort tasks that a login or an administrator starts.
LEMMA BusyIdle ==
  ASSUME BusyInv, running = {},
         UNCHANGED <<conns, cstate, attached, pstate, fa, ret>>,
         \A u \in Tasks : \/ pc'[u] = pc[u]
                          \/ u[2] = "kick" /\ pc'[u] \in {"kick", "kickSend"}
  PROVE  BusyInv'
<1>t. \A x \in Sessions : Loop(x) \in Tasks /\ Loop(x)[2] = "msg"
  BY TaskFacts DEF Loop
<1>1. ConnsInv'
  BY DEF BusyInv, ConnsInv
<1>2. \A x \in Sessions : pc'[Loop(x)] = pc[Loop(x)]
  BY <1>t
<1>3. GuestInv' /\ CreatedInv'
  BY <1>2 DEF BusyInv, GuestInv, CreatedInv
<1>4. AbortInv'
  <2> SUFFICES ASSUME NEW u \in Tasks
               PROVE  /\ pc'[u] = "tail" \/ ret[u] = "tail" => cstate[u[1]] = "ENDED"
                      /\ pc'[u] \in {"abort", "peers", "end"} \/ ret[u] = "abort"
                           => cstate[u[1]] # "NONE"
    BY DEF AbortInv
  <2> QED
    BY DEF BusyInv, AbortInv
<1>5. EndedInv'
  BY NoneEndedIdle DEF BusyInv, EndedInv
<1> QED
  BY <1>1, <1>3, <1>4, <1>5 DEF BusyInv

\* The player of an ENDED connection is let go.
LEMMA BusyRelease ==
  ASSUME TypeOK, BusyInv, NEW t \in Tasks, ReleasePlayer(t)
  PROVE  BusyInv'
<1> DEFINE s == t[1]
<1>t. /\ s \in Sessions /\ \A x \in Sessions : Loop(x) \in Tasks
      /\ \A u \in Tasks : u[1] \in Sessions
  BY TaskFacts DEF Loop
<1>1. /\ \A u \in Tasks : pc'[u] = IF u = t THEN "rest" ELSE pc[u]
      /\ UNCHANGED <<conns, cstate, ret>>
      /\ running \subseteq {t} /\ pc[t] = "tail"
  BY DEF ReleasePlayer, Leave, Await, TypeOK, gameVars, At
<1>2. \A x \in Sessions :
        /\ pstate'[x] = IF x = s THEN "IDLE" ELSE pstate[x]
        /\ fa'[x] = IF x = s THEN "off" ELSE fa[x]
        /\ x # s => attached'[x] = attached[x]
  BY <1>t DEF ReleasePlayer, TypeOK
<1>3. ~attached'[s]
  BY <1>t DEF ReleasePlayer, TypeOK
<1>4. cstate[s] = "ENDED"
  BY <1>1 DEF BusyInv, AbortInv
<1> HIDE DEF s
<1>5. ConnsInv'
  BY <1>1, <1>2, <1>4 DEF BusyInv, ConnsInv, TypeOK
<1>6. GuestInv'
  <2> SUFFICES ASSUME NEW x \in Sessions, pc'[Loop(x)] \in {"sendJoin", "sendPeer"},
                      cstate[x] # "ENDED"
               PROVE  pstate'[x] \in {"JOINING", "PLAYING"} /\ fa'[x] = "ready"
    BY <1>1 DEF GuestInv
  <2>1. x # s /\ pc[Loop(x)] \in {"sendJoin", "sendPeer"}
    BY <1>t, <1>1, <1>4
  <2> QED
    BY <1>2, <2>1 DEF BusyInv, GuestInv
<1>7. CreatedInv'
  <2> SUFFICES ASSUME NEW x \in Sessions
               PROVE  /\ cstate[x] = "NONE" => ~attached'[x]
                      /\ pc'[Loop(x)] = "joining" => cstate[x] = "NONE"
    BY <1>1 DEF CreatedInv
  <2>1. cstate[x] = "NONE" => ~attached'[x]
    BY <1>2, <1>4 DEF BusyInv, CreatedInv
  <2>2. pc'[Loop(x)] = "joining" => cstate[x] = "NONE"
    BY <1>t, <1>1 DEF BusyInv, CreatedInv
  <2> QED
    BY <2>1, <2>2
<1>8. AbortInv'
  BY <1>1 DEF BusyInv, AbortInv
<1>9. EndedInv'
  <2> SUFFICES ASSUME NEW x \in Sessions, cstate[x] = "ENDED", attached'[x],
                      fa'[x] = "off"
               PROVE  FALSE
    BY <1>1 DEF EndedInv
  <2>1. x # s
    BY <1>3
  <2>2. PICK u \in Tasks : u[1] = x /\ running = {u}
    BY <1>2, <2>1 DEF BusyInv, EndedInv
  <2>3. u = t
    BY <1>1, <2>2
  <2> QED
    BY <2>1, <2>2, <2>3 DEF s
<1> QED
  BY <1>5, <1>6, <1>7, <1>8, <1>9 DEF BusyInv

\* A connection ends and leaves the game.
LEMMA BusyEnd ==
  ASSUME TypeOK, BusyInv, NEW t \in Tasks, EndConnection(t)
  PROVE  BusyInv'
<1> DEFINE s == t[1]
           in == s \in conns
<1>t. /\ s \in Sessions /\ \A x \in Sessions : Loop(x) \in Tasks
      /\ \A u \in Tasks : u[1] \in Sessions
  BY TaskFacts DEF Loop
<1>1. /\ \A u \in Tasks :
           /\ pc'[u] = IF u = t THEN IF in THEN "check" ELSE "tail" ELSE pc[u]
           /\ ret'[u] = IF u = t /\ in THEN "tail" ELSE ret[u]
      /\ running' = {t} /\ running \subseteq {t} /\ pc[t] = "end"
  BY DEF EndConnection, Call, Goto, TypeOK, At
<1>2. /\ conns' = conns \ {s}
      /\ UNCHANGED <<attached, pstate, fa>>
      /\ \A x \in Sessions : cstate'[x] = IF x = s THEN "ENDED" ELSE cstate[x]
  BY <1>t DEF EndConnection, TypeOK, Call
<1>3. cstate[s] # "NONE"
  BY <1>1 DEF BusyInv, AbortInv
<1>4. \A x \in Sessions : attached[x] /\ fa[x] = "off" => cstate[x] # "ENDED"
  BY <1>1, NoneEnded DEF BusyInv
<1>5. fa[s] = "off" => ~in
  BY DEF BusyInv, ConnsInv
<1>6. s = t[1]
  OBVIOUS
<1> HIDE DEF s, in
<1>7. ConnsInv'
  BY <1>2 DEF BusyInv, ConnsInv, TypeOK
<1>8. GuestInv'
  <2> SUFFICES ASSUME NEW x \in Sessions, pc'[Loop(x)] \in {"sendJoin", "sendPeer"},
                      cstate'[x] # "ENDED"
               PROVE  pstate[x] \in {"JOINING", "PLAYING"} /\ fa[x] = "ready"
    BY <1>2 DEF GuestInv
  <2>1. pc[Loop(x)] \in {"sendJoin", "sendPeer"} /\ cstate[x] # "ENDED"
    BY <1>t, <1>1, <1>2
  <2> QED
    BY <2>1 DEF BusyInv, GuestInv
<1>9. CreatedInv'
  <2> SUFFICES ASSUME NEW x \in Sessions
               PROVE  /\ cstate'[x] = "NONE" => ~attached[x]
                      /\ pc'[Loop(x)] = "joining" => cstate'[x] = "NONE"
    BY <1>2 DEF CreatedInv
  <2>1. cstate'[x] = "NONE" => ~attached[x]
    BY <1>2 DEF BusyInv, CreatedInv
  <2>2. pc'[Loop(x)] = "joining" => cstate'[x] = "NONE"
    BY <1>t, <1>1, <1>2, <1>3 DEF BusyInv, CreatedInv
  <2> QED
    BY <2>1, <2>2
<1>10. AbortInv'
  <2> SUFFICES ASSUME NEW u \in Tasks
               PROVE  /\ pc'[u] = "tail" \/ ret'[u] = "tail" => cstate'[u[1]] = "ENDED"
                      /\ pc'[u] \in {"abort", "peers", "end"} \/ ret'[u] = "abort"
                           => cstate'[u[1]] # "NONE"
    BY DEF AbortInv
  <2> QED
    BY <1>t, <1>1, <1>2, <1>6 DEF BusyInv, AbortInv
<1>11. EndedInv'
  <2> SUFFICES ASSUME NEW x \in Sessions, cstate'[x] = "ENDED", attached[x],
                      fa[x] = "off"
               PROVE  t[1] = x /\ pc'[t] = "tail" /\ running' = {t}
    BY <1>2 DEF EndedInv
  <2>1. x = s
    BY <1>2, <1>4
  <2> QED
    BY <1>1, <1>5, <1>6, <2>1
<1> QED
  BY <1>7, <1>8, <1>9, <1>10, <1>11 DEF BusyInv

\* What the read loop does to the state of its connection: the player of a
\* connection that enters the game is busy, and none comes back from ENDED.
LEMMA BusyChange ==
  ASSUME TypeOK, BusyInv, NEW s \in Sessions, NEW l, l # "tail",
         running \subseteq {Loop(s)}, pc[Loop(s)] # "tail",
         pc' = [pc EXCEPT ![Loop(s)] = l], UNCHANGED ret,
         cstate[s] # "ENDED", cstate'[s] \notin {"NONE", "ENDED"},
         \A x \in Sessions \ {s} : /\ cstate'[x] = cstate[x]
                                   /\ pstate'[x] = pstate[x]
                                   /\ fa'[x] = fa[x]
                                   /\ attached'[x] = attached[x],
         conns' \ {s} \subseteq conns,
         s \in conns' => /\ cstate'[s] = "CONNECTED_TO_HOST"
                         /\ pstate'[s] \in Busy
                         /\ fa'[s] # "off",
         l \notin {"sendJoin", "sendPeer", "joining"}
  PROVE  BusyInv'
<1>t. /\ Loop(s) \in Tasks /\ Loop(s)[1] = s
      /\ \A x \in Sessions : Loop(x) \in Tasks /\ (Loop(x) = Loop(s) => x = s)
      /\ \A u \in Tasks : u[1] \in Sessions
  BY TaskFacts DEF Loop
<1>1. \A u \in Tasks : pc'[u] = IF u = Loop(s) THEN l ELSE pc[u]
  BY DEF TypeOK
<1>2. ConnsInv'
  <2> SUFFICES ASSUME NEW x \in conns'
               PROVE  /\ cstate'[x] = "CONNECTED_TO_HOST"
                      /\ pstate'[x] \in Busy
                      /\ fa'[x] # "off"
    BY DEF ConnsInv, Busy
  <2>1. CASE x = s
    BY <2>1
  <2>2. CASE x # s
    <3>1. x \in conns /\ x \in Sessions
      BY <2>2 DEF TypeOK
    <3> QED
      BY <2>2, <3>1 DEF BusyInv, ConnsInv, Busy
  <2> QED
    BY <2>1, <2>2
<1>3. GuestInv'
  <2> SUFFICES ASSUME NEW x \in Sessions, pc'[Loop(x)] \in {"sendJoin", "sendPeer"},
                      cstate'[x] # "ENDED"
               PROVE  pstate'[x] \in {"JOINING", "PLAYING"} /\ fa'[x] = "ready"
    BY DEF GuestInv
  <2>1. x # s /\ pc[Loop(x)] \in {"sendJoin", "sendPeer"}
    BY <1>t, <1>1
  <2> QED
    BY <2>1 DEF BusyInv, GuestInv
<1>4. CreatedInv'
  <2> SUFFICES ASSUME NEW x \in Sessions
               PROVE  /\ cstate'[x] = "NONE" => ~attached'[x]
                      /\ pc'[Loop(x)] = "joining" => cstate'[x] = "NONE"
    BY DEF CreatedInv
  <2>1. cstate'[x] = "NONE" => ~attached'[x]
    BY DEF BusyInv, CreatedInv
  <2>2. pc'[Loop(x)] = "joining" => cstate'[x] = "NONE"
    BY <1>t, <1>1 DEF BusyInv, CreatedInv
  <2> QED
    BY <2>1, <2>2
<1>5. AbortInv'
  <2> SUFFICES ASSUME NEW u \in Tasks
               PROVE  /\ pc'[u] = "tail" \/ ret[u] = "tail" => cstate'[u[1]] = "ENDED"
                      /\ pc'[u] \in {"abort", "peers", "end"} \/ ret[u] = "abort"
                           => cstate'[u[1]] # "NONE"
    BY DEF AbortInv
  <2>1. /\ pc[u] = "tail" \/ ret[u] = "tail" => cstate[u[1]] = "ENDED"
        /\ pc[u] \in {"abort", "peers", "end"} \/ ret[u] = "abort"
             => cstate[u[1]] # "NONE"
    BY DEF BusyInv, AbortInv
  <2>2. cstate'[u[1]] = cstate[u[1]] \/ u[1] = s
    BY <1>t
  <2> QED
    BY <1>t, <1>1, <2>1, <2>2
<1>6. EndedInv'
  <2> SUFFICES ASSUME NEW x \in Sessions, cstate'[x] = "ENDED", attached'[x],
                      fa'[x] = "off"
               PROVE  FALSE
    BY DEF EndedInv
  <2>1. x # s
    OBVIOUS
  <2>2. cstate[x] = "ENDED" /\ attached[x] /\ fa[x] = "off"
    BY <2>1
  <2> QED
    BY <1>t, <2>2, NoneEnded DEF BusyInv
<1> QED
  BY <1>2, <1>3, <1>4, <1>5, <1>6 DEF BusyInv

\* The read loop gives up the connection.
LEMMA BusyLost ==
  ASSUME TypeOK, BusyInv, NEW s \in Sessions, ConnectionLost(s),
         running \subseteq {Loop(s)}, pc[Loop(s)] # "tail"
  PROVE  BusyInv'
<1>t. Loop(s) \in Tasks /\ Loop(s)[1] = s /\ \A x \in Sessions : Loop(x) \in Tasks
  BY TaskFacts DEF Loop
<1>0. UNCHANGED <<cstate, attached, pstate, fa>>
  BY DEF ConnectionLost
<1>1. CASE ~attached[s]
  BY <1>t, <1>0, <1>1, BusyGoes DEF ConnectionLost, Await
<1>2. CASE attached[s]
  <2>1. cstate[s] # "NONE"
    BY <1>2 DEF BusyInv, CreatedInv
  <2>2. CASE s \in conns
    <3>1. /\ pc' = [pc EXCEPT ![Loop(s)] = "check"]
          /\ ret' = [ret EXCEPT ![Loop(s)] = "abort"]
          /\ conns' \subseteq conns
      BY <1>2, <2>2 DEF ConnectionLost, Call, Goto
    <3> QED
      BY <1>t, <1>0, <2>1, <3>1, BusyMove
  <2>3. CASE s \notin conns
    <3>1. pc' = [pc EXCEPT ![Loop(s)] = "abort"] /\ UNCHANGED <<ret, conns>>
      BY <1>2, <2>3 DEF ConnectionLost, Goto
    <3> QED
      BY <1>t, <1>0, <2>1, <3>1, BusyGoes
  <2> QED
    BY <2>2, <2>3
<1> QED
  BY <1>1, <1>2

\* Messages, logins and failures keep BusyInv.
LEMMA BusyEnvironment ==
  ASSUME TypeOK, BusyInv, NEW s \in Sessions,
         \/ Login(s) \/ AdminKick(s) \/ UnauthenticatedMessage(s) \/ LinkDown(s)
         \/ CommandGameJoin(s) \/ RestoreGameSession(s)
         \/ HandleIdle(s) \/ HandleLobby(s) \/ HandleLaunching(s)
         \/ HandleGameEnded(s) \/ HandleEnded(s)
  PROVE  BusyInv'
<1>t. /\ Loop(s) \in Tasks /\ Loop(s)[1] = s
      /\ <<s, "kick">> \in Tasks /\ <<s, "kick">>[2] = "kick"
  BY TaskFacts DEF Loop
<1> USE DEF gameVars, serviceVars, sessionVars, taskVars, history
<1>1. CASE Login(s)
  <2>1. \A u \in Tasks : pc'[u] = pc[u] \/ (u[2] = "kick" /\ pc'[u] = "kick")
    BY <1>1 DEF Login
  <2> QED
    BY <1>1, <2>1, BusyIdle DEF Login
<1>2. CASE AdminKick(s)
  <2>1. \A u \in Tasks : pc'[u] = pc[u] \/ (u[2] = "kick" /\ pc'[u] = "kickSend")
    BY <1>2, <1>t DEF AdminKick, TypeOK
  <2> QED
    BY <1>2, <2>1, BusyIdle DEF AdminKick
<1>3. CASE LinkDown(s)
  BY <1>3, BusyIdle DEF LinkDown
<1>late. CASE UnauthenticatedMessage(s)
  <2>1. PICK l \in {"rest", "abort"} : /\ pc' = [pc EXCEPT ![Loop(s)] = l]
                                       /\ l = "abort" => attached[s]
    BY <1>late DEF UnauthenticatedMessage, Await, Goto
  <2>2. l = "abort" => cstate[s] # "NONE"
    BY <2>1 DEF BusyInv, CreatedInv
  <2> QED
    BY <1>t, <1>late, <2>1, <2>2, BusyGoes DEF UnauthenticatedMessage, LoopFree, At
<1>4. CASE CommandGameJoin(s)
  BY <1>t, <1>4, BusyGoes DEF CommandGameJoin, Await, LoopFree, At
<1>5. CASE RestoreGameSession(s)
  <2>1. /\ running \subseteq {Loop(s)} /\ pc[Loop(s)] = "rest"
        /\ pc' = [pc EXCEPT ![Loop(s)] = "rest"] /\ UNCHANGED ret
    BY <1>t, <1>5 DEF RestoreGameSession, LoopFree, At, TypeOK
  <2>2. /\ cstate[s] = "NONE" /\ cstate'[s] = "CONNECTED_TO_HOST"
        /\ pstate'[s] = "PLAYING" /\ fa'[s] = "ready" /\ conns' = conns \cup {s}
        /\ \A x \in Sessions \ {s} : /\ cstate'[x] = cstate[x]
                                     /\ pstate'[x] = pstate[x]
                                     /\ fa'[x] = fa[x]
                                     /\ attached'[x] = attached[x]
    BY <1>5 DEF RestoreGameSession, TypeOK
  <2> QED
    BY <2>1, <2>2, BusyChange DEF Busy
<1>6. CASE HandleIdle(s)
  <2>1. /\ running \subseteq {Loop(s)} /\ pc[Loop(s)] = "rest"
        /\ pc' = [pc EXCEPT ![Loop(s)] = "rest"] /\ UNCHANGED <<ret, attached>>
        /\ attached[s] /\ fa[s] = "off"
    BY <1>t, <1>6 DEF HandleIdle, GameMessage, LoopFree, At, TypeOK
  <2>2. cstate[s] # "ENDED"
    BY <1>t, <2>1, NoneEnded DEF BusyInv
  <2>3. s \notin conns
    BY <2>1 DEF BusyInv, ConnsInv
  <2>4. \A x \in Sessions \ {s} : /\ cstate'[x] = cstate[x]
                                  /\ pstate'[x] = pstate[x]
                                  /\ fa'[x] = fa[x]
    BY <1>6 DEF HandleIdle, TypeOK
  <2>5. /\ fa'[s] = "idle"
        /\ \/ /\ cstate'[s] = "CONNECTED_TO_HOST" /\ pstate'[s] = "HOSTING"
              /\ conns' = conns \cup {s}
           \/ cstate'[s] = "INITIALIZED" /\ conns' = conns
    BY <1>6 DEF HandleIdle, TypeOK
  <2> QED
    BY <2>1, <2>2, <2>3, <2>4, <2>5, BusyChange DEF Busy
<1>7. CASE HandleLobby(s)
  <2>1. /\ running \subseteq {Loop(s)} /\ pc[Loop(s)] = "rest" /\ attached[s]
        /\ UNCHANGED <<ret, conns, cstate, attached, pstate>>
        /\ fa'[s] = "ready" /\ \A x \in Sessions \ {s} : fa'[x] = fa[x]
    BY <1>7 DEF HandleLobby, GameMessage, LoopFree, At, TypeOK
  <2>2. cstate[s] # "NONE"
    BY <2>1 DEF BusyInv, CreatedInv
  <2>3. PICK l \in {"sendHost", "sendJoin", "abort"} :
          /\ pc' = [pc EXCEPT ![Loop(s)] = l]
          /\ l = "sendJoin" => pstate[s] = "JOINING"
    BY <1>7 DEF HandleLobby, Await, Goto
  <2>4. /\ ret[Loop(s)] = "abort" => cstate[s] # "NONE"
        /\ ret[Loop(s)] = "tail" => cstate[s] = "ENDED"
        /\ ret' = [ret EXCEPT ![Loop(s)] = ret[Loop(s)]]
    BY <1>t, <2>1 DEF BusyInv, AbortInv, TypeOK
  <2>5. PICK r : r = ret[Loop(s)]
    OBVIOUS
  <2>6. /\ ret' = [ret EXCEPT ![Loop(s)] = r]
        /\ r = "tail" => cstate[s] = "ENDED"
        /\ conns' \subseteq conns
        /\ \A x \in Sessions : pstate'[x] \in {pstate[x], "PLAYING"}
    BY <2>1, <2>4, <2>5
  <2>7. PICK t \in Tasks : t = Loop(s) /\ t[1] = s
    BY <1>t
  <2>8. /\ UNCHANGED <<cstate, attached>> /\ running \subseteq {t}
        /\ pc[t] # "tail" /\ pc' = [pc EXCEPT ![t] = l]
        /\ ret' = [ret EXCEPT ![t] = r]
    BY <2>1, <2>3, <2>6, <2>7
  <2>9. \A x \in Sessions : fa'[x] = fa[x] \/ (t = Loop(x) /\ fa'[x] # "off")
    BY <2>1, <2>7
  <2>10. /\ l # "joining"
         /\ l = "tail" \/ r = "tail" => cstate[t[1]] = "ENDED"
         /\ cstate[t[1]] # "NONE"
         /\ l \in {"sendJoin", "sendPeer"} =>
              pstate'[t[1]] \in {"JOINING", "PLAYING"} /\ fa'[t[1]] = "ready"
    BY <2>1, <2>2, <2>3, <2>6, <2>7
  <2> QED
    BY <2>6, <2>8, <2>9, <2>10, BusyMove
<1>8. CASE HandleLaunching(s)
  <2>1. /\ running \subseteq {Loop(s)} /\ pc[Loop(s)] = "rest"
        /\ UNCHANGED <<ret, conns, cstate, attached, fa>>
        /\ pc' = [pc EXCEPT ![Loop(s)] = "launching"]
    BY <1>8 DEF HandleLaunching, GameMessage, LoopFree, At, Await
  <2>2. \A x \in Sessions : pstate'[x] \in {pstate[x], "PLAYING"}
    BY <1>8 DEF HandleLaunching
  <2>3. /\ ret[Loop(s)] = "abort" => cstate[s] # "NONE"
        /\ ret[Loop(s)] = "tail" => cstate[s] = "ENDED"
        /\ ret' = [ret EXCEPT ![Loop(s)] = ret[Loop(s)]]
    BY <1>t, <2>1 DEF BusyInv, AbortInv, TypeOK
  <2>4. PICK r : r = ret[Loop(s)]
    OBVIOUS
  <2>5. /\ ret' = [ret EXCEPT ![Loop(s)] = r]
        /\ r = "abort" => cstate[s] # "NONE"
        /\ r = "tail" => cstate[s] = "ENDED"
        /\ conns' \subseteq conns
    BY <2>1, <2>3, <2>4
  <2>6. /\ UNCHANGED <<cstate, attached>> /\ running \subseteq {Loop(s)}
        /\ pc[Loop(s)] # "tail" /\ pc' = [pc EXCEPT ![Loop(s)] = "launching"]
        /\ \A x \in Sessions : fa'[x] = fa[x]
    BY <2>1
  <2> QED
    BY <1>t, <2>2, <2>5, <2>6, BusyMove
<1>9. CASE HandleGameEnded(s)
  <2>1. /\ running \subseteq {Loop(s)} /\ pc[Loop(s)] = "rest"
        /\ UNCHANGED <<conns, cstate, attached, pstate, fa>>
        /\ pc' = [pc EXCEPT ![Loop(s)] = "check"]
        /\ ret' = [ret EXCEPT ![Loop(s)] = "rest"]
    BY <1>9 DEF HandleGameEnded, GameMessage, LoopFree, At, Call, Goto
  <2> QED
    BY <1>t, <2>1, BusyMove
<1>10. CASE HandleEnded(s)
  <2>1. /\ running \subseteq {Loop(s)} /\ pc[Loop(s)] = "rest" /\ attached[s]
        /\ UNCHANGED <<cstate, attached, pstate>> /\ conns' \subseteq conns
        /\ fa'[s] = "closed" /\ \A x \in Sessions \ {s} : fa'[x] = fa[x]
    BY <1>10 DEF HandleEnded, GameMessage, LoopFree, At, TypeOK
  <2>2. cstate[s] # "NONE"
    BY <2>1 DEF BusyInv, CreatedInv
  <2>3. /\ ret[Loop(s)] = "abort" => cstate[s] # "NONE"
        /\ ret[Loop(s)] = "tail" => cstate[s] = "ENDED"
        /\ ret = [ret EXCEPT ![Loop(s)] = ret[Loop(s)]]
    BY <1>t DEF BusyInv, AbortInv, TypeOK
  <2>4. PICK r : r = IF s \in conns THEN "abort" ELSE ret[Loop(s)]
    OBVIOUS
  <2>5. ret' = [ret EXCEPT ![Loop(s)] = r]
    BY <1>10, <2>3, <2>4 DEF HandleEnded, Call
  <2>6. PICK l \in {"check", "abort"} : pc' = [pc EXCEPT ![Loop(s)] = l]
    BY <1>10 DEF HandleEnded, Call, Goto
  <2>7. r = "tail" => cstate[s] = "ENDED"
    BY <2>3, <2>4
  <2> QED
    BY <1>t, <2>1, <2>2, <2>5, <2>6, <2>7, BusyMove
<1> QED
  BY <1>1, <1>2, <1>3, <1>late, <1>4, <1>5, <1>6, <1>7, <1>8, <1>9, <1>10

\* The read loop and the setup timeout keep BusyInv.
LEMMA BusyLoop ==
  ASSUME TypeOK, BusyInv, NEW s \in Sessions, LoopStep(s) \/ ConnectionTimeout(s)
  PROVE  BusyInv'
<1>t. /\ Loop(s) \in Tasks /\ Loop(s)[1] = s
      /\ <<s, "kick">> \in Tasks /\ <<s, "kick">>[1] = s
      /\ <<s, "tmo">> \in Tasks /\ <<s, "tmo">>[1] = s
  BY TaskFacts DEF Loop
<1> USE DEF gameVars, serviceVars, sessionVars, taskVars, history
<1>1. CASE ConnectionTimeout(s)
  BY <1>t, <1>1, BusyGoes DEF ConnectionTimeout, Goto, At
<1>2. CASE LoginDone(s)
  BY <1>2, BusyIdle DEF LoginDone
<1>3. CASE KickSent(s)
  <2>1. PICK l \in {"rest", "kick"} : pc' = [pc EXCEPT ![<<s, "kick">>] = l]
    BY <1>3 DEF KickSent, Await, Goto
  <2> QED
    BY <1>t, <1>3, <2>1, BusyGoes DEF KickSent, At
<1>4. CASE Kick(s)
  <2>1. PICK l \in {"rest", "abort"} : /\ pc' = [pc EXCEPT ![<<s, "kick">>] = l]
                                       /\ l = "abort" => attached[s]
    BY <1>4 DEF Kick, Await, Goto
  <2>2. l = "abort" => cstate[s] # "NONE"
    BY <2>1 DEF BusyInv, CreatedInv
  <2> QED
    BY <1>t, <1>4, <2>1, <2>2, BusyGoes DEF Kick, At
<1>5. CASE LoopEnds(s)
  BY <1>5, BusyLost DEF LoopEnds, At
<1>6. CASE LoopEndsWithHost(s)
  BY <1>6, BusyLost DEF LoopEndsWithHost, At
<1>7. CASE JoinGame(s)
  <2>1. /\ running \subseteq {Loop(s)} /\ pc[Loop(s)] = "joining"
        /\ pc' = [pc EXCEPT ![Loop(s)] = "rest"]
        /\ UNCHANGED <<ret, conns, fa>>
    BY <1>7 DEF JoinGame, At, Await
  <2>2. cstate[s] = "NONE" /\ s \notin conns
    BY <2>1 DEF BusyInv, CreatedInv, ConnsInv
  <2>3. CASE registered /\ gstate = "LOBBY"
    <3>1. /\ cstate'[s] = "INITIALIZING"
          /\ \A x \in Sessions \ {s} : /\ cstate'[x] = cstate[x]
                                       /\ pstate'[x] = pstate[x]
                                       /\ attached'[x] = attached[x]
      BY <1>7, <2>3 DEF JoinGame, TypeOK
    <3> QED
      BY <2>1, <2>2, <3>1, BusyChange
  <2>4. CASE ~(registered /\ gstate = "LOBBY")
    BY <1>t, <1>7, <2>1, <2>4, BusyGoes DEF JoinGame
  <2> QED
    BY <2>3, <2>4
<1>8. CASE HostSent(s) \/ PeersConnected(s) \/ LaunchWritten(s)
  <2>1. /\ running \subseteq {Loop(s)}
        /\ pc[Loop(s)] \in {"sendHost", "peering", "launching"}
        /\ pc' = [pc EXCEPT ![Loop(s)] = "rest"]
        /\ UNCHANGED <<ret, conns, cstate, attached, pstate, fa>>
    BY <1>8 DEF HostSent, PeersConnected, LaunchWritten, At, Await
  <2> QED
    BY <1>t, <2>1, BusyGoes
<1>9. CASE JoinSent(s)
  <2>1. /\ running \subseteq {Loop(s)} /\ pc[Loop(s)] = "sendJoin"
        /\ pc' = [pc EXCEPT ![Loop(s)] = "sendPeer"]
        /\ UNCHANGED <<ret, conns, cstate, attached, pstate, fa>>
    BY <1>9 DEF JoinSent, At, Await
  <2>2. cstate[s] # "ENDED" =>
          pstate[s] \in {"JOINING", "PLAYING"} /\ fa[s] = "ready"
    BY <2>1 DEF BusyInv, GuestInv
  <2> QED
    BY <1>t, <2>1, <2>2, BusyGoes
<1>10. CASE PeerSent(s)
  <2>1. /\ running \subseteq {Loop(s)} /\ pc[Loop(s)] = "sendPeer"
        /\ UNCHANGED <<ret, attached, pstate, fa>>
    BY <1>10 DEF PeerSent, At
  <2>2. CASE cstate[s] = "ENDED"
    <3>1. pc' = [pc EXCEPT ![Loop(s)] = "rest"] /\ UNCHANGED <<conns, cstate>>
      BY <1>10, <2>2 DEF PeerSent, Await
    <3> QED
      BY <1>t, <2>1, <3>1, BusyGoes
  <2>3. CASE cstate[s] # "ENDED"
    <3>1. PICK l \in {"abort", "rest", "peering"} : pc' = [pc EXCEPT ![Loop(s)] = l]
      BY <1>10, <2>3 DEF PeerSent, Await, Goto
    <3>2. /\ cstate'[s] = "CONNECTED_TO_HOST"
          /\ \A x \in Sessions \ {s} : cstate'[x] = cstate[x]
          /\ conns' \ {s} \subseteq conns
      BY <1>10, <2>3 DEF PeerSent, TypeOK
    <3>3. pstate[s] \in Busy /\ fa[s] = "ready"
      BY <2>1, <2>3 DEF BusyInv, GuestInv, Busy
    <3> QED
      BY <2>1, <2>3, <3>1, <3>2, <3>3, BusyChange
  <2> QED
    BY <2>2, <2>3
<1> QED
  BY <1>1, <1>2, <1>3, <1>4, <1>5, <1>6, <1>7, <1>8, <1>9, <1>10 DEF LoopStep

\* check_game_finish returns to its caller.
LEMMA BusyReturn ==
  ASSUME TypeOK, BusyInv, NEW t \in Tasks, Return(t),
         running \subseteq {t}, pc[t] # "tail",
         UNCHANGED <<conns, cstate, attached, pstate, fa>>
  PROVE  BusyInv'
<1>1. PICK l : l = ret[t]
  OBVIOUS
<1>2. /\ l \in {"rest", "abort", "tail"}
      /\ l = "abort" => cstate[t[1]] # "NONE"
      /\ l = "tail" => cstate[t[1]] = "ENDED"
  BY <1>1 DEF BusyInv, AbortInv, TypeOK
<1>3. pc' = [pc EXCEPT ![t] = l] /\ ret' = [ret EXCEPT ![t] = "rest"]
  BY <1>1 DEF Return
<1> QED
  BY <1>2, <1>3, BusyMove

\* A coroutine that leaves keeps BusyInv.
LEMMA BusyLeave ==
  ASSUME TypeOK, BusyInv, NEW t \in Tasks, LeaveStep(t)
  PROVE  BusyInv'
<1> USE DEF gameVars, serviceVars, sessionVars, taskVars, history
<1>1. CASE Abort(t)
  <2>1. PICK l \in {"rest", "peers", "end"} : pc' = [pc EXCEPT ![t] = l]
    BY <1>1 DEF Abort, Leave, Await, Goto
  <2>2. cstate[t[1]] # "NONE"
    BY <1>1 DEF Abort, At, BusyInv, AbortInv
  <2> QED
    BY <1>1, <2>1, <2>2, BusyGoes DEF Abort, At
<1>2. CASE PeersTold(t)
  <2>1. cstate[t[1]] # "NONE"
    BY <1>2 DEF PeersTold, At, BusyInv, AbortInv
  <2> QED
    BY <1>2, <2>1, BusyGoes DEF PeersTold, Goto, At
<1>3. CASE EndConnection(t)
  BY <1>3, BusyEnd
<1>4. CASE ReleasePlayer(t)
  BY <1>4, BusyRelease
<1>5. CASE CheckSimEnd(t)
  <2>1. PICK l \in {"simEnd", "lock"} : pc' = [pc EXCEPT ![t] = l]
    BY <1>5 DEF CheckSimEnd, Await, Goto
  <2> QED
    BY <1>5, <2>1, BusyGoes DEF CheckSimEnd, At
<1>6. CASE SimEndWritten(t)
  BY <1>6, BusyGoes DEF SimEndWritten, Goto, At
<1>7. CASE WaitForLock(t)
  <2>1. pc' = [pc EXCEPT ![t] = "lock"]
    BY <1>7 DEF WaitForLock, TypeOK
  <2> QED
    BY <1>7, <2>1, BusyGoes DEF WaitForLock
<1>8. CASE CheckGameFinish(t)
  <2>1. CASE MustFinish(t)
    BY <1>8, <2>1, BusyGoes DEF CheckGameFinish, Goto, At
  <2>2. CASE ~MustFinish(t)
    BY <1>8, <2>2, BusyReturn DEF CheckGameFinish, At
  <2> QED
    BY <2>1, <2>2
<1>9. CASE CancelGame(t) \/ FinishUnrated(t) \/ FinishWithResults(t)
  <2>1. /\ Return(t) /\ running \subseteq {t} /\ pc[t] # "tail"
        /\ UNCHANGED <<conns, cstate, attached, pstate, fa>>
    BY <1>9 DEF CancelGame, FinishUnrated, FinishWithResults, EndGame, At
  <2> QED
    BY <2>1, BusyReturn
<1>10. CASE FinishGame(t)
  BY <1>10, BusyGoes DEF FinishGame, Await, At
<1> QED
  BY <1>1, <1>2, <1>3, <1>4, <1>5, <1>6, <1>7, <1>8, <1>9, <1>10 DEF LeaveStep

\* Every step keeps BusyInv.
LEMMA BusyNext ==
  ASSUME TypeOK, BusyInv, [Next]_vars
  PROVE  BusyInv'
<1>1. CASE Environment
  BY <1>1, BusyEnvironment DEF Environment
<1>2. CASE \E s \in Sessions : LoopStep(s) \/ ConnectionTimeout(s)
  BY <1>2, BusyLoop
<1>3. CASE \E t \in Tasks : LeaveStep(t)
  BY <1>3, BusyLeave
<1>4. CASE GameTimeout \/ ReportDirties
  <2>1. running = {} /\ UNCHANGED <<conns, cstate, attached, pstate, fa, ret, pc>>
    BY <1>4 DEF GameTimeout, ReportDirties, gameVars, sessionVars, taskVars
  <2> QED
    BY <2>1, BusyIdle
<1>5. CASE UNCHANGED vars
  BY <1>5 DEF vars, gameVars, sessionVars, taskVars,
      BusyInv, ConnsInv, GuestInv, CreatedInv, AbortInv, EndedInv
<1> QED
  BY <1>1, <1>2, <1>3, <1>4, <1>5 DEF Next

\* Whatever aborts, kicks, timeouts and late answers of connect_to_host come in
\* whichever order: a player in _connections has a connection that is up and
\* counts as busy.
THEOREM ConnectedAreBusy == Spec => []ConnectedPlayersAreBusy
<1>1. Init => BusyInv
  BY TaskFacts, LifecycleAssumption
  DEF Init, BusyInv, ConnsInv, GuestInv, CreatedInv, AbortInv, EndedInv
<1>2. BusyInv => ConnectedPlayersAreBusy
  BY DEF BusyInv, ConnsInv, ConnectedPlayersAreBusy
<1> QED
  BY <1>1, <1>2, BusyNext, TypeCorrect, PTL DEF Spec
=============================================================================

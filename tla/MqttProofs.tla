----------------------------- MODULE MqttProofs -----------------------------
(***************************************************************************)
(* Proofs about MqttClient, for any topics and any limit on the attempts,  *)
(* and about StationLink on top of them.                                   *)
(*                                                                         *)
(* The client's checked invariants are not inductive: they need to know    *)
(* that mutex_ excludes, that connect() past its socket still has it, and  *)
(* what the destructor has already taken down.  Of the assumptions only    *)
(* the client's own is used for its theorems.                              *)
(*                                                                         *)
(* The station uses the client legally, so what is proved of MqttClient    *)
(* holds in the station; what an ONLINE station believes subscribed is     *)
(* served; messages keep their order; and before the first connection is   *)
(* lost only what the library itself refuses is missing.                   *)
(***************************************************************************)
EXTENDS StationLink, TLAPS

-----------------------------------------------------------------------------
(* The client. *)


\* mutex_ has at most one holder.
Exclusive ==
    \A c, d \in Callers : pc[c] \in Section /\ pc[d] \in Section => c = d

\* connect() keeps the socket it has opened until it returns.
SocketInside ==
    \A c \in Callers : pc[c] \in Section \ {"socket"} => socket = "open"

\* The destructor's progress.
Dismantled ==
    /\ pc["app"] \in {"dDisconnect", "dJoin", "destroyed", "terminated"} => pc["recon"] = "none"
    /\ pc["app"] \in {"dJoin", "destroyed"} => ~connected /\ socket = "none"
    /\ pc["app"] = "destroyed" => refresher = "none"

IInv ==
    TypeOK /\ ConnectingIsOwned /\ ConnectedHasSocket
    /\ Exclusive /\ SocketInside /\ Dismantled

LEMMA IInvInit == Init => IInv
  <1> SUFFICES ASSUME Init PROVE IInv
    OBVIOUS
  <1>1. pc["app"] = "idle" /\ pc["recon"] = "none" /\ \A c \in Callers : pc[c] \notin Section
    BY DEF Init, Callers, Section
  <1>2. TypeOK
    <2>1. pc \in [Callers -> AppPc \cup ReconPc]
      BY DEF Init, Callers, AppPc, ReconPc
    <2>2. connected \in BOOLEAN /\ connecting \in BOOLEAN /\ auto \in BOOLEAN
      BY Zenon DEF Init
    <2> QED
      BY <1>1, <2>1, <2>2, MaxAttemptsAssumption
         DEF Init, TypeOK, AppPc, ReconPc, RefresherAlive
  <1>3. ConnectingIsOwned /\ ConnectedHasSocket
    BY <1>1 DEF Init, ConnectingIsOwned, ConnectedHasSocket
  <1>4. Exclusive /\ SocketInside /\ Dismantled
    BY <1>1 DEF Init, Exclusive, SocketInside, Dismantled
  <1> QED
    BY <1>2, <1>3, <1>4 DEF IInv

\* A step of connect() by either thread.
LEMMA ConnectKeepsIInv ==
  ASSUME IInv, NEW c \in Callers, Connect(c)
  PROVE  IInv'
  <1> USE MaxAttemptsAssumption
      DEF IInv, TypeOK, ConnectingIsOwned, ConnectedHasSocket, Exclusive,
          SocketInside, Dismantled, Callers, Section, AppPc, ReconPc,
          RefresherAlive, MutexFree, Goto, Step, Return, flags, broker
  <1>1. CASE ConnectRefused(c)
    BY <1>1 DEF ConnectRefused
  <1>2. CASE ConnectBegin(c)
    BY <1>2 DEF ConnectBegin
  <1>3. CASE SocketOpened(c)
    BY <1>3 DEF SocketOpened
  <1>4. CASE SocketRefused(c)
    <2>1. /\ \A d \in Callers : pc'[d] \notin Section \ {"announce", "callback"}
          /\ pc'["app"] # "terminated"
      BY <1>4 DEF SocketRefused
    <2>2. ConnectingIsOwned'
      BY <1>4, <2>1 DEF SocketRefused
    <2>3. TypeOK'
      <3>1. connecting' \in BOOLEAN
        BY <1>4, Zenon DEF SocketRefused
      <3> QED
        BY <1>4, <3>1 DEF SocketRefused
    <2>4. ConnectedHasSocket' /\ Exclusive' /\ SocketInside' /\ Dismantled'
      BY <1>4 DEF SocketRefused
    <2> QED
      BY <2>2, <2>3, <2>4
  <1>5. CASE HandshakeQueued(c)
    BY <1>5 DEF HandshakeQueued
  <1>6. CASE HandshakeFailed(c)
    <2>1. /\ \A d \in Callers : pc'[d] \notin Section \ {"announce", "callback"}
          /\ pc'["app"] # "terminated"
      BY <1>6 DEF HandshakeFailed
    <2>2. ConnectingIsOwned'
      BY <1>6, <2>1 DEF HandshakeFailed
    <2>3. TypeOK'
      <3>1. connecting' \in BOOLEAN
        BY <1>6, Zenon DEF HandshakeFailed
      <3> QED
        BY <1>6, <3>1 DEF HandshakeFailed
    <2>4. ConnectedHasSocket' /\ Exclusive' /\ SocketInside' /\ Dismantled'
      BY <1>6 DEF HandshakeFailed
    <2> QED
      BY <2>2, <2>3, <2>4
  <1>7. CASE StartRefresher(c)
    BY <1>7 DEF StartRefresher
  <1>8. CASE Settle(c)
    <2>1. /\ \A d \in Callers : pc'[d] \notin Section \ {"announce", "callback"}
          /\ pc'["app"] # "terminated"
      BY <1>8 DEF Settle
    <2>2. ConnectingIsOwned'
      BY <1>8, <2>1 DEF Settle
    <2>3. TypeOK'
      <3>1. connecting' \in BOOLEAN
        BY <1>8, Zenon DEF Settle
      <3> QED
        BY <1>8, <3>1 DEF Settle
    <2>4. ConnectedHasSocket' /\ Exclusive' /\ SocketInside' /\ Dismantled'
      BY <1>8 DEF Settle
    <2> QED
      BY <2>2, <2>3, <2>4
  <1>9. CASE Announce(c)
    BY <1>9 DEF Announce
  <1>10. CASE CallbackReturns(c)
    BY <1>10 DEF CallbackReturns
  <1>11. CASE RefresherThrows(c)
    BY <1>11 DEF RefresherThrows
  <1> QED
    BY <1>1, <1>2, <1>3, <1>4, <1>5, <1>6, <1>7, <1>8, <1>9, <1>10, <1>11 DEF Connect

\* A step of the application, of the reconnection loop, of the refresher or of
\* the network.
LEMMA OtherKeepsIInv ==
  ASSUME IInv, AppCalls \/ AppReturns \/ ReconStep \/ RefresherStep \/ BreakLink
  PROVE  IInv'
  <1> USE MaxAttemptsAssumption
      DEF IInv, TypeOK, ConnectingIsOwned, ConnectedHasSocket, Exclusive,
          SocketInside, Dismantled, Callers, Section, AppPc, ReconPc,
          RefresherAlive, MutexFree, Goto, Step, flags, broker
  <1>1. CASE CallConnect
    <2>1. TypeOK'
      BY <1>1 DEF CallConnect
    <2>2. ConnectingIsOwned' /\ ConnectedHasSocket'
      BY <1>1 DEF CallConnect
    <2>3. Exclusive' /\ SocketInside' /\ Dismantled'
      BY <1>1 DEF CallConnect
    <2> QED
      BY <2>1, <2>2, <2>3
  <1>2. CASE StopAutoReconnect
    <2>1. TypeOK'
      BY <1>2 DEF StopAutoReconnect
    <2>2. ConnectingIsOwned' /\ ConnectedHasSocket'
      BY <1>2 DEF StopAutoReconnect
    <2>3. Exclusive' /\ SocketInside' /\ Dismantled'
      BY <1>2 DEF StopAutoReconnect
    <2> QED
      BY <2>1, <2>2, <2>3
  <1>3. CASE Destroy
    <2>1. TypeOK'
      BY <1>3 DEF Destroy
    <2>2. ConnectingIsOwned' /\ ConnectedHasSocket'
      BY <1>3 DEF Destroy
    <2>3. Exclusive' /\ SocketInside' /\ Dismantled'
      BY <1>3 DEF Destroy
    <2> QED
      BY <2>1, <2>2, <2>3
  <1>4. CASE Disconnect
    <2>1. TypeOK'
      BY <1>4 DEF Disconnect, DisconnectSection
    <2>2. ConnectingIsOwned' /\ ConnectedHasSocket'
      BY <1>4 DEF Disconnect, DisconnectSection
    <2>3. Exclusive' /\ SocketInside' /\ Dismantled'
      BY <1>4 DEF Disconnect, DisconnectSection
    <2> QED
      BY <2>1, <2>2, <2>3
  <1>5. CASE Sync
    <2>1. TypeOK'
      BY <1>5 DEF Sync
    <2>2. ConnectingIsOwned' /\ ConnectedHasSocket'
      BY <1>5 DEF Sync
    <2>3. Exclusive' /\ SocketInside' /\ Dismantled'
      BY <1>5 DEF Sync
    <2> QED
      BY <2>1, <2>2, <2>3
  <1>6. CASE Synced
    <2>1. TypeOK'
      BY <1>6 DEF Synced
    <2>2. ConnectingIsOwned' /\ ConnectedHasSocket'
      BY <1>6 DEF Synced
    <2>3. Exclusive' /\ SocketInside' /\ Dismantled'
      BY <1>6 DEF Synced
    <2> QED
      BY <2>1, <2>2, <2>3
  <1>7. CASE SyncError
    <2>1. TypeOK'
      BY <1>7 DEF SyncError
    <2>2. ConnectingIsOwned' /\ ConnectedHasSocket'
      BY <1>7 DEF SyncError
    <2>3. Exclusive' /\ SocketInside' /\ Dismantled'
      BY <1>7 DEF SyncError
    <2> QED
      BY <2>1, <2>2, <2>3
  <1>8. ASSUME NEW t \in Topics, Subscribe(t) \/ Unsubscribe(t)
        PROVE  IInv'
    <2>1. TypeOK'
      BY <1>8 DEF Subscribe, Unsubscribe
    <2>2. ConnectingIsOwned' /\ ConnectedHasSocket'
      BY <1>8 DEF Subscribe, Unsubscribe
    <2>3. Exclusive' /\ SocketInside' /\ Dismantled'
      BY <1>8 DEF Subscribe, Unsubscribe
    <2> QED
      BY <2>1, <2>2, <2>3
  <1>9. ASSUME NEW enable \in BOOLEAN, SetAutoReconnect(enable)
        PROVE  IInv'
    <2>1. TypeOK'
      BY <1>9 DEF SetAutoReconnect
    <2>2. ConnectingIsOwned' /\ ConnectedHasSocket'
      BY <1>9 DEF SetAutoReconnect
    <2>3. Exclusive' /\ SocketInside' /\ Dismantled'
      BY <1>9 DEF SetAutoReconnect
    <2> QED
      BY <2>1, <2>2, <2>3
  <1>10. CASE JoinReconnect
    <2>1. TypeOK'
      BY <1>10 DEF JoinReconnect, AfterJoin
    <2>2. ConnectingIsOwned' /\ ConnectedHasSocket'
      BY <1>10 DEF JoinReconnect, AfterJoin
    <2>3. Exclusive' /\ SocketInside' /\ Dismantled'
      BY <1>10 DEF JoinReconnect, AfterJoin
    <2> QED
      BY <2>1, <2>2, <2>3
  <1>11. CASE DestroyDisconnect
    <2>1. TypeOK'
      BY <1>11 DEF DestroyDisconnect, DisconnectSection
    <2>2. ConnectingIsOwned' /\ ConnectedHasSocket'
      BY <1>11 DEF DestroyDisconnect, DisconnectSection
    <2>3. Exclusive' /\ SocketInside' /\ Dismantled'
      BY <1>11 DEF DestroyDisconnect, DisconnectSection
    <2> QED
      BY <2>1, <2>2, <2>3
  <1>12. CASE DestroyJoin
    <2>1. TypeOK'
      BY <1>12 DEF DestroyJoin
    <2>2. ConnectingIsOwned' /\ ConnectedHasSocket'
      BY <1>12 DEF DestroyJoin
    <2>3. Exclusive' /\ SocketInside' /\ Dismantled'
      BY <1>12 DEF DestroyJoin
    <2> QED
      BY <2>1, <2>2, <2>3
  <1>13. CASE LoopTest
    <2>1. TypeOK'
      BY <1>13 DEF LoopTest
    <2>2. ConnectingIsOwned' /\ ConnectedHasSocket'
      BY <1>13 DEF LoopTest
    <2>3. Exclusive' /\ SocketInside' /\ Dismantled'
      BY <1>13 DEF LoopTest
    <2> QED
      BY <2>1, <2>2, <2>3
  <1>14. CASE Wake
    <2>1. TypeOK'
      BY <1>14 DEF Wake
    <2>2. ConnectingIsOwned' /\ ConnectedHasSocket'
      BY <1>14 DEF Wake
    <2>3. Exclusive' /\ SocketInside' /\ Dismantled'
      BY <1>14 DEF Wake
    <2> QED
      BY <2>1, <2>2, <2>3
  <1>15. CASE AttemptRefused
    <2>1. TypeOK'
      BY <1>15 DEF AttemptRefused
    <2>2. ConnectingIsOwned' /\ ConnectedHasSocket'
      BY <1>15 DEF AttemptRefused
    <2>3. Exclusive' /\ SocketInside' /\ Dismantled'
      BY <1>15 DEF AttemptRefused
    <2> QED
      BY <2>1, <2>2, <2>3
  <1>16. CASE AttemptReconnect
    <2>1. TypeOK'
      BY <1>16 DEF AttemptReconnect, Exhausted
    <2>2. ConnectingIsOwned' /\ ConnectedHasSocket'
      BY <1>16 DEF AttemptReconnect, Exhausted
    <2>3. Exclusive' /\ SocketInside' /\ Dismantled'
      BY <1>16 DEF AttemptReconnect, Exhausted
    <2> QED
      BY <2>1, <2>2, <2>3
  <1>17. CASE RefresherTest
    <2>1. TypeOK'
      BY <1>17 DEF RefresherTest
    <2>2. ConnectingIsOwned' /\ ConnectedHasSocket'
      BY <1>17 DEF RefresherTest
    <2>3. Exclusive' /\ SocketInside' /\ Dismantled'
      BY <1>17 DEF RefresherTest
    <2> QED
      BY <2>1, <2>2, <2>3
  <1>18. CASE RefresherTestConnecting
    <2>1. TypeOK'
      BY <1>18 DEF RefresherTestConnecting
    <2>2. ConnectingIsOwned' /\ ConnectedHasSocket'
      BY <1>18 DEF RefresherTestConnecting
    <2>3. Exclusive' /\ SocketInside' /\ Dismantled'
      BY <1>18 DEF RefresherTestConnecting
    <2> QED
      BY <2>1, <2>2, <2>3
  <1>19. CASE RefresherSync
    <2>1. TypeOK'
      BY <1>19 DEF RefresherSync
    <2>2. ConnectingIsOwned' /\ ConnectedHasSocket'
      BY <1>19 DEF RefresherSync
    <2>3. Exclusive' /\ SocketInside' /\ Dismantled'
      BY <1>19 DEF RefresherSync
    <2> QED
      BY <2>1, <2>2, <2>3
  <1>20. CASE BreakLink
    <2>1. TypeOK'
      BY <1>20 DEF BreakLink
    <2>2. ConnectingIsOwned' /\ ConnectedHasSocket'
      BY <1>20 DEF BreakLink
    <2>3. Exclusive' /\ SocketInside' /\ Dismantled'
      BY <1>20 DEF BreakLink
    <2> QED
      BY <2>1, <2>2, <2>3
  <1>21. CASE SubscribeFails
    BY <1>21 DEF SubscribeFails, vars
  <1> QED
    BY <1>1, <1>2, <1>3, <1>4, <1>5, <1>6, <1>7, <1>8, <1>9, <1>10, <1>11,
       <1>12, <1>13, <1>14, <1>15, <1>16, <1>17, <1>18, <1>19, <1>20, <1>21
       DEF AppCalls, AppReturns, ReconStep, RefresherStep

LEMMA Invariance == Spec => []IInv
  <1>1. IInv /\ [Next]_vars => IInv'
    <2> SUFFICES ASSUME IInv, [Next]_vars PROVE IInv'
      OBVIOUS
    <2>1. CASE \E c \in Callers : Connect(c)
      BY <2>1, ConnectKeepsIInv
    <2>2. CASE AppCalls \/ AppReturns \/ ReconStep \/ RefresherStep \/ BreakLink
      BY <2>2, OtherKeepsIInv
    <2>3. CASE UNCHANGED vars
      BY <2>3 DEF vars, IInv, TypeOK, ConnectingIsOwned, ConnectedHasSocket,
                  MutexFree, Exclusive, SocketInside, Dismantled
    <2> QED
      BY <2>1, <2>2, <2>3 DEF Next
  <1> QED
    BY IInvInit, <1>1, PTL DEF Spec

-----------------------------------------------------------------------------
\* The client keeps its types, and never tries to reconnect more often in a row
\* than it is allowed to.
THEOREM MqttTypeCorrect == Spec => []TypeOK
  BY Invariance, PTL DEF IInv

\* Every return of connect(), error paths included, leaves connecting_ clear.
THEOREM ConnectingAlwaysOwned == Spec => []ConnectingIsOwned
  BY Invariance, PTL DEF IInv

\* connected_ is never set without a socket, nor while connect() runs.
THEOREM ConnectedAlwaysHasSocket == Spec => []ConnectedHasSocket
  BY Invariance, PTL DEF IInv

\* The destructor's order - reconnection first, then the connection, then the
\* refresher - leaves nothing behind, whatever the threads were doing.
THEOREM DestroyedAlwaysClean == Spec => []DestroyedClean
  <1>1. IInv => DestroyedClean
    BY DEF IInv, TypeOK, ConnectingIsOwned, Dismantled, DestroyedClean, Callers, Section
  <1> QED
    BY <1>1, Invariance, PTL

-----------------------------------------------------------------------------
(* The station's use of the client. *)


\* Every step of main is a step of the client's application or leaves the client
\* alone.
LEMMA MainUsesClient ==
    ASSUME MainStep
    PROVE  [Next]_vars
<1>1. CASE StartConnect \/ EnableReconnect \/ FinalDisconnect \/ DestroyClient
  BY <1>1 DEF StartConnect, EnableReconnect, FinalDisconnect, DestroyClient, Next, AppCalls
<1>2. CASE SubscribeCommand \/ SubscribeBeat
  BY <1>2, LinkAssumption DEF SubscribeCommand, SubscribeBeat, Subscribing, Next, AppCalls
<1>3. CASE SyncClient
  BY <1>3 DEF SyncClient, Next, AppCalls
<1>4. CASE ConnectFailed \/ SetOnline \/ LoopTop \/ SyncReturns \/ Publish
           \/ QueueSent \/ Heartbeat \/ DestroyTimer
  BY <1>4 DEF ConnectFailed, SetOnline, LoopTop, SyncReturns, Publish,
              QueueSent, Heartbeat, DestroyTimer
<1>5. QED
  BY <1>1, <1>2, <1>3, <1>4 DEF MainStep

\* The handler, the worker and the signal do nothing to the client.
Aside == HandlerStep \/ Report \/ ReportBegins \/ Signal
         \/ \E d \in {"app", "refresher"} : Deliver(d)

LEMMA AsideLeavesClient ==
    ASSUME Aside
    PROVE  UNCHANGED vars /\ UNCHANGED <<online, mpc, broken, sent, refused>>
BY DEF Aside, HandlerStep, StartTimer, StopTimer, Answer, Report, ReportBegins, Signal,
       Deliver, messages

LEMMA StepUsesClient ==
    ASSUME [LinkNext]_linkVars
    PROVE  [Next]_vars
<1>1. CASE MainStep
  BY <1>1, MainUsesClient
<1>2. CASE ReturnStep \/ ReconTurn \/ RefresherTurn \/ LinkLost
  BY <1>2 DEF ReturnStep, ReconTurn, RefresherTurn, LinkLost, Next
<1>3. ASSUME NEW c \in Callers, ConnectTurn(c)
      PROVE  [Next]_vars
  BY <1>3 DEF ConnectTurn, ConnectStep, ConnectCallback, Terminated, Next, Connect
<1>4. CASE Aside
  BY <1>4, AsideLeavesClient
<1>5. CASE UNCHANGED linkVars
  BY <1>5 DEF linkVars
<1>6. QED
  BY <1>1, <1>2, <1>3, <1>4, <1>5 DEF LinkNext, Aside

\* The station is an application of the client like any other: each of its
\* behaviours, seen through the client's variables, is a behaviour of MqttClient.
THEOREM LinkUsesClient == LinkSpec => Spec
<1>1. LinkInit => Init
  BY DEF LinkInit
<1>2. [LinkNext]_linkVars => [Next]_vars
  BY StepUsesClient
<1>3. QED
  BY <1>1, <1>2, PTL DEF LinkSpec, Spec

\* Hence connecting_ and connected_ can be relied on in the station, whatever main,
\* the reconnection and the network do, and its exit leaves nothing of the client.
THEOREM StationClientSafe ==
    LinkSpec => [](ConnectingIsOwned /\ ConnectedHasSocket /\ DestroyedClean)
BY LinkUsesClient, ConnectingAlwaysOwned, ConnectedAlwaysHasSocket,
   DestroyedAlwaysClean, PTL

-----------------------------------------------------------------------------
(* OnlineServes. *)

\* What it rests on: the ONLINE bit belongs to the connection main subscribed on.
Before == {"start", "connect", "online"}
NoCallback == \A c \in Callers : pc[c] # "callback"
ServeInv ==
    /\ mpc \in Before => subscriptions = {} /\ ~online
    /\ online /\ Working /\ NoCallback => subscriptions \subseteq served

LEMMA ServeMain ==
    ASSUME ServeInv, TypeOK, MainStep
    PROVE  ServeInv'
<1> USE DEF ServeInv, Before, Working, NoCallback, Go, At, Step, Goto
<1>0. pc \in [Callers -> AppPc \cup ReconPc] /\ "app" \in Callers /\ "recon" \in Callers
  BY DEF TypeOK, Callers
<1>1. CASE StartConnect
  BY <1>0, <1>1 DEF StartConnect, CallConnect, flags, broker
<1>2. CASE ConnectFailed
  BY <1>2 DEF ConnectFailed, vars
<1>3. CASE EnableReconnect
  BY <1>0, <1>3 DEF EnableReconnect, SetAutoReconnect, flags, broker
<1>4. CASE SetOnline
  BY <1>4 DEF SetOnline, vars
<1>5. CASE SubscribeCommand \/ SubscribeBeat
  BY <1>5 DEF SubscribeCommand, SubscribeBeat, Subscribing, Subscribe, SubscribeFails,
              flags, vars
<1>6. CASE SyncClient
  BY <1>0, <1>6 DEF SyncClient, Sync, flags, broker, vars
<1>7. CASE LoopTop \/ SyncReturns \/ Publish \/ QueueSent \/ Heartbeat \/ DestroyTimer
  BY <1>7 DEF LoopTop, SyncReturns, Publish, QueueSent, Heartbeat, DestroyTimer, vars
<1>8. CASE FinalDisconnect
  BY <1>8 DEF FinalDisconnect, Disconnect, DisconnectSection
<1>9. CASE DestroyClient
  BY <1>0, <1>9 DEF DestroyClient, Destroy, mainVars, flags, broker
<1>10. QED
  BY <1>1, <1>2, <1>3, <1>4, <1>5, <1>6, <1>7, <1>8, <1>9 DEF MainStep

\* A new connection has connected_ set in the callback only, and the callback clears
\* the bit.
LEMMA ServeConnect ==
    ASSUME ServeInv, TypeOK, ConnectedHasSocket, NEW c \in Callers, ConnectTurn(c)
    PROVE  ServeInv'
<1> USE DEF ServeInv, Before, Working, NoCallback
<1>0. pc \in [Callers -> AppPc \cup ReconPc]
  BY DEF TypeOK
<1>1. CASE ConnectCallback(c)
  BY <1>1 DEF ConnectCallback, CallbackReturns, broker
<1>2. CASE Announce(c) /\ UNCHANGED mainVars
  BY <1>0, <1>2 DEF mainVars, Announce, Step, Goto, broker
<1>3. CASE ConnectRefused(c) /\ UNCHANGED mainVars
  BY <1>0, <1>3 DEF mainVars, ConnectRefused, Return, Goto, flags, broker
<1>4. CASE ConnectBegin(c) /\ UNCHANGED mainVars
  BY <1>0, <1>4 DEF mainVars, ConnectBegin, Step, Goto, broker
<1>5. ASSUME pc[c] \in Section \ {"callback"}, connected' = connected,
             UNCHANGED <<online, mpc, subscriptions>> \/ mpc' = "exit"
      PROVE  ServeInv'
  BY <1>5 DEF ConnectedHasSocket
<1>6. CASE Terminated(c)
  BY <1>5, <1>6 DEF Terminated, RefresherThrows, Section, flags
<1>7. CASE /\ \/ SocketOpened(c) \/ SocketRefused(c) \/ HandshakeQueued(c)
              \/ HandshakeFailed(c) \/ StartRefresher(c) \/ Settle(c)
           /\ UNCHANGED mainVars
  <2>1. UNCHANGED <<online, mpc, subscriptions>> /\ connected' = connected
    BY <1>7 DEF SocketOpened, SocketRefused, HandshakeQueued, HandshakeFailed,
                StartRefresher, Settle, flags, broker, mainVars
  <2>2. pc[c] \in Section \ {"callback"}
    BY <1>7 DEF SocketOpened, SocketRefused, HandshakeQueued, HandshakeFailed,
                StartRefresher, Settle, Step, Section
  <2>3. QED
    BY <1>5, <2>1, <2>2
<1>8. QED
  BY <1>1, <1>2, <1>3, <1>4, <1>6, <1>7 DEF ConnectTurn, ConnectStep

LEMMA ServeOthers ==
    ASSUME ServeInv, TypeOK, ReturnStep \/ ReconTurn \/ RefresherTurn \/ LinkLost \/ Aside
    PROVE  ServeInv'
<1> USE DEF ServeInv, Before, Working, NoCallback
<1>0. pc \in [Callers -> AppPc \cup ReconPc]
  BY DEF TypeOK
<1>1. CASE ReturnStep
  <2>1. UNCHANGED <<online, mpc, subscriptions, served>> /\ (connected' => connected)
        /\ (link' = "up" => link = "up")
    BY <1>1 DEF ReturnStep, mainVars, AppReturns, Synced, SyncError, JoinReconnect,
                DestroyDisconnect, DisconnectSection, DestroyJoin, flags, broker
  <2>2. NoCallback' => NoCallback
    BY <1>0, <1>1 DEF ReturnStep, AppReturns, Synced, SyncError, JoinReconnect,
                DestroyDisconnect, DestroyJoin, Step, Goto, Callers
  <2>3. QED
    BY <2>1, <2>2
<1>2. CASE ReconTurn
  BY <1>0, <1>2 DEF ReconTurn, mainVars, ReconStep, LoopTest, Wake, AttemptRefused,
                AttemptReconnect, Step, Goto, Callers, flags, broker
<1>3. CASE RefresherTurn
  BY <1>3 DEF RefresherTurn, mainVars, RefresherStep, RefresherTest,
              RefresherTestConnecting, RefresherSync, flags, broker
<1>4. CASE LinkLost
  BY <1>4 DEF LinkLost, BreakLink, flags
<1>5. CASE Aside
  BY <1>5, AsideLeavesClient DEF vars
<1>6. QED
  BY <1>1, <1>2, <1>3, <1>4, <1>5

\* While the station says ONLINE over a working connection its subscriptions hold there,
\* but for the moment of the connect callback: whatever the network, the library's
\* refusals and the reconnection do.
THEOREM OnlineAlwaysServes == LinkSpec => []OnlineServes
<1>1. LinkInit => ServeInv
  BY DEF LinkInit, Init, ServeInv, Before
<1>2. ServeInv /\ TypeOK /\ ConnectedHasSocket /\ [LinkNext]_linkVars => ServeInv'
  <2>1. CASE UNCHANGED linkVars
    BY <2>1 DEF linkVars, vars, mainVars, ServeInv, Working, NoCallback
  <2>2. QED
    BY <2>1, ServeMain, ServeConnect, ServeOthers DEF LinkNext, Aside
<1>3. ServeInv => OnlineServes
  BY DEF ServeInv, OnlineServes, NoCallback
<1>4. QED
  BY <1>1, <1>2, <1>3, StationClientSafe, LinkUsesClient, MqttTypeCorrect, PTL
     DEF LinkSpec

-----------------------------------------------------------------------------
(* ChargingIsHeard and InOrder. *)

\* The life of the first connection, by where main is: until it loses that
\* connection the station has it, with the reconnection idle, or it never had one.
Opening == {"start", "connect"}
Leaving == {"disconnect", "exit"}
Unheard ==
    /\ pc["recon"] = "none" /\ served = {}
    /\ ~charging /\ ~reporting /\ task = "none" /\ queue = <<>>
Established ==
    /\ connected /\ link = "up"
    /\ pc["app"] \in {"idle", "sync"}
    /\ pc["recon"] \in {"none", "top", "sleep", "exited"}
Failed == Unheard /\ pc["app"] = "idle" /\ ~connected
FirstInv ==
    /\ mpc = "start" => Failed
    /\ mpc = "connect" =>
        /\ Unheard
        /\ pc["app"] \in Section \cup {"connect", "idle"}
        /\ connected => pc["app"] \in {"callback", "idle"}
        /\ connected \/ pc["app"] \in {"join", "settle", "announce"} =>
             link = "up" \/ broken
    /\ mpc \in {"online", "subscribe"} /\ ~broken => Established
    /\ mpc \notin Opening \cup Leaving /\ ~broken =>
        /\ Established \/ Failed
        /\ charging \/ task # "none" => Command \in served
    /\ mpc \in Leaving => ~running

\* What has been sent and what waits is a subsequence of what has been pushed.
OrderInv ==
    /\ pushed \in Nat /\ refused \in Nat
    /\ sent \in Seq(Int) /\ queue \in Seq(Int)
    /\ Increasing(sent) /\ Increasing(queue)
    /\ \A i \in DOMAIN sent, j \in DOMAIN queue : sent[i] < queue[j]
    /\ \A i \in DOMAIN sent : sent[i] <= pushed
    /\ \A j \in DOMAIN queue : queue[j] <= pushed
    /\ ~broken => Len(sent) + Len(queue) + refused = pushed

LEMMA FirstMain ==
    ASSUME FirstInv, TypeOK, ConnectedHasSocket, MainStep
    PROVE  FirstInv'
<1> USE DEF FirstInv, Opening, Leaving, Unheard, Established, Failed, Go, At, Step, Goto
<1>0. pc \in [Callers -> AppPc \cup ReconPc] /\ "app" \in Callers /\ "recon" \in Callers
  BY DEF TypeOK, Callers
<1>1. CASE StartConnect
  BY <1>0, <1>1 DEF StartConnect, CallConnect, flags, broker, Section, handling, messages
<1>2. CASE ConnectFailed
  BY <1>2 DEF ConnectFailed, vars, handling, messages
<1>3. CASE EnableReconnect
  BY <1>0, <1>3 DEF EnableReconnect, SetAutoReconnect, flags, broker, handling, messages
<1>4. CASE SetOnline
  BY <1>4 DEF SetOnline, vars, handling, messages
<1>5. CASE SubscribeCommand
  BY <1>5 DEF SubscribeCommand, Subscribing, Subscribe, SubscribeFails, vars, handling,
              messages, flags
<1>6. CASE SubscribeBeat
  BY <1>6 DEF SubscribeBeat, Subscribing, Subscribe, SubscribeFails, vars, handling,
              messages, flags
<1>7. CASE SyncClient
  BY <1>0, <1>7 DEF SyncClient, Sync, flags, broker, vars, handling, messages
<1>8. CASE LoopTop \/ SyncReturns \/ QueueSent \/ Heartbeat
  BY <1>8 DEF LoopTop, SyncReturns, QueueSent, Heartbeat, vars, handling, messages
<1>9. CASE Publish
  BY <1>9 DEF Publish, vars, handling
<1>10. CASE FinalDisconnect
  BY <1>10 DEF FinalDisconnect, Disconnect, DisconnectSection
<1>11. CASE DestroyClient
  BY <1>11 DEF DestroyClient, Destroy, mainVars, handling, messages, flags, broker
<1>12. CASE DestroyTimer
  BY <1>12 DEF DestroyTimer, vars, messages
<1>13. QED
  BY <1>1, <1>2, <1>3, <1>4, <1>5, <1>6, <1>7, <1>8, <1>9, <1>10, <1>11, <1>12
     DEF MainStep

\* The first connection is the application's: the reconnection connects only when
\* it has been lost.
LEMMA FirstConnect ==
    ASSUME FirstInv, TypeOK, ConnectedHasSocket, NEW c \in Callers, ConnectTurn(c)
    PROVE  FirstInv'
<1> USE DEF FirstInv, Opening, Leaving, Unheard, Established, Failed
<1>0. pc \in [Callers -> AppPc \cup ReconPc] /\ "app" \in Callers /\ "recon" \in Callers
  BY DEF TypeOK, Callers
<1>1. CASE Terminated(c)
  BY <1>1 DEF Terminated
<1>2. CASE ConnectStep(c) \/ ConnectCallback(c)
  <2>1. UNCHANGED <<mpc, broken, running, charging, reporting, task, queue>>
    BY <1>2 DEF ConnectStep, ConnectCallback, mainVars, handling, messages
  <2>2. pc[c] \in Section \cup {"connect"}
    BY <1>2 DEF ConnectStep, ConnectCallback, ConnectRefused, ConnectBegin, SocketOpened,
           SocketRefused, HandshakeQueued, HandshakeFailed, StartRefresher, Settle,
           Announce, CallbackReturns, Step, Section
  <2>3. CASE mpc = "connect"
    <3>1. c = "app"
      BY <2>2, <2>3 DEF Callers, Section
    <3>2. connected => pc["app"] = "callback"
      BY <2>2, <2>3, <3>1 DEF Section
    <3>3. CASE ConnectCallback(c)
      BY <1>0, <2>1, <2>3, <3>1, <3>3
      DEF ConnectCallback, CallbackReturns, Return, Goto, broker, flags
    <3>4. CASE ConnectRefused(c) \/ SocketRefused(c) \/ HandshakeFailed(c)
      BY <1>0, <2>1, <2>3, <3>1, <3>2, <3>4
      DEF ConnectRefused, SocketRefused, HandshakeFailed, Return, Goto, broker, flags
    <3>5. CASE ConnectBegin(c) \/ SocketOpened(c) \/ HandshakeQueued(c)
               \/ StartRefresher(c) \/ Settle(c)
      BY <1>0, <2>1, <2>3, <3>1, <3>2, <3>5
      DEF ConnectBegin, SocketOpened, HandshakeQueued, StartRefresher, Settle, Step, Goto,
          broker, flags, Section
    <3>6. CASE Announce(c)
      BY <1>0, <2>1, <2>3, <3>1, <3>2, <3>6 DEF Announce, Step, Goto, broker, Section
    <3>7. QED
      BY <1>2, <3>3, <3>4, <3>5, <3>6 DEF ConnectStep
  <2>4. CASE mpc # "connect"
    <3>1. mpc \in Leaving \/ broken
      BY <2>2, <2>4 DEF Callers, Section
    <3>2. mpc # "start"
      BY <2>2, <2>4 DEF Callers, Section
    <3>3. QED
      BY <2>1, <2>4, <3>1, <3>2
  <2>5. QED
    BY <2>3, <2>4
<1>3. QED
  BY <1>1, <1>2 DEF ConnectTurn

LEMMA FirstOthers ==
    ASSUME FirstInv, TypeOK, ConnectedHasSocket,
           ReturnStep \/ ReconTurn \/ RefresherTurn \/ LinkLost \/ Aside
    PROVE  FirstInv'
<1> USE DEF FirstInv, Opening, Leaving, Unheard, Established, Failed
<1>0. pc \in [Callers -> AppPc \cup ReconPc] /\ "app" \in Callers /\ "recon" \in Callers
  BY DEF TypeOK, Callers
<1>1. CASE ReturnStep
  BY <1>0, <1>1 DEF ReturnStep, mainVars, handling, messages, AppReturns, Synced,
                SyncError, JoinReconnect, DestroyDisconnect, DisconnectSection,
                DestroyJoin, Step, Goto, Section, flags, broker
<1>2. CASE ReconTurn
  BY <1>0, <1>2 DEF ReconTurn, mainVars, handling, messages, ReconStep, LoopTest, Wake,
                AttemptRefused, AttemptReconnect, ConnectedHasSocket, Step, Goto, flags,
                broker
<1>3. CASE RefresherTurn
  BY <1>3 DEF RefresherTurn, mainVars, handling, messages, RefresherStep, RefresherTest,
              RefresherTestConnecting, RefresherSync, flags, broker
<1>4. CASE LinkLost
  BY <1>4 DEF LinkLost, BreakLink, flags, handling, messages
<1>5. CASE HandlerStep
  BY <1>5 DEF HandlerStep, StartTimer, StopTimer, Answer, Push, vars, messages
<1>6. CASE Report \/ ReportBegins
  BY <1>6 DEF Report, ReportBegins, Push, vars, messages
<1>7. CASE Signal
  BY <1>7 DEF Signal, vars, handling, messages
<1>8. CASE \E d \in {"app", "refresher"} : Deliver(d)
  BY <1>8 DEF Deliver, vars, messages
<1>9. QED
  BY <1>1, <1>2, <1>3, <1>4, <1>5, <1>6, <1>7, <1>8 DEF Aside

LEMMA FirstAlways == LinkSpec => []FirstInv
<1>1. LinkInit => FirstInv
  BY DEF LinkInit, Init, FirstInv, Failed, Unheard, Opening, Leaving, Callers
<1>2. FirstInv /\ TypeOK /\ ConnectedHasSocket /\ [LinkNext]_linkVars => FirstInv'
  <2>1. CASE UNCHANGED linkVars
    BY <2>1 DEF linkVars, vars, mainVars, handling, messages, FirstInv, Unheard,
                Established, Failed
  <2>2. QED
    BY <2>1, FirstMain, FirstConnect, FirstOthers DEF LinkNext, Aside
<1>3. QED
  BY <1>1, <1>2, StationClientSafe, LinkUsesClient, MqttTypeCorrect, PTL DEF LinkSpec

\* Until the first connection is lost whoever charges is subscribed to its commands:
\* for any bounds, whatever connecting, the signals and the other threads do.
THEOREM ChargingAlwaysHeard == LinkSpec => []ChargingIsHeard
<1>1. FirstInv => ChargingIsHeard
  BY DEF FirstInv, ChargingIsHeard, Opening, Leaving, Unheard, Established, Failed
<1>2. QED
  BY <1>1, FirstAlways, PTL

LEMMA PushKeepsOrder ==
    ASSUME OrderInv, Push, UNCHANGED <<sent, refused, broken>>
    PROVE  OrderInv'
<1> USE DEF OrderInv, Push, Increasing
<1>1. queue' = Append(queue, pushed + 1) /\ pushed' = pushed + 1 /\ pushed + 1 \in Int
  OBVIOUS
<1>2. queue' \in Seq(Int) /\ Len(queue') = Len(queue) + 1
  BY <1>1
<1>3. \A j \in DOMAIN queue' :
        IF j \in DOMAIN queue THEN queue'[j] = queue[j]
                              ELSE j = Len(queue) + 1 /\ queue'[j] = pushed + 1
  BY <1>1
<1>4. Increasing(queue')
  BY <1>1, <1>2, <1>3
<1>5. \A i \in DOMAIN sent, j \in DOMAIN queue' : sent[i] < queue'[j]
  BY <1>1, <1>2, <1>3
<1>6. (\A i \in DOMAIN sent : sent[i] <= pushed + 1)
      /\ (\A j \in DOMAIN queue' : queue'[j] <= pushed + 1)
  BY <1>1, <1>2, <1>3
<1>7. Len(sent) \in Nat /\ Len(queue) \in Nat /\ refused \in Nat
  OBVIOUS
<1>8. pushed' \in Nat /\ (~broken => Len(sent) + Len(queue') + refused = pushed')
  <2>1. pushed \in Nat /\ (~broken => Len(sent) + Len(queue) + refused = pushed)
    OBVIOUS
  <2> HIDE DEF OrderInv, Push
  <2>2. QED
    BY <1>1, <1>2, <1>7, <2>1
<1>9. QED
  BY <1>1, <1>2, <1>4, <1>5, <1>6, <1>8

\* A message goes from the head of the queue to the end of what has been sent, or is
\* dropped; over the first connection it is counted as refused then.
LEMMA PublishKeepsOrder ==
    ASSUME OrderInv, FirstInv, Publish
    PROVE  OrderInv'
<1> USE DEF OrderInv
<1>1. /\ queue # <<>> /\ queue' = Tail(queue)
      /\ \/ sent' = Append(sent, Head(queue)) /\ refused' = refused
         \/ sent' = sent /\ refused' = IF Working THEN refused + 1 ELSE refused
      /\ UNCHANGED <<pushed, broken>>
  BY DEF Publish
<1>2. ~broken => Working
  BY DEF FirstInv, Publish, At, Opening, Leaving, Established, Failed, Unheard, Working
<1>3. /\ queue' \in Seq(Int) /\ Len(queue') = Len(queue) - 1
      /\ Len(sent) \in Nat /\ DOMAIN sent = 1 .. Len(sent) /\ Len(queue) \in Nat
      /\ 1 \in DOMAIN queue /\ queue[1] \in Int
  BY <1>1
<1>4. \A j \in DOMAIN queue' : j \in 1 .. Len(queue) - 1 /\ queue'[j] = queue[j + 1]
                               /\ j + 1 \in DOMAIN queue /\ queue[j + 1] \in Int
  BY <1>1, <1>3
<1>5. \A j \in DOMAIN queue' : queue'[j] <= pushed
  BY <1>4
<1>6. Increasing(queue')
  <2> SUFFICES ASSUME NEW i \in DOMAIN queue', NEW j \in DOMAIN queue', i < j
               PROVE  queue'[i] < queue'[j]
    BY DEF Increasing
  <2>1. i + 1 < j + 1
    BY <1>4
  <2>2. QED
    BY <1>4, <2>1 DEF Increasing
<1>7. \A j \in DOMAIN queue' : queue[1] < queue'[j]
  <2> SUFFICES ASSUME NEW j \in DOMAIN queue'
               PROVE  queue[1] < queue'[j]
    OBVIOUS
  <2>1. 1 < j + 1
    BY <1>4
  <2>2. QED
    BY <1>3, <1>4, <2>1 DEF Increasing
<1>8. \A i \in DOMAIN sent, j \in DOMAIN queue' : sent[i] < queue'[j]
  BY <1>4
<1>9. CASE sent' = Append(sent, Head(queue)) /\ refused' = refused
  <2>1. sent' = Append(sent, queue[1])
    BY <1>1, <1>9
  <2>2. sent' \in Seq(Int) /\ Len(sent') = Len(sent) + 1
    BY <1>3, <2>1
  <2>3. \A i \in DOMAIN sent' :
          \/ i \in DOMAIN sent /\ sent'[i] = sent[i]
          \/ i = Len(sent) + 1 /\ sent'[i] = queue[1]
    <3> HIDE DEF OrderInv
    <3>1. sent \in Seq(Int)
      BY DEF OrderInv
    <3>2. DOMAIN sent' = 1 .. Len(sent) + 1
      BY <1>3, <2>2
    <3>3. \A i \in 1 .. Len(sent) + 1 :
            sent'[i] = IF i = Len(sent) + 1 THEN queue[1] ELSE sent[i]
      BY <1>3, <2>1, <3>1
    <3>4. QED
      BY <1>3, <3>2, <3>3
  <2>4. \A i \in DOMAIN sent : sent[i] < queue[1]
    BY <1>3
  <2>5. Increasing(sent')
    <3> SUFFICES ASSUME NEW i \in DOMAIN sent', NEW j \in DOMAIN sent', i < j
                 PROVE  sent'[i] < sent'[j]
      BY DEF Increasing
    <3> HIDE DEF OrderInv
    <3>0. i \in 1 .. Len(sent) + 1 /\ j \in 1 .. Len(sent) + 1
      BY <1>3, <2>2
    <3>1. i \in DOMAIN sent /\ sent'[i] = sent[i]
      BY <1>3, <2>3, <3>0
    <3>2. CASE j \in DOMAIN sent
      <4>1. sent[i] < sent[j]
        BY <3>1, <3>2 DEF OrderInv, Increasing
      <4>2. sent'[j] = sent[j]
        BY <1>3, <2>3, <3>2
      <4>3. QED
        BY <3>1, <4>1, <4>2
    <3>3. CASE j \notin DOMAIN sent
      BY <2>3, <2>4, <3>1, <3>3
    <3>4. QED
      BY <3>2, <3>3
  <2>6. \A i \in DOMAIN sent' : sent'[i] <= pushed
    BY <1>3, <2>3
  <2>7. \A i \in DOMAIN sent', j \in DOMAIN queue' : sent'[i] < queue'[j]
    BY <1>7, <1>8, <2>3
  <2>8. ~broken => Len(sent') + Len(queue') + refused = pushed
    <3>1. (~broken => Len(sent) + Len(queue) + refused = pushed) /\ refused \in Nat
      OBVIOUS
    <3> HIDE DEF OrderInv
    <3>2. QED
      BY <1>3, <2>2, <3>1
  <2>9. QED
    BY <1>1, <1>3, <1>5, <1>6, <1>9, <2>2, <2>5, <2>6, <2>7, <2>8
<1>10. CASE sent' = sent /\ refused' = IF Working THEN refused + 1 ELSE refused
  <2>1. /\ ~broken => Len(sent) + Len(queue') + refused' = pushed
        /\ refused' \in Nat
    <3>1. (~broken => Len(sent) + Len(queue) + refused = pushed) /\ refused \in Nat
      OBVIOUS
    <3> HIDE DEF OrderInv
    <3>2. QED
      BY <1>2, <1>3, <1>10, <3>1
  <2>2. QED
    BY <1>1, <1>3, <1>5, <1>6, <1>8, <1>10, <2>1
<1>11. QED
  BY <1>1, <1>9, <1>10

LEMMA OrderStep ==
    ASSUME OrderInv, FirstInv, [LinkNext]_linkVars
    PROVE  OrderInv'
<1>1. CASE Publish
  BY <1>1, PublishKeepsOrder
<1>2. CASE Answer \/ Report
  BY <1>2, PushKeepsOrder DEF Answer, Report
<1>3. CASE LinkLost
  BY <1>3 DEF LinkLost, messages, OrderInv
<1>4. CASE UNCHANGED <<messages, broken>>
  BY <1>4 DEF messages, OrderInv
<1>5. ASSUME MainStep, ~Publish
      PROVE  UNCHANGED <<messages, broken>>
  BY <1>5 DEF MainStep, StartConnect, ConnectFailed, EnableReconnect, SetOnline,
              SubscribeCommand, SubscribeBeat, LoopTop, SyncClient, SyncReturns,
              QueueSent, Heartbeat, FinalDisconnect, DestroyClient, DestroyTimer, mainVars
<1>6. ASSUME \/ ReturnStep \/ ReconTurn \/ RefresherTurn \/ StartTimer \/ StopTimer
             \/ ReportBegins \/ Signal \/ UNCHANGED linkVars
             \/ \E d \in {"app", "refresher"} : Deliver(d)
             \/ \E c \in Callers : ConnectTurn(c)
      PROVE  UNCHANGED <<messages, broken>>
  BY <1>6 DEF ReturnStep, ReconTurn, RefresherTurn, StartTimer, StopTimer, ReportBegins,
              Signal, Deliver, linkVars, ConnectTurn, ConnectStep, ConnectCallback,
              Terminated, mainVars
<1>7. QED
  BY <1>1, <1>2, <1>3, <1>4, <1>5, <1>6 DEF LinkNext, HandlerStep

\* Messages are sent in the order in which they were pushed and none twice, and over
\* the first connection each that left the queue was taken or refused by the library:
\* for any bounds.
THEOREM MessagesInOrder == LinkSpec => []InOrder
<1>1. LinkInit => OrderInv
  BY DEF LinkInit, OrderInv, Increasing
<1>2. OrderInv => InOrder
  <2> SUFFICES ASSUME OrderInv
               PROVE  Increasing(sent \o queue)
    BY DEF OrderInv, InOrder
  <2> DEFINE s == sent \o queue
  <2>1. Len(s) = Len(sent) + Len(queue) /\ DOMAIN s = 1 .. Len(s)
    BY DEF OrderInv
  <2>2. \A i \in DOMAIN s :
          IF i \in DOMAIN sent THEN s[i] = sent[i]
          ELSE i - Len(sent) \in DOMAIN queue /\ s[i] = queue[i - Len(sent)]
    BY <2>1 DEF OrderInv
  <2> HIDE DEF s
  <2>3. Increasing(s)
    <3>1. SUFFICES ASSUME NEW i \in DOMAIN s, NEW j \in DOMAIN s, i < j
                   PROVE  s[i] < s[j]
      BY DEF Increasing
    <3>2. /\ Len(sent) \in Nat /\ Len(queue) \in Nat
          /\ DOMAIN sent = 1 .. Len(sent) /\ DOMAIN queue = 1 .. Len(queue)
      BY DEF OrderInv
    <3>3. i \in Int /\ j \in Int
      BY <2>1
    <3>4. CASE j \in DOMAIN sent
      <4>1. i \in DOMAIN sent
        BY <2>1, <3>1, <3>2, <3>4
      <4>2. QED
        BY <2>2, <3>1, <3>4, <4>1 DEF OrderInv, Increasing
    <3>5. CASE j \notin DOMAIN sent /\ i \in DOMAIN sent
      BY <2>2, <3>5 DEF OrderInv
    <3>6. CASE j \notin DOMAIN sent /\ i \notin DOMAIN sent
      <4>1. i - Len(sent) < j - Len(sent)
        BY <3>1, <3>2, <3>3
      <4>2. QED
        BY <2>2, <3>6, <4>1 DEF OrderInv, Increasing
    <3>7. QED
      BY <3>4, <3>5, <3>6
  <2>4. QED
    BY <2>3 DEF s
<1>3. QED
  BY <1>1, <1>2, OrderStep, FirstAlways, PTL DEF LinkSpec
=============================================================================

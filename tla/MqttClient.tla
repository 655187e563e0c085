----------------------------- MODULE MqttClient -----------------------------
(***************************************************************************)
(* tools/mqtt/mqtt_client_v2.cpp: the life of a connection.                *)
(*                                                                         *)
(* Three threads: the application's ("app"), which calls every public      *)
(* operation, the reconnection thread ("recon") and the refresher that     *)
(* connect() starts.  mutex_ is held for the whole of connect(), which is  *)
(* several steps here: it is held exactly when a thread's pc is in         *)
(* Section.  The other operations keep it for one step.  connected_ and    *)
(* connecting_ are atomics that are also read without it.  MQTT-C, the     *)
(* network and the broker are external: link is the state of the TCP       *)
(* connection the library works on, served what the broker delivers on it. *)
(* Payloads, errors' texts and the queue of asynchronous operations, which *)
(* nothing ever executes, are left out.                                    *)
(***************************************************************************)
EXTENDS Integers, FiniteSets

CONSTANTS
    Topics,         \* the topics subscribe and unsubscribe are called with
    MaxAttempts     \* max_reconnect_attempts_; not positive: unlimited

ASSUME MaxAttemptsAssumption == MaxAttempts \in Int

VARIABLES
    connected, connecting,   \* connected_, connecting_
    auto,                    \* auto_reconnect_
    attempts,                \* reconnect_attempts_
    socket,                  \* socket_fd_: "none" is -1
    link,                    \* whether the library's connection still works
    subscriptions,           \* subscriptions_
    served,                  \* what the broker delivers on this connection
    pc,                      \* where app and recon are; "none": not joinable
    refresher                \* where sync_thread_ is; "none": not joinable

flags == <<connected, connecting>>
broker == <<link, subscriptions, served>>
vars == <<connected, connecting, auto, attempts, socket, link, subscriptions,
          served, pc, refresher>>

Callers == {"app", "recon"}
Section == {"socket", "handshake", "join", "settle", "announce", "callback"}
AppPc == Section \cup {"idle", "connect", "sync", "syncError", "stopping", "dStopping",
                       "dDisconnect", "dJoin", "destroyed", "terminated"}
ReconPc == Section \cup {"none", "top", "sleep", "attempt", "connect", "exited"}
RefresherAlive == {"test", "testConnecting", "sync"}

\* mutex_ is free.
MutexFree == \A c \in Callers : pc[c] \notin Section

Goto(c, place) == pc' = [pc EXCEPT ![c] = place]
Step(c, from, to) == pc[c] = from /\ Goto(c, to)

\* Where connect() returns to.
Return(c) == Goto(c, IF c = "app" THEN "idle" ELSE "top")

Init ==
    /\ connected = FALSE /\ connecting = FALSE /\ auto = FALSE
    /\ attempts = 0 /\ socket = "none" /\ link = "broken"
    /\ subscriptions = {} /\ served = {}
    /\ pc = [c \in Callers |-> IF c = "app" THEN "idle" ELSE "none"]
    /\ refresher = "none"

-----------------------------------------------------------------------------
(* connect(), called by the application or by the reconnection thread. *)

CallConnect ==
    /\ Step("app", "idle", "connect")
    /\ UNCHANGED <<flags, auto, attempts, socket, broker, refresher>>

\* Already connected or connecting.
ConnectRefused(c) ==
    /\ pc[c] = "connect" /\ Return(c)
    /\ MutexFree /\ (connected \/ connecting)
    /\ UNCHANGED <<flags, auto, attempts, socket, broker, refresher>>

\* Mutant: only connecting_ is tested.
ConnectWhileConnected(c) ==
    /\ Step(c, "connect", "socket")
    /\ MutexFree /\ ~connecting /\ connecting' = TRUE
    /\ UNCHANGED <<connected, auto, attempts, socket, broker, refresher>>

ConnectBegin(c) ==
    /\ Step(c, "connect", "socket")
    /\ MutexFree /\ ~connected /\ ~connecting /\ connecting' = TRUE
    /\ UNCHANGED <<connected, auto, attempts, socket, broker, refresher>>

SocketOpened(c) ==
    /\ Step(c, "socket", "handshake")
    /\ socket' = "open"
    /\ UNCHANGED <<flags, auto, attempts, broker, refresher>>

\* Mutant: the error path leaves connecting_ set.
SocketRefusedConnecting(c) ==
    /\ pc[c] = "socket" /\ Return(c)
    /\ socket' = "none"
    /\ UNCHANGED <<flags, auto, attempts, broker, refresher>>

\* The address is unknown or nobody listens.
SocketRefused(c) ==
    /\ pc[c] = "socket" /\ Return(c)
    /\ socket' = "none" /\ connecting' = FALSE
    /\ UNCHANGED <<connected, auto, attempts, broker, refresher>>

\* initialize_client and mqtt_connect: a new session, with nothing subscribed.
\* A socket left by an earlier connection is overwritten, never closed.
HandshakeQueued(c) ==
    /\ Step(c, "handshake", "join")
    /\ link' = "up" /\ served' = {}
    /\ UNCHANGED <<flags, auto, attempts, socket, subscriptions, refresher>>

HandshakeFailed(c) ==
    /\ pc[c] = "handshake" /\ Return(c)
    /\ link' = "up" /\ served' = {} /\ connecting' = FALSE
    /\ UNCHANGED <<connected, auto, attempts, socket, subscriptions, refresher>>

\* The previous refresher is joined, with connecting_ set, and the next started.
StartRefresher(c) ==
    /\ Step(c, "join", "settle")
    /\ refresher \notin RefresherAlive /\ refresher' = "test"
    /\ UNCHANGED <<flags, auto, attempts, socket, broker>>

\* std::thread throws when the thread cannot be made.  Neither reconnect_loop nor
\* any application in the repository catches it: the program is terminated.
RefresherThrows(c) ==
    /\ pc[c] = "join" /\ refresher \notin RefresherAlive
    /\ pc' = [app |-> "terminated", recon |-> "none"] /\ refresher' = "none"
    /\ UNCHANGED <<flags, auto, attempts, socket, broker>>

Settle(c) ==
    /\ Step(c, "settle", "announce")
    /\ connecting' = FALSE
    /\ UNCHANGED <<connected, auto, attempts, socket, broker, refresher>>

\* connected_ is set whatever the broker will answer.
Announce(c) ==
    /\ Step(c, "announce", "callback")
    /\ connected' = TRUE
    /\ UNCHANGED <<connecting, auto, attempts, socket, broker, refresher>>

\* The application's connect callback has run, with connected_ already set and
\* mutex_ still held; attempt_reconnect starts counting anew.
CallbackReturns(c) ==
    /\ pc[c] = "callback" /\ Return(c)
    /\ attempts' = IF c = "recon" THEN 0 ELSE attempts
    /\ UNCHANGED <<flags, auto, socket, broker, refresher>>

Connect(c) ==
    \/ ConnectRefused(c) \/ ConnectBegin(c) \/ SocketOpened(c) \/ SocketRefused(c)
    \/ HandshakeQueued(c) \/ HandshakeFailed(c) \/ StartRefresher(c)
    \/ RefresherThrows(c) \/ Settle(c) \/ Announce(c) \/ CallbackReturns(c)

-----------------------------------------------------------------------------
(* The application's other calls. *)

\* The locked part of disconnect(): mqtt_disconnect when connected, close_socket.
DisconnectSection ==
    /\ MutexFree
    /\ connected' = FALSE /\ socket' = "none" /\ link' = "broken"
    /\ UNCHANGED <<connecting, auto, attempts, subscriptions, served, refresher>>

Disconnect == pc["app"] = "idle" /\ DisconnectSection /\ UNCHANGED pc

\* A subscription is recorded when the library has taken it.
Subscribe(t) ==
    /\ pc["app"] = "idle" /\ MutexFree /\ connected
    /\ subscriptions' = subscriptions \cup {t}
    /\ served' = IF link = "up" THEN served \cup {t} ELSE served
    /\ UNCHANGED <<flags, auto, attempts, socket, link, pc, refresher>>

\* subscribe() and unsubscribe() without a connection, or refused by the library,
\* as when its buffer is full: nothing is recorded.
SubscribeFails == pc["app"] = "idle" /\ MutexFree /\ UNCHANGED vars

Unsubscribe(t) ==
    /\ pc["app"] = "idle" /\ MutexFree /\ connected
    /\ subscriptions' = subscriptions \ {t}
    /\ served' = IF link = "up" THEN served \ {t} ELSE served
    /\ UNCHANGED <<flags, auto, attempts, socket, link, pc, refresher>>

\* sync() takes no lock: it tests, runs mqtt_sync, and clears connected_ on an
\* error.  The socket stays open.
Sync ==
    /\ Step("app", "idle", "sync")
    /\ connected /\ socket = "open"
    /\ UNCHANGED <<flags, auto, attempts, socket, broker, refresher>>

\* Mutant: every result of mqtt_sync counts as an error.
SyncedInverted ==
    /\ Step("app", "sync", "syncError")
    /\ UNCHANGED <<flags, auto, attempts, socket, broker, refresher>>

Synced ==
    /\ Step("app", "sync", IF link = "up" THEN "idle" ELSE "syncError")
    /\ UNCHANGED <<flags, auto, attempts, socket, broker, refresher>>

SyncError ==
    /\ Step("app", "syncError", "idle")
    /\ connected' = FALSE
    /\ UNCHANGED <<connecting, auto, attempts, socket, broker, refresher>>

\* A thread is made only when there is none to join, even one that has ended.
SetAutoReconnect(enable) ==
    /\ pc["app"] = "idle"
    /\ auto' = enable
    /\ IF enable /\ pc["recon"] = "none" THEN Goto("recon", "top") ELSE UNCHANGED pc
    /\ UNCHANGED <<flags, attempts, socket, broker, refresher>>

StopAutoReconnect ==
    /\ Step("app", "idle", "stopping")
    /\ auto' = FALSE
    /\ UNCHANGED <<flags, attempts, socket, broker, refresher>>

\* Mutant: the reconnection is not told to stop.
DestroyKeepsAuto ==
    /\ Step("app", "idle", "dStopping")
    /\ UNCHANGED <<flags, auto, attempts, socket, broker, refresher>>

\* The destructor: stop_auto_reconnect, disconnect, join the refresher.
Destroy ==
    /\ Step("app", "idle", "dStopping")
    /\ auto' = FALSE
    /\ UNCHANGED <<flags, attempts, socket, broker, refresher>>

AfterJoin == IF pc["app"] = "stopping" THEN "idle" ELSE "dDisconnect"

\* Mutant: the thread is told to stop but not waited for.
JoinReconnectUnawaited ==
    /\ pc["app"] \in {"stopping", "dStopping"}
    /\ Goto("app", AfterJoin)
    /\ UNCHANGED <<flags, auto, attempts, socket, broker, refresher>>

JoinReconnect ==
    /\ pc["app"] \in {"stopping", "dStopping"}
    /\ pc["recon"] \in {"none", "exited"}
    /\ pc' = [app |-> AfterJoin, recon |-> "none"]
    /\ UNCHANGED <<flags, auto, attempts, socket, broker, refresher>>

DestroyDisconnect == Step("app", "dDisconnect", "dJoin") /\ DisconnectSection

DestroyJoin ==
    /\ Step("app", "dJoin", "destroyed")
    /\ refresher \notin RefresherAlive /\ refresher' = "none"
    /\ UNCHANGED <<flags, auto, attempts, socket, broker>>

-----------------------------------------------------------------------------
(* The reconnection thread: reconnect_loop and attempt_reconnect. *)

LoopTest ==
    /\ Step("recon", "top", IF auto THEN "sleep" ELSE "exited")
    /\ UNCHANGED <<flags, auto, attempts, socket, broker, refresher>>

\* Mutant: a socket that was opened counts as a connection.
WakeSocketOnly ==
    /\ Step("recon", "sleep", IF socket = "open" THEN "top" ELSE "attempt")
    /\ UNCHANGED <<flags, auto, attempts, socket, broker, refresher>>

\* After the sleep is_connected() alone decides; auto_reconnect_ is not read.
Wake ==
    /\ Step("recon", "sleep", IF connected /\ socket = "open" THEN "top" ELSE "attempt")
    /\ UNCHANGED <<flags, auto, attempts, socket, broker, refresher>>

Exhausted == MaxAttempts > 0 /\ attempts >= MaxAttempts

AttemptRefused ==
    /\ Step("recon", "attempt", "top") /\ Exhausted
    /\ UNCHANGED <<flags, auto, attempts, socket, broker, refresher>>

AttemptReconnect ==
    /\ Step("recon", "attempt", "connect") /\ ~Exhausted
    /\ attempts' = attempts + 1
    /\ UNCHANGED <<flags, auto, socket, broker, refresher>>

-----------------------------------------------------------------------------
(* The refresher: while (connected_ || connecting_) { mqtt_sync; sleep }. *)

RefresherTest ==
    /\ refresher = "test"
    /\ refresher' = IF connected THEN "sync" ELSE "testConnecting"
    /\ UNCHANGED <<flags, auto, attempts, socket, broker, pc>>

\* Mutant: the loop does not end.
RefreshForever ==
    /\ refresher = "testConnecting" /\ refresher' = "sync"
    /\ UNCHANGED <<flags, auto, attempts, socket, broker, pc>>

RefresherTestConnecting ==
    /\ refresher = "testConnecting"
    /\ refresher' = IF connecting THEN "sync" ELSE "exited"
    /\ UNCHANGED <<flags, auto, attempts, socket, broker, pc>>

\* What mqtt_sync returns is ignored.
RefresherSync ==
    /\ refresher = "sync" /\ refresher' = "test"
    /\ UNCHANGED <<flags, auto, attempts, socket, broker, pc>>

\* The network or the broker drops the connection.
BreakLink ==
    /\ link = "up" /\ link' = "broken"
    /\ UNCHANGED <<flags, auto, attempts, socket, subscriptions, served, pc, refresher>>

-----------------------------------------------------------------------------
\* A call the application has begun; the calls themselves are its choice.
AppReturns ==
    \/ Synced \/ SyncError \/ JoinReconnect \/ DestroyDisconnect \/ DestroyJoin

AppCalls ==
    \/ CallConnect \/ Disconnect \/ Sync \/ StopAutoReconnect \/ Destroy \/ SubscribeFails
    \/ \E t \in Topics : Subscribe(t) \/ Unsubscribe(t)
    \/ \E enable \in BOOLEAN : SetAutoReconnect(enable)

ReconStep == LoopTest \/ Wake \/ AttemptRefused \/ AttemptReconnect

RefresherStep == RefresherTest \/ RefresherTestConnecting \/ RefresherSync

Next ==
    \/ \E c \in Callers : Connect(c)
    \/ AppCalls \/ AppReturns \/ ReconStep \/ RefresherStep \/ BreakLink

Spec == Init /\ [][Next]_vars

\* Every thread that can run does, and a thread that finds mutex_ free again and
\* again gets it (strong fairness): the others sleep between two uses of it,
\* 5 s the reconnection thread, 100 ms or more the application's loop.  Neither
\* the network nor the application owes anything.
Fairness ==
    /\ \A c \in Callers : SF_vars(Connect(c))
    /\ SF_vars(AppReturns) /\ WF_vars(ReconStep) /\ WF_vars(RefresherStep)

FairSpec == Spec /\ Fairness

-----------------------------------------------------------------------------
(* Safety. *)

\* The type invariant, with the limit on the attempts: connect() is never tried
\* more than MaxAttempts times in a row.
TypeOK ==
    /\ connected \in BOOLEAN /\ connecting \in BOOLEAN /\ auto \in BOOLEAN
    /\ attempts \in Nat /\ (MaxAttempts > 0 => attempts <= MaxAttempts)
    /\ socket \in {"none", "open"} /\ link \in {"up", "broken"}
    /\ subscriptions \subseteq Topics /\ served \subseteq Topics
    /\ pc \in [Callers -> AppPc \cup ReconPc]
    /\ pc["app"] \in AppPc /\ pc["recon"] \in ReconPc
    /\ refresher \in RefresherAlive \cup {"none", "exited"}

\* connecting_ is set exactly while a thread is inside connect(), on every path by
\* which it returns: were it left set, no later connect() could ever succeed.  Only
\* an exception leaves it set, and with the program.
ConnectingIsOwned ==
    connecting <=> \/ \E c \in Callers : pc[c] \in Section \ {"announce", "callback"}
                   \/ pc["app"] = "terminated"

\* Who reads connected_ finds a socket behind it and nobody replacing it: no
\* order of calls, failed reconnections and errors leaves the flag alone.  Of
\* connect() only the application's callback runs with the flag set.
ConnectedHasSocket ==
    connected => /\ socket = "open"
                 /\ \A c \in Callers : pc[c] \notin Section \ {"callback"}

\* After the destructor nothing is left of the client: no thread that could use
\* it, no socket, and nothing that could connect again.
DestroyedClean ==
    pc["app"] = "destroyed" =>
        /\ pc["recon"] = "none" /\ refresher = "none"
        /\ ~connected /\ ~connecting /\ socket = "none"

-----------------------------------------------------------------------------
(* Liveness. *)

\* connect() joins the previous refresher, which reads the connecting_ that
\* connect() has set and goes on for ever, as does the thread that joins it.
Entangled == \E c \in Callers : pc[c] = "join" /\ refresher \in RefresherAlive

\* Every call of the application returns, or ends the program, unless a connect()
\* is entangled: the mutex, the two joins and the three loops have no other way to
\* block.
Resting == {"idle", "destroyed", "terminated"}
CallsReturn == pc["app"] \notin Resting ~> (pc["app"] \in Resting \/ Entangled)

\* While automatic reconnection is on, a lost connection comes back or the
\* attempts are used up, however often connecting fails.
LostIsRecovered ==
    auto /\ pc["recon"] \notin {"none", "exited"} /\ ~connected
    ~> (connected \/ Exhausted \/ ~auto \/ Entangled \/ pc["app"] = "terminated")
=============================================================================

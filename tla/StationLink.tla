----------------------------- MODULE StationLink -----------------------------
(***************************************************************************)
(* charging_station.cpp over the MQTT client: main's start, loop and exit, *)
(* the ONLINE bit, the queue of messages, and what reaches the broker.     *)
(*                                                                         *)
(* The application of MqttClient is main here and makes the calls main     *)
(* makes; the reconnection thread, the refresher and the network are the   *)
(* client's.  MQTT-C's own mutex is modelled (lib): whoever works on the   *)
(* library's queue needs it, and mqtt_sync keeps it while it runs the      *)
(* command handler.  mqtt_msg_queue_mutex is main's in "send".  Of the     *)
(* handling of a command and of the charge callback, whose inner steps     *)
(* Station models, there is here what they wait for and what they push.    *)
(***************************************************************************)
EXTENDS MqttClient, Sequences

CONSTANTS
    Command, Beat,  \* the topics main subscribes to: commands and heartbeats
    MaxMessages     \* bound: messages pushed

ASSUME LinkAssumption ==
    Topics = {Command, Beat} /\ Command # Beat /\ MaxMessages \in Nat

VARIABLES
    online,     \* the ONLINE bit of DEVICE_STATUS
    running,    \* running, cleared by the signal handler
    charging,   \* the charge timer runs
    reporting,  \* its worker is in the charge callback
    lib,        \* who holds the library's mutex across steps: it handles a command
    task,       \* what the handler still has to do
    queue,      \* mqtt_msg_queue: messages are numbered as they are pushed
    mpc,        \* where main is
    pushed,     \* history: number of messages pushed, up to MaxMessages
    sent,       \* history: the messages a working connection has taken
    refused,    \* history: number of messages a working connection has not taken
    broken      \* history: a connection has been lost

handling == <<charging, reporting, lib, task>>
messages == <<queue, pushed, sent, refused>>
mainVars == <<online, running, handling, messages, mpc, broken>>
linkVars == <<vars, mainVars>>

MainPc == {"start", "connect", "online", "subscribe", "subscribeBeat", "loop", "sync",
           "syncing", "send", "heartbeat", "disconnect", "exit"}
Tasks == {"none", "start", "stop", "answer"}

At(place) == mpc = place
Go(from, to) == mpc = from /\ mpc' = to

LinkInit ==
    /\ Init
    /\ online = FALSE /\ running = TRUE /\ charging = FALSE /\ reporting = FALSE
    /\ lib = "free" /\ task = "none"
    /\ queue = <<>> /\ pushed = 0 /\ sent = <<>> /\ refused = 0
    /\ mpc = "start" /\ broken = FALSE

-----------------------------------------------------------------------------
(* What the other threads do to the station. *)

\* push_mqtt_msg: send_mqtt_msg has the queue's mutex while it publishes.
Push ==
    /\ ~At("send")
    /\ pushed' = pushed + 1
    /\ queue' = Append(queue, pushed + 1)

\* The bound: what is pushed, and what the handler and the worker are about to push.
Room == pushed + Cardinality({task} \cap {"stop", "answer"})
               + Cardinality({reporting} \cap {TRUE}) < MaxMessages

\* The threads that can be in mqtt_sync, main ("app") and the refresher.
Syncing(d) == IF d = "app" THEN pc["app"] = "sync" ELSE refresher = "sync"

\* A command comes in: the handler runs with the library's mutex held.  It goes on
\* to start the timer, to stop it, or to answer a start it refuses.
Deliver(d) ==
    /\ Syncing(d) /\ lib = "free" /\ lib' = d
    /\ link = "up" /\ Command \in served
    /\ \/ task' = "start" /\ ~charging
       \/ task' \in {"stop", "answer"} /\ Room
    /\ UNCHANGED <<vars, online, running, charging, reporting, messages, mpc, broken>>

\* An accepted start is not answered.
StartTimer ==
    /\ task = "start" /\ task' = "none" /\ lib' = "free"
    /\ charging' = TRUE
    /\ UNCHANGED <<vars, online, running, reporting, messages, mpc, broken>>

\* timer->stop() joins the worker.
StopTimer ==
    /\ task = "stop" /\ task' = "answer"
    /\ ~reporting /\ charging' = FALSE
    /\ UNCHANGED <<vars, online, running, reporting, lib, messages, mpc, broken>>

\* send_result
Answer ==
    /\ task = "answer" /\ task' = "none" /\ lib' = "free"
    /\ Push
    /\ UNCHANGED <<vars, online, running, charging, reporting, mpc, sent, refused, broken>>

ReportBegins ==
    /\ charging /\ ~reporting /\ reporting' = TRUE /\ Room
    /\ UNCHANGED <<vars, online, running, charging, lib, task, messages, mpc, broken>>

\* send_charge_info
Report ==
    /\ reporting /\ reporting' = FALSE
    /\ Push
    /\ UNCHANGED <<vars, online, running, charging, lib, task, mpc, sent, refused, broken>>

HandlerStep == StartTimer \/ StopTimer \/ Answer

\* SIGINT or SIGTERM
Signal ==
    /\ running /\ running' = FALSE
    /\ UNCHANGED <<vars, online, handling, messages, mpc, broken>>

-----------------------------------------------------------------------------
(* The client's steps in the station. *)

\* Mutant: a successful connection leaves the bit as it is.
ConnectedKeepsOnline(c) ==
    /\ CallbackReturns(c)
    /\ UNCHANGED mainVars

\* The connect callback: success clears the bit.  It is not called on failure.
ConnectCallback(c) ==
    /\ CallbackReturns(c) /\ online' = FALSE
    /\ UNCHANGED <<running, handling, messages, mpc, broken>>

\* initialize_client initialises the library's mutex anew: it does not wait for it.
ConnectStep(c) ==
    /\ \/ ConnectRefused(c) \/ ConnectBegin(c) \/ SocketOpened(c) \/ SocketRefused(c)
       \/ HandshakeQueued(c) \/ HandshakeFailed(c) \/ StartRefresher(c) \/ Settle(c)
       \/ Announce(c)
    /\ UNCHANGED mainVars

\* The refresher cannot be made: the program ends, the worker with it.
Terminated(c) ==
    /\ RefresherThrows(c)
    /\ mpc' = "exit" /\ running' = FALSE
    /\ charging' = FALSE /\ reporting' = FALSE /\ lib' = "free" /\ task' = "none"
    /\ UNCHANGED <<online, messages, broken>>

LinkLost ==
    /\ BreakLink /\ broken' = TRUE
    /\ UNCHANGED <<online, running, handling, messages, mpc>>

\* mqtt_sync and mqtt_disconnect lock the library's mutex.
ReturnStep ==
    /\ AppReturns /\ UNCHANGED mainVars
    /\ pc["app"] = "sync" \/ (pc["app"] = "dDisconnect" /\ connected) => lib = "free"

RefresherTurn ==
    /\ RefresherStep /\ UNCHANGED mainVars
    /\ refresher = "sync" => lib = "free"

ReconTurn == ReconStep /\ UNCHANGED mainVars

-----------------------------------------------------------------------------
(* main: init_network. *)

StartConnect ==
    /\ Go("start", "connect") /\ CallConnect
    /\ UNCHANGED <<online, running, handling, messages, broken>>

\* connect() has failed: the loop runs without a network, and nothing retries.
ConnectFailed ==
    /\ Go("connect", "loop") /\ pc["app"] = "idle" /\ ~connected
    /\ online' = FALSE
    /\ UNCHANGED <<vars, running, handling, messages, broken>>

EnableReconnect ==
    /\ Go("connect", "online") /\ connected /\ SetAutoReconnect(TRUE)
    /\ UNCHANGED <<online, running, handling, messages, broken>>

SetOnline ==
    /\ Go("online", "subscribe") /\ online' = TRUE
    /\ UNCHANGED <<vars, running, handling, messages, broken>>

\* subscribe() fails without a connection, or when the library refuses; main logs
\* the failure and goes on.
Subscribing(t) == lib = "free" /\ (Subscribe(t) \/ SubscribeFails)

SubscribeCommand ==
    /\ Go("subscribe", "subscribeBeat") /\ Subscribing(Command)
    /\ UNCHANGED <<online, running, handling, messages, broken>>

SubscribeBeat ==
    /\ Go("subscribeBeat", "loop") /\ Subscribing(Beat)
    /\ UNCHANGED <<online, running, handling, messages, broken>>

-----------------------------------------------------------------------------
(* main: the loop and the exit. *)

\* A turn of the loop without ONLINE only sleeps, as every turn ends.
LoopTop ==
    /\ Go("loop", IF running THEN "sync" ELSE "disconnect") /\ (running => online)
    /\ UNCHANGED <<vars, online, running, handling, messages, broken>>

\* client.sync()
SyncClient ==
    /\ \/ Go("sync", "syncing") /\ Sync
       \/ Go("sync", "send") /\ ~(connected /\ socket = "open") /\ UNCHANGED vars
    /\ UNCHANGED <<online, running, handling, messages, broken>>

SyncReturns ==
    /\ Go("syncing", "send") /\ pc["app"] = "idle"
    /\ UNCHANGED <<vars, online, running, handling, messages, broken>>

\* publish() keeps mutex_ while it waits for the library's.
CanPublish == MutexFree /\ (connected => lib = "free")
Working == connected /\ link = "up"

\* Mutant: what publish() refuses goes back to the end of the queue.
PublishRequeued ==
    /\ At("send") /\ queue # <<>> /\ CanPublish
    /\ \/ queue' = Tail(queue) /\ UNCHANGED refused
          /\ sent' = IF Working THEN Append(sent, Head(queue)) ELSE sent
       \/ queue' = Append(Tail(queue), Head(queue))
          /\ connected /\ UNCHANGED <<sent, refused>>
    /\ UNCHANGED <<vars, online, running, handling, mpc, pushed, broken>>

\* Mutant: the message goes off the queue only when the client has taken it.
PublishRetried ==
    /\ At("send") /\ queue # <<>> /\ CanPublish /\ connected
    /\ queue' = Tail(queue)
    /\ \/ sent' = (IF Working THEN Append(sent, Head(queue)) ELSE sent) /\ UNCHANGED refused
       \/ refused' = (IF Working THEN refused + 1 ELSE refused) /\ UNCHANGED sent
    /\ UNCHANGED <<vars, online, running, handling, mpc, pushed, broken>>

\* send_mqtt_msg takes a message off before it calls publish() and ignores what that
\* returns: false without a connection, and when the library does not take the
\* message, as when its buffer is full.  What the library has taken for a broken
\* connection goes with that connection.
Publish ==
    /\ At("send") /\ queue # <<>> /\ CanPublish
    /\ queue' = Tail(queue)
    /\ \/ sent' = (IF Working THEN Append(sent, Head(queue)) ELSE sent) /\ UNCHANGED refused
       \/ refused' = (IF Working THEN refused + 1 ELSE refused) /\ UNCHANGED sent
    /\ UNCHANGED <<vars, online, running, handling, mpc, pushed, broken>>

QueueSent ==
    /\ \E place \in {"heartbeat", "loop"} : Go("send", place)
    /\ queue = <<>>
    /\ UNCHANGED <<vars, online, running, handling, messages, broken>>

\* send_heatbeat publishes directly and ignores the result.
Heartbeat ==
    /\ Go("heartbeat", "loop") /\ CanPublish
    /\ UNCHANGED <<vars, online, running, handling, messages, broken>>

FinalDisconnect ==
    /\ Go("disconnect", "exit") /\ Disconnect
    /\ connected => lib = "free"
    /\ UNCHANGED <<online, running, handling, messages, broken>>

\* main has returned: the static client is destroyed, the timer after it.
DestroyClient ==
    /\ At("exit") /\ Destroy
    /\ UNCHANGED mainVars

DestroyTimer ==
    /\ At("exit") /\ pc["app"] = "destroyed"
    /\ charging /\ ~reporting /\ charging' = FALSE
    /\ UNCHANGED <<vars, online, running, reporting, lib, task, messages, mpc, broken>>

-----------------------------------------------------------------------------
MainStep ==
    \/ StartConnect \/ ConnectFailed \/ EnableReconnect \/ SetOnline
    \/ SubscribeCommand \/ SubscribeBeat \/ LoopTop \/ SyncClient \/ SyncReturns
    \/ Publish \/ QueueSent \/ Heartbeat
    \/ FinalDisconnect \/ DestroyClient \/ DestroyTimer

ConnectTurn(c) == ConnectStep(c) \/ ConnectCallback(c) \/ Terminated(c)

LinkNext ==
    \/ MainStep \/ ReturnStep \/ ReconTurn \/ RefresherTurn \/ LinkLost
    \/ \E c \in Callers : ConnectTurn(c)
    \/ HandlerStep \/ Report \/ ReportBegins \/ Signal
    \/ \E d \in {"app", "refresher"} : Deliver(d)

LinkSpec == LinkInit /\ [][LinkNext]_linkVars

\* Every thread that can run does.  main, the handler and the worker need strong
\* fairness, for a mutex that is free again and again: between two uses main sleeps a
\* second and the client's threads 100 ms or more.  No command, report or signal has
\* to come, and the network owes nothing.
LinkFairness ==
    /\ SF_linkVars(MainStep) /\ SF_linkVars(ReturnStep)
    /\ SF_linkVars(HandlerStep) /\ SF_linkVars(Report)
    /\ \A c \in Callers : WF_linkVars(ConnectTurn(c))
    /\ WF_linkVars(ReconTurn) /\ WF_linkVars(RefresherTurn)

FairLinkSpec == LinkSpec /\ LinkFairness

-----------------------------------------------------------------------------
(* Safety. *)

\* While the station says ONLINE over a working connection, that connection serves
\* every topic the client believes it has subscribed.  A new connection serves none
\* and nobody subscribes again, so this rests on the connect callback, which clears
\* the bit; between the setting of connected_ and the callback the bit is stale.
OnlineServes ==
    online /\ Working /\ (\A c \in Callers : pc[c] # "callback")
    => subscriptions \subseteq served

\* Messages reach the broker in the order in which they were pushed, none twice;
\* and as long as the first connection works a message that has left the queue has
\* been taken by the library or refused by it: none is dropped for want of a
\* connection, whatever main, the handlers and the worker do.
Increasing(s) == \A i, j \in DOMAIN s : i < j => s[i] < s[j]
InOrder ==
    /\ Increasing(sent \o queue)
    /\ ~broken => Len(sent) + Len(queue) + refused = pushed

\* Whoever turned the charging on can turn it off as long as the first
\* connection works: no reconnection takes the topic of the commands away.
ChargingIsHeard ==
    charging /\ ~broken /\ running => Command \in served /\ connected

(* Liveness. *)

\* The deadlock of the design: main publishes with the queue's mutex in hand and
\* waits for the library's, whose holder waits for the queue's, itself or through
\* the worker that it joins.
LockCycle ==
    /\ At("send") /\ queue # <<>> /\ connected /\ lib = "refresher"
    /\ task = "answer" \/ (task = "stop" /\ reporting)

\* An ONLINE station empties its queue, whatever the network does, unless its
\* threads meet in one of the two deadlocks: the lock cycle, or a reconnection that
\* joins the old refresher.
QueueDrains ==
    queue # <<>> /\ online
    ~> (queue = <<>> \/ ~online \/ ~running \/ Entangled \/ LockCycle)

\* After the signal the program gets to its end, with no thread of the client and no
\* timer left, unless its threads meet in one of the two deadlocks.
ExitCompletes ==
    ~running ~> \/ At("exit") /\ pc["app"] \in {"destroyed", "terminated"} /\ ~charging
                \/ Entangled \/ LockCycle

(* What the comments of the repository say. *)

\* charging_station.cpp:69: the bit says that the station is online; a
\* connection that stays up ends with the bit set.
ConnectedIsOnline ==
    connected /\ link = "up" ~> (online \/ ~connected \/ link = "broken" \/ ~running)
=============================================================================

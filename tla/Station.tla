------------------------------- MODULE Station -------------------------------
(***************************************************************************)
(* charging_station.cpp: the command handler, the main loop and the charge *)
(* timer's callback, over the Timer they share.                            *)
(*                                                                         *)
(* Commands arrive in mqtt_sync, which both the main loop and the client's *)
(* refresher thread call; MQTT-C keeps its own mutex while it runs the     *)
(* message callback.  Four mutexes meet here: MQTT-C's (lib), the message  *)
(* queue's (queueLock), charge_info_mutex (infoLock) and the timer's, held *)
(* by the worker during the callback (wpc = "callback" in Timer).          *)
(* device_mutex guards single accesses of DEVICE_STATUS only.  The         *)
(* connection is StationLink's: here it is made once, if at all, and then  *)
(* lasts, so ONLINE never changes after main has set things up.            *)
(***************************************************************************)
EXTENDS Timer, Sequences

CONSTANTS
    main,               \* the main thread
    refresher,          \* MQTTClientV2's client_refresher thread
    SelfCheckResults,   \* what device->SelfCheck() may answer
    MaxCommands,        \* bound: commands delivered
    MaxEnergy           \* bound: callbacks in one charging session

Dispatchers == {main, refresher}

ASSUME DispatchersAssumption ==
    /\ Callers = Dispatchers /\ main # refresher
    /\ Dispatchers \cap {"free", "worker"} = {}
\* init_timer makes a LOOP timer, which never completes by itself.
ASSUME ChargeTimerAssumption == Modes = {"LOOP"}
ASSUME StationBounds ==
    /\ SelfCheckResults \subseteq Int
    /\ MaxCommands \in Nat /\ MaxEnergy \in Nat
    /\ 0 \in Delays

VARIABLES
    status,      \* DEVICE_STATUS: the set of bits that are on
    info,        \* charge_info: its start_type and all_energy
    queue,       \* mqtt_msg_queue
    lib,         \* who holds MQTT-C's mutex
    queueLock,   \* who holds mqtt_msg_queue_mutex across steps
    infoLock,    \* who holds charge_info_mutex
    pc,          \* where each dispatcher is
    cmd,         \* the command it handles
    cb,          \* where the charge callback is
    delivered,   \* commands delivered, up to MaxCommands
    session,     \* history: number of accepted starts
    answered,    \* history: the handler has pushed a result for its command
    acked,       \* history: the last session whose STOP has been answered
    lastReport   \* history: session and energy of the last charge report

locks == <<lib, queueLock, infoLock>>
history == <<delivered, session, answered, acked, lastReport>>
stationVars == <<status, info, queue, locks, pc, cmd, cb, history>>
allVars == <<vars, stationVars>>

Free == "free"
Starts == {"REMOTE_START", "COMMERCIAL_START"}
\* Every other command, topic, device or malformed payload is ignored.
Commands == Starts \cup {"STOP", "OTHER"}

HandlerPc == {"test", "claim", "admit", "refuse", "lockInfo", "restart", "restarting",
              "stop", "stopping", "acknowledge", "release"}
LoopPc == {"setup", "none", "sync", "send", "publish", "heartbeat"}
Handling(d) == pc[d] \in HandlerPc

Bits == {"ERROR_CONFIG", "SELF_CHECK_FAIL", "START", "STOP", "ONLINE", "BUSY",
         "FORBIDDEN", "FORBIDDEN_REMOTE", "FORBIDDEN_COMMERCIAL"}
Message == [kind : {"result"}, cmd : Commands, ok : BOOLEAN]
           \cup [kind : {"charge"}, session : Nat, energy : Nat]

StationTypeOK ==
    /\ TypeOK
    /\ status \subseteq Bits
    /\ info \in [type : Starts \cup {"none"}, energy : Nat]
    /\ queue \in Seq(Message)
    /\ lib \in Dispatchers \cup {Free}
    /\ queueLock \in {main, Free} /\ infoLock \in Dispatchers \cup {Free, "worker"}
    /\ pc \in [Dispatchers -> HandlerPc \cup LoopPc]
    /\ cmd \in [Dispatchers -> Commands]
    /\ cb \in {"enter", "push", "done"}
    /\ delivered \in 0 .. MaxCommands /\ session \in Nat
    /\ answered \in [Dispatchers -> BOOLEAN]
    /\ acked \in 0 .. session
    /\ lastReport \in [session : 0 .. session, energy : Nat]

StationInit ==
    /\ Init
    /\ status = {} /\ info = [type |-> "none", energy |-> 0] /\ queue = <<>>
    /\ lib = Free /\ queueLock = Free /\ infoLock = Free
    /\ pc = [d \in Dispatchers |-> IF d = main THEN "setup" ELSE "none"]
    /\ cmd = [d \in Dispatchers |-> "OTHER"]
    /\ cb = "enter"
    /\ delivered = 0 /\ session = 0
    /\ answered = [d \in Dispatchers |-> FALSE]
    /\ acked = 0 /\ lastReport = [session |-> 0, energy |-> 0]

-----------------------------------------------------------------------------
(* Helpers. *)

Jump(d, to) == pc' = [pc EXCEPT ![d] = to]
Step(d, from, to) == pc[d] = from /\ Jump(d, to)

\* push_mqtt_msg: under the queue's mutex, so not while main is publishing.
Push(m) == queueLock = Free /\ queue' = Append(queue, m)

\* send_result
Answer(d, ok) ==
    /\ Push([kind |-> "result", cmd |-> cmd[d], ok |-> ok])
    /\ answered' = [answered EXCEPT ![d] = TRUE]

\* The bits that bar a start of each type once BUSY is claimed.
Bars(c) == IF c = "REMOTE_START" THEN {"FORBIDDEN_REMOTE"}
           ELSE {"FORBIDDEN_COMMERCIAL", "ERROR_CONFIG"}

-----------------------------------------------------------------------------
(* The message callback: msg_handle, with check_start_condition. *)

\* mqtt_sync takes the library's mutex and finds a message.  main calls it while the
\* station is ONLINE, the refresher whatever the bit says.
Deliver(d, c) ==
    /\ pc[d] = "sync" /\ (d = main => "ONLINE" \in status)
    /\ lib = Free /\ delivered < MaxCommands
    /\ lib' = d /\ delivered' = delivered + 1
    /\ cmd' = [cmd EXCEPT ![d] = c] /\ answered' = [answered EXCEPT ![d] = FALSE]
    /\ Jump(d, IF c \in Starts THEN "test" ELSE IF c = "STOP" THEN "stop" ELSE "release")
    /\ UNCHANGED <<vars, status, info, queue, queueLock, infoLock, cb, session, acked, lastReport>>

\* check_start_condition reads BUSY and sets it under two locks of device_mutex.
TestBusy(d) ==
    /\ Step(d, "test", IF {"FORBIDDEN", "BUSY"} \cap status = {} THEN "claim" ELSE "refuse")
    /\ UNCHANGED <<vars, status, info, queue, locks, cmd, cb, history>>

ClaimBusy(d) ==
    /\ Step(d, "claim", "admit")
    /\ status' = status \cup {"BUSY"}
    /\ UNCHANGED <<vars, info, queue, locks, cmd, cb, history>>

\* Mutant: a failed self check leaves BUSY set.
AdmitKeepsBusy(d) ==
    /\ Bars(cmd[d]) \cap status = {}
    /\ \E check \in SelfCheckResults :
         IF check > 0
         THEN status' = status \cup {"SELF_CHECK_FAIL"} /\ Step(d, "admit", "refuse")
         ELSE status' = status \ {"SELF_CHECK_FAIL"} /\ Step(d, "admit", "lockInfo")
    /\ UNCHANGED <<vars, info, queue, locks, cmd, cb, history>>

\* The checks of the type, then the self check: an answer > 0 is a failure.
Admit(d) ==
    /\ \/ /\ Bars(cmd[d]) \cap status # {}
          /\ status' = status \ {"BUSY"}
          /\ Step(d, "admit", "refuse")
       \/ /\ Bars(cmd[d]) \cap status = {}
          /\ \E check \in SelfCheckResults :
               IF check > 0
               THEN /\ status' = (status \ {"BUSY"}) \cup {"SELF_CHECK_FAIL"}
                    /\ Step(d, "admit", "refuse")
               ELSE /\ status' = status \ {"SELF_CHECK_FAIL"}
                    /\ Step(d, "admit", "lockInfo")
    /\ UNCHANGED <<vars, info, queue, locks, cmd, cb, history>>

\* Mutant: a refusal is not answered.
RefuseSilently(d) ==
    /\ Step(d, "refuse", "release")
    /\ UNCHANGED <<vars, status, info, queue, locks, cmd, cb, history>>

Refuse(d) ==
    /\ Step(d, "refuse", "release")
    /\ Answer(d, FALSE)
    /\ UNCHANGED <<vars, status, info, locks, cmd, cb, delivered, session, acked, lastReport>>

\* Mutant: charge_info.clear() is forgotten.
LockInfoKeepsEnergy(d) ==
    /\ Step(d, "lockInfo", "restart")
    /\ infoLock = Free /\ infoLock' = d
    /\ info' = [info EXCEPT !.type = cmd[d]]
    /\ session' = session + 1
    /\ UNCHANGED <<vars, status, queue, lib, queueLock, cmd, cb, delivered, answered,
                   acked, lastReport>>

\* The accepted start clears charge_info and restarts the timer with
\* charge_info_mutex held throughout; it sends no result.
LockInfo(d) ==
    /\ Step(d, "lockInfo", "restart")
    /\ infoLock = Free /\ infoLock' = d
    /\ info' = [type |-> cmd[d], energy |-> 0]
    /\ session' = session + 1
    /\ UNCHANGED <<vars, status, queue, lib, queueLock, cmd, cb, delivered, answered,
                   acked, lastReport>>

RestartTimer(d) ==
    /\ Step(d, "restart", "restarting")
    /\ Restart(d)
    /\ UNCHANGED <<status, info, queue, locks, cmd, cb, history>>

\* Mutant: the start returns with charge_info_mutex still locked.
RestartedKeepsLock(d) ==
    /\ Step(d, "restarting", "release")
    /\ call[d] = "idle"
    /\ UNCHANGED <<vars, status, info, queue, locks, cmd, cb, history>>

Restarted(d) ==
    /\ Step(d, "restarting", "release")
    /\ call[d] = "idle"
    /\ infoLock' = Free
    /\ UNCHANGED <<vars, status, info, queue, lib, queueLock, cmd, cb, history>>

\* Mutant: STOP is answered without a call of timer->stop().
StopTimerSkipped(d) ==
    /\ Step(d, "stop", "stopping")
    /\ UNCHANGED <<vars, status, info, queue, locks, cmd, cb, history>>

StopTimer(d) ==
    /\ Step(d, "stop", "stopping")
    /\ Stop(d)
    /\ UNCHANGED <<status, info, queue, locks, cmd, cb, history>>

\* Mutant: the handler does not wait for timer->stop() to join the worker.
StoppedUnjoined(d) ==
    /\ Step(d, "stopping", "acknowledge")
    /\ status' = (status \cup {"STOP"}) \ {"START", "BUSY"}
    /\ UNCHANGED <<vars, info, queue, locks, cmd, cb, history>>

Stopped(d) ==
    /\ Step(d, "stopping", "acknowledge")
    /\ call[d] = "idle"
    /\ status' = (status \cup {"STOP"}) \ {"START", "BUSY"}
    /\ UNCHANGED <<vars, info, queue, locks, cmd, cb, history>>

Acknowledge(d) ==
    /\ Step(d, "acknowledge", "release")
    /\ Answer(d, TRUE)
    /\ acked' = session
    /\ UNCHANGED <<vars, status, info, locks, cmd, cb, delivered, session, lastReport>>

\* The callback returns and mqtt_sync releases the library's mutex.
Release(d) ==
    /\ Step(d, "release", IF d = main THEN "send" ELSE "sync")
    /\ lib' = Free
    /\ UNCHANGED <<vars, status, info, queue, queueLock, infoLock, cmd, cb, history>>

\* The dispatcher's steps inside timer->restart() and timer->stop().
InTimer(d) == CallStep(d) /\ UNCHANGED stationVars

-----------------------------------------------------------------------------
(* The main thread. *)

\* main up to the loop: the timer, the price table, the network.  The refresher begins
\* with a connection; without one nothing ever connects again.
Setup ==
    /\ pc[main] = "setup"
    /\ \E p \in Params : p.callback /\ SetParameters(main, p, 0)
    /\ \E config \in SUBSET {"ERROR_CONFIG"}, connected \in BOOLEAN :
         /\ status' = config \cup (IF connected THEN {"ONLINE"} ELSE {})
         /\ pc' = [d \in Dispatchers |-> IF d = main \/ connected THEN "sync" ELSE "none"]
    /\ UNCHANGED <<info, queue, locks, cmd, cb, history>>

\* client.sync() finds nothing to read.
SyncNothing ==
    /\ Step(main, "sync", "send")
    /\ "ONLINE" \in status /\ lib = Free
    /\ UNCHANGED <<vars, status, info, queue, locks, cmd, cb, history>>

\* send_mqtt_msg keeps the queue's mutex while it publishes every message.
TakeQueue ==
    /\ Step(main, "send", "publish")
    /\ queueLock = Free /\ queueLock' = main
    /\ UNCHANGED <<vars, status, info, queue, lib, infoLock, cmd, cb, history>>

\* mqtt_publish locks the library's mutex; the message is off the queue
\* whatever it returns.
Publish ==
    /\ pc[main] = "publish" /\ UNCHANGED pc
    /\ queue # <<>> /\ queue' = Tail(queue)
    /\ lib = Free
    /\ UNCHANGED <<vars, status, info, locks, cmd, cb, history>>

\* Every tenth time round a heartbeat follows; then the loop sleeps.
QueueSent ==
    /\ \E place \in {"heartbeat", "sync"} : Step(main, "publish", place)
    /\ queue = <<>> /\ queueLock' = Free
    /\ UNCHANGED <<vars, status, info, queue, lib, infoLock, cmd, cb, history>>

\* send_heatbeat publishes directly.
Heartbeat ==
    /\ Step(main, "heartbeat", "sync")
    /\ lib = Free
    /\ UNCHANGED <<vars, status, info, queue, locks, cmd, cb, history>>

-----------------------------------------------------------------------------
(* The timer's worker: charge_timer_callback. *)

CallbackLock ==
    /\ wpc = "callback" /\ cb = "enter" /\ cb' = "push"
    /\ infoLock = Free /\ infoLock' = "worker"
    /\ info' = [info EXCEPT !.energy = @ + 1]
    /\ UNCHANGED <<vars, status, queue, lib, queueLock, pc, cmd, history>>

\* send_charge_info; on return the lock_guard releases charge_info_mutex.
CallbackPush ==
    /\ cb = "push" /\ cb' = "done"
    /\ Push([kind |-> "charge", session |-> session, energy |-> info.energy])
    /\ infoLock' = Free
    /\ lastReport' = [session |-> session, energy |-> info.energy]
    /\ UNCHANGED <<vars, status, info, lib, queueLock, pc, cmd, delivered, session,
                   answered, acked>>

CallbackReturn ==
    /\ cb = "done" /\ cb' = "enter"
    /\ WCallbackDone
    /\ UNCHANGED <<status, info, queue, locks, pc, cmd, history>>

\* The bound on a session's callbacks is a guard of the step that begins one.
WorkerLoop ==
    /\ WorkerStep /\ wpc # "callback"
    /\ wpc' = "callback" => info.energy < MaxEnergy
    /\ UNCHANGED stationVars

TimePasses == Tick /\ UNCHANGED stationVars

-----------------------------------------------------------------------------
HandlerStep(d) ==
    \/ TestBusy(d) \/ ClaimBusy(d) \/ Admit(d) \/ Refuse(d)
    \/ LockInfo(d) \/ RestartTimer(d) \/ Restarted(d)
    \/ StopTimer(d) \/ Stopped(d) \/ Acknowledge(d) \/ Release(d)
    \/ InTimer(d)

MainStep == Setup \/ SyncNothing \/ TakeQueue \/ Publish \/ QueueSent \/ Heartbeat

CallbackStep == CallbackLock \/ CallbackPush \/ CallbackReturn

StationNext ==
    \/ \E d \in Dispatchers : HandlerStep(d) \/ \E c \in Commands : Deliver(d, c)
    \/ MainStep \/ CallbackStep \/ WorkerLoop \/ TimePasses

StationSpec == StationInit /\ [][StationNext]_allVars

\* Every thread that can run does.  The refresher and the worker need strong fairness
\* for the queue's mutex, which main takes every second and gives back: they get it
\* in the second that main sleeps.  No command ever has to arrive.
StationFairness ==
    /\ WF_allVars(HandlerStep(main)) /\ SF_allVars(HandlerStep(refresher))
    /\ WF_allVars(MainStep) /\ SF_allVars(CallbackStep)
    /\ WF_allVars(WorkerLoop) /\ WF_allVars(TimePasses)

FairStationSpec == StationSpec /\ StationFairness

-----------------------------------------------------------------------------
(* Safety. *)

\* The timer is in ERROR because its thread could not be made, for which nobody looks:
\* no other history of starts, stops and joins puts it there.
Threadless == state = "ERROR" /\ "THREAD_ERROR" \in SpawnResults

\* Outside a handler BUSY says that the timer runs, or that its thread could not be
\* made: the second is as BUSY as the first and does not charge.  A session that
\* charges is BUSY all the time, has passed the checks it was admitted under, and no
\* later refused start has undone them.
BusyMeansStarted ==
    /\ (\A d \in Dispatchers : ~Handling(d))
       => ("BUSY" \in status <=> state = "RUNNING" \/ Threadless)
    /\ state = "RUNNING" =>
        /\ "BUSY" \in status
        /\ "SELF_CHECK_FAIL" \notin status
        /\ info.type = "COMMERCIAL_START" => "ERROR_CONFIG" \notin status

\* charge_info_mutex and the timer's mutex are taken in both orders, by a start
\* (restart() under charge_info_mutex) and by the callback.  They never wait
\* for each other, because a start that gets that far finds no worker.
NoLockInversion ==
    \A d \in Dispatchers :
        pc[d] \in {"lockInfo", "restart"} \/ call[d] \in {"rstopped", "rreset", "rstart"}
        => wpc = "none"

\* A start that is not answered has started the charging, or the timer's thread could
\* not be made, of which nobody is told: no other failure is silent.
SilenceMeansStarted ==
    \A d \in Dispatchers :
        pc[d] = "release" /\ cmd[d] \in Starts /\ ~answered[d]
        => "BUSY" \in status /\ (state = "RUNNING" \/ Threadless)

\* The messages of a session are ordered: a charge report is never queued
\* behind the answer to the STOP that ended its session.
NoReportAfterStop ==
    [][cb = "push" /\ cb' = "done" => session > acked /\ "BUSY" \in status]_allVars

\* Reports count the callbacks of their own session: each carries one more
\* than the one before, and the first of a session carries one.
ReportsCount ==
    [][cb = "push" /\ cb' = "done" =>
         info.energy = IF lastReport.session = session THEN lastReport.energy + 1 ELSE 1]_allVars

(* Liveness. *)

\* The deadlock of the design: main publishes with the queue's mutex in hand
\* and waits for the library's, whose holder waits for the queue's, itself or
\* through the timer's worker.
LockCycle ==
    /\ queueLock = main /\ queue # <<>>
    /\ lib = refresher
    /\ \/ pc[refresher] \in {"refuse", "acknowledge"}
       \/ /\ pc[refresher] \in {"stop", "stopping"}
          /\ wpc = "callback" /\ cb = "push"

\* Every command is handled to the end unless the threads meet in LockCycle:
\* there is no other deadlock among the four mutexes and the join.
HandledOrCycle ==
    \A d \in Dispatchers : Handling(d) ~> (~Handling(d) \/ LockCycle)

(* What the comments and documents of the repository say. *)

\* README_MQTT.md:226: the client may be used from several threads; a command
\* that has been taken in is handled to the end.
CommandHandled == \A d \in Dispatchers : Handling(d) ~> ~Handling(d)
=============================================================================

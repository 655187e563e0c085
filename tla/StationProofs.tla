---------------------------- MODULE StationProofs ----------------------------
(***************************************************************************)
(* Proofs about Station: it uses the timer legally, so what is proved of   *)
(* Timer holds inside the station; the library's mutex keeps its handlers  *)
(* apart; and on both rest the safety properties of a charging session.    *)
(***************************************************************************)
EXTENDS Station, TimerProofs

\* Every step of a dispatcher inside a handler is a step of Timer or leaves
\* the timer alone.
LEMMA HandlerUsesTimer ==
    ASSUME NEW d \in Dispatchers, HandlerStep(d)
    PROVE  [Next]_vars
<1>1. d \in Callers
  BY DispatchersAssumption
<1>2. CASE RestartTimer(d)
  BY <1>1, <1>2 DEF RestartTimer, CallBegin, Next
<1>3. CASE StopTimer(d)
  BY <1>1, <1>3 DEF StopTimer, CallBegin, Next
<1>4. CASE InTimer(d)
  BY <1>1, <1>4 DEF InTimer, Next
<1>5. CASE TestBusy(d) \/ ClaimBusy(d) \/ Admit(d) \/ Refuse(d) \/ LockInfo(d)
           \/ Restarted(d) \/ Stopped(d) \/ Acknowledge(d) \/ Release(d)
  BY <1>5 DEF TestBusy, ClaimBusy, Admit, Refuse, LockInfo, Restarted, Stopped,
              Acknowledge, Release
<1>6. QED
  BY <1>2, <1>3, <1>4, <1>5 DEF HandlerStep

\* The station is a user of Timer like any other: each of its behaviours,
\* seen through the timer's variables, is a behaviour of Timer.
THEOREM StationUsesTimer == StationSpec => Spec
<1>1. StationInit => Init
  BY DEF StationInit
<1>2. ASSUME [StationNext]_allVars PROVE [Next]_vars
  <2> USE <1>2
  <2>1. CASE \E d \in Dispatchers : HandlerStep(d)
    BY <2>1, HandlerUsesTimer
  <2>2. CASE \E d \in Dispatchers, c \in Commands : Deliver(d, c)
    BY <2>2 DEF Deliver
  <2>3. CASE Setup
    <3>1. main \in Callers /\ 0 \in Delays
      BY DispatchersAssumption, StationBounds DEF Dispatchers
    <3>2. QED
      BY <2>3, <3>1 DEF Setup, CallBegin, Next
  <2>4. CASE SyncNothing \/ TakeQueue \/ Publish \/ QueueSent \/ Heartbeat
    BY <2>4 DEF SyncNothing, TakeQueue, Publish, QueueSent, Heartbeat
  <2>5. CASE CallbackStep
    BY <2>5 DEF CallbackStep, CallbackLock, CallbackPush, CallbackReturn, Next, WorkerStep
  <2>6. CASE WorkerLoop \/ TimePasses
    BY <2>6 DEF WorkerLoop, TimePasses, Next
  <2>7. CASE UNCHANGED allVars
    BY <2>7 DEF allVars
  <2>8. QED
    BY <2>1, <2>2, <2>3, <2>4, <2>5, <2>6, <2>7 DEF StationNext, MainStep
<1>3. QED
  BY <1>1, <1>2, PTL DEF StationSpec, Spec

\* Hence the timer's invariant holds in the station, whichever of the two
\* threads dispatches a command.
THEOREM StationTimerInvariant ==
    StationSpec => [](FlagsAgree /\ CallbackOnlyWhileRunning /\ ActiveHasWorker)
<1>1. IInv => FlagsAgree /\ CallbackOnlyWhileRunning /\ ActiveHasWorker
  BY DEF IInv
<1>2. QED
  BY <1>1, StationUsesTimer, Invariance, PTL

\* And its charge callbacks keep the interval, across sessions too: stopping and
\* starting quickly never books energy faster than a session that goes on.
THEOREM StationReportsSpaced == StationSpec => Spacing
<1>1. "FIXED_RATE" \notin Modes
  BY ChargeTimerAssumption
<1>2. Spec => Spacing
  BY <1>1, CallbacksSpaced
<1>3. QED
  BY <1>2, StationUsesTimer, PTL

-----------------------------------------------------------------------------
(* Mutual exclusion of the handlers. *)

\* Who handles a command holds the library's mutex: by the guard of Deliver, which
\* stands for MQTT-C's lock, and because nothing but Release gives it back.
Exclusion ==
    /\ pc \in [Dispatchers -> HandlerPc \cup LoopPc]
    /\ \A d \in Dispatchers : Handling(d) => lib = d

LEMMA ExclusionAlways == StationSpec => []Exclusion
<1>1. StationInit => Exclusion
  BY DispatchersAssumption
  DEF StationInit, Exclusion, Handling, HandlerPc, LoopPc, Dispatchers
<1>2. ASSUME Exclusion, [StationNext]_allVars PROVE Exclusion'
  <2> USE <1>2 DEF Exclusion, Handling, HandlerPc, LoopPc
  <2>1. ASSUME NEW d \in Dispatchers, HandlerStep(d)
        PROVE  Exclusion'
    <3>1. CASE Release(d)
      <4>1. lib = d /\ \A o \in Dispatchers \ {d} : ~Handling(o)
        BY <3>1 DEF Release, Step
      <4>2. QED
        BY <3>1, <4>1 DEF Release, Step, Jump
    <3>2. CASE InTimer(d)
      BY <3>2 DEF InTimer, stationVars, locks
    <3>3. CASE \/ TestBusy(d) \/ ClaimBusy(d) \/ Admit(d) \/ Refuse(d) \/ LockInfo(d)
               \/ RestartTimer(d) \/ Restarted(d) \/ StopTimer(d) \/ Stopped(d)
               \/ Acknowledge(d)
      BY <3>3 DEF TestBusy, ClaimBusy, Admit, Refuse, LockInfo, RestartTimer, Restarted,
                  StopTimer, Stopped, Acknowledge, Step, Jump, locks
    <3>4. QED
      BY <2>1, <3>1, <3>2, <3>3 DEF HandlerStep
  <2>2. ASSUME NEW d \in Dispatchers, NEW c \in Commands, Deliver(d, c)
        PROVE  Exclusion'
    <3>1. \A o \in Dispatchers : ~Handling(o)
      BY <2>2, DispatchersAssumption DEF Deliver, Free
    <3>2. QED
      BY <2>2, <3>1 DEF Deliver, Jump
  <2>3. CASE MainStep
    BY <2>3 DEF MainStep, Setup, SyncNothing, TakeQueue, Publish, QueueSent, Heartbeat,
                Step, Jump, locks
  <2>4. CASE CallbackStep \/ WorkerLoop \/ TimePasses \/ UNCHANGED allVars
    BY <2>4 DEF CallbackStep, CallbackLock, CallbackPush, CallbackReturn, WorkerLoop,
                TimePasses, allVars, stationVars, locks
  <2>5. QED
    BY <2>1, <2>2, <2>3, <2>4 DEF StationNext
<1>3. QED
  BY <1>1, <1>2, PTL DEF StationSpec

-----------------------------------------------------------------------------
(* The session.  What a handler relies on between its steps is a conjunct    *)
(* for each place; the timer is started and stopped by one handler at a time *)
(* and by nobody else.                                                       *)

Busy == "BUSY" \in status
Started == state \in {"RUNNING", "ERROR"}
Admitted(type) ==
    "SELF_CHECK_FAIL" \notin status /\ (type = "COMMERCIAL_START" => "ERROR_CONFIG" \notin status)

Types ==
    /\ status \subseteq Bits
    /\ pc \in [Dispatchers -> HandlerPc \cup LoopPc]
    /\ cmd \in [Dispatchers -> Commands]
    /\ answered \in [Dispatchers -> BOOLEAN]
    /\ info \in [type : Starts \cup {"none"}, energy : Nat]

\* Before main has set things up nothing happens; afterwards the timer has a callback.
Ready ==
    IF pc[main] = "setup"
    THEN /\ status = {} /\ state = "CREATED"
         /\ \A d \in Dispatchers : pc[d] \in {"setup", "none"}
    ELSE params.callback

\* A dispatcher is inside the timer only where the handler calls it.
Calls ==
    \A d \in Dispatchers :
        /\ pc[d] \notin {"restarting", "stopping"} => call[d] = "idle"
        /\ pc[d] = "restarting" => call[d] \in {"idle", "rstopped", "rreset", "rstart"}
        /\ pc[d] = "stopping" => call[d] \in {"idle", "stopped", "joining"}

\* BUSY says whether the timer has been started, but in the middle of a handler.
BusyAgrees ==
    (\A d \in Dispatchers : pc[d] \notin {"admit", "lockInfo", "restart", "restarting", "stopping"})
    => (Busy <=> Started)

\* A start that has claimed BUSY finds a timer that is not started, and starts it.
Starting ==
    \A d \in Dispatchers :
        /\ pc[d] \in {"test", "claim", "admit", "lockInfo", "restart"} => cmd[d] \in Starts
        /\ pc[d] = "claim" => ~Busy
        /\ pc[d] \in {"admit", "lockInfo", "restart"} => Busy /\ ~Started
        /\ pc[d] \in {"lockInfo", "restart"} => Admitted(cmd[d])
        /\ pc[d] = "restart" => info.type = cmd[d]
        /\ pc[d] = "restarting" =>
             /\ Busy /\ Admitted(info.type)
             /\ IF call[d] = "idle" THEN Started ELSE ~Started

Stopping ==
    \A d \in Dispatchers : pc[d] \in {"stopping", "acknowledge"} => state = "STOPPED"

\* A start that is done without an answer has started.
Silence ==
    \A d \in Dispatchers :
        pc[d] = "release" /\ cmd[d] \in Starts /\ ~answered[d] => Started

\* A timer that does not run has no worker, or a STOP that waits for its end.
WorkerCollected ==
    state # "RUNNING" =>
        \/ wpc = "none"
        \/ \E d \in Dispatchers : pc[d] = "stopping" /\ call[d] \in {"stopped", "joining"}

RunsAdmitted == state = "RUNNING" => Busy /\ Admitted(info.type)

SessionInv ==
    /\ Types /\ Ready /\ Calls /\ BusyAgrees /\ Starting /\ Stopping /\ Silence
    /\ WorkerCollected /\ RunsAdmitted
    /\ state # "PAUSED" /\ (state = "ERROR" => Threadless)

\* The reports of a session: where its energy and the last report stand.
ReportInv ==
    /\ session \in Nat /\ acked \in 0 .. session
    /\ lastReport \in [session : 0 .. session, energy : Nat]
    /\ cb # "enter" => wpc = "callback"
    /\ state = "RUNNING" \/ (\E d \in Dispatchers : pc[d] \in {"restart", "restarting"})
       => acked < session
    /\ LET counted == IF lastReport.session = session THEN lastReport.energy ELSE 0
       IN  info.energy = IF cb = "push" THEN counted + 1 ELSE counted

\* Who handles a command is alone: the others are in their loops and outside the timer.
LEMMA Alone ==
    ASSUME Exclusion, Calls, NEW d \in Dispatchers, Handling(d)
    PROVE  \A o \in Dispatchers : o # d => pc[o] \in LoopPc /\ call[o] = "idle"
BY DEF Exclusion, Handling, HandlerPc, LoopPc, Calls

\* The steps of a handler up to the acceptance of a start.
LEMMA AdmissionKeeps ==
    ASSUME SessionInv, Exclusion, NEW d \in Dispatchers,
           TestBusy(d) \/ ClaimBusy(d) \/ Admit(d) \/ Refuse(d)
    PROVE  SessionInv'
<1> USE DEF SessionInv, Threadless
<1>1. Handling(d) /\ \A o \in Dispatchers : o # d => pc[o] \in LoopPc /\ call[o] = "idle"
  <2>1. Handling(d)
    BY DEF TestBusy, ClaimBusy, Admit, Refuse, Step, Handling, HandlerPc
  <2>2. QED
    BY <2>1, Alone
<1>2. /\ pc' \in [Dispatchers -> HandlerPc \cup LoopPc]
      /\ pc'[d] \in HandlerPc /\ \A o \in Dispatchers : o # d => pc'[o] = pc[o]
  BY DEF Types, TestBusy, ClaimBusy, Admit, Refuse, Step, Jump, HandlerPc
<1>3. pc[main] # "setup" /\ pc'[main] # "setup"
  BY <1>1, <1>2 DEF Ready, Handling, HandlerPc, Dispatchers
<1>4. UNCHANGED <<vars, info, cmd>>
  BY DEF TestBusy, ClaimBusy, Admit, Refuse
<1>5. Types'
  BY <1>2 DEF Types, TestBusy, ClaimBusy, Admit, Refuse, Answer, Bits, history
<1>6. Ready'
  BY <1>3, <1>4 DEF Ready, vars
<1>7. Calls' /\ WorkerCollected' /\ state' # "PAUSED"
  BY <1>1, <1>2, <1>4 DEF Calls, WorkerCollected, vars, LoopPc,
     TestBusy, ClaimBusy, Admit, Refuse, Step, Jump
<1>8. BusyAgrees' /\ Starting' /\ Stopping' /\ Silence' /\ RunsAdmitted'
  <2> USE <1>1, <1>2, <1>4 DEF BusyAgrees, Starting, Stopping, Silence, RunsAdmitted,
          Busy, Started, Admitted, vars, LoopPc, Types
  <2>1. CASE TestBusy(d)
    BY <2>1 DEF TestBusy, Step, Jump, history
  <2>2. CASE ClaimBusy(d)
    BY <2>2 DEF ClaimBusy, Step, Jump, history
  <2>3. CASE Admit(d)
    BY <2>3 DEF Admit, Step, Jump, history, Bars
  <2>4. CASE Refuse(d)
    BY <2>4 DEF Refuse, Step, Jump, Answer
  <2>5. QED
    BY <2>1, <2>2, <2>3, <2>4
<1>9. state' = "ERROR" => Threadless'
  BY <1>4 DEF vars
<1>10. QED
  BY <1>5, <1>6, <1>7, <1>8, <1>9

\* The steps of a handler once the start is accepted, and those of a STOP.
LEMMA SessionKeeps ==
    ASSUME SessionInv, IInv, Exclusion, NEW d \in Dispatchers,
           \/ LockInfo(d) \/ RestartTimer(d) \/ Restarted(d)
           \/ StopTimer(d) \/ Stopped(d) \/ Acknowledge(d)
    PROVE  SessionInv'
<1> USE DEF SessionInv, Threadless
<1>1. Handling(d) /\ \A o \in Dispatchers : o # d => pc[o] \in LoopPc /\ call[o] = "idle"
  <2>1. Handling(d)
    BY DEF LockInfo, RestartTimer, Restarted, StopTimer, Stopped, Acknowledge, Step,
           Handling, HandlerPc
  <2>2. QED
    BY <2>1, Alone
<1>2. /\ pc' \in [Dispatchers -> HandlerPc \cup LoopPc]
      /\ pc'[d] \in HandlerPc /\ \A o \in Dispatchers : o # d => pc'[o] = pc[o]
  BY DEF Types, LockInfo, RestartTimer, Restarted, StopTimer, Stopped, Acknowledge, Step,
         Jump, HandlerPc
<1>3. pc[main] # "setup" /\ pc'[main] # "setup"
  BY <1>1, <1>2 DEF Ready, Handling, HandlerPc, Dispatchers
<1>4. UNCHANGED <<wpc, params, cmd>> /\ state' \in {state, "STOPPED"}
      /\ \A o \in Dispatchers : call'[o] = (IF o = d THEN call'[d] ELSE call[o])
  BY DispatchersAssumption
  DEF LockInfo, RestartTimer, Restarted, StopTimer, Stopped, Acknowledge, Restart, Stop,
      StopSection, Go, vars, control, IInv, TypeOK
<1>5. Types'
  <2> USE <1>2 DEF Types
  <2>1. CASE LockInfo(d)
    <3>1. cmd[d] \in Starts
      BY <2>1 DEF LockInfo, Step, Starting
    <3>2. info' \in [type : Starts \cup {"none"}, energy : Nat]
      BY <2>1, <3>1 DEF LockInfo
    <3>3. QED
      BY <2>1, <3>2 DEF LockInfo
  <2>2. CASE \/ RestartTimer(d) \/ Restarted(d) \/ StopTimer(d) \/ Stopped(d)
             \/ Acknowledge(d)
    BY <2>2 DEF RestartTimer, Restarted, StopTimer, Stopped, Acknowledge, Answer, Bits,
                history
  <2>3. QED
    BY <2>1, <2>2
<1>6. Ready'
  BY <1>3, <1>4 DEF Ready
<1>7. state' # "PAUSED"
  BY <1>4
<1>8. /\ Calls' /\ WorkerCollected' /\ BusyAgrees' /\ Starting' /\ Stopping' /\ Silence'
      /\ RunsAdmitted'
  <2> USE <1>1, <1>2, <1>4 DEF Calls, WorkerCollected, BusyAgrees, Starting, Stopping,
          Silence, RunsAdmitted, Busy, Started, Admitted, LoopPc, Types
  <2>1. CASE LockInfo(d)
    BY <2>1 DEF LockInfo, Step, Jump, vars
  <2>2. CASE RestartTimer(d)
    <3>1. /\ state' = "STOPPED" /\ call'[d] \in {"rreset", "rstopped"}
          /\ pc[d] = "restart" /\ pc'[d] = "restarting"
          /\ UNCHANGED <<status, info, answered>>
      BY <2>2, DispatchersAssumption
         DEF RestartTimer, Step, Jump, history, Restart, StopSection, Go, control,
                  IInv, FlagsAgree, TypeOK
    <3>2. wpc = "none"
      BY <3>1
    <3>3. QED
      BY <3>1, <3>2
  <2>3. CASE Restarted(d)
    BY <2>3 DEF Restarted, Step, Jump, history, vars
  <2>4. CASE StopTimer(d)
    <3>1. /\ state' = "STOPPED" /\ pc[d] = "stop" /\ pc'[d] = "stopping"
          /\ UNCHANGED <<status, info, answered>>
          /\ \/ call'[d] = "idle" /\ state = "STOPPED"
             \/ call'[d] = "stopped"
      BY <2>4, DispatchersAssumption
         DEF StopTimer, Step, Jump, history, Stop, StopSection, Go, control,
             IInv, FlagsAgree, TypeOK
    <3>2. WorkerCollected'
      BY <3>1
    <3>3. QED
      BY <3>1, <3>2
  <2>5. CASE Stopped(d)
    BY <2>5 DEF Stopped, Step, Jump, history, vars
  <2>6. CASE Acknowledge(d)
    BY <2>6 DEF Acknowledge, Step, Jump, Answer, vars
  <2>7. QED
    BY <2>1, <2>2, <2>3, <2>4, <2>5, <2>6
<1>9. state' = "ERROR" => Threadless'
  BY <1>4 DEF vars
<1>10. QED
  BY <1>5, <1>6, <1>7, <1>8, <1>9

\* The steps inside timer->restart() and timer->stop(), with nobody else in there.
LEMMA TimerCallKeeps ==
    ASSUME SessionInv, IInv, Exclusion, NEW d \in Dispatchers, InTimer(d)
    PROVE  SessionInv'
<1> USE DEF SessionInv, Threadless
<1>1. call[d] # "idle" /\ Handling(d)
  BY DEF InTimer, CallStep, JoinOrReturn, Joined, RestartReset, RestartStart,
         PollIsRunning, PollIsPaused, Calls, Handling, HandlerPc
<1>2. \A o \in Dispatchers : o # d => pc[o] \in LoopPc /\ call[o] = "idle"
  BY <1>1, Alone
<1>3. pc[main] # "setup"
  BY <1>1 DEF Ready, Handling, HandlerPc
<1>4. UNCHANGED <<status, info, pc, cmd, answered, params>>
  BY DEF InTimer, stationVars, history, CallStep, JoinOrReturn, Joined, RestartReset,
         RestartStart, PollIsRunning, PollIsPaused
<1>5. /\ \A o \in Dispatchers : o # d => call'[o] = call[o]
      /\ call' = [call EXCEPT ![d] = call'[d]]
  BY DispatchersAssumption
  DEF InTimer, CallStep, JoinOrReturn, Joined, RestartReset, RestartStart, PollIsRunning,
      PollIsPaused, Go, IInv, TypeOK
<1>6. CASE pc[d] = "stopping"
  <2>1. call[d] \in {"stopped", "joining"} /\ state = "STOPPED"
    BY <1>1, <1>6 DEF Calls, Stopping
  <2>2. /\ UNCHANGED state /\ call'[d] \in {"idle", "joining"}
        /\ call'[d] = "idle" => wpc' = "none"
    BY <1>2, <2>1, DispatchersAssumption
    DEF InTimer, CallStep, JoinOrReturn, Joined, RestartReset, RestartStart, PollIsRunning,
        PollIsPaused, Go, Joinable, control, IInv, TypeOK
  <2>3. WorkerCollected'
    BY <1>4, <1>6, <2>1, <2>2 DEF WorkerCollected
  <2>4. QED
    BY <1>2, <1>3, <1>4, <1>5, <1>6, <2>1, <2>2, <2>3
    DEF Types, Ready, Calls, BusyAgrees, Starting, Stopping, Silence, RunsAdmitted, Busy,
        Started, Admitted, LoopPc
<1>7. CASE pc[d] = "restarting"
  <2>1. /\ call[d] \in {"rstopped", "rreset", "rstart"} /\ ~Started /\ Busy
        /\ Admitted(info.type) /\ wpc = "none"
    BY <1>1, <1>2, <1>7 DEF Calls, Starting, WorkerCollected, Started, LoopPc
  <2>2. \/ UNCHANGED <<state, wpc>> /\ call[d] = "rstopped" /\ call'[d] = "rreset"
        \/ state' = "CREATED" /\ wpc' = wpc /\ call'[d] = "rstart"
        \/ /\ state' = "RUNNING" \/ (state' = "ERROR" /\ Threadless' /\ wpc' = wpc)
           /\ call'[d] = "idle"
    BY <1>3, <2>1, DispatchersAssumption, SpawnAssumption
    DEF InTimer, CallStep, JoinOrReturn, Joined, RestartReset, RestartStart, PollIsRunning,
        PollIsPaused, Go, Joinable, control, IInv, TypeOK, ResetSection, StartSection,
        StartRefused, StartThread, Ready, Started, Threadless
  <2>3. WorkerCollected'
    BY <2>1, <2>2 DEF WorkerCollected
  <2>4. QED
    BY <1>2, <1>3, <1>4, <1>5, <1>7, <2>1, <2>2, <2>3
    DEF Types, Ready, Calls, BusyAgrees, Starting, Stopping, Silence, RunsAdmitted, Busy,
        Started, Admitted, LoopPc
<1>8. QED
  BY <1>1, <1>6, <1>7 DEF Calls

\* A message comes in, and its handler returns.
LEMMA DispatchKeeps ==
    ASSUME SessionInv, Exclusion, NEW d \in Dispatchers,
           Release(d) \/ \E c \in Commands : Deliver(d, c)
    PROVE  SessionInv'
<1> USE DEF SessionInv, Threadless
<1>1. UNCHANGED <<vars, status, info>>
  BY DEF Release, Deliver
<1>2. \A o \in Dispatchers : o # d => pc[o] \in LoopPc /\ pc'[o] = pc[o]
  <2>1. Handling(d) \/ lib = Free
    BY DEF Release, Deliver, Step, Handling, HandlerPc
  <2>2. \A o \in Dispatchers : o # d => ~Handling(o)
    BY <2>1, DispatchersAssumption DEF Exclusion, Free
  <2>3. QED
    BY <2>2 DEF Release, Deliver, Step, Jump, Handling, Types
<1>3. pc[main] # "setup" /\ pc'[main] # "setup"
  BY DispatchersAssumption
  DEF Ready, Release, Deliver, Step, Jump, Handling, HandlerPc, Types, Dispatchers
<1>4. CASE Release(d)
  BY <1>1, <1>2, <1>3, <1>4
  DEF Release, Step, Jump, history, vars, LoopPc, Types, Ready, Calls, BusyAgrees, Starting,
      Stopping, Silence, WorkerCollected, RunsAdmitted, Busy, Started, Admitted
<1>5. ASSUME NEW c \in Commands, Deliver(d, c)
      PROVE  SessionInv'
  <2>1. /\ pc[d] = "sync"
        /\ pc'[d] = (IF c \in Starts THEN "test" ELSE IF c = "STOP" THEN "stop" ELSE "release")
        /\ cmd'[d] = c /\ \A o \in Dispatchers : o # d => cmd'[o] = cmd[o]
        /\ \A o \in Dispatchers : o # d => answered'[o] = answered[o]
    BY <1>5 DEF Deliver, Jump, Types
  <2>2. Types'
    BY <1>5 DEF Types, Deliver, Jump, HandlerPc
  <2>3. QED
    BY <1>1, <1>2, <1>3, <2>1, <2>2
    DEF vars, LoopPc, Ready, Calls, BusyAgrees, Starting,
        Stopping, Silence, WorkerCollected, RunsAdmitted, Busy, Started, Admitted
<1>6. QED
  BY <1>4, <1>5

\* The main thread outside the handlers.
LEMMA MainKeeps ==
    ASSUME SessionInv, Exclusion, MainStep
    PROVE  SessionInv'
<1> USE DEF SessionInv, Threadless
<1>1. CASE Setup
  <2>1. /\ pc[main] = "setup" /\ pc' \in [Dispatchers -> {"sync", "none"}] /\ pc'[main] = "sync"
        /\ status' \subseteq {"ERROR_CONFIG", "ONLINE"} /\ params'.callback
        /\ UNCHANGED <<control, wpc, call, cmd, answered, info>>
    BY <1>1 DEF Setup, SetParameters, history, Dispatchers
  <2>2. \A d \in Dispatchers : pc[d] \notin HandlerPc /\ pc'[d] \notin HandlerPc
    BY <2>1 DEF Ready, Types, HandlerPc
  <2>3. main \in Dispatchers
    BY DEF Dispatchers
  <2>4. Types'
    BY <2>1, <2>3 DEF Types, LoopPc, Bits
  <2>5. QED
    BY <2>1, <2>2, <2>3, <2>4
    DEF Types, Ready, Calls, BusyAgrees, Starting, Stopping, Silence, WorkerCollected,
        RunsAdmitted, Busy, Started, HandlerPc, control
<1>2. CASE SyncNothing \/ TakeQueue \/ Publish \/ QueueSent \/ Heartbeat
  <2>1. main \in Dispatchers
    BY DEF Dispatchers
  <2>2. /\ UNCHANGED <<vars, status, info, cmd, answered>>
        /\ pc[main] \in LoopPc \ {"setup"} /\ pc'[main] \in LoopPc \ {"setup"}
        /\ pc' = [pc EXCEPT ![main] = pc'[main]]
    BY <1>2, <2>1 DEF SyncNothing, TakeQueue, Publish, QueueSent, Heartbeat, Step, Jump, LoopPc,
                 Types, history
  <2>3. Types'
    BY <2>1, <2>2 DEF Types
  <2>4. QED
    BY <2>1, <2>2, <2>3
    DEF LoopPc, Types, Ready, Calls, BusyAgrees, Starting, Stopping, Silence, WorkerCollected,
        RunsAdmitted, Busy, Started, Admitted, vars
<1>3. QED
  BY <1>1, <1>2 DEF MainStep

\* The charge timer never completes by itself: its worker changes no state.
LEMMA WorkerLeavesState ==
    ASSUME SessionInv, IInv, WorkerStep
    PROVE  /\ UNCHANGED <<state, call, params>> /\ wpc # "none"
           /\ wpc' = "exited" => state = "STOPPED"
<1>1. ~Completes
  BY ChargeTimerAssumption DEF IInv, TypeOK, Params, Completes
<1>2. ~pauseRequested /\ (stopRequested => state = "STOPPED")
  BY DEF SessionInv, IInv, FlagsAgree
<1>3. QED
  BY <1>1, <1>2 DEF WorkerStep, WBegin, WDelay, WInit, WTop, WWaitRunning, WWaitDue,
     WCallbackDone, Worker, control

\* The worker and its callback leave the session alone.
LEMMA WorkerKeeps ==
    ASSUME SessionInv, IInv, CallbackStep \/ WorkerLoop \/ TimePasses
    PROVE  SessionInv'
<1> USE DEF SessionInv, Threadless
<1>1. /\ UNCHANGED <<status, pc, cmd, answered, state, call, params, info.type>>
      /\ info' \in [type : Starts \cup {"none"}, energy : Nat]
  <2> USE DEF Types
  <2>1. CASE CallbackLock \/ CallbackPush
    BY <2>1 DEF CallbackLock, CallbackPush, vars, history
  <2>2. CASE CallbackReturn
    BY <2>2, WorkerLeavesState DEF CallbackReturn, WorkerStep, history
  <2>3. CASE WorkerLoop
    BY <2>3, WorkerLeavesState DEF WorkerLoop, stationVars, history
  <2>4. CASE TimePasses
    BY <2>4 DEF TimePasses, Tick, stationVars, history, control
  <2>5. QED
    BY <2>1, <2>2, <2>3, <2>4 DEF CallbackStep
<1>2. wpc = "none" => wpc' = "none"
  <2>1. CASE CallbackLock \/ CallbackPush
    BY <2>1 DEF CallbackLock, CallbackPush, vars
  <2>2. CASE CallbackReturn \/ WorkerLoop
    BY <2>2, WorkerLeavesState DEF CallbackReturn, WorkerLoop, WorkerStep
  <2>3. CASE TimePasses
    BY <2>3 DEF TimePasses, Tick
  <2>4. QED
    BY <2>1, <2>2, <2>3 DEF CallbackStep
<1>3. QED
  BY <1>1, <1>2
  DEF Types, Ready, Handling, Calls, BusyAgrees, Starting, Stopping, Silence,
      WorkerCollected, RunsAdmitted, Busy, Started, Admitted

LEMMA SessionAlways == StationSpec => []SessionInv
<1>1. StationInit => SessionInv
  <2> SUFFICES ASSUME StationInit PROVE SessionInv
    OBVIOUS
  <2>1. \A d \in Dispatchers : pc[d] \in {"setup", "none"} /\ call[d] = "idle"
    BY DispatchersAssumption DEF StationInit, Init
  <2>2. pc[main] = "setup"
    BY DEF StationInit, Dispatchers
  <2>3. Types
    BY DEF StationInit, Types, LoopPc, Bits, Commands
  <2>4. QED
    BY <2>1, <2>2, <2>3
    DEF StationInit, Init, SessionInv, Ready, Handling, HandlerPc, Calls, BusyAgrees, Busy,
        Started, Starting, Stopping, Silence, WorkerCollected, RunsAdmitted
<1>2. SessionInv /\ IInv /\ Exclusion /\ [StationNext]_allVars => SessionInv'
  <2> SUFFICES ASSUME SessionInv, IInv, Exclusion, [StationNext]_allVars
               PROVE  SessionInv'
    OBVIOUS
  <2>1. ASSUME NEW d \in Dispatchers, HandlerStep(d) \/ \E c \in Commands : Deliver(d, c)
        PROVE  SessionInv'
    BY <2>1, AdmissionKeeps, SessionKeeps, TimerCallKeeps, DispatchKeeps DEF HandlerStep
  <2>2. CASE MainStep
    BY <2>2, MainKeeps
  <2>3. CASE CallbackStep \/ WorkerLoop \/ TimePasses
    BY <2>3, WorkerKeeps
  <2>4. CASE UNCHANGED allVars
    BY <2>4
    DEF allVars, vars, stationVars, history, SessionInv, Types, Ready, Handling, Calls,
        BusyAgrees, Starting, Stopping, Silence, WorkerCollected, RunsAdmitted, Busy, Started,
        Admitted, Threadless
  <2>5. QED
    BY <2>1, <2>2, <2>3, <2>4 DEF StationNext
<1>3. QED
  BY <1>1, <1>2, StationUsesTimer, Invariance, ExclusionAlways, PTL DEF StationSpec

\* A session that charges is BUSY and has passed its checks, and outside the handlers
\* BUSY says that the timer runs or that its thread could not be made; where threads
\* can always be made, that it runs.  For any number of commands, whatever the self
\* check answers.
THEOREM StationBusyMeansStarted == StationSpec => []BusyMeansStarted
<1>1. SessionInv => BusyMeansStarted
  BY DEF SessionInv, BusyMeansStarted, BusyAgrees, RunsAdmitted, Busy, Started, Admitted,
         Handling, HandlerPc, Threadless
<1>2. QED
  BY <1>1, SessionAlways, PTL

\* A start that has gone as far as charge_info_mutex finds no worker, so the two
\* orders of that mutex and the timer's never meet.
THEOREM StationLocksInOrder == StationSpec => []NoLockInversion
<1>1. SessionInv /\ Exclusion => NoLockInversion
  <2> SUFFICES ASSUME SessionInv, Exclusion, NEW d \in Dispatchers,
                      \/ pc[d] \in {"lockInfo", "restart"}
                      \/ call[d] \in {"rstopped", "rreset", "rstart"}
               PROVE  wpc = "none"
    BY DEF NoLockInversion
  <2> USE DEF SessionInv
  <2>1. pc[d] \in {"lockInfo", "restart", "restarting"} /\ ~Started
    BY DEF Calls, Starting
  <2>2. Handling(d)
    BY <2>1 DEF Handling, HandlerPc
  <2>3. \A o \in Dispatchers : pc[o] # "stopping"
    BY <2>1, <2>2, Alone DEF LoopPc
  <2>4. QED
    BY <2>1, <2>3 DEF WorkerCollected, Started
<1>2. QED
  BY <1>1, SessionAlways, ExclusionAlways, PTL

\* A start that returns without an answer has started the charging, or could not make
\* its thread; where threads can always be made, it has started it.
THEOREM StationSilenceMeansStarted == StationSpec => []SilenceMeansStarted
<1>1. SessionInv /\ Exclusion => SilenceMeansStarted
  <2> SUFFICES ASSUME SessionInv, Exclusion, NEW d \in Dispatchers,
                      pc[d] = "release", cmd[d] \in Starts, ~answered[d]
               PROVE  Busy /\ Started
    BY DEF SilenceMeansStarted, Busy, Started, SessionInv
  <2> USE DEF SessionInv
  <2>1. Started
    BY DEF Silence
  <2>2. \A o \in Dispatchers : o # d => pc[o] \in LoopPc
    BY Alone DEF Handling, HandlerPc
  <2>3. QED
    BY <2>1, <2>2 DEF BusyAgrees, LoopPc
<1>2. QED
  BY <1>1, SessionAlways, ExclusionAlways, PTL

-----------------------------------------------------------------------------
(* The reports of a session. *)

LEMMA ReportHandler ==
    ASSUME ReportInv, SessionInv, Exclusion, NEW d \in Dispatchers,
           HandlerStep(d) \/ \E c \in Commands : Deliver(d, c)
    PROVE  ReportInv'
<1> USE DEF ReportInv
<1>1. CASE LockInfo(d)
  <2>1. wpc = "none" /\ cb = "enter"
    <3>1. pc[d] = "lockInfo" /\ Handling(d)
      BY <1>1 DEF LockInfo, Step, Handling, HandlerPc
    <3>2. \A o \in Dispatchers : pc[o] # "stopping"
      BY <3>1, Alone DEF LoopPc, SessionInv
    <3>3. QED
      BY <3>1, <3>2 DEF SessionInv, Starting, WorkerCollected, Started
  <2>2. /\ session' = session + 1 /\ info'.energy = 0
        /\ UNCHANGED <<vars, cb, acked, lastReport>>
    BY <1>1 DEF LockInfo
  <2>3. QED
    BY <2>1, <2>2 DEF vars
<1>2. CASE Acknowledge(d)
  <2>1. pc[d] = "acknowledge" /\ state = "STOPPED" /\ pc'[d] = "release"
    BY <1>2 DEF Acknowledge, Step, Jump, SessionInv, Stopping, Types
  <2>2. \A o \in Dispatchers : o # d => pc[o] \in LoopPc /\ pc'[o] = pc[o]
    BY <1>2, <2>1, Alone DEF Acknowledge, Step, Jump, Handling, HandlerPc, SessionInv, Types
  <2>3. UNCHANGED <<vars, cb, info, session, lastReport>> /\ acked' = session
    BY <1>2 DEF Acknowledge
  <2>4. QED
    BY <2>1, <2>2, <2>3 DEF LoopPc, vars
<1>3. CASE RestartTimer(d) \/ StopTimer(d) \/ InTimer(d)
  <2>1. UNCHANGED <<cb, info, session, acked, lastReport>>
    BY <1>3 DEF RestartTimer, StopTimer, InTimer, stationVars, history
  <2>2. wpc = "callback" => wpc' = "callback"
    BY <1>3 DEF RestartTimer, StopTimer, InTimer, Restart, Stop, StopSection, CallStep,
       JoinOrReturn, Joined, RestartReset, RestartStart, PollIsRunning, PollIsPaused, MutexFree
  <2>3. \/ state' # "RUNNING" \/ state = "RUNNING"
        \/ \E o \in Dispatchers : pc[o] \in {"restart", "restarting"}
    BY <1>3 DEF RestartTimer, StopTimer, InTimer, Restart, Stop, StopSection, CallStep,
       JoinOrReturn, Joined, RestartReset, RestartStart, PollIsRunning, PollIsPaused, control,
       ResetSection, SessionInv, Calls
  <2>4. \A o \in Dispatchers : pc'[o] \in {"restart", "restarting"}
            => \E q \in Dispatchers : pc[q] \in {"restart", "restarting"}
    BY <1>3 DEF RestartTimer, StopTimer, InTimer, Step, Jump, stationVars, SessionInv, Types
  <2>5. QED
    BY <2>1, <2>2, <2>3, <2>4
<1>4. CASE \/ TestBusy(d) \/ ClaimBusy(d) \/ Admit(d) \/ Refuse(d) \/ Restarted(d)
           \/ Stopped(d) \/ Release(d) \/ \E c \in Commands : Deliver(d, c)
  <2>1. UNCHANGED <<vars, cb, info, session, acked, lastReport>>
    BY <1>4 DEF TestBusy, ClaimBusy, Admit, Refuse, Restarted, Stopped, Release, Deliver,
                history
  <2>2. \A o \in Dispatchers : pc'[o] \in {"restart", "restarting"} => pc[o] = pc'[o]
    BY <1>4 DEF TestBusy, ClaimBusy, Admit, Refuse, Restarted, Stopped, Release, Deliver,
                Step, Jump, SessionInv, Types
  <2>3. QED
    BY <2>1, <2>2 DEF vars
<1>5. QED
  BY <1>1, <1>2, <1>3, <1>4 DEF HandlerStep

LEMMA ReportOthers ==
    ASSUME ReportInv, SessionInv, IInv,
           MainStep \/ CallbackStep \/ WorkerLoop \/ TimePasses
    PROVE  ReportInv'
<1> USE DEF ReportInv
<1>1. CASE MainStep
  <2>1. UNCHANGED <<state, wpc, cb, info, session, acked, lastReport>>
    BY <1>1 DEF MainStep, Setup, SetParameters, SyncNothing, TakeQueue, Publish, QueueSent,
                Heartbeat, history, vars, control
  <2>2. \A o \in Dispatchers : pc'[o] \in {"restart", "restarting"} => pc[o] = pc'[o]
    BY <1>1 DEF MainStep, Setup, SyncNothing, TakeQueue, Publish, QueueSent, Heartbeat,
                Step, Jump, SessionInv, Types
  <2>3. QED
    BY <2>1, <2>2
<1>2. CASE CallbackLock
  <2>1. info'.energy = info.energy + 1
    BY <1>2 DEF CallbackLock, SessionInv, Types
  <2>2. QED
    BY <1>2, <2>1 DEF CallbackLock, history, vars
<1>3. CASE CallbackPush
  BY <1>3 DEF CallbackPush, vars, SessionInv, Types
<1>4. CASE CallbackReturn
  BY <1>4, WorkerLeavesState DEF CallbackReturn, WorkerStep, history
<1>5. CASE WorkerLoop
  BY <1>5, WorkerLeavesState DEF WorkerLoop, stationVars, history
<1>6. CASE TimePasses
  BY <1>6 DEF TimePasses, Tick, stationVars, history, control
<1>7. QED
  BY <1>1, <1>2, <1>3, <1>4, <1>5, <1>6 DEF CallbackStep

LEMMA ReportAlways == StationSpec => []ReportInv
<1>1. StationInit => ReportInv
  BY DispatchersAssumption DEF StationInit, Init, ReportInv
<1>2. ReportInv /\ SessionInv /\ IInv /\ Exclusion /\ [StationNext]_allVars => ReportInv'
  <2> SUFFICES ASSUME ReportInv, SessionInv, IInv, Exclusion, [StationNext]_allVars
               PROVE  ReportInv'
    OBVIOUS
  <2>1. CASE UNCHANGED allVars
    BY <2>1 DEF allVars, vars, stationVars, history, ReportInv
  <2>2. QED
    BY <2>1, ReportHandler, ReportOthers DEF StationNext
<1>3. QED
  BY <1>1, <1>2, SessionAlways, StationUsesTimer, Invariance, ExclusionAlways, PTL
  DEF StationSpec

\* No report is queued behind the answer to the STOP that ended its session.
THEOREM StationNoReportAfterStop == StationSpec => NoReportAfterStop
<1>1. ReportInv /\ SessionInv /\ IInv
      => [cb = "push" /\ cb' = "done" => session > acked /\ "BUSY" \in status]_allVars
  BY DEF ReportInv, SessionInv, RunsAdmitted, Busy, IInv, CallbackOnlyWhileRunning
<1>2. QED
  BY <1>1, ReportAlways, SessionAlways, StationUsesTimer, Invariance, PTL
  DEF NoReportAfterStop

\* A report carries one unit more than the one before it in its session.
THEOREM StationReportsCount == StationSpec => ReportsCount
<1>1. ReportInv
      => [cb = "push" /\ cb' = "done" =>
            info.energy = IF lastReport.session = session
                          THEN lastReport.energy + 1 ELSE 1]_allVars
  BY DEF ReportInv
<1>2. QED
  BY <1>1, ReportAlways, PTL DEF ReportsCount

-----------------------------------------------------------------------------
(* Type correctness: what SessionInv and ReportInv leave. *)

OtherTypes ==
    /\ queue \in Seq(Message)
    /\ lib \in Dispatchers \cup {Free} /\ queueLock \in {main, Free}
    /\ infoLock \in Dispatchers \cup {Free, "worker"}
    /\ cb \in {"enter", "push", "done"}
    /\ delivered \in 0 .. MaxCommands

LEMMA OtherTypesStep ==
    ASSUME OtherTypes, SessionInv, ReportInv, [StationNext]_allVars
    PROVE  OtherTypes'
<1> USE DEF OtherTypes
<1>1. ASSUME NEW m \in Message, Push(m)
      PROVE  queue' \in Seq(Message)
  BY <1>1 DEF Push
<1>2. ASSUME NEW d \in Dispatchers, NEW ok \in BOOLEAN, Answer(d, ok)
      PROVE  queue' \in Seq(Message)
  <2>1. [kind |-> "result", cmd |-> cmd[d], ok |-> ok] \in Message
    BY DEF Message, SessionInv, Types
  <2>2. QED
    BY <1>1, <1>2, <2>1 DEF Answer
<1>3. ASSUME NEW d \in Dispatchers, HandlerStep(d)
      PROVE  OtherTypes'
  <2>1. CASE Refuse(d) \/ Acknowledge(d)
    <3>1. PICK ok \in BOOLEAN : Answer(d, ok)
      BY <2>1 DEF Refuse, Acknowledge
    <3>2. QED
      BY <1>2, <2>1, <3>1 DEF Refuse, Acknowledge, locks
  <2>2. CASE LockInfo(d) \/ Restarted(d) \/ Release(d)
    BY <2>2 DEF LockInfo, Restarted, Release, history
  <2>3. CASE \/ TestBusy(d) \/ ClaimBusy(d) \/ Admit(d) \/ RestartTimer(d)
             \/ StopTimer(d) \/ Stopped(d) \/ InTimer(d)
    BY <2>3 DEF TestBusy, ClaimBusy, Admit, RestartTimer, StopTimer, Stopped, InTimer,
                stationVars, locks, history
  <2>4. QED
    BY <1>3, <2>1, <2>2, <2>3 DEF HandlerStep
<1>4. ASSUME NEW d \in Dispatchers, NEW c \in Commands, Deliver(d, c)
      PROVE  OtherTypes'
  BY <1>4, StationBounds DEF Deliver
<1>5. CASE MainStep
  BY <1>5 DEF MainStep, Setup, SyncNothing, TakeQueue, Publish, QueueSent, Heartbeat, locks,
              history
<1>6. CASE CallbackStep
  <2>1. [kind |-> "charge", session |-> session, energy |-> info.energy] \in Message
    BY DEF Message, SessionInv, Types, ReportInv
  <2>2. QED
    BY <1>1, <1>6, <2>1
    DEF CallbackStep, CallbackLock, CallbackPush, CallbackReturn, locks, history
<1>7. CASE WorkerLoop \/ TimePasses \/ UNCHANGED allVars
  BY <1>7 DEF WorkerLoop, TimePasses, allVars, stationVars, locks, history
<1>8. QED
  BY <1>3, <1>4, <1>5, <1>6, <1>7 DEF StationNext

\* Every variable of the station keeps its type, whatever the bounds.
THEOREM StationTypeCorrect == StationSpec => []StationTypeOK
<1>1. StationInit => OtherTypes
  BY StationBounds DEF StationInit, OtherTypes
<1>2. OtherTypes /\ SessionInv /\ ReportInv /\ [StationNext]_allVars => OtherTypes'
  BY OtherTypesStep
<1>3. OtherTypes /\ SessionInv /\ ReportInv /\ IInv => StationTypeOK
  BY DEF OtherTypes, SessionInv, Types, ReportInv, IInv, StationTypeOK
<1>4. QED
  BY <1>1, <1>2, <1>3, SessionAlways, ReportAlways, StationUsesTimer, Invariance, PTL
  DEF StationSpec
=============================================================================

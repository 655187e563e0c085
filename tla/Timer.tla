-------------------------------- MODULE Timer --------------------------------
(***************************************************************************)
(* tools/timer/timer.cpp: one Timer object, its worker thread and the      *)
(* threads ("callers") that operate it.                                    *)
(*                                                                         *)
(* A critical section of pimpl_->mutex_ is one action.  The only section   *)
(* that spans several steps is the worker's, which keeps the mutex while   *)
(* the user callback runs: it holds the mutex exactly when wpc =           *)
(* "callback", so every section of a caller requires MutexFree.  Time is   *)
(* discrete; time points are kept relative to now.  Statistics,            *)
(* last_error_, precision_ and auto_restart_ influence no decision of the  *)
(* code and are left out.                                                  *)
(***************************************************************************)
EXTENDS Integers, FiniteSets

CONSTANTS
    Callers,        \* threads that call the public operations
    Modes,          \* the modes setParameters is called with
    Intervals,      \* the intervals it is called with, in ticks
    RepeatCounts,   \* the repeat counts it is called with
    Delays,         \* the initial delays start(delay) is called with, in ticks
    SpawnResults,   \* outcomes of creating the thread
    MaxCount,       \* bound: current_count_ saturates here
    MaxLag,         \* bound: lateness of next_execution_time_ saturates here
    MaxLead         \* bound: next_execution_time_ - now saturates here

ModeSet == {"ONESHOT", "REPEAT", "LOOP", "FIXED_RATE"}

ASSUME ModesAssumption == Modes \subseteq ModeSet
ASSUME TimesAssumption ==
    /\ Intervals \subseteq Nat /\ Delays \subseteq Nat
    /\ RepeatCounts \subseteq Int
    /\ MaxLag \in Nat /\ MaxLead \in Nat /\ MaxCount \in Nat
ASSUME BoundsAssumption ==
    /\ \A i \in Intervals : i <= MaxLead
    /\ \A r \in RepeatCounts : r <= MaxCount
ASSUME SpawnAssumption == SpawnResults \subseteq {"SUCCESS", "THREAD_ERROR"}

VARIABLES
    state,           \* state_
    stopRequested,   \* stop_requested_
    pauseRequested,  \* pause_requested_
    count,           \* current_count_
    params,          \* mode_, interval_, repeat_count_ and whether callback_ is set
    delay,           \* delay_
    next,            \* next_execution_time_ - now, or Epoch when it was never set
    delayLeft,       \* what is left of the wait for the initial delay
    wpc,             \* where the worker is; "none": worker_thread_ is not joinable
    call,            \* what each caller is doing
    quiet            \* history: ticks since a callback last ended, up to MaxLead

control == <<state, stopRequested, pauseRequested>>
vars == <<state, stopRequested, pauseRequested, count, params, delay, next,
          delayLeft, wpc, call, quiet>>

State == {"CREATED", "RUNNING", "PAUSED", "STOPPED", "ERROR"}
WorkerAlive == {"begin", "delay", "init", "top", "waitRunning", "waitDue", "callback"}
WorkerPc == WorkerAlive \cup {"none", "exited"}
CallPc == {"idle", "stopped", "joining", "rstopped", "rjoining", "rreset", "rstart",
           "wait", "waitPaused", "timedWait", "timedWaitPaused"}
Params == [mode : Modes, interval : Intervals, repeatCount : RepeatCounts,
           callback : BOOLEAN]

\* time_point{}: the clock's epoch, which lies further back than any lag.
Epoch == -(MaxLag + 1)

TypeOK ==
    /\ state \in State
    /\ stopRequested \in BOOLEAN /\ pauseRequested \in BOOLEAN
    /\ count \in 0 .. MaxCount
    /\ params \in Params
    /\ delay \in Delays \cup {0}
    /\ next \in Epoch .. MaxLead
    /\ delayLeft \in Nat
    /\ wpc \in WorkerPc
    /\ call \in [Callers -> CallPc]
    /\ quiet \in 0 .. MaxLead

Init ==
    /\ state = "CREATED" /\ stopRequested = FALSE /\ pauseRequested = FALSE
    /\ count = 0
    /\ params \in {p \in Params : ~p.callback}
    /\ delay = 0 /\ next = Epoch /\ delayLeft = 0
    /\ wpc = "none"
    /\ call = [c \in Callers |-> "idle"]
    /\ quiet = MaxLead

-----------------------------------------------------------------------------
(* Helpers. *)

AtMost(bound, n) == IF n > bound THEN bound ELSE n
AtLeast(bound, n) == IF n < bound THEN bound ELSE n

MutexFree == wpc # "callback"
Joinable == wpc # "none"
Active == state \in {"RUNNING", "PAUSED"}

Go(c, pc) == call' = [call EXCEPT ![c] = pc]

\* calculateNextExecutionTime
Following ==
    IF params.mode = "FIXED_RATE" /\ next # Epoch
    THEN AtMost(MaxLead, next + params.interval)
    ELSE params.interval

-----------------------------------------------------------------------------
(* Operations of the callers. *)

\* setParameters and the single setters.  delay_ is the one field start
\* overwrites; a setter that comes between start and the worker's first step
\* still changes it under the worker.  An empty callback is accepted: start refuses
\* it, and a worker that runs already goes on counting executions without calling it.
SetParameters(c, p, d) ==
    /\ call[c] = "idle" /\ MutexFree
    /\ params' = p /\ delay' = d
    /\ UNCHANGED <<control, count, next, delayLeft, wpc, call, quiet>>

\* Mutant: the failure of startThread is not looked at.
StartThreadUnchecked ==
    /\ state' = "RUNNING"
    /\ wpc' \in IF Joinable THEN {wpc}
                ELSE {IF r = "SUCCESS" THEN "begin" ELSE wpc : r \in SpawnResults}

\* startThread, called with state_ already RUNNING: a failure leaves ERROR.
StartThread ==
    \/ /\ ~Joinable
       /\ \E r \in SpawnResults :
            /\ wpc' = IF r = "SUCCESS" THEN "begin" ELSE wpc
            /\ state' = IF r = "SUCCESS" THEN "RUNNING" ELSE "ERROR"
    \/ /\ Joinable
       /\ state' = "ERROR" /\ UNCHANGED wpc

StartRefused == ~params.callback \/ state = "RUNNING"

StartSection(d) ==
    \/ /\ StartRefused
       /\ UNCHANGED <<control, delay, wpc>>
    \/ /\ ~StartRefused
       /\ delay' = d /\ stopRequested' = FALSE /\ pauseRequested' = FALSE
       /\ \/ state = "PAUSED" /\ state' = "RUNNING" /\ UNCHANGED wpc
          \/ state # "PAUSED" /\ StartThread

Start(c, d) ==
    /\ call[c] = "idle" /\ MutexFree
    /\ StartSection(d)
    /\ UNCHANGED <<count, params, next, delayLeft, call, quiet>>

\* Mutant: pause() does not lock the mutex.
PauseUnlocked(c) ==
    /\ call[c] = "idle"
    /\ state = "RUNNING"
    /\ pauseRequested' = TRUE /\ state' = "PAUSED"
    /\ UNCHANGED <<stopRequested, count, params, delay, next, delayLeft, wpc, call, quiet>>

Pause(c) ==
    /\ call[c] = "idle" /\ MutexFree
    /\ state = "RUNNING"
    /\ pauseRequested' = TRUE /\ state' = "PAUSED"
    /\ UNCHANGED <<stopRequested, count, params, delay, next, delayLeft, wpc, call, quiet>>

Resume(c) ==
    /\ call[c] = "idle" /\ MutexFree
    /\ state = "PAUSED"
    /\ pauseRequested' = FALSE /\ state' = "RUNNING"
    /\ UNCHANGED <<stopRequested, count, params, delay, next, delayLeft, wpc, call, quiet>>

\* reset: the section of Impl::reset.
ResetSection ==
    /\ state # "RUNNING"
    /\ count' = 0 /\ stopRequested' = FALSE /\ pauseRequested' = FALSE
    /\ state' = "CREATED" /\ next' = Epoch

Reset(c) ==
    /\ call[c] = "idle" /\ MutexFree
    /\ ResetSection
    /\ UNCHANGED <<params, delay, delayLeft, wpc, call, quiet>>

\* Mutant: stop() leaves pause_requested_ as it is.
StopKeepsPause(c, ifRequested, afterwards) ==
    /\ call[c] = "idle" /\ MutexFree
    /\ \/ stopRequested /\ Go(c, ifRequested) /\ UNCHANGED control
       \/ /\ ~stopRequested
          /\ stopRequested' = TRUE /\ UNCHANGED pauseRequested /\ state' = "STOPPED"
          /\ Go(c, afterwards)
    /\ UNCHANGED <<count, params, delay, next, delayLeft, wpc, quiet>>

\* stop and the first call of restart: the section up to the notification.
\* When a stop was requested before, stop() returns at once and restart()
\* goes on to reset().
StopSection(c, ifRequested, afterwards) ==
    /\ call[c] = "idle" /\ MutexFree
    /\ \/ stopRequested /\ Go(c, ifRequested) /\ UNCHANGED control
       \/ /\ ~stopRequested
          /\ stopRequested' = TRUE /\ pauseRequested' = FALSE /\ state' = "STOPPED"
          /\ Go(c, afterwards)
    /\ UNCHANGED <<count, params, delay, next, delayLeft, wpc, quiet>>

Stop(c) == StopSection(c, "idle", "stopped")
Restart(c) == StopSection(c, "rreset", "rstopped")

\* Mutant: the worker is not joined.
ReturnUnjoined(c) ==
    /\ call[c] \in {"stopped", "rstopped"}
    /\ Go(c, IF call[c] = "stopped" THEN "idle" ELSE "rreset")
    /\ UNCHANGED <<control, count, params, delay, next, delayLeft, wpc, quiet>>

\* joinable() and the call of join(), outside the mutex.  A second join() of
\* a thread that is already being joined throws system_error: THREAD_ERROR.
JoinOrReturn(c) ==
    /\ call[c] \in {"stopped", "rstopped"}
    /\ LET done == IF call[c] = "stopped" THEN "idle" ELSE "rreset"
           wait == IF call[c] = "stopped" THEN "joining" ELSE "rjoining"
       IN  Go(c, IF ~Joinable THEN done
                 ELSE IF \E o \in Callers : call[o] \in {"joining", "rjoining"}
                 THEN "idle" ELSE wait)
    /\ UNCHANGED <<control, count, params, delay, next, delayLeft, wpc, quiet>>

Joined(c) ==
    /\ call[c] \in {"joining", "rjoining"}
    /\ wpc = "exited"
    /\ wpc' = "none"
    /\ Go(c, IF call[c] = "joining" THEN "idle" ELSE "rreset")
    /\ UNCHANGED <<control, count, params, delay, next, delayLeft, quiet>>

RestartReset(c) ==
    /\ call[c] = "rreset" /\ MutexFree
    /\ \/ ResetSection /\ Go(c, "rstart")
       \/ state = "RUNNING" /\ Go(c, "idle") /\ UNCHANGED <<control, count, next>>
    /\ UNCHANGED <<params, delay, delayLeft, wpc, quiet>>

RestartStart(c) ==
    /\ call[c] = "rstart" /\ MutexFree
    /\ StartSection(0)
    /\ Go(c, "idle")
    /\ UNCHANGED <<count, params, next, delayLeft, quiet>>

\* waitForCompletion polls isRunning() || isPaused(): two reads of the state,
\* each under its own lock.
WaitForCompletion(c, pc) ==
    /\ call[c] = "idle" /\ pc \in {"wait", "timedWait"}
    /\ Go(c, pc)
    /\ UNCHANGED <<control, count, params, delay, next, delayLeft, wpc, quiet>>

PollIsRunning(c) ==
    /\ call[c] \in {"wait", "timedWait"} /\ MutexFree
    /\ \/ state # "RUNNING"
          /\ Go(c, IF call[c] = "wait" THEN "waitPaused" ELSE "timedWaitPaused")
       \/ state = "RUNNING" /\ call[c] = "timedWait" /\ Go(c, "idle")  \* TIMEOUT
    /\ UNCHANGED <<control, count, params, delay, next, delayLeft, wpc, quiet>>

PollIsPaused(c) ==
    /\ call[c] \in {"waitPaused", "timedWaitPaused"} /\ MutexFree
    /\ \/ state # "PAUSED" /\ Go(c, "idle")
       \/ state = "PAUSED"
          /\ Go(c, IF call[c] = "waitPaused" THEN "wait" ELSE "timedWait")
       \/ state = "PAUSED" /\ call[c] = "timedWaitPaused" /\ Go(c, "idle")
    /\ UNCHANGED <<control, count, params, delay, next, delayLeft, wpc, quiet>>

-----------------------------------------------------------------------------
(* The worker thread: Impl::run. *)

Worker(from, to) == wpc = from /\ wpc' = to

WBegin ==
    /\ wpc = "begin"
    /\ IF delay > 0 THEN wpc' = "delay" /\ delayLeft' = delay
                    ELSE wpc' = "init" /\ UNCHANGED delayLeft
    /\ UNCHANGED <<control, count, params, delay, next, call, quiet>>

\* The wait for the initial delay ends on the timeout, a stop or a pause.
WDelay ==
    /\ \/ stopRequested /\ Worker("delay", "exited")
       \/ ~stopRequested /\ (pauseRequested \/ delayLeft = 0) /\ Worker("delay", "init")
    /\ delayLeft' = 0
    /\ UNCHANGED <<control, count, params, delay, next, call, quiet>>

\* Mutant: run() does not compute the first execution time.
WInitKeepsNext ==
    /\ Worker("init", "top")
    /\ UNCHANGED <<control, count, params, delay, next, delayLeft, call, quiet>>

WInit ==
    /\ Worker("init", "top")
    /\ next' = Following
    /\ UNCHANGED <<control, count, params, delay, delayLeft, call, quiet>>

WTop ==
    /\ \/ stopRequested /\ Worker("top", "exited")
       \/ ~stopRequested /\ Worker("top", "waitRunning")
    /\ UNCHANGED <<control, count, params, delay, next, delayLeft, call, quiet>>

\* Mutant: the wait for RUNNING is not ended by a stop.
WWaitRunningOnly ==
    /\ state = "RUNNING" /\ Worker("waitRunning", "waitDue")
    /\ UNCHANGED <<control, count, params, delay, next, delayLeft, call, quiet>>

WWaitRunning ==
    /\ \/ stopRequested /\ Worker("waitRunning", "exited")
       \/ ~stopRequested /\ state = "RUNNING" /\ Worker("waitRunning", "waitDue")
    /\ UNCHANGED <<control, count, params, delay, next, delayLeft, call, quiet>>

\* Mutant: the state is not tested again after the wait.
WWaitDueUntested ==
    /\ \/ stopRequested /\ Worker("waitDue", "exited") /\ UNCHANGED state
       \/ /\ ~stopRequested /\ pauseRequested
          /\ Worker("waitDue", "top") /\ state' = "PAUSED"
       \/ /\ ~stopRequested /\ ~pauseRequested /\ (state # "RUNNING" \/ next <= 0)
          /\ Worker("waitDue", "callback") /\ UNCHANGED state
    /\ UNCHANGED <<stopRequested, pauseRequested, count, params, delay, next,
                   delayLeft, call, quiet>>

\* The tests after wait_until, in the order of the code.
WWaitDue ==
    /\ \/ stopRequested /\ Worker("waitDue", "exited") /\ UNCHANGED state
       \/ /\ ~stopRequested /\ pauseRequested
          /\ Worker("waitDue", "top") /\ state' = "PAUSED"
       \/ /\ ~stopRequested /\ ~pauseRequested /\ state # "RUNNING"
          /\ Worker("waitDue", "top") /\ UNCHANGED state
       \/ /\ ~stopRequested /\ ~pauseRequested /\ state = "RUNNING" /\ next <= 0
          /\ Worker("waitDue", "callback") /\ UNCHANGED state
    /\ UNCHANGED <<stopRequested, pauseRequested, count, params, delay, next,
                   delayLeft, call, quiet>>

Completes ==
    \/ params.mode = "ONESHOT"
    \/ params.mode = "REPEAT" /\ count + 1 >= params.repeatCount

WCallbackDone ==
    /\ wpc = "callback"
    /\ count' = AtMost(MaxCount, count + 1)
    /\ quiet' = 0
    /\ \/ Completes /\ state' = "STOPPED" /\ wpc' = "exited" /\ UNCHANGED next
       \/ ~Completes /\ next' = Following /\ wpc' = "top" /\ UNCHANGED state
    /\ UNCHANGED <<stopRequested, pauseRequested, params, delay, delayLeft, call>>

Tick ==
    /\ next' = IF next = Epoch THEN Epoch ELSE AtLeast(-MaxLag, next - 1)
    /\ delayLeft' = AtLeast(0, delayLeft - 1)
    /\ quiet' = IF wpc = "callback" THEN quiet ELSE AtMost(MaxLead, quiet + 1)
    /\ UNCHANGED <<control, count, params, delay, wpc, call>>

-----------------------------------------------------------------------------
WorkerStep ==
    WBegin \/ WDelay \/ WInit \/ WTop \/ WWaitRunning \/ WWaitDue \/ WCallbackDone

\* The steps a caller takes inside an operation it has begun.
CallStep(c) ==
    \/ JoinOrReturn(c) \/ Joined(c) \/ RestartReset(c) \/ RestartStart(c)
    \/ PollIsRunning(c) \/ PollIsPaused(c)

CallBegin(c) ==
    \/ \E p \in Params, d \in Delays : SetParameters(c, p, d)
    \/ \E d \in Delays : Start(c, d)
    \/ Pause(c) \/ Resume(c) \/ Stop(c) \/ Restart(c) \/ Reset(c)
    \/ \E pc \in {"wait", "timedWait"} : WaitForCompletion(c, pc)

Next == WorkerStep \/ Tick \/ \E c \in Callers : CallBegin(c) \/ CallStep(c)

\* The scheduler runs every thread that can run, the clock advances and the
\* callback returns; no caller is ever obliged to begin an operation.
Fairness ==
    /\ WF_vars(WorkerStep) /\ WF_vars(Tick)
    /\ \A c \in Callers : WF_vars(CallStep(c))

Spec == Init /\ [][Next]_vars
FairSpec == Spec /\ Fairness

\* Where several threads call, one waits for the mutex while the worker goes on taking
\* it for its callbacks: it gets it in the end, because between two callbacks the
\* worker sleeps for an interval with the mutex free.
SharedSpec == FairSpec /\ \A c \in Callers : SF_vars(CallStep(c))

-----------------------------------------------------------------------------
(* Safety. *)

\* The two atomic flags, which the worker also reads without the mutex,
\* agree with state_: pause_requested_ is set exactly while PAUSED, and
\* stop_requested_ only while STOPPED.
FlagsAgree ==
    /\ pauseRequested <=> state = "PAUSED"
    /\ stopRequested => state = "STOPPED"

\* The user callback runs only while the timer is RUNNING and neither a stop
\* nor a pause has been requested, whoever calls what meanwhile.
CallbackOnlyWhileRunning ==
    wpc = "callback" => state = "RUNNING" /\ ~stopRequested /\ ~pauseRequested

\* A timer that reports RUNNING or PAUSED has a live worker to serve it: no
\* order of start, stop, reset and the worker's own exit leaves a timer that
\* looks active and can never fire again.
ActiveHasWorker == Active => wpc \in WorkerAlive

\* A requested stop is never abandoned: until the worker has been joined some
\* caller is on its way to join it, though a second stop() returns at once.
StopIsCollected ==
    stopRequested =>
        \/ wpc = "none"
        \/ \E c \in Callers : call[c] \in {"stopped", "rstopped", "joining", "rjoining"}

\* With one caller, stop() and restart() collect the worker, so restart()
\* always gets a new one: it cannot end in the ERROR state.
RestartSucceeds ==
    [][\A c \in Callers :
         call[c] = "rstart" /\ call[c]' = "idle" /\ params.callback
         => state' = "RUNNING" /\ wpc' = "begin"]_vars

\* Without FIXED_RATE two callbacks are at least an interval apart, counted
\* from the end of the first, across stop, start, restart, pause and delays.
Spacing ==
    [][wpc # "callback" /\ wpc' = "callback" => \E i \in Intervals : quiet >= i]_vars

(* Liveness. *)

\* Another caller's start() or reset() has cleared the stop flag of a stop() that is
\* under way.  If the worker has not read it yet it runs on, and a stop() that has
\* begun to join it waits for as long as the timer runs.
Overtaken == ~stopRequested /\ \E c \in Callers :
                 call[c] \in {"stopped", "rstopped", "joining", "rjoining"}

\* stop() and restart() of any caller return, however the calls of several callers
\* interleave, unless one of them overtakes the stop: that one may wait for ever.
StopReturns ==
    \A c \in Callers :
        call[c] \in {"stopped", "rstopped", "joining", "rjoining", "rreset", "rstart"}
        ~> (call[c] = "idle" \/ Overtaken)

-----------------------------------------------------------------------------
(* The abstract timer this one implements. *)

phaseOfState ==
    CASE state = "RUNNING" -> "on"
      [] state = "PAUSED" -> "held"
      [] OTHER -> "off"

Contract == INSTANCE TimerContract WITH phase <- phaseOfState, firing <- wpc = "callback"

\* The timer never fires while stopped, paused or in error, and no operation
\* of any caller takes effect while its callback runs (the mutex of run()).
ContractSafety == Contract!SafeSpec

\* Besides, a timer left RUNNING fires again and again: no history of stops,
\* pauses, resets and restarts loses the worker's wake-up.
ContractHolds == Contract!Spec
=============================================================================

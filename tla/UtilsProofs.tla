----------------------------- MODULE UtilsProofs -----------------------------
(***************************************************************************)
(* Proofs about TimerUtils: each function uses its timer as any caller     *)
(* may and leaves no worker behind, and delayExecute has run its callback  *)
(* once; for any intervals, repeat counts and bounds.                      *)
(***************************************************************************)
EXTENDS TimerUtils, TimerProofs

UtilTypes ==
    /\ function \in {"delayExecute", "periodicExecute"}
    /\ pc \in {"configure", "start", "wait", "destroy", "return", "returned"}
    /\ outcome \in {"none", "SUCCESS", "ERROR"} /\ fired \in 0 .. 2
    /\ outcome = "none" <=> pc \in {"configure", "start"}

\* What the function's thread may be doing in the timer.
CallsAt ==
    [configure |-> {"idle"}, start |-> {"idle"}, wait |-> {"idle"},
     destroy |-> {"idle", "wait", "waitPaused"},
     return |-> {"idle", "stopped", "joining"}, returned |-> {"idle"}]
CallAgrees == call[self] \in CallsAt[pc]

\* The timer is new until it is started, it is never paused, and it is stopped once.
Handled ==
    /\ outcome = "none" => state = "CREATED"
    /\ outcome # "SUCCESS" => wpc = "none" /\ fired = 0
    /\ pc # "configure" => params.mode \in ModesOf(function)
    /\ ~pauseRequested
    /\ stopRequested <=> pc \in {"return", "returned"}

\* delayExecute goes on only when its worker has ended by itself, and the worker of a
\* ONESHOT timer that nobody stops ends with its callback.
WaitedFor ==
    function = "delayExecute" /\ outcome = "SUCCESS" =>
        IF wpc \in WorkerAlive
        THEN /\ state = "RUNNING" /\ fired = (IF wpc = "callback" THEN 1 ELSE 0)
             /\ pc = "wait" \/ (pc = "destroy" /\ call[self] = "wait")
        ELSE state = "STOPPED" /\ fired = 1

\* The destructor's stop has joined the worker when it returns.
Collected == pc = "returned" \/ (pc = "return" /\ call[self] = "idle") => wpc = "none"

UtilInv == UtilTypes /\ CallAgrees /\ Handled /\ WaitedFor /\ Collected

-----------------------------------------------------------------------------

\* Whatever the functions do, their timer is used as any one caller may use it.
THEOREM UtilsUseTimer == UtilSpec => Spec
<1>1. UtilInit => Init
  BY DEF UtilInit
<1>2. ASSUME [UtilNext]_utilVars PROVE [Next]_vars
  <2>1. self \in Callers /\ 0 \in Delays
    BY SelfAssumption, DelaysAssumption
  <2>2. CASE UtilStep
    BY <2>1, <2>2 DEF UtilStep, Configure, Begin, AwaitCompletion, Destroy, Return, Next, CallBegin
  <2>3. CASE TimerStep
    BY <2>1, <2>3 DEF TimerStep, Next
  <2> QED BY <1>2, <2>2, <2>3 DEF UtilNext, utilVars
<1> QED BY <1>1, <1>2, PTL DEF UtilSpec, Spec

\* The steps of the timer that the functions can take: no caller restarts it.
LEMMA WorkerKeeps ==
    ASSUME UtilInv, IInv, WorkerStep, TimerStep
    PROVE  UtilInv'
<1>1. /\ UNCHANGED <<function, pc, outcome, call, params, stopRequested, pauseRequested>>
      /\ fired' = IF wpc # "callback" /\ wpc' = "callback" THEN AtMost(2, fired + 1) ELSE fired
  BY DEF TimerStep, WorkerStep, WBegin, WDelay, WInit, WTop, WWaitRunning, WWaitDue,
         WCallbackDone, control
<1>2. wpc \in WorkerAlive /\ outcome = "SUCCESS"
  BY DEF WorkerStep, WBegin, WDelay, WInit, WTop, WWaitRunning, WWaitDue, WCallbackDone,
         Worker, WorkerAlive, UtilInv, Handled
<1>3. UtilTypes' /\ CallAgrees' /\ Handled'
  BY <1>1, <1>2 DEF UtilInv, UtilTypes, CallAgrees, Handled, AtMost
<1>4. WaitedFor'
  <2> SUFFICES ASSUME function = "delayExecute"
               PROVE  WaitedFor'
    BY <1>1 DEF WaitedFor
  <2>1. /\ state = "RUNNING" /\ fired = (IF wpc = "callback" THEN 1 ELSE 0)
        /\ pc = "wait" \/ (pc = "destroy" /\ call[self] = "wait")
        /\ ~stopRequested /\ ~pauseRequested /\ params.mode = "ONESHOT"
    BY <1>2 DEF UtilInv, WaitedFor, Handled, ModesOf
  <2>2. CASE WCallbackDone
    BY <1>1, <2>1, <2>2 DEF WCallbackDone, Completes, WaitedFor, WorkerAlive
  <2>3. CASE WWaitDue
    BY <1>1, <2>1, <2>3 DEF WWaitDue, Worker, WaitedFor, WorkerAlive, AtMost
  <2>4. CASE WBegin \/ WDelay \/ WInit \/ WTop \/ WWaitRunning
    <3>1. /\ state' = state /\ wpc # "callback"
          /\ wpc' \in {"delay", "init", "top", "waitRunning", "waitDue"}
      BY <2>1, <2>4 DEF WBegin, WDelay, WInit, WTop, WWaitRunning, Worker, control
    <3> QED BY <1>1, <2>1, <3>1 DEF WaitedFor, WorkerAlive
  <2> QED BY <2>2, <2>3, <2>4 DEF WorkerStep
<1>5. Collected'
  BY <1>1, <1>2 DEF UtilInv, Collected, WorkerAlive
<1> QED BY <1>3, <1>4, <1>5 DEF UtilInv

LEMMA CallKeeps ==
    ASSUME UtilInv, IInv, CallStep(self), TimerStep
    PROVE  UtilInv'
<1>1. self \in Callers /\ Callers = {self} /\ call \in [Callers -> CallPc]
  BY SelfAssumption DEF IInv, TypeOK
<1>2. call[self] \in {"wait", "waitPaused", "stopped", "joining"}
  BY DEF UtilInv, UtilTypes, CallAgrees, CallsAt, CallStep, JoinOrReturn, Joined, RestartReset,
         RestartStart, PollIsRunning, PollIsPaused
<1>3. /\ UNCHANGED <<function, pc, outcome>>
      /\ fired' = IF wpc # "callback" /\ wpc' = "callback" THEN AtMost(2, fired + 1) ELSE fired
  BY DEF TimerStep
<1>4. CASE PollIsRunning(self) \/ PollIsPaused(self)
  <2>1. /\ UNCHANGED <<control, params, wpc, fired>> /\ pc = "destroy"
        /\ call[self] \in {"wait", "waitPaused"}
        /\ call'[self] \in {"wait", "waitPaused", "idle"}
        /\ state = "RUNNING" => call[self] = "waitPaused"
    BY <1>1, <1>2, <1>3, <1>4
    DEF PollIsRunning, PollIsPaused, Go, UtilInv, UtilTypes, CallAgrees, CallsAt
  <2> QED BY <1>3, <2>1
      DEF UtilInv, UtilTypes, CallAgrees, CallsAt, Handled, WaitedFor, Collected, control
<1>5. CASE JoinOrReturn(self) \/ Joined(self)
  <2>1. /\ UNCHANGED <<control, params, fired>> /\ pc = "return"
        /\ call'[self] \in {"idle", "joining"}
        /\ call'[self] = "idle" => wpc' = "none"
        /\ wpc' # wpc => wpc = "exited" /\ wpc' = "none"
    BY <1>1, <1>2, <1>3, <1>5
    DEF JoinOrReturn, Joined, Joinable, Go, UtilInv, UtilTypes, CallAgrees, CallsAt
  <2> QED BY <1>3, <2>1
      DEF UtilInv, UtilTypes, CallAgrees, CallsAt, Handled, WaitedFor, Collected, control,
          WorkerAlive
<1> QED BY <1>2, <1>4, <1>5 DEF CallStep, RestartReset, RestartStart

LEMMA UtilStepKeeps ==
    ASSUME UtilInv, IInv, UtilStep
    PROVE  UtilInv'
<1>1. self \in Callers /\ Callers = {self} /\ call \in [Callers -> CallPc]
  BY SelfAssumption DEF IInv, TypeOK
<1>2. CASE Configure
  BY <1>2 DEF Configure, SetParameters, UtilInv, UtilTypes, CallAgrees, CallsAt, Handled,
              WaitedFor, Collected, control
<1>3. CASE Begin
  <2>1. /\ state = "CREATED" /\ wpc = "none" /\ fired = 0
        /\ call' = call /\ call[self] = "idle" /\ pc = "start"
    BY <1>3 DEF Begin, Start, UtilInv, UtilTypes, CallAgrees, CallsAt, Handled
  <2>2. /\ UNCHANGED <<params, function, fired>> /\ ~stopRequested' /\ ~pauseRequested'
        /\ \/ state' = "RUNNING" /\ wpc' = "begin" /\ outcome' = "SUCCESS"
           \/ state' \in {"CREATED", "ERROR"} /\ wpc' = "none" /\ outcome' = "ERROR"
        /\ pc' = IF outcome' = "SUCCESS" /\ function = "delayExecute" THEN "wait" ELSE "destroy"
    BY <1>3, <2>1
    DEF Begin, Start, StartSection, StartRefused, StartThread, Joinable, Handled, UtilInv, control
  <2> QED BY <2>1, <2>2
      DEF UtilInv, UtilTypes, CallAgrees, CallsAt, Handled, WaitedFor, Collected, WorkerAlive
<1>4. CASE AwaitCompletion
  BY <1>1, <1>4 DEF AwaitCompletion, WaitForCompletion, Go, UtilInv, UtilTypes, CallAgrees,
                    CallsAt, Handled, WaitedFor, Collected, control
<1>5. CASE Destroy
  BY <1>1, <1>5 DEF Destroy, Stop, StopSection, Go, UtilInv, UtilTypes, CallAgrees,
                    CallsAt, Handled, WaitedFor, Collected, control
<1>6. CASE Return
  BY <1>6 DEF Return, vars, UtilInv, UtilTypes, CallAgrees, CallsAt, Handled, WaitedFor,
              Collected
<1> QED BY <1>2, <1>3, <1>4, <1>5, <1>6 DEF UtilStep

LEMMA UtilInvariance == UtilSpec => []UtilInv
<1>1. UtilInit => UtilInv
  BY SelfAssumption DEF UtilInit, Init, Params, UtilInv, UtilTypes, CallAgrees, CallsAt, Handled, WaitedFor,
         Collected
<1>2. ASSUME UtilInv, IInv, [UtilNext]_utilVars PROVE UtilInv'
  <2>1. CASE TimerStep /\ Tick
    BY <1>2, <2>1 DEF TimerStep, Tick, UtilInv, UtilTypes, CallAgrees, Handled, WaitedFor, Collected,
                control
  <2>2. CASE UNCHANGED utilVars
    BY <1>2, <2>2 DEF utilVars, vars, UtilInv, UtilTypes, CallAgrees, Handled, WaitedFor,
                     Collected
  <2> QED BY <1>2, <2>1, <2>2, WorkerKeeps, CallKeeps, UtilStepKeeps DEF UtilNext, TimerStep
<1> QED BY <1>1, <1>2, UtilsUseTimer, Invariance, PTL DEF UtilSpec

\* The half of RunsOnce that a run can violate after finitely many steps: a function
\* that has returned has left no worker behind, and delayExecute that reports success
\* has run its callback exactly once; for any intervals and any speed of the threads.
\* Nothing is said of periodicExecute's callback, which need not run at all.
THEOREM UtilsReturnClean == UtilSpec => []ReturnedClean
<1>1. UtilInv => ReturnedClean
  BY DEF UtilInv, UtilTypes, WaitedFor, Collected, ReturnedClean, WorkerAlive
<1> QED BY <1>1, UtilInvariance, PTL
=============================================================================

------------------------------ MODULE TimerUtils ------------------------------
(***************************************************************************)
(* tools/timer/timer.cpp, namespace TimerUtils: delayExecute and           *)
(* periodicExecute.  Each makes a Timer of its own, so the one caller of   *)
(* that timer is the thread that called the function.                      *)
(***************************************************************************)
EXTENDS Timer

CONSTANT self    \* the calling thread
ASSUME SelfAssumption == Callers = {self}
\* Neither function sets an initial delay.
ASSUME DelaysAssumption == 0 \in Delays

VARIABLES
    function,    \* which of the two functions is called
    pc,          \* where it is
    outcome,     \* what its start() answered
    fired        \* history: how often the callback has begun, at most 2

utilVars == <<vars, function, pc, outcome, fired>>

\* The mode each function gives its timer; max_executions > 0 means REPEAT.
ModesOf(f) == IF f = "delayExecute" THEN {"ONESHOT"} ELSE {"REPEAT", "LOOP"}

UtilInit ==
    /\ Init
    /\ function \in {"delayExecute", "periodicExecute"}
    /\ pc = "configure" /\ outcome = "none" /\ fired = 0

Configure ==
    /\ pc = "configure" /\ pc' = "start"
    /\ \E p \in Params : p.mode \in ModesOf(function) /\ SetParameters(self, p, 0)
    /\ UNCHANGED <<function, outcome, fired>>

\* Mutant: delayExecute does not wait for completion.
BeginOnly ==
    /\ pc = "start" /\ pc' = "destroy"
    /\ Start(self, 0)
    /\ outcome' = IF state' = "RUNNING" THEN "SUCCESS" ELSE "ERROR"
    /\ UNCHANGED <<function, fired>>

Begin ==
    /\ pc = "start"
    /\ Start(self, 0)
    /\ outcome' = IF state' = "RUNNING" THEN "SUCCESS" ELSE "ERROR"
    /\ pc' = IF outcome' = "SUCCESS" /\ function = "delayExecute" THEN "wait" ELSE "destroy"
    /\ UNCHANGED <<function, fired>>

AwaitCompletion ==
    /\ pc = "wait" /\ pc' = "destroy"
    /\ WaitForCompletion(self, "wait")
    /\ UNCHANGED <<function, outcome, fired>>

\* The unique_ptr goes out of scope: ~Timer stops the timer.
Destroy ==
    /\ pc = "destroy" /\ pc' = "return"
    /\ Stop(self)
    /\ UNCHANGED <<function, outcome, fired>>

Return ==
    /\ pc = "return" /\ pc' = "returned"
    /\ call[self] = "idle"
    /\ UNCHANGED <<vars, function, outcome, fired>>

\* The threads and the clock of the timer itself.
TimerStep ==
    /\ WorkerStep \/ Tick \/ CallStep(self)
    /\ fired' = IF wpc # "callback" /\ wpc' = "callback" THEN AtMost(2, fired + 1) ELSE fired
    /\ UNCHANGED <<function, pc, outcome>>

UtilStep == Configure \/ Begin \/ AwaitCompletion \/ Destroy \/ Return

UtilNext == UtilStep \/ TimerStep \/ (pc = "returned" /\ UNCHANGED utilVars)

\* The function's own steps need strong fairness: the worker holds the mutex
\* while the callback runs, but between two callbacks it sleeps for an interval
\* with the mutex free, time enough for a waiting thread to take it.
UtilSpec ==
    /\ UtilInit /\ [][UtilNext]_utilVars
    /\ SF_utilVars(UtilStep)
    /\ WF_utilVars(TimerStep /\ WorkerStep) /\ WF_utilVars(TimerStep /\ Tick)
    /\ SF_utilVars(TimerStep /\ CallStep(self))

-----------------------------------------------------------------------------
\* delayExecute that reports success has run the callback exactly once when it
\* returns, never a second time and never too late to be waited for.  Of a
\* periodicExecute only that the worker of the timer it destroys does not outlive
\* it: it may return without one run of the callback, see PeriodicRuns.
ReturnedClean ==
    pc = "returned" =>
        /\ wpc = "none"
        /\ function = "delayExecute" /\ outcome = "SUCCESS" => fired = 1

\* And both return, whatever the scheduling of the worker.
RunsOnce == <>[](pc = "returned" /\ ReturnedClean)

\* timer.hpp declares periodicExecute as periodic execution: once it has answered
\* success the callback runs.  The code does not keep it: the timer is a local of
\* the function, whose end stops it right after start().
PeriodicRuns == function = "periodicExecute" /\ outcome = "SUCCESS" ~> fired > 0
=============================================================================

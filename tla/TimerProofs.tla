----------------------------- MODULE TimerProofs -----------------------------
(***************************************************************************)
(* Proofs about Timer for every set of callers and every choice of the     *)
(* parameters and bounds.                                                  *)
(***************************************************************************)
EXTENDS Timer, TLAPS

-----------------------------------------------------------------------------
(* Helpers. *)

\* The clamps return one of their arguments, on the right side of the bound.
LEMMA Clamps ==
    ASSUME NEW b \in Int, NEW n \in Int
    PROVE  /\ AtMost(b, n) \in Int /\ AtMost(b, n) <= b
           /\ AtLeast(b, n) \in Int /\ AtLeast(b, n) >= b
           /\ n \geq 0 /\ b \geq 0 => AtMost(b, n) >= 0
           /\ n <= b => AtLeast(b, n) <= b
           /\ n >= b => AtLeast(b, n) = n
  BY DEF AtMost, AtLeast

\* calculateNextExecutionTime stays within the bounds of the relative time.
LEMMA FollowingType ==
    ASSUME TypeOK
    PROVE  Following \in Epoch .. MaxLead
  <1>1. /\ MaxLag \in Nat /\ MaxLead \in Nat /\ params.interval \in Nat
        /\ params.interval <= MaxLead /\ next \in Epoch .. MaxLead
    BY TimesAssumption, BoundsAssumption DEF TypeOK, Params
  <1>2. QED
    BY <1>1 DEF Following, AtMost, Epoch

\* start()'s section keeps the types of what it writes.
LEMMA StartSectionType ==
    ASSUME TypeOK, NEW d \in Delays \cup {0}, StartSection(d)
    PROVE  /\ state' \in State /\ stopRequested' \in BOOLEAN
           /\ pauseRequested' \in BOOLEAN /\ delay' \in Delays \cup {0}
           /\ wpc' \in WorkerPc
  BY DEF TypeOK, StartSection, StartThread, State, WorkerPc, WorkerAlive, control

\* reset()'s section keeps the types of what it writes.
LEMMA ResetSectionType ==
    ASSUME ResetSection
    PROVE  /\ state' \in State /\ stopRequested' \in BOOLEAN
           /\ pauseRequested' \in BOOLEAN /\ count' \in 0 .. MaxCount
           /\ next' \in Epoch .. MaxLead
  <1>1. MaxLag \in Nat /\ MaxLead \in Nat /\ MaxCount \in Nat
    BY TimesAssumption
  <1>2. count' \in 0 .. MaxCount /\ next' \in Epoch .. MaxLead
    BY <1>1 DEF ResetSection, Epoch
  <1>3. QED
    BY <1>2 DEF ResetSection, State

-----------------------------------------------------------------------------
(* Type correctness. *)

\* The constructed timer has the types.
LEMMA TypeInit == Init => TypeOK
<1> SUFFICES ASSUME Init PROVE TypeOK
  OBVIOUS
<1>1. next \in Epoch .. MaxLead /\ quiet \in 0 .. MaxLead
  BY TimesAssumption DEF Init, Epoch
<1>2. count \in 0 .. MaxCount /\ delayLeft \in Nat
  BY TimesAssumption DEF Init
<1>3. params \in Params /\ call \in [Callers -> CallPc]
  BY DEF Init, CallPc
<1>4. QED
  BY <1>1, <1>2, <1>3 DEF Init, TypeOK, State, WorkerPc

\* Every variable keeps its type: in particular the worker and the callers
\* never leave the program points of run(), stop(), restart() and
\* waitForCompletion().
THEOREM TypeCorrect == Spec => []TypeOK
<1>1. Init => TypeOK
  BY TypeInit
<1>2. TypeOK /\ [Next]_vars => TypeOK'
  <2> SUFFICES ASSUME TypeOK, [Next]_vars
               PROVE  TypeOK'
    OBVIOUS
  <2>1. CASE WorkerStep
    <3>1. Following \in Epoch .. MaxLead
      BY FollowingType
    <3>2. delay \in Nat /\ MaxCount \in Nat /\ MaxLead \in Nat /\ count \in 0 .. MaxCount
      BY TimesAssumption DEF TypeOK
    <3>3. AtMost(MaxCount, count + 1) \in 0 .. MaxCount
      BY <3>2 DEF AtMost
    <3>4. CASE WBegin
      BY <3>2, <3>4 DEF WBegin, TypeOK, control, WorkerPc, WorkerAlive
    <3>5. CASE WDelay
      BY <3>5 DEF WDelay, Worker, TypeOK, control, WorkerPc, WorkerAlive
    <3>6. CASE WInit
      BY <3>1, <3>6 DEF WInit, Worker, TypeOK, control, WorkerPc, WorkerAlive
    <3>7. CASE WTop
      BY <3>7 DEF WTop, Worker, TypeOK, control, WorkerPc, WorkerAlive
    <3>8. CASE WWaitRunning
      BY <3>8 DEF WWaitRunning, Worker, TypeOK, control, WorkerPc, WorkerAlive
    <3>9. CASE WWaitDue
      BY <3>9 DEF WWaitDue, Worker, TypeOK, State, WorkerPc, WorkerAlive
    <3>10. CASE WCallbackDone
      BY <3>1, <3>2, <3>3, <3>10 DEF WCallbackDone, TypeOK, State, WorkerPc, WorkerAlive
    <3>11. QED
      BY <2>1, <3>4, <3>5, <3>6, <3>7, <3>8, <3>9, <3>10 DEF WorkerStep
  <2>2. CASE Tick
    <3>1. /\ MaxLag \in Nat /\ MaxLead \in Nat /\ next \in Epoch .. MaxLead
          /\ delayLeft \in Nat /\ quiet \in 0 .. MaxLead
      BY TimesAssumption DEF TypeOK
    <3>2. next' \in Epoch .. MaxLead /\ delayLeft' \in Nat /\ quiet' \in 0 .. MaxLead
      BY <3>1, <2>2 DEF Tick, Epoch, AtLeast, AtMost
    <3>3. QED
      BY <2>2, <3>2 DEF Tick, TypeOK, control
  <2>3. ASSUME NEW c \in Callers, CallBegin(c)
        PROVE  TypeOK'
    <3>1. CASE \E p \in Params, d \in Delays : SetParameters(c, p, d)
      BY <3>1 DEF SetParameters, TypeOK, control
    <3>2. CASE \E d \in Delays : Start(c, d)
      BY <3>2, StartSectionType DEF Start, TypeOK
    <3>3. CASE Pause(c) \/ Resume(c)
      BY <3>3 DEF Pause, Resume, TypeOK, State
    <3>4. CASE Stop(c) \/ Restart(c)
      BY <3>4 DEF Stop, Restart, StopSection, Go, TypeOK, State, CallPc, control
    <3>5. CASE Reset(c)
      BY <3>5, ResetSectionType DEF Reset, TypeOK
    <3>6. CASE \E pc \in {"wait", "timedWait"} : WaitForCompletion(c, pc)
      BY <3>6 DEF WaitForCompletion, Go, TypeOK, CallPc, control
    <3>7. QED
      BY <2>3, <3>1, <3>2, <3>3, <3>4, <3>5, <3>6 DEF CallBegin
  <2>4. ASSUME NEW c \in Callers, CallStep(c)
        PROVE  TypeOK'
    <3>1. CASE JoinOrReturn(c)
      BY <3>1 DEF JoinOrReturn, Go, TypeOK, CallPc, control
    <3>2. CASE Joined(c)
      BY <3>2 DEF Joined, Go, TypeOK, CallPc, WorkerPc, control
    <3>3. CASE RestartReset(c)
      <4>1. CASE ResetSection /\ Go(c, "rstart")
        BY <3>3, <4>1, ResetSectionType DEF RestartReset, Go, TypeOK, CallPc
      <4>2. CASE Go(c, "idle") /\ UNCHANGED <<control, count, next>>
        BY <3>3, <4>2 DEF RestartReset, Go, TypeOK, CallPc, control
      <4>3. QED
        BY <3>3, <4>1, <4>2 DEF RestartReset
    <3>4. CASE RestartStart(c)
      <4>1. 0 \in Delays \cup {0} /\ StartSection(0)
        BY <3>4 DEF RestartStart
      <4>2. QED
        BY <3>4, <4>1, StartSectionType DEF RestartStart, Go, TypeOK, CallPc
    <3>5. CASE PollIsRunning(c) \/ PollIsPaused(c)
      BY <3>5 DEF PollIsRunning, PollIsPaused, Go, TypeOK, CallPc, control
    <3>6. QED
      BY <2>4, <3>1, <3>2, <3>3, <3>4, <3>5 DEF CallStep
  <2>5. CASE UNCHANGED vars
    BY <2>5 DEF vars, TypeOK
  <2>6. QED
    BY <2>1, <2>2, <2>3, <2>4, <2>5 DEF Next
<1>3. QED
  BY <1>1, <1>2, PTL DEF Spec

-----------------------------------------------------------------------------
(* The safety invariants.  None of the first three is inductive alone: the  *)
(* worker leaves its loop on stop_requested_, and that this never strands an *)
(* active timer rests on FlagsAgree.                                         *)

IInv == TypeOK /\ FlagsAgree /\ CallbackOnlyWhileRunning /\ ActiveHasWorker

\* start()'s section preserves the invariant: it turns the timer on only with
\* a worker that is alive, new or paused.
LEMMA StartSectionSafe ==
    ASSUME IInv, MutexFree, NEW d, StartSection(d)
    PROVE  FlagsAgree' /\ CallbackOnlyWhileRunning' /\ ActiveHasWorker'
  <1>1. CASE UNCHANGED <<control, delay, wpc>>
    BY <1>1 DEF IInv, FlagsAgree, CallbackOnlyWhileRunning, ActiveHasWorker, Active, control
  <1>2. CASE /\ ~StartRefused /\ stopRequested' = FALSE /\ pauseRequested' = FALSE
             /\ state = "PAUSED" /\ state' = "RUNNING" /\ UNCHANGED wpc
    BY <1>2 DEF IInv, FlagsAgree, CallbackOnlyWhileRunning, ActiveHasWorker, Active
  <1>3. CASE /\ stopRequested' = FALSE /\ pauseRequested' = FALSE
             /\ StartThread
    BY <1>3 DEF IInv, FlagsAgree, CallbackOnlyWhileRunning, ActiveHasWorker, Active,
                StartThread, WorkerAlive, MutexFree
  <1>4. QED
    BY <1>1, <1>2, <1>3 DEF StartSection

\* The constructed timer satisfies the invariant.
LEMMA IInvInit == Init => IInv
  BY TypeInit
  DEF Init, IInv, FlagsAgree, CallbackOnlyWhileRunning, ActiveHasWorker, Active

\* Every step preserves the invariant.
LEMMA IInvStep ==
    ASSUME IInv, TypeOK', [Next]_vars
    PROVE  IInv'
<1> USE DEF FlagsAgree, CallbackOnlyWhileRunning, ActiveHasWorker, Active
<1> SUFFICES FlagsAgree' /\ CallbackOnlyWhileRunning' /\ ActiveHasWorker'
  BY DEF IInv
<1>1. CASE WorkerStep
  <2>1. CASE WBegin \/ WDelay \/ WInit \/ WTop \/ WWaitRunning
    BY <2>1
    DEF IInv, WBegin, WDelay, WInit, WTop, WWaitRunning, Worker, WorkerAlive, control
  <2>2. CASE WWaitDue
    BY <2>2 DEF IInv, WWaitDue, Worker, WorkerAlive
  <2>3. CASE WCallbackDone
    BY <2>3 DEF IInv, WCallbackDone, WorkerAlive
  <2>4. QED
    BY <1>1, <2>1, <2>2, <2>3 DEF WorkerStep
<1>2. CASE Tick
  BY <1>2 DEF IInv, Tick, control
<1>3. ASSUME NEW c \in Callers, CallBegin(c)
      PROVE  FlagsAgree' /\ CallbackOnlyWhileRunning' /\ ActiveHasWorker'
  <2>1. CASE \E p \in Params, d \in Delays : SetParameters(c, p, d)
    BY <2>1 DEF IInv, SetParameters, control
  <2>2. CASE \E d \in Delays : Start(c, d)
    BY <2>2, StartSectionSafe DEF Start
  <2>3. CASE Pause(c) \/ Resume(c)
    BY <2>3 DEF IInv, Pause, Resume, MutexFree
  <2>4. CASE Stop(c) \/ Restart(c)
    BY <2>4 DEF IInv, Stop, Restart, StopSection, MutexFree, control
  <2>5. CASE Reset(c)
    BY <2>5 DEF IInv, Reset, ResetSection, MutexFree
  <2>6. CASE \E pc \in {"wait", "timedWait"} : WaitForCompletion(c, pc)
    BY <2>6 DEF IInv, WaitForCompletion, control
  <2>7. QED
    BY <1>3, <2>1, <2>2, <2>3, <2>4, <2>5, <2>6 DEF CallBegin
<1>4. ASSUME NEW c \in Callers, CallStep(c)
      PROVE  FlagsAgree' /\ CallbackOnlyWhileRunning' /\ ActiveHasWorker'
  <2>1. CASE JoinOrReturn(c) \/ PollIsRunning(c) \/ PollIsPaused(c)
    BY <2>1 DEF IInv, JoinOrReturn, PollIsRunning, PollIsPaused, control
  <2>2. CASE Joined(c)
    BY <2>2 DEF IInv, Joined, WorkerAlive, control
  <2>3. CASE RestartReset(c)
    BY <2>3 DEF IInv, RestartReset, ResetSection, MutexFree, control
  <2>4. CASE RestartStart(c)
    BY <2>4, StartSectionSafe DEF RestartStart
  <2>5. QED
    BY <1>4, <2>1, <2>2, <2>3, <2>4 DEF CallStep
<1>5. CASE UNCHANGED vars
  BY <1>5 DEF IInv, vars
<1>6. QED
  BY <1>1, <1>2, <1>3, <1>4, <1>5 DEF Next

LEMMA Invariance == Spec => []IInv
<1>1. Init => IInv
  BY IInvInit
<1>2. IInv /\ TypeOK' /\ [Next]_vars => IInv'
  BY IInvStep
<1>3. QED
  BY <1>1, <1>2, TypeCorrect, PTL DEF Spec

\* The flags the worker reads without the mutex never contradict the state
\* the callers see under it.
THEOREM FlagsAlwaysAgree == Spec => []FlagsAgree
<1>1. IInv => FlagsAgree
  BY DEF IInv
<1>2. QED
  BY <1>1, Invariance, PTL

\* The callback never runs on a timer that is stopped, paused or in error.
THEOREM CallbackSafe == Spec => []CallbackOnlyWhileRunning
<1>1. IInv => CallbackOnlyWhileRunning
  BY DEF IInv
<1>2. QED
  BY <1>1, Invariance, PTL

\* A timer that looks active has a live worker, for any number of callers.
THEOREM ActiveAlwaysHasWorker == Spec => []ActiveHasWorker
<1>1. IInv => ActiveHasWorker
  BY DEF IInv
<1>2. QED
  BY <1>1, Invariance, PTL

-----------------------------------------------------------------------------
(* A stop is collected. *)

\* A stop once requested is withdrawn by a later start or reset, or ends with
\* the worker joined; it is never left to nobody.
THEOREM StopAlwaysCollected == Spec => []StopIsCollected
<1> DEFINE Collecting(c) == call[c] \in {"stopped", "rstopped", "joining", "rjoining"}
<1>1. Init => StopIsCollected
  BY DEF Init, StopIsCollected
<1>2. ASSUME IInv, StopIsCollected, [Next]_vars
      PROVE  StopIsCollected'
  <2> USE <1>2
  <2> SUFFICES ASSUME stopRequested'
               PROVE  wpc' = "none" \/ \E c \in Callers : Collecting(c)'
    BY DEF StopIsCollected
  <2>1. call \in [Callers -> CallPc]
    BY DEF IInv, TypeOK
  <2>2. CASE \E c \in Callers : Stop(c) \/ Restart(c)
    <3>1. PICK c \in Callers : Stop(c) \/ Restart(c)
      BY <2>2
    <3>2. CASE stopRequested
      BY <2>1, <3>1, <3>2 DEF StopIsCollected, Stop, Restart, StopSection, Go
    <3>3. CASE ~stopRequested
      BY <2>1, <3>1, <3>3 DEF Stop, Restart, StopSection, Go
    <3>4. QED
      BY <3>2, <3>3
  <2>3. CASE \E c \in Callers : JoinOrReturn(c)
    <3>1. PICK c \in Callers : JoinOrReturn(c)
      BY <2>3
    <3>2. CASE ~Joinable
      BY <3>1, <3>2 DEF JoinOrReturn, Joinable
    <3>3. CASE \E o \in Callers : call[o] \in {"joining", "rjoining"}
      <4>1. PICK o \in Callers : call[o] \in {"joining", "rjoining"}
        BY <3>3
      <4>2. o # c
        BY <3>1, <4>1 DEF JoinOrReturn
      <4>3. call'[o] = call[o]
        BY <2>1, <3>1, <4>2 DEF JoinOrReturn, Go
      <4>4. QED
        BY <4>1, <4>3
    <3>4. CASE Joinable /\ ~\E o \in Callers : call[o] \in {"joining", "rjoining"}
      <4>1. call'[c] \in {"joining", "rjoining"}
        BY <2>1, <3>1, <3>4 DEF JoinOrReturn, Go
      <4>2. QED
        BY <4>1
    <3>5. QED
      BY <3>2, <3>3, <3>4
  <2>4. CASE \E c \in Callers : Joined(c)
    BY <2>4 DEF Joined
  <2>5. CASE WorkerStep
    BY <2>5 DEF StopIsCollected, WorkerStep, WBegin, WDelay, WInit, WTop, WWaitRunning,
                WWaitDue, WCallbackDone, Worker, control
  <2>6. CASE Tick \/ UNCHANGED vars
    BY <2>6 DEF StopIsCollected, Tick, vars, control
  <2>7. ASSUME NEW c \in Callers, NEW p, NEW d,
               SetParameters(c, p, d) \/ Start(c, d) \/ Pause(c) \/ Resume(c) \/ Reset(c)
        PROVE  wpc' = "none" \/ \E o \in Callers : Collecting(o)'
    BY <2>7 DEF StopIsCollected, IInv, FlagsAgree, SetParameters, Start, StartSection,
                StartRefused, StartThread, Pause, Resume, Reset, ResetSection, control
  <2>8. ASSUME NEW c \in Callers,
               \/ RestartReset(c) \/ RestartStart(c)
               \/ PollIsRunning(c) \/ PollIsPaused(c)
               \/ \E pc \in {"wait", "timedWait"} : WaitForCompletion(c, pc)
        PROVE  wpc' = "none" \/ \E o \in Callers : Collecting(o)'
    <3>1. stopRequested /\ UNCHANGED wpc
      BY <2>8 DEF IInv, FlagsAgree, RestartReset, ResetSection, RestartStart, StartSection,
                  PollIsRunning, PollIsPaused, WaitForCompletion, control
    <3>2. \A o \in Callers : Collecting(o) => o # c /\ call'[o] = call[o]
      BY <2>1, <2>8 DEF RestartReset, RestartStart, PollIsRunning, PollIsPaused,
                        WaitForCompletion, Go
    <3>3. QED
      BY <3>1, <3>2 DEF StopIsCollected
  <2>9. ASSUME NEW c \in Callers, CallBegin(c)
        PROVE  wpc' = "none" \/ \E o \in Callers : Collecting(o)'
    BY <2>2, <2>7, <2>8, <2>9 DEF CallBegin
  <2>10. ASSUME NEW c \in Callers, CallStep(c)
         PROVE  wpc' = "none" \/ \E o \in Callers : Collecting(o)'
    BY <2>3, <2>4, <2>8, <2>10 DEF CallStep
  <2>11. QED
    BY <2>5, <2>6, <2>9, <2>10 DEF Next
<1>3. QED
  BY <1>1, <1>2, Invariance, PTL DEF Spec

-----------------------------------------------------------------------------
(* Refinement of the contract. *)

\* Outside the callback every change of the state is a change of the
\* contract's phase, or none.
LEMMA PhaseChange ==
    ASSUME IInv, MutexFree, wpc' # "callback",
           \/ UNCHANGED state
           \/ state' \in {"CREATED", "RUNNING", "STOPPED", "ERROR"}
           \/ state = "RUNNING" /\ state' = "PAUSED"
    PROVE  [Contract!Next]_(Contract!vars)
  BY DEF IInv, TypeOK, State, MutexFree, Contract!Next, Contract!vars, Contract!TurnOn,
         Contract!Hold, Contract!TurnOff, phaseOfState

\* The detailed timer, with its worker, flags, joins and time, implements the
\* contract: for any callers it fires only while on, and nothing else happens
\* while it fires.
THEOREM ImplementsContract == Spec => ContractSafety
<1>1. Init => Contract!Init
  BY DEF Init, Contract!Init, phaseOfState
<1>2. ASSUME IInv, [Next]_vars
      PROVE  [Contract!Next]_(Contract!vars)
  <2> USE <1>2
  <2>1. CASE WWaitDue
    <3>1. CASE wpc' = "callback"
      BY <2>1, <3>1 DEF IInv, WWaitDue, Worker, phaseOfState, Contract!Next, Contract!Fire
    <3>2. CASE wpc' # "callback"
      BY <2>1, <3>2, PhaseChange DEF IInv, FlagsAgree, WWaitDue, Worker, MutexFree
    <3>3. QED
      BY <3>1, <3>2
  <2>2. CASE WCallbackDone
    BY <2>2 DEF IInv, CallbackOnlyWhileRunning, WCallbackDone, phaseOfState,
                Contract!Next, Contract!FireEnds
  <2>3. CASE WBegin \/ WDelay \/ WInit \/ WTop \/ WWaitRunning
    BY <2>3, PhaseChange
    DEF WBegin, WDelay, WInit, WTop, WWaitRunning, Worker, MutexFree, control
  <2>4. CASE UNCHANGED <<state, wpc>>
    BY <2>4 DEF Contract!vars, phaseOfState
  <2>5. ASSUME NEW c \in Callers, NEW d, MutexFree,
               \/ Start(c, d) \/ Pause(c) \/ Resume(c) \/ Reset(c)
               \/ Stop(c) \/ Restart(c) \/ RestartReset(c) \/ RestartStart(c)
        PROVE  [Contract!Next]_(Contract!vars)
    <3>1. wpc' # "callback"
      BY <2>5 DEF MutexFree, Start, StartSection, StartThread, Pause, Resume, Reset, Stop,
                  Restart, StopSection, RestartReset, RestartStart
    <3>2. \/ UNCHANGED state
          \/ state' \in {"CREATED", "RUNNING", "STOPPED", "ERROR"}
          \/ state = "RUNNING" /\ state' = "PAUSED"
      BY <2>5 DEF Start, StartSection, StartThread, Pause, Resume, Reset, ResetSection, Stop,
                  Restart, StopSection, RestartReset, RestartStart, control
    <3>3. QED
      BY <2>5, <3>1, <3>2, PhaseChange
  <2>6. ASSUME NEW c \in Callers, Joined(c)
        PROVE  [Contract!Next]_(Contract!vars)
    BY <2>6 DEF Joined, control, Contract!vars, phaseOfState
  <2>7. ASSUME NEW c \in Callers, CallBegin(c)
        PROVE  [Contract!Next]_(Contract!vars)
    BY <2>4, <2>5, <2>7
    DEF CallBegin, SetParameters, WaitForCompletion, Start, Pause, Resume, Reset, Stop,
        Restart, StopSection, control
  <2>8. ASSUME NEW c \in Callers, CallStep(c)
        PROVE  [Contract!Next]_(Contract!vars)
    BY <2>4, <2>5, <2>6, <2>8
    DEF CallStep, JoinOrReturn, PollIsRunning, PollIsPaused, RestartReset, RestartStart, control
  <2>9. CASE Tick \/ UNCHANGED vars
    BY <2>4, <2>9 DEF Tick, vars, control
  <2>10. QED
    BY <2>1, <2>2, <2>3, <2>7, <2>8, <2>9 DEF Next, WorkerStep
<1>3. QED
  BY <1>1, <1>2, Invariance, PTL DEF Spec, ContractSafety, Contract!SafeSpec
-----------------------------------------------------------------------------
(* Spacing. *)

\* Ticks that a callback is away from the end of the last one, at least: while the
\* timer is active and the worker in its loop, an interval of some parameters.
Spaced == \E i \in Intervals : quiet >= i \/ next + quiet >= i
SpacedInv == wpc \in {"top", "waitRunning", "waitDue"} /\ Active => Spaced

LEMMA SpacedStep ==
    ASSUME "FIXED_RATE" \notin Modes, IInv, SpacedInv, [Next]_vars
    PROVE  SpacedInv'
<1> USE DEF SpacedInv, Active
<1>1. /\ Intervals \subseteq Nat /\ MaxLag \in Nat /\ MaxLead \in Nat
      /\ \A i \in Intervals : i <= MaxLead
      /\ next \in Epoch .. MaxLead /\ quiet \in 0 .. MaxLead
      /\ params.interval \in Intervals /\ params.mode # "FIXED_RATE"
  BY TimesAssumption, BoundsAssumption DEF IInv, TypeOK, Params
<1>2. CASE WInit \/ WCallbackDone
  <2>1. CASE next' = Following
    <3>1. next' = params.interval
      BY <1>1, <2>1 DEF Following
    <3>2. quiet' \in Nat /\ params.interval \in Nat
      <4>1. quiet \in Nat /\ params.interval \in Nat
        <5>1. params.interval \in Nat
          BY TimesAssumption DEF IInv, TypeOK, Params
        <5>2. quiet \in Nat
          BY TimesAssumption DEF IInv, TypeOK
        <5>3. QED
          BY <5>1, <5>2
      <4>2. quiet' = quiet \/ quiet' = 0
        BY <1>2 DEF WInit, WCallbackDone
      <4>3. QED
        BY <4>1, <4>2
    <3>3. next' + quiet' >= params.interval
      BY <3>1, <3>2
    <3>4. QED
      BY <1>1, <3>3 DEF Spaced
  <2>2. CASE next' # Following
    BY <1>2, <2>2 DEF WInit, WCallbackDone
  <2>3. QED
    BY <2>1, <2>2
<1>3. CASE Tick
  <2>1. UNCHANGED <<state, wpc>>
    BY <1>3 DEF Tick, control
  <2>2. ASSUME wpc \in {"top", "waitRunning", "waitDue"}, Active
        PROVE  Spaced'
    <3>1. PICK i \in Intervals : quiet >= i \/ next + quiet >= i
      BY <2>2 DEF Spaced
    <3>2. quiet' = AtMost(MaxLead, quiet + 1) /\ i \in Nat /\ i <= MaxLead
      BY <1>1, <1>3, <2>2 DEF Tick
    <3>3. CASE quiet' = MaxLead
      BY <3>2, <3>3, <1>1 DEF Spaced
    <3>4. CASE quiet' # MaxLead
      <4>1. quiet' = quiet + 1
        BY <1>1, <3>2, <3>4 DEF AtMost
      <4>2. CASE quiet >= i
        BY <1>1, <3>2, <4>1, <4>2 DEF Spaced
      <4>3. CASE next + quiet >= i /\ next = Epoch
        BY <1>1, <3>2, <4>1, <4>3 DEF Spaced, Epoch
      <4>4. CASE next + quiet >= i /\ next # Epoch
        <5>1. next' \in Int /\ next' >= next - 1
          BY <1>1, <1>3, <4>4 DEF Tick, AtLeast, Epoch
        <5>2. next' + quiet' >= i
          BY <1>1, <3>2, <4>1, <4>4, <5>1 DEF Epoch
        <5>3. QED
          BY <5>2 DEF Spaced
      <4>5. QED
        BY <3>1, <4>2, <4>3, <4>4
    <3>5. QED
      BY <3>3, <3>4
  <2>3. QED
    BY <2>1, <2>2
<1>4. CASE UNCHANGED <<next, quiet>>
            /\ (wpc' \in {"top", "waitRunning", "waitDue"} /\ Active'
                => wpc \in {"top", "waitRunning", "waitDue"} /\ Active)
  BY <1>4 DEF Spaced
<1>5. CASE ~Active' \/ wpc' \notin {"top", "waitRunning", "waitDue"}
  BY <1>5
<1>6. ASSUME WorkerStep, ~(WInit \/ WCallbackDone)
      PROVE  SpacedInv'
  BY <1>4, <1>5, <1>6
  DEF WorkerStep, WBegin, WDelay, WTop, WWaitRunning, WWaitDue, Worker, control, IInv,
      FlagsAgree
<1>7. ASSUME NEW d, StartSection(d), UNCHANGED <<next, quiet>>
      PROVE  SpacedInv'
  BY <1>4, <1>5, <1>7 DEF StartSection, StartThread, control
<1>8. ASSUME NEW c \in Callers, CallBegin(c)
      PROVE  SpacedInv'
  <2>1. CASE \E d \in Delays : Start(c, d)
    BY <1>7, <2>1 DEF Start
  <2>2. CASE Reset(c)
    BY <1>5, <2>2 DEF Reset, ResetSection
  <2>3. CASE Stop(c) \/ Restart(c)
    BY <1>4, <1>5, <2>3 DEF Stop, Restart, StopSection, control
  <2>4. CASE Pause(c) \/ Resume(c)
    BY <1>4, <2>4 DEF Pause, Resume
  <2>5. CASE \/ \E p \in Params, d \in Delays : SetParameters(c, p, d)
             \/ \E pc \in {"wait", "timedWait"} : WaitForCompletion(c, pc)
    BY <1>4, <2>5 DEF SetParameters, WaitForCompletion, control
  <2>6. QED
    BY <1>8, <2>1, <2>2, <2>3, <2>4, <2>5 DEF CallBegin
<1>9. ASSUME NEW c \in Callers, CallStep(c)
      PROVE  SpacedInv'
  <2>1. CASE RestartStart(c)
    BY <1>7, <2>1 DEF RestartStart
  <2>2. CASE RestartReset(c)
    BY <1>4, <1>5, <2>2 DEF RestartReset, ResetSection, control
  <2>3. CASE Joined(c)
    BY <1>5, <2>3 DEF Joined
  <2>4. CASE JoinOrReturn(c) \/ PollIsRunning(c) \/ PollIsPaused(c)
    BY <1>4, <2>4 DEF JoinOrReturn, PollIsRunning, PollIsPaused, control
  <2>5. QED
    BY <1>9, <2>1, <2>2, <2>3, <2>4 DEF CallStep
<1>10. CASE UNCHANGED vars
  BY <1>4, <1>10 DEF vars
<1>11. QED
  BY <1>2, <1>3, <1>6, <1>8, <1>9, <1>10 DEF Next

\* Without FIXED_RATE callbacks keep an interval's distance, for any number of
\* callers, whatever they do to the timer between two of them.
THEOREM CallbacksSpaced ==
    ASSUME "FIXED_RATE" \notin Modes
    PROVE  Spec => Spacing
<1>1. Init => SpacedInv
  BY DEF Init, SpacedInv
<1>2. IInv /\ SpacedInv /\ [Next]_vars => SpacedInv'
  BY SpacedStep
<1>3. IInv /\ SpacedInv /\ [Next]_vars
      => [wpc # "callback" /\ wpc' = "callback" => \E i \in Intervals : quiet >= i]_vars
  <2> SUFFICES ASSUME IInv, SpacedInv, Next, wpc # "callback", wpc' = "callback"
               PROVE  \E i \in Intervals : quiet >= i
    OBVIOUS
  <2>1. WWaitDue
    BY DEF Next, WorkerStep, WBegin, WDelay, WInit, WTop, WWaitRunning, WCallbackDone, Worker,
           Tick, CallBegin, CallStep, SetParameters, Start, StartSection, StartThread, Pause,
           Resume, Stop, Restart, StopSection, Reset, WaitForCompletion, JoinOrReturn, Joined,
           RestartReset, RestartStart, PollIsRunning, PollIsPaused
  <2>2. wpc = "waitDue" /\ state = "RUNNING" /\ next <= 0
    BY <2>1 DEF WWaitDue, Worker
  <2>3. PICK i \in Intervals : quiet >= i \/ next + quiet >= i
    BY <2>2 DEF SpacedInv, Spaced, Active
  <2>4. i \in Nat /\ next \in Int /\ quiet \in Int
    BY TimesAssumption DEF IInv, TypeOK, Epoch
  <2>5. quiet >= i
    BY <2>2, <2>3, <2>4
  <2>6. QED
    BY <2>5
<1>4. QED
  BY <1>1, <1>2, <1>3, Invariance, PTL DEF Spec, Spacing
-----------------------------------------------------------------------------
(* One caller. *)

\* A restart() that has got as far as its reset has collected the worker.
RestartInv ==
    \A c \in Callers :
        /\ call[c] \in {"rreset", "rstart"} => wpc = "none"
        /\ call[c] = "rstart" => state = "CREATED"

LEMMA RestartStep ==
    ASSUME NEW me, Callers = {me}, IInv, StopIsCollected, RestartInv, [Next]_vars
    PROVE  RestartInv'
<1> USE DEF RestartInv
<1>1. call \in [{me} -> CallPc] /\ me \in Callers
  BY DEF IInv, TypeOK
<1>2. CASE WorkerStep
  <2>1. wpc # "none" /\ call' = call
    BY <1>2 DEF WorkerStep, WBegin, WDelay, WInit, WTop, WWaitRunning, WWaitDue,
                WCallbackDone, Worker
  <2>2. QED
    BY <2>1
<1>3. CASE Tick \/ UNCHANGED vars
  BY <1>3 DEF Tick, vars, control
<1>4. CASE CallBegin(me)
  <2>1. call[me] = "idle" /\ (call'[me] \in {"rreset", "rstart"} => Restart(me))
    BY <1>1, <1>4 DEF CallBegin, SetParameters, Start, Pause, Resume, Stop, Restart,
                      StopSection, Reset, WaitForCompletion, Go
  <2>2. CASE Restart(me)
    <3>1. call'[me] \in {"rreset", "rstart"} => stopRequested /\ wpc' = wpc /\ call'[me] = "rreset"
      BY <1>1, <2>1, <2>2 DEF Restart, StopSection, Go
    <3>2. stopRequested => wpc = "none"
      BY <1>1, <2>1 DEF StopIsCollected
    <3>3. QED
      BY <1>1, <3>1, <3>2
  <2>3. QED
    BY <2>1, <2>2
<1>5. CASE JoinOrReturn(me) \/ Joined(me)
  BY <1>1, <1>5 DEF JoinOrReturn, Joined, Joinable, Go
<1>6. CASE RestartReset(me) \/ RestartStart(me) \/ PollIsRunning(me) \/ PollIsPaused(me)
  BY <1>1, <1>6
  DEF RestartReset, ResetSection, RestartStart, PollIsRunning, PollIsPaused, Go
<1>7. QED
  BY <1>2, <1>3, <1>4, <1>5, <1>6 DEF Next, CallStep

\* The only caller's restart() gets a new worker and leaves the timer RUNNING: it
\* never meets a thread that is still there, provided threads can be made.
THEOREM OneCallerRestarts ==
    ASSUME NEW me, Callers = {me}, SpawnResults = {"SUCCESS"}
    PROVE  Spec => RestartSucceeds
<1>1. Init => RestartInv
  BY DEF Init, RestartInv
<1>2. IInv /\ StopIsCollected /\ RestartInv /\ [Next]_vars => RestartInv'
  BY RestartStep
<1>3. IInv /\ RestartInv /\ [Next]_vars
      => [\A c \in Callers : call[c] = "rstart" /\ call[c]' = "idle" /\ params.callback
            => state' = "RUNNING" /\ wpc' = "begin"]_vars
  <2> SUFFICES ASSUME IInv, RestartInv, Next, NEW c \in Callers,
                      call[c] = "rstart", call[c]' = "idle", params.callback
               PROVE  state' = "RUNNING" /\ wpc' = "begin"
    OBVIOUS
  <2>1. wpc = "none" /\ state = "CREATED" /\ c = me
    BY DEF RestartInv
  <2>2. RestartStart(c)
    BY <2>1
    DEF Next, WorkerStep, WBegin, WDelay, WInit, WTop, WWaitRunning, WWaitDue,
        WCallbackDone, Worker, Tick, CallBegin, CallStep, SetParameters, Start, Pause, Resume,
        Stop, Restart, StopSection, Reset, WaitForCompletion, JoinOrReturn, Joined,
        RestartReset, PollIsRunning, PollIsPaused
  <2>3. QED
    BY <2>1, <2>2 DEF RestartStart, StartSection, StartRefused, StartThread, Joinable
<1>4. QED
  BY <1>1, <1>2, <1>3, Invariance, StopAlwaysCollected, PTL DEF Spec, RestartSucceeds
=============================================================================

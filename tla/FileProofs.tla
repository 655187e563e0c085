------------------------------ MODULE FileProofs ------------------------------
(***************************************************************************)
(* Proofs about ElogFile: whatever number of processes race to create the  *)
(* semaphore, write, rotate, end and are killed, the semaphore excludes    *)
(* and shuts nobody out while no wait for it is interrupted, no file       *)
(* outgrows its limit while the files can be opened, and the files of      *)
(* processes that follow each other are the latest lines, in order.        *)
(***************************************************************************)
EXTENDS ElogFile, Induction, SequenceTheorems

Ranks == {"fine", "failed", "shared", "skipped", "unlocked", "interrupted"}

SemTypes ==
    /\ semMade \in BOOLEAN /\ semRaised \in BOOLEAN
    /\ sem \in Nat /\ adj \in [Processes -> Int]
    /\ semid \in [Processes -> BOOLEAN] /\ life \in [Processes -> Lives]
    /\ pc \in [Threads -> {"idle", "lock"} \cup Section]
    /\ past \in Ranks

\* Only the creator can raise the semaphore, and it does so once.
Creation ==
    /\ semRaised => semMade
    /\ \A p \in Processes : life[p] = "created" => semMade /\ ~semRaised
    /\ \A p, q \in Processes : life[p] = "created" /\ life[q] = "created" => p = q

\* A process uses the semaphore only after it has been raised, and does without
\* it only if it gave up waiting for that.
Use ==
    /\ \A p \in Processes : semid[p] => semRaised /\ life[p] \in {"config", "up"}
    /\ past \notin {"unlocked", "interrupted"} =>
         \A p \in Processes : life[p] \in {"config", "up"} => semid[p]

InsideIsUp == \A t \in Threads : pc[t] # "idle" => life[t[1]] = "up"

\* The value of the semaphore tells whether it is held, and semadj who holds it.
Value ==
    past # "interrupted" =>
        /\ \A t, u \in Threads : Holds(t) /\ Holds(u) => t = u
        /\ IF semRaised THEN sem = (IF \E t \in Threads : Holds(t) THEN 0 ELSE 1)
                        ELSE sem = 0
        /\ \A p \in Processes :
              adj[p] = IF \E t \in Threads : t[1] = p /\ Holds(t) THEN 1 ELSE 0

SemInv == SemTypes /\ Creation /\ Use /\ InsideIsUp /\ Value

\* The threads are threads of the processes.
LEMMA ThreadOfProcess == \A t \in Threads : t[1] \in Processes
BY FileAssumption

\* The history of what has gone wrong only gets worse.
Worse ==
    /\ past' \in Ranks
    /\ past' # "interrupted" => past # "interrupted"
    /\ past' \notin {"unlocked", "interrupted"} => past \notin {"unlocked", "interrupted"}
    /\ past' \in {"fine", "failed", "shared"} => past \in {"fine", "failed", "shared"}
    /\ past' \in {"fine", "failed"} => past \in {"fine", "failed"}
    /\ past' = "fine" => past = "fine"

LEMMA PastWorsens ==
    ASSUME past \in Ranks, NEW what \in Ranks, Happens(what)
    PROVE  /\ Worse
           /\ what = "interrupted" => past' = "interrupted"
           /\ what = "unlocked" => past' \in {"unlocked", "interrupted"}
           /\ what = "skipped" => past' \notin {"fine", "failed", "shared"}
           /\ what = "failed" => past' # "fine"
BY DEF Happens, Rank, Ranks, Worse

LEMMA StepWorsens ==
    ASSUME SemTypes, [Next]_vars
    PROVE  Worse
<1>1. CASE UNCHANGED past
  BY <1>1 DEF Worse, SemTypes
<1>2. ASSUME NEW what \in Ranks, Happens(what)
      PROVE  Worse
  BY <1>2, PastWorsens DEF SemTypes
<1>3. ASSUME NEW what \in Ranks, NEW c \in BOOLEAN, HappensIf(c, what)
      PROVE  Worse
  BY <1>1, <1>2, <1>3 DEF HappensIf
<1>4. \A p \in Processes : End(p) => UNCHANGED past \/ Happens("failed")
  BY DEF End, HappensIf
<1>5. ASSUME NEW p \in Processes, Start(p) \/ Config(p) \/ Deinit(p) \/ Kill(p)
      PROVE  \/ UNCHANGED past \/ Happens("failed") \/ Happens("shared")
             \/ Happens("unlocked") \/ Happens("interrupted")
  <2>1. CASE Start(p)
    BY <2>1 DEF Start, CreateSem, RaiseSem, OpenSem, GiveUpSem, history
  <2>2. CASE Config(p)
    BY <2>2 DEF Config, Configure, ConfigureInterrupted, ConfigInterrupted, ConfigureFails,
       HappensIf
  <2>3. CASE Deinit(p)
    BY <2>3 DEF Deinit, ConfigInterrupted
  <2>4. CASE Kill(p)
    BY <1>4, <2>4 DEF Kill
  <2>5. QED
    BY <1>5, <2>1, <2>2, <2>3, <2>4
<1>6. ASSUME NEW t \in Threads, Call(t) \/ WriteStep(t)
      PROVE  UNCHANGED past \/ Happens("failed") \/ Happens("skipped") \/ Happens("interrupted")
  <2>1. CASE WriteToNull(t) \/ ReopenCrashes(t)
    BY <1>4, <2>1, ThreadOfProcess DEF WriteToNull, ReopenCrashes
  <2>2. CASE Call(t) \/ Lock(t) \/ LockInterrupted(t) \/ Write(t)
    BY <2>2 DEF Call, Lock, LockInterrupted, Write, history
  <2>3. CASE BeginRotation(t) \/ RotateOne(t) \/ RotateSkips(t) \/ RenameFails(t)
    BY <2>3 DEF BeginRotation, RotateOne, RotateSkips, RenameFails, history
  <2>4. CASE Reopen(t) \/ ReopenDropping(t) \/ ReopenFails(t)
    BY <2>4 DEF Reopen, ReopenDropping, ReopenFails, history
  <2>5. QED
    BY <1>6, <2>1, <2>2, <2>3, <2>4 DEF WriteStep
<1>7. {"failed", "shared", "skipped", "unlocked", "interrupted"} \subseteq Ranks
  BY DEF Ranks
<1>8. QED
  BY <1>1, <1>2, <1>5, <1>6, <1>7 DEF Next, vars, history

-----------------------------------------------------------------------------
(* The steps of a process that has no thread inside elog_file_write. *)

LEMMA StartKeeps ==
    ASSUME SemInv, Worse, NEW p \in Processes, Start(p)
    PROVE  SemInv'
<1> USE ThreadOfProcess
<1> USE DEF SemInv, Live, files, semaphore, history, Lives, Section
<1>1. CASE CreateSem(p)
  <2> USE <1>1 DEF CreateSem
  <2>1. SemTypes' /\ Creation'
    BY DEF SemTypes, Creation
  <2>2. Use' /\ InsideIsUp' /\ Value'
    BY DEF SemTypes, Use, InsideIsUp, Value, Holds
  <2>3. QED
    BY <2>1, <2>2
<1>2. CASE RaiseSem(p)
  <2> USE <1>2 DEF RaiseSem
  <2>1. SemTypes' /\ Creation'
    BY DEF SemTypes, Creation
  <2>2. Use' /\ InsideIsUp'
    BY DEF SemTypes, Creation, Use, InsideIsUp
  <2>3. \A t \in Threads : ~Holds(t)' /\ ~Holds(t)
    BY DEF SemTypes, Creation, Use, InsideIsUp, Holds
  <2>4. Value'
    BY <2>3 DEF Value
  <2>5. QED
    BY <2>1, <2>2, <2>4
<1>3. CASE OpenSem(p)
  <2> USE <1>3 DEF OpenSem
  <2>1. SemTypes' /\ Creation'
    BY DEF SemTypes, Creation
  <2>2. Use' /\ InsideIsUp'
    BY DEF SemTypes, Use, InsideIsUp
  <2>3. \A t \in Threads : Holds(t)' <=> Holds(t)
    BY DEF SemTypes, InsideIsUp, Holds
  <2>4. Value'
    BY <2>3 DEF Value
  <2>5. QED
    BY <2>1, <2>2, <2>4
<1>4. CASE GiveUpSem(p)
  <2> USE <1>4 DEF GiveUpSem
  <2>1. past' \in {"unlocked", "interrupted"} /\ past' \in Ranks
    <3>1. "unlocked" \in Ranks
      BY DEF Ranks
    <3>2. QED
      BY <3>1, PastWorsens DEF SemTypes, Worse
  <2>2. SemTypes' /\ Creation'
    BY <2>1 DEF SemTypes, Creation
  <2>3. Use' /\ InsideIsUp'
    BY <2>1 DEF SemTypes, Use, InsideIsUp
  <2>4. Value'
    BY DEF Value, Holds, Worse
  <2>5. QED
    BY <2>2, <2>3, <2>4
<1>5. QED
  BY <1>1, <1>2, <1>3, <1>4 DEF Start

\* elog_file_config's lock leaves the semaphore as it was, or the wait for it is
\* interrupted.
LEMMA ConfigLock ==
    ASSUME SemInv, Worse, NEW p \in Processes,
           ConfigLocked(p) \/ ConfigInterrupted(p), UNCHANGED semRaised,
           \A t \in Threads : Holds(t)' <=> Holds(t)
    PROVE  Value' /\ sem' \in Nat /\ adj' \in [Processes -> Int]
<1>1. CASE ConfigLocked(p)
  BY <1>1 DEF SemInv, SemTypes, Value, Worse, ConfigLocked
<1>2. CASE ConfigInterrupted(p)
  <2>1. past' = "interrupted"
    <3>1. "interrupted" \in Ranks
      BY DEF Ranks
    <3>2. QED
      BY <1>2, <3>1, PastWorsens DEF SemInv, SemTypes, ConfigInterrupted
  <2>2. QED
    BY <1>2, <2>1 DEF SemInv, SemTypes, Value, ConfigInterrupted, Semop
<1>3. QED
  BY <1>1, <1>2

LEMMA ConfigKeeps ==
    ASSUME SemInv, Worse, NEW p \in Processes, Config(p) \/ Deinit(p)
    PROVE  SemInv'
<1> USE ThreadOfProcess
<1>1. /\ ConfigLocked(p) \/ ConfigInterrupted(p)
      /\ UNCHANGED <<semMade, semRaised, pc>>
  BY DEF Config, Configure, ConfigureInterrupted, ConfigureFails, Deinit
<1>2. \/ life[p] = "config" /\ life' = [life EXCEPT ![p] = "up"] /\ semid' = semid
      \/ /\ life[p] = "up" /\ life' = [life EXCEPT ![p] = "down"]
         /\ semid' = [semid EXCEPT ![p] = FALSE]
         /\ \A t \in Threads : t[1] = p => pc[t] = "idle"
  BY DEF Config, Configure, ConfigureInterrupted, ConfigureFails, Deinit, Live
<1>3. \A t \in Threads : Holds(t)' <=> Holds(t)
  BY <1>1, <1>2 DEF SemInv, SemTypes, InsideIsUp, Holds, Section
<1>4. Value' /\ sem' \in Nat /\ adj' \in [Processes -> Int]
  BY <1>1, <1>3, ConfigLock
<1>5. SemTypes' /\ Creation'
  BY <1>1, <1>2, <1>4 DEF SemInv, SemTypes, Creation, Worse, Lives
<1>6. Use' /\ InsideIsUp'
  BY <1>1, <1>2 DEF SemInv, SemTypes, Use, InsideIsUp, Worse
<1>7. QED
  BY <1>4, <1>5, <1>6 DEF SemInv

-----------------------------------------------------------------------------
(* The steps inside elog_file_write. *)

\* A step that neither takes nor gives back the semaphore.
LEMMA InsideKeeps ==
    ASSUME SemInv, Worse, NEW t \in Threads, UNCHANGED <<semaphore, semid, life>>,
           \/ Call(t) \/ BeginRotation(t) \/ RotateOne(t) \/ RotateSkips(t) \/ RenameFails(t)
    PROVE  SemInv'
<1> USE ThreadOfProcess
<1> USE DEF SemInv, semaphore, Lives
<1>1. PICK to \in {"lock"} \cup Section :
        /\ pc' = [pc EXCEPT ![t] = to]
        /\ IF to = "lock" THEN pc[t] = "idle" /\ life[t[1]] = "up" ELSE pc[t] \in Section
  BY DEF Call, BeginRotation, RotateOne, RotateSkips, RenameFails, Step, Section
<1>2. SemTypes' /\ Creation'
  BY <1>1 DEF SemTypes, Creation, Section, Worse
<1>3. Use' /\ InsideIsUp'
  BY <1>1 DEF SemTypes, Use, InsideIsUp, Section, Worse
<1>4. \A u \in Threads : Holds(u)' <=> Holds(u)
  BY <1>1 DEF SemTypes, Holds, Section
<1>5. Value'
  BY <1>4 DEF Value, Worse
<1>6. QED
  BY <1>2, <1>3, <1>5

LEMMA LockKeeps ==
    ASSUME SemInv, Worse, NEW t \in Threads, Lock(t) \/ LockInterrupted(t)
    PROVE  SemInv'
<1> USE ThreadOfProcess
<1>1. /\ pc[t] = "lock" /\ pc' = [pc EXCEPT ![t] = "write"]
      /\ UNCHANGED <<semMade, semRaised, semid, life>>
  BY DEF Lock, LockInterrupted, Step, semaphore
<1>2. sem' \in Nat /\ adj' \in [Processes -> Int]
  BY DEF Lock, LockInterrupted, semaphore, Semop, SemInv, SemTypes
<1>3. SemTypes' /\ Creation'
  BY <1>1, <1>2 DEF SemInv, SemTypes, Creation, Worse, Section
<1>4. Use' /\ InsideIsUp'
  BY <1>1 DEF SemInv, SemTypes, Use, InsideIsUp, Worse
<1>5. \A u \in Threads : Holds(u)' <=> Holds(u) \/ (u = t /\ semid[t[1]])
  BY <1>1 DEF SemInv, SemTypes, Holds, Section
<1>6. CASE past' = "interrupted"
  BY <1>3, <1>4, <1>6 DEF SemInv, Value
<1>7. CASE past' # "interrupted"
  <2>1. Lock(t)
    <3>1. "interrupted" \in Ranks
      BY DEF Ranks
    <3>2. QED
      BY <1>7, <3>1, PastWorsens DEF LockInterrupted, SemInv, SemTypes
  <2>2. Value
    BY DEF SemInv
  <2>3. past # "interrupted"
    BY <1>7 DEF Worse
  <2>4. CASE semid[t[1]]
    <3>1. /\ semRaised /\ sem > 0 /\ sem' = sem - 1
          /\ adj' = [adj EXCEPT ![t[1]] = @ + 1]
      <4>1. adj[t[1]] \in Int /\ adj[t[1]] - (-1) = adj[t[1]] + 1
        BY DEF SemInv, SemTypes
      <4>2. sem + (-1) = sem - 1
        BY DEF SemInv, SemTypes
      <4>3. QED
        BY <2>1, <2>4, <4>1, <4>2 DEF Lock, Semop, SemInv, Use
    <3>2. \A u \in Threads : ~Holds(u)
      BY <2>2, <2>3, <3>1 DEF Value
    <3>3. sem' = 0 /\ semRaised' /\ \A u \in Threads : Holds(u)' <=> u = t
      BY <1>1, <1>5, <2>2, <2>3, <2>4, <3>1, <3>2 DEF Value
    <3>4. \A p \in Processes : adj[p] = 0
      BY <2>2, <2>3, <3>2 DEF Value
    <3>5. \A p \in Processes : adj'[p] = IF p = t[1] THEN 1 ELSE 0
      BY <3>1, <3>4 DEF SemInv, SemTypes
    <3>6. Value'
      BY <3>3, <3>5 DEF Value
    <3>7. QED
      BY <1>3, <1>4, <3>6 DEF SemInv
  <2>5. CASE ~semid[t[1]]
    <3>1. UNCHANGED <<sem, adj>> /\ \A u \in Threads : Holds(u)' <=> Holds(u)
      BY <1>5, <2>1, <2>5 DEF Lock
    <3>2. Value'
      BY <1>1, <2>2, <2>3, <3>1 DEF Value
    <3>3. QED
      BY <1>3, <1>4, <3>2 DEF SemInv
  <2>6. QED
    BY <2>4, <2>5
<1>8. QED
  BY <1>6, <1>7

LEMMA LeaveKeeps ==
    ASSUME SemInv, Worse, NEW t \in Threads,
           Write(t) \/ Reopen(t) \/ ReopenDropping(t) \/ ReopenFails(t)
    PROVE  SemInv'
<1> USE ThreadOfProcess
<1>1. /\ pc[t] \in Section /\ pc' = [pc EXCEPT ![t] = "idle"]
      /\ Unlock(t)
      /\ UNCHANGED <<semMade, semRaised, semid, life>>
  BY DEF Write, Reopen, ReopenDropping, ReopenFails, Step, Section
<1>2. \A u \in Threads : Holds(u)' <=> Holds(u) /\ u # t
  BY <1>1 DEF SemInv, SemTypes, Holds, Section
<1>3. Holds(t) <=> semid[t[1]]
  BY <1>1 DEF Holds
<1>4. sem' \in Nat /\ adj' \in [Processes -> Int]
  BY <1>1 DEF Unlock, Semop, SemInv, SemTypes
<1>5. SemTypes' /\ Creation'
  BY <1>1, <1>4 DEF SemInv, SemTypes, Creation, Worse
<1>6. Use' /\ InsideIsUp'
  BY <1>1 DEF SemInv, SemTypes, Use, InsideIsUp, Worse
<1>7. ASSUME past' # "interrupted" PROVE Value'
  <2>1. Value /\ past # "interrupted"
    BY <1>7 DEF SemInv, Worse
  <2>2. CASE semid[t[1]]
    <3>1. semRaised /\ sem = 0 /\ sem' = 1
      BY <1>1, <1>3, <2>1, <2>2 DEF Value, SemInv, Use, Unlock, Semop
    <3>2. \A u \in Threads : (Holds(u) <=> u = t) /\ ~Holds(u)'
      BY <1>2, <1>3, <2>1, <2>2 DEF Value
    <3>3. \A p \in Processes : adj[p] = IF p = t[1] THEN 1 ELSE 0
      BY <2>1, <3>2 DEF Value
    <3>4. \A p \in Processes : adj'[p] = 0
      BY <1>1, <2>2, <3>3 DEF Unlock, Semop, SemInv, SemTypes
    <3>5. QED
      BY <1>1, <3>1, <3>2, <3>4 DEF Value
  <2>3. CASE ~semid[t[1]]
    <3>1. UNCHANGED <<sem, adj>> /\ \A u \in Threads : Holds(u)' <=> Holds(u)
      BY <1>1, <1>2, <1>3, <2>3 DEF Unlock
    <3>2. QED
      BY <1>1, <2>1, <3>1 DEF Value
  <2>4. QED
    BY <2>2, <2>3
<1>8. Value'
  BY <1>7 DEF Value
<1>9. QED
  BY <1>5, <1>6, <1>8 DEF SemInv

\* A process that ends gives back what it holds.
LEMMA EndKeeps ==
    ASSUME SemInv, Worse, NEW p \in Processes, End(p)
    PROVE  SemInv'
<1> USE ThreadOfProcess
<1>1. /\ life' = [life EXCEPT ![p] = "down"] /\ semid' = [semid EXCEPT ![p] = FALSE]
      /\ pc' = [t \in Threads |-> IF t[1] = p THEN "idle" ELSE pc[t]]
      /\ sem' = (IF sem + adj[p] < 0 THEN 0 ELSE sem + adj[p])
      /\ adj' = [adj EXCEPT ![p] = 0]
      /\ UNCHANGED <<semMade, semRaised>>
  BY DEF End, Undo
<1>2. \A u \in Threads : Holds(u)' <=> Holds(u) /\ u[1] # p
  BY <1>1 DEF SemInv, SemTypes, Holds, Section
<1>3. SemTypes' /\ Creation'
  <2>1. sem' \in Nat /\ adj' \in [Processes -> Int]
    BY <1>1 DEF SemInv, SemTypes
  <2>2. QED
    BY <1>1, <2>1 DEF SemInv, SemTypes, Creation, Worse, Lives, Section
<1>4. Use' /\ InsideIsUp'
  BY <1>1 DEF SemInv, SemTypes, Use, InsideIsUp, Worse
<1>5. ASSUME past' # "interrupted" PROVE Value'
  <2>1. Value /\ past # "interrupted"
    BY <1>5 DEF SemInv, Worse
  <2>2. CASE \E t \in Threads : t[1] = p /\ Holds(t)
    <3>1. PICK t \in Threads : t[1] = p /\ Holds(t)
      BY <2>2
    <3>2. semRaised /\ sem = 0 /\ adj[p] = 1
      BY <2>1, <3>1 DEF Value, SemInv, Use, Holds
    <3>3. \A u \in Threads : (Holds(u) => u = t) /\ ~Holds(u)'
      BY <1>2, <2>1, <3>1 DEF Value
    <3>4. sem' = 1 /\ semRaised'
      BY <1>1, <3>2
    <3>5. \A q \in Processes : adj'[q] = 0
      BY <1>1, <2>1, <3>1, <3>3 DEF Value, SemInv, SemTypes
    <3>6. QED
      BY <3>3, <3>4, <3>5 DEF Value
  <2>3. CASE ~\E t \in Threads : t[1] = p /\ Holds(t)
    <3>1. \A u \in Threads : Holds(u)' <=> Holds(u)
      BY <1>2, <2>3
    <3>2. adj[p] = 0
      BY <2>1, <2>3 DEF Value
    <3>3. sem' = sem /\ adj' = adj /\ semRaised' = semRaised
      BY <1>1, <3>2 DEF SemInv, SemTypes
    <3>4. QED
      BY <2>1, <3>1, <3>3 DEF Value
  <2>4. QED
    BY <2>2, <2>3
<1>6. Value'
  BY <1>5 DEF Value
<1>7. QED
  BY <1>3, <1>4, <1>6 DEF SemInv

-----------------------------------------------------------------------------
LEMMA SemInvariant == Spec => []SemInv
<1>1. ASSUME Init PROVE SemInv
  <2> USE <1>1, ThreadOfProcess DEF Init
  <2>1. \A t \in Threads : ~Holds(t)
    BY DEF Holds, Section
  <2>2. Value
    BY <2>1 DEF Value
  <2>3. SemTypes
    <3>1. [t \in Threads |-> "idle"] \in [Threads -> {"idle", "lock"} \cup Section]
      OBVIOUS
    <3>2. [p \in Processes |-> 0] \in [Processes -> Int]
      OBVIOUS
    <3> QED BY <3>1, <3>2 DEF SemTypes, Lives, Ranks
  <2>4. Creation /\ Use /\ InsideIsUp
    BY DEF Creation, Use, InsideIsUp
  <2>5. QED
    BY <2>2, <2>3, <2>4 DEF SemInv
<1>2. ASSUME SemInv, [Next]_vars PROVE SemInv'
  <2> USE <1>2
  <2>0. Worse
    BY StepWorsens DEF SemInv
  <2>1. CASE \E p \in Processes : Start(p)
    BY <2>0, <2>1, StartKeeps
  <2>2. CASE \E p \in Processes : Config(p) \/ Deinit(p)
    BY <2>0, <2>2, ConfigKeeps
  <2>3. CASE \E p \in Processes : Kill(p)
    BY <2>0, <2>3, EndKeeps DEF Kill
  <2>4. ASSUME NEW t \in Threads, Call(t) \/ WriteStep(t) PROVE SemInv'
    <3>1. CASE Call(t) \/ BeginRotation(t) \/ RotateOne(t) \/ RotateSkips(t) \/ RenameFails(t)
      <4>1. UNCHANGED <<semaphore, semid, life>>
        BY <3>1 DEF Call, BeginRotation, RotateOne, RotateSkips, RenameFails
      <4>2. QED
        BY <2>0, <3>1, <4>1, InsideKeeps
    <3>2. CASE Lock(t) \/ LockInterrupted(t)
      BY <2>0, <3>2, LockKeeps
    <3>3. CASE Write(t) \/ Reopen(t) \/ ReopenDropping(t) \/ ReopenFails(t)
      BY <2>0, <3>3, LeaveKeeps
    <3>4. CASE WriteToNull(t) \/ ReopenCrashes(t)
      BY <2>0, <3>4, ThreadOfProcess, EndKeeps DEF WriteToNull, ReopenCrashes
    <3>5. QED
      BY <2>4, <3>1, <3>2, <3>3, <3>4 DEF WriteStep
  <2>5. CASE UNCHANGED vars
    BY <2>5 DEF vars, semaphore, history, SemInv, SemTypes, Creation, Use,
       InsideIsUp, Value, Holds
  <2>6. QED
    BY <2>1, <2>2, <2>3, <2>4, <2>5 DEF Next
<1>3. QED
  BY <1>1, <1>2, PTL DEF Spec

\* However processes race to create the semaphore, start, end and are killed, for
\* any number of them and of their threads: while no wait for the semaphore is
\* interrupted, who uses it is alone in elog_file_write's section, and it is up when
\* nobody is inside.
THEOREM SemaphoreExcludes == Spec => []Exclusive
<1>1. SemInv => Exclusive
  <2> SUFFICES ASSUME SemInv PROVE Exclusive
    OBVIOUS
  <2>1. \A t \in Threads :
           pc[t] \in Section /\ past \notin {"unlocked", "interrupted"} => Holds(t)
    BY ThreadOfProcess DEF SemInv, InsideIsUp, Use, Holds, Section
  <2>2. past # "interrupted" =>
           \A p \in Processes : semid[p] => (sem = 1 <=> ~\E t \in Threads : Holds(t))
    BY DEF SemInv, Use, Value
  <2>3. QED
    BY <2>1, <2>2 DEF SemInv, Value, Exclusive
<1>2. QED
  BY <1>1, SemInvariant, PTL

-----------------------------------------------------------------------------
(* SizeBounded. *)

Entries == Inodes \cup {NoFile}
FileTypes ==
    /\ dir \in [Positions -> Entries] /\ fp \in [Processes -> Entries]
    /\ lines \in [Inodes -> Seq(Nat)]
    /\ rot \in [Threads -> 0 .. Rotations - 1]
    /\ written \in Nat

\* What nothing refers to is empty, and whoever is to open the log again finds no
\* file in the first place of the directory: nobody has opened one meanwhile.
FileInv ==
    /\ FileTypes
    /\ \A i \in Unused : lines[i] = <<>>
    /\ \A p \in Processes : life[p] # "up" => fp[p] = NoFile
    /\ past \in {"fine", "failed", "shared"} =>
         /\ \A i \in Inodes : Len(lines[i]) <= MaxSize + 1
         /\ \A t \in Threads : pc[t] = "reopen" => dir[0] = NoFile

\* The values of a function on a finite set are no more than its elements.
LEMMA Values ==
    ASSUME NEW S, IsFiniteSet(S), NEW f, DOMAIN f = S
    PROVE  LET T == {f[x] : x \in S}
           IN  IsFiniteSet(T) /\ Cardinality(T) <= Cardinality(S)
<1> DEFINE T == {f[x] : x \in S}
           g == [x \in S |-> f[x]]
<1>1. g \in Surjection(S, T)
  BY DEF Surjection
<1>2. QED
  BY <1>1, FS_Surjection

\* There are enough inodes: when the log has no file, one is free for it.
LEMMA RoomForFile ==
    ASSUME FileTypes, dir[0] = NoFile
    PROVE  AnUnused \in Unused /\ AnUnused \in Inodes
<1> DEFINE D == {dir[k] : k \in Positions \ {0}}
           F == {fp[p] : p \in Processes}
           d == [k \in 1 .. Rotations |-> dir[k]]
<1>1. IsFiniteSet(Processes) /\ Rotations \in Nat /\ Cardinality(Processes) \in Nat
  BY FileAssumption, FS_CardinalityType
<1>2. IsFiniteSet(1 .. Rotations) /\ Cardinality(1 .. Rotations) = Rotations
  BY <1>1, FS_Interval
<1>3. IsFiniteSet(Inodes) /\ Cardinality(Inodes) = Rotations + 1 + Cardinality(Processes)
  <2>1. 1 \in Int /\ Rotations + 1 + Cardinality(Processes) \in Nat
    BY <1>1
  <2> DEFINE n == Rotations + 1 + Cardinality(Processes)
  <2>2. Inodes = 1 .. n
    BY DEF Inodes
  <2> HIDE DEF n
  <2>3. IsFiniteSet(1 .. n) /\ Cardinality(1 .. n) = n
    <3>1. n \in Nat
      BY <2>1 DEF n
    <3>2. QED
      BY <3>1, FS_Interval
  <2>4. QED
    BY <2>2, <2>3 DEF n
<1>4. IsFiniteSet(D) /\ Cardinality(D) <= Rotations
  <2>1. D = {d[k] : k \in 1 .. Rotations}
    BY <1>1 DEF Positions
  <2>2. DOMAIN d = 1 .. Rotations
    OBVIOUS
  <2> HIDE DEF D, d
  <2>3. IsFiniteSet({d[k] : k \in 1 .. Rotations})
        /\ Cardinality({d[k] : k \in 1 .. Rotations}) <= Cardinality(1 .. Rotations)
    BY <1>2, <2>2, Values
  <2>4. QED
    BY <1>2, <2>1, <2>3
<1>5. IsFiniteSet(F) /\ Cardinality(F) <= Cardinality(Processes)
  BY <1>1, Values DEF FileTypes
<1>6. Cardinality(D \cup F) <= Rotations + Cardinality(Processes) /\ IsFiniteSet(D \cup F)
  <2>1. /\ Cardinality(D) \in Nat /\ Cardinality(F) \in Nat
        /\ IsFiniteSet(D \cap F)
    BY <1>4, <1>5, FS_CardinalityType, FS_Subset
  <2>2. Cardinality(D \cap F) \in Nat
    BY <2>1, FS_CardinalityType
  <2>3. /\ IsFiniteSet(D \cup F)
        /\ Cardinality(D \cup F) = Cardinality(D) + Cardinality(F) - Cardinality(D \cap F)
    BY <1>4, <1>5, FS_Union
  <2> HIDE DEF D, F
  <2>4. QED
    BY <1>1, <1>4, <1>5, <2>1, <2>2, <2>3
<1>7. Unused # {}
  <2> SUFFICES ASSUME Unused = {}
               PROVE  FALSE
    OBVIOUS
  <2>1. \A i \in Inodes : i \in D \cup F
    BY NoFileAssumption DEF Unused
  <2>2. Cardinality(Inodes) <= Cardinality(D \cup F) /\ Cardinality(D \cup F) \in Nat
    BY <1>6, <2>1, FS_Subset, FS_CardinalityType
  <2> HIDE DEF D, F
  <2>3. QED
    BY <1>1, <1>3, <1>6, <2>2
<1>8. QED
  BY <1>7 DEF AnUnused, Unused

-----------------------------------------------------------------------------
(* FileInv, step by step. *)

\* What Free does, given what it counts as unused: the length of no file grows.
LEMMA FreeShrinks ==
    ASSUME FileTypes, Free
    PROVE  /\ lines' \in [Inodes -> Seq(Nat)]
           /\ \A i \in Unused' : lines'[i] = <<>>
           /\ \A i \in Inodes : lines'[i] = <<>> \/ lines'[i] = lines[i]
BY DEF Free, FileTypes, Unused

LEMMA Bounded ==
    ASSUME \A i \in Inodes : lines'[i] = <<>> \/ lines'[i] = lines[i],
           \A i \in Inodes : Len(lines[i]) <= MaxSize + 1
    PROVE  \A i \in Inodes : Len(lines'[i]) <= MaxSize + 1
BY FileAssumption

\* A step that leaves the files alone and brings nobody to reopen.
LEMMA FilesAlone ==
    ASSUME FileInv, UNCHANGED files,
           rot' \in [Threads -> 0 .. Rotations - 1], written' = written,
           Worse,
           \A p \in Processes : life'[p] # "up" => life[p] # "up",
           \A t \in Threads : pc'[t] = "reopen" => pc[t] = "reopen"
    PROVE  FileInv'
BY DEF FileInv, FileTypes, files, Unused, Worse

\* A thread that ends its rotation has emptied the first place, and is alone.
LEMMA RotationFiles ==
    ASSUME FileInv, SemInv, Exclusive, Worse, NEW t \in Threads,
           RotateOne(t) \/ RotateSkips(t) \/ RenameFails(t)
    PROVE  FileInv'
<1> USE ThreadOfProcess, FileAssumption
<1> DEFINE n == rot[t]
<1>1. n \in 0 .. Rotations - 1 /\ n \in Positions /\ n + 1 \in Positions /\ 0 \in Positions
  BY DEF FileInv, FileTypes, Positions
<1>2. /\ dir' \in [Positions -> Entries] /\ fp' = fp /\ written' = written /\ life' = life
      /\ rot' \in [Threads -> 0 .. Rotations - 1] /\ Free
  <2>1. dir \in [Positions -> Entries] /\ rot \in [Threads -> 0 .. Rotations - 1]
        /\ NoFile \in Entries /\ dir[n] \in Entries
    BY <1>1 DEF FileInv, FileTypes, Entries
  <2>2. CASE RotateOne(t) \/ RotateSkips(t)
    <3>1. IF n = 0 THEN rot' = [rot EXCEPT ![t] = 0] ELSE rot' = [rot EXCEPT ![t] = n - 1]
      BY <2>2 DEF RotateOne, RotateSkips
    <3>2. rot' \in [Threads -> 0 .. Rotations - 1]
      BY <1>1, <2>1, <3>1
    <3>3. dir' \in [Positions -> Entries]
      BY <1>1, <2>1, <2>2 DEF RotateOne, RotateSkips
    <3>4. QED
      BY <2>2, <3>2, <3>3 DEF RotateOne, RotateSkips, history
  <2>3. CASE RenameFails(t)
    BY <1>1, <2>1, <2>3 DEF RenameFails
  <2>4. QED
    BY <2>2, <2>3
<1>4. ASSUME past' \in {"fine", "failed", "shared"}, NEW u \in Threads, pc'[u] = "reopen"
      PROVE  dir'[0] = NoFile
  <2>1. pc[t] \in Section /\ pc[t] = "rotate"
    BY DEF RotateOne, RotateSkips, RenameFails, Step, Section
  <2>2. u = t
    BY <1>4, <2>1
    DEF Exclusive, Section, RotateOne, RotateSkips, RenameFails, Step, SemInv, SemTypes, Worse
  <2>3. ~RotateSkips(t)
    <3>1. "skipped" \in Ranks
      BY DEF Ranks
    <3> QED BY <1>4, <3>1, PastWorsens DEF RotateSkips, SemInv, SemTypes
  <2>4. RotateOne(t) /\ n = 0
    BY <1>4, <2>2, <2>3 DEF RotateOne, RenameFails, Step, SemInv, SemTypes
  <2>5. QED
    BY <1>1, <2>4 DEF RotateOne, FileInv, FileTypes
<1>5. QED
  BY <1>2, <1>4, FreeShrinks, Bounded DEF FileInv, FileTypes, Worse

\* Opening takes an unused inode at most.
LEMMA OpenFiles ==
    ASSUME FileTypes, NEW p \in Processes, Open(p)
    PROVE  /\ dir' \in [Positions -> Entries] /\ fp' \in [Processes -> Entries]
           /\ dir'[0] \in Inodes
           /\ dir'[0] \in Unused \/ dir'[0] = dir[0]
           /\ dir[0] = NoFile => dir'[0] \in Unused
           /\ \A k \in Positions \ {0} : dir'[k] = dir[k]
           /\ dir[0] = NoFile \/ dir'[0] = dir[0]
           /\ fp'[p] = dir'[0] /\ \A q \in Processes \ {p} : fp'[q] = fp[q]
<1>1. 0 \in Positions
  BY FileAssumption DEF Positions
<1>2. QED
  BY <1>1, RoomForFile DEF Open, FileTypes, Entries

LEMMA ConfigureFiles ==
    ASSUME FileInv, SemInv, Worse, NEW p \in Processes, Config(p)
    PROVE  FileInv'
<1> USE ThreadOfProcess
<1>1. /\ life[p] = "config" /\ life' = [life EXCEPT ![p] = "up"]
      /\ ConfigLocked(p) \/ ConfigInterrupted(p)
      /\ (Open(p) /\ UNCHANGED lines) \/ UNCHANGED files
      /\ UNCHANGED <<pc, rot, written>>
  BY DEF Config, Configure, ConfigureInterrupted, ConfigureFails, Live
<1>2. FileTypes /\ fp[p] = NoFile
  BY <1>1 DEF FileInv
<1>3. CASE UNCHANGED files
  <2>1. \A q \in Processes : life'[q] # "up" => fp'[q] = NoFile
    BY <1>1, <1>3 DEF FileInv, SemInv, SemTypes, files
  <2> QED BY <1>1, <1>3, <2>1 DEF FileInv, FileTypes, files, Unused, Worse
<1>4. CASE Open(p) /\ UNCHANGED lines
  <2>1. FileTypes'
    BY <1>1, <1>2, <1>4, OpenFiles DEF FileTypes
  <2>2. \A i \in Unused' : i \in Unused
    BY <1>2, <1>4, OpenFiles, NoFileAssumption DEF Unused
  <2>3. \A q \in Processes : life'[q] # "up" => fp'[q] = NoFile
    BY <1>1, <1>2, <1>4, OpenFiles DEF FileInv, SemInv, SemTypes
  <2>4. past' \in {"fine", "failed", "shared"} => \A t \in Threads : pc[t] # "reopen"
    <3> SUFFICES ASSUME past' \in {"fine", "failed", "shared"}, NEW t \in Threads,
                        pc[t] = "reopen"
                 PROVE  FALSE
      OBVIOUS
    <3>1. past \in {"fine", "failed", "shared"}
      BY DEF Worse
    <3>2. ~ConfigInterrupted(p)
      <4>1. "interrupted" \in Ranks
        BY DEF Ranks
      <4> QED BY <4>1, PastWorsens DEF ConfigInterrupted, SemInv, SemTypes
    <3>3. semid[p] /\ sem > 0
      BY <1>1, <3>1, <3>2 DEF ConfigLocked, SemInv, Use
    <3>4. Holds(t)
      BY <3>1 DEF SemInv, Use, InsideIsUp, Holds, Section
    <3>5. QED
      BY <3>1, <3>3, <3>4 DEF SemInv, Value, Use
  <2>5. QED
    BY <1>1, <1>4, <2>1, <2>2, <2>3, <2>4 DEF FileInv, Worse
<1>5. QED
  BY <1>1, <1>3, <1>4

\* A write adds one line to a file that is not full, or to a new one.
LEMMA WriteFiles ==
    ASSUME FileInv, SemInv, NEW t \in Threads, Write(t)
    PROVE  FileInv'
<1> USE ThreadOfProcess, FileAssumption
<1> DEFINE i == fp[t[1]]
<1>1. i \in Inodes /\ Len(lines[i]) <= MaxSize /\ i \notin Unused
  BY DEF Write, Full, FileInv, FileTypes, Entries, Unused
<1>2. /\ lines' = [lines EXCEPT ![i] = Append(lines[i], written + 1)]
      /\ UNCHANGED <<dir, fp, rot, life, past>> /\ written' = written + 1
      /\ \A u \in Threads : pc'[u] = "reopen" => pc[u] = "reopen"
  BY DEF Write, Step, SemInv, SemTypes
<1>3. FileTypes'
  BY <1>1, <1>2 DEF FileInv, FileTypes
<1>4. Len(lines'[i]) <= MaxSize + 1
  BY <1>1, <1>2 DEF FileInv, FileTypes
<1>5. QED
  BY <1>1, <1>2, <1>3, <1>4 DEF FileInv, FileTypes, Unused

LEMMA ReopenFiles ==
    ASSUME FileInv, SemInv, Exclusive, NEW t \in Threads, Reopen(t)
    PROVE  FileInv'
<1> USE ThreadOfProcess, FileAssumption
<1> DEFINE i == dir'[0]
<1>1. /\ Open(t[1]) /\ written' = written + 1 /\ UNCHANGED <<rot, life, past>>
      /\ lines' = [j \in Inodes |-> CASE j = i -> Append(lines[j], written + 1)
                                      [] j \in Unused' -> <<>>
                                      [] OTHER -> lines[j]]
      /\ pc[t] = "reopen" /\ pc' = [pc EXCEPT ![t] = "idle"]
  BY DEF Reopen, Step
<1>2. FileTypes /\ i \in Inodes /\ i \notin Unused'
  <2>1. 0 \in Positions
    BY DEF Positions
  <2>2. QED
    BY <1>1, <2>1, OpenFiles DEF FileInv, Unused
<1>3. \A j \in Inodes : \/ j = i /\ lines'[j] = Append(lines[i], written + 1)
                        \/ j \in Unused' /\ lines'[j] = <<>>
                        \/ j # i /\ j \notin Unused' /\ lines'[j] = lines[j]
  BY <1>1, <1>2
<1>4. FileTypes'
  <2>1. lines' \in [Inodes -> Seq(Nat)]
    BY <1>1, <1>2, <1>3 DEF FileTypes
  <2>2. QED
    BY <1>1, <1>2, <2>1, OpenFiles DEF FileTypes
<1>5. \A j \in Unused' : lines'[j] = <<>>
  BY <1>2, <1>3 DEF Unused
<1>6. life[t[1]] = "up"
  BY <1>1 DEF SemInv, InsideIsUp
<1>7. \A p \in Processes : life'[p] # "up" => fp'[p] = NoFile
  BY <1>1, <1>2, <1>6, OpenFiles DEF FileInv
<1>8. ASSUME past \in {"fine", "failed", "shared"}
      PROVE  /\ \A j \in Inodes : Len(lines'[j]) <= MaxSize + 1
             /\ \A u \in Threads : pc'[u] # "reopen"
  <2>1. lines[i] = <<>>
    BY <1>1, <1>2, <1>8, OpenFiles DEF FileInv
  <2>2. Len(lines'[i]) = 1
    <3>1. lines'[i] = Append(<<>>, written + 1) /\ written + 1 \in Nat
      BY <1>2, <1>3, <2>1 DEF FileTypes, Unused
    <3> HIDE DEF i
    <3>2. QED
      BY <3>1
  <2>3. \A j \in Inodes : Len(lines'[j]) <= MaxSize + 1
    BY <1>3, <1>8, <2>2 DEF FileInv
  <2>4. \A u \in Threads : pc[u] = "reopen" => u = t
    BY <1>1, <1>8 DEF Exclusive, Section
  <2>5. QED
    BY <1>1, <2>3, <2>4 DEF SemInv, SemTypes
<1>9. QED
  BY <1>1, <1>4, <1>5, <1>7, <1>8 DEF FileInv

\* The other ways to let go of a file.
LEMMA LetGoFiles ==
    ASSUME FileInv, SemInv, Exclusive, Worse,
           \/ \E p \in Processes : Deinit(p) \/ End(p)
           \/ \E t \in Threads : ReopenFails(t) \/ ReopenDropping(t)
    PROVE  FileInv'
<1> USE ThreadOfProcess
<1>1. FileTypes /\ 0 \in 0 .. Rotations - 1
  BY FileAssumption DEF FileInv
<1>2. ASSUME NEW p \in Processes, Deinit(p) \/ End(p)
      PROVE  FileInv'
  <2>1. /\ UNCHANGED <<dir, written>> /\ Free
        /\ fp' = [fp EXCEPT ![p] = NoFile] /\ life' = [life EXCEPT ![p] = "down"]
        /\ rot' \in [Threads -> 0 .. Rotations - 1]
        /\ \A u \in Threads : pc'[u] = "reopen" => pc[u] = "reopen"
    <3>1. CASE Deinit(p)
      BY <1>1, <3>1 DEF Deinit, Live, FileTypes
    <3>2. CASE End(p)
      BY <1>1, <3>2 DEF End, FileTypes
    <3>3. QED
      BY <1>2, <3>1, <3>2
  <2>3. FileTypes'
    BY <1>1, <2>1, FreeShrinks DEF FileTypes, Entries
  <2>4. \A q \in Processes : life'[q] # "up" => fp'[q] = NoFile
    BY <1>1, <2>1 DEF FileInv, FileTypes, SemInv, SemTypes
  <2>5. QED
    BY <1>1, <2>1, <2>3, <2>4, FreeShrinks, Bounded DEF FileInv, Worse
<1>3. ASSUME NEW t \in Threads, ReopenFails(t) \/ ReopenDropping(t)
      PROVE  FileInv'
  <2>1. /\ pc[t] = "reopenFailed" /\ pc' = [pc EXCEPT ![t] = "idle"]
        /\ Free /\ UNCHANGED <<life, rot, written, past>>
    BY <1>3 DEF ReopenFails, ReopenDropping, Step, history
  <2>2. life[t[1]] = "up"
    BY <2>1 DEF SemInv, InsideIsUp
  <2>3. /\ dir' \in [Positions -> Entries] /\ fp' \in [Processes -> Entries]
        /\ \A q \in Processes \ {t[1]} : fp'[q] = fp[q]
    BY <1>1, <1>3, OpenFiles DEF ReopenFails, ReopenDropping, FileTypes, Entries
  <2>4. FileTypes'
    BY <1>1, <2>1, <2>3, FreeShrinks DEF FileTypes
  <2>5. \A q \in Processes : life'[q] # "up" => fp'[q] = NoFile
    BY <2>1, <2>2, <2>3 DEF FileInv
  <2>6. past \in {"fine", "failed", "shared"} => \A u \in Threads : pc'[u] # "reopen"
    BY <2>1 DEF Exclusive, Section, SemInv, SemTypes
  <2>7. QED
    BY <1>1, <2>1, <2>4, <2>5, <2>6, FreeShrinks, Bounded DEF FileInv
<1>4. QED
  BY <1>2, <1>3

LEMMA FileStep ==
    ASSUME FileInv, SemInv, Exclusive, [Next]_vars
    PROVE  FileInv'
<1> USE ThreadOfProcess
<1>0. Worse
  BY StepWorsens DEF SemInv
<1>1. ASSUME NEW p \in Processes, Start(p)
      PROVE  FileInv'
  <2>1. /\ UNCHANGED <<files, rot, pc, written>>
        /\ \A q \in Processes : life'[q] # "up" => life[q] # "up"
    BY <1>1
    DEF Start, CreateSem, RaiseSem, OpenSem, GiveUpSem, Live, history, SemInv, SemTypes
  <2>2. QED
    BY <1>0, <2>1, FilesAlone DEF FileInv, FileTypes
<1>2. ASSUME NEW t \in Threads, Call(t) \/ Lock(t) \/ LockInterrupted(t) \/ BeginRotation(t)
      PROVE  FileInv'
  <2>1. /\ UNCHANGED <<files, life, written>>
        /\ rot' \in [Threads -> 0 .. Rotations - 1]
        /\ \A u \in Threads : pc'[u] = "reopen" => pc[u] = "reopen"
    <3>1. CASE Call(t) \/ Lock(t)
      BY <3>1 DEF Call, Lock, Step, history, FileInv, FileTypes, SemInv, SemTypes
    <3>2. CASE LockInterrupted(t)
      BY <3>2 DEF LockInterrupted, Step, FileInv, FileTypes, SemInv, SemTypes
    <3>3. CASE BeginRotation(t)
      BY <3>3, FileAssumption
      DEF BeginRotation, Step, history, FileInv, FileTypes, SemInv, SemTypes
    <3> QED BY <1>2, <3>1, <3>2, <3>3
  <2>2. QED
    BY <1>0, <2>1, FilesAlone
<1>3. CASE UNCHANGED vars
  BY <1>0, <1>3, FilesAlone DEF vars, history, files, FileInv, FileTypes
<1>4. ASSUME NEW p \in Processes, Start(p) \/ Config(p) \/ Deinit(p) \/ Kill(p)
      PROVE  FileInv'
  BY <1>0, <1>1, <1>4, ConfigureFiles, LetGoFiles DEF Kill
<1>5. ASSUME NEW t \in Threads, Call(t) \/ WriteStep(t)
      PROVE  FileInv'
  BY <1>0, <1>2, <1>5, RotationFiles, WriteFiles, ReopenFiles, LetGoFiles
  DEF WriteStep, WriteToNull, ReopenCrashes
<1>6. QED
  BY <1>3, <1>4, <1>5 DEF Next

LEMMA FileInvariant == Spec => []FileInv
<1>1. Init => FileInv
  <2>1. \A i \in Inodes : Len(<<>>) <= MaxSize + 1
    BY FileAssumption
  <2>2. 0 \in 0 .. Rotations - 1
    BY FileAssumption
  <2>3. QED
    BY <2>1, <2>2 DEF Init, FileInv, FileTypes, Entries, Unused
<1>2. QED
  BY <1>1, FileStep, SemInvariant, SemaphoreExcludes, PTL DEF Spec

\* No file grows past its limit by more than the line that reached it, as long as
\* every thread gets the semaphore it uses and the files that are there can be opened:
\* for any number of processes, threads and files, whoever is killed wherever and
\* whichever rename fails.
THEOREM FilesBounded == Spec => []SizeBounded
<1>1. FileInv => SizeBounded
  BY DEF FileInv, SizeBounded
<1>2. QED
  BY <1>1, FileInvariant, PTL

-----------------------------------------------------------------------------
(* The archive is what its files hold, one after another. *)

\* log[j] is what the j oldest files hold, one after another.
Joined(log) ==
    /\ log[0] = <<>>
    /\ \A j \in 1 .. Rotations + 1 : log[j] = log[j - 1] \o Content((Rotations + 1) - j)
    /\ Archive = log[Rotations + 1]

LEMMA ArchiveJoined ==
    ASSUME \A k \in Positions : Content(k) \in Seq(Nat)
    PROVE  \E log : Joined(log)
<1> DEFINE N == Rotations + 1
           place == [k \in 1 .. N |-> k - 1]
           Eq(it) == it = [s \in SUBSET (1 .. N) |->
                        IF s = {} THEN <<>>
                        ELSE it[s \ {Max(s)}] \o Content(Rotations - place[Max(s)])]
           V == Seq(Nat)
           h == [p \in (1 .. N) \X V |-> p[2] \o Content(Rotations - place[p[1]])]
           m == [s \in SUBSET (1 .. N) |-> Max(s)]
<1>1. Rotations \in Nat \ {0} /\ N \in Nat \ {0} /\ IsFiniteSet(1 .. N)
  BY FileAssumption, FS_Interval
<1>2. \A s \in SUBSET (1 .. N) : s # {} => Max(s) \in s
  <2> HIDE DEF N
  <2> QED BY <1>1, MaxOfSet
<1>3. \E it : Eq(it)
  <2>1. h \in [(1 .. N) \X V -> V]
    <3>1. \A p \in (1 .. N) \X V : Rotations - place[p[1]] \in Positions
      BY <1>1 DEF Positions
    <3> QED BY <3>1
  <2>2. <<>> \in V
    OBVIOUS
  <2>3. \A s \in SUBSET (1 .. N) : s # {} => m[s] \in s
    BY <1>2
  <2>4. PICK it : IsFold(it, h, m, <<>>, 1 .. N, V)
    <3> HIDE DEF h, m, V, N
    <3> QED BY <1>1, <2>1, <2>2, <2>3, FoldExists
  <2>5. ASSUME NEW s \in SUBSET (1 .. N), s # {}
        PROVE  it[s] = it[s \ {Max(s)}] \o Content(Rotations - place[Max(s)])
    <3>1. Max(s) \in 1 .. N /\ it[s \ {Max(s)}] \in V /\ m[s] = Max(s)
      BY <1>2, <2>4, <2>5 DEF IsFold
    <3>2. it[s] = h[<<m[s], it[s \ {m[s]}]>>]
      BY <2>4, <2>5 DEF IsFold
    <3>3. h[<<Max(s), it[s \ {Max(s)}]>>] = it[s \ {Max(s)}] \o Content(Rotations - place[Max(s)])
      BY <3>1
    <3> QED BY <3>1, <3>2, <3>3
  <2>6. it[{}] = <<>>
    BY <2>4 DEF IsFold
  <2>7. it = [s \in SUBSET (1 .. N) |-> it[s]]
    BY <2>4 DEF IsFold
  <2>8. Eq(it)
    <3> DEFINE body == [s \in SUBSET (1 .. N) |->
                 IF s = {} THEN <<>>
                 ELSE it[s \ {Max(s)}] \o Content(Rotations - place[Max(s)])]
    <3>1. \A s \in SUBSET (1 .. N) : it[s] = body[s]
      BY <2>5, <2>6
    <3>2. it = body
      BY <3>1, <2>7
    <3> QED BY <3>2
  <2> HIDE DEF Eq
  <2> QED BY <2>8
<1> DEFINE A == CHOOSE it : Eq(it)
<1>4. Eq(A)
  <2> HIDE DEF Eq
  <2> QED BY <1>3
<1>5. Archive = A[1 .. N]
  <2>1. DOMAIN place = 1 .. N
    OBVIOUS
  <2> QED BY <2>1 DEF Archive, FoldLeft, MapThenFoldSet
<1> HIDE DEF A
<1>6. A[{}] = <<>>
  BY <1>4
<1>7. ASSUME NEW j \in 1 .. N
      PROVE  A[1 .. j] = A[1 .. j - 1] \o Content(N - j)
  <2>1. Max(1 .. j) = j /\ (1 .. j) \ {j} = 1 .. j - 1
    BY MaxOfInterval
  <2>2. 1 .. j \in SUBSET (1 .. N) /\ 1 .. j # {}
    <3>1. 1 .. j \in SUBSET (1 .. N)
      BY <1>1
    <3>2. j \in 1 .. j
      OBVIOUS
    <3> QED BY <3>1, <3>2
  <2>3. A[1 .. j] = A[(1 .. j) \ {Max(1 .. j)}] \o Content(Rotations - place[Max(1 .. j)])
    BY <1>4, <2>2
  <2>4. Rotations - place[j] = N - j
    BY <1>1
  <2> QED BY <2>1, <2>3, <2>4
<1> DEFINE log == [j \in 0 .. N |-> A[1 .. j]]
<1>8. log[0] = <<>>
  BY <1>1, <1>6
<1>9. \A j \in 1 .. N : log[j] = log[j - 1] \o Content(N - j)
  BY <1>1, <1>7
<1>10. Archive = log[N]
  BY <1>1, <1>5
<1>11. Joined(log)
  <2> HIDE DEF log
  <2> QED BY <1>8, <1>9, <1>10 DEF Joined
<1> HIDE DEF log
<1> QED BY <1>11

\* A run of consecutive numbers.
Run(l, from, to) ==
    /\ l \in Seq(Nat) /\ Len(l) = to - from
    /\ \A x \in 1 .. Len(l) : l[x] = from + x

LEMMA ConcatRun ==
    ASSUME NEW a \in Nat, NEW b \in Nat, NEW d \in Nat,
           NEW l, Run(l, a, b), NEW c, Run(c, b, d)
    PROVE  Run(l \o c, a, d)
<1>1. l \in Seq(Nat) /\ c \in Seq(Nat) /\ Len(l) \in Nat /\ Len(c) \in Nat
  BY DEF Run
<1>2. /\ l \o c \in Seq(Nat) /\ Len(l \o c) = Len(l) + Len(c)
      /\ \A x \in 1 .. Len(l) + Len(c) :
            (l \o c)[x] = IF x <= Len(l) THEN l[x] ELSE c[x - Len(l)]
  BY <1>1, ConcatProperties
<1>3. ASSUME NEW x \in 1 .. Len(l \o c) PROVE (l \o c)[x] = a + x
  <2>1. CASE x <= Len(l)
    <3>1. x \in 1 .. Len(l) /\ (l \o c)[x] = l[x]
      BY <1>1, <1>2, <2>1
    <3> QED BY <3>1 DEF Run
  <2>2. CASE x > Len(l)
    <3>1. x - Len(l) \in 1 .. Len(c)
      BY <1>1, <1>2, <2>2
    <3>2. (l \o c)[x] = c[x - Len(l)]
      BY <1>1, <1>2, <2>2
    <3>3. c[x - Len(l)] = b + (x - Len(l)) /\ Len(l) = b - a
      BY <3>1 DEF Run
    <3> QED BY <1>1, <1>2, <3>2, <3>3
  <2> QED BY <1>1, <1>2, <2>1, <2>2
<1> QED
  <2>1. Len(l \o c) = d - a
    BY <1>1, <1>2 DEF Run
  <2> QED BY <1>2, <1>3, <2>1 DEF Run

\* e[k] is the number of the last line that was written before those of the files
\* newer than file k; the lines up to e[Rotations + 1] are in no file.
Numbered(e) ==
    /\ e \in [0 .. Rotations + 1 -> Nat] /\ e[0] = written
    /\ \A k \in Positions : Run(Content(k), e[k + 1], e[k])

LEMMA NumberedArchive ==
    ASSUME NEW e, Numbered(e)
    PROVE  Run(Archive, e[Rotations + 1], written)
<1> DEFINE N == Rotations + 1
<1>1. PICK log : Joined(log)
  BY ArchiveJoined DEF Numbered, Run
<1>2. N \in Nat \ {0} /\ Rotations \in Nat /\ N = Rotations + 1
  BY FileAssumption
<1> DEFINE From(j) == Run(log[j], e[N], e[N - j])
           S == {j \in Nat : j <= N => From(j)}
<1>3. 0 \in S
  <2>1. log[0] = <<>> /\ N - 0 = N /\ e[N] \in Nat
    BY <1>1, <1>2 DEF Joined, Numbered
  <2>2. From(0)
    BY <2>1 DEF Run
  <2> QED BY <2>2
<1>4. ASSUME NEW j \in Nat, j \in S PROVE j + 1 \in S
  <2> SUFFICES ASSUME j + 1 <= N PROVE From(j + 1)
    OBVIOUS
  <2> DEFINE k == N - (j + 1)
  <2>1. k \in Positions /\ k + 1 = N - j /\ j + 1 \in 1 .. N /\ (j + 1) - 1 = j
    BY <1>2 DEF Positions
  <2>2. Run(Content(k), e[k + 1], e[k])
    BY <2>1 DEF Numbered
  <2>3. e[k] \in Nat /\ e[k + 1] \in Nat /\ e[N] \in Nat
    <3>1. k \in 0 .. Rotations + 1 /\ k + 1 \in 0 .. Rotations + 1 /\ N \in 0 .. Rotations + 1
      BY <1>2, <2>1 DEF Positions
    <3> QED BY <3>1 DEF Numbered
  <2>4. Run(log[j], e[N], e[k + 1])
    BY <1>2, <1>4, <2>1
  <2>5. log[j + 1] = log[j] \o Content(k)
    BY <1>1, <1>2, <2>1 DEF Joined
  <2> HIDE DEF k, N
  <2> QED BY <2>2, <2>3, <2>4, <2>5, ConcatRun DEF k
<1>5. N \in S
  <2>1. \A j \in Nat : j \in S
    <3> HIDE DEF S
    <3> QED BY <1>3, <1>4, NumberInduction
  <2> HIDE DEF S, N
  <2> QED BY <1>2, <2>1
<1>6. From(N)
  BY <1>2, <1>5
<1>7. N - N = 0 /\ Archive = log[N] /\ e[0] = written
  BY <1>1, <1>2 DEF Joined, Numbered
<1> QED BY <1>6, <1>7

-----------------------------------------------------------------------------
(* How the files continue each other. *)

Rotating(t) == pc[t] \in {"rotate", "reopen", "reopenFailed"}
InTurn == past \in {"fine", "failed"}

\* A file is in one place.
Places == \A j, k \in Positions : j # k /\ dir[j] # NoFile => dir[j] # dir[k]

\* A rotation removes the oldest file only: from there on it has made room.
Room ==
    past \in {"fine", "failed", "shared"} =>
        \A t \in Threads : pc[t] = "rotate" =>
            rot[t] = Rotations - 1 \/ dir[rot[t] + 1] = NoFile

\* One process at a time has the log, and writes to the newest file.
OneUp == InTurn => \A p, q \in Processes : life[p] = "up" /\ life[q] = "up" => p = q
NewestFile ==
    InTurn =>
        \A p \in Processes :
            /\ life[p] = "up" /\ fp[p] # NoFile
            /\ \A t \in Threads : t[1] = p => ~Rotating(t)
            => fp[p] = dir[0]

DirInv == Places /\ Room /\ OneUp /\ NewestFile

FullAt(k) == Len(Content(k)) = MaxSize + 1

\* Where a rotation that is under way has left a place free.
GapAt(j) ==
    \E t \in Threads : \/ pc[t] = "rotate" /\ j = rot[t] + 1
                       \/ pc[t] = "reopen" /\ j = 0

\* While rotations succeed every file but the newest is full, and there is no hole
\* in the chain but the one of the rotation.
ChainInv ==
    past = "fine" =>
        /\ \A k \in Positions \ {0} : dir[k] # NoFile => FullAt(k)
        /\ \A t \in Threads : pc[t] = "rotate" => FullAt(0)
        /\ \A t \in Threads : pc[t] # "reopenFailed"
        /\ \A k \in Positions : \A j \in 0 .. k - 1 :
              dir[k] # NoFile /\ dir[j] = NoFile => GapAt(j)

\* Either no line is gone or all files but one are full.
KeptEnough(e) ==
    e[Rotations + 1] = 0 \/ \E g \in Positions : \A k \in Positions \ {g} : FullAt(k)

LinesInv ==
    InTurn => \E e : Numbered(e) /\ (past = "fine" => KeptEnough(e))

OrderInv == DirInv /\ ChainInv /\ LinesInv

-----------------------------------------------------------------------------
(* What the steps do to the numbers of the lines. *)

LEMMA ContentType ==
    ASSUME FileTypes
    PROVE  \A k \in Positions : Content(k) \in Seq(Nat) /\ Len(Content(k)) \in Nat
BY DEF FileTypes, Content, Entries

LEMMA SameContents ==
    ASSUME NEW e, Numbered(e), written' = written,
           \A k \in Positions : Content(k)' = Content(k)
    PROVE  Numbered(e)' /\ (KeptEnough(e)' <=> KeptEnough(e))
BY DEF Numbered, KeptEnough, FullAt

LEMMA AppendRun ==
    ASSUME NEW l, NEW a \in Nat, NEW b \in Nat, Run(l, a, b)
    PROVE  Run(Append(l, b + 1), a, b + 1)
<1>1. l \in Seq(Nat) /\ b + 1 \in Nat /\ Len(l) \in Nat /\ Len(l) = b - a
  BY DEF Run
<1>2. /\ Append(l, b + 1) \in Seq(Nat) /\ Len(Append(l, b + 1)) = Len(l) + 1
      /\ \A x \in 1 .. Len(l) : Append(l, b + 1)[x] = l[x]
      /\ Append(l, b + 1)[Len(l) + 1] = b + 1
  BY <1>1, AppendProperties
<1>3. ASSUME NEW x \in 1 .. Len(l) + 1 PROVE Append(l, b + 1)[x] = a + x
  <2>1. CASE x \in 1 .. Len(l)
    BY <1>2, <2>1 DEF Run
  <2>2. CASE x = Len(l) + 1
    BY <1>1, <1>2, <2>2
  <2> QED BY <1>1, <2>1, <2>2
<1>4. Len(Append(l, b + 1)) = (b + 1) - a
  BY <1>1, <1>2
<1> QED BY <1>2, <1>3, <1>4 DEF Run

LEMMA AppendedContents ==
    ASSUME NEW e, Numbered(e), written \in Nat, written' = written + 1,
           Content(0)' = Append(Content(0), written + 1),
           \A k \in Positions \ {0} : Content(k)' = Content(k)
    PROVE  \E f : Numbered(f)' /\ \A k \in 1 .. Rotations + 1 : f[k] = e[k]
<1>1. Rotations \in Nat \ {0} /\ e \in [0 .. Rotations + 1 -> Nat] /\ e[0] = written
  BY FileAssumption DEF Numbered
<1>2. PICK f : f = [e EXCEPT ![0] = written + 1]
  OBVIOUS
<1>3. f \in [0 .. Rotations + 1 -> Nat] /\ f[0] = written + 1
  BY <1>1, <1>2
<1>4. \A k \in 1 .. Rotations + 1 : f[k] = e[k]
  BY <1>1, <1>2
<1>5. ASSUME NEW k \in Positions PROVE Run(Content(k)', f[k + 1], f[k])
  <2>1. k \in 0 .. Rotations + 1 /\ k + 1 \in 1 .. Rotations + 1 /\ f[k + 1] = e[k + 1]
    BY <1>1, <1>4 DEF Positions
  <2>2. Run(Content(k), e[k + 1], e[k]) /\ e[k + 1] \in Nat
    BY <1>1, <2>1 DEF Numbered
  <2>3. CASE k = 0
    <3>1. Run(Append(Content(0), written + 1), e[k + 1], written + 1)
      BY <1>1, <2>2, <2>3, AppendRun
    <3> QED BY <1>3, <2>1, <2>3, <3>1
  <2>4. CASE k # 0
    <3>1. Content(k)' = Content(k) /\ f[k] = e[k]
      BY <1>4, <2>1, <2>4
    <3> QED BY <2>1, <2>2, <3>1
  <2> QED BY <2>3, <2>4
<1>6. Numbered(f)'
  BY <1>3, <1>5 DEF Numbered
<1> QED BY <1>4, <1>6

\* A file that moves takes its lines with it, whatever is freed meanwhile.
LEMMA FreeContent ==
    ASSUME FileTypes, Free, NEW k \in Positions, NEW j \in Positions, dir'[k] = dir[j]
    PROVE  Content(k)' = Content(j)
<1>1. CASE dir[j] = NoFile
  BY <1>1 DEF Content
<1>2. CASE dir[j] # NoFile
  <2>1. dir'[k] \in Inodes /\ dir'[k] \notin Unused'
    BY <1>2 DEF FileTypes, Entries, Unused
  <2>2. lines'[dir'[k]] = lines[dir'[k]]
    BY <2>1 DEF Free
  <2> QED BY <1>2, <2>2 DEF Content
<1> QED BY <1>1, <1>2

\* Opening leaves the other files alone, and the new one is empty.
LEMMA OpenContent ==
    ASSUME FileInv, Places, NEW p \in Processes, Open(p)
    PROVE  /\ Places'
           /\ Free \/ UNCHANGED lines => \A k \in Positions : Content(k)' = Content(k)
<1>1. FileTypes /\ 0 \in Positions
  BY FileAssumption DEF FileInv, Positions
<1>2. /\ dir' \in [Positions -> Entries] /\ dir'[0] \in Inodes
      /\ dir'[0] \in Unused \/ dir'[0] = dir[0]
      /\ dir[0] = NoFile => dir'[0] \in Unused
      /\ \A k \in Positions \ {0} : dir'[k] = dir[k]
      /\ dir[0] = NoFile \/ dir'[0] = dir[0]
  BY <1>1, OpenFiles
<1>3. Places'
  BY <1>1, <1>2, NoFileAssumption DEF Places, Unused
<1>4. ASSUME NEW k \in Positions, dir'[k] = dir[k], Free \/ UNCHANGED lines
      PROVE  Content(k)' = Content(k)
  BY <1>1, <1>4, FreeContent DEF Content
<1>5. ASSUME dir'[0] # dir[0], Free \/ UNCHANGED lines
      PROVE  Content(0)' = Content(0)
  <2>1. dir[0] = NoFile /\ dir'[0] \in Unused /\ lines[dir'[0]] = <<>>
    BY <1>2, <1>5 DEF FileInv
  <2>2. lines'[dir'[0]] = <<>>
    BY <1>2, <1>5, <2>1 DEF Free
  <2> QED BY <2>1, <2>2 DEF Content
<1> QED BY <1>1, <1>2, <1>3, <1>4, <1>5

-----------------------------------------------------------------------------
(* DirInv, step by step. *)

\* Steps that leave the directory alone.
LEMMA SameDir ==
    ASSUME DirInv, Worse, dir' = dir,
           \A p \in Processes : life'[p] = "up" => life[p] = "up" /\ fp'[p] = fp[p],
           \A t \in Threads : pc'[t] = "rotate" =>
               rot'[t] = Rotations - 1 \/ (pc[t] = "rotate" /\ rot'[t] = rot[t]),
           \A t \in Threads : life'[t[1]] = "up" /\ Rotating(t) => Rotating(t)'
    PROVE  DirInv'
<1>1. Places'
  BY DEF DirInv, Places
<1>2. Room'
  BY DEF DirInv, Room, Worse
<1>3. OneUp'
  BY DEF DirInv, OneUp, Worse, InTurn
<1>4. NewestFile'
  <2> SUFFICES ASSUME InTurn', NEW p \in Processes, life'[p] = "up", fp'[p] # NoFile,
                      \A t \in Threads : t[1] = p => ~Rotating(t)'
               PROVE  fp'[p] = dir'[0]
    BY DEF NewestFile
  <2>1. InTurn /\ life[p] = "up" /\ fp'[p] = fp[p]
    BY DEF Worse, InTurn
  <2>2. \A t \in Threads : t[1] = p => ~Rotating(t)
    OBVIOUS
  <2> QED BY <2>1, <2>2 DEF DirInv, NewestFile
<1> QED BY <1>1, <1>2, <1>3, <1>4 DEF DirInv

\* A step of a thread that rotates: no other process is up.
LEMMA RotatingDir ==
    ASSUME DirInv, SemInv, Exclusive, Worse, NEW t \in Threads, Rotating(t), life' = life,
           Places', \A u \in Threads \ {t} : pc'[u] = pc[u],
           pc'[t] = "rotate" /\ past' \in {"fine", "failed", "shared"}
               => dir'[rot'[t] + 1] = NoFile,
           Rotating(t)' \/ fp'[t[1]] \in {NoFile, dir'[0]}
    PROVE  DirInv'
<1> USE ThreadOfProcess
<1>1. Room'
  BY DEF Room, Worse, Exclusive, Section, Rotating
<1>2. OneUp'
  BY DEF DirInv, OneUp, Worse, InTurn
<1>3. NewestFile'
  <2>1. life[t[1]] = "up"
    BY DEF SemInv, InsideIsUp, Rotating
  <2>2. ASSUME InTurn', NEW p \in Processes, life'[p] = "up"
        PROVE  p = t[1]
    BY <2>1, <2>2 DEF DirInv, OneUp, Worse, InTurn
  <2>3. ASSUME \A u \in Threads : u[1] = t[1] => ~Rotating(u)'
        PROVE  fp'[t[1]] \in {NoFile, dir'[0]}
    BY <2>3
  <2> QED BY <2>2, <2>3 DEF NewestFile
<1> QED BY <1>1, <1>2, <1>3 DEF DirInv

LEMMA ConfigureDir ==
    ASSUME DirInv, SemInv, FileInv, NEW p \in Processes, Config(p), Worse
    PROVE  DirInv'
<1>1. /\ life' = [life EXCEPT ![p] = "up"] /\ UNCHANGED <<pc, rot>>
      /\ Open(p) \/ UNCHANGED files
      /\ \/ HappensIf(\E q \in Processes \ {p} : life[q] = "up", "shared")
         \/ Happens("interrupted")
  BY DEF Config, Configure, ConfigureInterrupted, ConfigInterrupted, ConfigureFails, Live
<1>2. Places'
  BY <1>1, OpenContent DEF DirInv, Places, files
<1>3. /\ fp'[p] = dir'[0] \/ fp'[p] = NoFile
      /\ \A k \in Positions \ {0} : dir'[k] = dir[k]
  <2>1. CASE Open(p)
    BY <2>1, OpenFiles DEF FileInv
  <2>2. CASE UNCHANGED files
    BY <2>2 DEF Config, Configure, ConfigureInterrupted, ConfigureFails, Live, FileInv, files
  <2> QED BY <1>1, <2>1, <2>2
<1>4. Room'
  <2>1. \A t \in Threads : rot[t] + 1 \in Positions \ {0}
    BY FileAssumption DEF FileInv, FileTypes, Positions
  <2> QED BY <1>1, <1>3, <2>1 DEF DirInv, Room, Worse
<1>5. ASSUME InTurn', NEW q \in Processes, life'[q] = "up" PROVE q = p
  BY <1>1, <1>5 DEF HappensIf, Happens, Rank, Ranks, InTurn, SemInv, SemTypes
<1>6. OneUp' /\ NewestFile'
  BY <1>3, <1>5 DEF OneUp, NewestFile
<1> QED BY <1>2, <1>4, <1>6 DEF DirInv

LEMMA RotateDir ==
    ASSUME DirInv, SemInv, Exclusive, FileInv, Worse, NEW t \in Threads,
           RotateOne(t) \/ RotateSkips(t) \/ RenameFails(t)
    PROVE  DirInv'
<1> DEFINE n == rot[t]
<1>1. n \in 0 .. Rotations - 1 /\ n \in Positions /\ n + 1 \in Positions
  BY FileAssumption DEF FileInv, FileTypes, Positions
<1>2. dir \in [Positions -> Entries] /\ rot \in [Threads -> 0 .. Rotations - 1]
  BY DEF FileInv, FileTypes
<1>3. /\ life' = life /\ pc[t] = "rotate" /\ Rotating(t)
      /\ \A u \in Threads \ {t} : pc'[u] = pc[u]
  BY DEF RotateOne, RotateSkips, RenameFails, Step, SemInv, SemTypes, Rotating
<1>4. Places'
  <2>1. CASE RotateOne(t)
    BY <1>1, <1>2, <2>1 DEF RotateOne, DirInv, Places
  <2>2. CASE RenameFails(t)
    BY <1>1, <1>2, <2>2 DEF RenameFails, DirInv, Places
  <2>3. CASE RotateSkips(t)
    BY <1>1, <1>2, <2>3 DEF RotateSkips, DirInv, Places
  <2> QED BY <2>1, <2>2, <2>3
<1>5. Rotating(t)'
  BY DEF RotateOne, RotateSkips, RenameFails, Step, SemInv, SemTypes, Rotating
<1>6. ASSUME pc'[t] = "rotate", past' \in {"fine", "failed", "shared"}
      PROVE  dir'[rot'[t] + 1] = NoFile
  <2>0. ~RotateSkips(t)
    <3>1. "skipped" \in Ranks
      BY DEF Ranks
    <3> QED BY <1>6, <3>1, PastWorsens DEF RotateSkips, SemInv, SemTypes
  <2>1. RotateOne(t) /\ n # 0
    BY <1>6, <2>0 DEF RotateOne, RenameFails, Step, SemInv, SemTypes
  <2>2. rot'[t] = n - 1 /\ dir' = [dir EXCEPT ![n + 1] = dir[n], ![n] = NoFile]
    BY <1>2, <2>1 DEF RotateOne
  <2> QED BY <1>1, <1>2, <2>2
<1> QED BY <1>3, <1>4, <1>5, <1>6, RotatingDir

LEMMA ReopenDir ==
    ASSUME DirInv, SemInv, Exclusive, FileInv, Worse, NEW t \in Threads,
           Reopen(t) \/ ReopenDropping(t) \/ ReopenFails(t)
    PROVE  DirInv'
<1> USE ThreadOfProcess
<1>1. /\ life' = life /\ Rotating(t) /\ pc'[t] = "idle"
      /\ \A u \in Threads \ {t} : pc'[u] = pc[u]
  BY DEF Reopen, ReopenDropping, ReopenFails, Step, SemInv, SemTypes, Rotating
<1>2. CASE Open(t[1])
  <2>1. Places' /\ fp'[t[1]] = dir'[0]
    BY <1>2, OpenContent, OpenFiles DEF DirInv, FileInv
  <2> QED BY <1>1, <2>1, RotatingDir
<1>3. CASE ReopenFails(t)
  <2>1. Places' /\ fp'[t[1]] = NoFile
    BY <1>3 DEF ReopenFails, DirInv, Places, FileInv, FileTypes
  <2> QED BY <1>1, <2>1, RotatingDir
<1> QED BY <1>2, <1>3 DEF Reopen, ReopenDropping

LEMMA DirStep ==
    ASSUME DirInv, SemInv, Exclusive, FileInv, Worse, [Next]_vars
    PROVE  DirInv'
<1> USE ThreadOfProcess
<1>1. CASE UNCHANGED vars
  BY <1>1, SameDir DEF vars, files, Rotating
<1>2. ASSUME NEW p \in Processes, Start(p)
      PROVE  DirInv'
  <2>1. UNCHANGED <<files, rot, pc>> /\ \A q \in Processes : life'[q] = "up" => life[q] = "up"
    BY <1>2 DEF Start, CreateSem, RaiseSem, OpenSem, GiveUpSem, Live, SemInv, SemTypes
  <2> QED BY <2>1, SameDir DEF files, Rotating
<1>3. ASSUME NEW p \in Processes, Deinit(p) \/ End(p)
      PROVE  DirInv'
  <2>1. dir' = dir /\ \A q \in Processes : life'[q] = "up" => life[q] = "up" /\ fp'[q] = fp[q]
    BY <1>3 DEF Deinit, End, Live, SemInv, SemTypes, FileInv, FileTypes
  <2>2. \A u \in Threads : pc'[u] = "rotate" => pc[u] = "rotate" /\ rot'[u] = rot[u]
    BY <1>3 DEF Deinit, End
  <2>3. \A u \in Threads : life'[u[1]] = "up" /\ Rotating(u) => Rotating(u)'
    BY <1>3 DEF Deinit, End, Live, Rotating, SemInv, SemTypes
  <2> QED BY <2>1, <2>2, <2>3, SameDir
<1>4. ASSUME NEW t \in Threads, \/ Call(t) \/ Lock(t) \/ LockInterrupted(t)
                            \/ BeginRotation(t) \/ Write(t)
      PROVE  DirInv'
  <2>1. UNCHANGED <<dir, fp, life>>
    BY <1>4 DEF Call, Lock, LockInterrupted, BeginRotation, Write, files
  <2>2. \A u \in Threads :
           pc'[u] = "rotate" => rot'[u] = Rotations - 1 \/ (pc[u] = "rotate" /\ rot'[u] = rot[u])
    BY <1>4 DEF Call, Lock, LockInterrupted, BeginRotation, Write, Step, SemInv, SemTypes, FileInv, FileTypes
  <2>3. \A u \in Threads : Rotating(u) => Rotating(u)'
    BY <1>4 DEF Call, Lock, LockInterrupted, BeginRotation, Write, Step, Rotating, SemInv, SemTypes
  <2> QED BY <2>1, <2>2, <2>3, SameDir
<1>5. ASSUME NEW p \in Processes, Start(p) \/ Config(p) \/ Deinit(p) \/ Kill(p)
      PROVE  DirInv'
  BY <1>2, <1>3, <1>5, ConfigureDir DEF Kill
<1>6. ASSUME NEW t \in Threads, Call(t) \/ WriteStep(t)
      PROVE  DirInv'
  BY <1>3, <1>4, <1>6, RotateDir, ReopenDir
  DEF WriteStep, WriteToNull, ReopenCrashes
<1> QED BY <1>1, <1>5, <1>6 DEF Next

-----------------------------------------------------------------------------
(* ChainInv and LinesInv, step by step. *)

\* Steps that change no contents: GapAt is kept, and who begins to rotate has found
\* the newest file full.
LEMMA SameChain ==
    ASSUME ChainInv, Worse, FileTypes,
           \A k \in Positions : Content(k)' = Content(k),
           \A k \in Positions \ {0} : dir'[k] = dir[k],
           dir'[0] = NoFile => dir[0] = NoFile,
           past' = "fine" => \A t \in Threads :
               /\ pc'[t] = "rotate" => pc[t] = "rotate" \/ FullAt(0)
               /\ pc'[t] = "reopenFailed" => pc[t] = "reopenFailed"
               /\ pc[t] \in {"rotate", "reopen"} => pc'[t] = pc[t] /\ rot'[t] = rot[t]
    PROVE  ChainInv'
<1> SUFFICES ASSUME past' = "fine" PROVE ChainInv'
  BY DEF ChainInv
<1>1. past = "fine"
  BY DEF Worse
<1>2. 0 \in Positions /\ \A k \in Positions : FullAt(k)' <=> FullAt(k)
  BY FileAssumption DEF FullAt, Positions
<1>3. \A k \in Positions \ {0} : dir'[k] # NoFile => FullAt(k)'
  BY <1>1, <1>2 DEF ChainInv
<1>4. \A t \in Threads : (pc'[t] = "rotate" => FullAt(0)') /\ pc'[t] # "reopenFailed"
  BY <1>1, <1>2 DEF ChainInv
<1>5. ASSUME NEW k \in Positions, NEW j \in 0 .. k - 1, dir'[k] # NoFile, dir'[j] = NoFile
      PROVE  GapAt(j)'
  <2>1. k # 0 /\ j \in Positions
    BY FileAssumption DEF Positions
  <2>2. dir[k] # NoFile /\ dir[j] = NoFile
    BY <1>5, <2>1
  <2>3. GapAt(j)
    BY <1>1, <2>2 DEF ChainInv
  <2> QED BY <2>3 DEF GapAt
<1> QED BY <1>3, <1>4, <1>5 DEF ChainInv

LEMMA SameLines ==
    ASSUME LinesInv, Worse, written' = written,
           \A k \in Positions : Content(k)' = Content(k)
    PROVE  LinesInv'
<1> SUFFICES ASSUME InTurn' PROVE LinesInv'
  BY DEF LinesInv
<1>1. PICK e : Numbered(e) /\ (past = "fine" => KeptEnough(e))
  BY DEF LinesInv, Worse, InTurn
<1>2. Numbered(e)' /\ (KeptEnough(e)' <=> KeptEnough(e))
  BY <1>1, SameContents
<1> QED BY <1>1, <1>2 DEF LinesInv, Worse

\* A thread that writes or rotates is alone in doing so.
LEMMA Alone ==
    ASSUME Exclusive, past \in {"fine", "failed", "shared"}, NEW t \in Threads, pc[t] \in Section
    PROVE  \A u \in Threads : pc[u] \in Section => u = t
BY DEF Exclusive

\* And it writes to the newest file.
LEMMA WritesNewest ==
    ASSUME SemInv, Exclusive, DirInv, InTurn, NEW t \in Threads, pc[t] = "write",
           fp[t[1]] # NoFile
    PROVE  fp[t[1]] = dir[0]
<1>1. life[t[1]] = "up" /\ past \in {"fine", "failed", "shared"}
  BY DEF SemInv, InsideIsUp, InTurn
<1>2. \A u \in Threads : ~Rotating(u)
  BY <1>1, Alone DEF Section, Rotating
<1> QED BY <1>1, <1>2, ThreadOfProcess DEF DirInv, NewestFile

\* A line at the end of the newest file.
LEMMA WritingLines ==
    ASSUME LinesInv, Worse, FileTypes, written' = written + 1,
           Content(0)' = Append(Content(0), written + 1), Len(Content(0)) <= MaxSize,
           \A k \in Positions \ {0} : Content(k)' = Content(k)
    PROVE  LinesInv'
<1> SUFFICES ASSUME InTurn' PROVE LinesInv'
  BY DEF LinesInv
<1>1. PICK e : Numbered(e) /\ (past = "fine" => KeptEnough(e))
  BY DEF LinesInv, Worse, InTurn
<1>2. PICK f : Numbered(f)' /\ \A k \in 1 .. Rotations + 1 : f[k] = e[k]
  BY <1>1, AppendedContents DEF FileTypes
<1>3. ASSUME past' = "fine" PROVE KeptEnough(f)'
  <2>1. KeptEnough(e)
    BY <1>1, <1>3 DEF Worse
  <2>2. f[Rotations + 1] = e[Rotations + 1]
    BY <1>2, FileAssumption
  <2>3. CASE e[Rotations + 1] = 0
    BY <2>2, <2>3 DEF KeptEnough
  <2>4. ASSUME NEW g \in Positions, \A k \in Positions \ {g} : FullAt(k)
        PROVE  KeptEnough(f)'
    <3>1. 0 \in Positions /\ ~FullAt(0)
      BY FileAssumption, ContentType DEF FullAt, Positions
    <3>2. g = 0
      BY <2>4, <3>1
    <3>3. \A k \in Positions \ {0} : FullAt(k)'
      BY <2>4, <3>2 DEF FullAt
    <3> QED BY <3>1, <3>3 DEF KeptEnough
  <2> QED BY <2>1, <2>3, <2>4 DEF KeptEnough
<1> QED BY <1>2, <1>3 DEF LinesInv

LEMMA WriteOrder ==
    ASSUME OrderInv, SemInv, Exclusive, FileInv, Worse, NEW t \in Threads, Write(t)
    PROVE  ChainInv' /\ LinesInv'
<1> USE ThreadOfProcess
<1> DEFINE i == fp[t[1]]
<1>1. /\ pc[t] = "write" /\ pc' = [pc EXCEPT ![t] = "idle"] /\ i # NoFile
      /\ lines' = [lines EXCEPT ![i] = Append(lines[i], written + 1)]
      /\ Len(lines[i]) <= MaxSize
      /\ written' = written + 1 /\ UNCHANGED <<dir, past>>
  <2>1. Len(lines[i]) \in Nat
    BY DEF FileInv, FileTypes, Write, Entries
  <2> QED BY <2>1, FileAssumption DEF Write, Step, Full
<1>2. CASE ~InTurn
  BY <1>1, <1>2 DEF ChainInv, LinesInv, InTurn
<1>3. CASE InTurn
  <2>1. i = dir[0] /\ 0 \in Positions /\ i \in Inodes
    BY <1>1, <1>3, WritesNewest, FileAssumption
    DEF OrderInv, Positions, FileInv, FileTypes, Entries
  <2>2. /\ Content(0)' = Append(Content(0), written + 1) /\ Len(Content(0)) <= MaxSize
        /\ \A k \in Positions \ {0} : Content(k)' = Content(k)
    BY <1>1, <2>1 DEF Content, FileInv, FileTypes, Entries, OrderInv, DirInv, Places
  <2>3. LinesInv'
    BY <1>1, <2>2, WritingLines DEF OrderInv, FileInv
  <2>4. ChainInv'
    <3> SUFFICES ASSUME past' = "fine" PROVE ChainInv'
      BY DEF ChainInv
    <3>1. \A u \in Threads : pc'[u] \notin {"rotate", "reopen", "reopenFailed"}
                             /\ pc[u] \notin {"rotate", "reopen", "reopenFailed"}
      BY <1>1, Alone DEF Section, SemInv, SemTypes
    <3>2. \A k \in Positions \ {0} : dir'[k] # NoFile => FullAt(k)'
      BY <1>1, <2>2 DEF OrderInv, ChainInv, FullAt
    <3>3. \A k \in Positions : \A j \in 0 .. k - 1 : ~(dir'[k] # NoFile /\ dir'[j] = NoFile)
      BY <1>1, <3>1 DEF OrderInv, ChainInv, GapAt
    <3> QED BY <3>1, <3>2, <3>3 DEF ChainInv
  <2> QED BY <2>3, <2>4
<1> QED BY <1>2, <1>3

LEMMA ReopenOrder ==
    ASSUME OrderInv, SemInv, Exclusive, FileInv, Worse, NEW t \in Threads, Reopen(t)
    PROVE  ChainInv' /\ LinesInv'
<1> USE ThreadOfProcess
<1>1. /\ pc[t] = "reopen" /\ pc' = [pc EXCEPT ![t] = "idle"] /\ Open(t[1])
      /\ written' = written + 1 /\ past' = past
  BY DEF Reopen, Step
<1>2. CASE past \notin {"fine", "failed", "shared"}
  BY <1>1, <1>2 DEF ChainInv, LinesInv, InTurn
<1>3. CASE past \in {"fine", "failed", "shared"}
  <2>1. dir[0] = NoFile /\ 0 \in Positions /\ FileTypes
    BY <1>1, <1>3, FileAssumption DEF FileInv, Positions
  <2>2. /\ dir'[0] \in Unused /\ dir'[0] \in Inodes
        /\ \A k \in Positions \ {0} : dir'[k] = dir[k]
    BY <1>1, <2>1, OpenFiles
  <2>3. lines'[dir'[0]] = Append(lines[dir'[0]], written + 1) /\ lines[dir'[0]] = <<>>
    <3>1. lines[dir'[0]] = <<>>
      BY <2>2 DEF FileInv
    <3>2. dir'[0] \notin Unused'
      BY <2>1 DEF Unused
    <3>3. ASSUME NEW i \in Inodes, i = dir'[0]
          PROVE  lines'[i] = Append(lines[i], written + 1)
      BY <3>2, <3>3 DEF Reopen
    <3> QED BY <2>2, <3>1, <3>3
  <2>4. Content(0) = <<>> /\ Content(0)' = Append(<<>>, written + 1)
    BY <2>1, <2>2, <2>3, NoFileAssumption DEF Content
  <2>5. ASSUME NEW k \in Positions \ {0} PROVE Content(k)' = Content(k)
    <3>1. CASE dir[k] = NoFile
      BY <2>2, <3>1 DEF Content
    <3>2. CASE dir[k] # NoFile
      <4>1. dir[k] \in Inodes /\ dir[k] # dir'[0] /\ dir[k] \notin Unused'
        BY <2>1, <2>2, <3>2 DEF FileTypes, Entries, Unused
      <4>2. lines'[dir[k]] = lines[dir[k]]
        BY <4>1 DEF Reopen
      <4> QED BY <2>2, <3>2, <4>2 DEF Content
    <3> QED BY <3>1, <3>2
  <2>6. LinesInv'
    <3>1. Len(Content(0)) <= MaxSize
      BY <2>4, FileAssumption
    <3> QED BY <1>1, <2>1, <2>4, <2>5, <3>1, WritingLines DEF OrderInv
  <2>7. ChainInv'
    <3> SUFFICES ASSUME past' = "fine" PROVE ChainInv'
      BY DEF ChainInv
    <3>1. \A u \in Threads : pc'[u] \notin {"rotate", "reopen", "reopenFailed"}
                             /\ (u # t => pc[u] \notin {"rotate", "reopen", "reopenFailed"})
      BY <1>1, <1>3, Alone DEF Section, SemInv, SemTypes
    <3>2. \A k \in Positions \ {0} : dir'[k] # NoFile => FullAt(k)'
      BY <1>1, <2>2, <2>5 DEF OrderInv, ChainInv, FullAt
    <3>3. ASSUME NEW k \in Positions, NEW j \in 0 .. k - 1, dir'[k] # NoFile, dir'[j] = NoFile
          PROVE  FALSE
      <4>1. j # 0 /\ k # 0 /\ j \in Positions
        BY <2>2, <3>3, NoFileAssumption, FileAssumption DEF Positions
      <4>2. dir[k] # NoFile /\ dir[j] = NoFile
        BY <2>2, <3>3, <4>1
      <4>3. GapAt(j)
        BY <1>1, <4>2 DEF OrderInv, ChainInv
      <4> QED BY <1>1, <3>1, <4>1, <4>3 DEF GapAt
    <3> QED BY <3>1, <3>2, <3>3 DEF ChainInv
  <2> QED BY <2>6, <2>7
<1> QED BY <1>2, <1>3

\* What a step of a rotation does to the directory.
LEMMA Moved ==
    ASSUME FileInv, NEW t \in Threads, RotateOne(t), NEW n, n = rot[t]
    PROVE  /\ n \in 0 .. Rotations - 1 /\ n \in Positions /\ n + 1 \in Positions
           /\ n + 1 # n
           /\ dir'[n] = NoFile /\ dir'[n + 1] = dir[n]
           /\ \A k \in Positions \ {n, n + 1} : dir'[k] = dir[k]
           /\ Content(n)' = <<>> /\ Content(n + 1)' = Content(n)
           /\ \A k \in Positions \ {n, n + 1} : Content(k)' = Content(k)
<1>1. n \in 0 .. Rotations - 1 /\ n \in Positions /\ n + 1 \in Positions /\ n + 1 # n
  BY FileAssumption DEF FileInv, FileTypes, Positions
<1>2. dir' = [dir EXCEPT ![n + 1] = dir[n], ![n] = NoFile] /\ Free
  BY DEF RotateOne
<1>3. /\ dir'[n] = NoFile /\ dir'[n + 1] = dir[n]
      /\ \A k \in Positions \ {n, n + 1} : dir'[k] = dir[k]
  BY <1>1, <1>2 DEF FileInv, FileTypes
<1>4. Content(n)' = <<>> /\ Content(n + 1)' = Content(n)
  <2>1. Content(n + 1)' = Content(n)
    BY <1>1, <1>2, <1>3, FreeContent DEF FileInv
  <2> QED BY <1>3, <2>1 DEF Content
<1>5. \A k \in Positions \ {n, n + 1} : Content(k)' = Content(k)
  BY <1>2, <1>3, FreeContent DEF FileInv
<1> QED BY <1>1, <1>3, <1>4, <1>5

\* The numbers at the ends of the files, after a file has moved up by one place: the
\* place was empty, or the last one.
LEMMA MovedNumbers ==
    ASSUME NEW e, Numbered(e), written' = written, NEW n \in 0 .. Rotations - 1,
           n = Rotations - 1 \/ Content(n + 1) = <<>>,
           Content(n)' = <<>>, Content(n + 1)' = Content(n),
           \A k \in Positions \ {n, n + 1} : Content(k)' = Content(k)
    PROVE  \E f : /\ Numbered(f)'
                  /\ f[Rotations + 1] = IF n = Rotations - 1 THEN e[Rotations]
                                                             ELSE e[Rotations + 1]
<1>1. Rotations \in Nat \ {0} /\ e \in [0 .. Rotations + 1 -> Nat] /\ e[0] = written
  BY FileAssumption DEF Numbered
<1>2. PICK f : f = [e EXCEPT ![n + 1] = e[n], ![n + 2] = e[n + 1]]
  OBVIOUS
<1>3. n \in Nat /\ n \in Positions /\ n + 1 \in Positions
      /\ n \in 0 .. Rotations + 1 /\ n + 1 \in 0 .. Rotations + 1 /\ n + 2 \in 0 .. Rotations + 1
  BY <1>1 DEF Positions
<1>4. /\ f \in [0 .. Rotations + 1 -> Nat] /\ f[n + 1] = e[n] /\ f[n + 2] = e[n + 1]
      /\ \A k \in 0 .. Rotations + 1 : k # n + 1 /\ k # n + 2 => f[k] = e[k]
  BY <1>1, <1>2, <1>3
<1>5. ASSUME n # Rotations - 1
      PROVE  n + 2 \in Positions /\ e[n + 2] = e[n + 1]
  <2>1. n + 2 \in Positions /\ (n + 1) + 1 = n + 2
    BY <1>1, <1>5 DEF Positions
  <2>2. Run(<<>>, e[n + 2], e[n + 1])
    BY <1>3, <1>5, <2>1 DEF Numbered
  <2> QED BY <1>1, <1>3, <2>1, <2>2 DEF Run
<1>6. ASSUME NEW k \in Positions
      PROVE  Run(Content(k)', f[k + 1], f[k])
  <2>1. k \in 0 .. Rotations + 1 /\ k + 1 \in 0 .. Rotations + 1
    BY <1>1 DEF Positions
  <2>2. CASE k = n
    <3>1. f[k + 1] = f[k] /\ f[k] \in Nat
      BY <1>1, <1>3, <1>4, <2>2
    <3> QED BY <2>2, <3>1 DEF Run
  <2>3. CASE k = n + 1
    <3>1. Run(Content(n), e[n + 1], e[n])
      BY <1>3 DEF Numbered
    <3>2. k + 1 = n + 2
      BY <1>3, <2>3
    <3> QED BY <1>4, <2>3, <3>1, <3>2
  <2>4. CASE k # n /\ k # n + 1
    <3>1. Run(Content(k), e[k + 1], e[k]) /\ Content(k)' = Content(k)
      BY <2>4 DEF Numbered
    <3>2. f[k + 1] = e[k + 1]
      <4>1. k + 1 # n + 1 /\ k + 1 # n + 2
        BY <1>3, <2>1, <2>4
      <4> QED BY <1>4, <2>1, <4>1
    <3>3. f[k] = e[k]
      <4>1. CASE k = n + 2
        <5>1. n # Rotations - 1
          BY <1>1, <1>3, <4>1 DEF Positions
        <5> QED BY <1>4, <1>5, <4>1, <5>1
      <4>2. CASE k # n + 2
        BY <1>4, <2>1, <2>4, <4>2
      <4> QED BY <4>1, <4>2
    <3> QED BY <3>1, <3>2, <3>3
  <2> QED BY <2>2, <2>3, <2>4
<1>7. f[0] = written
  <2>1. 0 \in 0 .. Rotations + 1 /\ 0 # n + 1 /\ 0 # n + 2
    BY <1>1, <1>3
  <2> QED BY <1>1, <1>4, <2>1
<1>8. Numbered(f)'
  BY <1>4, <1>6, <1>7 DEF Numbered
<1>9. f[Rotations + 1] = IF n = Rotations - 1 THEN e[Rotations] ELSE e[Rotations + 1]
  <2>1. CASE n = Rotations - 1
    <3>1. n + 2 = Rotations + 1 /\ n + 1 = Rotations
      BY <1>1, <2>1
    <3> QED BY <1>4, <2>1, <3>1
  <2>2. CASE n # Rotations - 1
    <3>1. Rotations + 1 \in 0 .. Rotations + 1 /\ Rotations + 1 # n + 1
      BY <1>1
    <3>2. Rotations + 1 # n + 2
      BY <1>1, <1>3, <2>2
    <3> QED BY <1>4, <2>2, <3>1, <3>2
  <2> QED BY <2>1, <2>2
<1> QED BY <1>8, <1>9

\* And after a file has only been removed.
LEMMA RemovedNumbers ==
    ASSUME NEW e, Numbered(e), written' = written, NEW n \in 0 .. Rotations - 1,
           n = Rotations - 1 \/ Content(n + 1) = <<>>,
           Content(n + 1)' = <<>>,
           \A k \in Positions \ {n + 1} : Content(k)' = Content(k)
    PROVE  \E f : Numbered(f)'
<1>1. Rotations \in Nat \ {0} /\ e \in [0 .. Rotations + 1 -> Nat] /\ e[0] = written
  BY FileAssumption DEF Numbered
<1>2. CASE Content(n + 1) = <<>>
  <2>1. \A k \in Positions : Content(k)' = Content(k)
    BY <1>2
  <2> QED BY <2>1, SameContents
<1>3. CASE n = Rotations - 1
  <2>1. PICK f : f = [e EXCEPT ![Rotations + 1] = e[Rotations]]
    OBVIOUS
  <2>2. Rotations \in 0 .. Rotations + 1 /\ Rotations + 1 \in 0 .. Rotations + 1 /\ n + 1 = Rotations
    BY <1>1, <1>3
  <2>3. /\ f \in [0 .. Rotations + 1 -> Nat] /\ f[Rotations + 1] = e[Rotations]
        /\ \A k \in 0 .. Rotations : f[k] = e[k]
    BY <1>1, <2>1, <2>2
  <2>4. ASSUME NEW k \in Positions
        PROVE  Run(Content(k)', f[k + 1], f[k])
    <3>1. CASE k = Rotations
      <4>1. f[k + 1] = f[k] /\ f[k] \in Nat
        BY <1>1, <2>2, <2>3, <3>1
      <4>2. k = n + 1
        BY <2>2, <3>1
      <4>3. Content(k)' = <<>>
        BY <4>2
      <4> QED BY <4>1, <4>3 DEF Run
    <3>2. CASE k # Rotations
      <4>1. k \in 0 .. Rotations /\ k + 1 \in 0 .. Rotations
        BY <1>1, <3>2 DEF Positions
      <4>2. Run(Content(k), e[k + 1], e[k]) /\ Content(k)' = Content(k)
        BY <2>2, <3>2 DEF Numbered
      <4> QED BY <2>3, <4>1, <4>2
    <3> QED BY <3>1, <3>2
  <2>5. f[0] = written
    BY <1>1, <2>3
  <2>6. Numbered(f)'
    BY <2>3, <2>4, <2>5 DEF Numbered
  <2> QED BY <2>6
<1> QED BY <1>2, <1>3

\* Nobody but the rotating thread has left a place free.
LEMMA OwnGap ==
    ASSUME Exclusive, past \in {"fine", "failed", "shared"}, NEW t \in Threads, pc[t] = "rotate", NEW j, GapAt(j)
    PROVE  j = rot[t] + 1
BY Alone DEF GapAt, Section

\* Room is made for the file that moves: a place that was empty, or the last one.
LEMMA PlaceAbove ==
    ASSUME DirInv, past \in {"fine", "failed", "shared"}, NEW t \in Threads, pc[t] = "rotate", NEW n, n = rot[t]
    PROVE  n = Rotations - 1 \/ Content(n + 1) = <<>>
BY DEF DirInv, Room, Content

LEMMA RotateChain ==
    ASSUME OrderInv, SemInv, Exclusive, FileInv, Worse, NEW t \in Threads, RotateOne(t)
    PROVE  ChainInv'
<1>1. PICK n : n = rot[t]
  OBVIOUS
<1>2. /\ n \in 0 .. Rotations - 1 /\ n \in Positions /\ n + 1 \in Positions /\ n + 1 # n
      /\ dir'[n] = NoFile /\ dir'[n + 1] = dir[n]
      /\ \A k \in Positions \ {n, n + 1} : dir'[k] = dir[k]
      /\ Content(n)' = <<>> /\ Content(n + 1)' = Content(n)
      /\ \A k \in Positions \ {n, n + 1} : Content(k)' = Content(k)
  BY <1>1, Moved
<1>3. /\ pc[t] = "rotate" /\ pc' = [pc EXCEPT ![t] = IF n = 0 THEN "reopen" ELSE "rotate"]
      /\ rot' = [rot EXCEPT ![t] = IF n = 0 THEN 0 ELSE n - 1]
  BY <1>1 DEF RotateOne, Step
<1> SUFFICES ASSUME past' = "fine" PROVE ChainInv'
  BY DEF ChainInv
<1>4. past = "fine"
  BY DEF Worse
<1>5. \A u \in Threads : pc[u] \in Section => u = t
  BY <1>3, <1>4, Alone DEF Section
<1>6. pc'[t] = IF n = 0 THEN "reopen" ELSE "rotate"
  BY <1>3 DEF SemInv, SemTypes
<1>7. FullAt(0) /\ \A k \in Positions \ {0} : dir[k] # NoFile => FullAt(k)
  BY <1>3, <1>4 DEF OrderInv, ChainInv
<1>8. ASSUME NEW k \in Positions \ {0}, dir'[k] # NoFile
      PROVE  FullAt(k)'
  <2>1. CASE k = n + 1
    <3>1. FullAt(n)
      BY <1>2, <1>7, <1>8, <2>1
    <3>2. FullAt(n + 1)'
      BY <1>2, <3>1 DEF FullAt
    <3> QED BY <2>1, <3>2
  <2>2. CASE k # n + 1
    <3>1. k # n
      BY <1>2, <1>8
    <3> QED BY <1>2, <1>7, <1>8, <2>2, <3>1 DEF FullAt
  <2> QED BY <2>1, <2>2
<1>9. ASSUME NEW u \in Threads, pc'[u] = "rotate"
      PROVE  FullAt(0)'
  <2>1. n # 0
    BY <1>3, <1>5, <1>6, <1>9 DEF Section, SemInv, SemTypes
  <2>2. 0 \in Positions /\ 0 # n + 1
    BY <1>2, FileAssumption DEF Positions
  <2> QED BY <1>2, <1>7, <2>1, <2>2 DEF FullAt
<1>10. \A u \in Threads : pc'[u] # "reopenFailed"
  BY <1>3, <1>4 DEF OrderInv, ChainInv, SemInv, SemTypes
<1>11. ASSUME NEW k \in Positions, NEW j \in 0 .. k - 1, dir'[k] # NoFile, dir'[j] = NoFile
       PROVE  GapAt(j)'
  <2>1. j \in Positions /\ k # n /\ j \in Nat /\ k \in Nat /\ j < k
    BY <1>2, <1>11, FileAssumption DEF Positions
  <2>2. j = n
    <3> SUFFICES ASSUME j # n PROVE FALSE
      OBVIOUS
    <3>1. PICK i \in Positions : i < k /\ dir[i] = NoFile /\ i # n + 1
                                 /\ (k = n + 1 => i < n)
      <4>1. CASE j = n + 1
        <5>1. n < k /\ dir[n] = NoFile /\ n # n + 1
          BY <1>2, <1>11, <2>1, <4>1
        <5> QED BY <1>2, <2>1, <4>1, <5>1
      <4>2. CASE j # n + 1
        <5>1. dir[j] = NoFile
          BY <1>2, <1>11, <2>1, <4>2
        <5>2. k = n + 1 => j < n
          BY <1>2, <2>1
        <5> QED BY <2>1, <4>2, <5>1, <5>2
      <4> QED BY <4>1, <4>2
    <3>2. PICK h \in Positions : dir[h] # NoFile /\ i \in 0 .. h - 1
      <4>1. CASE k = n + 1
        <5>1. dir[n] # NoFile /\ i \in 0 .. n - 1
          BY <1>2, <1>11, <3>1, <4>1 DEF Positions
        <5> QED BY <1>2, <5>1
      <4>2. CASE k # n + 1
        <5>1. dir[k] # NoFile /\ i \in 0 .. k - 1
          BY <1>2, <1>11, <2>1, <3>1, <4>2 DEF Positions
        <5> QED BY <5>1
      <4> QED BY <4>1, <4>2
    <3>3. GapAt(i)
      BY <1>4, <3>1, <3>2 DEF OrderInv, ChainInv
    <3> QED BY <1>1, <1>3, <1>4, <3>1, <3>3, OwnGap
  <2>3. CASE n = 0
    BY <1>6, <2>2, <2>3 DEF GapAt
  <2>4. CASE n # 0
    <3>1. rot'[t] = n - 1 /\ (n - 1) + 1 = n
      BY <1>2, <1>3, <2>4 DEF FileInv, FileTypes
    <3>2. j = rot'[t] + 1
      BY <2>2, <3>1
    <3> QED BY <1>6, <2>4, <3>2 DEF GapAt
  <2> QED BY <2>3, <2>4
<1> QED BY <1>8, <1>9, <1>10, <1>11 DEF ChainInv

LEMMA RotateLines ==
    ASSUME OrderInv, SemInv, Exclusive, FileInv, Worse, NEW t \in Threads, RotateOne(t)
    PROVE  LinesInv'
<1>1. PICK n : n = rot[t]
  OBVIOUS
<1>2. /\ n \in 0 .. Rotations - 1 /\ n \in Positions /\ n + 1 \in Positions /\ n + 1 # n
      /\ dir'[n] = NoFile /\ dir'[n + 1] = dir[n]
      /\ \A k \in Positions \ {n, n + 1} : dir'[k] = dir[k]
      /\ Content(n)' = <<>> /\ Content(n + 1)' = Content(n)
      /\ \A k \in Positions \ {n, n + 1} : Content(k)' = Content(k)
  BY <1>1, Moved
<1>3. pc[t] = "rotate" /\ written' = written
  BY DEF RotateOne, Step, history
<1> SUFFICES ASSUME InTurn' PROVE LinesInv'
  BY DEF LinesInv
<1>4. InTurn /\ past \in {"fine", "failed", "shared"}
  BY DEF Worse, InTurn
<1>5. PICK e : Numbered(e) /\ (past = "fine" => KeptEnough(e))
  BY <1>4 DEF OrderInv, LinesInv
<1>6. n = Rotations - 1 \/ Content(n + 1) = <<>>
  BY <1>1, <1>3, <1>4, PlaceAbove DEF OrderInv
<1>7. PICK f : Numbered(f)' /\ f[Rotations + 1] = IF n = Rotations - 1 THEN e[Rotations]
                                                                      ELSE e[Rotations + 1]
  BY <1>2, <1>3, <1>5, <1>6, MovedNumbers
<1>8. ASSUME \A k \in Positions \ {n + 1} : FullAt(k)
      PROVE  KeptEnough(f)'
  <2>1. FullAt(n + 1)'
    BY <1>2, <1>8 DEF FullAt
  <2>2. \A k \in Positions \ {n, n + 1} : FullAt(k)'
    BY <1>2, <1>8 DEF FullAt
  <2> QED BY <1>2, <2>1, <2>2 DEF KeptEnough
<1>9. ASSUME Content(n + 1) = <<>>, KeptEnough(e), f[Rotations + 1] = e[Rotations + 1]
      PROVE  KeptEnough(f)'
  <2>1. CASE e[Rotations + 1] = 0
    BY <1>9, <2>1 DEF KeptEnough
  <2>2. ASSUME NEW g \in Positions, \A k \in Positions \ {g} : FullAt(k)
        PROVE  KeptEnough(f)'
    <3>1. ~FullAt(n + 1)
      BY <1>9, FileAssumption DEF FullAt
    <3>2. g = n + 1
      BY <1>2, <2>2, <3>1
    <3> QED BY <1>8, <2>2, <3>2
  <2> QED BY <1>9, <2>1, <2>2 DEF KeptEnough
<1>10. ASSUME past' = "fine"
       PROVE  KeptEnough(f)'
  <2>1. past = "fine" /\ KeptEnough(e)
    BY <1>5, <1>10 DEF Worse
  <2>2. CASE n # Rotations - 1
    BY <1>6, <1>7, <1>9, <2>1, <2>2
  <2>3. CASE n = Rotations - 1
    <3>1. n + 1 = Rotations /\ Rotations \in Nat \ {0} /\ Rotations \in Positions
      BY <1>2, <2>3, FileAssumption
    <3>2. CASE dir[Rotations] = NoFile
      <4>1. Content(Rotations) = <<>>
        BY <3>2 DEF Content
      <4>2. e[Rotations + 1] = e[Rotations]
        <5>1. Run(<<>>, e[Rotations + 1], e[Rotations])
          BY <1>5, <3>1, <4>1 DEF Numbered
        <5>2. e[Rotations + 1] \in Nat /\ e[Rotations] \in Nat
          BY <1>5, <3>1 DEF Numbered
        <5> QED BY <5>1, <5>2 DEF Run
      <4> QED BY <1>7, <1>9, <2>1, <2>3, <3>1, <4>1, <4>2
    <3>3. CASE dir[Rotations] # NoFile
      <4>1. ASSUME NEW k \in Positions, k # Rotations
            PROVE  dir[k] # NoFile
        <5> SUFFICES ASSUME dir[k] = NoFile PROVE FALSE
          OBVIOUS
        <5>1. k \in 0 .. Rotations - 1
          BY <3>1, <4>1 DEF Positions
        <5>2. GapAt(k)
          BY <2>1, <3>1, <3>3, <5>1 DEF OrderInv, ChainInv
        <5> QED BY <1>1, <1>3, <1>4, <3>1, <4>1, <5>2, OwnGap
      <4>2. \A k \in Positions : FullAt(k)
        BY <1>3, <2>1, <3>3, <4>1 DEF OrderInv, ChainInv
      <4> QED BY <1>8, <4>2
    <3> QED BY <3>2, <3>3
  <2> QED BY <2>2, <2>3
<1> QED BY <1>7, <1>10 DEF LinesInv

LEMMA RenameFailsOrder ==
    ASSUME OrderInv, SemInv, Exclusive, FileInv, Worse, NEW t \in Threads, RenameFails(t)
    PROVE  ChainInv' /\ LinesInv'
<1>1. PICK n : n = rot[t]
  OBVIOUS
<1>2. /\ n \in 0 .. Rotations - 1 /\ n \in Positions /\ n + 1 \in Positions
  BY <1>1, FileAssumption DEF FileInv, FileTypes, Positions
<1>3. /\ pc[t] = "rotate" /\ written' = written /\ Happens("failed") /\ Free
      /\ dir' = [dir EXCEPT ![n + 1] = NoFile]
  BY <1>1 DEF RenameFails, Step
<1>4. past' # "fine"
  BY <1>3 DEF Happens, Rank, Ranks, SemInv, SemTypes
<1>5. ChainInv'
  BY <1>4 DEF ChainInv
<1> SUFFICES ASSUME InTurn' PROVE LinesInv'
  BY <1>5 DEF LinesInv
<1>6. InTurn /\ past \in {"fine", "failed", "shared"}
  BY DEF Worse, InTurn
<1>7. PICK e : Numbered(e)
  BY <1>6 DEF OrderInv, LinesInv
<1>8. n = Rotations - 1 \/ Content(n + 1) = <<>>
  BY <1>1, <1>3, <1>6, PlaceAbove DEF OrderInv
<1>9. dir'[n + 1] = NoFile /\ \A k \in Positions \ {n + 1} : dir'[k] = dir[k]
  BY <1>2, <1>3 DEF FileInv, FileTypes
<1>10. \A k \in Positions \ {n + 1} : Content(k)' = Content(k)
  BY <1>3, <1>9, FreeContent DEF FileInv
<1>11. Content(n + 1)' = <<>>
  BY <1>9 DEF Content
<1>12. \E f : Numbered(f)'
  BY <1>2, <1>3, <1>7, <1>8, <1>10, <1>11, RemovedNumbers
<1> QED BY <1>4, <1>12 DEF LinesInv

\* After a step that is not in turn any more there is nothing to show.
LEMMA OutOfTurn ==
    ASSUME past' \notin {"fine", "failed"}
    PROVE  ChainInv' /\ LinesInv'
BY DEF ChainInv, LinesInv, InTurn

LEMMA OrderStep ==
    ASSUME OrderInv, SemInv, Exclusive, FileInv, [Next]_vars
    PROVE  OrderInv'
<1> USE ThreadOfProcess
<1>1. Worse
  BY StepWorsens DEF SemInv
<1>2. DirInv'
  BY <1>1, DirStep DEF OrderInv
<1>3. FileTypes /\ ChainInv /\ LinesInv /\ DirInv
  BY DEF OrderInv, FileInv
<1>4. ASSUME UNCHANGED <<files, written>>,
             past' = "fine" => \A t \in Threads :
                 /\ pc'[t] = "rotate" => pc[t] = "rotate" \/ FullAt(0)
                 /\ pc'[t] = "reopenFailed" => pc[t] = "reopenFailed"
                 /\ pc[t] \in {"rotate", "reopen"} => pc'[t] = pc[t] /\ rot'[t] = rot[t]
      PROVE  ChainInv' /\ LinesInv'
  <2>1. dir' = dir /\ \A k \in Positions : Content(k)' = Content(k)
    BY <1>4 DEF files, Content
  <2> QED BY <1>1, <1>3, <1>4, <2>1, SameChain, SameLines
<1>5. CASE UNCHANGED vars
  BY <1>2, <1>4, <1>5 DEF vars, history, OrderInv
<1>6. ASSUME NEW p \in Processes, Start(p)
      PROVE  ChainInv' /\ LinesInv'
  BY <1>4, <1>6 DEF Start, CreateSem, RaiseSem, OpenSem, GiveUpSem, history
<1>7. ASSUME NEW p \in Processes, Config(p)
      PROVE  ChainInv' /\ LinesInv'
  <2>1. UNCHANGED <<pc, rot, written>>
    BY <1>7 DEF Config, Configure, ConfigureInterrupted, ConfigureFails
  <2>2. CASE Open(p) /\ UNCHANGED lines
    <3>1. /\ \A k \in Positions \ {0} : dir'[k] = dir[k]
          /\ dir'[0] # NoFile
      BY <1>3, <2>2, OpenFiles, NoFileAssumption
    <3>2. \A k \in Positions : Content(k)' = Content(k)
      BY <1>3, <2>2, OpenContent DEF DirInv, OrderInv
    <3> QED BY <1>1, <1>3, <2>1, <3>1, <3>2, SameChain, SameLines
  <2>3. CASE UNCHANGED files
    BY <1>4, <2>1, <2>3
  <2> QED BY <1>7, <2>2, <2>3 DEF Config, Configure, ConfigureInterrupted, ConfigureFails
<1>8. ASSUME NEW p \in Processes, Deinit(p) \/ End(p)
      PROVE  ChainInv' /\ LinesInv'
  <2>1. dir' = dir /\ Free /\ written' = written
    BY <1>8 DEF Deinit, End
  <2>2. \A k \in Positions : Content(k)' = Content(k)
    BY <1>3, <2>1, FreeContent
  <2>3. ASSUME past' = "fine", NEW t \in Threads
        PROVE  /\ pc'[t] \in {"rotate", "reopenFailed"} => pc'[t] = pc[t]
               /\ pc[t] \in {"rotate", "reopen"} => pc'[t] = pc[t] /\ rot'[t] = rot[t]
    <3>1. CASE Deinit(p)
      BY <3>1 DEF Deinit
    <3>2. CASE End(p)
      <4>1. ~(t[1] = p /\ pc[t] \in Section \ {"write"})
        BY <2>3, <3>2 DEF End, HappensIf, Happens, Rank, Ranks, SemInv, SemTypes
      <4> QED BY <3>2, <4>1 DEF End, Section
    <3> QED BY <1>8, <3>1, <3>2
  <2> QED BY <1>1, <1>3, <2>1, <2>2, <2>3, SameChain, SameLines
<1>9. ASSUME NEW t \in Threads, Call(t) \/ Lock(t) \/ LockInterrupted(t) \/ RotateSkips(t)
      PROVE  ChainInv' /\ LinesInv'
  <2>1. CASE Call(t) \/ Lock(t)
    BY <1>4, <2>1 DEF Call, Lock, Step, history, SemInv, SemTypes
  <2>2. CASE LockInterrupted(t) \/ RotateSkips(t)
    <3>1. "interrupted" \in Ranks /\ "skipped" \in Ranks
      BY DEF Ranks
    <3>2. past' \notin {"fine", "failed"}
      BY <2>2, <3>1, PastWorsens DEF LockInterrupted, RotateSkips, SemInv, SemTypes
    <3> QED BY <3>2, OutOfTurn
  <2> QED BY <1>9, <2>1, <2>2
<1>10. ASSUME NEW t \in Threads, BeginRotation(t)
       PROVE  ChainInv' /\ LinesInv'
  <2>1. /\ pc[t] = "write" /\ pc' = [pc EXCEPT ![t] = "rotate"] /\ fp[t[1]] # NoFile
        /\ UNCHANGED <<files, written>> /\ \A u \in Threads \ {t} : rot'[u] = rot[u]
        /\ Len(lines[fp[t[1]]]) > MaxSize
    BY <1>10 DEF BeginRotation, Step, history, Full, FileInv, FileTypes
  <2>2. ASSUME past' = "fine" PROVE FullAt(0)
    <3>1. InTurn /\ past \in {"fine", "failed", "shared"}
      BY <1>1, <2>2 DEF Worse, InTurn
    <3>2. fp[t[1]] = dir[0] /\ dir[0] \in Inodes
      BY <1>3, <2>1, <3>1, WritesNewest DEF FileTypes, Entries
    <3>3. Len(lines[dir[0]]) <= MaxSize + 1 /\ Len(lines[dir[0]]) > MaxSize
          /\ Len(lines[dir[0]]) \in Nat
      BY <2>1, <3>1, <3>2 DEF FileInv, FileTypes
    <3> QED BY <2>1, <3>2, <3>3, FileAssumption DEF FullAt, Content
  <2> QED BY <1>4, <2>1, <2>2 DEF SemInv, SemTypes
<1>11. ASSUME NEW t \in Threads, ReopenDropping(t) \/ ReopenFails(t)
       PROVE  ChainInv' /\ LinesInv'
  <2>1. pc[t] = "reopenFailed" /\ written' = written /\ Free
    BY <1>11 DEF ReopenDropping, ReopenFails, Step, history
  <2>2. ChainInv'
    BY <1>1, <1>3, <2>1 DEF ChainInv, Worse
  <2>3. \A k \in Positions : Content(k)' = Content(k)
    <3>1. CASE ReopenDropping(t)
      BY <1>3, <2>1, <3>1, OpenContent DEF ReopenDropping, DirInv
    <3>2. CASE ReopenFails(t)
      BY <1>3, <2>1, <3>2, FreeContent DEF ReopenFails
    <3> QED BY <1>11, <3>1, <3>2
  <2> QED BY <1>1, <1>3, <2>1, <2>2, <2>3, SameLines
<1>12. ASSUME NEW p \in Processes, Start(p) \/ Config(p) \/ Deinit(p) \/ Kill(p)
       PROVE  OrderInv'
  BY <1>2, <1>6, <1>7, <1>8, <1>12 DEF Kill, OrderInv
<1>13. ASSUME NEW t \in Threads, Call(t) \/ WriteStep(t)
       PROVE  OrderInv'
  BY <1>1, <1>2, <1>8, <1>9, <1>10, <1>11, <1>13,
     WriteOrder, ReopenOrder, RotateChain, RotateLines, RenameFailsOrder
  DEF WriteStep, WriteToNull, ReopenCrashes, OrderInv
<1> QED BY <1>5, <1>12, <1>13 DEF Next

LEMMA OrderInit == Init => OrderInv
<1> SUFFICES ASSUME Init PROVE OrderInv
  OBVIOUS
<1>1. \A k \in Positions : dir[k] = NoFile /\ Content(k) = <<>>
  BY DEF Init, Content
<1>2. DirInv
  BY <1>1, ThreadOfProcess DEF Init, DirInv, Places, Room, OneUp, NewestFile
<1>3. ChainInv
  <2>1. \A k \in Positions : \A j \in 0 .. k - 1 : ~(dir[k] # NoFile)
    BY <1>1
  <2> QED BY <1>1, <2>1 DEF Init, ChainInv
<1>4. PICK e : e = [k \in 0 .. Rotations + 1 |-> 0]
  OBVIOUS
<1>5. /\ e \in [0 .. Rotations + 1 -> Nat] /\ e[0] = 0 /\ e[Rotations + 1] = 0
      /\ \A k \in Positions : e[k] = 0 /\ e[k + 1] = 0
  BY <1>4, FileAssumption DEF Positions
<1>6. Numbered(e)
  <2>1. Run(<<>>, 0, 0)
    BY DEF Run
  <2> QED BY <1>1, <1>5, <2>1 DEF Init, Numbered
<1> QED BY <1>2, <1>3, <1>5, <1>6 DEF OrderInv, LinesInv, KeptEnough

LEMMA OrderInvariant == Spec => []OrderInv
BY OrderInit, OrderStep, SemInvariant, SemaphoreExcludes, FileInvariant, PTL DEF Spec

\* While processes follow each other, the files read from the oldest to the newest
\* are the last lines written, in order and without a gap, wherever a process is
\* killed and whichever renames fail: for any number of files, of any size.
THEOREM FilesContinue == Spec => []ArchiveIsSuffix
<1>1. OrderInv => ArchiveIsSuffix
  <2> SUFFICES ASSUME OrderInv, past \in {"fine", "failed"}
               PROVE  \A k \in 1 .. Len(Archive) : Archive[k] = (written - Len(Archive)) + k
    BY DEF ArchiveIsSuffix
  <2>1. PICK e : Numbered(e)
    BY DEF OrderInv, LinesInv, InTurn
  <2>2. Run(Archive, e[Rotations + 1], written)
    BY <2>1, NumberedArchive
  <2>3. written \in Nat /\ e[Rotations + 1] \in Nat
    <3>1. 0 \in 0 .. Rotations + 1 /\ Rotations + 1 \in 0 .. Rotations + 1
      BY FileAssumption
    <3> QED BY <2>1, <3>1 DEF Numbered
  <2> QED BY <2>2, <2>3 DEF Run
<1> QED BY <1>1, OrderInvariant, PTL

\* Files that are full but for one hold that many lines.
LEMMA FullFiles ==
    ASSUME NEW e, Numbered(e), NEW g \in Positions, \A k \in Positions \ {g} : FullAt(k)
    PROVE  e[0] - e[Rotations + 1] >= Rotations * (MaxSize + 1)
<1> DEFINE N == Rotations + 1
           L == MaxSize + 1
           c(j) == IF g < j THEN j - 1 ELSE j
           S == {j \in Nat : j <= N => e[0] - e[j] >= c(j) * L}
<1>1. /\ N \in Nat /\ Rotations \in Nat /\ N = Rotations + 1 /\ L \in Nat /\ L = MaxSize + 1
      /\ g \in 0 .. Rotations /\ e \in [0 .. N -> Nat]
  BY FileAssumption DEF Positions, Numbered
<1>2. 0 \in S
  BY <1>1
<1>3. ASSUME NEW j \in Nat, j \in S PROVE j + 1 \in S
  <2> SUFFICES ASSUME j + 1 <= N PROVE e[0] - e[j + 1] >= c(j + 1) * L
    OBVIOUS
  <2>1. j \in Positions /\ e[j] \in Nat /\ e[j + 1] \in Nat /\ e[0] \in Nat
    BY <1>1 DEF Positions
  <2>2. e[0] - e[j] >= c(j) * L
    BY <1>1, <1>3
  <2>3. Len(Content(j)) = e[j] - e[j + 1] /\ Len(Content(j)) >= 0
    <3>1. Content(j) \in Seq(Nat) /\ Len(Content(j)) = e[j] - e[j + 1]
      BY <2>1 DEF Numbered, Run
    <3> QED BY <3>1
  <2>4. CASE j = g
    <3>1. c(j + 1) = c(j)
      BY <1>1, <2>4
    <3>2. c(j) \in Int /\ c(j) * L \in Int
      BY <1>1, <2>4, Product
    <3> HIDE DEF c, L
    <3> QED BY <2>1, <2>2, <2>3, <3>1, <3>2
  <2>5. CASE j # g
    <3>1. c(j + 1) = c(j) + 1 /\ c(j) \in Int
      BY <1>1, <2>5
    <3>2. Len(Content(j)) = L
      BY <2>1, <2>5 DEF FullAt
    <3> HIDE DEF c, L
    <3>3. \A a \in Int : a * L \in Int /\ (a + 1) * L = (a * L) + L
      <4>1. \A a \in Int : a * L \in Int /\ (a + 1) * L = (a * L) + (1 * L)
        BY <1>1, Product
      <4>2. 1 * L = L
        BY <1>1
      <4> QED BY <4>1, <4>2
    <3>4. c(j) * L \in Int /\ c(j + 1) * L = (c(j) * L) + L
      BY <3>1, <3>3
    <3> QED BY <1>1, <2>1, <2>2, <2>3, <3>2, <3>4
  <2> QED BY <2>4, <2>5
<1>4. N \in S
  <2>1. \A j \in Nat : j \in S
    <3> HIDE DEF S
    <3> QED BY <1>2, <1>3, NumberInduction
  <2> HIDE DEF S, N
  <2> QED BY <1>1, <2>1
<1>5. c(N) = Rotations
  BY <1>1
<1> QED
  <2>1. e[0] - e[N] >= c(N) * L
    BY <1>1, <1>4
  <2> HIDE DEF c
  <2> QED BY <1>5, <2>1

\* While no rotation fails, the lines that are gone were more than the files kept can
\* hold: never fewer than Rotations full files are there.
THEOREM RotationKeeps == Spec => []KeepsFiles
<1>1. OrderInv => KeepsFiles
  <2> DEFINE most == Rotations * (MaxSize + 1)
  <2> SUFFICES ASSUME OrderInv, past = "fine"
               PROVE  Len(Archive) >= IF written < most THEN written ELSE most
    BY DEF KeepsFiles
  <2>1. PICK e : Numbered(e) /\ KeptEnough(e)
    BY DEF OrderInv, LinesInv, InTurn
  <2>2. Run(Archive, e[Rotations + 1], written) /\ e[0] = written
    BY <2>1, NumberedArchive DEF Numbered
  <2>3. written \in Nat /\ e[Rotations + 1] \in Nat /\ most \in Nat
    <3>1. 0 \in 0 .. Rotations + 1 /\ Rotations + 1 \in 0 .. Rotations + 1
      BY FileAssumption
    <3>2. most \in Nat
      BY FileAssumption
    <3> QED BY <2>1, <3>1, <3>2 DEF Numbered
  <2>4. Len(Archive) = written - e[Rotations + 1]
    BY <2>2 DEF Run
  <2>5. e[Rotations + 1] = 0 \/ written - e[Rotations + 1] >= most
    BY <2>1, <2>2, FullFiles DEF KeptEnough
  <2> HIDE DEF most
  <2> QED BY <2>3, <2>4, <2>5
<1> QED BY <1>1, OrderInvariant, PTL
=============================================================================

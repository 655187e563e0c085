------------------------------- MODULE ElogFile -------------------------------
(***************************************************************************)
(* elog_file.c and the linux port's elog_file_port.c: processes that write *)
(* one log file, rotate it, and keep each other out with one System V      *)
(* semaphore.                                                              *)
(*                                                                         *)
(* Position 0 of the directory is xxx.log, position k is xxx.log.(k-1).  A *)
(* file is an inode: a rename leaves the streams of other processes where  *)
(* they were.  Its size is its number of lines, which are numbered in the  *)
(* order in which they are written; every line is flushed.  Threads are    *)
(* pairs of a process and a role.  Any process may be killed at any step;  *)
(* the semaphore outlives it and takes back what it holds (SEM_UNDO).  A   *)
(* wait for the semaphore may be interrupted, and fopen may fail.          *)
(***************************************************************************)
EXTENDS Integers, Sequences, FiniteSets, SequencesExt

CONSTANTS
    Processes,
    Threads,        \* <<process, role>>: the threads that write the log
    Rotations,      \* ELOG_FILE_MAX_ROTATE
    MaxSize,        \* ELOG_FILE_MAX_SIZE, in lines
    NoFile,         \* no directory entry; the stream NULL
    MaxLines,       \* bound: lines written
    MaxFaults       \* bound: processes killed or closed down, waits for the
                    \* semaphore interrupted, files that cannot be opened

ASSUME FileAssumption ==
    /\ Rotations \in Nat \ {0} /\ MaxSize \in Nat
    /\ MaxLines \in Nat /\ MaxFaults \in Nat
    /\ IsFiniteSet(Processes)
    /\ \A t \in Threads : t[1] \in Processes

Positions == 0 .. Rotations
\* As many inodes as can be in the directory or open.
Inodes == 1 .. Rotations + 1 + Cardinality(Processes)

ASSUME NoFileAssumption == NoFile \notin Inodes

VARIABLES
    dir,        \* the directory: position -> inode or NoFile
    lines,      \* inode -> its lines
    fp,         \* fp of each process
    semMade, semRaised,     \* the semaphore exists; its sem_otime is set
    sem,        \* its value
    adj,        \* what each process has taken more than it has given back (semadj)
    semid,      \* semid of each process is not -1
    life,       \* how far each process has got in elog_file_init
    pc,         \* where each thread is in elog_file_write
    rot,        \* n of each thread's rotation
    written,    \* number of lines written
    faults,     \* number of faults, up to the bound
    past        \* history: the worst of what has happened

files == <<dir, lines, fp>>
semaphore == <<semMade, semRaised, sem, adj>>
history == <<written, faults, past>>
vars == <<files, semaphore, semid, life, pc, rot, history>>

Section == {"write", "rotate", "reopen", "reopenFailed"}
\* A thread in the section whose process uses the semaphore; elog_file_config runs
\* when life is "config", in one step, and needs no mention.
Holds(t) == pc[t] \in Section /\ semid[t[1]]

\* "failed": a rotation has failed or has been cut short; "shared": two processes
\* have had the file open at once; "skipped": a rotation has left a file where it
\* was without noticing; "unlocked": a process has done without the semaphore;
\* "interrupted": a thread has gone on without it, and then raises it all the same.
Rank == [fine |-> 0, failed |-> 1, shared |-> 2, skipped |-> 3, unlocked |-> 4,
         interrupted |-> 5]
Happens(what) == past' = IF Rank[what] > Rank[past] THEN what ELSE past
HappensIf(c, what) == IF c THEN Happens(what) ELSE UNCHANGED past
Fault == faults < MaxFaults /\ faults' = faults + 1

Init ==
    /\ dir = [k \in Positions |-> NoFile] /\ lines = [i \in Inodes |-> <<>>]
    /\ fp = [p \in Processes |-> NoFile]
    /\ semMade = FALSE /\ semRaised = FALSE /\ sem = 0 /\ adj = [p \in Processes |-> 0]
    /\ semid = [p \in Processes |-> FALSE]
    /\ life = [p \in Processes |-> "down"]
    /\ pc = [t \in Threads |-> "idle"] /\ rot = [t \in Threads |-> 0]
    /\ written = 0 /\ faults = 0 /\ past = "fine"

Live(p, from, to) == life[p] = from /\ life' = [life EXCEPT ![p] = to]
Step(t, from, to) == pc[t] = from /\ pc' = [pc EXCEPT ![t] = to]

-----------------------------------------------------------------------------
(* lock_init: whoever creates the semaphore sets it to 0 and then raises it. *)

CreateSem(p) ==
    /\ Live(p, "down", "created")
    /\ ~semMade /\ semMade' = TRUE
    /\ UNCHANGED <<files, semRaised, sem, adj, semid, pc, rot, history>>

RaiseSem(p) ==
    /\ Live(p, "created", "config")
    /\ sem' = 1 /\ semRaised' = TRUE
    /\ semid' = [semid EXCEPT ![p] = TRUE]
    /\ UNCHANGED <<files, semMade, adj, pc, rot, history>>

\* Mutant: lock_open does not look at sem_otime.
OpenSemEarly(p) ==
    /\ Live(p, "down", "config")
    /\ semMade
    /\ semid' = [semid EXCEPT ![p] = TRUE]
    /\ UNCHANGED <<files, semaphore, pc, rot, history>>

\* lock_open: sem_otime tells that the creator has raised it.
OpenSem(p) ==
    /\ Live(p, "down", "config")
    /\ semMade /\ semRaised
    /\ semid' = [semid EXCEPT ![p] = TRUE]
    /\ UNCHANGED <<files, semaphore, pc, rot, history>>

\* Ten looks in 100 ms were too early: the process goes on without a lock.
GiveUpSem(p) ==
    /\ Live(p, "down", "config")
    /\ semMade /\ ~semRaised /\ Happens("unlocked")
    /\ UNCHANGED <<files, semaphore, semid, pc, rot, written, faults>>

-----------------------------------------------------------------------------
(* The lock. *)

\* semop of the process p, with SEM_UNDO: -1 is down, 1 is up.
Semop(p, op) == sem' = sem + op /\ adj' = [adj EXCEPT ![p] = @ - op]

\* elog_file_config takes the semaphore and gives it back.
ConfigLocked(p) == (semid[p] => sem > 0) /\ UNCHANGED <<sem, adj>>
\* Its wait is interrupted by a signal: it goes on, and raises the semaphore.
ConfigInterrupted(p) ==
    /\ semid[p] /\ sem = 0 /\ Semop(p, 1)
    /\ Fault /\ Happens("interrupted")

-----------------------------------------------------------------------------
(* The files. *)

\* Inodes that nothing refers to; an inode loses its lines with its last reference.
Unused == {i \in Inodes : (\A k \in Positions : dir[k] # i)
                          /\ \A p \in Processes : fp[p] # i}
Free == lines' = [i \in Inodes |-> IF i \in Unused' THEN <<>> ELSE lines[i]]
AnUnused == CHOOSE i \in Unused : TRUE

\* fopen(name, "a+")
Open(p) ==
    LET i == IF dir[0] # NoFile THEN dir[0] ELSE AnUnused IN
    /\ dir' = [dir EXCEPT ![0] = i] /\ fp' = [fp EXCEPT ![p] = i]

\* Mutant: the file is opened with "w+".
ConfigureTruncating(p) ==
    /\ Live(p, "config", "up") /\ ConfigLocked(p)
    /\ Open(p) /\ lines' = [lines EXCEPT ![dir'[0]] = <<>>]
    /\ HappensIf(\E q \in Processes \ {p} : life[q] = "up", "shared")
    /\ UNCHANGED <<semMade, semRaised, semid, pc, rot, written, faults>>

\* elog_file_config, called by elog_file_init.
Configure(p) ==
    /\ Live(p, "config", "up") /\ ConfigLocked(p)
    /\ Open(p) /\ UNCHANGED lines
    /\ HappensIf(\E q \in Processes \ {p} : life[q] = "up", "shared")
    /\ UNCHANGED <<semMade, semRaised, semid, pc, rot, written, faults>>

ConfigureInterrupted(p) ==
    /\ Live(p, "config", "up") /\ ConfigInterrupted(p)
    /\ Open(p) /\ UNCHANGED lines
    /\ UNCHANGED <<semMade, semRaised, semid, pc, rot, written>>

\* fopen fails: elog_file_init succeeds all the same, and nothing is logged.
ConfigureFails(p) ==
    /\ Live(p, "config", "up") /\ ConfigLocked(p) /\ Fault
    /\ HappensIf(\E q \in Processes \ {p} : life[q] = "up", "shared")
    /\ UNCHANGED <<files, semMade, semRaised, semid, pc, rot, written>>

\* elog_file_deinit, which elog_deinit calls when nobody logs any more.
Deinit(p) ==
    /\ Live(p, "up", "down")
    /\ \A t \in Threads : t[1] = p => pc[t] = "idle"
    /\ \/ ConfigLocked(p) /\ Fault /\ UNCHANGED past
       \/ ConfigInterrupted(p)
    /\ fp' = [fp EXCEPT ![p] = NoFile] /\ semid' = [semid EXCEPT ![p] = FALSE]
    /\ UNCHANGED <<dir, semMade, semRaised, pc, rot, written>>
    /\ Free

-----------------------------------------------------------------------------
(* elog_file_write *)

\* The stream is looked at before the lock is taken.
Call(t) ==
    /\ Step(t, "idle", "lock")
    /\ life[t[1]] = "up" /\ fp[t[1]] # NoFile /\ written < MaxLines
    /\ UNCHANGED <<files, semaphore, semid, life, rot, history>>

Lock(t) ==
    /\ Step(t, "lock", "write")
    /\ IF semid[t[1]] THEN sem > 0 /\ Semop(t[1], -1) ELSE UNCHANGED <<sem, adj>>
    /\ UNCHANGED <<files, semMade, semRaised, semid, life, rot, history>>

\* The wait is interrupted by a signal, and nobody looks at semop's result.
LockInterrupted(t) ==
    /\ Step(t, "lock", "write")
    /\ semid[t[1]] /\ sem = 0 /\ Fault /\ Happens("interrupted")
    /\ UNCHANGED <<files, semaphore, semid, life, rot, written>>

Unlock(t) == IF semid[t[1]] THEN Semop(t[1], 1) ELSE UNCHANGED <<sem, adj>>

\* Mutant: a full file is full only when it is longer than the limit by two.
FullLate(t) == Len(lines[fp[t[1]]]) > MaxSize + 1

\* file_size > max_size
Full(t) == Len(lines[fp[t[1]]]) > MaxSize

Write(t) ==
    /\ Step(t, "write", "idle")
    /\ fp[t[1]] # NoFile /\ ~Full(t)
    /\ lines' = [lines EXCEPT ![fp[t[1]]] = Append(@, written + 1)]
    /\ written' = written + 1
    /\ Unlock(t)
    /\ UNCHANGED <<dir, fp, semMade, semRaised, semid, life, rot, faults, past>>

\* elog_file_rotate; the closed stream counts as the old one until the reopening.
BeginRotation(t) ==
    /\ Step(t, "write", "rotate")
    /\ fp[t[1]] # NoFile /\ Full(t)
    /\ rot' = [rot EXCEPT ![t] = Rotations - 1]
    /\ UNCHANGED <<files, semaphore, semid, life, history>>

\* Mutant: the loop runs upwards.
RotateUpwards(t) ==
    LET n == Rotations - 1 - rot[t] IN
    /\ Step(t, "rotate", IF rot[t] = 0 THEN "reopen" ELSE "rotate")
    /\ dir' = [dir EXCEPT ![n + 1] = dir[n], ![n] = NoFile]
    /\ rot' = [rot EXCEPT ![t] = IF @ = 0 THEN 0 ELSE @ - 1]
    /\ UNCHANGED <<fp, semaphore, semid, life, history>>
    /\ Free

\* remove(newpath), then rename(oldpath, newpath); a hole in the chain moves up.
RotateOne(t) ==
    LET n == rot[t] IN
    /\ Step(t, "rotate", IF n = 0 THEN "reopen" ELSE "rotate")
    /\ dir' = [dir EXCEPT ![n + 1] = dir[n], ![n] = NoFile]
    /\ rot' = [rot EXCEPT ![t] = IF n = 0 THEN 0 ELSE n - 1]
    /\ UNCHANGED <<fp, semaphore, semid, life, history>>
    /\ Free

\* fopen(oldpath, "r") fails though the file is there, as it does when the process
\* has too many files open: nothing is renamed, and nobody notices.  The new path is
\* gone unless it could not be opened either.
RotateSkips(t) ==
    LET n == rot[t] IN
    /\ Step(t, "rotate", IF n = 0 THEN "reopen" ELSE "rotate")
    /\ dir[n] # NoFile
    /\ dir' = [dir EXCEPT ![n + 1] = NoFile] \/ dir' = dir
    /\ rot' = [rot EXCEPT ![t] = IF n = 0 THEN 0 ELSE n - 1]
    /\ Fault /\ Happens("skipped")
    /\ UNCHANGED <<fp, semaphore, semid, life, written>>
    /\ Free

\* The new path is gone when rename fails; a process killed between the two
\* calls is one killed after this step.
RenameFails(t) ==
    LET n == rot[t] IN
    /\ Step(t, "rotate", "reopenFailed")
    /\ dir[n] # NoFile
    /\ dir' = [dir EXCEPT ![n + 1] = NoFile]
    /\ rot' = [rot EXCEPT ![t] = 0] /\ Happens("failed")
    /\ UNCHANGED <<fp, semaphore, semid, life, written, faults>>
    /\ Free

\* The line goes into the new file.
Reopen(t) ==
    /\ Step(t, "reopen", "idle")
    /\ Open(t[1]) /\ Unlock(t)
    /\ written' = written + 1
    /\ lines' = [i \in Inodes |->
                    CASE i = dir'[0] -> Append(lines[i], written + 1)
                      [] i \in Unused' -> <<>>
                      [] OTHER -> lines[i]]
    /\ UNCHANGED <<semMade, semRaised, semid, life, rot, faults, past>>

\* After a failed rename the line is dropped, though the file is open again.
ReopenDropping(t) ==
    /\ Step(t, "reopenFailed", "idle")
    /\ Open(t[1]) /\ Free /\ Unlock(t)
    /\ UNCHANGED <<semMade, semRaised, semid, life, rot, history>>

\* fopen fails as well: the process logs nothing any more.
ReopenFails(t) ==
    /\ Step(t, "reopenFailed", "idle")
    /\ fp' = [fp EXCEPT ![t[1]] = NoFile] /\ Unlock(t)
    /\ UNCHANGED <<dir, semMade, semRaised, semid, life, rot, history>>
    /\ Free

-----------------------------------------------------------------------------
(* The end of a process. *)

\* What it has taken is given back; the value does not go below 0.
Undo(p) ==
    /\ sem' = IF sem + adj[p] < 0 THEN 0 ELSE sem + adj[p]
    /\ adj' = [adj EXCEPT ![p] = 0]


\* Mutant: the semaphore operations are done without SEM_UNDO.
EndWithoutUndo(p) ==
    /\ life' = [life EXCEPT ![p] = "down"]
    /\ fp' = [fp EXCEPT ![p] = NoFile] /\ semid' = [semid EXCEPT ![p] = FALSE]
    /\ pc' = [t \in Threads |-> IF t[1] = p THEN "idle" ELSE pc[t]]
    /\ rot' = [t \in Threads |-> IF t[1] = p THEN 0 ELSE rot[t]]
    /\ HappensIf(\E t \in Threads : t[1] = p /\ pc[t] \in Section \ {"write"}, "failed")
    /\ UNCHANGED <<dir, semaphore, written>>
    /\ Free

End(p) ==
    /\ life' = [life EXCEPT ![p] = "down"]
    /\ fp' = [fp EXCEPT ![p] = NoFile] /\ semid' = [semid EXCEPT ![p] = FALSE]
    /\ pc' = [t \in Threads |-> IF t[1] = p THEN "idle" ELSE pc[t]]
    /\ rot' = [t \in Threads |-> IF t[1] = p THEN 0 ELSE rot[t]]
    /\ Undo(p)
    /\ HappensIf(\E t \in Threads : t[1] = p /\ pc[t] \in Section \ {"write"}, "failed")
    /\ UNCHANGED <<dir, semMade, semRaised, written>>
    /\ Free

Kill(p) == (life[p] # "down" \/ adj[p] # 0) /\ End(p) /\ Fault

\* The stream has become NULL since this thread looked at it: fseek crashes.
WriteToNull(t) ==
    /\ pc[t] = "write" /\ fp[t[1]] = NoFile
    /\ End(t[1]) /\ UNCHANGED faults

\* fopen fails after a rotation that has succeeded: the line is written to NULL.
ReopenCrashes(t) == pc[t] = "reopen" /\ End(t[1]) /\ Fault

-----------------------------------------------------------------------------
Start(p) == CreateSem(p) \/ RaiseSem(p) \/ OpenSem(p) \/ GiveUpSem(p)

Config(p) == Configure(p) \/ ConfigureInterrupted(p) \/ ConfigureFails(p)

WriteStep(t) ==
    \/ Lock(t) \/ LockInterrupted(t) \/ Write(t) \/ WriteToNull(t)
    \/ BeginRotation(t) \/ RotateOne(t) \/ RotateSkips(t) \/ RenameFails(t)
    \/ Reopen(t) \/ ReopenCrashes(t) \/ ReopenDropping(t) \/ ReopenFails(t)

Next ==
    \/ \E p \in Processes : Start(p) \/ Config(p) \/ Deinit(p) \/ Kill(p)
    \/ \E t \in Threads : Call(t) \/ WriteStep(t)

Spec == Init /\ [][Next]_vars

\* A thread that has called goes on until it returns, and gets the semaphore when
\* it comes free again and again: a section lasts one line or one rotation.
FairSpec == Spec /\ \A t \in Threads : SF_vars(WriteStep(t))

-----------------------------------------------------------------------------
(* Safety. *)

Lives == {"down", "created", "config", "up"}

\* However processes race to create the semaphore, start, end and are killed, as
\* long as no wait for it is interrupted: who uses it is alone in the section, and
\* finds it up when nobody else is in there, so that nobody is shut out.  Who does
\* not use it gave up waiting for its creator.
Exclusive ==
    /\ past # "interrupted" =>
         /\ \A t, u \in Threads : Holds(t) /\ Holds(u) => t = u
         /\ \A p \in Processes : semid[p] => (sem = 1 <=> ~\E t \in Threads : Holds(t))
    /\ past \notin {"unlocked", "interrupted"} =>
         \A t, u \in Threads : pc[t] \in Section /\ pc[u] \in Section => t = u

\* While everyone uses the semaphore and every file that is there can be opened, no
\* file grows past the limit by more than the line that reached it.
SizeBounded ==
    past \in {"fine", "failed", "shared"} => \A i \in Inodes : Len(lines[i]) <= MaxSize + 1

\* The files of the directory, oldest first.
Content(k) == IF dir[k] = NoFile THEN <<>> ELSE lines[dir[k]]
Archive == FoldLeft(LAMBDA log, k : log \o Content(Rotations - k), <<>>,
                    [k \in 1 .. Rotations + 1 |-> k - 1])

\* As long as processes follow each other, the files read from the oldest to the
\* newest are the last lines written, in order and without a gap: kills in the
\* middle of a rotation and failed renames only cost the oldest lines.
ArchiveIsSuffix ==
    past \in {"fine", "failed"} =>
        \A k \in 1 .. Len(Archive) : Archive[k] = written - Len(Archive) + k

\* While rotations succeed, what is gone was in more full files than are kept.
KeepsFiles ==
    past = "fine" =>
        Len(Archive) >= IF written < Rotations * (MaxSize + 1)
                        THEN written ELSE Rotations * (MaxSize + 1)

(* Liveness. *)

\* Nobody waits for the semaphore for ever, though its holder may be killed.
LockIsGranted == \A t \in Threads : pc[t] = "lock" ~> pc[t] # "lock"
=============================================================================

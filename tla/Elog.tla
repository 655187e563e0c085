-------------------------------- MODULE Elog --------------------------------
(***************************************************************************)
(* elog.c over its tag filter and its asynchronous output: threads that    *)
(* log, and the application that configures, starts, stops, ends and       *)
(* begins the logger anew.                                                 *)
(*                                                                         *)
(* elog_output looks at the filter under the output lock, lets it go, and  *)
(* takes it again to format and output the line.  The application ends the *)
(* logger the way the functions are meant to be used: after elog_stop, when*)
(* no thread is inside elog_output any more.  The filters by level, tag    *)
(* text and keyword, colours and formats are left out.                     *)
(***************************************************************************)
EXTENDS ElogFilter, ElogAsync

CONSTANTS
    Threads,    \* the threads that log
    OutputLvl,  \* OUTPUT_LVL: logs of this level and lower go to the buffer
    Sizes,      \* lengths of a line, its newline included
    MaxLogs     \* bound: lines that reach the output

ASSUME ElogAssumption ==
    /\ OutputLvl \in Nat /\ Sizes \subseteq Nat \ {0}
    /\ MaxLogs \in Nat
    /\ Threads \cap {Free} = {}

VARIABLES
    initOk,             \* elog.init_ok
    outputEnabled,      \* elog.output_enabled
    pc,                 \* where each thread is in elog_output
    lineLevel,          \* the level of the line it is putting out
    app,                \* where the application is
    logs                \* number of lines that have reached the output

elogVars == <<initOk, outputEnabled, pc, lineLevel, app, logs>>
allVars == <<table, asyncVars, elogVars>>

ElogInit ==
    /\ TableInit /\ AsyncInit
    /\ initOk = FALSE /\ outputEnabled = FALSE
    /\ pc = [t \in Threads |-> "idle"] /\ lineLevel = [t \in Threads |-> 0]
    /\ app = "idle" /\ logs = 0

-----------------------------------------------------------------------------
(* elog_output *)

Step(t, from, to) == pc[t] = from /\ pc' = [pc EXCEPT ![t] = to]
Finish(t) ==
    /\ pc' = [pc EXCEPT ![t] = "idle"] /\ lineLevel' = [lineLevel EXCEPT ![t] = 0]

\* elog_get_filter_tag_lvl
FilterLevel(tag) == IF initOk THEN TagLevel(tag) ELSE Lowest

\* A line that passes the filter; the others change nothing.  The output lock is
\* taken for the look at the table and released.
Emit(t) ==
    /\ Step(t, "idle", "output") /\ outputEnabled /\ logs < MaxLogs
    /\ lock = Free
    /\ \E tag \in Tags, l \in Levels :
         l <= FilterLevel(tag) /\ lineLevel' = [lineLevel EXCEPT ![t] = l]
    /\ UNCHANGED <<table, asyncVars, initOk, outputEnabled, app, logs>>

Buffered(t) == isEnabled /\ lineLevel[t] >= OutputLvl

\* Above OutputLvl, or with the asynchronous mode off, the thread outputs the
\* line itself, under the lock.
OutputDirect(t) ==
    /\ pc[t] = "output" /\ lock = Free /\ ~Buffered(t)
    /\ logs' = logs + 1 /\ Finish(t)
    /\ UNCHANGED <<table, asyncVars, initOk, outputEnabled, app>>

Line(n) == [i \in 1 .. n |-> <<logs + 1, i>>]

\* A line is formatted and put into the buffer; one that found no room at all is
\* not announced.
OutputBuffered(t) ==
    /\ pc[t] = "output" /\ lock = Free /\ Buffered(t)
    /\ logs' = logs + 1
    /\ \E n \in Sizes : Put(Line(n))
    /\ IF Space > 0 THEN Step(t, "output", "notice") /\ lock' = t /\ UNCHANGED lineLevel
       ELSE Finish(t) /\ UNCHANGED lock
    /\ UNCHANGED <<table, notice, threadRunning, isEnabled, reader, batch, printed,
                   stranded, initOk, outputEnabled, app>>

\* Mutant: a reader that is at work is not told.
NotifyWaitingOnly(t) ==
    /\ pc[t] = "notice" /\ Finish(t)
    /\ notice' = (IF reader = "wait" THEN notice + 1 ELSE notice) /\ lock' = Free
    /\ UNCHANGED <<table, ring, threadRunning, isEnabled, reader, batch, accepted,
                   printed, stranded, initOk, outputEnabled, app, logs>>

\* elog_async_output_notice, and the output lock is released.
Notify(t) ==
    /\ pc[t] = "notice" /\ Finish(t)
    /\ notice' = notice + 1 /\ lock' = Free
    /\ UNCHANGED <<table, ring, threadRunning, isEnabled, reader, batch, accepted,
                   printed, stranded, initOk, outputEnabled, app, logs>>

-----------------------------------------------------------------------------
(* The application. *)

\* elog_init
InitLogger ==
    /\ app = "idle" /\ ~initOk /\ initOk' = TRUE
    /\ table' = EmptyTable /\ StartReader
    /\ UNCHANGED <<outputEnabled, pc, lineLevel, app, logs>>

\* elog_start
StartLogger ==
    /\ app = "idle" /\ initOk
    /\ outputEnabled' = TRUE /\ AsyncEnabled(TRUE)
    /\ UNCHANGED <<table, initOk, pc, lineLevel, app, logs>>

\* elog_stop
StopLogger ==
    /\ app = "idle" /\ initOk
    /\ outputEnabled' = FALSE /\ AsyncEnabled(FALSE)
    /\ UNCHANGED <<table, initOk, pc, lineLevel, app, logs>>

\* elog_async_enabled(false) alone: lines go past those in the buffer.
SwitchToDirect ==
    /\ app = "idle" /\ initOk /\ AsyncEnabled(FALSE)
    /\ UNCHANGED <<table, elogVars>>

SetTagLevel ==
    /\ app = "idle" /\ initOk /\ lock = Free
    /\ \E t \in Tags, l \in Levels : SetFilterTagLvl(t, l)
    /\ UNCHANGED <<asyncVars, initOk, outputEnabled, pc, lineLevel, app, logs>>

\* elog_deinit
Deinit ==
    /\ app = "idle" /\ initOk /\ ~outputEnabled
    /\ \A t \in Threads : pc[t] = "idle"
    /\ app' = "join" /\ StopReader
    /\ UNCHANGED <<table, initOk, outputEnabled, pc, lineLevel, logs>>

DeinitReturn ==
    /\ app = "join" /\ app' = "idle" /\ initOk' = FALSE
    /\ ReaderJoined \/ AbsentJoined
    /\ UNCHANGED <<table, outputEnabled, pc, lineLevel, logs>>

\* The join of a thread that was never made, which is undefined, ends the program: no
\* thread is inside the logger then, and none comes back.
DeinitCrash ==
    /\ app = "join" /\ app' = "crashed" /\ reader = "absent"
    /\ UNCHANGED <<table, asyncVars, initOk, outputEnabled, pc, lineLevel, logs>>

-----------------------------------------------------------------------------
OutputStep(t) ==
    OutputDirect(t) \/ OutputBuffered(t) \/ Notify(t)

AppCall ==
    \/ InitLogger \/ StartLogger \/ StopLogger \/ SwitchToDirect \/ SetTagLevel
    \/ Deinit

ElogNext ==
    \/ \E t \in Threads : Emit(t) \/ OutputStep(t)
    \/ ReaderStep /\ UNCHANGED <<table, elogVars>>
    \/ AppCall \/ DeinitReturn \/ DeinitCrash

ElogSpec == ElogInit /\ [][ElogNext]_allVars

\* Every thread that can run does; the output lock, a pthread mutex held for the
\* time of one line, comes free again and again and is got in the end.  Nobody
\* has to log and the application has to call nothing.
ElogFairness ==
    /\ \A t \in Threads : SF_allVars(OutputStep(t))
    /\ SF_allVars(ReaderStep /\ UNCHANGED <<table, elogVars>>)
    /\ WF_allVars(DeinitReturn)

FairElogSpec == ElogSpec /\ ElogFairness

-----------------------------------------------------------------------------
(* Safety. *)

\* The types; the table has no tag twice, and the ring's flags say which of the two
\* it is when its indices meet.
ElogTypeOK ==
    /\ TableOK /\ AsyncTypeOK /\ RingOK
    /\ lock \in Threads \cup {Free}
    /\ initOk \in BOOLEAN /\ outputEnabled \in BOOLEAN
    /\ pc \in [Threads -> {"idle", "output", "notice"}]
    /\ lineLevel \in [Threads -> Levels]
    /\ app \in {"idle", "join", "crashed"} /\ logs \in Nat

\* No wake-up is lost: bytes that came in since the reader was begun and are still in
\* the buffer have a notice, on its way or due.  It does not speak of bytes left from
\* before: a buffer full of those takes in nothing more and nothing wakes the reader.
NoLostNotice ==
    /\ threadRunning /\ Len(printed) + Len(batch) < Len(accepted)
    /\ stranded < Len(accepted)
    => \/ notice > 0 \/ reader \in {"get", "print"}
       \/ \E t \in Threads : pc[t] = "notice"

(* Liveness. *)

\* A byte that one poll of the reader does not reach.
Watched == BufSize

\* What was taken into the buffer in the life of this reader is output, unless there
\* is no reader or the logger is ended: what comes in between the reader's last look
\* and its test of thread_running stays behind for the next one.
LogsComeOut ==
    initOk /\ stranded < Watched /\ Watched <= Len(accepted) /\ reader # "absent"
    ~> (Watched <= Len(printed) \/ ~threadRunning)

\* elog_deinit returns where a reader was made: it is woken, empties the buffer and ends.
DeinitReturns == app = "join" /\ reader # "absent" ~> app = "idle"
=============================================================================

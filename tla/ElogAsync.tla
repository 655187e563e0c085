------------------------------ MODULE ElogAsync ------------------------------
(***************************************************************************)
(* elog_async.c: the ring buffer between the threads that log and the      *)
(* thread that outputs, its semaphore and its life.                        *)
(*                                                                         *)
(* The buffer holds bytes, a byte being <<log, position in it>>.  The      *)
(* output lock of elog.c is held for a whole elog_output and for a whole   *)
(* elog_async_get_log; the reader outputs what it has taken without it.    *)
(* The configuration is the one the library is built with (the linux       *)
(* port's elog_cfg.h): a pthread, no line output.                          *)
(***************************************************************************)
EXTENDS Naturals, Sequences

CONSTANTS
    BufSize,    \* OUTPUT_BUF_SIZE
    PollSize,   \* ELOG_ASYNC_POLL_GET_LOG_BUF_SIZE
    NoByte      \* what the buffer holds before anything is written

ASSUME BufferAssumption == BufSize \in Nat \ {0} /\ PollSize \in Nat \ {0}

VARIABLES
    cells,                      \* log_buf
    writeIndex, readIndex,      \* write_index, read_index
    full, empty,                \* buf_is_full, buf_is_empty
    notice,                     \* the value of output_notice
    threadRunning,              \* thread_running
    isEnabled,                  \* is_enabled
    reader,                     \* where async_output is
    batch,                      \* poll_get_buf: what it has taken
    lock,                       \* who holds the output lock across steps
    accepted,                   \* history: the bytes put into the buffer
    printed,                    \* history: the bytes the reader has output
    stranded                    \* history: bytes accepted before this thread began

ring == <<cells, writeIndex, readIndex, full, empty>>
asyncVars == <<ring, notice, threadRunning, isEnabled, reader, batch, lock,
               accepted, printed, stranded>>

Free == "free"
Index == 0 .. BufSize - 1

AsyncInit ==
    /\ cells = [k \in Index |-> NoByte]
    /\ writeIndex = 0 /\ readIndex = 0 /\ full = FALSE /\ empty = TRUE
    /\ notice = 0 /\ threadRunning = FALSE /\ isEnabled = FALSE
    /\ reader = "none" /\ batch = <<>> /\ lock = Free
    /\ accepted = <<>> /\ printed = <<>> /\ stranded = 0

-----------------------------------------------------------------------------
(* The ring buffer. *)

\* elog_async_get_buf_used
Used ==
    IF writeIndex > readIndex THEN writeIndex - readIndex
    ELSE IF full THEN BufSize
    ELSE IF empty THEN 0
    ELSE BufSize - (readIndex - writeIndex)

\* async_get_buf_space
Space == BufSize - Used

\* An index i moved on by n positions, n at most the size of the buffer.
Advance(i, n) == IF i + n < BufSize THEN i + n ELSE i + n - BufSize

\* How far position k is behind position i.
Behind(k, i) == IF k >= i THEN k - i ELSE BufSize - i + k

\* Mutant: the second memcpy begins with the log again.
WrittenTwice(log, n) ==
    [k \in Index |-> IF Behind(k, writeIndex) < n
                     THEN log[IF k >= writeIndex THEN k - writeIndex + 1 ELSE k + 1]
                     ELSE cells[k]]

\* The one or two memcpy of async_put_log.
Written(log, n) ==
    [k \in Index |-> IF Behind(k, writeIndex) < n THEN log[Behind(k, writeIndex) + 1]
                     ELSE cells[k]]

\* What async_put_log takes of a log: what goes beyond the space is dropped.
PutSize(log) == IF Space <= Len(log) THEN Space ELSE Len(log)

\* Mutant: a log that fits exactly does not set the flag.
PutExactly(log) ==
    LET n == PutSize(log) IN
    IF Space = 0 THEN UNCHANGED <<ring, accepted>>
    ELSE /\ full' = (full \/ Space < Len(log)) /\ empty' = FALSE
         /\ cells' = Written(log, n)
         /\ writeIndex' = Advance(writeIndex, n)
         /\ accepted' = accepted \o SubSeq(log, 1, n)
         /\ UNCHANGED readIndex

\* async_put_log
Put(log) ==
    LET n == PutSize(log) IN
    IF Space = 0 THEN UNCHANGED <<ring, accepted>>
    ELSE /\ full' = (full \/ Space <= Len(log)) /\ empty' = FALSE
         /\ cells' = Written(log, n)
         /\ writeIndex' = Advance(writeIndex, n)
         /\ accepted' = accepted \o SubSeq(log, 1, n)
         /\ UNCHANGED readIndex

\* What elog_async_get_log takes.
GetSize == IF Used <= PollSize THEN Used ELSE PollSize

Take ==
    /\ empty' = (empty \/ Used <= PollSize) /\ full' = FALSE
    /\ batch' = [i \in 1 .. GetSize |-> cells[Advance(readIndex, i - 1)]]
    /\ readIndex' = Advance(readIndex, GetSize)
    /\ UNCHANGED <<cells, writeIndex>>

-----------------------------------------------------------------------------
(* The thread async_output. *)

ReaderTest ==
    /\ reader = "test" /\ reader' = IF threadRunning THEN "wait" ELSE "exited"
    /\ UNCHANGED <<ring, notice, threadRunning, isEnabled, batch, lock, accepted,
                   printed, stranded>>

\* sem_wait
ReaderWait ==
    /\ reader = "wait" /\ reader' = "get"
    /\ notice > 0 /\ notice' = notice - 1
    /\ UNCHANGED <<ring, threadRunning, isEnabled, batch, lock, accepted, printed,
                   stranded>>

\* Mutant: one notice, one poll.
ReaderGetOnce ==
    /\ reader = "get" /\ lock = Free
    /\ \/ Used = 0 /\ reader' = "test" /\ UNCHANGED <<ring, batch, printed>>
       \/ Used > 0 /\ reader' = "test" /\ Take /\ printed' = printed \o batch'
    /\ UNCHANGED <<notice, threadRunning, isEnabled, lock, accepted, stranded>>

\* elog_async_get_log
ReaderGet ==
    /\ reader = "get" /\ lock = Free
    /\ \/ Used = 0 /\ reader' = "test" /\ UNCHANGED <<ring, batch>>
       \/ Used > 0 /\ reader' = "print" /\ Take
    /\ UNCHANGED <<notice, threadRunning, isEnabled, lock, accepted, printed, stranded>>

\* elog_port_output
ReaderPrint ==
    /\ reader = "print" /\ reader' = "get"
    /\ printed' = printed \o batch /\ batch' = <<>>
    /\ UNCHANGED <<ring, notice, threadRunning, isEnabled, lock, accepted, stranded>>

ReaderStep == ReaderTest \/ ReaderWait \/ ReaderGet \/ ReaderPrint

-----------------------------------------------------------------------------
(* Its life.  The buffer is never reset. *)

\* elog_async_init.  What pthread_create answers is not looked at: when it fails the
\* mode is on all the same, without a reader.
StartReader ==
    /\ reader \in {"none", "joined"} /\ reader' \in {"test", "absent"}
    /\ notice' = 0 /\ threadRunning' = TRUE
    /\ stranded' = Len(accepted)
    /\ UNCHANGED <<ring, isEnabled, batch, lock, accepted, printed>>

\* Mutant: the thread is not woken.
StopReaderQuietly ==
    /\ threadRunning' = FALSE
    /\ UNCHANGED <<ring, notice, isEnabled, reader, batch, lock, accepted, printed, stranded>>

\* elog_async_deinit up to pthread_join
StopReader ==
    /\ threadRunning' = FALSE /\ notice' = notice + 1
    /\ UNCHANGED <<ring, isEnabled, reader, batch, lock, accepted, printed, stranded>>

\* pthread_join returns.
ReaderJoined ==
    /\ reader = "exited" /\ reader' = "joined"
    /\ UNCHANGED <<ring, notice, threadRunning, isEnabled, batch, lock, accepted,
                   printed, stranded>>

\* pthread_join of a thread that was never made: it may answer an error.
AbsentJoined ==
    /\ reader = "absent" /\ reader' = "joined"
    /\ UNCHANGED <<ring, notice, threadRunning, isEnabled, batch, lock, accepted,
                   printed, stranded>>

\* elog_async_enabled
AsyncEnabled(enable) ==
    /\ isEnabled' = enable
    /\ UNCHANGED <<ring, notice, threadRunning, reader, batch, lock, accepted,
                   printed, stranded>>

-----------------------------------------------------------------------------
(* Safety. *)

ReaderPc == {"none", "test", "wait", "get", "print", "exited", "joined", "absent"}

AsyncTypeOK ==
    /\ writeIndex \in Index /\ readIndex \in Index
    /\ full \in BOOLEAN /\ empty \in BOOLEAN
    /\ notice \in Nat /\ threadRunning \in BOOLEAN /\ isEnabled \in BOOLEAN
    /\ reader \in ReaderPc /\ stranded \in 0 .. Len(accepted)

\* The two indices say how much the buffer holds unless they meet; then exactly
\* one of the two flags does, though each is kept by another thread.
RingOK ==
    IF writeIndex = readIndex THEN full # empty ELSE ~full /\ ~empty

\* What comes out is byte by byte what went in, in the same order: nothing
\* between the first and the last accepted byte is lost, doubled or overwritten
\* in the buffer, at its wrap, or between two lives of the thread.
Fifo ==
    /\ Len(printed) + Len(batch) + Used = Len(accepted)
    /\ \A i \in 1 .. Len(printed) : printed[i] = accepted[i]
    /\ \A i \in 1 .. Len(batch) : batch[i] = accepted[Len(printed) + i]
    /\ \A i \in 1 .. Used :
         cells[Advance(readIndex, i - 1)] = accepted[Len(printed) + Len(batch) + i]
=============================================================================

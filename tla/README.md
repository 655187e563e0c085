# Verification of the charging station

TLA+ models of `charging_station.cpp` and the components it is built from, the
TLC runs that check them on small instances, and TLAPS proofs for every value
of the parameters. The source is C++14 (`charging_station.cpp`, `tools/timer`,
`tools/mqtt`, `config`, `device`) over two libraries: MQTT-C, which is not in
the tree, and a vendored EasyLogger.

## 1. The system

| Component | State | Operations | Meets the others through |
|---|---|---|---|
| Timer (`tools/timer/timer.cpp`) | state, stop and pause flags, count, next execution time, one worker thread | start, pause, resume, restart, stop, reset, setters, waitForCompletion; the worker's `run()` | mutex and condition variable; the callback runs on the worker with the mutex held |
| TimerUtils (same file) | a Timer of its own per call | delayExecute, periodicExecute | owns and destroys the Timer |
| Station (`charging_station.cpp`) | DEVICE_STATUS bits, charge_info, message queue | msg_handle with check_start_condition, main loop, charge_timer_callback | three mutexes, the Timer, MQTT callbacks on two threads |
| MQTT client (`tools/mqtt/mqtt_client_v2.cpp`) | connected/connecting flags, refresher thread, reconnect thread, subscriptions, last error | connect, disconnect, publish, subscribe, sync, auto-reconnect | MQTT-C's mutex, callbacks into the station |
| MQTT-C (external) | its own mutex, send queue | mqtt_sync, mqtt_publish | calls the message callback with its mutex held |
| Price table (`config/price_table.cpp`) | periods, other price | load, get_price(hour), get_price(time) | read by the charge callback |
| Device (`device/device.cpp`) | none, a stub | SelfCheck, GetPower, Start, Stop, Pause | called by the handler and the callback |
| EasyLogger core and filter (`elog.c`) | init and output flags, table of levels per tag | init, start, stop, deinit, output, set and get a tag's level | output lock |
| EasyLogger async (`elog_async.c`) | ring buffer, full and empty flags, reader thread | put, get, enabled, init, deinit | output lock, semaphore of notices |
| EasyLogger file (`plugins/file/elog_file.c`, `elog_file_port.c`) | stream, name, rotation | init, config, write, rotate, deinit | a System V semaphore and the directory, shared by processes |

What makes it hard: a command can be handled by the main thread or by the
client's refresher thread, both from inside `mqtt_sync`; the handler operates a
timer whose worker runs a callback that pushes messages; the main loop
publishes those messages. Four mutexes and one join meet on these paths.
`PROJECT.json` lists the hazards one by one, each at its line, with the
properties that cover it.

What each component must get right:

* Timer: the callback never runs on a timer that is stopped or paused; a timer
  that looks active can fire; stop() returns with the worker gone; restart()
  always works; callbacks keep their interval.
* TimerUtils: the functions return and leave no thread behind; delayExecute has run
  its callback once, periodicExecute goes on running its own (it does not).
* Station: one session at a time, admitted under its checks; BUSY says what the
  timer does; reports count their own session and do not follow the answer to
  STOP; every command is handled to the end.
* MQTT client: the flags tell the truth about socket and connect() in progress,
  every call returns, a lost connection comes back, the destructor leaves no
  thread behind.
* The link: a station that is ONLINE hears what it has subscribed to; messages go
  out in order, none twice and none lost for want of a connection; the program ends
  when it is told to.
* Accounting: every unit of energy is booked once, and the bill is what the
  tariff asks.
* EasyLogger core: the answer about a tag is the level last set, whatever slots
  have come and gone.
* EasyLogger async: a bounded FIFO that never mixes or repeats bytes and loses
  only what does not fit; its reader is woken for what has come in.
* EasyLogger file: one writer at a time among processes that come, go and are
  killed; the rotated files are the latest lines, in order.

## 2. Modules

| Module | Models | Notes |
|---|---|---|
| `Timer` | `timer.cpp` | state machine of callers and worker; invariants, liveness, refinement mapping |
| `TimerContract` | what a Timer promises | off / on / held and firing, no threads |
| `TimerUtils` | `namespace TimerUtils` | extends Timer with the one calling thread |
| `TimerProofs` | theorems about Timer | |
| `UtilsProofs` | theorems about TimerUtils | on top of TimerProofs |
| `Station` | `charging_station.cpp` | extends Timer; its callers are the two dispatching threads |
| `StationProofs` | theorems about Station | |
| `MqttClient` | `mqtt_client_v2.cpp` | application, reconnection thread and refresher; network and broker external |
| `StationLink` | main, init_network, the queue and ONLINE | extends MqttClient: main is the client's application |
| `MqttProofs` | theorems about MqttClient and StationLink | |
| `Billing` | `price_table.cpp`, ChargeInfo, the bill | |
| `BillingProofs` | theorems about Billing | on top of Induction |
| `ElogFilter` | the tag table of `elog.c` | operators and one variable |
| `TagLevels` | what the table promises | a level for every tag |
| `ElogAsync` | `elog_async.c` | ring buffer and reader, actions for the module that composes them |
| `Elog` | `elog.c` | composes ElogFilter and ElogAsync with the logging threads and the application |
| `ElogProofs` | theorems about Elog, ElogAsync, ElogFilter | |
| `ElogFile` | `elog_file.c`, `elog_file_port.c` | several processes, killed at will |
| `FileProofs` | theorems about ElogFile | on top of Induction |
| `Induction` | lemmas about numbers, finite sets, folds and sums | models nothing |
| `MCTimer`, `MCStation`, `MCBilling`, `MCElogFile` | values for TLC | callers; a negative constant; tariffs; pairs |

### Timer

A critical section of `mutex_` is one action. The worker's section around
`executeCallback` spans several steps: the worker holds the mutex exactly while
`wpc = "callback"`, and every action that needs the mutex has the guard
`MutexFree`. What `run()` does without the mutex (its first reads, the loop
test of `stop_requested_`) is a step of its own. `stop()` is two or three
steps: the locked section, `joinable()`, and the return of `join()`. A second
`join()` of a thread that is being joined throws in the built C++ library
(EDEADLK/EINVAL) and is answered THREAD_ERROR. `restart()` is stop's steps,
then reset, then start, each with its own lock, as in the code.

Time is discrete. `next` is `next_execution_time_` relative to now, clamped to
`-MaxLag .. MaxLead`; the epoch value (`time_point{}`) is one below the lowest
lag, since the clock's epoch lies in the past. `Tick` lets time pass, at any
moment, whether or not a thread is late: a late worker is an ordinary
behaviour. Condition-variable waits are guards on their predicates; the code
notifies under the mutex whenever a predicate can become true, except `reset()`,
whose change the worker sees when it next wakes.

Left out because no decision depends on them: statistics, `last_error_`,
precision, `auto_restart_`, the error handler, getters, `waitForNextExecution`
(it only observes). An empty callback is a parameter like another: the setters
accept it and `start()` refuses it. A callback that throws is caught by `executeCallback` and
goes on like one that returns.

### Station

The four mutexes: `lib` (MQTT-C's), `queueLock`, `infoLock`, and the timer's.
`device_mutex` protects single reads and writes of DEVICE_STATUS and is not
held across anything, so a status access is one step; the test of BUSY and its
setting are two. `Deliver` is `mqtt_sync` handing a message to `msg_handle`,
in either thread, with `lib` held until `Release`. Every command that is
neither a start nor STOP, and every message of another topic or device or that
does not parse, is `OTHER`: the handler returns. Any command may be repeated,
which is how a duplicated or late message looks to this code (it does not use
the timestamp). `Publish` needs `lib` and keeps `queueLock`; the message is off
the queue whatever publish returns.

The worker's callback is `CallbackLock` (energy, total), `CallbackPush`
(send_charge_info) and `CallbackReturn`, all inside `wpc = "callback"`. One
callback adds one unit of energy.

The histories `session`, `answered`, `acked`, `lastReport` record what has
happened for the properties; no guard of the code reads them.

The connection is made in `Setup`, or never, and then lasts: losing it, ONLINE's
changes and the program's exit are `StationLink`'s. The refresher exists from the
connection on and dispatches whatever ONLINE says; main dispatches while it is set.
A timer whose thread cannot be made is in ERROR, as the code leaves it: the station
stays BUSY without charging and the start is not answered (`Threadless`). In the main loop only every tenth round sends a heartbeat, so
`QueueSent` may skip it.

### MqttClient

Three threads. `pc["app"]` is the application's (the program has one), from
which every public operation is called, the destructor included;
`pc["recon"]` is `reconnect_thread_` in `reconnect_loop`; `refresher` is
`sync_thread_` in `client_refresher`. `"none"` means not joinable, `"exited"`
ended and not yet joined: `set_auto_reconnect` and `connect()` treat the two
differently, as the code does.

`mutex_` is held for the whole of `connect()`, which is one action per point
where another thread can see something: the test and `connecting_`, the socket
with its two outcomes, `mqtt_init`/`mqtt_connect` with theirs, the join and
start of the refresher, the stores to `connecting_` and `connected_`, the
application's callback and the return. `RefresherThrows` is the refresher's
`std::thread` failing, an exception nobody catches. The holder
is the thread whose pc is in `Section`. The other operations take `mutex_` for
one action. `sync()` and the refresher take no lock: each read of the atomics
that another thread's store can separate is a step (`connected_ || connecting_`
is two).

External: `link` is the TCP connection MQTT-C works on (`BreakLink` at any
time), `served` what the broker delivers on the present session; a new
`mqtt_init` starts a session with nothing served, since the reconnection uses a
new client id and a clean session. `mqtt_sync` fails when the link is broken.
`connected_` becomes true when the connect packet has been queued, whatever the
broker will answer, as in the code.

A library that refuses a subscription, as when its send buffer is full, is
`SubscribeFails`.

Left out: payloads and error texts, `last_error_`, `publish` and
`wait_for_connection` (they change no state of this module; what publish does and
how it fails is in `StationLink`), moves, `sync_async` and
the asynchronous queue (no caller in the repository), the response handlers
`on_connect`, `on_subscribe`, `on_publish`, `on_disconnect` (never installed).

### StationLink

`StationLink` extends `MqttClient`: the client's application is main, which makes
the calls main makes, in that order (`mpc` says where it is): connect, switch the
reconnection on, set ONLINE, subscribe to every topic, loop until the signal,
disconnect, destroy the client and then the timer. Steps that belong to the
client are MqttClient's own actions; the one that returns from the connect callback,
`CallbackReturns`, is where the station clears ONLINE (`ConnectCallback`), one step
after `connected_` has been set.

`lib` is MQTT-C's own mutex: a thread that dispatches a command holds it until the
handler returns (`Deliver` to `StartTimer` or `Answer`), and mqtt_sync, publish,
subscribe and disconnect wait for it. `mqtt_msg_queue_mutex` is main's while it
is in "send". So the queue/library lock cycle that `station_deadlock` shows is here
too (`LockCycle`). What `Station` shows in detail, the admission of a start, the charge
record and the timer's steps, is left out; of a handler there is what it waits for (a
STOP joins a worker that is reporting) and what it pushes.

Messages are numbered as they are pushed; `sent` is what a working connection has
taken, `refused` counts what mqtt_publish has not taken although it worked.
`Publish` takes the message off the queue first and does not look at the result, as
`send_mqtt_msg` does.

### Billing

The accounting is sequential (charge_info_mutex), so the module has no threads.
Days have `Hours` hours of `HourLength` minutes. `Loaded` is what
`PriceTable::load` makes of a `price.json`, the empty table what is left when the
file cannot be opened. get_price(hour) has no return statement for an hour
without a period: `junk` stands for whatever the caller then reads. Energy is
whole units, one per callback, and prices are whole numbers; the program's
floats round, which the model does not show.

### Elog, ElogAsync, ElogFilter

The byte is the unit, `<<log, position>>`, so that mixing, loss, repetition and
reordering can be told apart. `ring` is exactly the code's five variables; `Used`
is `elog_async_get_buf_used` with its branches in their order, and `Written` what
its one or two memcpy do. The output lock is held for an `OutputBuffered` up to
the notice and for a `ReaderGet`, and by nobody else across steps. The
configuration is that of the linux port's `elog_cfg.h`: a pthread and no line
output. `pthread_create` may fail, which elog_async_init does not notice: the
reader is then "absent", and joining it, which is undefined, returns or ends the
program (`AbsentJoined`, `DeinitCrash`). The application calls one function at a time, and ends the logger after
`elog_stop` when no thread is inside `elog_output`: ending it under a thread that
logs is outside the use the functions are made for.

`ElogFilter`'s slot with its use flag is a slot whose tag is not `NoTag`; tags
stand for the prefix `strncmp` compares. Lines that do not pass the filter change
nothing and are not steps. The other filters of `elog.c` (level, tag text,
keyword), colours, formats and the truncation of a long line are left out.

### ElogFile

Files are inodes: a rename leaves open streams where they are, an inode loses its
lines with its last reference. Sizes are counted in lines and lines are numbered
in the order of writing. The semaphore's creation is the code's protocol:
`CreateSem` (value 0), `RaiseSem` (sets `sem_otime`), `OpenSem` (waits for it),
`GiveUpSem` (ten looks were too early: the process goes on without a lock).
Every operation is done with SEM_UNDO, which `End` models. `elog_file_config`
runs under the lock in one step. A process may be killed at any step, between
two renames too. `semop` is not restarted when a signal handler has run, and the code
does not look at its result: a thread that was waiting goes on without the lock and
raises the semaphore all the same (`LockInterrupted`, `ConfigInterrupted`). fopen may fail
where it opens the log (`ConfigureFails`, `ReopenFails`, `ReopenCrashes`) and where
the rotation only tests whether a file is there (`RotateSkips`: it is then not renamed,
and nobody notices). `past` records the worst that has happened, since the properties
depend on it: a failed or cut rotation, two processes that had the file open at
once, a rotation that skipped a file, a process that did without the semaphore, a
wait that was interrupted.

## 3. Runs

Runs that pass:

* `timer_safety` two callers, ONESHOT, REPEAT and LOOP, thread creation failing
  at will: flags agree with the state, the callback runs only on a running
  timer, an active timer has a worker, a stop is always collected, the contract's
  safety half, the spacing of callbacks, and under fairness `StopReturns`: stop() and
  restart() return unless another caller's start() or reset() clears the stop flag
  before the worker has read it (`Overtaken`). In that case the joining caller waits
  for as long as the timer runs, which the run allows and does not hide. FIXED_RATE
  is not in this run: it catches up by design, which spacing excludes.
* `timer_one_caller` one caller, all four modes, two intervals: restart()
  succeeds, and the whole contract with its liveness.
* `timer_utils` both functions return and leave no worker; delayExecute has run
  its callback exactly once when it reports success. Of periodicExecute's callback
  it says nothing, see `timer_periodic`.
* `station` three commands of any kind to two dispatching threads, two callbacks per
  session, self checks and thread creation that may fail: outside a handler BUSY means
  that the timer runs or that its thread could not be made, and a running session is
  BUSY and admitted; no lock inversion between charge_info_mutex and the timer's;
  a start without an answer has started, or its thread could not be made; reports
  count their own session and never follow the answer to STOP. Under fairness every
  command is handled to the end or the threads are in `LockCycle`: there is no other
  deadlock among the four mutexes and the join.
* `mqtt_client` every order of the application's calls with the reconnection
  thread, the refresher and a network that breaks: the flags, the destructor,
  the return of every call and the recovery of a lost connection. The one way to
  block that it allows is `Entangled`, a connect() that joins the old refresher
  which its own `connecting_` keeps alive.
* `station_link` main over the client and the network: `OnlineServes` (while ONLINE
  over a working connection, outside the window before the connect callback, that
  connection serves every topic the client believes subscribed), `ChargingIsHeard`
  (until the first loss), `InOrder`, and under fairness `QueueDrains` and
  `ExitCompletes`, both up to the two deadlocks `Entangled` and `LockCycle`. The queue
  drains although messages are dropped: publish()'s result is not looked at. Nothing
  here says that a subscription survives a reconnection: it does not, and what keeps
  `OnlineServes` true is that the reconnection clears ONLINE as well.
* `billing` sessions over two days under five tariffs, one of them with an hour
  left out as in the repository's `price.json`, in two time zones, and without
  the file. `BilledByTariff` holds where the tariff covers every hour, changes on
  the hour and the machine keeps UTC (the code books by UTC hour and the tariff
  is local); `BillGrows` needs the first condition, and that no price is
  negative, which one of the tariffs violates: nothing in `load` refuses it.
* `elog` two threads, a ring of three bytes, polls of two, lines of three, two
  slots for three tags, a reader that may fail to be made: `Fifo`, `NoLostNotice`, the
  refinement of `TagLevels` (`ImplementsTagLevels`), and under fairness `LogsComeOut`
  and `DeinitReturns`, both where there is a reader. Bytes left in the buffer when
  the logger was ended are announced by nobody until the next line comes in; if they fill
  the buffer no line does, and the new reader sleeps on. `NoLostNotice` and `LogsComeOut`
  are about bytes taken in the present reader's life (`stranded` counts the others).
* `elog_file` two processes, one with two threads: `Exclusive`, `SizeBounded`,
  `ArchiveIsSuffix`, `KeepsFiles`, each under the history it holds for, and
  `LockIsGranted` for elog_file_write, whoever is killed. With an interrupted wait
  the lock no longer excludes, and with a skipped file the limit no longer holds: the
  run reaches both, and the properties except them by name.

Where deadlock is not checked the system may stop: the client after its
destructor, the program after its exit, the application when it calls nothing
more, a session at its bounds.

Runs that find a disagreement between the code and what the repository says:

* `station_deadlock`: `send_mqtt_msg` publishes with the queue's mutex in hand
  while the handler, inside the library's mutex, waits for it
  (`README_MQTT.md:226`).
* `timer_periodic`: periodicExecute answers success and its callback does not run: the
  timer is a local of the function, whose return stops it (`timer.hpp:172`).
* `station_online`: the connect callback clears ONLINE on success, so a
  reconnection leaves a station that neither synchronises nor sends
  (`charging_station.cpp:69`).

### Bounds

`MaxLag`, `MaxLead`, `MaxCount` saturate: behaviours are not cut off, values
beyond the bound are identified. Nothing in the code compares a lateness except
with zero, so one tick of lag stands for all; `MaxLead` is at least the largest
interval (two for FIXED_RATE's sum, so that run has room to push an execution
out, and longer leads behave alike); the count is compared only with the repeat
count. `MaxCommands = 3` allows start, STOP, start again, with any of them
refused, repeated or swapped; `MaxEnergy = 2` allows a session to have a first
and a following report and to be stopped in the middle of either. Two
dispatching threads are all the program has. `mqtt_client` has two topics, so
that one can be recorded and another not, and `MaxAttempts = 2`: a first attempt
and a last one, which may fail each; the program's 10 adds attempts that are
neither, and the proofs hold for any number. `station_link` has two messages, so
that order and loss can be told apart, and the two topics main subscribes to. In
`billing` a day of three hours of two minutes has a first, a middle and a last
hour and a change inside one; eight minutes are more than a day, four callbacks
let an hour be used twice. In `elog` three bytes and polls of two make every
combination of wrap, full, empty and partial take happen; three lines fill the
buffer and overrun it in two lives of the reader; three tags contend for two
slots. In `elog_file` two rotated files, a limit that the first line reaches,
three lines and one fault (a kill, a close-down, an interrupted wait, an fopen that
fails) let a rotation be cut or skipped at each of its steps and a file leave the end
of the chain. The number of callers of a Timer
is 2 in the runs and arbitrary in the proofs. In
`timer_safety` the interval is one tick and lateness is zero, which keeps two callers
with liveness within reach; `timer_one_caller` has two intervals and a lag. No run uses
a state constraint or symmetry.

### Fairness

Timer: weak fairness of the worker, of the clock and of a caller inside an
operation: the operating system runs threads that can run, time passes, a
callback returns. A caller never has to begin an operation. `timer_safety`, with two
callers, adds strong fairness of a caller inside an operation (`SharedSpec`): it may
wait for the mutex while the worker goes on taking it for callbacks, between which the
worker sleeps for an interval. `TimerUtils` and `Station` add strong fairness of a step that waits for a mutex: the holders
release it and sleep (an interval for the worker, 100 ms for the refresher, one
second for the main loop) before taking it again, so a waiting thread gets it.
No command ever has to arrive. `MqttClient` has strong fairness of `connect()`
in either thread and of a call the application is in, for the same reason (5 s
between two reconnection attempts), weak fairness of the reconnection loop and
the refresher; connecting may fail every time, the link may break at any time.
`StationLink` has strong fairness of main, of the handler and of the charge
callback, which wait for a mutex that comes free again and again (main sleeps a second
every time round, the client's threads 100 ms or more), and weak fairness of connect()
and of the client's threads. `Elog` has strong fairness of a thread inside `elog_output` and of the
reader, since the output lock is held for one line and comes free again and
again, and weak fairness of the join; nobody has to log. `ElogFile` has strong
fairness of a thread that has called elog_file_write: a section lasts one line or
one rotation, and the kernel lets a waiting process have the semaphore when it
comes free. Nobody has to start, to log, to end or to be killed.

## 4. Proofs

`TimerProofs`, for every set of callers, modes, intervals, delays, bounds:

* `TypeCorrect`: the type invariant.
* `FlagsAlwaysAgree`, `CallbackSafe`, `ActiveAlwaysHasWorker`: from the
  inductive invariant `IInv`, their conjunction with the types. They need each
  other: that a worker which leaves its loop never strands an active timer
  rests on `stopRequested => state = "STOPPED"`, and that `start()` on a paused
  timer finds its worker rests on `ActiveHasWorker`.
* `StopAlwaysCollected`: a requested stop has a collector, on top of `IInv`.
* `CallbacksSpaced`, if the mode is never FIXED_RATE: from `SpacedInv`, by which
  the next execution and the quiet since the last callback add up to an interval
  while an active timer's worker is in its loop.
* `OneCallerRestarts`, for one caller and threads that can be made: by
  `RestartInv`, on top of `StopIsCollected`, restart() gets to its reset and start
  with no worker left.
* `ImplementsContract`: every step of Timer is a step of `TimerContract` or a
  stutter under the mapping `phaseOfState`, `wpc = "callback"`.

`StationProofs`, for any commands, self-check answers and bounds:

* `StationUsesTimer`: the station's behaviours are behaviours of Timer, so all
  of the above holds inside it (`StationTimerInvariant`, and `StationReportsSpaced`:
  charge callbacks keep their interval across sessions).
* `StationBusyMeansStarted`, `StationLocksInOrder`, `StationSilenceMeansStarted`
  from `SessionInv`. The handlers exclude each other by MQTT-C's mutex (`Exclusion`,
  `Alone`), so
  the invariant can say for each place of a handler what it relies on between its
  steps: a start that has claimed BUSY finds the timer not started and the checks
  passed (`Starting`), a stop that has been joined left it STOPPED (`Stopping`).
  `WorkerCollected` is what carries the lock order: a timer that does not run has
  no worker or a STOP waiting for its end, and a start that gets as far as
  charge_info_mutex excludes that STOP.
* `StationNoReportAfterStop`, `StationReportsCount` from `ReportInv` on top of it:
  where the energy and the last report of the session stand, by the place of the
  callback; a running timer belongs to a session that has not been acknowledged.
* `StationTypeCorrect`: the types of everything, by both.

`UtilsProofs`, for any intervals, repeat counts and bounds: `UtilsUseTimer` (each
function is one caller of a Timer, so Timer's theorems hold of what it makes) and
`UtilsReturnClean` (`ReturnedClean`, the half of `RunsOnce` that finitely many steps
can violate). `UtilInv` says what the calling thread may be doing in the timer at
each place of the function (`CallAgrees`), that the timer is never paused and is
stopped once (`Handled`), and that a successful delayExecute past its wait finds the
worker ended by itself, its callback run (`WaitedFor`).

`MqttProofs`, for any topics and any limit on the attempts: `MqttTypeCorrect`,
`ConnectingAlwaysOwned`, `ConnectedAlwaysHasSocket`, `DestroyedAlwaysClean`. The
invariant adds to the checked ones that `mutex_` has one holder (`Exclusive`),
that `connect()` past its socket still has it (`SocketInside`), and what the
destructor has taken down by each of its steps (`Dismantled`). Without
`Exclusive` an error path could clear a `connecting_` that is another thread's.

In the same module, for any bounds: `LinkUsesClient` (every step of the composition
is a step of MqttClient or leaves it alone), hence `StationClientSafe`, and
`OnlineAlwaysServes` from `ServeInv`: nothing is subscribed and the bit is clear until
main sets it, and a connection that works while the bit is set serves every topic
recorded, unless a thread is inside the connect callback, the only place where a new
connection has `connected_` set with the old bit; the callback clears it.
`ChargingAlwaysHeard` rests on
`FirstInv`, the life of the first connection by where main is: the station has it,
with the reconnection asleep, or connecting failed and nothing was ever delivered.
`MessagesInOrder` rests on that and on `OrderInv`: what has been sent and what waits
are increasing and the one lies below the other, and until a connection is lost what
has been pushed is sent, refused or waiting.

`FileProofs`, for any processes, threads, sizes and number of faults:
`SemaphoreExcludes`. As long as no wait has been interrupted the invariant counts: the
semaphore's value is one exactly when nobody holds it and it has been raised, in
creation it is zero and nobody has opened it, what a process would give back at its
end (`adj`) is one exactly when it holds it, and a process without the semaphore has
`past = "unlocked"`.
`FilesBounded` (`SizeBounded`) rests on it and on `FileInv`, up to a skipped
file: a thread about to
reopen the log finds no file in the first place, since it is alone; the inode it
then takes is unused, and unused ones are empty; there is always one
(`RoomForFile`, a count of what can be in the directory or open).

`FilesContinue` (`ArchiveIsSuffix`) and `RotationKeeps` (`KeepsFiles`), for any number
and size of files, rest on both and on `OrderInv`, which has three parts.
`DirInv`: a file is in one place; the place above the one a rotation has come to is
free, unless it has just begun; while processes follow each other there is one at a
time, and its stream is the newest file. `ChainInv`: while no rotation fails, every
file but the newest is full, a rotation has found that one full too, and the only
hole in the chain is the rotation's. `LinesInv`: there are numbers e[0] = `written`,
e[1], ..., e[Rotations + 1] such that file k holds the lines after e[k + 1] up to
e[k] (`Numbered`), and either e[Rotations + 1] = 0 or all files but one are full
(`KeptEnough`). Each step tells how the numbers change: a line raises e[0], a file
that moves takes its two with it, what leaves the chain raises the last. The archive
then is a run of numbers by induction over the files (`NumberedArchive`), and its
length is bounded below by another (`FullFiles`). That the oldest file is only dropped
when all the others are full is why `ChainInv` needs the position of the hole.

`BillingProofs`, for any price files, days, zones and numbers of callbacks:

* `BillingInvariant`: types, `BilledBySum` (under a tariff that covers every hour, the
  bill is the sum over the hours of the energy booked times the price listed) and
  `EnergyBooked`, with what the tariff asks at each callback.
* `SessionsBilledByTariff` (`BilledByTariff`): one callback more changes one term of
  the sum (`BillOfOneMore`, from `SumUpdate`), by the price of the hour booked; and
  over a tariff of whole hours that is the price of the minute (`PriceOfTheHour`, from
  the arithmetic of hours and minutes, `MinuteOfDay`, `WholeHours`).
* `BillsGrow` (`BillGrows`): the same term is not negative.
* `SessionsBookEnergy`: the energy is one unit for every callback.

`Induction` gives them what the library's induction theorems cannot, since these
take a predicate as a parameter: induction stated about sets. The strict subset
ordering of a finite set is well-founded (FiniteSetTheorems), so a family of subsets
has a minimal member (`MinimalMember`), a set of numbers a least one
(`LeastElement`), and `NumberInduction` follows. From it, the recursive functions that
the community modules' folds choose exist (`FoldExists`), hence satisfy their
equations, and sums over sets obey theirs (`SumEquation`, `SumUpdate`).

`ElogProofs`, for any buffer, poll and line sizes, threads, tags and slots:

* `BytesInOrder`: `Fifo` from `RingInvariant`. The counting part of it says how
  far the two indices are apart, by `accepted`, `printed` and `batch`, with the
  flags for the case that they meet; then one lemma for each of put and take says
  which positions of the ring change, by cases on the wrap.
* `NoticeNeverLost`: on top of it, since the reader that finds the buffer empty
  may only sleep when everything accepted has come out.
* `LoggerTypeCorrect`: types, `TableOK`, `RingOK`.
* `ImplementsLevels`: each call of elog_set_filter_tag_lvl is a step of
  `TagLevels`. `TableOK` makes a tag's slot unique (`LevelOfSlot`), one write
  changes the answer for one tag (`OneSlotWritten`), and a free slot means fewer
  restricted tags than slots (`RoomForAnother`, an injection that is not onto).

The assumptions are the named ASSUMEs of the modules: types of the parameters,
intervals and repeat counts within the bounds, two distinct dispatchers, a station
whose timer is in LOOP mode (what init_timer sets), a positive buffer and poll
size, special values outside the sets they are added to.

Of a price file only the types are assumed.

Every invariant and every action property that a run checks is the statement of a
theorem. Only model-checked is what is temporal beyond `[]`: liveness under fairness,
the half of `RunsOnce` that both functions return, `ContractHolds` beyond its safety
half, and the deadlock checks (ENABLED), all outside the prover.

## 5. What is left

Known behaviour of the code for which no property is stated, because nothing in
the repository promises otherwise or because a unit test shows it as well, is
listed in `PROJECT.json` among the hazards, with a note.

Not modelled, and why:

* EasyLogger's buffered mode (`elog_buf.c`): not compiled in.
* EasyLogger's demos, ports and flash plugin: microcontroller libraries and
  examples that are not built. They are nearly all of the tree's lines: the
  program itself, with the parts of EasyLogger it is built with, has some five
  thousand, so the models speak of a small share of the files.
* The example and test programs: callers; their expectations are used where they
  state one.
* The device driver: a stub that returns constants; only the answer of SelfCheck
  matters and is a constant of `Station`.
* MQTT-C: not in the tree. Its mutex, its connection and its call of the message
  callback are modelled as the wrapper depends on them.
* In the wrapper: `sync_async`, the asynchronous queue and the MQTT-C response
  handlers, which nothing calls or installs.
* Data: JSON, formatting, logging, floats.

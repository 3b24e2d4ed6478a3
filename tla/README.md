# A TLA+ model of workq

workq is a job queue on a MySQL table. Clients insert rows into the table
`jobs` and wake a server with a UDP packet; the server wakes a worker process
through a pipe; a thread of the worker claims rows, runs them and writes the
result back. The modules here model the daemon from its command line and
configuration through server and workers down to the child process of a
`RunJob`. TLC checks them on small instances, and TLAPS proves the main results
for every number of workers, threads, jobs and invocations.

## The system

| part | state | operations | talks to |
|---|---|---|---|
| jobs table (MySQL) | `status`, `locked_queue_id` of every row | the claim, the SELECT after it, the unlock, `processing`, `complete`/`error`, a client's INSERT | every thread of every worker, of every server on the database |
| `Worker::WorkQueue` (worker.cc) | `m_queue`, `m_pending`, the locals of `run()` and `find_jobs()` | `run`, `find_jobs`, `send_work`, `send_stop` | the table; its worker's main thread through the queue and `m_active` |
| `Worker` (worker.cc) | `m_active`, `m_threads`, libev watchers, the pipe | `execute`, `run`, `on_io_work`, `schedule`, `on_signal_stop`, `shutdown` | its threads; the server through a pipe and SIGUSR2; the terminal through SIGINT |
| `Server` (server.cc) | UDP socket, idle timer, `m_last_worker`, pids, channels | `start_worker`, `on_connect`, `idle_jobcheck`, `increase_timeout`, `schedule`, `shutdown` | clients (UDP), workers (pipes, signals), the table (a count) |
| `WorkerChannel` (channel.cc) | two pipes | `open`, `child_init`, `parent_init`, `waitForChildInit` | server and worker |
| `Job` and its modules (job.cc, modules/) | the record, parsed data, for `RunJob` a child process and two pipes | `real_execute`, `load_data`, `execute` | called by a thread's `run()` |
| `Settings` (settings.cc) | keys and values | `load_from_file`, `verify`, `commit`, `get_*` | everybody |
| MySQL adaptor | a connection and one query buffer | `query`, `query_with_result`, the row iterator | threads and server |
| workqd (workqd.cc) | pid file, working directory, log file | start, `-k`, `-i` | starts the server; other invocations through pid files, ports and SIGTERM |
| webviz, json, PString, tests | | | aside |

What makes each part correct:

* **Table and threads.** No job is run twice and no two threads hold one job,
  however statements interleave, fail or are cut short by a crash. In the
  absence of failures a claimed job gets its result, also while workers are
  being told to stop.
* **Main thread.** A wake-up is served, work is spread over the threads, a stop
  ends the process without leaving rows behind, and a worker does not outlive
  its server.
* **Server.** Wake-ups go round over all workers; a lost packet, a dead worker or
  a failing statement is made up for by the idle poll, which is never switched
  off; a write to a full pipe returns; shutdown ends; no worker is left without
  a server.
* **RunJob.** The output of a command is collected completely, in whatever order
  the two streams come; descriptors are given back, and none is taken from
  another thread; the result is that of the command; the job ends.
* **Settings.** What is loaded is what the file says in the section for the
  environment; a file is accepted if its keys are valid (it is not: see
  `VerifyJudgesLast`).
* **workqd.** One daemon for a pid file at a time; the file names it; `-k` ends it
  and starts none.

What is hard, and hardly tested by the unit tests, is the order of things: two
statements of one thread with those of other threads between them, a statement
that was executed but is reported as failed, a crash between claim and result,
a stop that meets a thread in the middle of a batch, a second signal, a counter
that is read while threads change it, a descriptor number that is reused between
two calls, a pid file that is tested in one step and written in another.
`PROJECT.json` lists these hazards with
their lines.

## Modules

| module | models |
|---|---|
| `JobsTable` | the table and its SQL statements |
| `WorkQueue` | the threads of all workers, on `JobsTable` |
| `JobLease` | what the threads promise: an at-most-once lease of jobs |
| `Worker` | a worker process: the main thread and the signals, on `WorkQueue` |
| `Server` | the server process with its workers, pipes and clients |
| `RunJob` | one thread running a command, next to the other threads of its process |
| `Settings` | the configuration reader, as operators |
| `Daemon` | invocations of workqd: `main()`, the pid file, the port, `-k`; on `Settings` |
| `WorkQueueProofs`, `LeaseProofs`, `WorkerProofs`, `ServerProofs`, `RunJobProofs`, `DaemonProofs` | the theorems about each |
| `ProgressProofs` | the theorems about what becomes of a claimed row, for threads and for whole worker processes |
| `SettingsProofs` | the theorems about `Settings`, for files and lists of any length |
| `MCWorkQueue`, `MCWorker`, `MCServer`, `MCRunJob`, `MCDaemon` | instances for TLC |

Operators commented "Defect" are never part of a specification. Each is a
plausible mistake in the operator that follows it; putting it in that
operator's place makes a property fail, which shows that the property depends
on that piece of code.

### JobsTable

A row is its `status` and its `locked_queue_id`; its identity is its `id`, so
ORDER BY id is the order of integers and `OldestOf` says what `ORDER BY id
LIMIT n` keeps. The connection autocommits (the transaction in `find_jobs` is
commented out), so a statement is one atomic step and two statements are two.
Rows become visible in any order of ids, because InnoDB hands out an id before
the inserting transaction commits. A lock string `pid:this:sec:usec` is a queue
(a thread of a worker) and a stamp. Clients insert rows; that they might delete
or rewrite rows is not modelled.

### WorkQueue

`pc[q]` says where a thread is:

| `pc` | in the code |
|---|---|
| `check` | `while( m_active )` |
| `pop`, `drain` | `g_async_queue_timed_pop`, `g_async_queue_try_pop` |
| `claim`, `select` | the two statements of `find_jobs` |
| `jobs` | the loop over the rows, then the loop over the batch |
| `mark` | between the creator's return and `status='processing'` |
| `running` | in `real_execute()` |
| `exited`, `dead` | the thread has left `run()`; the process was killed |

The queue `m_queue` is a number of work messages (`tokens`) followed by at most
one stop message (`stop`): `shutdown()` is the only sender of stop messages and
nothing is sent after it. `rows` and `batch` are the rows `find_jobs` has not
handled yet and the Job objects `run()` has not freed yet.

With `DbFails` any statement may fail. The claim may fail before or after it
was executed; the SELECT may fail, and then the unlock may fail too, or its
result may not be storable, which `find_jobs` takes for an empty result; the
statements whose return code is ignored (`Try`) may do nothing. `Crash` kills a
process between any two steps, `Restart` starts one anew; nothing in the code
looks at the rows an old process held. `runs[j]` is a history variable that
counts the calls of a job's `execute()`.

### JobLease

A job is new, waiting, leased or retired. It is leased to one queue, once, may
be started once, by that queue only, and never waits again. `WorkQueue` defines
the mapping: a pending row waits, a row with a lock string is leased to the
queue the string names, any other row is retired. A row left `loading` and
unlocked by a failed SELECT is retired without having run, and a row left
`processing` by a crash stays leased for ever: workq is at-most-once.

### Worker

`Worker` extends `WorkQueue`. Each step of it takes one `WorkQueue` step, or
leaves that state alone: the main thread decides *when* the steps that
`WorkQueue` leaves open (`SendWork`, `Shutdown`, `SendStop`, `Crash`,
`Restart`) happen. `on_io_work` calls `schedule()` before it reads, reads up to
80 bytes and calls it once more for every byte after the first; a message of the
server is two bytes, so it counts twice. `schedule()` reads one counter per step
(`ScanThread`) while the threads go on. `m_pending` starts from any value of
`Garbage`, because the constructor does not initialise it; `base` remembers that
value. `handled` says whether SIGUSR2 and SIGINT have handlers: they get them
after the threads are created and lose them at the start of `on_signal_stop`.
A signal without a handler kills the process. Its own threads are the only
state a process has, so a process that ends in `BootFails` or by a signal is
`WorkQueue`'s crash. The end of file on the pipe (`ParentDies`) may come at any
time here; which processes hold the write end, and so when it really comes, is
`Server`'s business.

### Server

`server` is where the process is: `starting` (`initialize`, then the loop of
`start_workers`), `loop` (in `ev_loop`), `packet` and `poll` (in the blocking
`write` of `schedule()`, called by `on_connect` or `idle_jobcheck`), `signal` and
`wait` (the loop of `shutdown()`), `stopped` and `dead`. `next` is the index of
the two loops, `turn` is `m_last_worker`, `watched` the workers whose `ev_child`
is not NULL. The number of workers may be 0: `verify()` lets `workers: 0` pass when
a valid key follows, `m_pids` is then NULL, and `schedule()` ends the process
(`ScheduleNobody`). A write to the pipe of a dead worker fails with EPIPE and does
not kill the server, because libmysqlclient, which `initialize` connects with,
sets SIGPIPE to be ignored.

A worker is seen from outside: `up`, `stopping`, a `zombie`, `reaped`, or `absent`
because it was never forked. It reads its pipe (a message per byte), claims as
many rows as it has messages, loses them if the claim fails, may be killed by a
signal that arrives before its handlers are installed or after they were
removed, and exits at the end of file (after one more message: `on_io_work`
schedules before it reads). `ReadEndOpen` and `WriteEndOpen` say which
processes hold the ends of a pipe after `child_init` and `parent_init`: a worker
keeps the write ends of all workers forked before it, so orphans exit from the
last one to the first.

Time is the interval of the idle timer only. `increase_timeout` adds
`fabs(log10(...))`, any value of `Increments`, and stops at the maximum;
`ev_timer_again` with the repeat value 0 stops the timer, which is what happens
with `min_idle_timeout: 0`. Packets are lost at any time; a statement, a fork or
a `recv` may fail and any process may crash, `MaxFaults` times in all. `since`
is a history variable: the number of messages written since a worker's last one.

### RunJob

Output is counted in pieces of what one `fgets` returns; a command is the
sequence of streams it writes a piece to. A pipe holds `Capacity` pieces, the
buffer of a `FILE` up to `Stdio` more. `fds` is the descriptor table of the
process and `num` the numbers `ofd` and `efd` hold, which are used again after
`fclose` has already closed them. `sink` says which end the child's stdout and
stderr are, `heirs` which ends any other process (one the child left behind, or
the child of a `RunJob` in another thread) has open. The main thread's event loop
may wait for the child first (`LibevReaps`). `m_data` starts as NULL or as garbage.

Other threads open and close files (`OtherOpens`, `OtherCloses`), and RunJobs
among them close a number a second time: `again` is the set of numbers for which
that is still to come, and `SiblingCloses` takes whatever the number refers to by
then, at any point between this job's `pipe()` and its last `close()`, a read or a
write end. What follows from it is modelled: `dup2` in the child of a number that
is closed or another's, `fdopen` that returns NULL (`ferror(NULL)` ends the
worker), reads from another thread's file, and this job's own `close` of a
descriptor that is another thread's by now, which that thread will close again in
turn. `hit`, `lost` and `raced` record it: an end of this job was taken, this job
closed another's descriptor, another thread opened one between this job's
`fclose` and `close`.

The command runs with SIGPIPE ignored, as libmysqlclient set it in the worker:
`execve` keeps that, so a write to a pipe without a reader fails and the command
goes on or gives up.

### Settings

A file is the sequence of events libyaml reports. `Load` folds `Event`, one turn
of the loop of `load_from_file`, over it; `Verify` folds `TestKeyValue` over the
loaded list in the order of `g_datalist_foreach`, which depends on the version of
glib: both orders are considered. `Flat` and `Says` are the reference: the
events of a file made of sections of scalars, and what such a file says.
`LoadedAsSaid` and `JudgedByLast` compare the two for one file and one list.

### Daemon

`pc[p]` follows an invocation through `main()`; `stopped` is its end after the pid
file was removed, `gone` any other end. An invocation is started in some directory
of `Dirs`, and `File` says which file a path names in a directory: an absolute path
names one wherever the process is, a relative one another before `daemonize()`
than after it, which changes to `/` (`dir`). Configurations may name different pid
files and ports. Between `fopen` and `fclose` the file exists and is empty
(`Empty`), and `-k` then signals its own process group. `-k` without a pid file goes
on and starts a daemon. A signal kills a process that has not come to
`ev_signal_start`, or that could not bind its port and so never does (`Dies`); a
crash or SIGKILL may come at any time, during a shutdown too.

`odd` is a history variable, the pid files that were passed by: a daemon wrote the
file without having tested it (a relative path), or tested it while another was
between its test and its write, or a process in the foreground (`daemonize: no`)
removed it. That a pid in a stale file is given to a new process is not modelled.

## Runs

| run | asks | distinct states |
|---|---|---|
| `faults` | two workers, statements fail, processes die and restart: is a job ever held by two threads or run twice, does a thread hold a row it has not locked, is the lease implemented? | 2.1 million |
| `reliable` | no failures, workers told to stop at any time: is a row ever left behind, are results final, do threads end? | 170 thousand |
| `worker_safety` | one process of two threads, counters from {0, 9, 11}: who gets the work, does the counter cover it, does one stop leave rows behind? | 1.7 million |
| `worker_live` | the same process under fairness: is a wake-up served, does a stop end the process, does an orphan exit? | 170 thousand |
| `server` | two workers, lost packets, a fault anywhere: does every worker get its turn, does the idle poll stay on, is a missed wake-up made up for, do the blocking write and the shutdown return, does the shutdown leave a worker, do orphans exit? | 240 thousand |
| `no_workers` | a server without workers: what does the first job do to it? | 912 |
| `run_job` | all commands of up to four pieces, another thread that opens, closes and closes again: is all output collected, are descriptors given back and left alone, is a success reported as one, what ends the worker, does the job end? | 1.5 million |
| `daemon` | two invocations, with and without `-k`, in two directories, any of six configurations: is there one daemon for a pid file, does the file name it, does a stop end a process and remove its pid file? On all small files: what is loaded, what is accepted? | 39 thousand |

Four runs find disagreements between the code and what a comment, a message or the
README says of it:

* `unknown_kept`: with `discard_unknown_jobs` off, a row of an unknown type
  stays `loading` and locked; no other worker can ever take it.
* `two_signals`: SIGINT followed by SIGUSR2 kills a worker in the middle of a
  batch, because the handlers are removed before the threads are joined.
* `lost_status`: libev waits for every child of the process; if it does so first,
  `waitpid` in `execute()` fails, `status` keeps its initial 0, and a command that
  failed is reported as a success. `NoFalseFailure` says that the opposite does
  not happen.
* `two_daemons`: two daemons started together both find no pid file, and are both
  up with the same one.

Others show in properties that hold, because they say what the code does:

* `TypeOK`: rows are `loading` or `complete`, which are not among the states the
  README lists (pending, processing, completed, error).
* `ResultIsFinal`: the README's query for new jobs also selects unlocked rows that
  ended in `error`; the claim takes pending rows only.
* `HeldIsLocked` excepts a row whose creator returned NULL (`Rejected`): it is set
  to `error` and then, by the next statement, to `processing`, where nobody works
  on it. `InProgressHasWorker` is checked, and proved, without such rows.
* `OneThreadWorks`, see below: `schedule()` compares the wrong way round.
* `VerifyJudgesLast`: the last key visited decides, where the comment at
  settings.cc:225 says "return true if all configuration keys are valid".

`OneThreadWorks`, which `worker_safety` checks and `WorkerProofs` proves, says
what the comparison in `schedule()` comes to: one thread of a process gets all
its work, for ever, where the comment says "determine which thread is least busy".
`OneDaemon` and `OthersKeepDescriptors`
hold under conditions, and the conditions are the point: they name every way in
which two daemons can be up with one pid file (`two_daemons` shows the shortest), or
a thread can lose a descriptor. Daemons with different pid files are not kept
apart by anything but their ports. `NobodyToWake` says what accepting `workers: 0`
comes to. `JobEnds`
requires of the command what the alternating blocking reads require (`Fits`).

### Bounds

* Two workers with a thread each, and two jobs: every property of the table
  relates two threads or one thread and a row another left behind, and threads
  of one process share nothing but `m_active`. A second job makes batches of
  two, orders within a batch and a limit that bites possible.
* `Stamps`: a stamp is fresh as long as no row carries it, so as many stamps as
  jobs are always enough. With `Stamps = {s1}` and no failures all rows of a
  batch lose their lock before the next claim. Stamps are interchangeable and
  used symmetrically in `faults`, which checks no liveness.
* `MaxWork` bounds the messages a queue has in hand: two cover both jobs in
  `faults` and `reliable`; in `Worker` six is more than two messages and an end
  of file can produce, so it never blocks the main thread.
* `MaxRestarts = 1` bounds crashes and restarts together: one life before and
  one after a crash.
* `Garbage = {0, 9, 11}`: both sides of the 10 in `schedule()`.
* `Registered` and `Discard` differ between the two workers, so that known,
  unknown, discarded and kept rows all occur; job 2 has no creator result in
  `faults`.
* `server`: two workers, so that one may be dead while the other is up and so that
  a pipe is inherited; `Capacity = 2` is one message, so writes block at the
  second; `MinIdle = 2`, `MaxIdle = 4` and `Increments = {1, 3}` reach the maximum
  exactly, from less than a second below, and from above. `MaxFaults = 1`
  keeps the run short; workers die of signals without limit besides. With
  `MaxFaults = 2` (410 thousand states) all properties hold as well.
* `run_job`: `Capacity = 1` and four pieces let a command run ahead on either
  stream by more than a pipe; `Stdio = 2` lets a refill take more than a piece.
  `MaxFd = 6` is the four ends, the descriptor of another thread and one free
  number; `MaxOthers = 1` lets other threads have one descriptor open or to be
  closed again at a time, also from before the job started. `lost_status` needs
  one piece and no other thread.
* `no_workers`: three jobs and two faults, so that packets are lost and the count
  fails before the poll that finds a job.
* `daemon`: the properties relate a daemon and a second invocation, which may be a
  daemon, a process in the foreground or a `-k`; the theorems say the same for any
  number. The six
  configurations differ in what steers `main()`: two absolute pid files with
  different ports, a relative one that is one of them seen from `/`, none,
  `daemonize: no`, and a file that does not verify. One of the absolute files is
  what `-k` without the setting looks at from the second directory. With three
  invocations (1.3 million states up to symmetry) the invariants hold as well.
  `SectionLoaded` looks at all
  files of up to two sections of up to two keys, `VerifyJudgesLast` at all lists
  of up to two: three kinds of keys, valid and invalid values, both orders.

Deadlock is not checked: the system may stop for good, with all processes gone
and nothing left to submit.

### Fairness

`WF(Thread(q))`: the operating system schedules every thread, a timed pop times
out, statements return and jobs end. The last is an assumption on jobs: a
`RunJob` whose child blocks on a full pipe does not end (a listed hazard).
`WF(SendStop(q))` and `WF(MainThread(w))`: the main thread is scheduled.
`ServerFairSpec` has a weakly fair step of the server for each kind of event and
weakly fair worker steps (again: jobs end). `SF(OnShutdownSignal)`: while packets
and timeouts are served the step is not enabled all the time, but a round of
libev's loop calls every pending callback, so a caught signal cannot be put off
for ever. `RunJobFairSpec`: the thread, the child and the processes that inherited
a stream are scheduled, and the latter end. `DaemonFairSpec`: a daemon told to
stop goes on.
`BusySpec` adds that queues keep being sent work; only `unknown_kept` uses it,
where it makes the counterexample stronger. Nothing is assumed of clients, of
signals or of failures.

## Proofs

All theorems hold for any sets of jobs (finite), workers, threads and stamps,
and any settings; the named assumptions say that jobs are natural numbers, that
the empty string is not a lock string, that the settings are functions of the
worker, in `Worker` that threads are numbered from 0 and that there is one, in
`Server` that the number of workers and the times are natural numbers and a pipe
holds a message, in `RunJob` that a pipe and a buffer hold a piece, in `Daemon`
that the two special contents of a pid file are no processes, that `/` is a
directory and that the paths in use name files, and in `MCDaemon` that the quark 0
stands for no string.
The freshness of lock strings is part of the model (`FreshLockId`), not of the
assumptions; the defect `AnyLockId` shows that it matters.

* `TypeCorrect`, `WorkerTypeCorrect`: the type invariants.
* `NoJobRunsTwice`, `MutualExclusion`, `HeldJobsAreLocked`. None of the three is
  inductive. `Inv` adds: rows nobody claimed are unlocked and have not run
  (`NewRows`); a queue has a lock string exactly while it has a batch, and one
  that names itself (`OwnLock`), so two queues never have the same; it holds
  rows only then (`HoldsInBatch`); what carries the lock of a queue that is
  about to SELECT was just claimed and has not run (`JustClaimed`); of what a
  queue holds only the job it is running has run (`HeldNotRun`). The argument:
  a claim takes unlocked pending rows under a string nobody has, the SELECT
  returns only rows with that string, and every other statement concerns a row
  in the thread's own hands.
* `BatchIsCovered`: a batch never outnumbers what is left of `workload`
  (`Covered`; needs `Inv` for the empty batch at the SELECT).
* `ResultsAreFinal`, `WorkerResultsAreFinal`: a result is final whatever fails or
  crashes. Beside `Inv` they need that `mark` follows a creator's call
  (`MarkFollowsCreate`), so that the row set to `processing` is in the thread's own
  hands; and they need `Creatable`: where a creator returns NULL, the row it has
  discarded is set to `processing` (`Rejected`).
* `NothingLeftBehind`, `WorkerLeavesNothingBehind`: `InProgressHasWorker`, under
  the conditions of the runs that check it, as hypotheses (`Dependable`:
  statements succeed, creators return a Job, unknown rows are discarded or there
  are none). `ClaimFits` is needed: the rows that carry the lock of a queue about
  to SELECT are no more than its LIMIT, so the SELECT returns all of them. For
  threads alone, processes are not killed (`MaxRestarts = 0`). For whole processes
  they may be: `StartsIdle` and `StopsOnce` show that with one signal to a process
  (`OneSignal`) the only ones killed are still starting and hold nothing. What
  the failure of a hypothesis costs is seen in `unknown_kept`, in `two_signals` and,
  for NULL from a creator, failing statements and crashes, in `faults`.
* `LeaseIsImplemented`: `Spec => Contract!Spec`, step by step: a claim maps to
  a lease, an executed result, discard or unlock to a retirement, `Execute` to
  a start, the rest to nothing.
* `WorkerIsWorkQueue`: `WorkerSpec => Spec`, so the results above hold of a
  worker process with its main thread (`WorkerRunsNoJobTwice`).
* `OnlyOneThreadWorks`, `PendingIsCovered`. `WorkInv` says that `m_pending`
  covers the messages in hand, that all threads but the chosen one are idle and
  have their initial counter, and that a scan under way has seen no counter
  above the chosen thread's (`ScanOK`). The chosen thread's counter only moves
  above where it started, the others do not move, so every scan settles on it.
* `EveryWorkerInTurnAlways`, `IdlePollAlways`, `ServerTypeCorrect`. `EveryWorkerInTurn`
  is not inductive; `SinceByTurn` is: `since[w]` is the distance from `turn` back
  to `w`, round the ring. They hold with no worker too, where the first `schedule()`
  is the last step of the server. The types need `WaitsInLoop`: `shutdown()` waits for a
  worker there is. `IdlePollStaysOn` is inductive as it stands.
  `ShutdownCompleteAlways` needs that the workers `shutdown()` is past have ended
  (`Stopped`) and stay so (`NoRevival`), and that a signal during the start ends
  the server, so that a server that caught one returns only through `shutdown()`.
* `NoLeakAlways`, `OthersKeepAlways`. `FdInv` says which ends are open at each point
  of `execute()`, each under the number the thread remembers (`Owns`), whatever
  others close; that all of them still are as long as no close of another thread
  has taken one (`Has`); and that then, and if no other thread opened a file
  between `fclose` and `close`, none of the numbers `execute()` is about to close is
  another thread's (`Undisturbed`).
* `OutputCompleteAlways`, `NoFalseFailureAlways`, `DataProtectsAlways`,
  `RunJobTypeCorrect`, for every command and every capacity, on top of `FdInv`.
  `StreamInv`: as long as `hit` is empty, what was written is in the pipe, in the
  buffer or collected, and a stream that ended is empty and the child has ended,
  because the child holds both write ends while it runs (`ChildInv`). `ResultInv`
  and `DataInv` follow the result and `m_data` through `execute()` and the
  destructor.
* `OneDaemonAlways`, `PidFileAlways`, `DaemonTypeCorrect`, for any number of
  invocations and any configuration files, directories and paths. For every pid
  file that was not passed by: at most one daemon is up with it (`Alone`), and
  from its write on the file names it (`NamesDaemon`). A start that finds no such
  file, while nobody is about to write it, therefore has nobody beside it; and
  only a process in the background opens the file (`OpeningInv`). What
  `load_from_file` makes of a file plays no part.

* `FlatFileLoaded`, `VerifyByLast`, and their instances that TLC checks,
  `SectionLoadedAlways` and `VerifyJudgesLastAlways`: for any number of sections
  and keys, and any names but the quark 0. The loops of `load_from_file()` and
  `verify()`, and `FlattenSeq`, are recursive functions, which TLA+ defines by
  CHOOSE. The library's theorems about them take an operator as a parameter, so
  `SettingsProofs` argues with sets: the least turn for which a claim fails
  (`Least`, from the well-foundedness of <) gives induction (`UpTo`), and induction
  gives that the values a loop goes through exist (`FoldExists`), so the CHOOSE has
  what it chooses. `Runs` then composes the loop of `load_from_file()` from the
  events of pairs, of sections and of the file: the events of a pair put it into
  the list or not (`PairRuns`), what a section's pairs leave is `Kept`
  (`PairsRun`), and what sections leave is what they say (`SaidOne`,
  `SectionsRun`).

Every safety invariant and action property that a passing run checks is stated by
a theorem. Only model-checked: all liveness (`ClaimedFinishes`, `ShutdownEnds`,
`WakeupServed`, `StopEndsProcess`, `OrphanExits`, `MissedSignalRecovered`,
`WriteReturns`, `ShutdownReturns`, `NoOrphans`, `JobEnds`, `KillEndsDaemon`,
`NobodyToWake`), which
the prover does not reach, and the violations.

## Not modelled

* Widths: `m_pending` and `workload` (2^31 messages) and the lock buffer: 40 bytes
  may cut the microseconds off, which freshness assumes away.
* Server: events that libev still delivers in the round in which `shutdown()` was
  called; `kill` of a pid that was reaped and given to another process
  (server.cc:265); `max_scheduled_per_idle`, which server.cc:164 reads and nothing
  uses, although config/jobs.yml:33 documents it. A worker's use of the default
  loop it inherited through the fork (worker.cc:141).
* RunJob: what exactly is read from another thread's file (it may be readable or
  not, and ends or not); lines longer than the buffer; that its children inherit the worker's
  pipe to the server.
* Settings: aliases and nested sequences, which shift the parity of keys and
  values (settings.cc:97); the numeric look-ups, whose results are constants of
  the other modules.
* The adaptor's conversion of a row (a buffer of 4098 bytes at
  mysql_adaptor.cc:24, NULL fields). How statements fail is modelled where they
  are used.
* Data: names, JSON, rows' other columns (no statement of the program writes
  them), logging, the wording of options.
* The PdfPreview module (calls into poppler and cairo), webviz (reads only), json
  (not linked), PString.

## Plan

Done: `JobsTable`, `WorkQueue`, `JobLease`, `Worker`, `Server` with the channels,
`RunJob`, `Settings`, `Daemon`, and proofs of all their safety properties. Left,
in this order:

1. Files cut short (settings.cc:62): what is loaded of a prefix of a flat file, as
   a property and, along the lines of `FlatFileLoaded`, a theorem.
2. A worker process seen from outside, as a specification of its own that `Worker`
   implements and whose actions `Server` uses. Today `Server` contains its own,
   coarser workers and rows, and that they are those of `Worker` is argued above,
   not proved.
3. An abstract specification of the queue as a client sees it: a submitted job is
   eventually run or discarded although packets are lost.
4. The adaptor's row conversion, as operators against a reference definition.

-------------------------------- MODULE Server --------------------------------
(***************************************************************************)
(* The server process: it forks the workers, wakes them in turn for every  *)
(* UDP packet and for what its idle poll finds in the table, and stops     *)
(* them one after the other.                                               *)
(*                                                                         *)
(* A worker process is what module Worker says of it, seen from outside:   *)
(* it reads its pipe, claims rows, dies, stops when signalled and exits at *)
(* the end of file.  The pipes are modelled with the processes that hold   *)
(* their ends.                                                             *)
(***************************************************************************)
EXTENDS Integers, FiniteSets

CONSTANTS
  NumPids,    \* setting "workers"; verify() lets 0 pass if a later key is valid
  Jobs,       \* ids of the rows clients insert
  MinIdle,    \* setting "min_idle_timeout"
  MaxIdle,    \* setting "max_idle_timeout"
  Second,     \* a second, in the unit of the two settings
  Increments, \* values of fabs(log10(max2 - x2)), in that unit
  Capacity,   \* bytes a pipe holds
  MaxFaults   \* bound on crashes and failing statements

ASSUME ServerAssumption ==
  /\ NumPids \in Nat
  /\ Jobs \subseteq Nat /\ IsFiniteSet(Jobs)
  /\ MinIdle \in Nat /\ MaxIdle \in Nat /\ Second \in Nat
  /\ Increments \subseteq Nat
  /\ Capacity \in Nat \ {0, 1}
  /\ MaxFaults \in Nat

VARIABLES
  server,     \* where the main program is
  next,       \* i of the loops in start_workers() and shutdown()
  watched,    \* workers with an ev_child in m_workers
  turn,       \* m_last_worker
  idle,       \* m_idle_timeout_duration
  timer,      \* m_timeout is active
  term,       \* SIGTERM or SIGINT caught, its callback still to come
  packets,    \* datagrams in the socket's buffer
  worker,     \* worker -> state of its process
  pipe,       \* worker -> bytes in server_send_pipe
  work,       \* worker -> work messages its threads have not drained yet
  row,        \* job -> "new", "pending" or "claimed"
  faults,     \* faults so far (history)
  since       \* worker -> messages written since its last one (history)

timevars == <<idle, timer>>
rowvars == <<packets, row>>
procvars == <<worker, pipe, work>>
serverVars == <<server, next, watched, turn, timevars, term, rowvars, procvars, faults, since>>

Pids == 0 .. (NumPids - 1)
Running == server \in {"loop", "packet", "poll"}
Alive == {"up", "stopping"}
Ended == {"stopped", "dead"}
Waiting == {j \in Jobs : row[j] = "pending"}

ServerTypeOK ==
  /\ server \in {"starting", "loop", "packet", "poll", "signal", "wait", "stopped", "dead"}
  /\ next \in 0 .. NumPids
  /\ watched \subseteq Pids
  /\ turn \in Pids \union {0}
  /\ idle \in Nat /\ timer \in BOOLEAN
  /\ term \in BOOLEAN
  /\ packets \in Nat
  /\ worker \in [Pids -> {"absent", "zombie", "reaped"} \union Alive]
  /\ pipe \in [Pids -> 0 .. Capacity]
  /\ work \in [Pids -> Nat]
  /\ row \in [Jobs -> {"new", "pending", "claimed"}]
  /\ faults \in 0 .. MaxFaults
  /\ since \in [Pids -> Nat]

ServerInit ==
  /\ server = "starting" /\ next = 0
  /\ watched = {}
  /\ turn = 0
  /\ idle = MinIdle /\ timer = FALSE
  /\ term = FALSE
  /\ packets = 0
  /\ worker = [w \in Pids |-> "absent"]
  /\ pipe = [w \in Pids |-> 0]
  /\ work = [w \in Pids |-> 0]
  /\ row = [j \in Jobs |-> "new"]
  /\ faults = 0
  /\ since = [w \in Pids |-> NumPids - 1 - w]

Fault == faults < MaxFaults /\ faults' = faults + 1
Becomes(w, s) == worker' = [worker EXCEPT ![w] = s]

-----------------------------------------------------------------------------
(* Which processes hold the ends of a worker's pipe                        *)

(* Defect: parent_init() keeps the read end of the pipe open. *)
ReadEndOpenInParent(w) == worker[w] \in Alive \/ server \notin Ended

(* parent_init() closes the server's copy of the read end before any other *)
(* fork, so the worker's is the only one.                                  *)
ReadEndOpen(w) == worker[w] \in Alive

(* Defect: child_init() keeps the worker's own copy of the write end. *)
WriteEndOpenInChild(w) ==
  server \notin Ended \/ \E v \in Pids : v >= w /\ worker[v] \in Alive

(* child_init() closes only the worker's own write end: a worker forked    *)
(* later keeps those of the earlier ones.                                  *)
WriteEndOpen(w) ==
  server \notin Ended \/ \E v \in Pids : v > w /\ worker[v] \in Alive

-----------------------------------------------------------------------------
(* initialize(), start_workers() and run()                                 *)

(* No event loop, no adaptor or no connection: main() returns.  A negative *)
(* number of workers, for which g_malloc0() aborts, ends the process here  *)
(* too.                                                                    *)
InitializeFails ==
  /\ server = "starting" /\ next = 0
  /\ server' = "dead"
  /\ UNCHANGED <<next, watched, turn, timevars, term, rowvars, procvars, faults, since>>

(* start_worker() forks and reads until the worker closes its end of       *)
(* worker_send_pipe.  The end of a worker that died reads the same as that *)
(* of one that is up.                                                      *)
StartWorker ==
  /\ server = "starting" /\ next < NumPids
  /\ Becomes(next, "up") \/ Becomes(next, "zombie")
  /\ watched' = watched \union {next}
  /\ next' = next + 1
  /\ UNCHANGED <<server, turn, timevars, term, rowvars, pipe, work, faults, since>>

(* pipe() fails before the fork, or read() after it; start_workers()       *)
(* ignores that start_worker() returned false.                             *)
StartWorkerFails ==
  /\ server = "starting" /\ next < NumPids
  /\ Fault
  /\ Becomes(next, "absent") \/ Becomes(next, "up")
  /\ next' = next + 1
  /\ UNCHANGED <<server, watched, turn, timevars, term, rowvars, pipe, work, since>>

(* fork() fails: exit(), whatever was started before. *)
ForkFails ==
  /\ server = "starting" /\ next < NumPids
  /\ Fault
  /\ server' = "dead"
  /\ UNCHANGED <<next, watched, turn, timevars, term, rowvars, procvars, since>>

(* ev_timer_again(): a timer without a repeat value does not run. *)
TimerAgain(d) == idle' = d /\ timer' = (d > 0)

(* Defect: run() does not start the timer. *)
RunNoTimer ==
  /\ server = "starting" /\ next = NumPids
  /\ \/ server' = "stopped"
     \/ watched # Pids /\ server' = "dead"
     \/ watched = Pids /\ server' = "loop"
  /\ UNCHANGED <<next, watched, turn, timevars, term, rowvars, procvars, faults, since>>

(* run(): ev_child_start() on the NULL watcher of a worker that failed to  *)
(* start ends the process; a socket that cannot be bound ends it through   *)
(* main(), which signals no worker.                                        *)
Run ==
  /\ server = "starting" /\ next = NumPids
  /\ \/ server' = "stopped" /\ UNCHANGED timevars
     \/ watched # Pids /\ server' = "dead" /\ UNCHANGED timevars
     \/ watched = Pids /\ server' = "loop" /\ TimerAgain(idle)
  /\ UNCHANGED <<next, watched, turn, term, rowvars, procvars, faults, since>>

-----------------------------------------------------------------------------
(* on_connect, on_timeout and schedule                                     *)

(* Defect: the timer is stopped for a packet and not started again. *)
OnConnectStopsTimer ==
  /\ server = "loop" /\ packets > 0
  /\ idle' = MinIdle /\ timer' = FALSE
  /\ packets' = packets - 1
  /\ \/ server' = "packet" /\ UNCHANGED faults
     \/ Fault /\ UNCHANGED server
  /\ UNCHANGED <<next, watched, turn, term, row, procvars, since>>

(* Every packet resets the timer; recv() may fail for one that is broken. *)
OnConnect ==
  /\ server = "loop" /\ packets > 0
  /\ TimerAgain(MinIdle)
  /\ packets' = packets - 1
  /\ \/ server' = "packet" /\ UNCHANGED faults
     \/ Fault /\ UNCHANGED server
  /\ UNCHANGED <<next, watched, turn, term, row, procvars, since>>

(* Defect: the increased timeout is not limited. *)
IncreasedUnlimited(d) == d

(* Not above the maximum, and on it when less than a second is missing. *)
Increased(d) == IF d > MaxIdle \/ d + Second >= MaxIdle THEN MaxIdle ELSE d

IncreaseTimeout ==
  IF idle < MaxIdle THEN \E x \in Increments : TimerAgain(Increased(idle + x))
                    ELSE UNCHANGED timevars

(* idle_jobcheck(): the count of pending rows, or a failing statement, or a *)
(* result that cannot be stored, which changes nothing.                     *)
OnTimeout ==
  /\ server = "loop" /\ timer
  /\ \/ Waiting # {} /\ server' = "poll" /\ UNCHANGED <<timevars, faults>>
     \/ Waiting = {} /\ IncreaseTimeout /\ UNCHANGED <<server, faults>>
     \/ Fault /\ (IncreaseTimeout \/ UNCHANGED timevars) /\ UNCHANGED server
  /\ UNCHANGED <<next, watched, turn, term, rowvars, procvars, since>>

(* Defect: the index wraps one too late. *)
NextTurnLate == IF turn + 1 > NumPids THEN 0 ELSE turn + 1

(* Defect: the index wraps one too early. *)
NextTurnEarly == IF turn + 1 >= NumPids - 1 THEN 0 ELSE turn + 1

NextTurn == IF turn + 1 >= NumPids THEN 0 ELSE turn + 1

(* schedule(): two bytes for the worker in turn.  write() waits for room   *)
(* while the pipe has a reader and fails when it has none (libmysqlclient  *)
(* has the process ignore SIGPIPE); the turn passes on either way.         *)
(* idle_jobcheck() then resets the timer.                                  *)
Schedule ==
  /\ server \in {"packet", "poll"} /\ NumPids > 0
  /\ \/ ReadEndOpen(turn) /\ pipe[turn] + 2 <= Capacity
        /\ pipe' = [pipe EXCEPT ![turn] = @ + 2]
     \/ ~ReadEndOpen(turn) /\ UNCHANGED pipe
  /\ turn' = NextTurn
  /\ since' = [w \in Pids |-> IF w = turn THEN 0 ELSE since[w] + 1]
  /\ IF server = "poll" THEN TimerAgain(MinIdle) ELSE UNCHANGED timevars
  /\ server' = "loop"
  /\ UNCHANGED <<next, watched, term, rowvars, worker, work, faults>>

(* schedule() without workers: m_pids is NULL, and m_pids[0] ends the      *)
(* process.                                                                *)
ScheduleNobody ==
  /\ server \in {"packet", "poll"} /\ NumPids = 0
  /\ server' = "dead"
  /\ UNCHANGED <<next, watched, turn, timevars, term, rowvars, procvars, faults, since>>

(* on_worker_exit(): libev has waited for the process; nothing restarts it. *)
OnWorkerExit(w) ==
  /\ server = "loop" /\ worker[w] = "zombie"
  /\ Becomes(w, "reaped")
  /\ UNCHANGED <<server, next, watched, turn, timevars, term, rowvars, pipe, work, faults, since>>

-----------------------------------------------------------------------------
(* on_shutdown_signal and shutdown                                         *)

OnShutdownSignal ==
  /\ server = "loop" /\ term
  /\ server' = "signal" /\ next' = 0
  /\ packets' = 0
  /\ UNCHANGED <<watched, turn, timevars, term, row, procvars, faults, since>>

(* What a stop signal does to a worker: it stops, or is killed because it  *)
(* has not installed its handlers yet or has removed them for an earlier   *)
(* signal.  A process that has ended is left alone.                        *)
Signalled(w) ==
  \/ worker[w] = "up" /\ Becomes(w, "stopping")
  \/ worker[w] \in Alive /\ Becomes(w, "zombie")
  \/ worker[w] \notin Alive /\ UNCHANGED worker

(* Defect: shutdown() waits for a worker it has not signalled. *)
KillNextForgotten ==
  /\ server = "signal" /\ next < NumPids
  /\ server' = "wait"
  /\ UNCHANGED <<next, watched, turn, timevars, term, rowvars, procvars, faults, since>>

KillNext ==
  /\ server = "signal" /\ next < NumPids
  /\ Signalled(next)
  /\ server' = "wait"
  /\ UNCHANGED <<next, watched, turn, timevars, term, rowvars, pipe, work, faults, since>>

(* Defect: waitpid() does not wait. *)
WaitNextNoHang ==
  /\ server = "wait"
  /\ server' = "signal" /\ next' = next + 1
  /\ worker' = [worker EXCEPT ![next] = IF @ = "zombie" THEN "reaped" ELSE @]
  /\ UNCHANGED <<watched, turn, timevars, term, rowvars, pipe, work, faults, since>>

(* waitpid() returns for a worker that has ended, waited for before or not. *)
WaitNext ==
  /\ server = "wait" /\ worker[next] \notin Alive
  /\ server' = "signal" /\ next' = next + 1
  /\ worker' = [worker EXCEPT ![next] = IF @ = "zombie" THEN "reaped" ELSE @]
  /\ UNCHANGED <<watched, turn, timevars, term, rowvars, pipe, work, faults, since>>

(* ev_loop() returns and main() exits. *)
Return ==
  /\ server = "signal" /\ next = NumPids
  /\ server' = "stopped"
  /\ UNCHANGED <<next, watched, turn, timevars, term, rowvars, procvars, faults, since>>

-----------------------------------------------------------------------------
(* The worker processes                                                    *)

(* schedule() of a worker, n times.  More messages than there are rows     *)
(* count like as many as there are rows.                                   *)
SendWork(w, n) ==
  work' = [work EXCEPT ![w] =
            IF @ + n > Cardinality(Jobs) THEN Cardinality(Jobs) ELSE @ + n]

(* on_io_work(): one work message per byte. *)
MaxRead == 80
WorkerReads(w) ==
  /\ worker[w] = "up" /\ pipe[w] > 0
  /\ LET bytes == IF pipe[w] < MaxRead THEN pipe[w] ELSE MaxRead
     IN  /\ pipe' = [pipe EXCEPT ![w] = @ - bytes]
         /\ SendWork(w, bytes)
  /\ UNCHANGED <<server, next, watched, turn, timevars, term, rowvars, worker, faults, since>>

(* The end of file stops the worker, after the message that on_io_work()   *)
(* sends before it reads.                                                  *)
WorkerSeesEof(w) ==
  /\ worker[w] = "up" /\ pipe[w] = 0 /\ ~WriteEndOpen(w)
  /\ SendWork(w, 1)
  /\ Becomes(w, "stopping")
  /\ UNCHANGED <<server, next, watched, turn, timevars, term, rowvars, pipe, faults, since>>

(* A thread claims as many of the oldest pending rows as it has messages,  *)
(* or its claim fails and the messages are gone.                           *)
WorkerClaims(w) ==
  /\ worker[w] \in Alive /\ work[w] > 0
  /\ work' = [work EXCEPT ![w] = 0]
  /\ \/ /\ row' = [j \in Jobs |->
                    IF /\ row[j] = "pending"
                       /\ Cardinality({i \in Waiting : i < j}) < work[w]
                    THEN "claimed" ELSE row[j]]
        /\ UNCHANGED faults
     \/ Fault /\ UNCHANGED row
  /\ UNCHANGED <<server, next, watched, turn, timevars, term, packets, worker, pipe, since>>

(* shutdown() of a worker has joined its threads. *)
WorkerExits(w) ==
  /\ worker[w] = "stopping"
  /\ Becomes(w, "zombie")
  /\ UNCHANGED <<server, next, watched, turn, timevars, term, rowvars, pipe, work, faults, since>>

-----------------------------------------------------------------------------
(* Clients, signals and crashes                                            *)

(* A client inserts a row and sends a packet, which is lost or, if the     *)
(* socket is bound, arrives.                                               *)
ClientSubmits(j) ==
  /\ row[j] = "new"
  /\ row' = [row EXCEPT ![j] = "pending"]
  /\ UNCHANGED packets \/ (Running /\ packets' = packets + 1)
  /\ UNCHANGED <<server, next, watched, turn, timevars, term, procvars, faults, since>>

(* SIGTERM or SIGINT to the server.  Its handlers are installed by run(). *)
Terminate ==
  /\ ~term /\ server \notin Ended
  /\ term' = TRUE
  /\ server' = IF server = "starting" THEN "dead" ELSE server
  /\ UNCHANGED <<next, watched, turn, timevars, rowvars, procvars, faults, since>>

(* SIGINT or SIGUSR2 to a worker from elsewhere than shutdown(). *)
Interrupt(w) ==
  /\ worker[w] \in Alive
  /\ Signalled(w)
  /\ UNCHANGED <<server, next, watched, turn, timevars, term, rowvars, pipe, work, faults, since>>

WorkerCrashes(w) ==
  /\ worker[w] \in Alive /\ Fault
  /\ Becomes(w, "zombie")
  /\ UNCHANGED <<server, next, watched, turn, timevars, term, rowvars, pipe, work, since>>

ServerCrashes ==
  /\ server \notin Ended /\ Fault
  /\ server' = "dead"
  /\ UNCHANGED <<next, watched, turn, timevars, term, rowvars, procvars, since>>

-----------------------------------------------------------------------------
Starting == InitializeFails \/ StartWorker \/ StartWorkerFails \/ ForkFails \/ Run
Stopping == OnShutdownSignal \/ KillNext \/ WaitNext \/ Return
WorkerStep(w) == WorkerReads(w) \/ WorkerSeesEof(w) \/ WorkerClaims(w) \/ WorkerExits(w)

ServerNext ==
  \/ Starting \/ OnConnect \/ OnTimeout \/ Schedule \/ ScheduleNobody \/ Stopping
  \/ \E w \in Pids : OnWorkerExit(w) \/ WorkerStep(w)
  \/ \E j \in Jobs : ClientSubmits(j)
  \/ Terminate \/ ServerCrashes
  \/ \E w \in Pids : Interrupt(w) \/ WorkerCrashes(w)

ServerSpec == ServerInit /\ [][ServerNext]_serverVars

(* Processes are scheduled, timers expire, and jobs end; a round of the    *)
(* event loop calls every pending callback, so that packets and timeouts   *)
(* do not keep a caught signal waiting for ever.                           *)
ServerFairSpec ==
  /\ ServerSpec
  /\ WF_serverVars(Starting) /\ WF_serverVars(OnConnect) /\ WF_serverVars(OnTimeout)
  /\ WF_serverVars(Schedule) /\ WF_serverVars(ScheduleNobody) /\ WF_serverVars(Stopping)
  /\ SF_serverVars(OnShutdownSignal)
  /\ \A w \in Pids :
       /\ WF_serverVars(WorkerReads(w)) /\ WF_serverVars(WorkerSeesEof(w))
       /\ WF_serverVars(WorkerClaims(w)) /\ WF_serverVars(WorkerExits(w))

-----------------------------------------------------------------------------
(* Properties                                                              *)

(* schedule(): of any NumPids messages in a row every worker is written    *)
(* one, dead or alive, however packets and idle polls alternate.           *)
EveryWorkerInTurn == \A w \in Pids : since[w] < NumPids

(* increase_timeout(), on_connect() and idle_jobcheck(): the timeout never *)
(* leaves the configured range, and while the server is in its loop the    *)
(* idle poll is never switched off.                                        *)
IdlePollStaysOn ==
  /\ idle = MinIdle \/ (MinIdle < idle /\ idle <= MaxIdle)
  /\ Running /\ MinIdle > 0 => timer

(* shutdown(): the server that returns from its loop after a signal leaves *)
(* no worker behind, although workers die, are interrupted or stop by      *)
(* themselves while it signals and waits for one after the other.          *)
ShutdownComplete ==
  term /\ server = "stopped" => \A w \in Pids : worker[w] \notin Alive

(* README: "we need to check for new work periodically, as we could miss a *)
(* wake up message from a client".  A pending job is claimed although      *)
(* packets are lost, statements fail and dead workers stay in turn, as     *)
(* long as the server runs and some worker is up.                          *)
MissedSignalRecovered ==
  \A j \in Jobs : row[j] = "pending" ~>
    \/ row[j] = "claimed"
    \/ ~Running
    \/ \A w \in Pids : worker[w] # "up"

(* The blocking write() of schedule(): a full pipe, whose worker may be    *)
(* stopping or dead, does not hold the server up for ever.                 *)
WriteReturns == server \in {"packet", "poll"} ~> server \notin {"packet", "poll"}

(* shutdown(): signalling and waiting for one worker after the other ends, *)
(* also when workers died before, are interrupted meanwhile or have a full *)
(* pipe.                                                                   *)
ShutdownReturns == Running /\ term ~> server \in Ended

(* on_io_work() and the pipes: when the server has ended, however it did,  *)
(* no worker is left, although each keeps the pipes of those before open.  *)
NoOrphans == server \in Ended ~> \A w \in Pids : worker[w] \notin Alive

(* verify() can let "workers: 0" pass.  A server without workers does not  *)
(* even stay: the first job to be inserted ends it, also one whose packet  *)
(* is lost and that only the idle poll finds, if that is not switched off. *)
NobodyToWake ==
  \A j \in Jobs : NumPids = 0 /\ Running /\ row[j] = "pending" ~> ~Running
=============================================================================

-------------------------------- MODULE Worker --------------------------------
(***************************************************************************)
(* A worker process: its main thread, which reads the server's pipe and    *)
(* hands work to the threads of module WorkQueue, and its signals.         *)
(*                                                                         *)
(* Every step is a step of WorkQueue or leaves WorkQueue's state alone; a  *)
(* main thread step says which of send_work, m_active = false, send_stop   *)
(* it performs and when.                                                   *)
(***************************************************************************)
EXTENDS WorkQueue

CONSTANTS
  NumThreads,   \* setting "threads"
  Garbage,      \* what the constructor of WorkQueue may leave in m_pending
  Signals,      \* which of SIGUSR2 and SIGINT are sent, each once per process
  MaxMessages   \* bound on the messages the server sends

ASSUME ThreadsAssumption ==
  NumThreads \in Nat \ {0} /\ Threads = 0 .. (NumThreads - 1)
ASSUME GarbageAssumption == Garbage \subseteq Int

VARIABLES
  main,       \* worker -> where the main thread is
  pipe,       \* worker -> bytes in server_send_pipe
  eof,        \* worker -> no process holds the write end of that pipe any more
  calls,      \* worker -> calls of schedule() on_io_work still has to make
  scanned,    \* worker -> local i of schedule()
  smallest,   \* worker -> local smallest of schedule()
  selected,   \* worker -> local selected of schedule()
  pending,    \* queue -> m_pending
  base,       \* queue -> what m_pending was before the first send_work (history)
  handled,    \* worker -> libev's handlers for SIGUSR2 and SIGINT are installed
  caught,     \* worker -> signals whose callback libev has yet to call
  signalled,  \* worker -> signals sent to the process (history)
  messages    \* messages the server has sent (history)

schedvars == <<calls, scanned, smallest, selected>>
sigvars == <<handled, caught, signalled>>
envvars == <<eof, messages>>
workerVars == <<vars, main, pipe, schedvars, pending, base, sigvars, envvars>>

MainLabels ==
  {"starting", "loop", "first", "read", "more", "stopping", "exited", "killed"}

WorkerTypeOK ==
  /\ TypeOK
  /\ main \in [Workers -> MainLabels]
  /\ pipe \in [Workers -> Nat]
  /\ eof \in [Workers -> BOOLEAN]
  /\ calls \in [Workers -> Nat]
  /\ scanned \in [Workers -> 0 .. NumThreads]
  /\ smallest \in [Workers -> Int]
  /\ selected \in [Workers -> Threads]
  /\ pending \in [Queues -> Int]
  /\ base \in [Queues -> Int]
  /\ handled \in [Workers -> BOOLEAN]
  /\ caught \in [Workers -> SUBSET Signals]
  /\ signalled \in [Workers -> SUBSET Signals]
  /\ messages \in Nat

WorkerInit ==
  /\ Init
  /\ main = [w \in Workers |-> "starting"]
  /\ pipe = [w \in Workers |-> 0]
  /\ eof = [w \in Workers |-> FALSE]
  /\ calls = [w \in Workers |-> 0]
  /\ scanned = [w \in Workers |-> 0]
  /\ smallest = [w \in Workers |-> 10]
  /\ selected = [w \in Workers |-> 0]
  /\ base \in [Queues -> Garbage]
  /\ pending = base
  /\ handled = [w \in Workers |-> FALSE]
  /\ caught = [w \in Workers |-> {}]
  /\ signalled = [w \in Workers |-> {}]
  /\ messages = 0

-----------------------------------------------------------------------------
At(w, label) == main' = [main EXCEPT ![w] = label]
Gone == {"exited", "killed"}

(* execute() has told the server that it is up; run() creates the threads  *)
(* and only then installs the signal handlers and enters the event loop.   *)
Boot(w) ==
  /\ main[w] = "starting"
  /\ At(w, "loop")
  /\ handled' = [handled EXCEPT ![w] = TRUE]
  /\ UNCHANGED <<vars, pipe, schedvars, pending, base, caught, signalled, envvars>>

(* A thread cannot connect or cannot be created: run() returns and the     *)
(* process ends, idle threads included.                                    *)
BootFails(w) ==
  /\ main[w] = "starting"
  /\ Crash(w)
  /\ At(w, "exited")
  /\ UNCHANGED <<pipe, schedvars, pending, base, sigvars, envvars>>

-----------------------------------------------------------------------------
(* on_io_work and schedule                                                 *)

(* The locals of schedule() at its start. *)
BeginSchedule(w) ==
  /\ scanned' = [scanned EXCEPT ![w] = 0]
  /\ smallest' = [smallest EXCEPT ![w] = 10]
  /\ selected' = [selected EXCEPT ![w] = 0]

(* The pipe is readable.  on_io_work schedules before it reads. *)
OnIoWork(w) ==
  /\ main[w] = "loop"
  /\ pipe[w] > 0 \/ eof[w]
  /\ At(w, "first")
  /\ BeginSchedule(w)
  /\ UNCHANGED <<vars, pipe, calls, pending, base, sigvars, envvars>>

(* Defect: the comparison of schedule() the other way round. *)
ScanThreadLeast(w) ==
  /\ main[w] \in {"first", "more"}
  /\ scanned[w] < NumThreads
  /\ LET value == pending[<<w, scanned[w]>>]
         better == smallest[w] > value
     IN  /\ smallest' = [smallest EXCEPT ![w] = IF better THEN value ELSE @]
         /\ selected' = [selected EXCEPT ![w] = IF better THEN scanned[w] ELSE @]
  /\ scanned' = [scanned EXCEPT ![w] = @ + 1]
  /\ UNCHANGED <<vars, main, pipe, calls, pending, base, sigvars, envvars>>

(* One turn of the loop over the threads; they go on running meanwhile. *)
ScanThread(w) ==
  /\ main[w] \in {"first", "more"}
  /\ scanned[w] < NumThreads
  /\ LET value == pending[<<w, scanned[w]>>]
         better == smallest[w] < value
     IN  /\ smallest' = [smallest EXCEPT ![w] = IF better THEN value ELSE @]
         /\ selected' = [selected EXCEPT ![w] = IF better THEN scanned[w] ELSE @]
  /\ scanned' = [scanned EXCEPT ![w] = @ + 1]
  /\ UNCHANGED <<vars, main, pipe, calls, pending, base, sigvars, envvars>>

(* Defect: the call before the read() is counted with those after it. *)
NextByteCountsFirst(w) ==
  /\ calls' = [calls EXCEPT ![w] = @ - 1]
  /\ \/ main[w] = "first" /\ At(w, "read") /\ UNCHANGED <<scanned, smallest, selected>>
     \/ main[w] = "more" /\ calls[w] > 1 /\ BeginSchedule(w) /\ UNCHANGED main
     \/ main[w] = "more" /\ calls[w] <= 1 /\ At(w, "loop")
        /\ UNCHANGED <<scanned, smallest, selected>>

(* What on_io_work does after schedule(): read the pipe, or go on with its loop. *)
NextByte(w) ==
  \/ /\ main[w] = "first"
     /\ At(w, "read")
     /\ UNCHANGED schedvars
  \/ /\ main[w] = "more"
     /\ calls' = [calls EXCEPT ![w] = @ - 1]
     /\ IF calls[w] > 1
          THEN BeginSchedule(w) /\ UNCHANGED main
          ELSE At(w, "loop") /\ UNCHANGED <<scanned, smallest, selected>>

(* Defect: send_work() forgets to count the message. *)
DispatchUncounted(w) ==
  /\ main[w] \in {"first", "more"}
  /\ scanned[w] = NumThreads
  /\ SendWork(<<w, selected[w]>>)
  /\ NextByte(w)
  /\ UNCHANGED <<pending, pipe, base, sigvars, envvars>>

(* m_threads[selected]->send_work(), which counts the message in m_pending. *)
Dispatch(w) ==
  /\ main[w] \in {"first", "more"}
  /\ scanned[w] = NumThreads
  /\ SendWork(<<w, selected[w]>>)
  /\ pending' = [pending EXCEPT ![<<w, selected[w]>>] = @ + 1]
  /\ NextByte(w)
  /\ UNCHANGED <<pipe, base, sigvars, envvars>>

(* read() of up to 80 bytes; the first byte has been scheduled already. *)
ReadBytes(w) ==
  /\ main[w] = "read"
  /\ pipe[w] > 0
  /\ LET bytes == IF pipe[w] < 80 THEN pipe[w] ELSE 80
     IN  /\ pipe' = [pipe EXCEPT ![w] = @ - bytes]
         /\ calls' = [calls EXCEPT ![w] = bytes - 1]
         /\ IF bytes > 1
              THEN BeginSchedule(w) /\ At(w, "more")
              ELSE At(w, "loop") /\ UNCHANGED <<scanned, smallest, selected>>
  /\ UNCHANGED <<vars, pending, base, sigvars, envvars>>

(* Defect: the threads are to be joined but m_active stays set. *)
ReadEofStillActive(w) ==
  /\ main[w] = "read"
  /\ pipe[w] = 0
  /\ eof[w]
  /\ At(w, "stopping")
  /\ UNCHANGED <<vars, pipe, schedvars, pending, base, sigvars, envvars>>

(* read() of nothing: the parent has gone down.  The handlers stay. *)
ReadEof(w) ==
  /\ main[w] = "read"
  /\ pipe[w] = 0
  /\ eof[w]
  /\ Shutdown(w)
  /\ At(w, "stopping")
  /\ UNCHANGED <<pipe, schedvars, pending, base, sigvars, envvars>>

-----------------------------------------------------------------------------
(* Signals and shutdown                                                    *)

(* The callback of both signal watchers.  Stopping a watcher gives its     *)
(* signal the default action again.                                        *)
OnSignalStop(w) ==
  /\ main[w] = "loop"
  /\ caught[w] # {}
  /\ handled' = [handled EXCEPT ![w] = FALSE]
  /\ caught' = [caught EXCEPT ![w] = {}]
  /\ Shutdown(w)
  /\ At(w, "stopping")
  /\ UNCHANGED <<pipe, schedvars, pending, base, signalled, envvars>>

(* Worker::shutdown(): the stop messages ... *)
StopThread(w) ==
  /\ main[w] = "stopping"
  /\ \E q \in Of(w) : SendStop(q)
  /\ UNCHANGED <<main, pipe, schedvars, pending, base, sigvars, envvars>>

(* Defect: the process exits without waiting for its threads. *)
ExitAtOnce(w) ==
  /\ main[w] = "stopping"
  /\ \A q \in Of(w) : stop[q] # "unsent"
  /\ Crash(w)
  /\ At(w, "exited")
  /\ UNCHANGED <<pipe, schedvars, pending, base, sigvars, envvars>>

(* ... and the joins, after which the process exits. *)
JoinThreads(w) ==
  /\ main[w] = "stopping"
  /\ \A q \in Of(w) : stop[q] # "unsent" /\ pc[q] = "exited"
  /\ At(w, "exited")
  /\ UNCHANGED <<vars, pipe, schedvars, pending, base, sigvars, envvars>>

(* A signal arrives: it is noted for the event loop, or ends the process. *)
Signal(w, s) ==
  /\ main[w] \notin Gone
  /\ s \notin signalled[w]
  /\ signalled' = [signalled EXCEPT ![w] = @ \cup {s}]
  /\ \/ /\ handled[w]
        /\ caught' = [caught EXCEPT ![w] = @ \cup {s}]
        /\ UNCHANGED <<vars, main>>
     \/ /\ ~handled[w]
        /\ Crash(w)
        /\ At(w, "killed")
        /\ UNCHANGED caught
  /\ UNCHANGED <<pipe, schedvars, pending, base, handled, envvars>>

-----------------------------------------------------------------------------
(* The threads: only the end of a job touches m_pending                    *)
Work(q) ==
  /\ \/ /\ \E j \in Jobs : Finish(q, j)
        /\ pending' = [pending EXCEPT ![q] = @ - 1]
     \/ /\ pc[q] # "running"
        /\ Thread(q)
        /\ UNCHANGED pending
  /\ UNCHANGED <<main, pipe, schedvars, base, sigvars, envvars>>

-----------------------------------------------------------------------------
(* The other processes                                                     *)

(* Server::schedule() writes two bytes, "w" and the string's NUL. *)
Notify(w) ==
  /\ main[w] \notin Gone
  /\ ~eof[w]
  /\ messages < MaxMessages
  /\ messages' = messages + 1
  /\ pipe' = [pipe EXCEPT ![w] = @ + 2]
  /\ UNCHANGED <<vars, main, schedvars, pending, base, sigvars, eof>>

(* The server dies and with it the last write end of the pipe. *)
ParentDies(w) ==
  /\ main[w] \notin Gone
  /\ ~eof[w]
  /\ eof' = [eof EXCEPT ![w] = TRUE]
  /\ UNCHANGED <<vars, main, pipe, schedvars, pending, base, sigvars, messages>>

ClientSubmits(j) ==
  /\ Submit(j)
  /\ UNCHANGED <<main, pipe, schedvars, pending, base, sigvars, envvars>>

(* A new server forks the worker anew. *)
StartAnew(w) ==
  /\ main[w] \in Gone
  /\ Restart(w)
  /\ At(w, "starting")
  /\ BeginSchedule(w)
  /\ pipe' = [pipe EXCEPT ![w] = 0]
  /\ calls' = [calls EXCEPT ![w] = 0]
  /\ eof' = [eof EXCEPT ![w] = FALSE]
  /\ \E g \in [Of(w) -> Garbage] :
       /\ base' = [q \in Queues |-> IF q \in Of(w) THEN g[q] ELSE base[q]]
       /\ pending' = [q \in Queues |-> IF q \in Of(w) THEN g[q] ELSE pending[q]]
  /\ handled' = [handled EXCEPT ![w] = FALSE]
  /\ caught' = [caught EXCEPT ![w] = {}]
  /\ signalled' = [signalled EXCEPT ![w] = {}]
  /\ UNCHANGED messages

-----------------------------------------------------------------------------
MainThread(w) ==
  \/ Boot(w)
  \/ OnIoWork(w)
  \/ ScanThread(w)
  \/ Dispatch(w)
  \/ ReadBytes(w)
  \/ ReadEof(w)
  \/ OnSignalStop(w)
  \/ StopThread(w)
  \/ JoinThreads(w)

WorkerNext ==
  \/ \E w \in Workers : MainThread(w)
  \/ \E w \in Workers : BootFails(w)
  \/ \E w \in Workers : StartAnew(w)
  \/ \E w \in Workers : Notify(w)
  \/ \E w \in Workers : ParentDies(w)
  \/ \E w \in Workers, s \in Signals : Signal(w, s)
  \/ \E q \in Queues : Work(q)
  \/ \E j \in Jobs : ClientSubmits(j)

WorkerSpec == WorkerInit /\ [][WorkerNext]_workerVars

(* The operating system schedules every thread, and jobs end. *)
WorkerFairness ==
  /\ \A w \in Workers : WF_workerVars(MainThread(w))
  /\ \A q \in Queues : WF_workerVars(Work(q))

WorkerFairSpec == WorkerSpec /\ WorkerFairness

-----------------------------------------------------------------------------
(* Properties                                                              *)

(* The thread schedule() settles on: the first of those with the largest   *)
(* initial m_pending above 10, or thread 0 when there is none.             *)
Chosen(w, i) ==
  IF \A k \in Threads : base[<<w, k>>] <= 10
    THEN i = 0
    ELSE /\ base[<<w, i>>] > 10
         /\ \A k \in Threads : base[<<w, k>>] <= base[<<w, i>>]
         /\ \A k \in Threads : k < i => base[<<w, k>>] < base[<<w, i>>]

(* All the work a process is ever sent goes to one and the same thread:    *)
(* schedule() prefers the thread with the most work pending, so the one    *)
(* that got the first message gets every other, and the rest stay idle.    *)
OneThreadWorks ==
  \A w \in Workers, i \in Threads :
    ~Chosen(w, i) =>
      /\ tokens[<<w, i>>] = 0
      /\ workload[<<w, i>>] = 0
      /\ pc[<<w, i>>] \in {"check", "pop", "exited", "dead"}

(* The work messages a queue has popped and not yet paid for with a job. *)
InWorkload(q) ==
  IF pc[q] \in {"drain", "claim", "select", "jobs", "mark", "running"}
    THEN workload[q] ELSE 0

(* m_pending never falls below where it started: it counts every message   *)
(* waiting in the queue or popped for the batch in hand.  (It may count    *)
(* more: messages that found no job are never deducted.)                   *)
PendingCovers ==
  \A q \in Queues : pending[q] - base[q] >= tokens[q] + InWorkload(q)

(* A wake-up is not lost: while a byte is in the pipe, the oldest pending  *)
(* job is going to be claimed, unless the process is on its way out.       *)
WakeupServed ==
  \A w \in Workers, j \in Jobs :
    pipe[w] > 0 /\ IsOldest(j, Claimable)
      ~> status[j] # "pending" \/ ~active[w] \/ main[w] \in Gone

(* A stop signal ends the process, also when it meets the process in the   *)
(* middle of scheduling or its threads in the middle of a batch.           *)
StopEndsProcess ==
  \A w \in Workers : signalled[w] # {} ~> main[w] \in Gone

(* A worker whose server has died notices and goes down as well. *)
OrphanExits == \A w \in Workers : eof[w] ~> main[w] \in Gone
=============================================================================

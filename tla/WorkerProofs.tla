----------------------------- MODULE WorkerProofs -----------------------------
(***************************************************************************)
(* Proofs about Worker: it is a WorkQueue with a main thread, and that     *)
(* main thread gives all the work to one of its threads, however many      *)
(* threads there are and whatever m_pending started from.                  *)
(***************************************************************************)
EXTENDS Worker, WorkQueueProofs

(* The types of what Worker adds to WorkQueue. *)
OwnTypeOK ==
  /\ main \in [Workers -> MainLabels]
  /\ pipe \in [Workers -> Nat]
  /\ eof \in [Workers -> BOOLEAN]
  /\ calls \in [Workers -> Nat]
  /\ scanned \in [Workers -> 0 .. NumThreads]
  /\ smallest \in [Workers -> Int]
  /\ selected \in [Workers -> Threads]
  /\ pending \in [Queues -> Int]
  /\ base \in [Queues -> Int]
  /\ handled \in [Workers -> BOOLEAN]
  /\ caught \in [Workers -> SUBSET Signals]
  /\ signalled \in [Workers -> SUBSET Signals]
  /\ messages \in Nat

(* on_io_work loops only while it has calls left. *)
CallsLeft == \A w \in Workers : main[w] = "more" => calls[w] >= 1

(* Every step keeps the types of the main thread's variables. *)
LEMMA OwnTypeInductive ==
  ASSUME OwnTypeOK, CallsLeft, [WorkerNext]_workerVars
  PROVE  OwnTypeOK' /\ CallsLeft'
<1> USE DEF OwnTypeOK, CallsLeft, MainLabels, At, schedvars, sigvars, envvars
<1>0. 0 \in Threads /\ NumThreads \in Nat /\ 0 \in 0 .. NumThreads
  BY ThreadsAssumption
<1>1. ASSUME NEW w \in Workers, MainThread(w) PROVE OwnTypeOK' /\ CallsLeft'
  <2>1. CASE Boot(w)
    BY <2>1 DEF Boot
  <2>2. CASE OnIoWork(w)
    BY <1>0, <2>2 DEF OnIoWork, BeginSchedule
  <2>3. CASE ScanThread(w)
    <3>1. /\ scanned[w] \in Threads /\ scanned[w] + 1 \in 0 .. NumThreads
          /\ <<w, scanned[w]>> \in Queues
      BY <2>3, <1>0, ThreadsAssumption DEF ScanThread, Queues
    <3> QED BY <2>3, <3>1 DEF ScanThread
  <2>4. CASE Dispatch(w)
    <3>1. <<w, selected[w]>> \in Queues
      BY DEF Queues
    <3>2. CASE main[w] = "first"
      BY <2>4, <3>1, <3>2 DEF Dispatch, NextByte
    <3>3. CASE main[w] = "more"
      BY <2>4, <3>1, <3>3, <1>0 DEF Dispatch, NextByte, BeginSchedule
    <3> QED BY <2>4, <3>2, <3>3 DEF Dispatch, NextByte
  <2>5. CASE ReadBytes(w)
    BY <1>0, <2>5 DEF ReadBytes, BeginSchedule
  <2>6. CASE ReadEof(w)
    BY <2>6 DEF ReadEof
  <2>7. CASE OnSignalStop(w)
    BY <2>7 DEF OnSignalStop
  <2>8. CASE StopThread(w)
    BY <2>8 DEF StopThread
  <2>9. CASE JoinThreads(w)
    BY <2>9 DEF JoinThreads
  <2> QED BY <1>1, <2>1, <2>2, <2>3, <2>4, <2>5, <2>6, <2>7, <2>8, <2>9 DEF MainThread
<1>2. ASSUME NEW w \in Workers, BootFails(w) PROVE OwnTypeOK' /\ CallsLeft'
  BY <1>2 DEF BootFails
<1>3. ASSUME NEW w \in Workers, StartAnew(w) PROVE OwnTypeOK' /\ CallsLeft'
  <2>1. PICK g \in [Of(w) -> Garbage] :
          /\ base' = [q \in Queues |-> IF q \in Of(w) THEN g[q] ELSE base[q]]
          /\ pending' = [q \in Queues |-> IF q \in Of(w) THEN g[q] ELSE pending[q]]
    BY <1>3 DEF StartAnew
  <2>2. base' \in [Queues -> Int] /\ pending' \in [Queues -> Int]
    BY <2>1, GarbageAssumption
  <2> QED BY <1>0, <1>3, <2>2 DEF StartAnew, BeginSchedule
<1>4. ASSUME NEW w \in Workers, Notify(w) PROVE OwnTypeOK' /\ CallsLeft'
  BY <1>4 DEF Notify
<1>5. ASSUME NEW w \in Workers, ParentDies(w) PROVE OwnTypeOK' /\ CallsLeft'
  BY <1>5 DEF ParentDies
<1>6. ASSUME NEW w \in Workers, NEW s \in Signals, Signal(w, s)
      PROVE  OwnTypeOK' /\ CallsLeft'
  BY <1>6 DEF Signal
<1>7. ASSUME NEW q \in Queues, Work(q) PROVE OwnTypeOK' /\ CallsLeft'
  BY <1>7 DEF Work
<1>8. ASSUME NEW j \in Jobs, ClientSubmits(j) PROVE OwnTypeOK' /\ CallsLeft'
  BY <1>8 DEF ClientSubmits
<1>9. CASE UNCHANGED workerVars
  BY <1>9 DEF workerVars
<1> QED BY <1>1, <1>2, <1>3, <1>4, <1>5, <1>6, <1>7, <1>8, <1>9 DEF WorkerNext

(* Every step of a worker process is one of WorkQueue or none. *)
LEMMA WorkerStep ==
  ASSUME [WorkerNext]_workerVars, OwnTypeOK
  PROVE  [Next]_vars
<1>1. ASSUME NEW w \in Workers, MainThread(w) PROVE [Next]_vars
  <2>1. CASE Boot(w) \/ OnIoWork(w) \/ ScanThread(w) \/ ReadBytes(w) \/ JoinThreads(w)
    BY <2>1 DEF Boot, OnIoWork, ScanThread, ReadBytes, JoinThreads
  <2>2. CASE Dispatch(w)
    <3>1. <<w, selected[w]>> \in Queues
      BY DEF OwnTypeOK, Queues
    <3> QED BY <2>2, <3>1 DEF Dispatch, Next
  <2>3. CASE ReadEof(w) \/ OnSignalStop(w)
    BY <2>3 DEF ReadEof, OnSignalStop, Next
  <2>4. CASE StopThread(w)
    BY <2>4 DEF StopThread, Of, Next
  <2> QED BY <1>1, <2>1, <2>2, <2>3, <2>4 DEF MainThread
<1>2. ASSUME NEW w \in Workers, BootFails(w) \/ StartAnew(w) PROVE [Next]_vars
  BY <1>2 DEF BootFails, StartAnew, Next
<1>3. ASSUME NEW w \in Workers, Notify(w) \/ ParentDies(w) PROVE [Next]_vars
  BY <1>3 DEF Notify, ParentDies
<1>4. ASSUME NEW w \in Workers, NEW s \in Signals, Signal(w, s) PROVE [Next]_vars
  BY <1>4 DEF Signal, Next
<1>5. ASSUME NEW q \in Queues, Work(q) PROVE [Next]_vars
  BY <1>5 DEF Work, Thread, Next
<1>6. ASSUME NEW j \in Jobs, ClientSubmits(j) PROVE [Next]_vars
  BY <1>6 DEF ClientSubmits, Next
<1>7. CASE UNCHANGED workerVars
  BY <1>7 DEF workerVars
<1> QED BY <1>1, <1>2, <1>3, <1>4, <1>5, <1>6, <1>7 DEF WorkerNext

(* The main thread's variables always have their types. *)
LEMMA OwnTypeAlways == WorkerSpec => [](OwnTypeOK /\ CallsLeft)
<1>1. WorkerInit => OwnTypeOK /\ CallsLeft
  <2> SUFFICES ASSUME WorkerInit PROVE OwnTypeOK /\ CallsLeft
    OBVIOUS
  <2>1. 0 \in Threads /\ 0 \in 0 .. NumThreads
    BY ThreadsAssumption
  <2>2. base \in [Queues -> Int] /\ pending \in [Queues -> Int]
    BY GarbageAssumption DEF WorkerInit
  <2> QED BY <2>1, <2>2 DEF WorkerInit, OwnTypeOK, CallsLeft, MainLabels
<1>2. OwnTypeOK /\ CallsLeft /\ [WorkerNext]_workerVars => (OwnTypeOK /\ CallsLeft)'
  BY OwnTypeInductive
<1> QED BY <1>1, <1>2, PTL DEF WorkerSpec

(* A worker process is a WorkQueue: the main thread only decides when the  *)
(* steps of WorkQueue that concern it are taken.                           *)
THEOREM WorkerIsWorkQueue == WorkerSpec => Spec
<1>1. WorkerInit => Init
  BY DEF WorkerInit
<1>2. OwnTypeOK /\ [WorkerNext]_workerVars => [Next]_vars
  BY WorkerStep
<1> QED BY <1>1, <1>2, OwnTypeAlways, PTL DEF WorkerSpec, Spec

(* The variables of Worker have their types in every reachable state. *)
THEOREM WorkerTypeCorrect == WorkerSpec => []WorkerTypeOK
<1>1. TypeOK /\ OwnTypeOK => WorkerTypeOK
  BY DEF OwnTypeOK, WorkerTypeOK
<1> QED BY <1>1, WorkerIsWorkQueue, TypeCorrect, OwnTypeAlways, PTL

(* What TLC finds for a small process holds for every one: its threads run *)
(* no job twice.                                                           *)
THEOREM WorkerRunsNoJobTwice == WorkerSpec => []AtMostOnce
BY WorkerIsWorkQueue, NoJobRunsTwice, PTL

-----------------------------------------------------------------------------
(* One thread gets all the work                                            *)

IdleLabels == {"check", "pop", "exited", "dead"}

(* A queue that has never been sent anything. *)
Idle(q) ==
  /\ tokens[q] = 0 /\ workload[q] = 0
  /\ pc[q] \in IdleLabels
  /\ pending[q] = base[q]

OthersIdle == \A w \in Workers, i \in Threads : ~Chosen(w, i) => Idle(<<w, i>>)

(* What schedule() knows after looking at some of the threads: smallest is *)
(* at least the base of each of them, and it is the base of the selected   *)
(* thread unless that is the chosen one.                                   *)
ScanOK(w) ==
  /\ smallest[w] >= 10
  /\ smallest[w] = 10 =>
       /\ selected[w] = 0
       /\ \A k \in Threads : k < scanned[w] => base[<<w, k>>] <= 10
  /\ smallest[w] > 10 =>
       /\ \A k \in Threads : k < scanned[w] => base[<<w, k>>] <= smallest[w]
       /\ \A k \in Threads : k < selected[w] => base[<<w, k>>] < smallest[w]
       /\ ~Chosen(w, selected[w]) => smallest[w] = base[<<w, selected[w]>>]

ScanInv == \A w \in Workers : main[w] \in {"first", "more"} => ScanOK(w)

WorkInv == PendingCovers /\ OthersIdle /\ ScanInv

(* Popped work is never negative, so m_pending stays at its base or above. *)
LEMMA PendingAboveBase ==
  ASSUME TypeOK, OwnTypeOK, Covered, PendingCovers, NEW q \in Queues
  PROVE  /\ InWorkload(q) \in Nat /\ pending[q] >= base[q]
         /\ pc[q] \in Holding => workload[q] \in Nat
<1>1. pc[q] \in Holding => workload[q] \in Nat
  <2>1. Held(q) \in SUBSET Jobs
    BY DEF TypeOK, Held
  <2>2. Cardinality(Held(q)) \in Nat
    BY <2>1, JobSets
  <2> QED BY <2>2 DEF TypeOK, Covered
<1>2. InWorkload(q) \in Nat
  BY <1>1 DEF TypeOK, Covered, InWorkload, Holding
<1> QED BY <1>1, <1>2 DEF PendingCovers, TypeOK, OwnTypeOK

(* When the scan ends it has found the chosen thread. *)
LEMMA ScanFindsChosen ==
  ASSUME OwnTypeOK, NEW w \in Workers, ScanOK(w), scanned[w] = NumThreads
  PROVE  Chosen(w, selected[w])
<1>1. \A k \in Threads : k < scanned[w] /\ <<w, k>> \in Queues
  BY ThreadsAssumption DEF Queues
<1>2. \A k \in Threads : base[<<w, k>>] \in Int
  BY <1>1 DEF OwnTypeOK
<1>3. CASE smallest[w] = 10
  BY <1>1, <1>3 DEF ScanOK, Chosen
<1>4. CASE smallest[w] > 10
  <2> SUFFICES ASSUME ~Chosen(w, selected[w]) PROVE FALSE
    OBVIOUS
  <2>1. smallest[w] = base[<<w, selected[w]>>] /\ selected[w] \in Threads
    BY <1>4 DEF ScanOK, OwnTypeOK
  <2>2. \A k \in Threads : /\ base[<<w, k>>] <= base[<<w, selected[w]>>]
                           /\ k < selected[w] => base[<<w, k>>] < base[<<w, selected[w]>>]
    BY <1>1, <1>4, <2>1 DEF ScanOK
  <2>3. base[<<w, selected[w]>>] > 10
    BY <1>4, <2>1
  <2> QED BY <1>2, <2>1, <2>2, <2>3 DEF Chosen
<1> QED BY <1>3, <1>4 DEF ScanOK, OwnTypeOK

(* A scan that begins knows nothing. *)
LEMMA ScanBegins ==
  ASSUME OwnTypeOK, NEW w \in Workers, BeginSchedule(w), base' = base
  PROVE  ScanOK(w)'
BY ThreadsAssumption DEF BeginSchedule, ScanOK, OwnTypeOK

(* Looking at one more thread. *)
LEMMA ScanGoesOn ==
  ASSUME TypeOK, OwnTypeOK, Covered, WorkInv, NEW w \in Workers, ScanThread(w)
  PROVE  ScanOK(w)'
<1> DEFINE n == scanned[w]
           v == pending[<<w, n>>]
<1>1. /\ ScanOK(w) /\ n \in Threads /\ <<w, n>> \in Queues
      /\ base' = base /\ scanned'[w] = n + 1
      /\ \A k \in Threads : k \in Int
  BY ThreadsAssumption DEF ScanThread, WorkInv, ScanInv, OwnTypeOK, Queues
<1>2. /\ v \in Int /\ base[<<w, n>>] \in Int /\ base[<<w, n>>] <= v
      /\ ~Chosen(w, n) => v = base[<<w, n>>]
  <2>1. v \in Int /\ base[<<w, n>>] \in Int
    BY <1>1 DEF OwnTypeOK
  <2>2. base[<<w, n>>] <= v
    BY <1>1, <2>1, PendingAboveBase DEF WorkInv
  <2>3. ~Chosen(w, n) => v = base[<<w, n>>]
    BY <1>1 DEF WorkInv, OthersIdle, Idle
  <2> QED BY <2>1, <2>2, <2>3
<1>3. \A k \in Threads : k < n + 1 => k < n \/ k = n
  BY <1>1
<1>4. \A k \in Threads : base[<<w, k>>] \in Int
  BY DEF OwnTypeOK, Queues
<1>5. smallest[w] \in Int /\ selected[w] \in Threads /\ smallest[w] >= 10
  BY <1>1 DEF OwnTypeOK, ScanOK
<1>c. \A i : Chosen(w, i)' <=> Chosen(w, i)
  BY <1>1 DEF Chosen
<1>6. CASE smallest[w] < v
  <2>1. smallest'[w] = v /\ selected'[w] = n
    BY <1>6 DEF ScanThread, OwnTypeOK
  <2>2. \A k \in Threads : k < n => base[<<w, k>>] < v
    BY <1>1, <1>2, <1>4, <1>5, <1>6 DEF ScanOK
  <2>3. \A k \in Threads : k < n + 1 => base[<<w, k>>] <= v
    BY <1>2, <1>3, <1>4, <2>2
  <2>4. v > 10
    BY <1>2, <1>5, <1>6
  <2> QED BY <1>1, <1>2, <1>c, <2>1, <2>2, <2>3, <2>4 DEF ScanOK
<1>7. CASE ~(smallest[w] < v)
  <2>1. smallest'[w] = smallest[w] /\ selected'[w] = selected[w]
    BY <1>7 DEF ScanThread, OwnTypeOK
  <2>2. base[<<w, n>>] <= smallest[w]
    BY <1>2, <1>5, <1>7
  <2>3. smallest[w] = 10 => \A k \in Threads : k < n + 1 => base[<<w, k>>] <= 10
    BY <1>1, <1>3, <2>2 DEF ScanOK
  <2>4. smallest[w] > 10 => \A k \in Threads : k < n + 1 => base[<<w, k>>] <= smallest[w]
    BY <1>1, <1>3, <2>2 DEF ScanOK
  <2> QED BY <1>1, <1>c, <2>1, <2>3, <2>4 DEF ScanOK
<1> QED BY <1>6, <1>7

(* Steps that leave the queues and their counters alone. *)
LEMMA QueuesKeep ==
  ASSUME WorkInv, UNCHANGED <<tokens, workload, pc, pending, base>>
  PROVE  PendingCovers' /\ OthersIdle'
BY DEF WorkInv, PendingCovers, InWorkload, OthersIdle, Idle, Chosen

(* Scans that are not touched. *)
LEMMA ScanKeeps ==
  ASSUME ScanInv, NEW w \in Workers,
         main'[w] \in {"first", "more"} => main[w] = main'[w],
         scanned'[w] = scanned[w], smallest'[w] = smallest[w], selected'[w] = selected[w],
         \A k \in Threads : base'[<<w, k>>] = base[<<w, k>>],
         selected[w] \in Threads
  PROVE  main'[w] \in {"first", "more"} => ScanOK(w)'
<1>1. \A i \in Threads : Chosen(w, i)' <=> Chosen(w, i)
  BY DEF Chosen
<1> QED BY <1>1 DEF ScanInv, ScanOK

(* The main thread's own steps. *)
LEMMA MainKeepsWorkInv ==
  ASSUME TypeOK, OwnTypeOK, Covered, WorkInv, NEW w \in Workers, MainThread(w)
  PROVE  WorkInv'
<1> USE DEF At, schedvars
<1>0. base' = base
  BY DEF MainThread, Boot, OnIoWork, ScanThread, Dispatch, ReadBytes, ReadEof,
         OnSignalStop, StopThread, JoinThreads
<1>1. \A r \in Workers : r # w => (main'[r] \in {"first", "more"} => ScanOK(r)')
  <2> SUFFICES ASSUME NEW r \in Workers, r # w
               PROVE  main'[r] \in {"first", "more"} => ScanOK(r)'
    OBVIOUS
  <2>1. /\ main'[r] = main[r] /\ scanned'[r] = scanned[r]
        /\ smallest'[r] = smallest[r] /\ selected'[r] = selected[r]
    BY DEF MainThread, Boot, OnIoWork, ScanThread, Dispatch, NextByte, ReadBytes, ReadEof,
           OnSignalStop, StopThread, JoinThreads, BeginSchedule, OwnTypeOK
  <2> QED BY <1>0, <2>1, ScanKeeps DEF WorkInv, OwnTypeOK
<1>2. main'[w] \in {"first", "more"} => ScanOK(w)'
  <2>1. CASE OnIoWork(w)
    BY <2>1, <1>0, ScanBegins DEF OnIoWork
  <2>2. CASE ScanThread(w)
    BY <2>2, ScanGoesOn
  <2>3. CASE Dispatch(w) \/ ReadBytes(w)
    BY <2>3, <1>0, ScanBegins DEF Dispatch, NextByte, ReadBytes, OwnTypeOK
  <2>4. CASE Boot(w) \/ ReadEof(w) \/ OnSignalStop(w) \/ JoinThreads(w)
    BY <2>4 DEF Boot, ReadEof, OnSignalStop, JoinThreads, OwnTypeOK
  <2>5. CASE StopThread(w)
    BY <2>5 DEF StopThread, OwnTypeOK
  <2> QED BY <2>1, <2>2, <2>3, <2>4, <2>5 DEF MainThread
<1>3. PendingCovers' /\ OthersIdle'
  <2>1. CASE Dispatch(w)
    <3> DEFINE d == <<w, selected[w]>>
    <3>1. /\ d \in Queues /\ Chosen(w, selected[w])
          /\ tokens' = [tokens EXCEPT ![d] = @ + 1]
          /\ pending' = [pending EXCEPT ![d] = @ + 1]
          /\ pc' = pc /\ workload' = workload
      <4>1. ScanOK(w) /\ scanned[w] = NumThreads
        BY <2>1 DEF Dispatch, WorkInv, ScanInv
      <4> QED BY <2>1, <4>1, ScanFindsChosen DEF Dispatch, SendWork, OwnTypeOK, Queues
    <3>2. PendingCovers'
      <4> SUFFICES ASSUME NEW q \in Queues
                   PROVE  pending'[q] - base'[q] >= tokens'[q] + InWorkload(q)'
        BY DEF PendingCovers
      <4>1. InWorkload(q)' = InWorkload(q) /\ InWorkload(q) \in Nat
        BY <3>1, PendingAboveBase DEF InWorkload, WorkInv
      <4>2. pending[q] - base[q] >= tokens[q] + InWorkload(q)
        BY DEF WorkInv, PendingCovers
      <4>3. CASE q = d
        BY <1>0, <3>1, <4>1, <4>2, <4>3 DEF TypeOK, OwnTypeOK
      <4>4. CASE q # d
        BY <1>0, <3>1, <4>1, <4>2, <4>4 DEF TypeOK, OwnTypeOK
      <4> QED BY <4>3, <4>4
    <3>3. OthersIdle'
      <4> SUFFICES ASSUME NEW v \in Workers, NEW i \in Threads, ~Chosen(v, i)
                   PROVE  Idle(<<v, i>>)'
        BY <1>0 DEF OthersIdle, Chosen
      <4>1. <<v, i>> \in Queues /\ <<v, i>> # d
        BY <3>1 DEF Queues
      <4>2. Idle(<<v, i>>)
        BY DEF WorkInv, OthersIdle
      <4> QED BY <1>0, <3>1, <4>1, <4>2 DEF Idle, TypeOK, OwnTypeOK
    <3> QED BY <3>2, <3>3
  <2>2. CASE ~Dispatch(w)
    <3>1. UNCHANGED <<tokens, workload, pc, pending, base>>
      BY <2>2, <1>0 DEF MainThread, Boot, OnIoWork, ScanThread, ReadBytes, ReadEof,
         OnSignalStop, StopThread, JoinThreads, Shutdown, SendStop, vars
    <3> QED BY <3>1, QueuesKeep
  <2> QED BY <2>1, <2>2
<1> QED BY <1>1, <1>2, <1>3 DEF WorkInv, ScanInv

(* A process that dies: its queues have nothing left. *)
LEMMA CrashKeepsWorkInv ==
  ASSUME TypeOK, OwnTypeOK, Covered, WorkInv, NEW w \in Workers, Crash(w),
         UNCHANGED <<schedvars, pending, base>>,
         At(w, "exited") \/ At(w, "killed")
  PROVE  WorkInv'
<1> USE DEF At, schedvars
<1>1. ScanInv'
  <2> SUFFICES ASSUME NEW r \in Workers
               PROVE  main'[r] \in {"first", "more"} => ScanOK(r)'
    BY DEF ScanInv
  <2>1. main'[r] \in {"first", "more"} => main[r] = main'[r]
    BY DEF OwnTypeOK
  <2> QED BY <2>1, ScanKeeps DEF WorkInv, OwnTypeOK
<1>2. \A q \in Queues : /\ q \in Of(w) => tokens'[q] = 0 /\ workload'[q] = 0 /\ pc'[q] = "dead"
                        /\ q \notin Of(w) => /\ tokens'[q] = tokens[q]
                                             /\ workload'[q] = workload[q] /\ pc'[q] = pc[q]
  BY DEF Crash, Forget
<1>3. PendingCovers'
  <2> SUFFICES ASSUME NEW q \in Queues
               PROVE  pending'[q] - base'[q] >= tokens'[q] + InWorkload(q)'
    BY DEF PendingCovers
  <2>1. CASE q \in Of(w)
    <3>1. pending[q] >= base[q]
      BY PendingAboveBase DEF WorkInv
    <3>2. InWorkload(q)' = 0 /\ tokens'[q] = 0
      BY <1>2, <2>1 DEF InWorkload
    <3> QED BY <3>1, <3>2 DEF OwnTypeOK
  <2>2. CASE q \notin Of(w)
    <3>1. InWorkload(q)' = InWorkload(q) /\ tokens'[q] = tokens[q]
      BY <1>2, <2>2 DEF InWorkload
    <3> QED BY <3>1 DEF WorkInv, PendingCovers
  <2> QED BY <2>1, <2>2
<1>4. OthersIdle'
  <2> SUFFICES ASSUME NEW v \in Workers, NEW i \in Threads, ~Chosen(v, i)
               PROVE  Idle(<<v, i>>)'
    BY DEF OthersIdle, Chosen
  <2>1. <<v, i>> \in Queues /\ Idle(<<v, i>>)
    BY DEF Queues, WorkInv, OthersIdle
  <2> QED BY <1>2, <2>1 DEF Idle, IdleLabels
<1> QED BY <1>1, <1>3, <1>4 DEF WorkInv

(* A process that starts: its queues have nothing yet. *)
LEMMA StartKeepsWorkInv ==
  ASSUME TypeOK, OwnTypeOK, Covered, WorkInv, NEW w \in Workers, StartAnew(w)
  PROVE  WorkInv'
<1> USE DEF At
<1>1. PICK g \in [Of(w) -> Garbage] :
        /\ base' = [q \in Queues |-> IF q \in Of(w) THEN g[q] ELSE base[q]]
        /\ pending' = [q \in Queues |-> IF q \in Of(w) THEN g[q] ELSE pending[q]]
  BY DEF StartAnew
<1>2. \A q \in Queues :
        /\ q \in Of(w) => /\ tokens'[q] = 0 /\ workload'[q] = 0 /\ pc'[q] = "check"
                          /\ pending'[q] = base'[q] /\ base'[q] \in Int
        /\ q \notin Of(w) => /\ tokens'[q] = tokens[q] /\ workload'[q] = workload[q]
                             /\ pc'[q] = pc[q] /\ pending'[q] = pending[q]
                             /\ base'[q] = base[q]
  BY <1>1, GarbageAssumption DEF StartAnew, Restart, Forget
<1>3. \A v \in Workers, i \in Threads : <<v, i>> \in Queues /\ (<<v, i>> \in Of(w) <=> v = w)
  BY DEF Queues, Of, WorkerOf
<1>4. ScanInv'
  <2> SUFFICES ASSUME NEW r \in Workers
               PROVE  main'[r] \in {"first", "more"} => ScanOK(r)'
    BY DEF ScanInv
  <2>1. CASE r = w
    BY <2>1 DEF StartAnew, OwnTypeOK
  <2>2. CASE r # w
    <3>1. /\ main'[r] = main[r] /\ scanned'[r] = scanned[r]
          /\ smallest'[r] = smallest[r] /\ selected'[r] = selected[r]
      BY <2>2 DEF StartAnew, BeginSchedule, OwnTypeOK
    <3>2. \A k \in Threads : base'[<<r, k>>] = base[<<r, k>>]
      BY <1>2, <1>3, <2>2
    <3> QED BY <3>1, <3>2, ScanKeeps DEF WorkInv, OwnTypeOK
  <2> QED BY <2>1, <2>2
<1>5. PendingCovers'
  <2> SUFFICES ASSUME NEW q \in Queues
               PROVE  pending'[q] - base'[q] >= tokens'[q] + InWorkload(q)'
    BY DEF PendingCovers
  <2>1. CASE q \in Of(w)
    BY <1>2, <2>1 DEF InWorkload
  <2>2. CASE q \notin Of(w)
    BY <1>2, <2>2 DEF InWorkload, WorkInv, PendingCovers
  <2> QED BY <2>1, <2>2
<1>6. OthersIdle'
  <2> SUFFICES ASSUME NEW v \in Workers, NEW i \in Threads, ~Chosen(v, i)'
               PROVE  Idle(<<v, i>>)'
    BY DEF OthersIdle
  <2>1. CASE v = w
    BY <1>2, <1>3, <2>1 DEF Idle, IdleLabels
  <2>2. CASE v # w
    <3>1. \A k \in Threads : base'[<<v, k>>] = base[<<v, k>>]
      BY <1>2, <1>3, <2>2
    <3>2. ~Chosen(v, i)
      BY <3>1 DEF Chosen
    <3>3. Idle(<<v, i>>)
      BY <3>2 DEF WorkInv, OthersIdle
    <3> QED BY <1>2, <1>3, <2>2, <3>3 DEF Idle
  <2> QED BY <2>1, <2>2
<1> QED BY <1>4, <1>5, <1>6 DEF WorkInv

(* The threads: what one pops or finishes is what its counter loses. *)
LEMMA WorkKeepsWorkInv ==
  ASSUME TypeOK, OwnTypeOK, Covered, WorkInv, NEW q \in Queues, Work(q)
  PROVE  WorkInv'
<1>0. UNCHANGED <<main, scanned, smallest, selected, base>>
  BY DEF Work, schedvars
<1>1. ScanInv'
  <2> SUFFICES ASSUME NEW r \in Workers
               PROVE  main'[r] \in {"first", "more"} => ScanOK(r)'
    BY DEF ScanInv
  <2> QED BY <1>0, ScanKeeps DEF WorkInv, OwnTypeOK
<1>2. \A r \in Queues : r # q => /\ tokens'[r] = tokens[r] /\ workload'[r] = workload[r]
                                 /\ pc'[r] = pc[r] /\ pending'[r] = pending[r]
  BY DEF Work, Thread, Check, PopWork, PopStop, PopNothing, Claim, Select, Create, Mark,
         Unknown, Execute, Finish, BatchDone, Goto, local, TypeOK, OwnTypeOK
<1>3. /\ pending[q] - base[q] >= tokens[q] + InWorkload(q)
      /\ InWorkload(q) \in Nat /\ (pc[q] \in Holding => workload[q] \in Nat)
      /\ tokens[q] \in Nat /\ workload[q] \in Int /\ pending[q] \in Int /\ base[q] \in Int
  BY PendingAboveBase DEF WorkInv, PendingCovers, TypeOK, OwnTypeOK
<1>4. pending'[q] - base'[q] >= tokens'[q] + InWorkload(q)'
  <2> USE DEF InWorkload, Holding, Goto
  <2>1. CASE \E j \in Jobs : Finish(q, j)
    <3>1. /\ pc[q] = "running" /\ pc'[q] = "jobs" /\ tokens' = tokens
          /\ workload'[q] = workload[q] - 1 /\ pending'[q] = pending[q] - 1
      BY <2>1 DEF Work, Finish, Thread, TypeOK, OwnTypeOK
    <3> QED BY <1>0, <1>3, <3>1
  <2>2. CASE pc[q] # "running" /\ Thread(q) /\ UNCHANGED pending
    <3>1. CASE Check(q)
      BY <1>0, <1>3, <2>2, <3>1 DEF Check, TypeOK
    <3>2. CASE PopWork(q)
      <4>1. /\ tokens'[q] = tokens[q] - 1 /\ workload'[q] = workload[q] + 1
            /\ pc'[q] = "drain" /\ pc[q] \in {"pop", "drain"}
        BY <3>2 DEF PopWork, TypeOK
      <4>2. pc[q] = "pop" => workload[q] = 0
        BY DEF Covered
      <4> QED BY <1>0, <1>3, <2>2, <4>1, <4>2
    <3>3. CASE PopStop(q)
      BY <1>0, <1>3, <2>2, <3>3 DEF PopStop, TypeOK
    <3>4. CASE PopNothing(q)
      <4>1. pc[q] = "pop" => workload[q] = 0
        BY DEF Covered
      <4> QED BY <1>0, <1>3, <2>2, <3>4, <4>1 DEF PopNothing, TypeOK, local
    <3>5. CASE Claim(q)
      BY <1>0, <1>3, <2>2, <3>5 DEF Claim, TypeOK
    <3>6. CASE Select(q)
      BY <1>0, <1>3, <2>2, <3>6 DEF Select, TypeOK
    <3>7. ASSUME NEW j \in Jobs, Create(q, j) \/ Mark(q, j) \/ Unknown(q, j) \/ Execute(q, j)
          PROVE  pending'[q] - base'[q] >= tokens'[q] + InWorkload(q)'
      <4>1. /\ tokens' = tokens /\ workload' = workload
            /\ pc[q] \in Holding /\ pc'[q] \in Holding
        BY <3>7 DEF Create, Mark, Unknown, Execute, TypeOK
      <4> QED BY <1>0, <1>3, <2>2, <4>1
    <3>8. CASE BatchDone(q)
      BY <1>0, <1>3, <2>2, <3>8 DEF BatchDone, TypeOK
    <3>9. ASSUME NEW j \in Jobs PROVE ~Finish(q, j)
      BY <2>2 DEF Finish
    <3> QED BY <2>2, <3>1, <3>2, <3>3, <3>4, <3>5, <3>6, <3>7, <3>8, <3>9 DEF Thread
  <2> QED BY <2>1, <2>2 DEF Work
<1>5. PendingCovers'
  <2> SUFFICES ASSUME NEW r \in Queues
               PROVE  pending'[r] - base'[r] >= tokens'[r] + InWorkload(r)'
    BY DEF PendingCovers
  <2>1. CASE r = q
    BY <1>4, <2>1
  <2>2. CASE r # q
    BY <1>0, <1>2, <2>2 DEF InWorkload, WorkInv, PendingCovers
  <2> QED BY <2>1, <2>2
<1>6. Idle(q) => Idle(q)'
  <2> SUFFICES ASSUME Idle(q) PROVE Idle(q)'
    OBVIOUS
  <2>1. Check(q) \/ PopStop(q) \/ PopNothing(q)
    BY DEF Idle, IdleLabels, Work, Thread, PopWork, Claim, Select, Create, Mark, Unknown,
           Execute, Finish, BatchDone
  <2>2. pending' = pending
    BY DEF Idle, IdleLabels, Work, Finish
  <2> QED BY <1>0, <2>1, <2>2
          DEF Check, PopStop, PopNothing, Goto, local, Idle, IdleLabels, TypeOK
<1>7. OthersIdle'
  <2> SUFFICES ASSUME NEW v \in Workers, NEW i \in Threads, ~Chosen(v, i)
               PROVE  Idle(<<v, i>>)'
    BY <1>0 DEF OthersIdle, Chosen
  <2>1. <<v, i>> \in Queues /\ Idle(<<v, i>>)
    BY DEF Queues, WorkInv, OthersIdle
  <2>2. CASE <<v, i>> = q
    BY <1>6, <2>1, <2>2
  <2>3. CASE <<v, i>> # q
    BY <1>0, <1>2, <2>1, <2>3 DEF Idle
  <2> QED BY <2>2, <2>3
<1> QED BY <1>1, <1>5, <1>7 DEF WorkInv

(* Every step of the process preserves WorkInv. *)
LEMMA WorkInvInductive ==
  ASSUME TypeOK, OwnTypeOK, Covered, WorkInv, [WorkerNext]_workerVars
  PROVE  WorkInv'
<1> DEFINE Quiet == UNCHANGED <<tokens, workload, pc, pending, base, main, schedvars>>
<1>1. Quiet => WorkInv'
  <2> SUFFICES ASSUME Quiet PROVE WorkInv'
    OBVIOUS
  <2>1. ScanInv'
    <3> SUFFICES ASSUME NEW r \in Workers
                 PROVE  main'[r] \in {"first", "more"} => ScanOK(r)'
      BY DEF ScanInv
    <3> QED BY ScanKeeps DEF WorkInv, OwnTypeOK, schedvars
  <2> QED BY <2>1, QueuesKeep DEF WorkInv
<1>2. ASSUME NEW w \in Workers, Notify(w) \/ ParentDies(w) PROVE Quiet
  BY <1>2 DEF Notify, ParentDies, vars
<1>3. ASSUME NEW j \in Jobs, ClientSubmits(j) PROVE Quiet
  BY <1>3 DEF ClientSubmits, Submit, local
<1>4. CASE UNCHANGED workerVars
  BY <1>1, <1>4 DEF workerVars, vars
<1>5. ASSUME NEW w \in Workers, BootFails(w) PROVE WorkInv'
  BY <1>5, CrashKeepsWorkInv DEF BootFails
<1>6. ASSUME NEW w \in Workers, NEW s \in Signals, Signal(w, s) PROVE WorkInv'
  <2>1. CASE handled[w]
    BY <1>1, <1>6, <2>1 DEF Signal, vars
  <2>2. CASE ~handled[w]
    BY <1>6, <2>2, CrashKeepsWorkInv DEF Signal
  <2> QED BY <2>1, <2>2
<1> HIDE DEF Quiet
<1> QED BY <1>1, <1>2, <1>3, <1>4, <1>5, <1>6, MainKeepsWorkInv, StartKeepsWorkInv,
           WorkKeepsWorkInv DEF WorkerNext

(* WorkInv holds in every reachable state of a process. *)
LEMMA WorkInvAlways == WorkerSpec => []WorkInv
<1>1. WorkerInit => WorkInv
  <2> SUFFICES ASSUME WorkerInit PROVE WorkInv
    OBVIOUS
  <2>1. \A q \in Queues : /\ tokens[q] = 0 /\ workload[q] = 0 /\ pc[q] = "check"
                          /\ pending[q] = base[q] /\ base[q] \in Int
    BY GarbageAssumption DEF WorkerInit, Init
  <2>2. PendingCovers
    BY <2>1 DEF PendingCovers, InWorkload
  <2>3. OthersIdle
    BY <2>1 DEF OthersIdle, Idle, IdleLabels, Queues
  <2>4. ScanInv
    BY DEF ScanInv, WorkerInit
  <2> QED BY <2>2, <2>3, <2>4 DEF WorkInv
<1>2. TypeOK /\ OwnTypeOK /\ Covered /\ WorkInv /\ [WorkerNext]_workerVars => WorkInv'
  BY WorkInvInductive
<1> QED BY <1>1, <1>2, WorkerIsWorkQueue, TypeCorrect, CoveredAlways, OwnTypeAlways, PTL
        DEF WorkerSpec

(* However many threads a worker process has, one of them gets all the     *)
(* work it is ever sent and the others stay idle.                          *)
THEOREM OnlyOneThreadWorks == WorkerSpec => []OneThreadWorks
<1>1. WorkInv => OneThreadWorks
  BY DEF WorkInv, OthersIdle, Idle, IdleLabels, OneThreadWorks
<1> QED BY <1>1, WorkInvAlways, PTL

(* m_pending never falls below its initial value, so it cannot make a busy *)
(* thread look idle.                                                       *)
THEOREM PendingIsCovered == WorkerSpec => []PendingCovers
<1>1. WorkInv => PendingCovers
  BY DEF WorkInv
<1> QED BY <1>1, WorkInvAlways, PTL
=============================================================================

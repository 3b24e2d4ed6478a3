----------------------------- MODULE ServerProofs -----------------------------
(***************************************************************************)
(* Proofs about Server, for any number of workers and jobs, any settings   *)
(* and any capacity of the pipes: types, the fairness of the round robin,  *)
(* and the idle poll.                                                      *)
(***************************************************************************)
EXTENDS Server, FiniteSetTheorems, TLAPS

(* shutdown() waits only inside its loop. *)
WaitsInLoop == server = "wait" => next < NumPids

(* How long ago each worker was in turn follows from whose turn it is. *)
SinceByTurn ==
  \A w \in Pids : since[w] = IF w < turn THEN turn - 1 - w ELSE NumPids + turn - 1 - w

ServerInv == ServerTypeOK /\ WaitsInLoop /\ SinceByTurn /\ IdlePollStaysOn

LEMMA ServerInitInv == ServerInit => ServerInv
<1> SUFFICES ASSUME ServerInit PROVE ServerInv
  OBVIOUS
<1> USE ServerAssumption DEF ServerInit, Pids
<1>1. ServerTypeOK
  <2>1. 0 \in 0 .. NumPids /\ 0 \in 0 .. Capacity /\ 0 \in 0 .. MaxFaults
    OBVIOUS
  <2>2. since \in [Pids -> Nat]
    OBVIOUS
  <2> QED BY <2>1, <2>2 DEF ServerTypeOK
<1>2. WaitsInLoop /\ SinceByTurn
  BY DEF WaitsInLoop, SinceByTurn
<1>3. IdlePollStaysOn
  BY DEF IdlePollStaysOn, Running
<1> QED BY <1>1, <1>2, <1>3 DEF ServerInv

(* ev_timer_again() with a repeat value that is a number. *)
LEMMA TimerStep ==
  ASSUME NEW d \in Nat, TimerAgain(d)
  PROVE  idle' = d /\ timer' \in BOOLEAN /\ (d > 0 => timer')
<1>1. (d > 0) \in BOOLEAN
  OBVIOUS
<1>2. timer' = (d > 0) /\ idle' = d
  BY DEF TimerAgain
<1>3. timer' \in BOOLEAN
  BY <1>1, <1>2, Zenon
<1>4. d > 0 => timer'
  BY <1>2, Zenon
<1> QED BY <1>2, <1>3, <1>4, Zenon

(* increase_timeout() keeps the timeout a number and in its range, and the *)
(* timer on.                                                               *)
LEMMA IncreaseStep ==
  ASSUME idle \in Nat, timer \in BOOLEAN, IncreaseTimeout,
         idle = MinIdle \/ (MinIdle < idle /\ idle <= MaxIdle),
         MinIdle > 0 => timer
  PROVE  /\ idle' \in Nat /\ timer' \in BOOLEAN
         /\ idle' = MinIdle \/ (MinIdle < idle' /\ idle' <= MaxIdle)
         /\ MinIdle > 0 => timer'
<1> USE ServerAssumption
<1>1. CASE idle < MaxIdle
  <2>1. PICK x \in Increments : TimerAgain(Increased(idle + x))
    BY <1>1 DEF IncreaseTimeout
  <2>2. x \in Nat
    OBVIOUS
  <2>3. /\ Increased(idle + x) \in Nat
        /\ \/ Increased(idle + x) = MinIdle
           \/ MinIdle < Increased(idle + x) /\ Increased(idle + x) <= MaxIdle
    BY <1>1, <2>2 DEF Increased
  <2> QED BY <2>1, <2>3 DEF TimerAgain
<1>2. CASE ~(idle < MaxIdle)
  BY <1>2 DEF IncreaseTimeout, timevars
<1> QED BY <1>1, <1>2

(* schedule() passes the turn to a worker and keeps the account of who was *)
(* in turn when.                                                           *)
LEMMA TurnStep ==
  ASSUME turn \in Pids, SinceByTurn, turn' = NextTurn,
         since' = [w \in Pids |-> IF w = turn THEN 0 ELSE since[w] + 1]
  PROVE  turn' \in Pids /\ since' \in [Pids -> Nat] /\ SinceByTurn'
<1> USE ServerAssumption DEF Pids
<1>1. turn' \in Pids
  BY DEF NextTurn
<1>2. ASSUME NEW w \in Pids
      PROVE  /\ since'[w] \in Nat
             /\ since'[w] = IF w < turn' THEN turn' - 1 - w ELSE NumPids + turn' - 1 - w
  <2>1. w = turn => since'[w] = 0
    OBVIOUS
  <2>2. w # turn =>
          since'[w] = (IF w < turn THEN turn - 1 - w ELSE NumPids + turn - 1 - w) + 1
    BY DEF SinceByTurn
  <2>3. CASE turn + 1 >= NumPids
    BY <2>1, <2>2, <2>3 DEF NextTurn
  <2>4. CASE turn + 1 < NumPids
    BY <2>1, <2>2, <2>4 DEF NextTurn
  <2> QED BY <2>3, <2>4
<1>3. since' \in [Pids -> Nat]
  BY <1>2
<1> QED BY <1>1, <1>2, <1>3 DEF SinceByTurn

(* A step that leaves the loop over the workers, the turn and the timer    *)
(* alone keeps what is proved of them.                                     *)
LEMMA Untouched ==
  ASSUME ServerInv, UNCHANGED <<next, turn, since, timevars>>,
         server' = "wait" => server = "wait",
         Running' => Running
  PROVE  WaitsInLoop' /\ SinceByTurn' /\ IdlePollStaysOn'
BY DEF ServerInv, WaitsInLoop, SinceByTurn, IdlePollStaysOn, timevars

(* Every step of the server's start and stop keeps the invariant. *)
LEMMA StartStopStep ==
  ASSUME ServerInv, Starting \/ Stopping \/ Terminate \/ ServerCrashes
  PROVE  ServerInv'
<1> USE ServerAssumption
<1>0. ServerTypeOK /\ WaitsInLoop /\ SinceByTurn /\ IdlePollStaysOn
  BY DEF ServerInv
<1>1. CASE InitializeFails \/ Terminate \/ Return
  <2>1. ServerTypeOK'
    BY <1>0, <1>1 DEF ServerTypeOK, InitializeFails, Terminate, Return, timevars, rowvars, procvars
  <2>2. /\ UNCHANGED <<next, turn, since, timevars>>
        /\ server' = "wait" => server = "wait"
        /\ Running' => Running
    BY <1>1 DEF InitializeFails, Terminate, Return, Running
  <2> QED BY <2>1, <2>2, Untouched DEF ServerInv
<1>2. CASE ForkFails \/ ServerCrashes
  <2>1. ServerTypeOK'
    BY <1>0, <1>2 DEF ServerTypeOK, ForkFails, ServerCrashes, Fault, timevars, rowvars, procvars
  <2>2. /\ UNCHANGED <<next, turn, since, timevars>>
        /\ server' = "wait" => server = "wait"
        /\ Running' => Running
    BY <1>2 DEF ForkFails, ServerCrashes, Running
  <2> QED BY <2>1, <2>2, Untouched DEF ServerInv
<1>3. CASE StartWorker \/ StartWorkerFails
  <2>1. next \in Pids /\ next + 1 \in 0 .. NumPids
    BY <1>0, <1>3 DEF StartWorker, StartWorkerFails, ServerTypeOK, Pids
  <2>2. worker' \in [Pids -> {"absent", "zombie", "reaped"} \union Alive]
    <3>1. \E s \in {"absent", "up", "zombie"} : Becomes(next, s)
      BY <1>3 DEF StartWorker, StartWorkerFails
    <3> QED BY <1>0, <2>1, <3>1 DEF Becomes, Alive, ServerTypeOK
  <2>3. watched' \subseteq Pids
    BY <1>0, <1>3, <2>1 DEF StartWorker, StartWorkerFails, ServerTypeOK
  <2>4. faults' \in 0 .. MaxFaults
    BY <1>0, <1>3 DEF StartWorker, StartWorkerFails, Fault, ServerTypeOK
  <2>5. ServerTypeOK'
    BY <1>0, <1>3, <2>1, <2>2, <2>3, <2>4 DEF ServerTypeOK, StartWorker, StartWorkerFails,
                                                timevars, rowvars
  <2>6. WaitsInLoop' /\ SinceByTurn' /\ IdlePollStaysOn'
    BY <1>0, <1>3 DEF StartWorker, StartWorkerFails, WaitsInLoop, SinceByTurn, IdlePollStaysOn,
                      Running, timevars
  <2> QED BY <2>5, <2>6 DEF ServerInv
<1>4. CASE Run
  <2>1. UNCHANGED <<next, watched, turn, term, rowvars, procvars, faults, since>>
    BY <1>4 DEF Run
  <2>2. CASE server' \in {"stopped", "dead"} /\ UNCHANGED timevars
    BY <1>0, <2>1, <2>2 DEF ServerInv, ServerTypeOK, WaitsInLoop, SinceByTurn, IdlePollStaysOn,
                            Running, timevars, rowvars, procvars
  <2>3. CASE server' = "loop" /\ TimerAgain(idle)
    <3>1. idle' = idle /\ timer' \in BOOLEAN /\ (idle > 0 => timer')
      BY <1>0, <2>3, TimerStep DEF ServerTypeOK
    <3> QED BY <1>0, <2>1, <2>3, <3>1 DEF ServerInv, ServerTypeOK, WaitsInLoop, SinceByTurn,
                                          IdlePollStaysOn, rowvars, procvars
  <2> QED BY <1>4, <2>2, <2>3 DEF Run
<1>5. CASE OnShutdownSignal
  BY <1>0, <1>5 DEF OnShutdownSignal, ServerInv, ServerTypeOK, WaitsInLoop, SinceByTurn,
                    IdlePollStaysOn, Running, timevars, procvars
<1>6. CASE KillNext
  <2>1. next \in Pids
    BY <1>0, <1>6 DEF KillNext, ServerTypeOK, Pids
  <2>2. ServerTypeOK'
    BY <1>0, <1>6, <2>1 DEF KillNext, Signalled, Becomes, Alive, ServerTypeOK, timevars, rowvars
  <2> QED BY <1>0, <1>6, <2>2 DEF KillNext, ServerInv, WaitsInLoop, SinceByTurn, IdlePollStaysOn,
                                  Running, timevars
<1>7. CASE WaitNext
  <2>1. next \in Pids /\ next + 1 \in 0 .. NumPids
    BY <1>0, <1>7 DEF WaitNext, ServerTypeOK, WaitsInLoop, Pids
  <2>2. ServerTypeOK'
    BY <1>0, <1>7, <2>1 DEF WaitNext, ServerTypeOK, timevars, rowvars
  <2> QED BY <1>0, <1>7, <2>2 DEF WaitNext, ServerInv, WaitsInLoop, SinceByTurn, IdlePollStaysOn,
                                  Running, timevars
<1> QED BY <1>1, <1>2, <1>3, <1>4, <1>5, <1>6, <1>7 DEF Starting, Stopping

(* Every callback of the server's loop keeps the invariant. *)
LEMMA LoopStep ==
  ASSUME ServerInv, OnConnect \/ OnTimeout \/ Schedule \/ ScheduleNobody
  PROVE  ServerInv'
<1> USE ServerAssumption
<1>0. ServerTypeOK /\ WaitsInLoop /\ SinceByTurn /\ IdlePollStaysOn
  BY DEF ServerInv
<1>1. CASE OnConnect
  <2>1. idle' = MinIdle /\ timer' \in BOOLEAN /\ (MinIdle > 0 => timer')
    BY <1>1, TimerStep DEF OnConnect
  <2>2. /\ UNCHANGED <<next, watched, turn, term, row, procvars, since>>
        /\ server' \in {"loop", "packet"} /\ packets' \in Nat /\ faults' \in 0 .. MaxFaults
    BY <1>0, <1>1 DEF OnConnect, Fault, ServerTypeOK
  <2> QED BY <1>0, <2>1, <2>2 DEF ServerInv, ServerTypeOK, WaitsInLoop, SinceByTurn,
                                  IdlePollStaysOn, procvars
<1>2. CASE OnTimeout
  <2>1. /\ UNCHANGED <<next, turn, since, term, watched, rowvars, procvars>>
        /\ server' \in {"loop", "poll"} /\ faults' \in 0 .. MaxFaults
        /\ IncreaseTimeout \/ UNCHANGED timevars
    BY <1>0, <1>2 DEF OnTimeout, Fault, ServerTypeOK
  <2>2. Running /\ (MinIdle > 0 => timer)
    BY <1>0, <1>2 DEF OnTimeout, Running, IdlePollStaysOn
  <2>3. /\ idle' \in Nat /\ timer' \in BOOLEAN
        /\ idle' = MinIdle \/ (MinIdle < idle' /\ idle' <= MaxIdle)
        /\ MinIdle > 0 => timer'
    <3>1. CASE IncreaseTimeout
      BY <1>0, <2>2, <3>1, IncreaseStep DEF ServerTypeOK, IdlePollStaysOn
    <3>2. CASE UNCHANGED timevars
      BY <1>0, <2>2, <3>2 DEF ServerTypeOK, IdlePollStaysOn, timevars
    <3> QED BY <2>1, <3>1, <3>2
  <2> QED BY <1>0, <2>1, <2>3 DEF ServerInv, ServerTypeOK, WaitsInLoop, SinceByTurn,
                                  IdlePollStaysOn, Running, rowvars, procvars
<1>3. CASE Schedule
  <2>0. turn \in Pids
    BY <1>0, <1>3 DEF Schedule, ServerTypeOK, Pids
  <2>1. turn' \in Pids /\ since' \in [Pids -> Nat] /\ SinceByTurn'
    BY <1>0, <1>3, <2>0, TurnStep DEF Schedule
  <2>2. pipe' \in [Pids -> 0 .. Capacity]
    BY <1>0, <1>3 DEF Schedule, ServerTypeOK
  <2>3. idle' \in Nat /\ timer' \in BOOLEAN /\ IdlePollStaysOn'
    <3>1. CASE TimerAgain(MinIdle)
      <4>1. idle' = MinIdle /\ timer' \in BOOLEAN /\ (MinIdle > 0 => timer')
        BY <3>1, TimerStep
      <4> QED BY <4>1 DEF IdlePollStaysOn
    <3>2. CASE UNCHANGED timevars
      BY <1>0, <1>3, <3>2 DEF Schedule, ServerTypeOK, IdlePollStaysOn, Running, timevars
    <3> QED BY <1>3, <3>1, <3>2 DEF Schedule
  <2> QED BY <1>0, <1>3, <2>1, <2>2, <2>3 DEF Schedule, ServerInv, ServerTypeOK, WaitsInLoop, rowvars
<1>4. CASE ScheduleNobody
  <2>1. ServerTypeOK'
    BY <1>0, <1>4 DEF ServerTypeOK, ScheduleNobody, timevars, rowvars, procvars
  <2>2. UNCHANGED <<next, turn, since, timevars>> /\ server' = "dead"
    BY <1>4 DEF ScheduleNobody
  <2> QED BY <2>1, <2>2, Untouched DEF ServerInv, Running
<1> QED BY <1>1, <1>2, <1>3, <1>4

(* Every step of the workers and of the clients keeps the invariant. *)
LEMMA WorldStep ==
  ASSUME ServerInv,
         \/ \E w \in Pids : OnWorkerExit(w) \/ WorkerStep(w) \/ Interrupt(w) \/ WorkerCrashes(w)
         \/ \E j \in Jobs : ClientSubmits(j)
  PROVE  ServerInv'
<1> USE ServerAssumption
<1>0. ServerTypeOK
  BY DEF ServerInv
<1>1. UNCHANGED <<server, next, turn, since, timevars>>
  BY DEF OnWorkerExit, WorkerStep, WorkerReads, WorkerSeesEof, WorkerClaims, WorkerExits, Interrupt,
         WorkerCrashes, ClientSubmits
<1>2. WaitsInLoop' /\ SinceByTurn' /\ IdlePollStaysOn'
  BY <1>1, Untouched DEF Running
<1>3. ASSUME NEW w \in Pids,
             OnWorkerExit(w) \/ WorkerExits(w) \/ Interrupt(w) \/ WorkerCrashes(w)
      PROVE  ServerTypeOK'
  BY <1>0, <1>3 DEF OnWorkerExit, WorkerExits, Interrupt, WorkerCrashes, Signalled,
                    Becomes, Fault, Alive, ServerTypeOK, timevars, rowvars
<1>a. ASSUME NEW w \in Pids, NEW n \in Nat, SendWork(w, n) PROVE work' \in [Pids -> Nat]
  <2>1. Cardinality(Jobs) \in Nat
    BY FS_CardinalityType
  <2> QED BY <1>0, <1>a, <2>1 DEF SendWork, ServerTypeOK
<1>4. ASSUME NEW w \in Pids, WorkerReads(w) \/ WorkerSeesEof(w) PROVE ServerTypeOK'
  <2>1. CASE WorkerReads(w)
    <3> DEFINE bytes == IF pipe[w] < MaxRead THEN pipe[w] ELSE MaxRead
    <3>1. bytes \in Nat /\ SendWork(w, bytes)
      BY <1>0, <2>1 DEF WorkerReads, ServerTypeOK, MaxRead
    <3>2. work' \in [Pids -> Nat]
      <4> HIDE DEF bytes
      <4> QED BY <1>a, <3>1
    <3>3. pipe' \in [Pids -> 0 .. Capacity]
      BY <1>0, <2>1 DEF WorkerReads, ServerTypeOK, MaxRead
    <3> QED BY <1>0, <2>1, <3>2, <3>3 DEF WorkerReads, ServerTypeOK, timevars, rowvars
  <2>2. CASE WorkerSeesEof(w)
    <3>1. work' \in [Pids -> Nat]
      BY <1>a, <2>2 DEF WorkerSeesEof
    <3> QED BY <1>0, <2>2, <3>1 DEF WorkerSeesEof, Becomes, Alive, ServerTypeOK, timevars, rowvars
  <2> QED BY <1>4, <2>1, <2>2
<1>5. ASSUME NEW w \in Pids, WorkerClaims(w) PROVE ServerTypeOK'
  <2>1. row' \in [Jobs -> {"new", "pending", "claimed"}]
    BY <1>0, <1>5 DEF WorkerClaims, ServerTypeOK
  <2> QED BY <1>0, <1>5, <2>1 DEF WorkerClaims, Fault, ServerTypeOK, timevars
<1>6. ASSUME NEW j \in Jobs, ClientSubmits(j) PROVE ServerTypeOK'
  BY <1>0, <1>6 DEF ClientSubmits, ServerTypeOK, timevars, procvars
<1>7. ServerTypeOK'
  BY <1>3, <1>4, <1>5, <1>6 DEF WorkerStep
<1> QED BY <1>2, <1>7 DEF ServerInv

LEMMA ServerInvAlways == ServerSpec => []ServerInv
<1>1. ServerInv /\ [ServerNext]_serverVars => ServerInv'
  <2> SUFFICES ASSUME ServerInv, [ServerNext]_serverVars PROVE ServerInv'
    OBVIOUS
  <2>1. CASE UNCHANGED serverVars
    BY <2>1 DEF serverVars, timevars, rowvars, procvars, ServerInv, ServerTypeOK, WaitsInLoop,
                SinceByTurn, IdlePollStaysOn, Running
  <2>2. CASE ServerNext
    BY <2>2, StartStopStep, LoopStep, WorldStep DEF ServerNext
  <2> QED BY <2>1, <2>2
<1> QED BY <1>1, ServerInitInv, PTL DEF ServerSpec

(* The server's variables, the pipes and the rows always have their types, *)
(* with any number of workers, none included: with some, m_pids is only    *)
(* indexed inside its bounds, with none only at 0, which ends the process; *)
(* and no pipe holds more than it can.                                     *)
THEOREM ServerTypeCorrect == ServerSpec => []ServerTypeOK
BY ServerInvAlways, PTL DEF ServerInv

(* schedule(): with any number of workers, of as many messages in a row as *)
(* there are workers each is written one.                                  *)
THEOREM EveryWorkerInTurnAlways == ServerSpec => []EveryWorkerInTurn
<1>1. ServerInv => EveryWorkerInTurn
  <2> SUFFICES ASSUME ServerInv, NEW w \in Pids PROVE since[w] < NumPids
    BY DEF EveryWorkerInTurn
  <2>1. /\ turn \in Pids
        /\ since[w] = IF w < turn THEN turn - 1 - w ELSE NumPids + turn - 1 - w
    BY ServerAssumption DEF ServerInv, ServerTypeOK, SinceByTurn, Pids
  <2> QED BY <2>1, ServerAssumption DEF Pids
<1> QED BY <1>1, ServerInvAlways, PTL

(* increase_timeout(): for any settings and any increments the timeout     *)
(* stays between the two settings, and the idle poll stays on.             *)
THEOREM IdlePollAlways == ServerSpec => []IdlePollStaysOn
BY ServerInvAlways, PTL DEF ServerInv

(* What shutdown() has done with the workers it is past, and what it      *)
(* leaves behind when it returns.                                          *)
Stopped ==
  /\ server = "starting" => ~term
  /\ server \in {"signal", "wait"} => \A w \in Pids : w < next => worker[w] \notin Alive
  /\ ShutdownComplete

(* Once run() has been called no process is started. *)
LEMMA NoRevival ==
  ASSUME ServerInv, [ServerNext]_serverVars, server # "starting"
  PROVE  \A w \in Pids : worker[w] \notin Alive => worker'[w] \notin Alive
<1>1. worker \in [Pids -> {"absent", "zombie", "reaped"} \union Alive]
  BY DEF ServerInv, ServerTypeOK
<1>2. CASE UNCHANGED worker
  BY <1>2
<1>3. ASSUME NEW v \in Pids,
             OnWorkerExit(v) \/ WorkerSeesEof(v) \/ WorkerExits(v) \/ Interrupt(v) \/ WorkerCrashes(v)
      PROVE  \A w \in Pids : worker[w] \notin Alive => worker'[w] \notin Alive
  BY <1>1, <1>3 DEF OnWorkerExit, WorkerSeesEof, WorkerExits, Interrupt, WorkerCrashes, Signalled,
                    Becomes, Alive
<1>4. ASSUME NEW v \in Pids, WorkerReads(v) \/ WorkerClaims(v) PROVE UNCHANGED worker
  BY <1>4 DEF WorkerReads, WorkerClaims
<1>5. CASE KillNext
  <2>1. next \in Pids
    BY <1>5, ServerAssumption DEF KillNext, ServerInv, ServerTypeOK, Pids
  <2> QED BY <1>1, <1>5, <2>1 DEF KillNext, Signalled, Becomes, Alive
<1>6. CASE WaitNext
  BY <1>1, <1>6 DEF WaitNext, Alive
<1>7. CASE Starting
  BY <1>7 DEF Starting, InitializeFails, StartWorker, StartWorkerFails, ForkFails, Run
<1>8. CASE \/ OnConnect \/ OnTimeout \/ Schedule \/ ScheduleNobody \/ OnShutdownSignal \/ Return
           \/ Terminate \/ ServerCrashes \/ \E j \in Jobs : ClientSubmits(j)
  BY <1>8 DEF OnConnect, OnTimeout, Schedule, ScheduleNobody, OnShutdownSignal, Return, Terminate,
              ServerCrashes, ClientSubmits, procvars
<1>9. CASE UNCHANGED serverVars
  BY <1>9 DEF serverVars, procvars
<1> QED BY <1>2, <1>3, <1>4, <1>5, <1>6, <1>7, <1>8, <1>9 DEF ServerNext, Stopping, WorkerStep

(* Every step keeps what shutdown() has done. *)
LEMMA StoppedStep ==
  ASSUME ServerInv, Stopped, [ServerNext]_serverVars
  PROVE  Stopped'
<1> USE ServerAssumption
<1>0. next \in 0 .. NumPids
  BY DEF ServerInv, ServerTypeOK
<1>1. CASE Starting
  <2>1. server = "starting" /\ ~term' /\ server' \in {"starting", "loop", "stopped", "dead"}
    BY <1>1 DEF Starting, InitializeFails, StartWorker, StartWorkerFails, ForkFails, Run, Stopped
  <2> QED BY <2>1 DEF Stopped, ShutdownComplete
<1>2. CASE OnShutdownSignal
  BY <1>2 DEF OnShutdownSignal, Stopped, ShutdownComplete, Pids
<1>3. CASE KillNext
  <2>1. server = "signal" /\ server' = "wait" /\ next' = next
    BY <1>3 DEF KillNext
  <2> QED BY <2>1, NoRevival DEF Stopped, ShutdownComplete
<1>4. CASE WaitNext
  <2>1. /\ server = "wait" /\ server' = "signal" /\ next' = next + 1
        /\ worker[next] \notin Alive
    BY <1>4 DEF WaitNext
  <2>2. ASSUME NEW w \in Pids, w < next' PROVE worker'[w] \notin Alive
    <3>1. w < next \/ w = next
      BY <1>0, <2>1, <2>2 DEF Pids
    <3> QED BY <2>1, <3>1, NoRevival DEF Stopped
  <2> QED BY <2>1, <2>2 DEF Stopped, ShutdownComplete
<1>5. CASE Return
  <2>1. /\ server = "signal" /\ next = NumPids /\ server' = "stopped"
        /\ \A w \in Pids : w < next /\ worker[w] \notin Alive
    BY <1>5 DEF Return, Stopped, Pids
  <2> QED BY <2>1, NoRevival DEF Stopped, ShutdownComplete
<1>6. CASE Terminate
  <2>1. server \notin Ended /\ server' = (IF server = "starting" THEN "dead" ELSE server)
        /\ UNCHANGED <<next, worker>>
    BY <1>6 DEF Terminate, procvars
  <2> QED BY <2>1 DEF Stopped, ShutdownComplete, Ended
<1>7. CASE ServerCrashes \/ ScheduleNobody
  BY <1>7 DEF ServerCrashes, ScheduleNobody, Stopped, ShutdownComplete
<1>8. CASE OnConnect \/ OnTimeout \/ Schedule
  <2>1. server' \in {"loop", "packet", "poll"}
    BY <1>8 DEF OnConnect, OnTimeout, Schedule
  <2> QED BY <2>1 DEF Stopped, ShutdownComplete
<1>9. CASE UNCHANGED <<server, next, term>>
  <2>1. CASE server = "starting"
    BY <1>9, <2>1 DEF Stopped, ShutdownComplete
  <2>2. CASE server # "starting"
    BY <1>9, <2>2, NoRevival DEF Stopped, ShutdownComplete
  <2> QED BY <2>1, <2>2
<1>10. ASSUME \/ \E w \in Pids : OnWorkerExit(w) \/ WorkerStep(w) \/ Interrupt(w) \/ WorkerCrashes(w)
              \/ \E j \in Jobs : ClientSubmits(j)
              \/ UNCHANGED serverVars
       PROVE  UNCHANGED <<server, next, term>>
  BY <1>10 DEF OnWorkerExit, WorkerStep, WorkerReads, WorkerSeesEof, WorkerClaims, WorkerExits,
               Interrupt, WorkerCrashes, ClientSubmits, serverVars
<1> QED BY <1>1, <1>2, <1>3, <1>4, <1>5, <1>6, <1>7, <1>8, <1>9, <1>10 DEF ServerNext, Stopping

(* shutdown(): with any number of workers, when the server returns from    *)
(* its loop after a signal no worker process is left.                      *)
THEOREM ShutdownCompleteAlways == ServerSpec => []ShutdownComplete
<1>1. ServerInit => Stopped
  BY DEF ServerInit, Stopped, ShutdownComplete
<1>2. Stopped => ShutdownComplete
  BY DEF Stopped
<1> QED BY <1>1, <1>2, StoppedStep, ServerInvAlways, PTL DEF ServerSpec
=============================================================================

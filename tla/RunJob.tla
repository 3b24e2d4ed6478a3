-------------------------------- MODULE RunJob --------------------------------
(***************************************************************************)
(* A RunJob: a thread of a worker runs a command in a child process and    *)
(* collects its two output streams through pipes.                          *)
(*                                                                         *)
(* The thread shares its process with other threads: they open files, fork *)
(* children of their own, which inherit every open descriptor, and libev   *)
(* waits for children in the main thread.  Output is counted in pieces of  *)
(* what one fgets() returns.                                               *)
(***************************************************************************)
EXTENDS Integers, Sequences, FiniteSets

CONSTANTS
  Scripts,   \* what commands write: sequences of "out" and "err"
  Capacity,  \* pieces a pipe holds
  Stdio,     \* pieces the buffer of a FILE holds
  MaxFd,     \* descriptors 1 .. MaxFd are not in use when the job starts
  MaxOthers  \* bound on the descriptors other threads have in hand

Streams == {"out", "err"}

ASSUME RunJobAssumption ==
  /\ Scripts \subseteq Seq(Streams)
  /\ Capacity \in Nat \ {0} /\ Stdio \in Nat \ {0}
  /\ MaxFd \in Nat /\ MaxOthers \in Nat

VARIABLES
  pc,         \* where the thread is in real_execute() and the destructor
  record,     \* what is in the row's column data
  data,       \* m_data
  num,        \* ofd and efd: end -> descriptor
  fds,        \* descriptor -> the end it refers to, "other" or "free"
  pipe,       \* stream -> pieces in the pipe
  buf,        \* stream -> pieces in the FILE's buffer
  ended,      \* streams with feof() or ferror()
  collected,  \* stream -> pieces appended to std_out and std_err
  child,      \* state of the child process
  script,     \* what the command still writes
  written,    \* stream -> pieces the command wrote (history)
  sink,       \* stream -> the end the child's stdout or stderr refers to, if one
  heirs,      \* ends some other process inherited
  code,       \* exit status of the child (history)
  result,     \* what execute() returns, 2 before it does
  again,      \* numbers another thread will close() though they are closed already
  hit,        \* ends of this job that such a close() took (history)
  lost,       \* this job closed a descriptor of another thread (history)
  raced       \* another thread opened a file between fclose() and close() (history)

endvars == <<num, fds, again, lost>>
iovars == <<pipe, buf, ended, collected>>
childvars == <<child, script, written, sink, code>>
worldvars == <<heirs, hit, raced>>
jobVars == <<pc, record, data, endvars, iovars, childvars, worldvars, result>>

Ends == {"out", "err"} \X {"r", "w"}
Fds == 1 .. MaxFd
Over == {"done", "crashed"}
Labels == {"load", "command", "pipe_out", "pipe_err", "fork", "close", "fdopen", "read_out",
           "read_err", "fclose_out", "fclose_err", "close_out", "close_err", "wait",
           "destroy"} \union Over

RunJobTypeOK ==
  /\ pc \in Labels
  /\ record \in {"empty", "bad", "no_command", "unbalanced", "good"}
  /\ data \in {"null", "garbage", "object"}
  /\ num \in [Ends -> Fds \union {0}]
  /\ fds \in [Fds -> Ends \union {<<"other">>, <<"free">>}]
  /\ pipe \in [Streams -> 0 .. Capacity]
  /\ buf \in [Streams -> 0 .. Stdio]
  /\ ended \subseteq Streams
  /\ collected \in [Streams -> Nat]
  /\ child \in {"none", "running", "zombie", "reaped"}
  /\ script \in Seq(Streams)
  /\ written \in [Streams -> Nat]
  /\ sink \in [Streams -> Ends \union {<<"none">>}]
  /\ heirs \subseteq Ends /\ hit \subseteq Ends /\ again \subseteq Fds
  /\ code \in 0 .. 1 /\ result \in 0 .. 2
  /\ lost \in BOOLEAN /\ raced \in BOOLEAN

(* m_data is not initialised by the constructor.  RunJobs of other threads *)
(* may be between their fclose() and their close().                        *)
RunJobInit ==
  /\ pc = "load"
  /\ record \in {"empty", "bad", "no_command", "unbalanced", "good"}
  /\ data \in {"null", "garbage"}
  /\ num = [e \in Ends |-> 0]
  /\ fds = [n \in Fds |-> <<"free">>]
  /\ pipe = [s \in Streams |-> 0] /\ buf = [s \in Streams |-> 0]
  /\ ended = {}
  /\ collected = [s \in Streams |-> 0]
  /\ child = "none" /\ script \in Scripts
  /\ written = [s \in Streams |-> 0]
  /\ sink = [s \in Streams |-> <<"none">>]
  /\ heirs = {} /\ hit = {}
  /\ again \in {A \in SUBSET Fds : Cardinality(A) <= MaxOthers}
  /\ code = 0 /\ result = 2
  /\ lost = FALSE /\ raced = FALSE

-----------------------------------------------------------------------------
(* Descriptors                                                             *)

Free == {n \in Fds : fds[n] = <<"free">>}
IsLowest(n, S) == n \in S /\ \A m \in S : n <= m

(* What a number refers to. *)
At(n) == IF n \in Fds THEN fds[n] ELSE <<"free">>

(* pipe(): the two lowest free numbers, if there are two. *)
OpenPipe(s) ==
  \E r, w \in Free :
    /\ IsLowest(r, Free) /\ IsLowest(w, Free \ {r})
    /\ num' = [num EXCEPT ![<<s, "r">>] = r, ![<<s, "w">>] = w]
    /\ fds' = [fds EXCEPT ![r] = <<s, "r">>, ![w] = <<s, "w">>]
    /\ UNCHANGED <<again, lost>>

(* close() of some of the numbers the thread remembers, whatever they      *)
(* refer to by now.  The thread that loses a descriptor so does not know   *)
(* it and will close the number too.                                       *)
Close(ends) ==
  LET numbers == {num[e] : e \in ends}
      others == {n \in numbers : At(n) = <<"other">>}
  IN  /\ fds' = [n \in Fds |-> IF n \in numbers THEN <<"free">> ELSE fds[n]]
      /\ again' = again \union others
      /\ lost' = (lost \/ others # {})
      /\ UNCHANGED num

(* No process has this end of a pipe open. *)
Gone(end) ==
  /\ end \notin heirs
  /\ \A s \in Streams : sink[s] # end
  /\ \A n \in Fds : fds[n] # end

-----------------------------------------------------------------------------
(* real_execute(), load_data() and the first part of execute()             *)

Returns(r) == result' = r /\ pc' = "destroy"

(* Defect: m_data keeps what it was when the data cannot be parsed. *)
LoadDataKeepsGarbage ==
  /\ pc = "load"
  /\ CASE record = "empty" -> Returns(0) /\ UNCHANGED data
       [] record = "bad" -> Returns(0) /\ UNCHANGED data
       [] OTHER -> data' = "object" /\ pc' = "command" /\ UNCHANGED result
  /\ UNCHANGED <<record, endvars, iovars, childvars, worldvars>>

(* load_data(): without data m_data is left as it is, with data that       *)
(* cannot be parsed it is set to NULL.                                     *)
LoadData ==
  /\ pc = "load"
  /\ CASE record = "empty" -> Returns(0) /\ UNCHANGED data
       [] record = "bad" -> Returns(0) /\ data' = "null"
       [] OTHER -> data' = "object" /\ pc' = "command" /\ UNCHANGED result
  /\ UNCHANGED <<record, endvars, iovars, childvars, worldvars>>

(* The command is missing, or its quotes do not match. *)
ParseCommand ==
  /\ pc = "command"
  /\ IF record = "good" THEN pc' = "pipe_out" /\ UNCHANGED result ELSE Returns(0)
  /\ UNCHANGED <<record, data, endvars, iovars, childvars, worldvars>>

PipeOut ==
  /\ pc = "pipe_out"
  /\ \/ OpenPipe("out") /\ pc' = "pipe_err" /\ UNCHANGED result
     \/ Returns(0) /\ UNCHANGED endvars
  /\ UNCHANGED <<record, data, iovars, childvars, worldvars>>

(* Defect: the first pipe stays open when the second cannot be had. *)
PipeErrLeaks ==
  /\ pc = "pipe_err"
  /\ \/ OpenPipe("err") /\ pc' = "fork" /\ UNCHANGED result
     \/ Returns(0) /\ UNCHANGED endvars
  /\ UNCHANGED <<record, data, iovars, childvars, worldvars>>

PipeErr ==
  /\ pc = "pipe_err"
  /\ \/ OpenPipe("err") /\ pc' = "fork" /\ UNCHANGED result
     \/ Returns(0) /\ Close({"out"} \X {"r", "w"})
  /\ UNCHANGED <<record, data, iovars, childvars, worldvars>>

(* The end the child's stdout or stderr is after dup2() of a number, in a  *)
(* copy of the table with the numbers in closed closed: neither another    *)
(* thread's file nor the worker's own stdout is one.                       *)
Dup2(n, closed) ==
  IF n \notin closed /\ At(n) \in Ends THEN At(n) ELSE <<"none">>

(* The child closes its four numbers one by one, and makes the write ends  *)
(* its stdout and stderr on the way.                                       *)
Fork ==
  /\ pc = "fork"
  /\ \/ /\ child' = "running"
        /\ LET ofd == {num[<<"out", "r">>], num[<<"out", "w">>]}
           IN  sink' = [s \in Streams |->
                 IF s = "out" THEN Dup2(num[<<"out", "w">>], {num[<<"out", "r">>]})
                 ELSE Dup2(num[<<"err", "w">>], ofd \union {num[<<"err", "r">>]})]
        /\ pc' = "close"
        /\ UNCHANGED <<endvars, result>>
     \/ Returns(0) /\ Close(Ends) /\ UNCHANGED <<child, sink>>
  /\ UNCHANGED <<record, data, iovars, script, written, code, worldvars>>

(* Defect: the thread keeps its write ends. *)
CloseWriteEndsForgotten ==
  /\ pc = "close"
  /\ pc' = "fdopen"
  /\ UNCHANGED <<record, data, endvars, result, iovars, childvars, worldvars>>

CloseWriteEnds ==
  /\ pc = "close"
  /\ Close(Streams \X {"w"})
  /\ pc' = "fdopen"
  /\ UNCHANGED <<record, data, result, iovars, childvars, worldvars>>

(* fdopen() of both read ends.  Of a number that is closed or not readable *)
(* it returns NULL, and ferror(NULL) is the end of the worker; a file of   *)
(* another thread may be readable or not.                                  *)
Fdopen ==
  /\ pc = "fdopen"
  /\ LET found == {At(num[<<s, "r">>]) : s \in Streams}
     IN  \/ found \subseteq (Streams \X {"r"}) \union {<<"other">>} /\ pc' = "read_out"
         \/ ~(found \subseteq Streams \X {"r"}) /\ pc' = "crashed"
  /\ UNCHANGED <<record, data, endvars, result, iovars, childvars, worldvars>>

-----------------------------------------------------------------------------
(* The loop over the two streams                                           *)

(* read() of up to a buffer of pieces from a pipe, the first of which      *)
(* fgets() returns; or the end of the file, when nobody can write.  It     *)
(* waits while the pipe is empty and has a writer.                         *)
Refill(s, t) ==
  LET got == IF pipe[t] < Stdio THEN pipe[t] ELSE Stdio
  IN \/ /\ got > 0
        /\ pipe' = [pipe EXCEPT ![t] = @ - got]
        /\ buf' = [buf EXCEPT ![s] = got - 1]
        /\ collected' = [collected EXCEPT ![s] = @ + 1]
        /\ UNCHANGED ended
     \/ /\ got = 0 /\ Gone(<<t, "w">>)
        /\ ended' = ended \union {s}
        /\ UNCHANGED <<pipe, buf, collected>>

(* fgets(): the next piece of the buffer, or of a refill from what the     *)
(* number refers to by now: a pipe; nothing that can be read, which is an  *)
(* error; or another thread's file, with pieces that are not the child's.  *)
Fgets(s) ==
  LET from == At(num[<<s, "r">>])
  IN \/ /\ buf[s] > 0
        /\ buf' = [buf EXCEPT ![s] = @ - 1]
        /\ collected' = [collected EXCEPT ![s] = @ + 1]
        /\ UNCHANGED <<pipe, ended>>
     \/ \E t \in Streams : buf[s] = 0 /\ from = <<t, "r">> /\ Refill(s, t)
     \/ /\ buf[s] = 0 /\ from \notin Streams \X {"r"}
        /\ ended' = ended \union {s}
        /\ UNCHANGED <<pipe, buf, collected>>
     \/ buf[s] = 0 /\ from = <<"other">> /\ UNCHANGED iovars

ReadOut ==
  /\ pc = "read_out"
  /\ IF "out" \in ended THEN UNCHANGED iovars ELSE Fgets("out")
  /\ pc' = "read_err"
  /\ UNCHANGED <<record, data, endvars, result, childvars, worldvars>>

(* Defect: the loop ends with the first stream that ends. *)
ReadErrStopsEarly ==
  /\ pc = "read_err"
  /\ IF "err" \in ended THEN UNCHANGED iovars ELSE Fgets("err")
  /\ pc' = IF ended' # {} THEN "fclose_out" ELSE "read_out"
  /\ UNCHANGED <<record, data, endvars, result, childvars, worldvars>>

ReadErr ==
  /\ pc = "read_err"
  /\ IF "err" \in ended THEN UNCHANGED iovars ELSE Fgets("err")
  /\ pc' = IF ended' = Streams THEN "fclose_out" ELSE "read_out"
  /\ UNCHANGED <<record, data, endvars, result, childvars, worldvars>>

-----------------------------------------------------------------------------
(* fclose() and close() of the read ends, waitpid() and the destructor     *)

FcloseOut ==
  /\ pc = "fclose_out" /\ Close({<<"out", "r">>}) /\ pc' = "fclose_err"
  /\ UNCHANGED <<record, data, result, iovars, childvars, worldvars>>

FcloseErr ==
  /\ pc = "fclose_err" /\ Close({<<"err", "r">>}) /\ pc' = "close_out"
  /\ UNCHANGED <<record, data, result, iovars, childvars, worldvars>>

(* Defect: the second close() is given the write end. *)
CloseAgainWrong ==
  /\ \/ pc = "close_out" /\ Close({<<"out", "w">>}) /\ pc' = "close_err"
     \/ pc = "close_err" /\ Close({<<"err", "w">>}) /\ pc' = "wait"
  /\ UNCHANGED <<record, data, result, iovars, childvars, worldvars>>

(* The numbers that fclose() has already closed. *)
CloseAgain ==
  /\ \/ pc = "close_out" /\ Close({<<"out", "r">>}) /\ pc' = "close_err"
     \/ pc = "close_err" /\ Close({<<"err", "r">>}) /\ pc' = "wait"
  /\ UNCHANGED <<record, data, result, iovars, childvars, worldvars>>

(* Defect: the status of waitpid() is returned as it is. *)
WaitRaw ==
  /\ pc = "wait" /\ child \in {"zombie", "reaped"}
  /\ child' = "reaped"
  /\ Returns(IF child = "reaped" \/ code = 0 THEN 0 ELSE 256)
  /\ UNCHANGED <<record, data, endvars, iovars, script, written, sink, code, worldvars>>

(* Defect: a child that cannot be waited for counts as failed. *)
WaitStrict ==
  /\ pc = "wait" /\ child \in {"zombie", "reaped"}
  /\ child' = "reaped"
  /\ Returns(IF child = "zombie" /\ code = 0 THEN 1 ELSE 0)
  /\ UNCHANGED <<record, data, endvars, iovars, script, written, sink, code, worldvars>>

(* waitpid() fails when libev has waited for the child already; status is  *)
(* then still 0, its initial value.                                        *)
Wait ==
  /\ pc = "wait" /\ child \in {"zombie", "reaped"}
  /\ child' = "reaped"
  /\ Returns(IF child = "reaped" \/ code = 0 THEN 1 ELSE 0)
  /\ UNCHANGED <<record, data, endvars, iovars, script, written, sink, code, worldvars>>

Destroy ==
  /\ pc = "destroy"
  /\ pc' = IF data = "garbage" THEN "crashed" ELSE "done"
  /\ UNCHANGED <<record, data, endvars, result, iovars, childvars, worldvars>>

-----------------------------------------------------------------------------
(* The child and the rest of the process                                   *)

Exits(status) ==
  /\ child' = "zombie" /\ code' = status
  /\ sink' = [s \in Streams |-> <<"none">>]

(* The command writes its output and waits while the pipe is full.  What   *)
(* does not go to a pipe is lost to the job.  libmysqlclient has the       *)
(* worker ignore SIGPIPE, which execve() keeps: without a reader write()   *)
(* fails, and the command goes on or gives up.                             *)
ChildWrites ==
  /\ child = "running" /\ script # <<>>
  /\ LET to == sink[Head(script)] IN
     \/ \E t \in Streams :
          /\ to = <<t, "w">> /\ pipe[t] < Capacity /\ ~Gone(<<t, "r">>)
          /\ pipe' = [pipe EXCEPT ![t] = @ + 1]
          /\ UNCHANGED <<child, code, sink>>
     \/ /\ to \notin Streams \X {"w"} \/ \E t \in Streams : to = <<t, "w">> /\ Gone(<<t, "r">>)
        /\ UNCHANGED <<child, code, sink>> \/ Exits(1)
        /\ UNCHANGED pipe
  /\ written' = [written EXCEPT ![Head(script)] = @ + 1]
  /\ script' = Tail(script)
  /\ UNCHANGED <<pc, record, data, endvars, result, buf, ended, collected, worldvars>>

(* The command ends, or could not be executed; processes it started may    *)
(* keep its streams.                                                       *)
ChildExits ==
  /\ child = "running" /\ script = <<>>
  /\ \E status \in 0 .. 1 : Exits(status)
  /\ \E kept \in SUBSET (Ends \intersect {sink[s] : s \in Streams}) :
       heirs' = heirs \union kept
  /\ UNCHANGED <<pc, record, data, endvars, result, iovars, script, written, hit, raced>>

(* The main thread's event loop waits for every child of the process. *)
LibevReaps ==
  /\ child = "zombie"
  /\ child' = "reaped"
  /\ UNCHANGED <<pc, record, data, endvars, result, iovars, script, written, sink, code, worldvars>>

(* Another thread's RunJob forks: its child inherits the open ends. *)
SiblingForks ==
  /\ \E n \in Fds : fds[n] \in Ends
  /\ heirs' = heirs \union (Ends \intersect {fds[n] : n \in Fds})
  /\ UNCHANGED <<pc, record, data, endvars, result, iovars, childvars, hit, raced>>

HeirsExit ==
  /\ heirs # {}
  /\ heirs' = {}
  /\ UNCHANGED <<pc, record, data, endvars, result, iovars, childvars, hit, raced>>

(* Another thread opens a file, a pipe or a connection. *)
OtherOpens ==
  /\ pc \notin Over
  /\ Cardinality({n \in Fds : fds[n] = <<"other">>}) + Cardinality(again) < MaxOthers
  /\ \E n \in Free : IsLowest(n, Free) /\ fds' = [fds EXCEPT ![n] = <<"other">>]
  /\ raced' = (raced \/ pc \in {"fclose_err", "close_out", "close_err"})
  /\ UNCHANGED <<pc, record, data, num, again, lost, result, iovars, childvars, heirs, hit>>

(* It closes it; if that is the fclose() of a RunJob, the same number will *)
(* be closed once more.                                                    *)
OtherCloses(n) ==
  /\ fds[n] = <<"other">>
  /\ fds' = [fds EXCEPT ![n] = <<"free">>]
  /\ again' \in {again, again \union {n}}
  /\ UNCHANGED <<pc, record, data, num, lost, result, iovars, childvars, worldvars>>

(* The close() of a number that has been closed before, whatever it refers *)
(* to by now: nothing, an end of this job, or a file of a third thread,    *)
(* which will then close it once more.                                     *)
SiblingCloses(n) ==
  /\ n \in again
  /\ fds' = [fds EXCEPT ![n] = <<"free">>]
  /\ again' = IF fds[n] = <<"other">> THEN again ELSE again \ {n}
  /\ hit' = hit \union ({fds[n]} \intersect Ends)
  /\ UNCHANGED <<pc, record, data, num, lost, result, iovars, childvars, heirs, raced>>

-----------------------------------------------------------------------------
Execute ==
  \/ LoadData \/ ParseCommand \/ PipeOut \/ PipeErr \/ Fork \/ CloseWriteEnds
  \/ Fdopen \/ ReadOut \/ ReadErr \/ FcloseOut \/ FcloseErr \/ CloseAgain \/ Wait \/ Destroy
Child == ChildWrites \/ ChildExits

RunJobNext ==
  \/ Execute \/ Child \/ LibevReaps \/ HeirsExit
  \/ SiblingForks \/ OtherOpens
  \/ \E n \in Fds : OtherCloses(n) \/ SiblingCloses(n)

RunJobSpec == RunJobInit /\ [][RunJobNext]_jobVars

(* The thread and the processes that write to it are scheduled. *)
RunJobFairSpec ==
  /\ RunJobSpec
  /\ WF_jobVars(Execute) /\ WF_jobVars(Child) /\ WF_jobVars(HeirsExit)

-----------------------------------------------------------------------------
(* Properties                                                              *)

(* The loop over the streams: once it ends, all the command wrote, on both *)
(* streams, has been collected, unless another thread closed a descriptor  *)
(* under it.                                                               *)
OutputComplete ==
  pc \in {"fclose_out", "fclose_err", "close_out", "close_err", "wait"} /\ hit = {}
    => collected = written /\ script = <<>>

(* Every way out of execute() gives all descriptors back, also when        *)
(* another thread closed some of them and their numbers were given away.   *)
NoDescriptorLeak == pc \in {"destroy", "done"} => \A n \in Fds : fds[n] \notin Ends

(* The job closes a descriptor of another thread only if that thread       *)
(* opened it between fclose() and the second close(), or another RunJob    *)
(* did the same to this one before, wherever this one was between pipe()   *)
(* and its last close().                                                   *)
OthersKeepDescriptors == lost => raced \/ hit # {}

(* A command that succeeds is reported as a success, whoever waits for it  *)
(* first.                                                                  *)
NoFalseFailure == pc = "done" /\ child = "reaped" /\ code = 0 => result = 1

(* README: "error: the job has been procesed but an error occurred".  A    *)
(* command that fails is not reported as a success.                        *)
FailureReported == pc = "done" /\ child = "reaped" /\ code = 1 => result = 0

(* g_object_unref() on an uninitialised m_data and ferror() on a NULL      *)
(* stream: only a row without data, or another thread's close(), can take  *)
(* the worker down.                                                        *)
DataProtectsWorker == pc = "crashed" => record = "empty" \/ hit # {}

(* The child never gets more than a pipe ahead on the stream that is not   *)
(* being read.                                                             *)
Count(p, s) == Len(SelectSeq(p, LAMBDA x : x = s))
Fits(whole) ==
  \A n \in 0 .. Len(whole) :
    LET sofar == SubSeq(whole, 1, n)
    IN  /\ Count(sofar, "err") <= Count(sofar, "out") + Capacity
        /\ Count(sofar, "out") <= Count(sofar, "err") + Capacity + 1

(* The alternating blocking reads: a job ends if its command keeps its     *)
(* streams in step and no other thread closes a descriptor under it.       *)
JobEnds == (pc = "load" /\ Fits(script)) ~> (pc \in Over \/ hit # {})
=============================================================================

-------------------------------- MODULE Daemon --------------------------------
(***************************************************************************)
(* workqd's main program: several invocations of it on one machine, their  *)
(* configurations and working directories, the pid files, the UDP ports,   *)
(* and "workqd -k".                                                        *)
(*                                                                         *)
(* The server proper is module Server; here it binds its port, serves and  *)
(* stops.                                                                  *)
(***************************************************************************)
EXTENDS Settings

CONSTANTS
  Procs,        \* invocations of workqd
  Files,        \* the event sequences of the configuration files in use
  Nobody,       \* no process
  Empty,        \* what a pid file holds between fopen() and fclose()
  Dirs,         \* working directories
  Root,         \* the directory "/"
  Locations,    \* the files that a path to a pid file may name
  File(_, _),   \* the file that a path names in a working directory
  Atoi(_)       \* the number a value of "listen" stands for

(* The lists a process may work with: none, or what is loaded of a file. *)
Tables == {<<>>} \union {Load(f) : f \in Files}

(* The files that the setting "pidfile" of a list names in a directory. *)
PidFileIn(d, list) ==
  LET path == GetStr(list, "pidfile", NoKey)
  IN  IF path = NoKey THEN {} ELSE {File(d, path)}

ASSUME DaemonAssumption ==
  /\ {Nobody, Empty} \intersect Procs = {} /\ Nobody # Empty
  /\ Root \in Dirs
  /\ \A d \in Dirs, list \in Tables : PidFileIn(d, list) \subseteq Locations
  /\ \A d \in Dirs : File(d, "logs/workq.pid") \in Locations

VARIABLES
  pc,     \* process -> where it is in main()
  table,  \* process -> m_table of its Settings
  kill,   \* process -> check_kill, the option -k
  dir,    \* process -> its working directory
  term,   \* process -> SIGTERM or SIGINT was sent to it while it was up
  pid,    \* pid file -> process whose pid it holds, Empty, or Nobody if there is no file
  bound,  \* processes with a socket bound to their port
  odd     \* pid files passed by: see Check and Unlink (history)

procvars == <<table, kill, dir>>
daemonVars == <<pc, procvars, term, pid, bound, odd>>

Before == {"new", "check"}
Opening == {"open", "write"}
Starting == Opening \union {"initialize", "bind"}
Up == Starting \union {"serve", "unlink"}
Ended == {"stopped", "gone"}   \* at the end of main(), or elsewhere

(* The types; a process has the port only while it serves. *)
DaemonTypeOK ==
  /\ pc \in [Procs -> Before \union Up \union Ended]
  /\ table \in [Procs -> Tables]
  /\ kill \in [Procs -> BOOLEAN]
  /\ dir \in [Procs -> Dirs]
  /\ term \in [Procs -> BOOLEAN]
  /\ pid \in [Locations -> Procs \union {Nobody, Empty}]
  /\ bound \in SUBSET {p \in Procs : pc[p] = "serve"}
  /\ odd \in SUBSET Locations

DaemonInit ==
  /\ pc = [p \in Procs |-> "new"]
  /\ table = [p \in Procs |-> <<>>]
  /\ kill = [p \in Procs |-> FALSE]
  /\ dir \in [Procs -> Dirs]
  /\ term = [p \in Procs |-> FALSE]
  /\ pid = [l \in Locations |-> Nobody]
  /\ bound = {}
  /\ odd = {}

At(p, label) == pc' = [pc EXCEPT ![p] = label]

PidFile(p) == PidFileIn(dir[p], table[p])
Background(p) == GetBool(table[p], "daemonize", TRUE)
Listen(p) ==
  LET v == GetStr(table[p], "listen", NoKey) IN IF v = NoKey THEN 4488 ELSE Atoi(v)

(* What the pid files among these hold. *)
Named(locations) == {pid[l] : l \in locations} \ {Nobody}

(* SIGTERM ends a process at once unless Server::run() has installed the   *)
(* handlers, which it does only with the port bound.                       *)
Dies(p) == pc[p] \in Starting \/ (pc[p] = "unlink" /\ ~term[p])
AfterSignal(p) == IF Dies(p) THEN "gone" ELSE pc[p]

-----------------------------------------------------------------------------
(* cli_setup                                                               *)

(* Bad options, no file, a file that does not verify, or -v or -i: the     *)
(* process ends.                                                           *)
CliFails(p) ==
  /\ pc[p] = "new"
  /\ At(p, "gone")
  /\ UNCHANGED <<procvars, term, pid, bound, odd>>

(* The file -k looks at: "logs/workq.pid" if the setting is missing. *)
KillFile(d, list) ==
  IF PidFileIn(d, list) = {} THEN {File(d, "logs/workq.pid")} ELSE PidFileIn(d, list)

(* The configuration is loaded, verified and committed.  A process with -k *)
(* looks for the pid file first: if there is one, the process it names     *)
(* gets SIGTERM, and with an empty one the process signals its own group;  *)
(* if there is none, the process goes on like any other.                   *)
CliSetup(p) ==
  /\ pc[p] = "new"
  /\ \E f \in Files, check_kill \in BOOLEAN :
       LET list == Load(f)
           named == IF check_kill THEN Named(KillFile(dir[p], list)) ELSE {}
       IN  /\ \E newestFirst \in BOOLEAN : Verify(list, newestFirst)
           /\ table' = [table EXCEPT ![p] = list]
           /\ kill' = [kill EXCEPT ![p] = check_kill]
           /\ pc' = [q \in Procs |->
                      IF q = p THEN IF named = {} THEN "check" ELSE "gone"
                      ELSE IF q \in named THEN AfterSignal(q) ELSE pc[q]]
           /\ term' = [q \in Procs |-> term[q] \/ (q \in named /\ pc[q] \in Up)]
  /\ UNCHANGED <<dir, pid, bound, odd>>

-----------------------------------------------------------------------------
(* main                                                                    *)

(* A process is between its test of this pid file and its write. *)
Overlaps(l) == \E q \in Procs : pc[q] \in Opening /\ l \in PidFile(q)

(* The fork has worked and the process is in "/".  The pid file it will    *)
(* write was not tested if the path is relative, and was tested too early  *)
(* if another process is about to write it.                                *)
Daemonized(p) ==
  /\ dir' = [dir EXCEPT ![p] = Root]
  /\ odd' = odd \union {l \in PidFileIn(Root, table[p]) : l \notin PidFile(p) \/ Overlaps(l)}

(* Defect: the test of the pid file is left out. *)
CheckNothing(p) ==
  /\ pc[p] = "check" /\ Background(p)
  /\ At(p, "open")
  /\ Daemonized(p)
  /\ UNCHANGED <<table, kill, term, pid, bound>>

(* Defect: a process that finds the pid file removes it on its way out. *)
CheckCleansUp(p) ==
  /\ pc[p] = "check" /\ Background(p)
  /\ At(p, IF Named(PidFile(p)) # {} THEN "unlink" ELSE "open")
  /\ Daemonized(p)
  /\ UNCHANGED <<table, kill, term, pid, bound>>

(* With a pid file g_error() ends the process; without one it forks and    *)
(* changes to "/".                                                         *)
Check(p) ==
  /\ pc[p] = "check" /\ Background(p)
  /\ IF Named(PidFile(p)) # {}
     THEN At(p, "gone") /\ UNCHANGED <<dir, odd>>
     ELSE At(p, "open") /\ Daemonized(p)
  /\ UNCHANGED <<table, kill, term, pid, bound>>

(* fork(), setsid() or chdir() fails. *)
DaemonizeFails(p) ==
  /\ pc[p] = "check" /\ Background(p) /\ Named(PidFile(p)) = {}
  /\ At(p, "gone")
  /\ UNCHANGED <<procvars, term, pid, bound, odd>>

(* "daemonize: no": the pid file is neither tested nor written. *)
Foreground(p) ==
  /\ pc[p] = "check" /\ ~Background(p)
  /\ At(p, "initialize")
  /\ UNCHANGED <<procvars, term, pid, bound, odd>>

OpenPid(p) ==
  /\ pc[p] = "open"
  /\ At(p, "write")
  /\ pid' = [l \in Locations |-> IF l \in PidFile(p) THEN Empty ELSE pid[l]]
  /\ UNCHANGED <<procvars, term, bound, odd>>

WritePid(p) ==
  /\ pc[p] = "write"
  /\ At(p, "initialize")
  /\ pid' = [l \in Locations |-> IF l \in PidFile(p) THEN p ELSE pid[l]]
  /\ UNCHANGED <<procvars, term, bound, odd>>

(* The adaptor and the database connection; then the workers are forked. *)
Initialize(p) ==
  /\ pc[p] = "initialize"
  /\ At(p, "bind")
  /\ UNCHANGED <<procvars, term, pid, bound, odd>>

(* The pid file cannot be opened, which is not tested before the write;    *)
(* the adaptor is unknown; or there is no event loop or database.  A pid   *)
(* file that is there stays.                                               *)
StartFails(p) ==
  /\ pc[p] \in {"open", "initialize"}
  /\ At(p, "gone")
  /\ UNCHANGED <<procvars, term, pid, bound, odd>>

(* bindsock(): with the port taken, run() returns at once. *)
Bind(p) ==
  /\ pc[p] = "bind"
  /\ IF \A q \in bound : Listen(q) # Listen(p)
     THEN At(p, "serve") /\ bound' = bound \union {p}
     ELSE At(p, "unlink") /\ UNCHANGED bound
  /\ UNCHANGED <<procvars, term, pid, odd>>

(* Defect: the socket is left open. *)
ServeKeepsSocket(p) ==
  /\ pc[p] = "serve" /\ term[p]
  /\ At(p, "unlink")
  /\ UNCHANGED <<procvars, term, pid, bound, odd>>

(* Server::shutdown() closes the socket and stops the workers. *)
Serve(p) ==
  /\ pc[p] = "serve" /\ term[p]
  /\ At(p, "unlink")
  /\ bound' = bound \ {p}
  /\ UNCHANGED <<procvars, term, pid, odd>>

(* Defect: the pid file is left where it is. *)
UnlinkForgotten(p) ==
  /\ pc[p] = "unlink"
  /\ At(p, "stopped")
  /\ UNCHANGED <<procvars, term, pid, bound, odd>>

(* The pid file is removed, whatever it holds, and by a process in the     *)
(* foreground too, which did not write it.                                 *)
Unlink(p) ==
  /\ pc[p] = "unlink"
  /\ At(p, "stopped")
  /\ pid' = [l \in Locations |-> IF l \in PidFile(p) THEN Nobody ELSE pid[l]]
  /\ odd' = IF Background(p) THEN odd ELSE odd \union PidFile(p)
  /\ UNCHANGED <<procvars, term, bound>>

(* SIGTERM or SIGINT from elsewhere. *)
Terminated(p) ==
  /\ pc[p] \in Up
  /\ At(p, AfterSignal(p))
  /\ term' = [term EXCEPT ![p] = TRUE]
  /\ UNCHANGED <<procvars, pid, bound, odd>>

(* A crash or SIGKILL at any point, during a shutdown too: the kernel      *)
(* frees the port, the pid file stays.                                     *)
Crashes(p) ==
  /\ pc[p] \in Up \union {"check"}
  /\ At(p, "gone")
  /\ bound' = bound \ {p}
  /\ UNCHANGED <<procvars, term, pid, odd>>

-----------------------------------------------------------------------------
Main(p) ==
  \/ CliSetup(p) \/ CliFails(p) \/ Check(p) \/ Foreground(p) \/ OpenPid(p)
  \/ WritePid(p) \/ Initialize(p) \/ Bind(p) \/ Serve(p) \/ Unlink(p)

DaemonNext ==
  \E p \in Procs :
    Main(p) \/ DaemonizeFails(p) \/ StartFails(p) \/ Terminated(p) \/ Crashes(p)

DaemonSpec == DaemonInit /\ [][DaemonNext]_daemonVars

(* A process that has been started is scheduled. *)
DaemonFairSpec ==
  DaemonSpec /\ \A p \in Procs : WF_daemonVars(Serve(p)) /\ WF_daemonVars(Unlink(p))

-----------------------------------------------------------------------------
(* Properties                                                              *)

(* "Process appears to already be running": two daemons with one pid file  *)
(* are up together, however invocations in any directories, with and       *)
(* without -k, crashes, signals and stops follow each other, only if that  *)
(* file was passed by: one daemon wrote it without having tested it, since *)
(* its path is relative, or tested it while another was about to write it, *)
(* or a process in the foreground removed it.                              *)
OneDaemon ==
  \A p, q \in Procs :
    /\ {pc[p], pc[q]} \subseteq Up /\ Background(p) /\ Background(q)
    /\ (PidFile(p) \intersect PidFile(q)) \ odd # {}
    => p = q

(* Under the same conditions the pid file of a daemon names it from the    *)
(* moment it has written it until it has removed it, so that -k and the    *)
(* next start find it.                                                     *)
PidFileNamesDaemon ==
  \A p \in Procs :
    pc[p] \in Up \ Opening /\ Background(p) => \A l \in PidFile(p) \ odd : pid[l] = p

(* -k, SIGTERM and SIGINT: a process that is told to stop while it is up   *)
(* ends; and it ends with no pid file that names it if it gets to the end  *)
(* of main(), which only a signal before Server::run() is ready for it or  *)
(* a crash can keep it from.                                               *)
KillEndsDaemon ==
  \A p \in Procs :
    term[p] ~> \/ pc[p] = "gone"
               \/ pc[p] = "stopped" /\ p \notin Named(PidFile(p))

-----------------------------------------------------------------------------
(* "Process appears to already be running" is what a start is told when    *)
(* there is a daemon with its pid file (message in main): two are never up *)
(* with one pid file.                                                      *)
PidFileExcludes ==
  \A p, q \in Procs :
    /\ {pc[p], pc[q]} \subseteq Up /\ Background(p) /\ Background(q)
    /\ PidFile(p) \intersect PidFile(q) # {}
    => p = q
=============================================================================

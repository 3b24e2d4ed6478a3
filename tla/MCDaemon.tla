------------------------------- MODULE MCDaemon -------------------------------
(* The instance of Daemon for TLC, and Settings on bounded files. *)
EXTENDS Daemon, FiniteSets

CONSTANTS p1, p2

Pair(k, v) == [key |-> k, value |-> v]
Config(list) == Flat(<<[name |-> Env, pairs |-> list]>>)

(* Configurations that differ in what steers main(): where the pid file    *)
(* is, which port to bind and whether to run in the background; the last   *)
(* one does not verify.                                                    *)
MCFiles == {
  Config(<<Pair("port", "4"), Pair("pidfile", "/run/pid")>>),
  Config(<<Pair("listen", "4"), Pair("pidfile", "/srv/logs/workq.pid")>>),
  Config(<<Pair("port", "4"), Pair("daemonize", "no"), Pair("pidfile", "/run/pid")>>),
  Config(<<Pair("port", "4"), Pair("pidfile", "run/pid")>>),
  Config(<<Pair("port", "4")>>),
  Config(<<Pair("port", "0"), Pair("threads", "4")>>)}

(* Two directories; from "/" the relative path is one of the absolute      *)
(* ones, and from "/srv" so is the default of -k.                          *)
MCDirs == {"/", "/srv"}
MCFile(d, path) ==
  CASE path = "run/pid"        -> IF d = "/" THEN "/run/pid" ELSE "/srv/run/pid"
    [] path = "logs/workq.pid" -> IF d = "/" THEN "/logs/workq.pid" ELSE "/srv/logs/workq.pid"
    [] OTHER                   -> path
MCLocations ==
  {"/run/pid", "/srv/run/pid", "/logs/workq.pid", "/srv/logs/workq.pid"}
MCAtoi(v) == IF v \in Positive THEN 4 ELSE 0

(* All files of up to two sections of up to two keys each. *)
MCKeys == {"workers", "host", "threads"}
MCValues == {"4", "0"}
Lists == UNION {[1 .. n -> [key : MCKeys, value : MCValues]] : n \in 0 .. 2}
FlatFiles == UNION {[1 .. n -> [name : {Env, "test"}, pairs : Lists]] : n \in 0 .. 2}

(* g_quark_from_string() gives no string the quark 0. *)
ASSUME QuarkAssumption == NoKey \notin MCKeys \union {Env, "test"}

EveryFileLoaded ==
  \A sections \in FlatFiles, k \in MCKeys, v \in MCValues : LoadedAsSaid(sections, k, v)

EveryListJudgedByLast ==
  \A list \in Lists, newestFirst \in BOOLEAN : JudgedByLast(list, newestFirst)

(* load_from_file(): whatever flat file a process is given, it loads       *)
(* exactly the keys of the section for the environment, with the values    *)
(* given last, whatever other sections there are, in whatever order, empty *)
(* or repeated.                                                            *)
SectionLoaded == \A p \in Procs : pc[p] = "new" => EveryFileLoaded

(* verify(): what it says to a process, whatever list was loaded, is not   *)
(* whether all keys are valid, but whether the last one it visits that is  *)
(* not merely recorded is.                                                 *)
VerifyJudgesLast == \A p \in Procs : pc[p] = "new" => EveryListJudgedByLast
=============================================================================

----------------------------- MODULE DaemonProofs -----------------------------
(***************************************************************************)
(* Proofs about Daemon: what the pid files guarantee for any number of     *)
(* invocations, any configuration files, directories and paths.  What      *)
(* load_from_file() makes of a file plays no part in them.                 *)
(***************************************************************************)
EXTENDS Daemon, TLAPS

(* The daemons: processes in the background whose pid file this is. *)
Daemon(p, l) == pc[p] \in Up /\ Background(p) /\ l \in PidFile(p)

(* What holds of a pid file that was not passed by: at most one daemon is  *)
(* up with it, and the file names it once it has written it.               *)
Alone(l) == \A p, q \in Procs : Daemon(p, l) /\ Daemon(q, l) => p = q
NamesDaemon(l) == \A p \in Procs : Daemon(p, l) /\ pc[p] \notin Opening => pid[l] = p

Guarded(l) == Alone(l) /\ NamesDaemon(l)

(* Only a process in the background opens its pid file. *)
OpeningInv == \A p \in Procs : pc[p] \in Opening => Background(p)

DaemonInv ==
  /\ DaemonTypeOK
  /\ OpeningInv
  /\ \A l \in Locations : l \notin odd => Guarded(l)

LEMMA PidFileType ==
  ASSUME DaemonTypeOK, NEW p \in Procs
  PROVE  PidFile(p) \subseteq Locations /\ PidFileIn(Root, table[p]) \subseteq Locations
BY DaemonAssumption DEF PidFile, DaemonTypeOK

LEMMA DaemonInitInv == DaemonInit => DaemonInv
<1> SUFFICES ASSUME DaemonInit PROVE DaemonInv
  OBVIOUS
<1>1. \A p \in Procs : pc[p] \notin Up
  BY DEF DaemonInit, Up, Starting, Opening
<1>2. DaemonTypeOK
  BY DEF DaemonInit, DaemonTypeOK, Tables, Before
<1> QED BY <1>1, <1>2 DEF DaemonInv, OpeningInv, Guarded, Alone, NamesDaemon, Daemon, Up, Starting

(* Every step keeps the types. *)
LEMMA DaemonTypeStep ==
  ASSUME DaemonTypeOK, [DaemonNext]_daemonVars
  PROVE  DaemonTypeOK'
<1> USE DEF DaemonTypeOK, At, procvars, Before, Up, Starting, Opening, Ended
<1>1. ASSUME NEW p \in Procs, CliSetup(p) PROVE DaemonTypeOK'
  <2>1. PICK f \in Files, check_kill \in BOOLEAN :
          LET list == Load(f)
              named == IF check_kill THEN Named(KillFile(dir[p], list)) ELSE {}
          IN  /\ table' = [table EXCEPT ![p] = list]
              /\ kill' = [kill EXCEPT ![p] = check_kill]
              /\ pc' = [q \in Procs |->
                         IF q = p THEN IF named = {} THEN "check" ELSE "gone"
                         ELSE IF q \in named THEN AfterSignal(q) ELSE pc[q]]
              /\ term' = [q \in Procs |-> term[q] \/ (q \in named /\ pc[q] \in Up)]
    BY <1>1 DEF CliSetup
  <2>2. pc' \in [Procs -> Before \union Up \union Ended]
    BY <2>1 DEF AfterSignal
  <2>3. term' \in [Procs -> BOOLEAN]
    BY <2>1, Zenon
  <2>4. table' \in [Procs -> Tables]
    BY <2>1 DEF Tables
  <2>5. kill' \in [Procs -> BOOLEAN]
    BY <2>1
  <2>6. \A q \in Procs : pc[q] = "serve" => pc'[q] = "serve"
    BY <1>1, <2>1 DEF CliSetup, AfterSignal, Dies
  <2> QED BY <1>1, <2>2, <2>3, <2>4, <2>5, <2>6 DEF CliSetup
<1>2. ASSUME NEW p \in Procs, CliFails(p) \/ DaemonizeFails(p) \/ StartFails(p) \/ Foreground(p)
      PROVE  DaemonTypeOK'
  BY <1>2 DEF CliFails, DaemonizeFails, StartFails, Foreground
<1>3. ASSUME NEW p \in Procs, Check(p) PROVE DaemonTypeOK'
  <2>1. odd' \in SUBSET Locations /\ dir' \in [Procs -> Dirs]
    BY <1>3, PidFileType, DaemonAssumption DEF Check, Daemonized
  <2>2. pc' \in [Procs -> Before \union Up \union Ended]
    BY <1>3 DEF Check
  <2>3. \A q \in Procs : pc[q] = "serve" => pc'[q] = "serve"
    BY <1>3 DEF Check
  <2> QED BY <1>3, <2>1, <2>2, <2>3 DEF Check
<1>4. ASSUME NEW p \in Procs, OpenPid(p) \/ WritePid(p) \/ Unlink(p) PROVE DaemonTypeOK'
  <2>1. pid' \in [Locations -> Procs \union {Nobody, Empty}]
    BY <1>4 DEF OpenPid, WritePid, Unlink
  <2>2. odd' \in SUBSET Locations
    BY <1>4, PidFileType DEF OpenPid, WritePid, Unlink
  <2> QED BY <1>4, <2>1, <2>2 DEF OpenPid, WritePid, Unlink
<1>5. ASSUME NEW p \in Procs, Initialize(p) \/ Bind(p) \/ Serve(p) PROVE DaemonTypeOK'
  BY <1>5 DEF Initialize, Bind, Serve
<1>6. ASSUME NEW p \in Procs, Terminated(p) \/ Crashes(p) PROVE DaemonTypeOK'
  BY <1>6 DEF Terminated, Crashes, AfterSignal, Dies
<1>7. CASE UNCHANGED daemonVars
  BY <1>7 DEF daemonVars
<1> QED BY <1>1, <1>2, <1>3, <1>4, <1>5, <1>6, <1>7 DEF DaemonNext, Main

(* A step after which at most the same processes are up, with the same     *)
(* settings and directories, which takes none from opening its file to     *)
(* serving, keeps the guarantees for a pid file it leaves alone.           *)
LEMMA NobodyComesUp ==
  ASSUME DaemonTypeOK, NEW l \in Locations, Guarded(l), pid'[l] = pid[l],
         \A p \in Procs :
           pc'[p] \in Up => /\ pc[p] \in Up /\ table'[p] = table[p] /\ dir'[p] = dir[p]
                            /\ (pc[p] \in Opening => pc'[p] \in Opening)
  PROVE  Guarded(l)'
<1>1. \A p \in Procs : Daemon(p, l)' => Daemon(p, l)
  BY DEF Daemon, PidFile, Background
<1>2. \A p \in Procs : Daemon(p, l)' /\ pc'[p] \notin Opening => pc[p] \notin Opening
  BY DEF Daemon
<1> QED BY <1>1, <1>2 DEF Guarded, Alone, NamesDaemon

(* What a process that opens its file is, and which others can become one. *)
LEMMA OpeningStep ==
  ASSUME DaemonTypeOK, OpeningInv, [DaemonNext]_daemonVars
  PROVE  OpeningInv'
<1> USE DEF At, procvars, Opening
<1>1. ASSUME NEW p \in Procs, CliSetup(p) PROVE OpeningInv'
  <2>1. \A q \in Procs : pc'[q] \in Opening => q # p /\ pc'[q] = pc[q] /\ table'[q] = table[q]
    BY <1>1 DEF CliSetup, AfterSignal, DaemonTypeOK
  <2> QED BY <2>1 DEF OpeningInv, Background
<1>2. ASSUME NEW p \in Procs, Check(p) PROVE OpeningInv'
  <2>1. \A q \in Procs : pc'[q] \in Opening => q = p \/ pc'[q] = pc[q]
    BY <1>2 DEF Check, DaemonTypeOK
  <2>2. Background(p) /\ UNCHANGED table
    BY <1>2 DEF Check
  <2> QED BY <2>1, <2>2 DEF OpeningInv, Background
<1>3. ASSUME NEW p \in Procs,
             \/ CliFails(p) \/ DaemonizeFails(p) \/ StartFails(p) \/ Foreground(p) \/ OpenPid(p)
             \/ WritePid(p) \/ Initialize(p) \/ Bind(p) \/ Serve(p) \/ Unlink(p)
             \/ Terminated(p) \/ Crashes(p)
      PROVE  OpeningInv'
  <2>1. UNCHANGED table
    BY <1>3 DEF CliFails, DaemonizeFails, StartFails, Foreground, OpenPid, WritePid, Initialize,
                Bind, Serve, Unlink, Terminated, Crashes
  <2>2. \A q \in Procs : pc'[q] \in Opening => pc[q] \in Opening
    BY <1>3 DEF CliFails, DaemonizeFails, StartFails, Foreground, OpenPid, WritePid, Initialize,
                Bind, Serve, Unlink, Terminated, Crashes, AfterSignal, DaemonTypeOK
  <2> QED BY <2>1, <2>2 DEF OpeningInv, Background
<1>4. CASE UNCHANGED daemonVars
  BY <1>4 DEF daemonVars, OpeningInv, Background
<1> QED BY <1>1, <1>2, <1>3, <1>4 DEF DaemonNext, Main

(* Every step keeps the guarantee for a pid file, or passes it by. *)
LEMMA GuardedStep ==
  ASSUME DaemonTypeOK, OpeningInv, [DaemonNext]_daemonVars,
         NEW l \in Locations, l \notin odd => Guarded(l), l \notin odd'
  PROVE  Guarded(l)'
<1>0. odd \subseteq odd'
  BY DEF DaemonNext, Main, CliSetup, CliFails, Check, Daemonized, DaemonizeFails, Foreground,
         OpenPid, WritePid, Initialize, StartFails, Bind, Serve, Unlink, Terminated, Crashes,
         daemonVars
<1>a. Guarded(l)
  BY <1>0
<1> USE <1>a DEF At, procvars, Up, Starting, Opening
<1>1. ASSUME NEW p \in Procs, CliSetup(p) PROVE Guarded(l)'
  <2>1. \A q \in Procs :
          pc'[q] \in Up => q # p /\ pc'[q] = pc[q] /\ table'[q] = table[q]
    BY <1>1 DEF CliSetup, AfterSignal, DaemonTypeOK
  <2>2. UNCHANGED <<dir, pid>>
    BY <1>1 DEF CliSetup
  <2> QED BY <2>1, <2>2, NobodyComesUp
<1>2. ASSUME NEW p \in Procs,
             \/ CliFails(p) \/ DaemonizeFails(p) \/ StartFails(p) \/ Initialize(p) \/ Bind(p)
             \/ Serve(p) \/ Terminated(p) \/ Crashes(p)
      PROVE  Guarded(l)'
  <2>1. UNCHANGED <<table, dir, pid>>
    BY <1>2 DEF CliFails, DaemonizeFails, StartFails, Initialize, Bind, Serve, Terminated, Crashes
  <2>2. \A q \in Procs :
          pc'[q] \in Up => pc[q] \in Up /\ (pc[q] \in Opening => pc'[q] \in Opening)
    BY <1>2 DEF CliFails, DaemonizeFails, StartFails, Initialize, Bind, Serve, Terminated, Crashes,
                AfterSignal, Dies, DaemonTypeOK
  <2> QED BY <2>1, <2>2, NobodyComesUp
<1>3. ASSUME NEW p \in Procs, Check(p) PROVE Guarded(l)'
  <2>1. CASE Named(PidFile(p)) # {}
    <3>1. \A q \in Procs : pc'[q] \in Up => pc[q] \in Up /\ pc'[q] = pc[q]
      BY <1>3, <2>1 DEF Check, DaemonTypeOK
    <3>2. UNCHANGED <<table, dir, pid>>
      BY <1>3, <2>1 DEF Check
    <3> QED BY <3>1, <3>2, NobodyComesUp
  <2>2. CASE Named(PidFile(p)) = {}
    <3>1. /\ pc' = [pc EXCEPT ![p] = "open"] /\ dir' = [dir EXCEPT ![p] = Root]
          /\ UNCHANGED <<table, pid>> /\ Daemonized(p)
      BY <1>3, <2>2 DEF Check, Daemonized
    <3>2. \A q \in Procs : q # p => (Daemon(q, l)' <=> Daemon(q, l)) /\ pc'[q] = pc[q]
      BY <3>1 DEF DaemonTypeOK, Daemon, PidFile, Background
    <3>3. NamesDaemon(l)'
      BY <3>1, <3>2 DEF Guarded, NamesDaemon, DaemonTypeOK
    <3>4. PidFile(p)' = PidFileIn(Root, table[p])
      BY <3>1 DEF PidFile, DaemonTypeOK
    <3>5. CASE l \in PidFileIn(Root, table[p])
      (* l was tested, it was not there, and nobody is about to write it. *)
      <4>1. l \in PidFile(p) /\ ~Overlaps(l)
        BY <3>1, <3>5 DEF Daemonized
      <4>2. pid[l] = Nobody
        BY <2>2, <4>1 DEF Named
      <4>3. \A q \in Procs : ~Daemon(q, l)
        BY <4>1, <4>2, DaemonAssumption DEF Overlaps, Daemon, Guarded, NamesDaemon
      <4> QED BY <3>2, <3>3, <4>3 DEF Guarded, Alone
    <3>6. CASE l \notin PidFileIn(Root, table[p])
      <4>1. ~Daemon(p, l)'
        BY <3>4, <3>6 DEF Daemon
      <4> QED BY <3>2, <3>3, <4>1 DEF Guarded, Alone
    <3> QED BY <3>5, <3>6
  <2> QED BY <2>1, <2>2
<1>4. ASSUME NEW p \in Procs, Foreground(p) PROVE Guarded(l)'
  <2>1. \A q \in Procs : Daemon(q, l)' => Daemon(q, l) /\ pc'[q] = pc[q]
    BY <1>4 DEF Foreground, Daemon, PidFile, Background, DaemonTypeOK
  <2> QED BY <1>4, <2>1 DEF Foreground, Guarded, Alone, NamesDaemon
<1>5. ASSUME NEW p \in Procs, OpenPid(p) \/ WritePid(p) \/ Unlink(p) PROVE Guarded(l)'
  <2>1. UNCHANGED <<table, dir>> /\ pc[p] \in Up
    BY <1>5 DEF OpenPid, WritePid, Unlink
  <2>2. \A q \in Procs : Daemon(q, l)' => Daemon(q, l)
    BY <1>5, <2>1 DEF OpenPid, WritePid, Unlink, Daemon, PidFile, Background, DaemonTypeOK
  <2>3. \A q \in Procs : q # p => pc'[q] = pc[q]
    BY <1>5 DEF OpenPid, WritePid, Unlink, DaemonTypeOK
  <2>4. Alone(l)'
    BY <2>2 DEF Guarded, Alone
  <2>5. CASE l \in PidFile(p)
    (* p is the one daemon with this file. *)
    <3>1. Daemon(p, l)
      BY <1>5, <2>1, <2>5 DEF OpenPid, WritePid, Unlink, Daemon, OpeningInv
    <3>2. \A q \in Procs : Daemon(q, l)' => q = p
      BY <2>2, <3>1 DEF Guarded, Alone
    <3>3. Daemon(p, l)' /\ pc'[p] \notin Opening => pid'[l] = p
      BY <1>5, <2>5 DEF OpenPid, WritePid, Unlink, Daemon, DaemonTypeOK
    <3> QED BY <2>4, <3>2, <3>3 DEF Guarded, NamesDaemon
  <2>6. CASE l \notin PidFile(p)
    <3>1. pid'[l] = pid[l] /\ ~Daemon(p, l)
      BY <1>5, <2>6 DEF OpenPid, WritePid, Unlink, Daemon
    <3> QED BY <2>2, <2>3, <2>4, <3>1 DEF Guarded, NamesDaemon
  <2> QED BY <2>5, <2>6
<1>6. CASE UNCHANGED daemonVars
  BY <1>6, NobodyComesUp DEF daemonVars
<1> QED BY <1>1, <1>2, <1>3, <1>4, <1>5, <1>6 DEF DaemonNext, Main

LEMMA DaemonInvAlways == DaemonSpec => []DaemonInv
<1>1. DaemonInv /\ [DaemonNext]_daemonVars => DaemonInv'
  <2> SUFFICES ASSUME DaemonInv, [DaemonNext]_daemonVars PROVE DaemonInv'
    OBVIOUS
  <2>1. DaemonTypeOK'
    BY DaemonTypeStep DEF DaemonInv
  <2>2. OpeningInv'
    BY OpeningStep DEF DaemonInv
  <2>3. ASSUME NEW l \in Locations, l \notin odd' PROVE Guarded(l)'
    BY <2>3, GuardedStep DEF DaemonInv
  <2> QED BY <2>1, <2>2, <2>3 DEF DaemonInv
<1> QED BY <1>1, DaemonInitInv, PTL DEF DaemonSpec

(* main(): the variables of the model always have their types. *)
THEOREM DaemonTypeCorrect == DaemonSpec => []DaemonTypeOK
BY DaemonInvAlways, PTL DEF DaemonInv

(* main(): for any number of invocations, any configurations, directories  *)
(* and paths, two daemons with one pid file are up together only after     *)
(* that file was passed by.                                                *)
THEOREM OneDaemonAlways == DaemonSpec => []OneDaemon
<1>1. DaemonInv => OneDaemon
  <2> SUFFICES ASSUME DaemonInv, NEW p \in Procs, NEW q \in Procs,
                      {pc[p], pc[q]} \subseteq Up, Background(p), Background(q),
                      (PidFile(p) \intersect PidFile(q)) \ odd # {}
               PROVE  p = q
    BY DEF OneDaemon
  <2>1. PICK l \in PidFile(p) \intersect PidFile(q) : l \notin odd
    OBVIOUS
  <2>2. l \in Locations
    BY <2>1, PidFileType DEF DaemonInv
  <2> QED BY <2>1, <2>2 DEF DaemonInv, Guarded, Alone, Daemon
<1> QED BY <1>1, DaemonInvAlways, PTL

(* main(): under the same condition the pid file of a daemon names it, so  *)
(* that -k signals it and a second start finds it.                         *)
THEOREM PidFileAlways == DaemonSpec => []PidFileNamesDaemon
<1>1. DaemonInv => PidFileNamesDaemon
  <2> SUFFICES ASSUME DaemonInv, NEW p \in Procs, pc[p] \in Up \ Opening, Background(p),
                      NEW l \in PidFile(p) \ odd
               PROVE  pid[l] = p
    BY DEF PidFileNamesDaemon
  <2>1. l \in Locations
    BY PidFileType DEF DaemonInv
  <2> QED BY <2>1 DEF DaemonInv, Guarded, NamesDaemon, Daemon
<1> QED BY <1>1, DaemonInvAlways, PTL
=============================================================================

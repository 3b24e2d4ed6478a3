\* Two invocations of workqd with any of six configurations, in two directories.
SPECIFICATION DaemonFairSpec
CONSTANTS
  p1 = p1
  p2 = p2
  Nobody = Nobody
  Empty = Empty
  NoKey = NoKey
  Env = "development"
  Positive = {"4"}
  Existing = {"/run/pid"}
  InDir = {"/run/pid", "/srv/logs/workq.pid", "run/pid"}
  Procs = {p1, p2}
  Files <- MCFiles
  Dirs <- MCDirs
  Root = "/"
  Locations <- MCLocations
  File <- MCFile
  Atoi <- MCAtoi
INVARIANTS
  DaemonTypeOK
  OneDaemon
  PidFileNamesDaemon
  SectionLoaded
  VerifyJudgesLast
PROPERTIES
  KillEndsDaemon
CHECK_DEADLOCK FALSE

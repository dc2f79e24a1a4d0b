CONSTANTS
  NoTask = NoTask
  Tasks = {t1, t2, t3}
  Threads = {}
  Yielders = {}
  SelfResumers = {t1}
  CallbackTargets = {t1, t2}
  ThreadTargets = {}
  Respawned = {}
  MaxRefc = 3
  ExitFrom = {"task","callback","main"}
SPECIFICATION Spec
INVARIANTS TypeOK ReadyListSound RunsLiveTask RefcExact NeverAborts
PROPERTIES LifeCycle

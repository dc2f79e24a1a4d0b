CONSTANTS
  NoTask = NoTask
  Tasks = {t1}
  Threads = {}
  Yielders = {t1}
  SelfResumers = {}
  CallbackTargets = {t1}
  ThreadTargets = {}
  Respawned = {}
  MaxRefc = 3
  ExitFrom = {}
SPECIFICATION Spec
INVARIANTS NeverAborts

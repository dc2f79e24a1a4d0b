CONSTANTS
  NoTask = NoTask
  Tasks = {t1, t2}
  Threads = {h1, h2}
  Yielders = {t2}
  SelfResumers = {t1}
  CallbackTargets = {t1}
  ThreadTargets = {t1}
  Respawned = {t2}
  MaxRefc = 3
  ExitFrom = {}
SPECIFICATION FairSpec
INVARIANT NoStrandedReady
PROPERTY ReadyListDrains

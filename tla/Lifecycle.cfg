\* One user's engine: safety and winding down.
CONSTANTS
  Accounts = {a1, a2}
  Swarms = {g1, g2}
  Tasks = {t1, t2, t3}
  NoSwarm = NoSwarm
  NoTask = NoTask
SPECIFICATION Spec
INVARIANTS KnownLoopIsCurrent MarkerIsOfAStart
PROPERTIES StoppedSwarmWindsDown

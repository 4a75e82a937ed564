SPECIFICATION Spec
CONSTANTS
  mosdns = mosdns
  mihomo = mihomo
  Services = {mosdns}
  Order <- OneService
  Pids = {p1, p2}
  Reqs = {r1, r2}
  None = None
  MaxBoots = 2
  PidWriteMayFail = TRUE
CHECK_DEADLOCK FALSE
SYMMETRY Symmetry
INVARIANTS IInv StopCanReach OneInstance
PROPERTIES StopMeansStopped RestoreActsOnItsLook OnlyLateOutlive

SPECIFICATION FairSpec
CONSTANTS
  mosdns = mosdns
  mihomo = mihomo
  Services = {mosdns}
  Order <- OneService
  Pids = {p1, p2}
  Reqs = {r1, r2}
  None = None
  MaxBoots = 1
  PidWriteMayFail = FALSE
CHECK_DEADLOCK FALSE
PROPERTIES RequestsReturn StoppedChildDies

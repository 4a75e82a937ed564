SPECIFICATION Spec
CONSTANTS
  mosdns = mosdns
  mihomo = mihomo
  Services = {mosdns, mihomo}
  Order <- BothServices
  Pids = {p1, p2}
  Reqs = {r1, r2}
  None = None
  MaxBoots = 1
  PidWriteMayFail = FALSE
CHECK_DEADLOCK FALSE
PROPERTY ShutdownStopsChildren

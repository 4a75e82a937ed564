SPECIFICATION FlowsSpec
CONSTANTS
  NoUser = "none"
  t1 = t1
  t2 = t2
  s1 = s1
  s2 = s2
  Tabs = {t1, t2}
  Slots = {s1, s2}
  SlotsOf <- MCSlotsOf
  Names = {"u", "v"}
  MaxTokens = 2
  Comps = {"mosdns", "mihomo"}
  Flows = {s1, s2}
  Mistakes = {2}
  HostStates = {"occupied", "blocked"}
  MaxChecks = 1
  ProxyNodes = {t1, t2}
  ProxyModes = {"rule", "global"}
  ProxySlots = {s1, s2}
  ProxyFaults = 1
  ProxyOthers = 1
INVARIANTS FlowsTypeOK SessionAgrees FlowsAlone SendsValidated TicksAreTrue
PROPERTIES LogoutSpreads WizardReturns PageCatchesUp
CHECK_DEADLOCK FALSE

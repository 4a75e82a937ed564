SPECIFICATION ModeSpec
CONSTANTS
  Paths = {p1, p2}
  Contents = {a, b, c}
  Absent = Absent
  Torn = Torn
  Reqs = {r1, r2}
  Ops <- AllOps
  HistoryMayFail = TRUE
SYMMETRY Symmetry
INVARIANTS IInv VersionsKept
PROPERTY StoreSpec

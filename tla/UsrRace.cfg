SPECIFICATION Spec
CONSTANTS
  Users = {admin, bob}
  Default = admin
  Others = {"operator"}
  Reqs = {r1, r2}
SYMMETRY Symmetry
INVARIANTS IInv AdminRemains
PROPERTY DisableHolds

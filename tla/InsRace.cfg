SPECIFICATION SceneSpec
CONSTANTS
  Requests = {r1, r2}
  Assets = {v1, v2}
  Uploads = {u}
  None = None
  Inodes = {i1, i2}
  Chunks = 1
  Kinds <- AllKinds
  MayCrash = TRUE
SYMMETRY Symmetry
INVARIANTS IInv ProvenanceHonest UncrossedIsVerified CompletedNames UncrossedRunsNew

SPECIFICATION Spec
CONSTANTS
  Requests = {r1, r2}
  Assets = {v1, v2}
  Uploads = {u}
  None = None
  Inodes = {i1, i2}
  Chunks = 2
  Kinds = {"run", "upload", "check"}
  MayCrash = FALSE
INVARIANT ExtractedIsVerified

------------------------ MODULE ComponentInstallProofs ------------------------
(***************************************************************************)
(* Theorems of ComponentInstall.  ProvenanceHonest follows from an         *)
(* invariant that says of what requests carry what it says of the row: a   *)
(* claim read before another request's write is written back after it.     *)
(* What installs promise follows from one that says, of each request no    *)
(* other has crossed, what it holds, then what it placed, then what it     *)
(* left running; it says nothing of the others, however many overlap.      *)
(***************************************************************************)
EXTENDS ComponentInstall, TLAPS

USE ChunksAssumption, KindsAssumption, NoneAssumption

HonestRow(w, known) == HonestClaim(w.claim, known) /\ HonestInst(w.inst, w.instSrc, known)

LEMMA IdleType == Idle \in Request /\ HonestRequest(Idle, hashed) /\ HonestRequest(Idle, hashed')
<1>1. 1 \in 1 .. Chunks + 1
  BY SMT
<1>2. Idle \in Request
  BY <1>1 DEF Idle, Request, Claim, Digest, Sources, Unverified, AllKinds
<1> QED
  BY <1>2 DEF Idle, HonestRequest, HonestClaim, HonestInst, Unverified

\* Histories only hold requests.
LEMMA CrossedTypes ==
  ASSUME TypeOK, NEW r \in Requests
  PROVE  Touched(r) \in SUBSET Requests /\ Overwritten(r) \in SUBSET Requests
BY DEF TypeOK, Touched, Overwritten, Placed

LEMMA ClaimTypes ==
  ASSUME NEW d \in Digest, NEW s \in Sources
  PROVE  Unverified(d, s) \in Claim /\ Verified(d) \in Claim
BY DEF Unverified, Verified, Claim, Digest, Sources

\* A request that changes itself keeps the others' types and honesty.
LEMMA BecomeOne ==
  ASSUME TypeOK, CarriesHonest, hashed \subseteq hashed',
         NEW r \in Requests, NEW q \in Request, Become(r, q), HonestRequest(q, hashed')
  PROVE  req' \in [Requests -> Request] /\ CarriesHonest'
<1>1. req' \in [Requests -> Request]
  BY DEF TypeOK, Become
<1>2. ASSUME NEW p \in Requests PROVE HonestRequest(req'[p], hashed')
  <2>1. CASE p = r
    BY <2>1 DEF Become, TypeOK
  <2>2. CASE p # r
    <3>1. HonestRequest(req[p], hashed) /\ req'[p] = req[p]
      BY <2>2 DEF Become, TypeOK, CarriesHonest
    <3> QED BY <3>1 DEF HonestRequest, HonestClaim, HonestInst
  <2> QED BY <2>1, <2>2
<1> QED BY <1>1, <1>2 DEF CarriesHonest

\* The row stays honest when nobody writes it.
LEMMA RowKept ==
  ASSUME ProvenanceHonest, hashed \subseteq hashed', row' = row
  PROVE  ProvenanceHonest'
BY DEF ProvenanceHonest, HonestClaim, HonestInst

\* A write of the row that is honest, whoever made it.
LEMMA RowWritten ==
  ASSUME NEW w \in Row, row' = w, HonestRow(w, hashed')
  PROVE  row' \in Row /\ ProvenanceHonest'
BY DEF ProvenanceHonest, HonestRow

\* The progress callback writes what its request claims.
LEMMA EmitKeeps ==
  ASSUME TypeOK, ProvenanceHonest, hashed \subseteq hashed', NEW r \in Requests,
         NEW s \in {"running", "skipped", "completed"}, NEW c \in Claim, Emit(r, s, c),
         HonestClaim(c, hashed')
  PROVE  row' \in Row /\ ProvenanceHonest'
<1>1. CASE Is(r, "run")
  <2> DEFINE w == [row EXCEPT !.status = s, !.claim = c]
  <2>1. row' = w /\ w \in Row
    BY <1>1 DEF Emit, TypeOK, Row
  <2>2. w.claim = c /\ w.inst = row.inst /\ w.instSrc = row.instSrc
    BY DEF TypeOK, Row
  <2>3. HonestRow(w, hashed')
    BY <2>2 DEF HonestRow, ProvenanceHonest, HonestClaim, HonestInst
  <2> HIDE DEF w
  <2> QED BY <2>1, <2>3, RowWritten
<1>2. CASE ~ Is(r, "run")
  BY <1>2, RowKept DEF Emit, TypeOK
<1> QED BY <1>1, <1>2

\* A change of status alone.
LEMMA StatusKeeps ==
  ASSUME TypeOK, ProvenanceHonest, hashed' = hashed,
         row' = [row EXCEPT !.status = "failed"]
  PROVE  row' \in Row /\ ProvenanceHonest'
<1>1. row' \in Row
  BY DEF TypeOK, Row
<1>2. row'.claim = row.claim /\ row'.inst = row.inst /\ row'.instSrc = row.instSrc
  BY DEF TypeOK, Row
<1> QED BY <1>1, <1>2 DEF ProvenanceHonest, HonestClaim, HonestInst

-----------------------------------------------------------------------------
(* The steps of a request.                                                 *)

LEMMA BeginRunStep ==
  ASSUME IInv, NEW r \in Requests, BeginRun(r)
  PROVE  IInv'
<1> USE DEF IInv
<1> DEFINE q == [Idle EXCEPT !.pc = "announce", !.kind = "run",
                             !.claim = Unverified(row.claim.dl, row.claim.src)]
<1>1. row.claim.dl \in Digest /\ row.claim.src \in Sources
  BY DEF TypeOK, Row, Claim
<1>2. q \in Request
  BY <1>1, IdleType, ClaimTypes DEF Request, AllKinds
<1>3. HonestRequest(q, hashed')
  BY DEF Idle, HonestRequest, HonestClaim, HonestInst, Unverified
<1>4. Become(r, q) /\ hashed' = hashed /\ row' = row
  BY DEF BeginRun
<1> HIDE DEF q
<1>5. req' \in [Requests -> Request] /\ CarriesHonest'
  BY <1>2, <1>3, <1>4, BecomeOne
<1>6. ProvenanceHonest'
  BY <1>4, RowKept
<1> QED BY <1>5, <1>6 DEF BeginRun, TypeOK, files, history

LEMMA AnnounceStep ==
  ASSUME IInv, NEW r \in Requests, Announce(r)
  PROVE  IInv'
<1> USE DEF IInv
<1>1. PICK claim \in {Unverified(remote, "github"), Unverified(None, "none"), req[r].claim} :
        /\ row' = [row EXCEPT !.status = "running", !.claim = claim]
        /\ Become(r, [req[r] EXCEPT !.pc = "fetch", !.claim = claim, !.was = svc # None])
  BY DEF Announce
<1> DEFINE q == [req[r] EXCEPT !.pc = "fetch", !.claim = claim, !.was = svc # None]
           w == [row EXCEPT !.status = "running", !.claim = claim]
<1>2. req[r] \in Request /\ HonestRequest(req[r], hashed) /\ hashed' = hashed
  BY DEF TypeOK, CarriesHonest, Announce
<1>3. claim \in Claim
  <2>1. remote \in Digest /\ None \in Digest /\ "github" \in Sources /\ "none" \in Sources
    BY DEF TypeOK, Digest, Sources
  <2> QED BY <1>2, <2>1, ClaimTypes DEF Request
<1>4. HonestClaim(claim, hashed') /\ (claim.ver # None => claim.verified \/ claim = req[r].claim)
  BY <1>2 DEF HonestRequest, HonestClaim, Unverified
<1>5. (svc # None) \in BOOLEAN
  OBVIOUS
<1>6. q \in Request
  BY <1>2, <1>3, <1>5 DEF Request
<1>7. q.claim = claim /\ q.inst = req[r].inst /\ q.instSrc = req[r].instSrc /\ q.kind = req[r].kind
  BY <1>2 DEF Request
<1>8. HonestRequest(q, hashed')
  BY <1>2, <1>4, <1>7 DEF HonestRequest
<1>9. w \in Row /\ w.claim = claim /\ w.inst = row.inst /\ w.instSrc = row.instSrc
  BY <1>3 DEF TypeOK, Row
<1>10. HonestRow(w, hashed')
  BY <1>2, <1>4, <1>9 DEF HonestRow, ProvenanceHonest
<1>11. Become(r, q) /\ row' = w
  BY <1>1
<1> HIDE DEF q, w
<1>12. req' \in [Requests -> Request] /\ CarriesHonest'
  BY <1>2, <1>6, <1>8, <1>11, BecomeOne
<1>13. row' \in Row /\ ProvenanceHonest'
  BY <1>9, <1>10, <1>11, RowWritten
<1> QED BY <1>12, <1>13 DEF Announce, TypeOK, files, history

LEMMA BeginStreamStep ==
  ASSUME IInv, NEW r \in Requests, BeginStream(r)
  PROVE  IInv'
<1> USE DEF IInv
<1> DEFINE q == [Idle EXCEPT !.pc = "fetch", !.kind = "stream"]
<1>1. q \in Request /\ HonestRequest(q, hashed')
  BY IdleType DEF Request, AllKinds, Idle, HonestRequest, HonestClaim, HonestInst, Unverified
<1>2. Become(r, q) /\ hashed' = hashed /\ row' = row
  BY DEF BeginStream
<1> HIDE DEF q
<1>3. req' \in [Requests -> Request] /\ CarriesHonest'
  BY <1>1, <1>2, BecomeOne
<1>4. ProvenanceHonest'
  BY <1>2, RowKept
<1> QED BY <1>3, <1>4 DEF BeginStream, TypeOK, files, history

\* A request keeps its claim and moves on.
LEMMA MovesOn ==
  ASSUME IInv, NEW r \in Requests, NEW q \in Request, Become(r, q), hashed' = hashed,
         q.claim = req[r].claim, q.inst = req[r].inst, q.instSrc = req[r].instSrc,
         q.kind = req[r].kind
  PROVE  req' \in [Requests -> Request] /\ CarriesHonest'
<1>1. HonestRequest(q, hashed')
  BY DEF IInv, CarriesHonest, HonestRequest
<1> QED BY <1>1, BecomeOne DEF IInv

\* The callback emits what an honest request claims.
LEMMA EmitsClaim ==
  ASSUME IInv, NEW r \in Requests, hashed' = hashed, NEW s \in {"running", "skipped", "completed"},
         Emit(r, s, req[r].claim)
  PROVE  row' \in Row /\ ProvenanceHonest'
<1>1. req[r].claim \in Claim /\ HonestClaim(req[r].claim, hashed')
  BY DEF IInv, TypeOK, Request, CarriesHonest, HonestRequest
<1> QED BY <1>1, EmitKeeps DEF IInv

LEMMA FetchStep ==
  ASSUME IInv, NEW r \in Requests, FetchAsset(r)
  PROVE  IInv'
<1>0. req[r] \in Request /\ remote \in Assets
  BY DEF IInv, TypeOK
<1> DEFINE q == [req[r] EXCEPT !.pc = "create", !.want = remote]
<1>1. q \in Request /\ q.claim = req[r].claim /\ q.inst = req[r].inst
        /\ q.instSrc = req[r].instSrc /\ q.kind = req[r].kind
  BY <1>0 DEF Request, Digest
<1>2. Become(r, q) /\ hashed' = hashed /\ Emit(r, "running", req[r].claim)
  BY DEF FetchAsset
<1> HIDE DEF q
<1>3. req' \in [Requests -> Request] /\ CarriesHonest'
  BY <1>1, <1>2, MovesOn
<1>4. row' \in Row /\ ProvenanceHonest'
  BY <1>2, EmitsClaim
<1> QED BY <1>3, <1>4, CrossedTypes DEF FetchAsset, IInv, TypeOK, files, history

LEMMA CreateStep ==
  ASSUME IInv, NEW r \in Requests, CreateFile(r)
  PROVE  IInv'
<1>0. req[r] \in Request /\ remote \in Assets
  BY DEF IInv, TypeOK
<1>1. PICK i \in Inodes, a \in Assets :
        /\ path' = i
        /\ disk' = [disk EXCEPT ![i] = Empty]
        /\ Become(r, [req[r] EXCEPT !.pc = "fill", !.fd = i, !.served = a])
  BY DEF CreateFile
<1> DEFINE q == [req[r] EXCEPT !.pc = "fill", !.fd = i, !.served = a]
<1>2. q \in Request /\ q.claim = req[r].claim /\ q.inst = req[r].inst
        /\ q.instSrc = req[r].instSrc /\ q.kind = req[r].kind
  BY <1>0 DEF Request, Digest
<1>3. Become(r, q) /\ hashed' = hashed /\ row' = row
  BY <1>1 DEF CreateFile
<1> HIDE DEF q
<1>4. req' \in [Requests -> Request] /\ CarriesHonest'
  BY <1>2, <1>3, MovesOn
<1>5. ProvenanceHonest'
  BY <1>3, RowKept DEF IInv
<1>6. disk' \in [Inodes -> [Piece -> Digest]]
  BY <1>1 DEF IInv, TypeOK, Empty, Digest
<1> QED BY <1>1, <1>3, <1>4, <1>5, <1>6, CrossedTypes DEF CreateFile, IInv, TypeOK, files, history

LEMMA FillStep ==
  ASSUME IInv, NEW r \in Requests, FillFile(r)
  PROVE  IInv'
<1>0. req[r] \in Request /\ remote \in Assets
  BY DEF IInv, TypeOK
<1> DEFINE q == [req[r] EXCEPT !.at = @ + 1]
<1>1. req[r].at + 1 \in 1 .. Chunks + 1
  BY DEF FillFile, Piece
<1>2. q \in Request /\ q.claim = req[r].claim /\ q.inst = req[r].inst
        /\ q.instSrc = req[r].instSrc /\ q.kind = req[r].kind
  BY <1>0, <1>1 DEF Request
<1>3. Become(r, q) /\ hashed' = hashed /\ Emit(r, "running", req[r].claim)
  BY DEF FillFile
<1> HIDE DEF q
<1>4. req' \in [Requests -> Request] /\ CarriesHonest'
  BY <1>2, <1>3, MovesOn
<1>5. row' \in Row /\ ProvenanceHonest'
  BY <1>3, EmitsClaim
<1>6. disk' \in [Inodes -> [Piece -> Digest]]
  <2>1. req[r].served \in Digest
    BY <1>0 DEF Request
  <2> QED BY <2>1 DEF FillFile, IInv, TypeOK
<1> QED BY <1>4, <1>5, <1>6, CrossedTypes DEF FillFile, IInv, TypeOK, files, history

LEMMA CloseStep ==
  ASSUME IInv, NEW r \in Requests, CloseFile(r)
  PROVE  IInv'
<1>0. req[r] \in Request /\ remote \in Assets
  BY DEF IInv, TypeOK
<1> DEFINE q == [req[r] EXCEPT !.pc = "verify", !.fd = None]
<1>1. q \in Request /\ q.claim = req[r].claim /\ q.inst = req[r].inst
        /\ q.instSrc = req[r].instSrc /\ q.kind = req[r].kind
  BY <1>0 DEF Request
<1>2. Become(r, q) /\ hashed' = hashed /\ row' = row
  BY DEF CloseFile
<1> HIDE DEF q
<1>3. req' \in [Requests -> Request] /\ CarriesHonest'
  BY <1>1, <1>2, MovesOn
<1>4. ProvenanceHonest'
  BY <1>2, RowKept DEF IInv
<1> QED BY <1>3, <1>4 DEF CloseFile, IInv, TypeOK, files, history

LEMMA VerifyStep ==
  ASSUME IInv, NEW r \in Requests, VerifyFile(r)
  PROVE  IInv'
<1> USE DEF IInv
<1> DEFINE d == req[r].want
           q == [req[r] EXCEPT !.pc = "extract", !.claim = Verified(d)]
<1>1. req[r] \in Request /\ HonestRequest(req[r], hashed)
  BY DEF TypeOK, CarriesHonest
<1>2. d \in Assets /\ d \in Digest /\ Verified(d) \in Claim
  BY ClaimTypes DEF VerifyFile, Digest, Sources
<1>3. q \in Request
  BY <1>1, <1>2 DEF Request
<1>4. q.claim = Verified(d) /\ q.inst = req[r].inst /\ q.instSrc = req[r].instSrc
  BY <1>1 DEF Request
<1>5. hashed' = hashed \cup {d} /\ Become(r, q) /\ Emit(r, "running", Verified(d))
  BY DEF VerifyFile
<1>6. HonestClaim(Verified(d), hashed')
  BY <1>5 DEF HonestClaim, Verified
<1>7. HonestRequest(q, hashed')
  BY <1>1, <1>4, <1>5, <1>6 DEF HonestRequest, HonestInst, Verified
<1> HIDE DEF q, d
<1>8. req' \in [Requests -> Request] /\ CarriesHonest'
  BY <1>3, <1>5, <1>7, BecomeOne
<1>9. row' \in Row /\ ProvenanceHonest'
  BY <1>2, <1>5, <1>6, EmitKeeps
<1> QED BY <1>2, <1>5, <1>8, <1>9 DEF VerifyFile, TypeOK, files, history

LEMMA ExtractStep ==
  ASSUME IInv, NEW r \in Requests, ExtractFile(r)
  PROVE  IInv'
<1>0. req[r] \in Request
  BY DEF IInv, TypeOK
<1>1. PICK a \in Assets : Become(r, [req[r] EXCEPT !.pc = "place", !.got = a])
  BY DEF ExtractFile
<1> DEFINE q == [req[r] EXCEPT !.pc = "place", !.got = a]
<1>2. q \in Request /\ q.claim = req[r].claim /\ q.inst = req[r].inst
        /\ q.instSrc = req[r].instSrc /\ q.kind = req[r].kind
  BY <1>0 DEF Request, Binaries
<1>3. Become(r, q) /\ hashed' = hashed /\ row' = row
  BY <1>1 DEF ExtractFile
<1> HIDE DEF q
<1>4. req' \in [Requests -> Request] /\ CarriesHonest'
  BY <1>2, <1>3, MovesOn
<1>5. ProvenanceHonest'
  BY <1>3, RowKept DEF IInv
<1> QED BY <1>3, <1>4, <1>5, CrossedTypes DEF ExtractFile, IInv, TypeOK, files, history

\* The request is answered, or goes on to another step.
LEMMA Answered ==
  ASSUME IInv, NEW r \in Requests, hashed' = hashed, Become(r, Idle)
  PROVE  req' \in [Requests -> Request] /\ CarriesHonest'
BY IdleType, BecomeOne DEF IInv

LEMMA GoesOn ==
  ASSUME IInv, NEW r \in Requests, hashed' = hashed,
         NEW pc \in {"restart", "finish"}, Go(r, pc)
  PROVE  req' \in [Requests -> Request] /\ CarriesHonest'
<1> DEFINE q == [req[r] EXCEPT !.pc = pc]
<1>1. req[r] \in Request
  BY DEF IInv, TypeOK
<1>2. q \in Request /\ q.claim = req[r].claim /\ q.inst = req[r].inst
        /\ q.instSrc = req[r].instSrc /\ q.kind = req[r].kind
  BY <1>1 DEF Request
<1>3. Become(r, q)
  BY DEF Go
<1> HIDE DEF q
<1> QED BY <1>2, <1>3, MovesOn

LEMMA EndsInstall ==
  ASSUME IInv, NEW r \in Requests, hashed' = hashed, EndInstall(r)
  PROVE  req' \in [Requests -> Request] /\ CarriesHonest'
<1>1. CASE Is(r, "stream")
  BY <1>1, Answered DEF EndInstall
<1>2. CASE ~ Is(r, "stream")
  BY <1>2, GoesOn DEF EndInstall
<1> QED BY <1>1, <1>2

LEMMA SkipStep ==
  ASSUME IInv, NEW r \in Requests, SkipAsset(r)
  PROVE  IInv'
<1>1. req' \in [Requests -> Request] /\ CarriesHonest'
  BY EndsInstall DEF SkipAsset
<1>2. row' \in Row /\ ProvenanceHonest'
  BY EmitsClaim DEF SkipAsset
<1> QED BY <1>1, <1>2 DEF SkipAsset, IInv, TypeOK, files, history

LEMMA PlaceDownloadStep ==
  ASSUME IInv, NEW r \in Requests, PlaceDownload(r)
  PROVE  IInv'
<1>1. req[r].got \in Binaries \cup {None}
  BY DEF IInv, TypeOK, Request
<1>2. req' \in [Requests -> Request] /\ CarriesHonest'
  BY EndsInstall DEF PlaceDownload
<1>3. row' \in Row /\ ProvenanceHonest'
  BY EmitsClaim DEF PlaceDownload
<1> QED BY <1>1, <1>2, <1>3, CrossedTypes DEF PlaceDownload, IInv, TypeOK, files, history

LEMMA FailsStep ==
  ASSUME IInv, NEW r \in Requests, InstallFails(r)
  PROVE  IInv'
<1>1. req' \in [Requests -> Request] /\ CarriesHonest'
  BY Answered DEF InstallFails
<1>2. row' \in Row /\ ProvenanceHonest'
  <2>1. CASE row' = row
    BY <2>1, RowKept DEF InstallFails, IInv, TypeOK
  <2>2. CASE row' = [row EXCEPT !.status = "failed"]
    BY <2>2, StatusKeeps DEF InstallFails, IInv
  <2> QED BY <2>1, <2>2 DEF InstallFails
<1> QED BY <1>1, <1>2, CrossedTypes DEF InstallFails, IInv, TypeOK, files, history

LEMMA RestartStep ==
  ASSUME IInv, NEW r \in Requests, RestartService(r) \/ RestartFails(r)
  PROVE  IInv'
<1>1. CASE RestartService(r)
  <2>1. req' \in [Requests -> Request] /\ CarriesHonest'
    BY <1>1, GoesOn DEF RestartService
  <2>2. ProvenanceHonest'
    BY <1>1, RowKept DEF RestartService, IInv
  <2> QED BY <1>1, <2>1, <2>2 DEF RestartService, IInv, TypeOK, files, history
<1>2. CASE RestartFails(r)
  <2>1. req' \in [Requests -> Request] /\ CarriesHonest'
    BY <1>2, GoesOn, Answered DEF RestartFails
  <2>2. row' \in Row /\ ProvenanceHonest'
    <3>1. CASE row' = row
      BY <1>2, <3>1, RowKept DEF RestartFails, IInv, TypeOK
    <3>2. CASE row' = [row EXCEPT !.status = "failed"]
      BY <1>2, <3>2, StatusKeeps DEF RestartFails, IInv
    <3> QED BY <1>2, <3>1, <3>2 DEF RestartFails
  <2> QED BY <1>2, <2>1, <2>2 DEF RestartFails, IInv, TypeOK, files, history
<1> QED BY <1>1, <1>2

LEMMA FinishRunStep ==
  ASSUME IInv, NEW r \in Requests, FinishRun(r)
  PROVE  IInv'
<1> DEFINE c == req[r].claim
           w == [status |-> "completed", claim |-> c, inst |-> c.ver, instSrc |-> c.src]
<1>1. req[r] \in Request /\ HonestRequest(req[r], hashed) /\ hashed' = hashed
  BY DEF IInv, TypeOK, CarriesHonest, FinishRun
<1>2. c \in Claim /\ c.ver \in Digest /\ c.src \in Sources
  BY <1>1 DEF Request, Claim
<1>3. w \in Row
  BY <1>2 DEF Row
<1>4. HonestRow(w, hashed')
  BY <1>1 DEF HonestRow, HonestRequest, HonestClaim, HonestInst, FinishRun, Is
<1>5. row' = w
  BY DEF FinishRun
<1> HIDE DEF w
<1>6. row' \in Row /\ ProvenanceHonest'
  BY <1>3, <1>4, <1>5, RowWritten
<1>7. req' \in [Requests -> Request] /\ CarriesHonest'
  BY <1>1, Answered DEF FinishRun
<1> QED BY <1>6, <1>7 DEF FinishRun, IInv, TypeOK, files, history

LEMMA BeginUploadStep ==
  ASSUME IInv, NEW r \in Requests, NEW u \in Uploads, BeginUpload(r, u)
  PROVE  IInv'
<1> DEFINE c == Unverified(None, "local")
           w == [row EXCEPT !.status = "running", !.claim = c]
           q == [Idle EXCEPT !.pc = "place", !.kind = "upload", !.got = u]
<1>1. c \in Claim
  BY ClaimTypes DEF Digest, Sources
<1>2. w \in Row /\ w.claim = c /\ w.inst = row.inst /\ w.instSrc = row.instSrc
  BY <1>1 DEF IInv, TypeOK, Row
<1>3. row' = w /\ Become(r, q) /\ hashed' = hashed
  BY DEF BeginUpload
<1>4. HonestRow(w, hashed')
  BY <1>2, <1>3 DEF HonestRow, IInv, ProvenanceHonest, HonestClaim, Unverified
<1>5. q \in Request /\ HonestRequest(q, hashed')
  BY IdleType DEF Request, AllKinds, Binaries, Idle, HonestRequest, HonestClaim, HonestInst, Unverified
<1> HIDE DEF w, q
<1>6. row' \in Row /\ ProvenanceHonest'
  BY <1>2, <1>3, <1>4, RowWritten
<1>7. req' \in [Requests -> Request] /\ CarriesHonest'
  BY <1>3, <1>5, BecomeOne DEF IInv
<1> QED BY <1>6, <1>7 DEF BeginUpload, IInv, TypeOK, files, history

LEMMA PlaceUploadStep ==
  ASSUME IInv, NEW r \in Requests, PlaceUpload(r)
  PROVE  IInv'
<1>1. req[r].got \in Binaries \cup {None}
  BY DEF IInv, TypeOK, Request
<1>2. req' \in [Requests -> Request] /\ CarriesHonest'
  BY GoesOn DEF PlaceUpload
<1>3. ProvenanceHonest'
  BY RowKept DEF PlaceUpload, IInv
<1> QED BY <1>1, <1>2, <1>3, CrossedTypes DEF PlaceUpload, IInv, TypeOK, files, history

LEMMA FinishUploadStep ==
  ASSUME IInv, NEW r \in Requests, FinishUpload(r)
  PROVE  IInv'
<1> DEFINE w == [status |-> "completed", claim |-> Unverified(None, "local"),
                 inst |-> None, instSrc |-> "local"]
<1>1. w \in Row
  BY ClaimTypes DEF Row, Digest, Sources
<1>2. HonestRow(w, hashed') /\ row' = w /\ hashed' = hashed
  BY DEF FinishUpload, HonestRow, HonestClaim, HonestInst, Unverified
<1> HIDE DEF w
<1>3. row' \in Row /\ ProvenanceHonest'
  BY <1>1, <1>2, RowWritten
<1>4. req' \in [Requests -> Request] /\ CarriesHonest'
  BY <1>2, Answered DEF FinishUpload
<1> QED BY <1>3, <1>4 DEF FinishUpload, IInv, TypeOK, files, history

\* What a check reads is as honest as the row, also where it fills in the
\* installed digest from the verified one.
LEMMA BeginCheckStep ==
  ASSUME IInv, NEW r \in Requests, BeginCheck(r)
  PROVE  IInv'
<1> DEFINE b == row.inst = None /\ row.claim.verified /\ row.claim.ver # None
                  /\ row.claim.src = "github"
           d == IF b THEN row.claim.ver ELSE row.inst
           s == IF b THEN "github" ELSE row.instSrc
           q == [Idle EXCEPT !.pc = "check", !.claim = row.claim, !.inst = d, !.instSrc = s]
<1>1. Become(r, q) /\ hashed' = hashed /\ row' = row
  BY DEF BeginCheck
<1>2. row.claim \in Claim /\ row.claim.ver \in Digest /\ row.inst \in Digest
        /\ row.instSrc \in Sources
  BY DEF IInv, TypeOK, Row, Claim
<1>3. d \in Digest /\ s \in Sources /\ HonestInst(d, s, hashed')
  BY <1>1, <1>2 DEF Sources, IInv, ProvenanceHonest, HonestInst, HonestClaim
<1> HIDE DEF d, s
<1>4. q \in Request
  BY <1>2, <1>3, IdleType DEF Request
<1>5. q.claim = row.claim /\ q.inst = d /\ q.instSrc = s /\ q.kind = "check"
  BY DEF Idle
<1>6. HonestRequest(q, hashed')
  BY <1>1, <1>3, <1>5 DEF HonestRequest, IInv, ProvenanceHonest
<1> HIDE DEF q
<1>7. req' \in [Requests -> Request] /\ CarriesHonest'
  BY <1>1, <1>4, <1>6, BecomeOne DEF IInv
<1>8. ProvenanceHonest'
  BY <1>1, RowKept DEF IInv
<1> QED BY <1>7, <1>8 DEF BeginCheck, IInv, TypeOK, files, history

LEMMA EndCheckStep ==
  ASSUME IInv, NEW r \in Requests, EndCheck(r)
  PROVE  IInv'
<1>1. req[r] \in Request /\ HonestRequest(req[r], hashed) /\ hashed' = hashed
  BY DEF IInv, TypeOK, CarriesHonest, EndCheck
<1>2. \E s \in {"checked", "failed"}, c \in Claim :
        /\ row' = [status |-> s, claim |-> c, inst |-> req[r].inst, instSrc |-> req[r].instSrc]
        /\ HonestClaim(c, hashed)
  <2>1. CASE \E h \in BOOLEAN :
               row' = [status |-> "checked",
                       claim |-> IF Preserved(req[r].claim, remote, h)
                                   THEN Verified(remote) ELSE Unverified(remote, "github"),
                       inst |-> req[r].inst, instSrc |-> req[r].instSrc]
    <3>1. PICK h \in BOOLEAN :
               row' = [status |-> "checked",
                       claim |-> IF Preserved(req[r].claim, remote, h)
                                   THEN Verified(remote) ELSE Unverified(remote, "github"),
                       inst |-> req[r].inst, instSrc |-> req[r].instSrc]
      BY <2>1
    <3>2. Verified(remote) \in Claim /\ Unverified(remote, "github") \in Claim
      BY ClaimTypes DEF IInv, TypeOK, Digest, Sources
    <3>3. Preserved(req[r].claim, remote, h) => HonestClaim(Verified(remote), hashed)
      BY <1>1 DEF Preserved, HonestRequest, HonestClaim, Verified, IInv, TypeOK
    <3>4. HonestClaim(Unverified(remote, "github"), hashed)
      BY DEF HonestClaim, Unverified
    <3> QED BY <3>1, <3>2, <3>3, <3>4
  <2>2. CASE \E c \in {Unverified(None, "none"), [row.claim EXCEPT !.verified = FALSE]} :
               row' = [status |-> "failed", claim |-> c,
                       inst |-> req[r].inst, instSrc |-> req[r].instSrc]
    <3>1. PICK c \in {Unverified(None, "none"), [row.claim EXCEPT !.verified = FALSE]} :
               row' = [status |-> "failed", claim |-> c,
                       inst |-> req[r].inst, instSrc |-> req[r].instSrc]
      BY <2>2
    <3>2. row.claim \in Claim
      BY DEF IInv, TypeOK, Row
    <3>3. c \in Claim /\ HonestClaim(c, hashed)
      <4>1. CASE c = Unverified(None, "none")
        BY <4>1, ClaimTypes DEF Digest, Sources, HonestClaim, Unverified
      <4>2. CASE c = [row.claim EXCEPT !.verified = FALSE]
        BY <4>2, <3>2 DEF Claim, HonestClaim
      <4> QED BY <3>1, <4>1, <4>2
    <3> QED BY <3>1, <3>3
  <2> QED BY <2>1, <2>2 DEF EndCheck, CheckOutcomes
<1>3. PICK s \in {"checked", "failed"}, c \in Claim :
        /\ row' = [status |-> s, claim |-> c, inst |-> req[r].inst, instSrc |-> req[r].instSrc]
        /\ HonestClaim(c, hashed)
  BY <1>2
<1> DEFINE w == [status |-> s, claim |-> c, inst |-> req[r].inst, instSrc |-> req[r].instSrc]
<1>4. w \in Row
  BY <1>1 DEF Row, Request
<1>5. HonestRow(w, hashed')
  BY <1>1, <1>3 DEF HonestRow, HonestRequest
<1> HIDE DEF w
<1>6. row' \in Row /\ ProvenanceHonest'
  BY <1>3, <1>4, <1>5, RowWritten DEF w
<1>7. req' \in [Requests -> Request] /\ CarriesHonest'
  BY <1>1, Answered DEF EndCheck
<1> QED BY <1>6, <1>7 DEF EndCheck, IInv, TypeOK, files, history

-----------------------------------------------------------------------------
LEMMA HandlerStep ==
  ASSUME IInv, NEW r \in Requests, Handler(r)
  PROVE  IInv'
BY BeginRunStep, AnnounceStep, BeginStreamStep, SkipStep, FetchStep, CreateStep, FillStep,
   CloseStep, VerifyStep, ExtractStep, PlaceDownloadStep, FailsStep, RestartStep,
   FinishRunStep, BeginUploadStep, PlaceUploadStep, FinishUploadStep,
   BeginCheckStep, EndCheckStep
   DEF Handler

LEMMA Establishes == Init => IInv
<1> SUFFICES ASSUME Init PROVE IInv
  OBVIOUS
<1>1. row \in Row
  BY ClaimTypes DEF Init, Row, Digest, Sources
<1>2. req \in [Requests -> Request] /\ CarriesHonest
  BY IdleType DEF Init, CarriesHonest
<1>3. ProvenanceHonest
  BY DEF Init, ProvenanceHonest, HonestClaim, HonestInst, Unverified
<1> QED BY <1>1, <1>2, <1>3 DEF Init, IInv, TypeOK, Empty, Digest

LEMMA Preserves == IInv /\ [Next]_vars => IInv'
<1> SUFFICES ASSUME IInv, [Next]_vars PROVE IInv'
  OBVIOUS
<1>1. CASE \E r \in Requests : Handler(r)
  BY <1>1, HandlerStep
<1>2. CASE Publish \/ StartService \/ StopService \/ UNCHANGED vars
  BY <1>2 DEF Publish, StartService, StopService, vars, files, history, IInv, TypeOK,
     ProvenanceHonest, CarriesHonest
<1>3. CASE Crash
  <2>1. req' \in [Requests -> Request] /\ CarriesHonest'
    BY <1>3, IdleType DEF Crash, CarriesHonest
  <2>2. ProvenanceHonest'
    BY <1>3, RowKept DEF Crash, IInv
  <2> QED BY <1>3, <2>1, <2>2 DEF Crash, IInv, TypeOK, files, history
<1> QED BY <1>1, <1>2, <1>3 DEF Next

\* The inductive invariant: types, and the honesty of the row and of every
\* claim a request in flight still holds.
THEOREM InstallInductive == Spec => []IInv
<1>1. Init => IInv
  BY Establishes
<1>2. IInv /\ [Next]_vars => IInv'
  BY Preserves
<1> QED BY <1>1, <1>2, PTL DEF Spec

\* However requests interleave, fail and crash, component_update_info never
\* presents an upload as verified, nor a digest no request computed.
THEOREM ProvenanceStaysHonest == Spec => []ProvenanceHonest
<1>1. IInv => ProvenanceHonest
  BY DEF IInv
<1> QED BY <1>1, InstallInductive, PTL

-----------------------------------------------------------------------------
(***************************************************************************)
(* What installs promise, however many overlap.  Sound says of any request *)
(* how far its kind can be and what it can hold; Clean says of one that no *)
(* other has crossed what it verified, then what it placed, then what it   *)
(* left running; and a row that says completed names the binary, unless    *)
(* the history says why not or an install has yet to write it.             *)
(***************************************************************************)
BinaryOf(r) == IF Is(r, "upload") THEN Uploads ELSE Assets
PlacedBy(r) == req[r].pc \in {"restart", "finish"}

Sound(r) ==
  /\ req[r].pc \notin {"idle", "check"} => req[r].kind \in Installs
  /\ Is(r, "upload") => req[r].pc \in {"idle", "place", "restart", "finish"}
  /\ At(r, "place") => req[r].got \in BinaryOf(r)

Clean(r) ==
  /\ At(r, "extract") /\ path # None => Whole(path, req[r].claim.ver)
  /\ At(r, "place") /\ ~ Is(r, "upload") => req[r].got = req[r].claim.ver
  /\ PlacedBy(r) /\ (linux \/ Is(r, "upload")) =>
       /\ bin \in BinaryOf(r)
       /\ ~ Is(r, "upload") => bin = req[r].claim.ver
  /\ At(r, "finish") /\ (req[r].was \/ Is(r, "upload")) => svc \in {None, bin}

RowNames ==
  row.status = "completed" => NamesBinary \/ muddled \/ \E q \in Requests : PlacedBy(q)

InstallInv ==
  /\ \A r \in Requests : Sound(r) /\ (r \notin crossed => Clean(r))
  /\ RowNames

\* What a step leaves alone of a request that it does not cross.
Undisturbed(q) ==
  /\ At(q, "extract") => path' = path /\ (path # None => disk'[path] = disk[path])
  /\ PlacedBy(q) => bin' = bin
  /\ svc' \in {svc, None, bin'}

\* One request moves: the others keep their records and, crossed or not, what
\* they rely on.
Moves(r) ==
  /\ linux' = linux
  /\ \A q \in Requests \ {r} : req'[q] = req[q] /\ (q \notin crossed' => q \notin crossed /\ Undisturbed(q))

LEMMA Becomes ==
  ASSUME TypeOK, NEW r \in Requests, NEW x, Become(r, x)
  PROVE  req'[r] = x /\ \A q \in Requests \ {r} : req'[q] = req[q]
BY DEF TypeOK, Become

LEMMA Bystander ==
  ASSUME NEW q \in Requests, req'[q] = req[q], linux' = linux, Sound(q)
  PROVE  Sound(q)' /\ (Clean(q) /\ Undisturbed(q) => Clean(q)')
<1>1. Sound(q)'
  BY DEF Sound, At, Is, BinaryOf, PlacedBy
<1>2. ASSUME Clean(q), Undisturbed(q) PROVE Clean(q)'
  <2>1. At(q, "extract")' /\ path' # None => Whole(path, req[q].claim.ver)'
    BY <1>2 DEF Clean, Undisturbed, At, Whole
  <2>2. PlacedBy(q)' => bin' = bin /\ svc' \in {svc, None, bin}
    BY <1>2 DEF Undisturbed, PlacedBy
  <2> QED BY <1>2, <2>1, <2>2 DEF Clean, At, Is, BinaryOf, PlacedBy
<1> QED BY <1>1, <1>2

\* The invariant, from what a step does to the request that takes it, to the
\* others and to the row.
LEMMA StepKeeps ==
  ASSUME InstallInv, NEW r \in Requests, Moves(r),
         Sound(r)', r \notin crossed' => Clean(r)', RowNames'
  PROVE  InstallInv'
<1>1. ASSUME NEW q \in Requests, q # r PROVE Sound(q)' /\ (q \notin crossed' => Clean(q)')
  <2>1. Sound(q) /\ (q \notin crossed => Clean(q))
    BY DEF InstallInv
  <2>2. req'[q] = req[q] /\ linux' = linux /\ (q \notin crossed' => q \notin crossed /\ Undisturbed(q))
    BY <1>1 DEF Moves
  <2> QED BY <2>1, <2>2, Bystander
<1> QED BY <1>1 DEF InstallInv

\* A request that holds nothing an install promises.
LEMMA EarlyIsClean ==
  ASSUME NEW r \in Requests,
         req'[r].pc \in {"idle", "announce", "fetch", "create", "fill", "verify", "check"},
         \/ req'[r].pc = "idle"
         \/ req'[r].kind # "upload" /\ (req'[r].pc = "check" \/ req'[r].kind \in Installs)
  PROVE  Sound(r)' /\ Clean(r)'
BY DEF Sound, Clean, At, Is, PlacedBy

\* A row that no longer says completed, or nothing it relies on changed.
LEMMA RowMoves ==
  ASSUME TypeOK, NEW r \in Requests, Emit(r, "running", req[r].claim) \/ Emit(r, "skipped", req[r].claim)
  PROVE  row'.status # "completed" \/ row' = row
BY DEF TypeOK, Row, Emit

LEMMA RowStands ==
  ASSUME RowNames, row'.status # "completed" \/ row' = row,
         bin' = bin, muddled => muddled',
         \A q \in Requests : PlacedBy(q) => PlacedBy(q)' \/ muddled'
  PROVE  RowNames'
BY DEF RowNames, NamesBinary

\* A step of r that leaves files, binary and service alone and crosses nobody.
LEMMA QuietMove ==
  ASSUME TypeOK, NEW r \in Requests, NEW x, Become(r, x), UNCHANGED <<linux, path, disk, bin, svc>>,
         crossed \ {r} \subseteq crossed'
  PROVE  Moves(r) /\ req'[r] = x
<1>1. req'[r] = x /\ \A q \in Requests \ {r} : req'[q] = req[q]
  BY Becomes
<1> QED BY <1>1 DEF Moves, Undisturbed

\* A step of r that changes the download, and has crossed whoever extracts it.
LEMMA FileMove ==
  ASSUME TypeOK, NEW r \in Requests, NEW x, Become(r, x), UNCHANGED <<linux, bin, svc>>,
         Touched(r) \ {r} \subseteq crossed'
  PROVE  Moves(r) /\ req'[r] = x
<1>1. req'[r] = x /\ \A q \in Requests \ {r} : req'[q] = req[q]
  BY Becomes
<1>2. ASSUME NEW q \in Requests \ {r}, q \notin crossed' PROVE q \notin crossed /\ Undisturbed(q)
  BY <1>2 DEF Touched, Undisturbed
<1> QED BY <1>1, <1>2 DEF Moves

-----------------------------------------------------------------------------
LEMMA BeginKeeps ==
  ASSUME TypeOK, InstallInv, NEW r \in Requests,
         BeginRun(r) \/ BeginStream(r) \/ (\E u \in Uploads : BeginUpload(r, u)) \/ BeginCheck(r)
  PROVE  InstallInv'
<1>1. PICK x : /\ Become(r, x)
               /\ \/ /\ x.pc \in {"announce", "fetch", "check"} /\ x.kind # "upload"
                     /\ (x.pc = "check" \/ x.kind \in Installs)
                     /\ row' = row
                  \/ /\ x.pc = "place" /\ x.kind = "upload" /\ x.got \in Uploads
                     /\ row'.status = "running"
  <2>1. CASE BeginRun(r)
    <3> DEFINE y == [Idle EXCEPT !.pc = "announce", !.kind = "run",
                                 !.claim = Unverified(row.claim.dl, row.claim.src)]
    <3>1. y.pc = "announce" /\ y.kind = "run"
      BY DEF Idle
    <3> HIDE DEF y
    <3> QED BY <2>1, <3>1 DEF BeginRun, Installs, y
  <2>2. CASE BeginStream(r)
    <3> DEFINE y == [Idle EXCEPT !.pc = "fetch", !.kind = "stream"]
    <3>1. y.pc = "fetch" /\ y.kind = "stream"
      BY DEF Idle
    <3> HIDE DEF y
    <3> QED BY <2>2, <3>1 DEF BeginStream, Installs, y
  <2>3. CASE \E u \in Uploads : BeginUpload(r, u)
    <3>1. PICK u \in Uploads : BeginUpload(r, u)
      BY <2>3
    <3> DEFINE y == [Idle EXCEPT !.pc = "place", !.kind = "upload", !.got = u]
    <3>2. y.pc = "place" /\ y.kind = "upload" /\ y.got = u
      BY DEF Idle
    <3>3. row'.status = "running" /\ Become(r, y)
      BY <3>1 DEF BeginUpload, TypeOK, Row
    <3> HIDE DEF y
    <3> QED BY <3>2, <3>3
  <2>4. CASE BeginCheck(r)
    <3> DEFINE b == row.inst = None /\ row.claim.verified /\ row.claim.ver # None
                      /\ row.claim.src = "github"
               y == [Idle EXCEPT !.pc = "check", !.claim = row.claim,
                                 !.inst = IF b THEN row.claim.ver ELSE row.inst,
                                 !.instSrc = IF b THEN "github" ELSE row.instSrc]
    <3>1. y.pc = "check" /\ y.kind = "check"
      BY DEF Idle
    <3>2. Become(r, y) /\ row' = row
      BY <2>4 DEF BeginCheck
    <3> HIDE DEF y
    <3> QED BY <3>1, <3>2
  <2> QED BY <2>1, <2>2, <2>3, <2>4
<1>2. /\ UNCHANGED <<linux, path, disk, bin, svc, crossed, muddled>>
      /\ req[r].pc = "idle"
  BY DEF BeginRun, BeginStream, BeginUpload, BeginCheck, MayBegin, Free, files, history
<1>3. Moves(r) /\ req'[r] = x
  BY <1>1, <1>2, QuietMove
<1>4. Sound(r)' /\ Clean(r)'
  <2>1. CASE x.kind # "upload"
    BY <1>1, <1>3, <2>1, EarlyIsClean
  <2>2. CASE x.pc = "place" /\ x.kind = "upload" /\ x.got \in Uploads
    BY <1>3, <2>2 DEF Sound, Clean, At, Is, BinaryOf, PlacedBy, Installs
  <2> QED BY <1>1, <2>1, <2>2
<1>5. RowNames'
  <2>1. \A q \in Requests : PlacedBy(q) => PlacedBy(q)'
    BY <1>2, <1>3 DEF PlacedBy, Moves
  <2>2. row'.status # "completed" \/ row' = row
    BY <1>1
  <2> QED BY <1>2, <2>1, <2>2, RowStands DEF InstallInv
<1> QED BY <1>3, <1>4, <1>5, StepKeeps

\* The steps before the download is compared.
LEMMA DownloadKeeps ==
  ASSUME TypeOK, InstallInv, NEW r \in Requests,
         Announce(r) \/ FetchAsset(r) \/ CreateFile(r) \/ FillFile(r) \/ CloseFile(r)
  PROVE  InstallInv'
<1>0. /\ req[r] \in Request /\ req[r].kind \in Installs \ {"upload"} /\ ~ PlacedBy(r)
      /\ Sound(r) /\ RowNames
  BY DEF TypeOK, InstallInv, Sound, Announce, FetchAsset, CreateFile, FillFile, CloseFile, At, Is, PlacedBy
<1>1. UNCHANGED <<linux, bin, svc, muddled>> /\ (row'.status # "completed" \/ row' = row)
  <2>1. CASE Announce(r)
    <3>1. row'.status = "running"
      BY <2>1 DEF Announce, TypeOK, Row
    <3> QED BY <2>1, <3>1 DEF Announce, history
  <2>2. CASE ~ Announce(r)
    BY <2>2, RowMoves DEF FetchAsset, CreateFile, FillFile, CloseFile, history
  <2> QED BY <2>1, <2>2
<1>2. PICK x : /\ Moves(r) /\ req'[r] = x /\ x.kind = req[r].kind
               /\ x.pc \in {"fetch", "create", "fill", "verify"}
  <2>1. CASE Announce(r)
    <3>1. PICK c : Become(r, [req[r] EXCEPT !.pc = "fetch", !.claim = c, !.was = svc # None])
      BY <2>1 DEF Announce
    <3> DEFINE y == [req[r] EXCEPT !.pc = "fetch", !.claim = c, !.was = svc # None]
    <3>2. y.pc = "fetch" /\ y.kind = req[r].kind
      BY <1>0 DEF Request
    <3>3. Become(r, y) /\ UNCHANGED <<path, disk, crossed>>
      BY <2>1, <3>1 DEF Announce, files, history
    <3> HIDE DEF y
    <3> QED BY <1>1, <3>2, <3>3, QuietMove
  <2>2. CASE CloseFile(r)
    <3> DEFINE y == [req[r] EXCEPT !.pc = "verify", !.fd = None]
    <3>1. y.pc = "verify" /\ y.kind = req[r].kind
      BY <1>0 DEF Request
    <3>2. Become(r, y) /\ UNCHANGED <<path, disk, crossed>>
      BY <2>2 DEF CloseFile, files, history
    <3> HIDE DEF y
    <3> QED BY <1>1, <3>1, <3>2, QuietMove
  <2>3. CASE FetchAsset(r)
    <3> DEFINE y == [req[r] EXCEPT !.pc = "create", !.want = remote]
    <3>1. y.pc = "create" /\ y.kind = req[r].kind
      BY <1>0 DEF Request
    <3>2. Become(r, y) /\ crossed' = Touched(r)
      BY <2>3 DEF FetchAsset
    <3> HIDE DEF y
    <3> QED BY <1>1, <3>1, <3>2, FileMove
  <2>4. CASE CreateFile(r)
    <3>1. PICK i, a : Become(r, [req[r] EXCEPT !.pc = "fill", !.fd = i, !.served = a])
      BY <2>4 DEF CreateFile
    <3> DEFINE y == [req[r] EXCEPT !.pc = "fill", !.fd = i, !.served = a]
    <3>2. y.pc = "fill" /\ y.kind = req[r].kind
      BY <1>0 DEF Request
    <3>3. Become(r, y) /\ crossed' = Touched(r)
      BY <2>4, <3>1 DEF CreateFile
    <3> HIDE DEF y
    <3> QED BY <1>1, <3>2, <3>3, FileMove
  <2>5. CASE FillFile(r)
    <3> DEFINE y == [req[r] EXCEPT !.at = @ + 1]
    <3>1. y.pc = "fill" /\ y.kind = req[r].kind
      BY <1>0, <2>5 DEF Request, FillFile, At
    <3>2. Become(r, y)
      BY <2>5 DEF FillFile
    <3> HIDE DEF y
    <3>3. CASE path = req[r].fd
      BY <1>1, <2>5, <3>1, <3>2, <3>3, FileMove DEF FillFile
    <3>4. CASE path # req[r].fd
      <4>1. crossed' = crossed /\ path' = path
        BY <2>5, <3>4 DEF FillFile
      <4>2. path # None => disk'[path] = disk[path]
        BY <2>5, <3>4 DEF FillFile, TypeOK
      <4>3. req'[r] = y /\ \A q \in Requests \ {r} : req'[q] = req[q]
        BY <3>2, Becomes
      <4>4. \A q \in Requests : Undisturbed(q)
        BY <1>1, <4>1, <4>2 DEF Undisturbed
      <4> QED BY <1>1, <3>1, <4>1, <4>3, <4>4 DEF Moves
    <3> QED BY <3>3, <3>4
  <2> QED BY <2>1, <2>2, <2>3, <2>4, <2>5
<1>3. Sound(r)' /\ Clean(r)'
  BY <1>0, <1>2, EarlyIsClean
<1>4. \A q \in Requests : PlacedBy(q) => PlacedBy(q)'
  BY <1>0, <1>2 DEF PlacedBy, Moves
<1>5. RowNames'
  BY <1>0, <1>1, <1>4, RowStands
<1> QED BY <1>2, <1>3, <1>5, StepKeeps

\* The file found right is the file at the path.
LEMMA VerifyKeeps ==
  ASSUME TypeOK, InstallInv, NEW r \in Requests, VerifyFile(r)
  PROVE  InstallInv'
<1> DEFINE y == [req[r] EXCEPT !.pc = "extract", !.claim = Verified(req[r].want)]
<1>0. req[r] \in Request /\ Sound(r) /\ req[r].pc = "verify" /\ RowNames
  BY DEF TypeOK, InstallInv, VerifyFile, At
<1>1. y.pc = "extract" /\ y.kind = req[r].kind /\ y.claim.ver = req[r].want
  BY <1>0 DEF Request, Verified
<1>2. /\ Become(r, y) /\ UNCHANGED <<linux, path, disk, bin, svc, crossed, muddled>>
      /\ Whole(path, req[r].want)
  BY DEF VerifyFile, files, history
<1> HIDE DEF y
<1>3. Moves(r) /\ req'[r] = y
  BY <1>2, QuietMove
<1>4. Sound(r)' /\ Clean(r)'
  BY <1>0, <1>1, <1>2, <1>3 DEF Sound, Clean, At, Is, PlacedBy, Whole
<1>5. row'.status # "completed" \/ row' = row
  BY DEF VerifyFile, Emit, TypeOK, Row
<1>6. \A q \in Requests : PlacedBy(q) => PlacedBy(q)'
  BY <1>0, <1>3 DEF PlacedBy, Moves
<1>7. RowNames'
  BY <1>0, <1>2, <1>5, <1>6, RowStands
<1> QED BY <1>3, <1>4, <1>7, StepKeeps

LEMMA ExtractKeeps ==
  ASSUME TypeOK, InstallInv, NEW r \in Requests, ExtractFile(r)
  PROVE  InstallInv'
<1>0. req[r] \in Request /\ Sound(r) /\ req[r].pc = "extract" /\ RowNames /\ (r \notin crossed => Clean(r))
  BY DEF TypeOK, InstallInv, ExtractFile, At
<1>1. PICK a \in Assets : Whole(path, a) /\ Become(r, [req[r] EXCEPT !.pc = "place", !.got = a])
  BY DEF ExtractFile
<1> DEFINE y == [req[r] EXCEPT !.pc = "place", !.got = a]
<1>2. y.pc = "place" /\ y.kind = req[r].kind /\ y.got = a /\ y.claim = req[r].claim
  BY <1>0 DEF Request
<1>3. Become(r, y)
  BY <1>1
<1>4. UNCHANGED <<linux, bin, svc, row, muddled>> /\ crossed' = Touched(r) /\ path # None
  BY DEF ExtractFile
<1> HIDE DEF y
<1>5. Moves(r) /\ req'[r] = y
  BY <1>3, <1>4, FileMove
<1>6. r \notin crossed' => a = req[r].claim.ver
  <2> SUFFICES ASSUME r \notin crossed' PROVE a = req[r].claim.ver
    OBVIOUS
  <2>1. Whole(path, req[r].claim.ver)
    BY <1>0, <1>4 DEF Touched, Clean, At
  <2>2. 1 \in Piece
    BY SMT DEF Piece
  <2> QED BY <1>1, <2>1, <2>2 DEF Whole
<1>7. Sound(r)' /\ (r \notin crossed' => Clean(r)')
  BY <1>0, <1>2, <1>5, <1>6 DEF Sound, Clean, At, Is, BinaryOf, PlacedBy
<1>8. \A q \in Requests : PlacedBy(q) => PlacedBy(q)'
  BY <1>0, <1>5 DEF PlacedBy, Moves
<1>9. RowNames'
  BY <1>0, <1>4, <1>8, RowStands
<1> QED BY <1>5, <1>7, <1>9, StepKeeps

LEMMA FailsKeeps ==
  ASSUME TypeOK, InstallInv, NEW r \in Requests, InstallFails(r)
  PROVE  InstallInv'
<1>0. RowNames /\ ~ PlacedBy(r) /\ Become(r, Idle) /\ Idle.pc = "idle"
  BY DEF InstallInv, InstallFails, PlacedBy, Idle
<1>1. UNCHANGED <<linux, disk, bin, svc, muddled>> /\ (row'.status # "completed" \/ row' = row)
  BY DEF InstallFails, TypeOK, Row
<1>2. Moves(r) /\ req'[r] = Idle
  <2>1. CASE path' = path
    BY <1>0, <1>1, <2>1, QuietMove DEF InstallFails
  <2>2. CASE path' # path
    BY <1>0, <1>1, <2>2, FileMove DEF InstallFails
  <2> QED BY <2>1, <2>2
<1>3. Sound(r)' /\ Clean(r)'
  BY <1>0, <1>2, EarlyIsClean
<1>4. \A q \in Requests : PlacedBy(q) => PlacedBy(q)'
  BY <1>0, <1>2 DEF PlacedBy, Moves
<1>5. RowNames'
  BY <1>0, <1>1, <1>4, RowStands
<1> QED BY <1>2, <1>3, <1>5, StepKeeps

-----------------------------------------------------------------------------
\* What follows an install that ended without an error.
LEMMA EndsSo ==
  ASSUME TypeOK, NEW r \in Requests, EndInstall(r)
  PROVE  \E x : /\ Become(r, x)
               /\ \/ x = Idle /\ Is(r, "stream")
                  \/ /\ x.pc \in {"restart", "finish"} /\ (x.pc = "finish" => ~ x.was)
                     /\ x.kind = req[r].kind /\ x.claim = req[r].claim /\ ~ Is(r, "stream")
<1>0. req[r] \in Request
  BY DEF TypeOK
<1>1. CASE Is(r, "stream")
  BY <1>1 DEF EndInstall
<1>2. CASE ~ Is(r, "stream")
  <2> DEFINE pc == IF req[r].was THEN "restart" ELSE "finish"
             y == [req[r] EXCEPT !.pc = pc]
  <2>1. y.pc = pc /\ y.kind = req[r].kind /\ y.was = req[r].was /\ y.claim = req[r].claim
    BY <1>0 DEF Request
  <2>2. Become(r, y)
    BY <1>2 DEF EndInstall, Go
  <2>3. pc \in {"restart", "finish"} /\ (pc = "finish" => ~ req[r].was)
    OBVIOUS
  <2> HIDE DEF y, pc
  <2> QED BY <1>2, <2>1, <2>2, <2>3
<1> QED BY <1>1, <1>2

LEMMA SkipKeeps ==
  ASSUME TypeOK, InstallInv, NEW r \in Requests, SkipAsset(r)
  PROVE  InstallInv'
<1>0. /\ req[r] \in Request /\ Sound(r) /\ req[r].pc = "fetch"
      /\ req[r].kind \in Installs \ {"upload"} /\ RowNames
  BY DEF TypeOK, InstallInv, Sound, SkipAsset, At, Is
<1>1. UNCHANGED <<linux, path, disk, bin, svc, crossed, muddled>> /\ ~ linux
  BY DEF SkipAsset, files, history
<1>2. PICK x : /\ Become(r, x)
               /\ \/ x = Idle /\ Is(r, "stream")
                  \/ /\ x.pc \in {"restart", "finish"} /\ (x.pc = "finish" => ~ x.was)
                     /\ x.kind = req[r].kind /\ x.claim = req[r].claim /\ ~ Is(r, "stream")
  BY EndsSo DEF SkipAsset
<1>3. Moves(r) /\ req'[r] = x
  BY <1>1, <1>2, QuietMove
<1>4. Sound(r)' /\ Clean(r)'
  <2>1. CASE x = Idle
    BY <1>3, <2>1, EarlyIsClean DEF Idle
  <2>2. CASE x.pc \in {"restart", "finish"} /\ (x.pc = "finish" => ~ x.was) /\ x.kind = req[r].kind
    BY <1>0, <1>1, <1>3, <2>2 DEF Sound, Clean, At, Is, PlacedBy
  <2> QED BY <1>2, <2>1, <2>2
<1>5. \A q \in Requests : PlacedBy(q) => PlacedBy(q)'
  BY <1>0, <1>3 DEF PlacedBy, Moves
<1>6. RowNames'
  BY <1>0, <1>1, <1>5, RowStands, RowMoves DEF SkipAsset
<1> QED BY <1>3, <1>4, <1>6, StepKeeps

\* A binary is replaced: whoever had placed another is crossed.
LEMMA PlaceMove ==
  ASSUME TypeOK, NEW r \in Requests, req[r].pc = "place", NEW x, Become(r, x),
         UNCHANGED <<linux, path, disk, svc>>, crossed' = Overwritten(r)
  PROVE  Moves(r) /\ req'[r] = x
<1>1. req'[r] = x /\ \A q \in Requests \ {r} : req'[q] = req[q]
  BY Becomes
<1>2. ASSUME NEW q \in Requests \ {r}, q \notin crossed' PROVE q \notin crossed /\ Undisturbed(q)
  BY <1>2 DEF Overwritten, Placed, Undisturbed, PlacedBy
<1> QED BY <1>1, <1>2 DEF Moves

LEMMA PlaceDownloadKeeps ==
  ASSUME TypeOK, InstallInv, NEW r \in Requests, PlaceDownload(r)
  PROVE  InstallInv'
<1>0. /\ req[r] \in Request /\ Sound(r) /\ (r \notin crossed => Clean(r))
      /\ req[r].pc = "place" /\ ~ Is(r, "upload") /\ req[r].kind \in Installs
  BY DEF TypeOK, InstallInv, Sound, PlaceDownload, At
<1>1. /\ UNCHANGED <<linux, path, disk, svc>> /\ crossed' = Overwritten(r)
      /\ bin' = req[r].got /\ (Is(r, "stream") => muddled')
  BY DEF PlaceDownload, files
<1>2. PICK x : /\ Become(r, x)
               /\ \/ x = Idle /\ Is(r, "stream")
                  \/ /\ x.pc \in {"restart", "finish"} /\ (x.pc = "finish" => ~ x.was)
                     /\ x.kind = req[r].kind /\ x.claim = req[r].claim /\ ~ Is(r, "stream")
  BY EndsSo DEF PlaceDownload
<1>3. Moves(r) /\ req'[r] = x
  BY <1>0, <1>1, <1>2, PlaceMove
<1>4. CASE x = Idle /\ Is(r, "stream")
  <2>1. Sound(r)' /\ Clean(r)'
    BY <1>3, <1>4, EarlyIsClean DEF Idle
  <2>2. RowNames'
    BY <1>1, <1>4 DEF RowNames
  <2> QED BY <1>3, <2>1, <2>2, StepKeeps
<1>5. CASE /\ x.pc \in {"restart", "finish"} /\ (x.pc = "finish" => ~ x.was)
           /\ x.kind = req[r].kind /\ x.claim = req[r].claim /\ ~ Is(r, "stream")
  <2>1. bin' \in Assets /\ (r \notin crossed => bin' = req[r].claim.ver)
    BY <1>0, <1>1 DEF Sound, Clean, At, Is, BinaryOf
  <2>2. r \notin crossed' => r \notin crossed
    BY <1>1, <1>5 DEF Overwritten
  <2>3. Sound(r)' /\ (r \notin crossed' => Clean(r)')
    BY <1>0, <1>3, <1>5, <2>1, <2>2 DEF Sound, Clean, At, Is, PlacedBy, BinaryOf
  <2>4. RowNames'
    BY <1>3, <1>5 DEF RowNames, PlacedBy
  <2> QED BY <1>3, <2>3, <2>4, StepKeeps
<1> QED BY <1>2, <1>4, <1>5

LEMMA PlaceUploadKeeps ==
  ASSUME TypeOK, InstallInv, NEW r \in Requests, PlaceUpload(r)
  PROVE  InstallInv'
<1>0. /\ req[r] \in Request /\ Sound(r) /\ req[r].pc = "place" /\ req[r].kind = "upload"
  BY DEF TypeOK, InstallInv, PlaceUpload, At, Is
<1>1. /\ UNCHANGED <<linux, path, disk, svc>> /\ crossed' = Overwritten(r)
      /\ bin' = req[r].got
  BY DEF PlaceUpload, files
<1> DEFINE x == [req[r] EXCEPT !.pc = "restart"]
<1>2. x.pc = "restart" /\ x.kind = "upload" /\ Become(r, x)
  BY <1>0 DEF PlaceUpload, Go, Request
<1> HIDE DEF x
<1>3. Moves(r) /\ req'[r] = x
  BY <1>0, <1>1, <1>2, PlaceMove
<1>4. bin' \in Uploads
  BY <1>0, <1>1 DEF Sound, At, Is, BinaryOf
<1>5. Sound(r)' /\ Clean(r)'
  BY <1>2, <1>3, <1>4 DEF Sound, Clean, At, Is, PlacedBy, BinaryOf, Installs
<1>6. RowNames'
  BY <1>2, <1>3 DEF RowNames, PlacedBy
<1> QED BY <1>3, <1>5, <1>6, StepKeeps

\* The service runs the binary of the day, or none.
LEMMA ServiceMove ==
  ASSUME TypeOK, NEW r \in Requests, NEW x, Become(r, x), UNCHANGED <<linux, path, disk, bin>>,
         svc' \in {None, bin}, crossed \ {r} \subseteq crossed'
  PROVE  Moves(r) /\ req'[r] = x
<1>1. req'[r] = x /\ \A q \in Requests \ {r} : req'[q] = req[q]
  BY Becomes
<1> QED BY <1>1 DEF Moves, Undisturbed

LEMMA RestartKeeps ==
  ASSUME TypeOK, InstallInv, NEW r \in Requests, RestartService(r) \/ RestartFails(r)
  PROVE  InstallInv'
<1>0. /\ req[r] \in Request /\ Sound(r) /\ (r \notin crossed => Clean(r))
      /\ req[r].pc = "restart" /\ RowNames
  BY DEF TypeOK, InstallInv, RestartService, RestartFails, At
<1>1. UNCHANGED <<linux, path, disk, bin, muddled>> /\ svc' \in {None, bin}
  BY DEF RestartService, RestartFails, files, history
<1>2. CASE Go(r, "finish") /\ row' = row /\ crossed' = crossed
  <2> DEFINE x == [req[r] EXCEPT !.pc = "finish"]
  <2>1. x.pc = "finish" /\ x.kind = req[r].kind /\ x.claim = req[r].claim /\ Become(r, x)
    BY <1>0, <1>2 DEF Go, Request
  <2> HIDE DEF x
  <2>2. Moves(r) /\ req'[r] = x
    BY <1>1, <1>2, <2>1, ServiceMove
  <2>3. Sound(r)' /\ (r \notin crossed' => Clean(r)')
    BY <1>0, <1>1, <1>2, <2>1, <2>2 DEF Sound, Clean, At, Is, PlacedBy, BinaryOf
  <2>4. \A q \in Requests : PlacedBy(q) => PlacedBy(q)'
    BY <2>1, <2>2 DEF PlacedBy, Moves
  <2>5. RowNames'
    BY <1>0, <1>1, <1>2, <2>4, RowStands
  <2> QED BY <2>2, <2>3, <2>5, StepKeeps
<1>3. CASE Become(r, Idle) /\ row'.status # "completed" /\ crossed' = crossed \ {r}
  <2>1. Moves(r) /\ req'[r] = Idle
    BY <1>1, <1>3, ServiceMove
  <2>2. Sound(r)' /\ Clean(r)'
    BY <2>1, EarlyIsClean DEF Idle
  <2> QED BY <1>3, <2>1, <2>2, StepKeeps DEF RowNames
<1>4. RestartFails(r) /\ row' = [row EXCEPT !.status = "failed"] => row'.status # "completed"
  BY DEF TypeOK, Row
<1> QED BY <1>2, <1>3, <1>4 DEF RestartService, RestartFails, history

\* The row names what the request placed, or says why it cannot.
LEMMA FinishKeeps ==
  ASSUME TypeOK, InstallInv, NEW r \in Requests, FinishRun(r) \/ FinishUpload(r)
  PROVE  InstallInv'
<1>0. /\ req[r].pc = "finish" /\ (r \notin crossed => Clean(r))
      /\ Become(r, Idle) /\ UNCHANGED <<linux, path, disk, bin, svc>>
      /\ crossed' = crossed \ {r}
  BY DEF InstallInv, FinishRun, FinishUpload, At, files
<1>1. Moves(r) /\ req'[r] = Idle
  BY <1>0, QuietMove
<1>2. Sound(r)' /\ Clean(r)'
  BY <1>1, EarlyIsClean DEF Idle
<1>3. NamesBinary' \/ muddled'
  <2>1. CASE FinishRun(r) /\ linux /\ r \notin crossed
    <3>1. bin \in Assets /\ bin = req[r].claim.ver
      BY <1>0, <2>1 DEF Clean, PlacedBy, BinaryOf, Is, FinishRun
    <3>2. row'.inst = req[r].claim.ver
      BY <2>1 DEF FinishRun
    <3> QED BY <1>0, <3>1, <3>2 DEF NamesBinary
  <2>2. CASE FinishUpload(r) /\ r \notin crossed
    <3>1. bin \in Uploads
      BY <1>0, <2>2 DEF Clean, PlacedBy, BinaryOf, Is, FinishUpload
    <3>2. row'.inst = None /\ row'.claim.src = "local"
      BY <2>2 DEF FinishUpload, Unverified
    <3> QED BY <1>0, <3>1, <3>2 DEF NamesBinary
  <2> QED BY <2>1, <2>2 DEF FinishRun, FinishUpload
<1>4. RowNames'
  BY <1>3 DEF RowNames
<1> QED BY <1>1, <1>2, <1>4, StepKeeps

LEMMA EndCheckKeeps ==
  ASSUME TypeOK, InstallInv, NEW r \in Requests, EndCheck(r)
  PROVE  InstallInv'
<1>1. Become(r, Idle) /\ UNCHANGED <<linux, path, disk, bin, svc, crossed>>
  BY DEF EndCheck, files, history
<1>2. Moves(r) /\ req'[r] = Idle
  BY <1>1, QuietMove
<1>3. Sound(r)' /\ Clean(r)'
  BY <1>2, EarlyIsClean DEF Idle
<1>4. row'.status # "completed"
  <2>1. row' \in CheckOutcomes(r)
    BY DEF EndCheck
  <2>2. CASE \E c : row' = [status |-> "checked", claim |-> c, inst |-> req[r].inst, instSrc |-> req[r].instSrc]
    BY <2>2
  <2>3. CASE \E c : row' = [status |-> "failed", claim |-> c, inst |-> req[r].inst, instSrc |-> req[r].instSrc]
    BY <2>3
  <2> QED BY <2>1, <2>2, <2>3, Zenon DEF CheckOutcomes
<1> QED BY <1>2, <1>3, <1>4, StepKeeps DEF RowNames

\* Releases, service commands and crashes.
LEMMA OutsideKeeps ==
  ASSUME TypeOK, InstallInv, Publish \/ StartService \/ StopService \/ Crash \/ UNCHANGED vars
  PROVE  InstallInv'
<1>1. CASE Crash
  <2>1. \A r \in Requests : req'[r] = Idle
    BY <1>1 DEF Crash
  <2>2. \A r \in Requests : Sound(r)' /\ Clean(r)'
    BY <2>1, EarlyIsClean DEF Idle
  <2>3. row' = row /\ bin' = bin /\ muddled' = (muddled \/ Placed # {})
    BY <1>1 DEF Crash, files
  <2>4. \A q \in Requests : PlacedBy(q) => muddled'
    BY <2>3 DEF Placed, PlacedBy
  <2>5. RowNames'
    BY <2>3, <2>4, RowStands DEF InstallInv
  <2> QED BY <2>2, <2>5 DEF InstallInv
<1>2. CASE ~ Crash
  <2>1. UNCHANGED <<linux, path, disk, bin, row, req, crossed, muddled>> /\ svc' \in {svc, None, bin'}
    BY <1>2 DEF Publish, StartService, StopService, vars, files, history
  <2>2. ASSUME NEW q \in Requests PROVE Sound(q)' /\ (q \notin crossed' => Clean(q)')
    <3>1. Sound(q) /\ (q \notin crossed => Clean(q)) /\ req'[q] = req[q]
      BY <2>1 DEF InstallInv
    <3>2. Undisturbed(q)
      BY <2>1 DEF Undisturbed
    <3> QED BY <2>1, <3>1, <3>2, Bystander
  <2>3. RowNames'
    BY <2>1 DEF InstallInv, RowNames, NamesBinary, PlacedBy
  <2> QED BY <2>2, <2>3 DEF InstallInv
<1> QED BY <1>1, <1>2

\* What Clean, Sound and RowNames say holds of every run, whatever overlaps.
LEMMA InstallsKeep == Spec => []InstallInv
<1>1. Init => InstallInv
  BY DEF Init, InstallInv, Sound, Clean, RowNames, At, Is, PlacedBy, Idle
<1>2. TypeOK /\ InstallInv /\ [Next]_vars => InstallInv'
  <2> SUFFICES ASSUME TypeOK, InstallInv, [Next]_vars PROVE InstallInv'
    OBVIOUS
  <2>1. ASSUME NEW r \in Requests, Handler(r) PROVE InstallInv'
    BY <2>1, BeginKeeps, DownloadKeeps, VerifyKeeps, ExtractKeeps, FailsKeeps, SkipKeeps,
       PlaceDownloadKeeps, PlaceUploadKeeps, RestartKeeps, FinishKeeps, EndCheckKeeps
       DEF Handler
  <2> QED BY <2>1, OutsideKeeps DEF Next
<1>3. IInv => TypeOK
  BY DEF IInv
<1> QED BY <1>1, <1>2, <1>3, InstallInductive, PTL DEF Spec

\* However many installs, uploads, checks and crashes overlap, a download whose
\* file no other install touched between its hash and its extraction installs
\* what was verified (downloader.go:144-193).
THEOREM UncrossedInstallsVerify == Spec => []UncrossedIsVerified
<1>1. InstallInv => UncrossedIsVerified
  BY DEF InstallInv, Clean, UncrossedIsVerified
<1> QED BY <1>1, InstallsKeep, PTL

\* A row that says completed names the installed binary when nothing installs
\* and the history gives no reason why it could not (handlers_update.go:505-553,
\* component_upload.go:76-88).
THEOREM RowsNameBinary == Spec => []CompletedNames
<1>1. InstallInv => CompletedNames
  <2> SUFFICES ASSUME InstallInv, Quiet, row.status = "completed", ~ muddled PROVE NamesBinary
    BY DEF CompletedNames
  <2>1. ASSUME NEW q \in Requests, PlacedBy(q) PROVE FALSE
    <3>1. Sound(q)
      BY DEF InstallInv
    <3> QED BY <2>1, <3>1 DEF Sound, PlacedBy, Quiet, Installing, Free
  <2> QED BY <2>1 DEF InstallInv, RowNames
<1> QED BY <1>1, InstallsKeep, PTL

\* An update that found the service running, and an upload, leaves it on the new
\* binary or stopped, if no other install replaced the binary since
\* (handlers_update.go:533-541, component_upload.go:79-82).
THEOREM UncrossedServiceFollows == Spec => []UncrossedRunsNew
<1>1. InstallInv => UncrossedRunsNew
  BY DEF InstallInv, Clean, UncrossedRunsNew
<1> QED BY <1>1, InstallsKeep, PTL
=============================================================================

--------------------------- MODULE ComponentInstall ---------------------------
(***************************************************************************)
(* Installing and updating one downloaded binary, mihomo or mosdns         *)
(* (internal/server/downloader.go, handlers_update.go,                     *)
(* component_upload.go), and the row of component_update_info that says    *)
(* what is installed.                                                      *)
(*                                                                         *)
(* Every download of a component goes to the same data/<component>.download *)
(* (downloader.go:143), which is opened three times by name: to write, to  *)
(* hash and to extract.  Nothing keeps two requests apart.  An archive     *)
(* extracts only when it is whole (its checksums); version strings and     *)
(* progress are left out, and so is the zashboard directory.               *)
(***************************************************************************)
EXTENDS Naturals

CONSTANTS
  Requests,   \* slots for requests in flight
  Assets,     \* release assets, each standing for its SHA-256 digest
  Uploads,    \* binaries users upload
  None,
  Inodes,     \* files a download can have open, as many as Requests
  Chunks,     \* pieces a download is written in
  Kinds,      \* what clients ask for
  MayCrash    \* whether the msf process can end

\* "stream" is an install that keeps no row: POST /mosdns/install, the setup
\* wizard (runInstallJSON, installSetupComponent).
AllKinds == {"run", "stream", "upload", "check"}
Installs == {"run", "stream", "upload"}

ASSUME ChunksAssumption == Chunks \in Nat \ {0}
ASSUME KindsAssumption == Kinds \subseteq AllKinds /\ MayCrash \in BOOLEAN
ASSUME NoneAssumption ==
  /\ None \notin Assets \cup Uploads \cup Inodes
  /\ Assets \cap Uploads = {}

VARIABLES
  linux,    \* whether msf runs on Linux
  remote,   \* the asset the release offers
  path,     \* data/<component>.download: an inode or None
  disk,     \* what the inodes hold
  bin,      \* the installed binary
  svc,      \* the binary the running service was started from
  row,      \* the row of component_update_info
  req,      \* requests in flight
  hashed,   \* history: digests some request computed and found right
  crossed,  \* history: installs whose download another touched between hash and
            \* extraction, or whose binary another replaced before they ended
  muddled   \* history: the row cannot know the installed binary

vars == <<linux, remote, path, disk, bin, svc, row, req, hashed, crossed, muddled>>
files == <<path, disk>>
history == <<crossed, muddled>>

Binaries == Assets \cup Uploads
Digest == Assets \cup {None}
Sources == {"none", "github", "local"}
Piece == 1 .. Chunks
Empty == [k \in Piece |-> None]

\* download_digest, verified_digest, verified, verification_source.
Claim == [dl : Digest, ver : Digest, verified : BOOLEAN, src : Sources]
Row == [status : {"idle", "running", "skipped", "completed", "failed", "checked"},
        claim : Claim, inst : Digest, instSrc : Sources]
Request ==
  [pc : {"idle", "announce", "fetch", "create", "fill", "verify", "extract",
         "place", "restart", "finish", "check"},
   kind : AllKinds, claim : Claim, inst : Digest, instSrc : Sources,
   want : Digest, served : Digest, fd : Inodes \cup {None}, at : 1 .. Chunks + 1,
   got : Binaries \cup {None}, was : BOOLEAN]

Unverified(d, s) == [dl |-> d, ver |-> None, verified |-> FALSE, src |-> s]
Verified(d) == [dl |-> d, ver |-> d, verified |-> TRUE, src |-> "github"]

Idle == [pc |-> "idle", kind |-> "check", claim |-> Unverified(None, "none"),
         inst |-> None, instSrc |-> "none", want |-> None, served |-> None,
         fd |-> None, at |-> 1, got |-> None, was |-> FALSE]

TypeOK ==
  /\ linux \in BOOLEAN /\ remote \in Assets /\ path \in Inodes \cup {None}
  /\ disk \in [Inodes -> [Piece -> Digest]]
  /\ bin \in Binaries \cup {None} /\ svc \in Binaries \cup {None}
  /\ row \in Row /\ req \in [Requests -> Request] /\ hashed \in SUBSET Assets
  /\ crossed \in SUBSET Requests /\ muddled \in BOOLEAN

Init ==
  /\ linux \in BOOLEAN /\ remote \in Assets /\ path = None /\ disk = [i \in Inodes |-> Empty]
  /\ bin = None /\ svc = None
  /\ row = [status |-> "idle", claim |-> Unverified(None, "none"),
            inst |-> None, instSrc |-> "none"]
  /\ req = [r \in Requests |-> Idle]
  /\ hashed = {} /\ crossed = {} /\ muddled = FALSE

-----------------------------------------------------------------------------
Free(r) == req[r].pc = "idle"
At(r, pc) == req[r].pc = pc
Is(r, kind) == req[r].kind = kind
Become(r, q) == req' = [req EXCEPT ![r] = q]
Go(r, pc) == Become(r, [req[r] EXCEPT !.pc = pc])
Whole(i, a) == disk[i] = [k \in Piece |-> a]

Installing(r) == ~ Free(r) /\ req[r].kind \in Installs
Quiet == \A r \in Requests : ~ Installing(r)

MayBegin(r, kind) == Free(r) /\ kind \in Kinds

\* Only the progress callback of handleComponentUpdateRun writes the row.
Emit(r, status, claim) ==
  row' = IF Is(r, "run") THEN [row EXCEPT !.status = status, !.claim = claim] ELSE row

(***************************************************************************)
(* handleComponentUpdateRun reads the row, asks for the release and only   *)
(* then looks whether the service runs and announces the download.         *)
(***************************************************************************)
BeginRun(r) ==
  /\ MayBegin(r, "run")
  /\ Become(r, [Idle EXCEPT !.pc = "announce", !.kind = "run",
                            !.claim = Unverified(row.claim.dl, row.claim.src)])
  /\ UNCHANGED <<linux, remote, files, bin, svc, row, hashed, history>>

\* Without a release the announcement repeats what the row said.
Announce(r) ==
  /\ At(r, "announce")
  /\ \E claim \in {Unverified(remote, "github"), Unverified(None, "none"), req[r].claim} :
       /\ row' = [row EXCEPT !.status = "running", !.claim = claim]
       /\ Become(r, [req[r] EXCEPT !.pc = "fetch", !.claim = claim, !.was = svc # None])
  /\ UNCHANGED <<linux, remote, files, bin, svc, hashed, history>>

BeginStream(r) ==
  /\ MayBegin(r, "stream")
  /\ Become(r, [Idle EXCEPT !.pc = "fetch", !.kind = "stream"])
  /\ UNCHANGED <<linux, remote, files, bin, svc, row, hashed, history>>

-----------------------------------------------------------------------------
(* installComponent.                                                       *)

\* Installs that have replaced the binary and not ended.
Placed == { q \in Requests : req[q].pc \in {"restart", "finish"} }

Touched(r) == crossed \cup ({ q \in Requests : At(q, "extract") } \ {r})
Overwritten(r) == (crossed \cup Placed) \ (IF Is(r, "stream") THEN {r} ELSE {})

\* What the callers of installComponent do when it returns without an error.
EndInstall(r) ==
  IF Is(r, "stream") THEN Become(r, Idle)
  ELSE Go(r, IF req[r].was THEN "restart" ELSE "finish")

\* No binaries are downloaded elsewhere; the callers go on as after an install.
SkipAsset(r) ==
  /\ At(r, "fetch") /\ ~ linux
  /\ Emit(r, "skipped", req[r].claim)
  /\ EndInstall(r)
  /\ UNCHANGED <<linux, remote, files, bin, svc, hashed, history>>

\* The digest of the asset is fetched (again), a left-over download removed.
FetchAsset(r) ==
  /\ At(r, "fetch") /\ linux
  /\ path' = None
  /\ Emit(r, "running", req[r].claim)
  /\ Become(r, [req[r] EXCEPT !.pc = "create", !.want = remote])
  /\ crossed' = Touched(r)
  /\ UNCHANGED <<linux, remote, disk, bin, svc, hashed, muddled>>

InUse == {path} \cup { req[q].fd : q \in Requests }

\* os.Create truncates the file a concurrent download is writing, if there is
\* one.  A mirror may serve another asset than the release offers.
CreateFile(r) ==
  /\ At(r, "create")
  /\ \E i \in Inodes, a \in Assets :
       /\ IF path = None THEN i \notin InUse ELSE i = path
       /\ path' = i
       /\ disk' = [disk EXCEPT ![i] = Empty]
       /\ Become(r, [req[r] EXCEPT !.pc = "fill", !.fd = i, !.served = a])
  /\ crossed' = Touched(r)
  /\ UNCHANGED <<linux, remote, bin, svc, row, hashed, muddled>>

FillFile(r) ==
  /\ At(r, "fill") /\ req[r].at \in Piece
  /\ disk' = [disk EXCEPT ![req[r].fd][req[r].at] = req[r].served]
  /\ Become(r, [req[r] EXCEPT !.at = @ + 1])
  /\ Emit(r, "running", req[r].claim)
  /\ crossed' = IF path = req[r].fd THEN Touched(r) ELSE crossed
  /\ UNCHANGED <<linux, remote, path, bin, svc, hashed, muddled>>

CloseFile(r) ==
  /\ At(r, "fill") /\ req[r].at \notin Piece
  /\ Become(r, [req[r] EXCEPT !.pc = "verify", !.fd = None])
  /\ UNCHANGED <<linux, remote, files, bin, svc, row, hashed, history>>

\* Mutant: the digest is computed but not compared.
VerifyAnything(r) ==
  /\ At(r, "verify") /\ path # None
  /\ hashed' = hashed \cup {req[r].want}
  /\ Become(r, [req[r] EXCEPT !.pc = "extract", !.claim = Verified(req[r].want)])
  /\ Emit(r, "running", Verified(req[r].want))
  /\ UNCHANGED <<linux, remote, files, bin, svc, history>>
VerifyFile(r) ==
  /\ At(r, "verify") /\ path # None
  /\ req[r].want \in Assets /\ Whole(path, req[r].want)
  /\ hashed' = hashed \cup {req[r].want}
  /\ Become(r, [req[r] EXCEPT !.pc = "extract", !.claim = Verified(req[r].want)])
  /\ Emit(r, "running", Verified(req[r].want))
  /\ UNCHANGED <<linux, remote, files, bin, svc, history>>

ExtractFile(r) ==
  /\ At(r, "extract") /\ path # None
  /\ \E a \in Assets :
       /\ Whole(path, a)
       /\ Become(r, [req[r] EXCEPT !.pc = "place", !.got = a])
  /\ path' = None
  /\ crossed' = Touched(r)
  /\ UNCHANGED <<linux, remote, disk, bin, svc, row, hashed, muddled>>

\* Renamed over the target (copyFile); "completed" is emitted before the
\* service is restarted and the row is brought up to date.
PlaceDownload(r) ==
  /\ At(r, "place") /\ ~ Is(r, "upload")
  /\ bin' = req[r].got
  /\ Emit(r, "completed", req[r].claim)
  /\ EndInstall(r)
  /\ crossed' = Overwritten(r)
  /\ muddled' = (muddled \/ Is(r, "stream"))
  /\ UNCHANGED <<linux, remote, files, svc, hashed>>

\* Every step can fail; the download is removed from its creation to its
\* extraction.
InstallFails(r) ==
  /\ req[r].pc \in {"fetch", "create", "fill", "verify", "extract", "place"}
  /\ path' = IF req[r].pc \in {"fetch", "place"} THEN path ELSE None
  /\ row' = IF Is(r, "stream") THEN row ELSE [row EXCEPT !.status = "failed"]
  /\ Become(r, Idle)
  /\ crossed' = (IF path' = path THEN crossed ELSE Touched(r)) \ {r}
  /\ UNCHANGED <<linux, remote, disk, bin, svc, hashed, muddled>>

-----------------------------------------------------------------------------
(* The end of a run, and uploads.                                          *)

\* ServiceManager.Restart ends what runs and starts what is installed.
\* Mutant: it finds the service running and leaves it.
StartOnly(r) ==
  /\ At(r, "restart")
  /\ svc' = IF svc = None THEN bin ELSE svc
  /\ Go(r, "finish")
  /\ UNCHANGED <<linux, remote, files, bin, row, hashed, history>>
RestartService(r) ==
  /\ At(r, "restart")
  /\ svc' = IF Is(r, "upload") /\ svc = None THEN None ELSE bin
  /\ Go(r, "finish")
  /\ UNCHANGED <<linux, remote, files, bin, row, hashed, history>>

\* An upload does not look at the error.
RestartFails(r) ==
  /\ At(r, "restart")
  /\ svc' = None
  /\ IF Is(r, "upload")
       THEN Go(r, "finish") /\ UNCHANGED row
       ELSE Become(r, Idle) /\ row' = [row EXCEPT !.status = "failed"]
  /\ crossed' = IF Is(r, "upload") THEN crossed ELSE crossed \ {r}
  /\ UNCHANGED <<linux, remote, files, bin, hashed, muddled>>

FinishRun(r) ==
  /\ At(r, "finish") /\ Is(r, "run")
  /\ row' = [status |-> "completed", claim |-> req[r].claim,
             inst |-> req[r].claim.ver, instSrc |-> req[r].claim.src]
  /\ Become(r, Idle)
  /\ muddled' = (r \in crossed \/ ~ linux) /\ crossed' = crossed \ {r}
  /\ UNCHANGED <<linux, remote, files, bin, svc, hashed>>

\* Mutant: an upload leaves the digests of the download it replaces.
UploadKeepsClaim(r, u) ==
  /\ MayBegin(r, "upload")
  /\ row' = [row EXCEPT !.status = "running", !.claim.src = "local"]
  /\ Become(r, [Idle EXCEPT !.pc = "place", !.kind = "upload", !.got = u])
  /\ UNCHANGED <<linux, remote, files, bin, svc, hashed, history>>
BeginUpload(r, u) ==
  /\ MayBegin(r, "upload")
  /\ row' = [row EXCEPT !.status = "running", !.claim = Unverified(None, "local")]
  /\ Become(r, [Idle EXCEPT !.pc = "place", !.kind = "upload", !.got = u])
  /\ UNCHANGED <<linux, remote, files, bin, svc, hashed, history>>

PlaceUpload(r) ==
  /\ At(r, "place") /\ Is(r, "upload")
  /\ bin' = req[r].got
  /\ Go(r, "restart")
  /\ crossed' = Overwritten(r)
  /\ UNCHANGED <<linux, remote, files, svc, row, hashed, muddled>>

\* Mutant: the digest of the replaced download stays.
FinishKeepsDigest(r) ==
  /\ At(r, "finish") /\ Is(r, "upload")
  /\ row' = [row EXCEPT !.status = "completed", !.claim = Unverified(None, "local")]
  /\ Become(r, Idle)
  /\ muddled' = (r \in crossed) /\ crossed' = crossed \ {r}
  /\ UNCHANGED <<linux, remote, files, bin, svc, hashed>>
FinishUpload(r) ==
  /\ At(r, "finish") /\ Is(r, "upload")
  /\ row' = [status |-> "completed", claim |-> Unverified(None, "local"),
             inst |-> None, instSrc |-> "local"]
  /\ Become(r, Idle)
  /\ muddled' = (r \in crossed) /\ crossed' = crossed \ {r}
  /\ UNCHANGED <<linux, remote, files, bin, svc, hashed>>

-----------------------------------------------------------------------------
(***************************************************************************)
(* handleComponentUpdateCheck: read the row, ask for the release, write    *)
(* the row.  What the row says of the installed binary is written back.    *)
(***************************************************************************)
BeginCheck(r) ==
  /\ MayBegin(r, "check")
  /\ LET backfill == row.inst = None /\ row.claim.verified /\ row.claim.ver # None
                       /\ row.claim.src = "github"
     IN Become(r, [Idle EXCEPT !.pc = "check", !.claim = row.claim,
                     !.inst = IF backfill THEN row.claim.ver ELSE row.inst,
                     !.instSrc = IF backfill THEN "github" ELSE row.instSrc])
  /\ UNCHANGED <<linux, remote, files, bin, svc, row, hashed, history>>

\* preservedComponentVerification; whether the installed version is the
\* release's is for the version strings to say.
Preserved(claim, d, hasUpdate) ==
  ~ hasUpdate /\ claim.verified /\ claim.src = "github" /\ claim.dl = d
              /\ claim.ver \in {None, d}

\* The release has the asset, lacks it, or cannot be asked for.
CheckOutcomes(r) ==
  { [status |-> "checked",
     claim |-> IF Preserved(req[r].claim, remote, hasUpdate)
                 THEN Verified(remote) ELSE Unverified(remote, "github"),
     inst |-> req[r].inst, instSrc |-> req[r].instSrc]
      : hasUpdate \in IF bin = None THEN {TRUE} ELSE BOOLEAN }
  \cup { [status |-> "failed", claim |-> c, inst |-> req[r].inst, instSrc |-> req[r].instSrc]
      : c \in {Unverified(None, "none"), [row.claim EXCEPT !.verified = FALSE]} }

EndCheck(r) ==
  /\ At(r, "check")
  /\ row' \in CheckOutcomes(r)
  /\ Become(r, Idle)
  /\ UNCHANGED <<linux, remote, files, bin, svc, hashed, history>>

-----------------------------------------------------------------------------
Publish ==
  /\ remote' \in Assets \ {remote}
  /\ UNCHANGED <<linux, files, bin, svc, row, req, hashed, history>>

\* Start and Stop requests, and a service that ends by itself.
StartService ==
  /\ svc = None /\ bin # None
  /\ svc' = bin
  /\ UNCHANGED <<linux, remote, files, bin, row, req, hashed, history>>
StopService ==
  /\ svc # None
  /\ svc' = None
  /\ UNCHANGED <<linux, remote, files, bin, row, req, hashed, history>>

Crash ==
  /\ MayCrash /\ \E r \in Requests : ~ Free(r)
  /\ req' = [r \in Requests |-> Idle]
  /\ crossed' = {} /\ muddled' = (muddled \/ Placed # {})
  /\ UNCHANGED <<linux, remote, files, bin, svc, row, hashed>>

Handler(r) ==
  \/ BeginRun(r) \/ Announce(r) \/ BeginStream(r)
  \/ SkipAsset(r) \/ FetchAsset(r) \/ CreateFile(r) \/ FillFile(r) \/ CloseFile(r) \/ VerifyFile(r)
  \/ ExtractFile(r) \/ PlaceDownload(r) \/ InstallFails(r)
  \/ RestartService(r) \/ RestartFails(r) \/ FinishRun(r)
  \/ (\E u \in Uploads : BeginUpload(r, u)) \/ PlaceUpload(r) \/ FinishUpload(r)
  \/ BeginCheck(r) \/ EndCheck(r)

Next == (\E r \in Requests : Handler(r)) \/ Publish \/ StartService \/ StopService \/ Crash

Spec == Init /\ [][Next]_vars

-----------------------------------------------------------------------------
(* Properties.                                                             *)

HonestClaim(c, known) == c.verified => c.src = "github" /\ c.ver \in known
HonestInst(d, s, known) == d # None => s = "github" /\ d \in known

\* Whatever requests race and wherever the process ends, the row calls nothing
\* verified that was uploaded, and no digest verified that no request computed
\* (handlers_update.go:464-525, component_upload.go:65-84, CHANGELOG.md:89).
ProvenanceHonest ==
  HonestClaim(row.claim, hashed) /\ HonestInst(row.inst, row.instSrc, hashed)

\* What requests hold of the row, and will write back.
HonestRequest(q, known) ==
  /\ HonestClaim(q.claim, known)
  /\ HonestInst(q.inst, q.instSrc, known)
  /\ q.kind # "check" /\ q.claim.ver # None => q.claim.verified

CarriesHonest == \A r \in Requests : HonestRequest(req[r], hashed)

IInv == TypeOK /\ ProvenanceHonest /\ CarriesHonest

\* What a download installs is what that request verified: "install only after
\* the downloaded file hash matches" (CHANGELOG.md:87, downloader.go:144-193).
ExtractedIsVerified ==
  \A r \in Requests :
    At(r, "place") /\ ~ Is(r, "upload") => req[r].got = req[r].claim.ver

\* However installs overlap, it can only fail for one whose download another
\* install touched between the hash and the extraction (downloader.go:144-193).
UncrossedIsVerified ==
  \A r \in Requests \ crossed :
    At(r, "place") /\ ~ Is(r, "upload") => req[r].got = req[r].claim.ver

NamesBinary ==
  \/ row.inst # None /\ bin = row.inst
  \/ row.inst = None /\ row.claim.src = "local" /\ bin \in Uploads

\* A row that says completed, with no install in flight, names the installed
\* binary, by its digest or as a local upload (handlers_update.go:550,
\* component_upload.go:83), unless the last install to write it was crossed or
\* installed nothing (not on Linux), or a stream install or a crash left a
\* binary the row was never told of.
CompletedNames == Quiet /\ row.status = "completed" /\ ~ muddled => NamesBinary

\* An update that found the service running, and an upload, end with it running
\* the new binary or not at all, if no other install has replaced the binary
\* since (handlers_update.go:505-540, component_upload.go:79-82).
UncrossedRunsNew ==
  \A r \in Requests \ crossed :
    At(r, "finish") /\ (req[r].was \/ Is(r, "upload")) => svc \in {None, bin}
=============================================================================

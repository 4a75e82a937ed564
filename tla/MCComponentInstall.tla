-------------------------- MODULE MCComponentInstall --------------------------
(***************************************************************************)
(* Instances of ComponentInstall for TLC.  InsRace has two scenes in one   *)
(* run, and installs overlap in both: everything a client can ask for, on  *)
(* one release, where the process may end; or runs of two releases, one    *)
(* published while the other is installed, each served what it asks for.   *)
(***************************************************************************)
EXTENDS ComponentInstall, TLC

VARIABLE scene

Symmetry == Permutations(Requests) \cup Permutations(Assets) \cup Permutations(Inodes)

OneRelease == \A r \in Requests : req[r].served \in {None, remote}
RunsOnly ==
  /\ linux
  /\ \A r \in Requests : ~ Free(r) => Is(r, "run") /\ req[r].served \in {None, req[r].want}

SceneInit ==
  /\ Init
  /\ scene \in {"kinds", "releases"}
  /\ scene = "releases" => RunsOnly

SceneNext ==
  /\ \/ scene = "kinds" /\ (Crash \/ \E r \in Requests : Handler(r)) /\ OneRelease'
     \/ scene = "releases" /\ (Publish \/ \E r \in Requests : Handler(r)) /\ RunsOnly'
     \/ StartService \/ StopService
  /\ UNCHANGED scene

SceneSpec == SceneInit /\ [][SceneNext]_<<vars, scene>>
=============================================================================

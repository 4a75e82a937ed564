------------------------- MODULE MCServiceManager -------------------------
(* Instances of ServiceManager for TLC. *)
EXTENDS ServiceManager, TLC

CONSTANTS mosdns, mihomo

BothServices == <<mosdns, mihomo>>
OneService == <<mosdns>>

Symmetry == Permutations(Pids) \cup Permutations(Reqs)
=============================================================================

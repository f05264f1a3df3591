--------------------------- MODULE MCOrchestrator ---------------------------
(* Orchestrator on small instances; the .cfg files give the constants.     *)
EXTENDS Orchestrator, TLC

(* Bound of the two-process run: interleavings are followed until this     *)
(* many artifacts are saved, by the two processes together.  The exam spec *)
(* is one and a remote stage three, so that seven are two stages at most   *)
(* and no item is validated.                                               *)
CONSTANT MaxArtifacts
FewArtifacts == Len(store) <= MaxArtifacts

(* Processes are interchangeable.                                          *)
ProcSymmetry == Permutations(Procs)
=============================================================================

--------------------------- MODULE MCArtifactStore ---------------------------
(* ArtifactStore on small instances; the .cfg files give the constants.    *)
EXTENDS ArtifactStore, TLC

(* Processes and artifacts are interchangeable.                            *)
Symmetry == Permutations(Procs) \cup Permutations(Ids)
=============================================================================

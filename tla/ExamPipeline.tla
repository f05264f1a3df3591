---------------------------- MODULE ExamPipeline ----------------------------
(***************************************************************************)
(* What a generation run promises to whoever reads its state file: stages  *)
(* are delivered one at a time, each only after every stage it is computed *)
(* from, a delivered stage is never withdrawn, and the bundle of the last  *)
(* stage is published once, after everything it is made of.                *)
(***************************************************************************)

CONSTANTS
  Stages,     (* the stages of the run                                      *)
  Last,       (* the stage whose output is published                        *)
  Needs(_)    (* the stages a stage is computed from                        *)

VARIABLES
  done,       (* the stages that have an output                             *)
  published   (* whether the run has a bundle                               *)

Init ==
  /\ done = {}
  /\ published = FALSE

Deliver(k) ==
  /\ k \notin done
  /\ Needs(k) \subseteq done
  /\ done' = done \cup {k}
  /\ UNCHANGED published

Publish ==
  /\ ~ published
  /\ Needs(Last) \subseteq done
  /\ done' = done \cup {Last}
  /\ published' = TRUE

Next == Publish \/ \E k \in Stages : Deliver(k)

Spec == Init /\ [][Next]_<<done, published>>
=============================================================================

---------------------------- MODULE MCReviewLoop ----------------------------
(* ReviewLoop on small instances; the .cfg files give the constants. *)
EXTENDS ReviewLoop
=============================================================================

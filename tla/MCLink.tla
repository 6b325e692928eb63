------------------------------- MODULE MCLink -------------------------------
(* Instances of Link. *)
EXTENDS Link
=============================================================================

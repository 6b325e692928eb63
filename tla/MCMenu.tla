------------------------------- MODULE MCMenu -------------------------------
(* Instances of Menu. *)
EXTENDS Menu
=============================================================================

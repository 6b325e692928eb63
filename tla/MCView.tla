------------------------------- MODULE MCView -------------------------------
(* An instance of View. *)
EXTENDS View

(* Ghosts and NPCs share nothing but the session and the place of the      *)
(* player, so a session has poses of the one kind or of the other.         *)
OneKind == latestPose = <<>> \/ latestActors = <<>>
=============================================================================

------------------------------ MODULE MCBlobs ------------------------------
(* Two plugins.  Forms 1 and 2 are the game's own, 5 is form 1 of the mod; *)
(* form 3 may not be worn.                                                 *)
EXTENDS Blobs

TwoPlugins == [game |-> 0, mod |-> 1]
TwoOutfits == {<<2, 1>>, <<1, 3, 2>>}
ModOutfits == {<<2>>, <<5>>}
AppPeriod == [app |-> 1]
BothPeriods == [app |-> 2, inv |-> 3]
=============================================================================

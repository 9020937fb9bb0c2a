---------------------------- MODULE MCPortProfile -----------------------------
(* A native network and three that come and go. *)
EXTENDS PortProfile, TLC

CONSTANTS default, cams, iot, guest

MCNet == {default, cams, iot, guest}
Symmetry == Permutations({cams, iot, guest})
=============================================================================

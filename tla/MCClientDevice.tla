---------------------------- MODULE MCClientDevice ----------------------------
(* One device, one group it joins and leaves, one icon. *)
EXTENDS ClientDevice

CONSTANTS i1, i2, i3, plugs, bulb

MCId == {i1, i2, i3}
MCGroup == {plugs}
MCIcon == {bulb}
=============================================================================

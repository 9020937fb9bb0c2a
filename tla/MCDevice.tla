------------------------------ MODULE MCDevice ------------------------------
(* An access point with one of the two radios the configuration may mention. *)
EXTENDS Device, TLC

CONSTANTS name, led, contact, ng, ax, channel, width, a, b

MCText == {name, led, contact}
MCAlways == {name}
MCLed == {led}
MCBand == {ng, ax}
MCPresent == {ng}
MCField == {channel, width}
MCValue == {a, b}
Symmetry == Permutations(MCValue)
=============================================================================

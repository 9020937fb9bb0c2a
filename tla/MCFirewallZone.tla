---------------------------- MODULE MCFirewallZone ----------------------------
(* Two zones between which two networks move, under every plan. *)
EXTENDS FirewallZone

CONSTANTS internal, iot, lan, cams

MCZone == {internal, iot}
MCNet == {lan, cams}
=============================================================================

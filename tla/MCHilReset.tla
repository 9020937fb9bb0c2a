------------------------------ MODULE MCHilReset ------------------------------
(* A baseline client, a device and, for some commits, a network; a group, a client of it *)
(* and a policy with a schedule of mode CUSTOM.                                          *)
EXTENDS HilReset

CONSTANTS runner, lab, group, client, policy, device, zone, ports

MCObject == {runner, lab, group, client, policy, device, zone, ports}
MCBaselines == {{runner, device}, {runner, device, lab}}
MCAdopted == {runner, device, lab}
MCDevice == {device}
MCBuiltIn == {zone}
MCClient == {runner, client}
MCTagged == {client}
MCLasting == {ports}
MCInvalid == {policy}
MCClashing == {{group, ports}}
MCRefs == {<<client, group>>}
=============================================================================

---------------------------- MODULE MCDevicePorts -----------------------------
(* A switch with two ports.  Port p1 may be configured and starts with any    *)
(* VLAN keys, beside a PoE setting or beside a profile and a name; p2 is      *)
(* never planned and starts with a name or with a voice VLAN.                 *)
EXTENDS DevicePorts

CONSTANTS p1, p2, desk, trunk, iot

MCPort == {p1, p2}
MCConfigured == {p1}
Named == [Blank EXCEPT !.name = desk]
Voice == [Named EXCEPT !.voice = TRUE, !.native = iot, !.forward = "native"]
FirstPort ==
    {e \in Entry : /\ e.lists = (e.tagged # None)
                   /\ e.voice => e.native # None /\ e.tagged = None
                   /\ \/ e.prof = None /\ e.name = None /\ e.other
                      \/ e.prof = trunk /\ e.name = desk /\ ~e.other /\ e.tagged = None}
MCGiven == {[p \in MCPort |-> IF p = p1 THEN e ELSE f] : e \in FirstPort, f \in {Named, Voice}}
MCEdited == {Voice}
=============================================================================

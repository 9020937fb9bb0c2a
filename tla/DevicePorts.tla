------------------------------ MODULE DevicePorts ------------------------------
(***************************************************************************)
(* terrifi_device_ports: the port settings of one device.                  *)
(*                                                                         *)
(* The controller keeps one array, port_overrides, for the whole device    *)
(* and a PUT replaces all of it.  A resource owns only the ports in its    *)
(* map, so every write reads the array, merges its ports into it and puts  *)
(* the result back, while the UI and others edit the same array.           *)
(*                                                                         *)
(* The array is a function from the ports that have an entry to entries,   *)
(* Gone once the device is no longer adopted; a JSON key that an entry     *)
(* lacks is None.                                                          *)
(***************************************************************************)
EXTENDS Naturals

CONSTANTS
    Port,         \* port numbers
    PhysicalPort, \* ports the device really has
    WanPort,      \* gateway ports with a WAN role
    FlexMini,     \* the device is a USW Flex Mini
    Name, Profile,
    Network,      \* network ids
    LanNetwork,   \* those that are LAN networks
    VlanNetwork,  \* those with a VLAN of their own
    Configured,   \* ports the configuration may list
    Given,        \* arrays the device may have before Terraform knows it
    Edited,       \* entries others give a port
    None,         \* a null attribute, an absent key
    Release,      \* a nil *portWant: the port is given back
    Untracked,    \* the resource is not in the Terraform state
    Gone,         \* the device is not adopted
    MaxOutside    \* bound: edits by others

VARIABLES
    overrides, \* controller: port_overrides
    state,     \* Terraform state: the ports map, or Untracked
    config,    \* the planned ports map, or Untracked when it is to be destroyed
    pc,        \* "idle", or "put" between a write's GET and its PUT
    snap,      \* the array that GET returned
    \* History variables.
    edits,     \* edits made by others so far
    touched,   \* ports others changed since that GET
    clean,     \* nothing happened behind the state since it was written
    first,     \* the array at the start
    owned      \* ports that were ever configured, edited or already written

vars == <<overrides, state, config, pc, snap, edits, touched, clean, first, owned>>

\* An entry of port_overrides.  lists stands for the keys inlineVLANKeys clears
\* besides the named ones; other for every setting the provider never reads (PoE).
Tagged == {"auto", "block_all", "custom"}
Forward == {"all", "native", "customize", "disabled"}
Entry == [name : Name \cup {None}, prof : Profile \cup {None},
          native : Network \cup {None}, tagged : Tagged \cup {None},
          forward : Forward \cup {None}, voice : BOOLEAN, lists : BOOLEAN, other : BOOLEAN]
Blank == [name |-> None, prof |-> None, native |-> None, tagged |-> None,
          forward |-> None, voice |-> FALSE, lists |-> FALSE, other |-> FALSE]

\* The attributes of one port in the configuration and in the state.
Mode == {"allow_all", "block_all"}
Model == [name : Name \cup {None}, prof : Profile \cup {None},
          native : Network \cup {None}, mode : Mode \cup {None}]
NullModel == [name |-> None, prof |-> None, native |-> None, mode |-> None]

IsArray(a) == DOMAIN a \subseteq Port /\ a \in [DOMAIN a -> Entry]
IsPorts(m) == DOMAIN m \subseteq Port /\ m \in [DOMAIN m -> Model]

ASSUME InputAssumption == /\ MaxOutside \in Nat
                          /\ Configured \subseteq Port
                          /\ \A a \in Given : IsArray(a)
                          /\ Edited \subseteq Entry

\* An attribute or a port that is not wanted is told from every one that is.
ASSUME NoValueAssumption == /\ None \notin Mode \cup Tagged
                            /\ Release \notin [model : Model, reset : BOOLEAN]

(***************************************************************************)
(* Reading entries (internal/unifi/device_ports.go).                       *)
(***************************************************************************)

\* portVLANSettings: a profile hides cached inline settings.
VLANSettings(e) ==
    IF e.prof # None
    THEN [native |-> None, mode |-> None, forward |-> None]
    ELSE [native |-> e.native,
          mode |-> CASE e.tagged = "auto" -> "allow_all"
                     [] e.tagged = None /\ e.native # None /\ e.forward = "native" -> "block_all"
                     [] e.tagged = None /\ e.native # None /\ e.forward = "all" -> "allow_all"
                     [] OTHER -> e.tagged,
          forward |-> e.forward]

\* UnsupportedPortVLANReason: the schema has no way to say what the entry says.
Unsupported(e) ==
    LET s == VLANSettings(e) IN
    \/ e.forward = "disabled"
    \/ e.prof = None /\ e.voice
    \/ /\ ~(s.native = None /\ s.mode = None /\ s.forward \in {None, "all"})
       /\ s.mode \notin Mode \/ s.native = None

\* portsFromOverrides for one entry.
FromEntry(e) ==
    LET s == VLANSettings(e) IN
    [name |-> e.name, prof |-> e.prof,
     native |-> IF Unsupported(e) THEN None ELSE s.native,
     mode |-> IF Unsupported(e) THEN None ELSE s.mode]

\* Mutant: a name or a profile is enough to import a port.
ImportableWithName(e) == ~Unsupported(e) \/ e.name # None

\* importableDevicePortOverrides keeps an entry only if all of it can be represented.
Importable(e) == ~Unsupported(e)

\* portsToModel with a nil prior, after import: ports with something to say.
ImportedPorts(array) ==
    LET kept == {p \in DOMAIN array : Importable(array[p])
                                      /\ LET m == FromEntry(array[p])
                                         IN m.name # None \/ m.prof # None \/ m.native # None}
    IN [p \in kept |-> FromEntry(array[p])]

\* portsToModel with the prior state: exactly its ports; inline VLAN settings are
\* reported for a port whose state has them.
ReadPorts(array, prior) ==
    [p \in DOMAIN prior |->
        IF p \notin DOMAIN array THEN NullModel
        ELSE LET m == FromEntry(array[p]) IN
             IF prior[p].native # None THEN m
             ELSE [m EXCEPT !.native = None, !.mode = None]]

(***************************************************************************)
(* Writing entries (device_ports_api.go).                                  *)
(***************************************************************************)

\* validateDevicePortModels: a profile, or native network and mode, or neither.
ValidModel(m) ==
    /\ m.prof # None => m.native = None /\ m.mode = None
    /\ m.native = None <=> m.mode = None

\* portWants: what the planned ports need, and Release for those only in prior.
PortWants(planned, prior) ==
    [p \in DOMAIN planned \cup DOMAIN prior |->
        IF p \notin DOMAIN planned THEN Release
        ELSE [model |-> planned[p],
              reset |-> /\ p \in DOMAIN prior
                        /\ prior[p].native # None
                        /\ planned[p].native = None]]

\* Mutant: only the keys about to be written are cleared.
ClearVLANKeepingVoice(e) ==
    [e EXCEPT !.native = None, !.tagged = None, !.forward = None]

\* inlineVLANKeys
ClearVLAN(e) ==
    [e EXCEPT !.native = None, !.tagged = None, !.forward = None,
              !.voice = FALSE, !.lists = FALSE]

\* Mutant: the schema's word is sent.
TaggedVerbatim(mode) == mode

TaggedKey(mode) == IF mode = "block_all" THEN "block_all" ELSE "auto"

\* Mutant: an entry with a profile is taken to have no inline settings to clear.
ClearsInline(e, w) == e.prof = None /\ (w.reset \/ w.model.native # None)

\* A mode is planned, or inline settings are given up.
ClearsVLAN(e, w) == w.reset \/ w.model.native # None

\* One port of mergePortOverrides, from its current entry (Blank if it has none).
MergeEntry(e, w) ==
    LET m == w.model
        profiled == IF m.prof # None THEN [Blank EXCEPT !.prof = m.prof]
                    ELSE [e EXCEPT !.prof = None]
        cleared == IF ClearsVLAN(e, w) THEN ClearVLAN(profiled) ELSE profiled
        tagged == IF m.native # None /\ m.mode # None
                  THEN [cleared EXCEPT !.native = m.native, !.lists = TRUE,
                          !.tagged = TaggedKey(m.mode),
                          !.forward = IF m.mode = "block_all" THEN "native" ELSE "all"]
                  ELSE cleared
    IN [tagged EXCEPT !.name = m.name]

EntryAt(array, p) == IF p \in DOMAIN array THEN array[p] ELSE Blank

\* Mutant: the new array is built from the wanted ports alone.
MergeWantedOnly(array, want) ==
    [p \in {q \in DOMAIN want : want[q] # Release} |-> MergeEntry(EntryAt(array, p), want[p])]

\* mergePortOverrides: released ports and entries left with only port_idx go.
Merge(array, want) ==
    LET written == {p \in DOMAIN want : /\ want[p] # Release
                                        /\ MergeEntry(EntryAt(array, p), want[p]) # Blank}
    IN [p \in (DOMAIN array \ DOMAIN want) \cup written |->
           IF p \in written THEN MergeEntry(EntryAt(array, p), want[p]) ELSE array[p]]

\* checkPortsAssignable and validatePortNetworks.
Assignable(want) ==
    \A p \in DOMAIN want : want[p] # Release =>
        LET m == want[p].model IN
        /\ p \in PhysicalPort
        /\ FlexMini => m.prof = None
        /\ p \in WanPort => m.prof = None /\ m.native = None
        /\ m.native # None => m.native \in LanNetwork
        /\ FlexMini /\ m.mode = "allow_all" => m.native \notin VlanNetwork

(***************************************************************************)
(* The resource.                                                           *)
(***************************************************************************)

NoEntries == [p \in {} |-> Blank]
NoPorts == [p \in {} |-> NullModel]

TypeOK ==
    /\ overrides = Gone \/ IsArray(overrides)
    /\ IsArray(snap) /\ IsArray(first)
    /\ state = Untracked \/ IsPorts(state)
    /\ config = Untracked \/ IsPorts(config)
    /\ pc \in {"idle", "put"}
    /\ edits \in 0..MaxOutside
    /\ touched \subseteq Port /\ owned \subseteq Port
    /\ clean \in BOOLEAN

Init ==
    /\ overrides \in Given
    /\ state = Untracked /\ config = Untracked
    /\ pc = "idle" /\ snap = NoEntries
    /\ edits = 0 /\ touched = {} /\ clean = TRUE
    /\ first = overrides
    /\ owned = {}

PortsOf(s) == IF s = Untracked THEN NoPorts ELSE s

\* ImportState and the Read that follows it; the configuration is written to match.
Import ==
    /\ pc = "idle" /\ state = Untracked /\ overrides # Gone
    /\ state' = ImportedPorts(overrides)
    /\ config' = state'
    /\ clean' = TRUE
    /\ UNCHANGED <<overrides, pc, snap, edits, touched, first, owned>>

\* Read: the refresh before a plan.
Read ==
    /\ pc = "idle" /\ state # Untracked
    /\ state' = IF overrides = Gone THEN Untracked ELSE ReadPorts(overrides, state)
    /\ clean' = TRUE
    /\ UNCHANGED <<overrides, config, pc, snap, edits, touched, first, owned>>

\* The user changes the configuration; an invalid port is refused.
Plan(ports) ==
    /\ pc = "idle"
    /\ \A p \in DOMAIN ports : ValidModel(ports[p])
    /\ config' = ports
    /\ owned' = owned \cup DOMAIN ports
    /\ UNCHANGED <<overrides, state, pc, snap, edits, touched, clean, first>>

\* The configuration drops the resource.
PlanDestroy ==
    /\ pc = "idle"
    /\ config' = Untracked
    /\ UNCHANGED <<overrides, state, pc, snap, edits, touched, clean, first, owned>>

Wants == PortWants(PortsOf(config), PortsOf(state))

\* Create, Update and Delete up to the PUT: a fresh GET and the checks.  A device
\* that is gone or a failed check ends them with an error and no change.
Get ==
    /\ pc = "idle" /\ config # state
    /\ overrides # Gone
    /\ DOMAIN Wants # {} /\ Assignable(Wants)
    /\ pc' = "put" /\ snap' = overrides /\ touched' = {}
    /\ UNCHANGED <<overrides, state, config, edits, clean, first, owned>>

\* A write with no ports makes no PUT; Delete takes a missing device for success.
WriteNothing ==
    /\ pc = "idle" /\ config # state
    /\ IF overrides = Gone THEN config = Untracked ELSE DOMAIN Wants = {}
    /\ state' = config
    /\ UNCHANGED <<overrides, config, pc, snap, edits, touched, clean, first, owned>>

PutEnds ==
    /\ pc = "put"
    /\ pc' = "idle" /\ snap' = NoEntries /\ touched' = {}
    /\ owned' = owned \cup touched
    /\ UNCHANGED <<config, edits, first>>

\* PutPortOverrides is answered: Create and Update store the plan, Delete forgets.
Put ==
    /\ PutEnds
    /\ overrides # Gone
    /\ overrides' = Merge(snap, Wants)
    /\ state' = config
    /\ clean' = TRUE

\* The PUT fails, or its answer is lost after it was applied: the state stays,
\* except that Delete takes a 404 for success.
PutFails ==
    /\ PutEnds
    /\ overrides' \in IF overrides = Gone THEN {Gone} ELSE {overrides, Merge(snap, Wants)}
    /\ clean' = (clean /\ overrides' = overrides)
    /\ \/ UNCHANGED state
       \/ overrides = Gone /\ config = Untracked /\ state' = Untracked

\* Somebody else gives port p the entry e.
Edit(p, e) ==
    /\ edits < MaxOutside /\ overrides # Gone
    /\ overrides' = [q \in DOMAIN overrides \cup {p} |-> IF q = p THEN e ELSE overrides[q]]
    /\ edits' = edits + 1
    /\ touched' = IF pc = "put" THEN touched \cup {p} ELSE touched
    /\ clean' = FALSE
    /\ owned' = owned \cup {p}
    /\ UNCHANGED <<state, config, pc, snap, first>>

\* Somebody forgets the device.
Forget ==
    /\ edits < MaxOutside /\ overrides # Gone
    /\ overrides' = Gone
    /\ edits' = edits + 1
    /\ clean' = FALSE
    /\ UNCHANGED <<state, config, pc, snap, touched, first, owned>>

Configs == UNION {[D -> Model] : D \in SUBSET Configured}

Next ==
    \/ Import
    \/ Read
    \/ \E ports \in Configs : Plan(ports)
    \/ PlanDestroy
    \/ Get
    \/ WriteNothing
    \/ Put
    \/ PutFails
    \/ \E p \in Port, e \in Edited : Edit(p, e)
    \/ Forget

Spec == Init /\ [][Next]_vars

(***************************************************************************)
(* Properties.                                                             *)
(***************************************************************************)

\* A write changes only the ports it manages or gives back, and those somebody
\* else changed between its GET and its PUT (which it puts back as they were).
\* ("Ports not in want are left untouched", mergePortOverrides)
WriteLeavesOthersAlone ==
    pc = "put" /\ pc' = "idle" /\ overrides # Gone =>
        \A p \in Port \ (DOMAIN Wants \cup touched) :
            /\ p \in DOMAIN overrides <=> p \in DOMAIN overrides'
            /\ p \in DOMAIN overrides => overrides'[p] = overrides[p]
UnlistedPortsUntouched == [][WriteLeavesOthersAlone]_vars

\* What a write or an import stored is what a refresh reads back: no change shows
\* up in the next plan.  (mergePortOverrides against portsToModel)
StateReadsBack ==
    pc = "idle" /\ clean /\ state # Untracked => ReadPorts(overrides, state) = state

\* A port whose settings the schema cannot express survives import, updates and
\* destroy as it was, unless it is configured explicitly or somebody edits it.
\* (importableDevicePortOverrides)
UnsupportedNeverReset ==
    overrides # Gone =>
        \A p \in DOMAIN first \ owned :
            Unsupported(first[p]) => p \in DOMAIN overrides /\ overrides[p] = first[p]

\* Repeating a write whose answer was lost changes nothing: the merge of an array
\* that already has the wanted ports is that array.
RetryIsHarmless ==
    pc = "put" => Merge(Merge(snap, Wants), Wants) = Merge(snap, Wants)
=============================================================================

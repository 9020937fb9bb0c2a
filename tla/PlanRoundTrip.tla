----------------------------- MODULE PlanRoundTrip -----------------------------
(***************************************************************************)
(* The round trip of one resource's attributes, for the six resources      *)
(* that a provider call converts as a whole: firewall policies and groups, *)
(* DNS records, networks, WLANs and port profiles.                         *)
(*                                                                         *)
(* A configuration becomes a plan, the plan a request, the controller's    *)
(* object the new state, which Terraform compares with the plan; and       *)
(* generate-imports turns an object back into a configuration.  None of    *)
(* these conversions (the modules D, G, N, P, S and W) is the identity.    *)
(* What can be written, read back and compared without a difference?       *)
(***************************************************************************)
EXTENDS Naturals

CONSTANTS
    Flag, Respond, Value, Target, Schedule, Foreign,  \* of FirewallPolicy
    Option,                                           \* of DNSRecord
    Switch, Choice, Passphrase,                       \* of WLAN
    Setting, Class, Lan, Amount,                      \* of PortProfileSettings
    Null, Zero, Empty, Unknown,
    Untracked,  \* the resource is not in the Terraform state
    Gone,       \* the object does not exist
    MaxEdits,   \* bound: changes of the configuration
    MaxOutside  \* bound: changes made by others

VARIABLES
    kind,    \* the resource type
    object,  \* the controller's object, or Gone
    config,
    state,
    \* History variables.
    edits, outside,
    plan,    \* what the state answers, Untracked if it is not the answer to the last plan
    removed, \* that plan removed an attribute the provider keeps
    unsure   \* somebody, or an apply without an answer, may have changed the passphrase

vars == <<kind, object, config, state, edits, outside, plan, removed, unsure>>

D == INSTANCE DNSRecord
G == INSTANCE FirewallGroup
N == INSTANCE Network
P == INSTANCE FirewallPolicy
S == INSTANCE PortProfileSettings
W == INSTANCE WLAN

Kind == {"dns_record", "firewall_group", "network", "firewall_policy", "port_profile", "wlan"}

ASSUME InputAssumption ==
    /\ Respond \in Flag /\ Value # {} /\ Passphrase # {}
    /\ Option \subseteq {"port", "priority", "ttl", "weight", "record_type"}
    /\ Target \subseteq [P!TargetField -> P!SetOrNull]
    /\ Schedule \subseteq {Null} \cup P!ScheduleBlock
    /\ MaxEdits \in Nat /\ MaxOutside \in Nat

\* What is absent, unknown or foreign is no value, and what is not there no record.
ASSUME SentinelAssumption ==
    /\ Null \notin {Zero, Empty, Unknown} /\ Zero \notin {Empty, Unknown} /\ Empty # Unknown
    /\ \A s \in {Null, Zero, Empty, Unknown, Foreign} :
          /\ s \notin Value \cup Passphrase \cup Lan \cup Amount
          /\ s \notin BOOLEAN /\ s # N!Day
          /\ s \notin W!Application \cup S!Unit
                 \cup {"usual", "other", "REPLACE_ME", "LAN", "ALWAYS", "EVERY_WEEK", "CUSTOM",
                       "ANY", "IP", "MAC", "IID", "NETWORK", "CLIENT",
                       "auto", "allow_all", "block_all", "custom"}
    /\ \A list \in (SUBSET Value) \cup (SUBSET Lan) : list \notin {Null, Unknown}
    /\ Null \notin P!ScheduleBlock \cup S!Storm
    /\ Untracked \notin D!Model \cup G!Model \cup N!Model \cup P!Model \cup S!Model \cup W!Model
    /\ Gone \notin D!Record \cup G!Model \cup N!Net \cup P!Policy \cup S!Profile \cup W!Wlan

(***************************************************************************)
(* The conversions of the resource at hand.                                *)
(***************************************************************************)

Model ==
    CASE kind = "dns_record" -> D!Model [] kind = "firewall_group" -> G!Model
      [] kind = "network" -> N!Model [] kind = "firewall_policy" -> P!Model
      [] kind = "wlan" -> W!Model [] kind = "port_profile" -> S!Model

Object ==
    CASE kind = "dns_record" -> D!Record [] kind = "firewall_group" -> G!Model
      [] kind = "network" -> N!Net [] kind = "firewall_policy" -> P!Policy
      [] kind = "wlan" -> W!Wlan [] kind = "port_profile" -> S!Profile

Blank(k) ==
    CASE k = "dns_record" -> D!Blank [] k = "firewall_group" -> G!Blank
      [] k = "network" -> N!Blank [] k = "firewall_policy" -> P!Blank
      [] k = "wlan" -> W!Blank [] k = "port_profile" -> S!Blank

Edits ==
    CASE kind = "dns_record" -> D!Edits(config) [] kind = "firewall_group" -> G!Edits(config)
      [] kind = "network" -> N!Edits(config) [] kind = "firewall_policy" -> P!Edits(config)
      [] kind = "wlan" -> W!Edits(config) [] kind = "port_profile" -> S!Edits(config)

OutsideEdits ==
    CASE kind = "dns_record" -> D!OutsideEdits(object)
      [] kind = "firewall_group" -> G!OutsideEdits(object)
      [] kind = "network" -> N!OutsideEdits(object)
      [] kind = "firewall_policy" -> P!OutsideEdits(object)
      [] kind = "wlan" -> W!OutsideEdits(object)
      [] kind = "port_profile" -> S!OutsideEdits(object)

\* Validators, ModifyPlan and the checks Terraform makes of a plan.
Accepted(m) ==
    CASE kind = "dns_record" -> D!Accepted(m) [] kind = "network" -> N!Accepted(m)
      [] kind = "firewall_policy" -> P!Accepted(m) [] kind = "port_profile" -> S!Accepted(m)
      [] OTHER -> TRUE

\* The plan for configuration m on top of state st.
Planned(m, st) ==
    CASE kind = "dns_record" -> D!Planned(m) [] kind = "wlan" -> W!Planned(m)
      [] kind = "network" -> N!Planned(m, st, st = Untracked)
      [] kind = "port_profile" -> S!Planned(m) [] OTHER -> m

\* The plan deletes the object and creates another.
Replaces(p, st) ==
    CASE kind = "dns_record" -> D!Replaces(p, st) [] kind = "firewall_group" -> G!Replaces(p, st)
      [] kind = "network" -> N!Replaces(p, st) [] OTHER -> FALSE

ApplyPlanToState(p, st) ==
    CASE kind = "dns_record" -> D!ApplyPlanToState(p, st)
      [] kind = "firewall_group" -> G!ApplyPlanToState(p, st)
      [] kind = "network" -> N!ApplyPlanToState(p, st)
      [] kind = "firewall_policy" -> P!ApplyPlanToState(p, st)
      [] kind = "wlan" -> W!ApplyPlanToState(p, st)
      [] kind = "port_profile" -> S!ApplyPlanToState(p, st)

Kept(p, st) ==
    CASE kind = "dns_record" -> D!Kept(p, st) [] kind = "network" -> N!Kept(p, st)
      [] OTHER -> {}

\* The objects the controller may have after a request for m.
Written(m) ==
    CASE kind = "dns_record" -> {D!Request(m)}
      [] kind = "firewall_group" -> {G!Request(m)}
      [] kind = "network" -> N!Stored(N!Request(m))
      [] kind = "firewall_policy" ->
            P!Stored(P!Request(m), IF object = Gone THEN {} ELSE object.states)
      [] kind = "wlan" ->
            W!Stored(W!Request(m), IF object = Gone THEN Empty ELSE object.passphrase)
      [] kind = "port_profile" ->
            {S!Stored(S!Request(m, IF object = Gone THEN S!Absent ELSE object))}

\* What is stored for object o; st has the passphrase it leaves alone
\* and the form of the list of networks.
ApiToModel(o, st) ==
    CASE kind = "dns_record" -> D!ApiToModel(o) [] kind = "firewall_group" -> G!ApiToModel(o)
      [] kind = "network" -> N!ApiToModel(o) [] kind = "firewall_policy" -> P!ApiToModel(o)
      [] kind = "wlan" -> W!ApiToModel(o, IF st = Untracked THEN Null ELSE st.passphrase)
      [] kind = "port_profile" ->
            S!ApiToModel(o, IF st = Untracked THEN S!Blank.vlans ELSE st.vlans)

\* The configuration generate-imports writes for o.
Generate(o) ==
    CASE kind = "dns_record" -> D!Generate(o) [] kind = "firewall_group" -> G!Generate(o)
      [] kind = "network" -> N!Generate(o) [] kind = "firewall_policy" -> P!Generate(o)
      [] kind = "wlan" -> W!Generate(o) [] kind = "port_profile" -> S!Generate(o)

(***************************************************************************)
(* Operations.                                                             *)
(***************************************************************************)

Init ==
    /\ kind \in Kind /\ object = Gone /\ state = Untracked /\ config = Blank(kind)
    /\ edits = 0 /\ outside = 0 /\ plan = Untracked /\ removed = FALSE /\ unsure = FALSE

NothingAnswered == plan' = Untracked /\ removed' = FALSE

EditConfig ==
    /\ edits < MaxEdits
    /\ config' \in Edits \ {config}
    /\ edits' = edits + 1 /\ NothingAnswered
    /\ UNCHANGED <<kind, object, state, outside, unsure>>

\* The plan ends with an error, or the request does; nothing is stored.
Refuse ==
    /\ ~Accepted(config)
    /\ UNCHANGED vars

Create ==
    /\ state = Untracked /\ object = Gone /\ Accepted(config)
    /\ plan' = Planned(config, state) /\ removed' = FALSE
    /\ object' \in Written(plan')
    /\ state' = ApiToModel(object', plan')
    /\ unsure' = FALSE
    /\ UNCHANGED <<kind, config, edits, outside>>

\* The whole object is sent and the answer, unless it is lost, becomes the state.
Update ==
    LET p == Planned(config, state)
    IN  /\ state # Untracked /\ object # Gone /\ Accepted(config)
        /\ p # state /\ ~Replaces(p, state)
        /\ object' \in Written(ApplyPlanToState(p, state))
        /\ \/ /\ state' = ApiToModel(object', p) /\ plan' = p /\ removed' = (Kept(p, state) # {})
              /\ unsure' = FALSE
           \/ state' = state /\ NothingAnswered /\ unsure' = (kind = "wlan")
        /\ UNCHANGED <<kind, config, edits, outside>>

\* Read
Refresh ==
    /\ state # Untracked
    /\ state' = IF object = Gone THEN Untracked ELSE ApiToModel(object, state)
    /\ UNCHANGED <<kind, object, config, edits, outside, plan, removed, unsure>>

\* ImportState and the Read that follows it, for the configuration there is or the one
\* generate-imports writes.
Import ==
    /\ state = Untracked /\ object # Gone
    /\ state' = ApiToModel(object, state)
    /\ \/ UNCHANGED <<config, edits>>
       \/ edits < MaxEdits /\ config' = Generate(object) /\ edits' = edits + 1
    /\ NothingAnswered
    /\ UNCHANGED <<kind, object, outside, unsure>>

\* Delete, also as the first half of a replacement; the resource may also be dropped
\* from the state alone.
Delete ==
    /\ state # Untracked
    /\ object' \in {Gone, object}
    /\ state' = Untracked /\ NothingAnswered
    /\ UNCHANGED <<kind, config, edits, outside, unsure>>

\* Somebody edits or deletes the object in the UI.
OutsideEdit ==
    /\ object # Gone /\ outside < MaxOutside
    /\ object' \in (OutsideEdits \cup {Gone}) \ {object}
    /\ outside' = outside + 1 /\ NothingAnswered
    /\ unsure' = (unsure \/ kind = "wlan")
    /\ UNCHANGED <<kind, config, state, edits>>

Next ==
    \/ EditConfig
    \/ Refuse
    \/ Create
    \/ Update
    \/ Refresh
    \/ Import
    \/ Delete
    \/ OutsideEdit

Spec == Init /\ [][Next]_vars

(***************************************************************************)
(* Properties.                                                             *)
(***************************************************************************)

TypeOK ==
    /\ kind \in Kind
    /\ object \in Object \cup {Gone}
    /\ config \in Model
    /\ state \in Model \cup {Untracked}
    /\ kind = "firewall_policy" /\ state # Untracked => P!Canonical(state)
    /\ kind = "network" /\ state # Untracked => N!Canonical(state)
    /\ edits \in 0..MaxEdits /\ outside \in 0..MaxOutside
    /\ plan \in Model \cup {Untracked}
    /\ {removed, unsure} \subseteq BOOLEAN

\* Configurations that have a written form an answer can equal.
Expressible(m) ==
    CASE kind = "dns_record" -> D!Expressible(m) [] kind = "network" -> N!Expressible(m)
      [] kind = "firewall_policy" -> P!Expressible(m) /\ P!PortTypeAsDerived(m)
      [] kind = "port_profile" -> S!Expressible(m)
      [] OTHER -> TRUE

Matches(st, p) == IF kind = "network" THEN N!Matches(st, p) ELSE st = p

\* An apply of such a configuration ends with the state it planned, whatever was in
\* the object before, and the plan after the next refresh is empty: no inconsistent
\* result and no plan that comes back for ever.  Excepted is a plan that removes an
\* attribute of a DNS record or a network which applyPlanToState keeps.
\* (Create, Update, Read of the six resources)
ApplyIsConsistent ==
    plan # Untracked /\ Expressible(config) /\ ~removed =>
        /\ Matches(state, plan)
        /\ LET st == ApiToModel(object, state) IN Planned(config, st) = st

Shown(o) ==
    CASE kind = "network" -> N!Shown(o) [] kind = "firewall_policy" -> P!Shown(o)
      [] kind = "wlan" -> W!Shown(o) [] kind = "port_profile" -> S!Shown(o) [] OTHER -> TRUE

InForce(o, p) ==
    CASE kind = "network" -> N!InForce(o, p) [] kind = "firewall_policy" -> P!InForce(o, p)
      [] kind = "wlan" -> W!InForce(o, p) [] kind = "port_profile" -> S!InForce(o, p)
      [] kind = "dns_record" -> o = D!Request(p) [] kind = "firewall_group" -> o = G!Request(p)

\* The passphrase is read by nobody, so what is in force is known only after an
\* apply that was answered.
PassphraseInForce ==
    kind = "wlan" /\ ~unsure => config.passphrase \in {Null, object.passphrase}

\* A plan that shows no difference after a refresh means that the configuration is in
\* force, also after others edited the object, unless it has what the provider cannot
\* show (a foreign target, a range of ports, a network switched off, ...).
\* (Read, apiToModel, isDefaultSchedule, parsePort, populateTypedEndpointFields)
NoDiffMeansInForce ==
    object # Gone /\ state # Untracked /\ Shown(object) =>
        LET st == ApiToModel(object, state)
            p == Planned(config, st)
        IN  p = st => InForce(object, p) /\ PassphraseInForce

Restorable(o) ==
    CASE kind = "dns_record" -> D!Restorable(o)
      [] kind = "network" -> N!Restorable(o) [] kind = "firewall_policy" -> P!Restorable(o)
      [] kind = "port_profile" -> S!Restorable(o)
      [] OTHER -> TRUE

\* The blocks generate-imports writes for an object are a valid configuration, and
\* importing with them plans no change, but for the placeholder of a passphrase and for
\* what the blocks cannot keep (the date range of a schedule, ...).
\* (DNSRecordBlocks, FirewallGroupBlocks, FirewallPolicyBlocks, NetworkBlocks, WLANBlocks,
\* PortProfileBlocks)
GeneratedBlockPlansNothing ==
    object # Gone /\ Restorable(object) =>
        LET st == ApiToModel(object, Untracked)
            p == Planned(Generate(object), st)
        IN  /\ Accepted(Generate(object))
            /\ IF kind = "wlan"
               THEN W!WithoutPassphrase(p) = W!WithoutPassphrase(st) ELSE p = st

\* "This function auto-derives the value from what's set, so users don't need to
\* specify port_matching_type explicitly."  (resolvePortMatchingType)
PortTypeNeedNotBeSet ==
    kind = "firewall_policy" /\ plan # Untracked /\ P!Expressible(config)
        /\ config.portType = "ANY"
        /\ (config.port = Null \/ config.group = Null) /\ config.group # Empty
    => state = plan
=============================================================================

--------------------------------- MODULE WLAN ---------------------------------
(***************************************************************************)
(* terrifi_wlan: the conversions of its attributes.  The passphrase is     *)
(* sent but never read back; application is two flags of the WLAN.  The    *)
(* group ids, which an update copies from the WLAN it reads first, are     *)
(* left out.                                                               *)
(***************************************************************************)
CONSTANTS
    Switch,      \* hide_ssid, wpa3_support, wpa3_transition, optimize_iot_connectivity
    Choice,      \* wifi_band, security, wpa_mode: the usual (default) value or another
    Passphrase,
    Value,       \* network ids
    Null, Empty

Application == {"standard", "hotspot", "iot"}
Placeholder == "REPLACE_ME"

Model ==
    [network : Value, enabled : {Null, TRUE, FALSE}, switch : [Switch -> {Null, TRUE, FALSE}],
     choice : [Choice -> {Null, "usual", "other"}], application : Application \cup {Null},
     passphrase : Passphrase \cup {Null, Placeholder}]

Wlan ==
    [network : Value, enabled : BOOLEAN, switch : [Switch -> BOOLEAN],
     choice : [Choice -> {Empty, "usual", "other"}], guest : BOOLEAN, iot : BOOLEAN,
     passphrase : Passphrase \cup {Empty, Placeholder}]

Blank ==
    [network |-> CHOOSE v \in Value : TRUE, enabled |-> Null, switch |-> [s \in Switch |-> Null],
     choice |-> [c \in Choice |-> Null], application |-> Null,
     passphrase |-> CHOOSE p \in Passphrase : TRUE]

Edits(m) ==
    {[m EXCEPT !.network = v] : v \in Value} \cup {[m EXCEPT !.enabled = b] : b \in {Null, TRUE, FALSE}}
    \cup {[m EXCEPT !.switch[s] = b] : s \in Switch, b \in {Null, TRUE, FALSE}}
    \cup {[m EXCEPT !.choice[c] = x] : c \in Choice, x \in {Null, "usual", "other"}}
    \cup {[m EXCEPT !.application = a] : a \in Application \cup {Null}}
    \cup {[m EXCEPT !.passphrase = p] : p \in Passphrase \cup {Null}}

OutsideEdits(w) ==
    {[w EXCEPT !.network = v] : v \in Value} \cup {[w EXCEPT !.enabled = ~@]}
    \cup {[w EXCEPT !.switch[s] = ~@] : s \in Switch}
    \cup {[w EXCEPT !.choice[c] = x] : c \in Choice, x \in {Empty, "usual", "other"}}
    \cup {[w EXCEPT !.guest = ~@], [w EXCEPT !.iot = ~@]}
    \cup {[w EXCEPT !.passphrase = p] : p \in Passphrase}

OrElse(v, default) == IF v = Null THEN default ELSE v

Planned(m) ==
    [m EXCEPT !.enabled = OrElse(@, TRUE), !.switch = [s \in Switch |-> OrElse(@[s], FALSE)],
              !.choice = [c \in Choice |-> OrElse(@[c], "usual")],
              !.application = OrElse(@, "standard")]

\* "Always apply passphrase from plan"; the other attributes are never null in a plan.
ApplyPlanToState(plan, st) == plan

\* modelToAPI sets both flags, so that a change of application clears the old one.
Request(m) ==
    [network |-> m.network, enabled |-> m.enabled, switch |-> m.switch, choice |-> m.choice,
     guest |-> m.application = "hotspot", iot |-> m.application = "iot",
     passphrase |-> IF m.passphrase = Null THEN Empty ELSE m.passphrase]

\* An absent passphrase may leave the one the WLAN has.
Stored(r, old) ==
    IF r.passphrase # Empty THEN {r} ELSE {[r EXCEPT !.passphrase = p] : p \in {Empty, old}}

ApplicationOf(w) == IF w.guest THEN "hotspot" ELSE IF w.iot THEN "iot" ELSE "standard"
ChoiceOf(x) == IF x = Empty THEN "usual" ELSE x

\* The passphrase is the plan's after a write and the prior state's after a read.
ApiToModel(w, passphrase) ==
    [network |-> w.network, enabled |-> w.enabled, switch |-> w.switch,
     choice |-> [c \in Choice |-> ChoiceOf(w.choice[c])],
     application |-> ApplicationOf(w), passphrase |-> passphrase]

\* WLANBlocks: what differs from the default is written, and a placeholder passphrase.
Generate(w) ==
    [network |-> w.network, enabled |-> IF w.enabled THEN Null ELSE FALSE,
     switch |-> [s \in Switch |-> IF w.switch[s] THEN TRUE ELSE Null],
     choice |-> [c \in Choice |-> IF w.choice[c] = "other" THEN "other" ELSE Null],
     application |-> IF w.guest \/ w.iot THEN ApplicationOf(w) ELSE Null,
     passphrase |-> Placeholder]

\* Apart from the passphrase, the WLAN does what the plan asks for.
InForce(w, plan) ==
    LET r == Request(plan)
    IN  [w EXCEPT !.passphrase = Empty, !.choice = [c \in Choice |-> ChoiceOf(@[c])]]
          = [r EXCEPT !.passphrase = Empty]

\* A guest network that is also optimised for IoT reads as a hotspot.
Shown(w) == ~(w.guest /\ w.iot)

WithoutPassphrase(m) == [m EXCEPT !.passphrase = Null]
=============================================================================

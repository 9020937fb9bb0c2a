------------------------- MODULE PortProfileSettings --------------------------
(***************************************************************************)
(* terrifi_port_profile: the conversions of its attributes, while the      *)
(* networks of the site stay the same (PortProfile has them come and go).  *)
(*                                                                         *)
(* The controller keeps values that it ignores: a speed under auto-        *)
(* negotiation, a voice network without LLDP-MED, the threshold of a limit *)
(* that is off.  An update sends the whole profile as it was read with the *)
(* provider's fields over it, so these values outlive the attribute.       *)
(***************************************************************************)
CONSTANTS
    Setting,  \* boolean attributes, poe_mode, dot1x_control: the default value or another
    Class,    \* traffic classes of storm control
    Lan,      \* ids of the site's corporate networks
    Amount,   \* speeds, rates, times, thresholds
    Value,    \* MAC addresses
    Null, Empty,
    Zero      \* link_debounce_ms = 0: off

AmountOrNull == Amount \cup {Null}
SetOrNull == (SUBSET Value) \cup {Null}
NetOrNull == Lan \cup {Null}
NetsOrNull == (SUBSET Lan) \cup {Null}
Tristate == {TRUE, FALSE, Null}
Unit == {"percentage", "packets_per_second"}

\* Attributes that are only valid together are one component.
Vlans ==
    [native : NetOrNull, mode : {"allow_all", "block_all", "custom", Null},
     tagged : NetsOrNull, excluded : NetsOrNull]
Voice == [lldpmed : Tristate, network : NetOrNull]
Link == [autoneg : Tristate, speed : AmountOrNull, duplex : Tristate]
Storm == [unit : Unit \cup {Null}, limit : [Class -> AmountOrNull]]

Model ==
    [setting : [Setting -> {"usual", "other", Null}], vlans : Vlans, voice : Voice, link : Link,
     egress : AmountOrNull, debounce : AmountOrNull \cup {Zero}, macs : SetOrNull,
     storm : Storm \cup {Null}]

Profile ==
    [setting : [Setting -> {"usual", "other", Empty}],
     native : Lan \cup {Empty}, mode : {"auto", "block_all", "custom"}, excluded : SUBSET Lan,
     lldpmed : BOOLEAN, voice : Lan \cup {Empty},
     autoneg : BOOLEAN, speed : AmountOrNull, duplex : BOOLEAN,
     limited : BOOLEAN, egress : AmountOrNull,
     debounceAuto : BOOLEAN, debounce : AmountOrNull \cup {Zero}, macs : SUBSET Value,
     unit : {"level", "rate", Empty},
     storm : [Class -> [on : BOOLEAN, level : AmountOrNull, rate : AmountOrNull]],
     manual : BOOLEAN]

Blank ==
    [setting |-> [s \in Setting |-> Null],
     vlans |-> [native |-> Null, mode |-> Null, tagged |-> Null, excluded |-> Null],
     voice |-> [lldpmed |-> Null, network |-> Null],
     link |-> [autoneg |-> Null, speed |-> Null, duplex |-> Null],
     egress |-> Null, debounce |-> Null, macs |-> Null, storm |-> Null]

OrElse(v, default) == IF v = Null THEN default ELSE v

(***************************************************************************)
(* ValidateConfig.                                                         *)
(***************************************************************************)

ValidVlans(m) ==
    LET custom == m.vlans.mode = "custom"
    IN  /\ IF custom THEN (m.vlans.tagged = Null) # (m.vlans.excluded = Null)
                     ELSE m.vlans.tagged = Null /\ m.vlans.excluded = Null
        /\ m.vlans.tagged # {}
        /\ \A list \in {m.vlans.tagged, m.vlans.excluded} \ {Null} : m.vlans.native \notin list

ValidVoice(m) ==
    m.voice.network # Null =>
        /\ m.voice.lldpmed # FALSE /\ m.vlans.mode # "block_all"
        /\ m.vlans.tagged # Null => m.voice.network \in m.vlans.tagged
        /\ m.vlans.excluded # Null => m.voice.network \notin m.vlans.excluded

ValidLink(m) ==
    LET autoneg == OrElse(m.link.autoneg, TRUE)
    IN  autoneg = (m.link.speed = Null) /\ (autoneg => m.link.duplex # TRUE)

ValidStorm(m) == m.storm # Null => \E c \in Class : m.storm.limit[c] # Null

Accepted(m) == ValidVlans(m) /\ ValidVoice(m) /\ ValidLink(m) /\ ValidStorm(m)

Edits(m) ==
    LET next ==
        {[m EXCEPT !.setting[x[1]] = x[2]] : x \in Setting \X {"usual", "other", Null}}
        \cup {[m EXCEPT !.vlans = x] : x \in Vlans} \cup {[m EXCEPT !.voice = x] : x \in Voice}
        \cup {[m EXCEPT !.link = x] : x \in Link} \cup {[m EXCEPT !.egress = x] : x \in AmountOrNull}
        \cup {[m EXCEPT !.debounce = x] : x \in AmountOrNull \cup {Zero}}
        \cup {[m EXCEPT !.macs = x] : x \in SetOrNull}
        \cup {[m EXCEPT !.storm = x] : x \in Storm \cup {Null}}
    IN  {x \in next : Accepted(x)}

Planned(m) ==
    [m EXCEPT !.setting = [s \in Setting |-> OrElse(@[s], "usual")],
              !.vlans.mode = OrElse(@, "allow_all"), !.voice.lldpmed = OrElse(@, TRUE),
              !.link.autoneg = OrElse(@, TRUE), !.link.duplex = OrElse(@, FALSE),
              !.macs = OrElse(@, {}),
              !.storm = IF @ = Null THEN Null
                        ELSE [unit |-> OrElse(@.unit, "percentage"), limit |-> @.limit]]

\* A null is copied too: it is "a real instruction".
ApplyPlanToState(plan, st) == plan

(***************************************************************************)
(* The request, laid over the profile there is (mergePortProfile).         *)
(***************************************************************************)

Absent ==
    [speed |-> Null, egress |-> Null, debounce |-> Null, unit |-> Empty,
     storm |-> [c \in Class |-> [on |-> FALSE, level |-> Null, rate |-> Null]]]

UsesTaggedList(vlans) == vlans.excluded = Null \/ vlans.tagged # Null

Excluded(vlans) ==
    IF vlans.mode # "custom" THEN {}
    ELSE IF UsesTaggedList(vlans) THEN Lan \ (vlans.tagged \cup {vlans.native})
    ELSE vlans.excluded

\* setStormControlClass
StormClass(storm, c, old) ==
    IF storm = Null \/ storm.limit[c] = Null THEN [old EXCEPT !.on = FALSE]
    ELSE IF storm.unit = "percentage" THEN [old EXCEPT !.on = TRUE, !.level = storm.limit[c]]
    ELSE [old EXCEPT !.on = TRUE, !.rate = storm.limit[c]]

\* modelToAPI, normalizePortProfile; old has the values that are left out.
Request(m, old) ==
    [setting |-> m.setting, native |-> OrElse(m.vlans.native, Empty),
     mode |-> IF m.vlans.mode = "allow_all" THEN "auto" ELSE m.vlans.mode,
     excluded |-> Excluded(m.vlans),
     lldpmed |-> m.voice.lldpmed, voice |-> OrElse(m.voice.network, Empty),
     autoneg |-> m.link.autoneg, speed |-> OrElse(m.link.speed, old.speed),
     duplex |-> m.link.duplex,
     limited |-> m.egress # Null, egress |-> OrElse(m.egress, old.egress),
     debounceAuto |-> m.debounce = Null, debounce |-> OrElse(m.debounce, old.debounce),
     macs |-> m.macs,
     unit |-> IF m.storm = Null THEN old.unit
              ELSE IF m.storm.unit = "percentage" THEN "level" ELSE "rate",
     storm |-> [c \in Class |-> StormClass(m.storm, c, old.storm[c])],
     manual |-> TRUE]

\* The controller turns "custom" with nothing left to tag into "block_all".
Stored(p) ==
    IF p.mode = "custom" /\ Lan \subseteq p.excluded \cup {p.native}
    THEN [p EXCEPT !.mode = "block_all"] ELSE p

\* The threshold of one class, set in the UI; it fills in those of the other classes
\* that are on and have none in this unit.
LevelSet(storm, c, x) ==
    [d \in Class |-> IF d = c \/ (storm[d].on /\ storm[d].level = Null)
                     THEN [storm[d] EXCEPT !.on = TRUE, !.level = x] ELSE storm[d]]
RateSet(storm, c, x) ==
    [d \in Class |-> IF d = c \/ (storm[d].on /\ storm[d].rate = Null)
                     THEN [storm[d] EXCEPT !.on = TRUE, !.rate = x] ELSE storm[d]]

\* What the UI can do to a profile.
OutsideEdits(p) ==
    {Stored(x) : x \in
        {[p EXCEPT !.setting[x[1]] = x[2]] : x \in Setting \X {"usual", "other", Empty}}
        \cup {[p EXCEPT !.native = x[1], !.mode = x[2], !.excluded = x[3] \ {x[1]}] :
                x \in (Lan \cup {Empty}) \X {"auto", "block_all", "custom"} \X SUBSET Lan}
        \cup {[p EXCEPT !.lldpmed = ~@]} \cup {[p EXCEPT !.voice = x] : x \in Lan \cup {Empty}}
        \cup {[p EXCEPT !.autoneg = TRUE], [p EXCEPT !.duplex = ~@], [p EXCEPT !.manual = ~@]}
        \cup {[p EXCEPT !.autoneg = FALSE, !.speed = x] : x \in Amount}
        \cup {[p EXCEPT !.limited = FALSE], [p EXCEPT !.debounceAuto = TRUE]}
        \cup {[p EXCEPT !.limited = TRUE, !.egress = x] : x \in Amount}
        \cup {[p EXCEPT !.debounceAuto = FALSE, !.debounce = x] : x \in Amount \cup {Zero}}
        \cup {[p EXCEPT !.macs = x] : x \in SUBSET Value}
        \cup {[p EXCEPT !.storm[c].on = FALSE] : c \in Class}
        \cup {[p EXCEPT !.unit = "level", !.storm = LevelSet(@, x[1], x[2])] :
                x \in Class \X Amount}
        \cup {[p EXCEPT !.unit = "rate", !.storm = RateSet(@, x[1], x[2])] :
                x \in Class \X Amount}}

(***************************************************************************)
(* The profile, read.                                                      *)
(***************************************************************************)

Carried(p) == Lan \ (p.excluded \cup {p.native})

UnitOf(p) == IF p.unit = "rate" THEN "packets_per_second" ELSE "percentage"

\* stormControlClassToModel
Threshold(p, c) ==
    IF ~p.storm[c].on THEN Null
    ELSE IF p.unit = "rate" THEN p.storm[c].rate ELSE p.storm[c].level

NullIfEmpty(x) == IF x = Empty THEN Null ELSE x

LinkOf(p) ==
    [autoneg |-> p.autoneg, speed |-> IF p.autoneg THEN Null ELSE p.speed,
     duplex |-> ~p.autoneg /\ p.duplex]

StormOf(p) ==
    IF \A c \in Class : Threshold(p, c) = Null THEN Null
    ELSE [unit |-> UnitOf(p), limit |-> [c \in Class |-> Threshold(p, c)]]

\* The list of networks has the form that the prior value, or the plan, has.
VlansOf(p, vlans) ==
    LET asTagged == UsesTaggedList(vlans)
    IN  [native |-> NullIfEmpty(p.native),
         mode |-> IF p.mode = "auto" THEN "allow_all" ELSE p.mode,
         tagged |-> IF p.mode = "custom" /\ asTagged THEN Carried(p) ELSE Null,
         excluded |-> IF p.mode = "custom" /\ ~asTagged THEN p.excluded ELSE Null]

ApiToModel(p, vlans) ==
    [setting |-> [s \in Setting |-> IF p.setting[s] = Empty THEN "usual" ELSE p.setting[s]],
     vlans |-> VlansOf(p, vlans),
     voice |-> [lldpmed |-> p.lldpmed, network |-> IF p.lldpmed THEN NullIfEmpty(p.voice) ELSE Null],
     link |-> LinkOf(p), egress |-> IF p.limited THEN p.egress ELSE Null,
     debounce |-> IF p.debounceAuto THEN Null ELSE OrElse(p.debounce, Zero),
     macs |-> p.macs, storm |-> StormOf(p)]

\* PortProfileBlocks: what differs from a default, and the networks as a tagged list.
Generate(p) ==
    LET m == ApiToModel(p, Blank.vlans)
        unless(x, default) == IF x = default THEN Null ELSE x
    IN  [m EXCEPT !.setting = [s \in Setting |-> unless(@[s], "usual")],
                  !.vlans.mode = unless(@, "allow_all"), !.voice.lldpmed = unless(@, TRUE),
                  !.link.autoneg = unless(@, TRUE), !.link.duplex = unless(@, FALSE),
                  !.macs = unless(@, {}),
                  !.storm = IF @ = Null THEN Null
                            ELSE [unit |-> unless(@.unit, "percentage"), limit |-> @.limit]]

(***************************************************************************)
(* What the profile does to a port, without the values it ignores.         *)
(***************************************************************************)

Effect(p) ==
    [setting |-> [s \in Setting |-> IF p.setting[s] = Empty THEN "usual" ELSE p.setting[s]],
     native |-> p.native,
     tagged |-> CASE p.mode = "auto" -> Lan \ {p.native} [] p.mode = "block_all" -> {}
                  [] p.mode = "custom" -> Carried(p),
     voice |-> IF p.lldpmed THEN <<p.voice>> ELSE <<>>,
     link |-> IF p.autoneg THEN <<>> ELSE <<p.speed, p.duplex>>,
     egress |-> IF p.limited THEN <<p.egress>> ELSE <<>>,
     debounce |-> IF p.debounceAuto THEN <<>> ELSE <<OrElse(p.debounce, Zero)>>,
     macs |-> p.macs, manual |-> p.manual,
     storm |-> [c \in {x \in Class : p.storm[x].on} |->
                  IF p.unit = "rate" THEN <<"rate", p.storm[c].rate>>
                                     ELSE <<"level", p.storm[c].level>>]]

InForce(p, plan) == Effect(p) = Effect(Request(plan, p))

\* Under "Advanced: Auto" the settings are stored and not in force; it is not read.
Shown(p) == p.manual

\* Excluding every network has no stored form of its own.
Expressible(m) ==
    m.vlans.excluded # Null => ~(Lan \subseteq m.vlans.excluded \cup {m.vlans.native})

\* A voice network that is not tagged: the validator refuses it beside the tagged list
\* that is generated, though not beside a list of excluded networks.
Restorable(p) == p.lldpmed => p.voice \in Effect(p).tagged \cup {Empty}
=============================================================================

---------------------------- MODULE FirewallPolicy ----------------------------
(***************************************************************************)
(* terrifi_firewall_policy: the conversions of its attributes.             *)
(*                                                                         *)
(* The plan becomes a request whose absent keys stand for null, false and  *)
(* empty, and the answer becomes the state; neither is the identity.       *)
(*                                                                         *)
(* The position of the policy is the subject of FirewallPolicyOrder, the   *)
(* cache through which it is read that of ResponseCache.  Source and       *)
(* destination are converted alike; one endpoint stands for both.          *)
(***************************************************************************)
CONSTANTS
    Flag,       \* optional booleans (logging, match_ipsec, create_allow_respond, ...)
    Respond,    \* the one that is create_allow_respond
    Value,      \* texts, ports, group ids, set elements
    Target,     \* choices of the four target sets a configuration may make
    Schedule,   \* schedule blocks it may have
    Null,       \* a null attribute or block
    Empty,      \* the empty string, an absent key
    Foreign     \* a matching target or a port the provider does not know: a range, a list

TargetField == {"ips", "mac_addresses", "network_ids", "device_ids"}
PortType == {"ANY", "SPECIFIC", "OBJECT"}
SetOrNull == {Null} \cup SUBSET Value
\* EVERY_WEEK stands also for EVERY_DAY and ONE_TIME_ONLY, when for the date and the
\* times of a day, dates for date_start and date_end.
ScheduleBlock ==
    [mode : {Null, "ALWAYS", "EVERY_WEEK", "CUSTOM"}, when : Value \cup {Null, Empty},
     dates : Value \cup {Null, Empty}, allDay : {Null, TRUE, FALSE}, days : SetOrNull]

Model ==
    [description : Value \cup {Null, Empty}, flag : [Flag -> {Null, TRUE, FALSE}],
     stateType : {"ALL", "CUSTOM"}, states : SetOrNull,
     external : BOOLEAN, target : [TargetField -> SetOrNull],
     portType : PortType, port : Value \cup {Null}, group : Value \cup {Null, Empty},
     schedule : {Null} \cup ScheduleBlock]

StoredSchedule ==
    [mode : {Empty, "ALWAYS", "EVERY_WEEK", "CUSTOM"}, when : Value \cup {Empty},
     dates : Value \cup {Empty}, allDay : BOOLEAN, days : SetOrNull]

\* The API object, absent values as Empty, FALSE or, for lists, Null: a list may also be
\* there and empty.
Policy ==
    [description : Value \cup {Empty}, flag : [Flag -> BOOLEAN],
     stateType : {"ALL", "CUSTOM"}, states : SUBSET Value, external : BOOLEAN,
     matching : {"ANY", "IP", "MAC", "IID", "NETWORK", "CLIENT", Foreign}, values : SetOrNull,
     portType : PortType, port : Value \cup {Null, Foreign}, group : Value \cup {Empty},
     schedule : StoredSchedule]

\* scheduleCustomRequiresDatesValidator
ValidSchedule(s) == s # Null /\ s.mode = "CUSTOM" => s.dates \notin {Null, Empty}

Blank ==
    [description |-> Null, flag |-> [f \in Flag |-> Null], stateType |-> "ALL", states |-> Null,
     external |-> FALSE, target |-> [t \in TargetField |-> Null],
     portType |-> "ANY", port |-> Null, group |-> Null, schedule |-> Null]

\* The state is an answer, so it never holds FALSE or Empty, nor states that are {}.
Canonical(m) ==
    /\ Empty \notin {m.description, m.group}
    /\ \A f \in Flag : m.flag[f] # FALSE
    /\ m.states # {}

(***************************************************************************)
(* From the plan to the request: modelToAPI, buildFirewallPolicy...Request. *)
(***************************************************************************)

OrEmpty(v) == IF v = Null THEN Empty ELSE v
OrNone(s) == IF s = Null THEN {} ELSE s

\* omitempty: an empty list is not sent.
SetOrNone(s) == IF s = {} THEN Null ELSE s

\* resolveMatchingTarget: the first set that is not null, in this order.
Matching(t) ==
    IF t["ips"] # Null THEN "IP"
    ELSE IF t["mac_addresses"] # Null THEN "MAC"
    ELSE IF t["network_ids"] # Null THEN "NETWORK"
    ELSE IF t["device_ids"] # Null THEN "CLIENT" ELSE "ANY"
FieldOf(m) ==
    CASE m = "IP" -> "ips" [] m \in {"MAC", "IID"} -> "mac_addresses"
      [] m = "NETWORK" -> "network_ids" [] m = "CLIENT" -> "device_ids"
MatchedValues(t) == IF Matching(t) = "ANY" THEN Null ELSE SetOrNone(t[FieldOf(Matching(t))])

\* resolvePortMatchingType
ResolvePortType(m) ==
    IF m.group \notin {Null, Empty} THEN "OBJECT"
    ELSE IF m.port # Null THEN "SPECIFIC" ELSE m.portType

AlwaysOn == [mode |-> "ALWAYS", when |-> Empty, dates |-> Empty, allDay |-> FALSE, days |-> Null]

\* scheduleModelToRequest; a policy without the block asks for mode ALWAYS.
ScheduleRequest(s) ==
    IF s = Null THEN AlwaysOn
    ELSE [mode |-> OrEmpty(s.mode), when |-> OrEmpty(s.when), dates |-> OrEmpty(s.dates),
          allDay |-> s.allDay = TRUE, days |-> SetOrNone(s.days)]

Request(m) ==
    [description |-> OrEmpty(m.description), flag |-> [f \in Flag |-> m.flag[f] = TRUE],
     stateType |-> m.stateType, states |-> OrNone(m.states), external |-> m.external,
     matching |-> Matching(m.target), values |-> MatchedValues(m.target),
     portType |-> ResolvePortType(m), port |-> m.port, group |-> OrEmpty(m.group),
     schedule |-> ScheduleRequest(m.schedule)]

\* The controller's policy after the request.  It may name MAC targets IID, and
\* with type ALL it may keep the states of an earlier configuration.
Stored(r, old) ==
    LET names == IF r.matching = "MAC" THEN {"MAC", "IID"} ELSE {r.matching}
        states == IF r.stateType = "ALL" /\ r.states = {} THEN {{}, old} ELSE {r.states}
    IN  {[r EXCEPT !.matching = x[1], !.states = x[2]] : x \in names \X states}

(***************************************************************************)
(* From the answer to the state: apiToModel.                               *)
(***************************************************************************)

OrNull(v) == IF v = Empty THEN Null ELSE v
TrueOrNull(b) == IF b THEN TRUE ELSE Null

\* parsePort: what is not one number is dropped.
ParsePort(port) == IF port = Foreign THEN Null ELSE port

\* populateTypedEndpointFields: other targets leave all four sets null.
TargetOf(p) ==
    [t \in TargetField |->
        IF p.matching \notin {"ANY", Foreign} /\ t = FieldOf(p.matching)
        THEN p.values ELSE Null]

\* Mutant: the mode alone decides.
ModeIsDefault(s) == s.mode = "ALWAYS"

\* isDefaultSchedule: reported as no schedule at all.
IsDefaultSchedule(s) == [s EXCEPT !.days = SetOrNone(@)] = AlwaysOn

ScheduleOf(s) ==
    IF IsDefaultSchedule(s) THEN Null
    ELSE [mode |-> OrNull(s.mode), when |-> OrNull(s.when), dates |-> OrNull(s.dates),
          allDay |-> TrueOrNull(s.allDay), days |-> s.days]

\* Connection states count only when the type is not ALL.
StatesOf(p) == IF p.stateType = "ALL" THEN Null ELSE SetOrNone(p.states)

\* Mutant: a flag that is off is reported as false.
FlagAsAnswered(b) == b

\* boolValueOrNull
FlagOf(b) == TrueOrNull(b)

ApiToModel(p) ==
    [description |-> OrNull(p.description), flag |-> [f \in Flag |-> FlagOf(p.flag[f])],
     stateType |-> p.stateType, states |-> StatesOf(p), external |-> p.external,
     target |-> TargetOf(p), portType |-> p.portType, port |-> ParsePort(p.port),
     group |-> OrNull(p.group), schedule |-> ScheduleOf(p.schedule)]

\* Mutant: a removed optional attribute keeps the state's value.
KeepStateWhenNull(plan, st) ==
    [plan EXCEPT !.description = IF @ = Null THEN st.description ELSE @,
                 !.schedule = IF @ = Null THEN st.schedule ELSE @]

\* applyPlanToState: null means removed; every planned attribute is known.
ApplyPlanToState(plan, st) == plan

\* The schedule is validated; ModifyPlan, or the controller when the zone is not known
\* yet, refuses create_allow_respond towards the external zone.
Accepted(m) == ValidSchedule(m.schedule) /\ ~(m.flag[Respond] = TRUE /\ m.external)

Edits(m) ==
    {[m EXCEPT !.description = v] : v \in Value \cup {Null, Empty}}
    \cup {[m EXCEPT !.flag[x[1]] = x[2]] : x \in Flag \X {Null, TRUE, FALSE}}
    \cup {[m EXCEPT !.stateType = x[1], !.states = x[2]] : x \in {"ALL", "CUSTOM"} \X SetOrNull}
    \cup {[m EXCEPT !.target = t] : t \in Target}
    \cup {[m EXCEPT !.external = ~@]}
    \cup {[m EXCEPT !.portType = x[1], !.port = x[2], !.group = x[3]] :
            x \in PortType \X (Value \cup {Null}) \X (Value \cup {Null, Empty})}
    \cup {[m EXCEPT !.schedule = s] : s \in Schedule}

OutsideEdits(p) ==
    {[p EXCEPT !.description = v] : v \in Value \cup {Empty}}
    \cup {[p EXCEPT !.flag[f] = ~@] : f \in Flag}
    \cup {[p EXCEPT !.stateType = x[1], !.states = x[2]] : x \in {"ALL", "CUSTOM"} \X SUBSET Value}
    \cup {[p EXCEPT !.matching = x[1], !.values = {x[2]}] : x \in {"IID", "CLIENT", Foreign} \X Value}
    \cup {[p EXCEPT !.matching = "ANY", !.values = Null], [p EXCEPT !.values = {}]}
    \cup {[p EXCEPT !.portType = "OBJECT", !.port = Null, !.group = v] : v \in Value}
    \cup {[p EXCEPT !.portType = "SPECIFIC", !.port = Foreign, !.group = Empty]}
    \cup {[p EXCEPT !.schedule = ScheduleRequest(s)] : s \in Schedule}
    \cup {[p EXCEPT !.schedule.days = {}]}

\* buildScheduleBlock, for a schedule with a mode other than ALWAYS.  The SDK's schedule,
\* which toSDK fills, has no date_start and no date_end.
GeneratedSchedule(s) ==
    IF s.mode \in {Empty, "ALWAYS"} THEN Null
    ELSE [ScheduleOf(s) EXCEPT !.dates = Null, !.days = SetOrNone(@)]

\* buildEndpointBlock writes no empty list.
GeneratedTarget(p) == [t \in TargetField |-> SetOrNone(TargetOf(p)[t])]

\* FirewallPolicyBlocks writes the states of every policy, also beside ALL.
Generate(p) ==
    [ApiToModel(p) EXCEPT !.states = SetOrNone(p.states), !.target = GeneratedTarget(p),
                          !.schedule = GeneratedSchedule(p.schedule)]

(***************************************************************************)
(* What a configuration can express and an answer can show.                *)
(***************************************************************************)

\* port_matching_type is spelled out as the port or the group would have it.
PortTypeAsDerived(m) == m.portType = ResolvePortType(m) /\ m.group # Empty

\* Configurations that have a written form an answer can equal: no explicit false,
\* no empty string or set, one target set, no states beside ALL, and a schedule that
\* is not the default spelled out.
Expressible(m) ==
    /\ m.description # Empty
    /\ \A f \in Flag : m.flag[f] # FALSE
    /\ m.states # {} /\ (m.stateType = "ALL" => m.states = Null)
    /\ \A t \in TargetField : m.target[t] # Null =>
          m.target[t] # {} /\ t = FieldOf(Matching(m.target))
    /\ m.schedule # Null =>
          /\ Empty \notin {m.schedule.when, m.schedule.dates}
          /\ m.schedule.allDay # FALSE /\ m.schedule.days # {}
          /\ ~IsDefaultSchedule(ScheduleRequest(m.schedule))

\* The policy does what m asks for.
InForce(p, m) ==
    LET r == Request(m) IN
    /\ p.stateType = "ALL" \/ p.states = r.states
    /\ IF p.matching = "IID" THEN r.matching = "MAC" ELSE r.matching = p.matching
    /\ p.matching = "ANY" \/ SetOrNone(p.values) = r.values
    /\ [p EXCEPT !.states = {}, !.matching = "ANY", !.values = Null,
                 !.schedule.days = SetOrNone(@)]
         = [r EXCEPT !.states = {}, !.matching = "ANY", !.values = Null]

\* A target the four sets can show, one the provider knows and with a list of values; and
\* a port that is one number or none.
Shown(p) ==
    /\ p.matching = "ANY" \/ (p.matching # Foreign /\ p.values # Null)
    /\ p.port # Foreign

\* What the generated block does not keep: a schedule that is on at all times but has
\* other settings; a date range, and with it every CUSTOM schedule, which is refused
\* without one; states beside ALL, which it writes and the provider reads as null; lists
\* that are there and empty; and a flag that is refused beside an external zone.
Restorable(p) ==
    /\ ~(p.flag[Respond] /\ p.external)
    /\ p.stateType = "ALL" => p.states = {}
    /\ p.matching \in {"ANY", Foreign} \/ p.values # {}
    /\ IF p.schedule.mode \in {Empty, "ALWAYS"} THEN IsDefaultSchedule(p.schedule)
       ELSE p.schedule.mode # "CUSTOM" /\ p.schedule.dates = Empty /\ p.schedule.days # {}
=============================================================================

---------------------------- MODULE MCPlanRoundTrip ----------------------------
(* One value of every kind but the passphrase, two of each group of like attributes, at *)
(* most two target sets at a time.                                                       *)
EXTENDS PlanRoundTrip, FiniteSets

CONSTANTS logging, respond, item, lan1, lan2, low, high, secret1, secret2

MCFlag == {logging, respond}
MCValue == {item}
MCTargetField == {"ips", "mac_addresses", "network_ids", "device_ids"}
MCTarget ==
    {t \in [MCTargetField -> {Null, {}, {item}}] : Cardinality({f \in MCTargetField : t[f] # Null}) <= 2}
MCBlank == [mode |-> Null, when |-> Null, dates |-> Null, allDay |-> Null, days |-> Null]
MCSettings ==
    {[MCBlank EXCEPT !.when = v] : v \in {Null, Empty, item}}
        \cup {[MCBlank EXCEPT !.dates = v] : v \in {Empty, item}}
        \cup {[MCBlank EXCEPT !.allDay = b] : b \in BOOLEAN}
        \cup {[MCBlank EXCEPT !.days = d] : d \in {{}, {item}}}
        \cup {[MCBlank EXCEPT !.when = item, !.dates = item],
              [MCBlank EXCEPT !.dates = item, !.days = {item}]}
MCSchedule ==
    {Null} \cup {[s EXCEPT !.mode = m] : s \in MCSettings, m \in {Null, "ALWAYS", "EVERY_WEEK", "CUSTOM"}}
MCOption == {"port", "record_type"}
MCSwitch == {"hide_ssid"}
MCChoice == {"security"}
MCPassphrase == {secret1, secret2}
MCSetting == {"poe_mode"}
MCClass == {"broadcast", "multicast"}
MCLan == {lan1, lan2}
MCAmount == {low, high}
=============================================================================

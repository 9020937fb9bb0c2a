----------------------------- MODULE FirewallGroup -----------------------------
(***************************************************************************)
(* terrifi_firewall_group: the conversions of its attributes.  All are     *)
(* required, and an answer without members is an empty set.                *)
(***************************************************************************)
CONSTANT Value

GroupType == {"port-group", "address-group"}
Model == [name : Value, type : GroupType, members : SUBSET Value]

Blank == [name |-> CHOOSE v \in Value : TRUE, type |-> "port-group", members |-> {}]

Edits(m) ==
    {[m EXCEPT !.name = v] : v \in Value} \cup {[m EXCEPT !.type = t] : t \in GroupType}
    \cup {[m EXCEPT !.members = s] : s \in SUBSET Value}

OutsideEdits(group) ==
    {[group EXCEPT !.name = v] : v \in Value} \cup {[group EXCEPT !.members = s] : s \in SUBSET Value}

Replaces(plan, st) == plan.type # st.type

ApplyPlanToState(plan, st) == plan
Request(m) == m
ApiToModel(group) == group

\* FirewallGroupBlocks
Generate(group) == group
=============================================================================

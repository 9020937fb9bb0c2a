-------------------------------- MODULE Network --------------------------------
(***************************************************************************)
(* terrifi_network: the conversions of its attributes.  A vlan-only        *)
(* network has no IP settings: the plan nulls them, the request leaves     *)
(* them out and the answer's are ignored.  DHCP range and servers are      *)
(* computed when they are not configured, so a plan that changes anything  *)
(* else does not know them.                                                *)
(***************************************************************************)
CONSTANTS
    Value,    \* VLAN ids, subnets, groups but LAN, ranges, leases but 86400, DNS servers
    Null, Zero, Empty,
    Unknown   \* (known after apply)

Purpose == {"corporate", "vlan-only"}
Day == 86400
Computed == {"range", "dns"}

\* range stands for dhcp_start and dhcp_stop, which are handled alike.
Model ==
    [purpose : Purpose, vlan : Value \cup {Null}, subnet : Value \cup {Null, Empty},
     group : Value \cup {Null, "LAN"}, dhcp : {Null, TRUE, FALSE},
     range : Value \cup {Null, Unknown}, lease : Value \cup {Null, Zero, Day},
     dns : {Null, Unknown} \cup SUBSET Value, internet : {Null, TRUE, FALSE}]

\* The API object, absent values as Empty, Zero and {}; a lease of Zero is 0.
Net ==
    [purpose : Purpose, enabled : BOOLEAN, vlan : Value \cup {Zero}, tagging : BOOLEAN,
     subnet : Value \cup {Empty}, group : Value \cup {"LAN", Empty}, dhcp : BOOLEAN,
     range : Value \cup {Empty}, lease : Value \cup {Zero, Day}, dns : SUBSET Value,
     internet : BOOLEAN]

\* The state is an answer: it never holds Unknown, Zero, Empty or {}, and the attributes
\* with defaults that an answer always has are not null.
Canonical(m) ==
    /\ m.subnet # Empty /\ m.lease # Zero /\ m.range # Unknown /\ m.dns \notin {Unknown, {}}
    /\ Null \notin {m.group, m.dhcp, m.internet}

Blank ==
    [purpose |-> "corporate", vlan |-> Null, subnet |-> CHOOSE v \in Value : TRUE, group |-> Null,
     dhcp |-> Null, range |-> Null, lease |-> Null, dns |-> Null, internet |-> Null]

Edits(m) ==
    {[m EXCEPT !.purpose = p, !.subnet = IF p = "corporate" THEN @ ELSE Null] : p \in Purpose}
    \cup {[m EXCEPT !.vlan = v] : v \in Value \cup {Null}}
    \cup {[m EXCEPT !.subnet = v] : v \in Value \cup {Null, Empty}}
    \cup {[m EXCEPT !.group = v] : v \in Value \cup {Null, "LAN"}}
    \cup {[m EXCEPT !.dhcp = x[1], !.range = x[2], !.lease = x[3]] :
            x \in {Null, TRUE, FALSE} \X (Value \cup {Null}) \X (Value \cup {Null, Zero})}
    \cup {[m EXCEPT !.dns = s] : s \in {Null} \cup SUBSET Value}
    \cup {[m EXCEPT !.internet = b] : b \in {Null, TRUE, FALSE}}

OutsideEdits(n) ==
    {[n EXCEPT !.enabled = ~@], [n EXCEPT !.tagging = ~@], [n EXCEPT !.internet = ~@]}
    \cup {[n EXCEPT !.vlan = v, !.tagging = v # Zero] : v \in Value \cup {Zero}}
    \cup {[n EXCEPT !.group = v] : v \in Value \cup {"LAN", Empty}}
    \cup {[n EXCEPT !.dhcp = x[1], !.range = x[2], !.lease = x[3]] :
            x \in BOOLEAN \X (Value \cup {Empty}) \X (Value \cup {Zero, Day})}
    \cup {[n EXCEPT !.dns = s] : s \in SUBSET Value}

OrElse(v, default) == IF v = Null THEN default ELSE v

\* Terraform refuses a plan that changes what was configured: ModifyPlan nulls the IP
\* settings of a vlan-only network also where the configuration has some.
Accepted(m) ==
    m.purpose = "vlan-only" =>
        m.dhcp # TRUE /\ {m.subnet, m.range, m.lease, m.dns} = {Null}

\* Schema defaults; a computed attribute that is not configured keeps the state's value
\* when nothing else changes and is unknown otherwise.
Proposed(m, st, untracked) ==
    LET filled == [m EXCEPT !.group = OrElse(@, "LAN"), !.dhcp = OrElse(@, FALSE),
                            !.lease = OrElse(@, Day), !.internet = OrElse(@, TRUE)]
        changed == untracked \/ \E a \in DOMAIN m :
                      filled[a] # st[a] /\ ~(a \in Computed /\ m[a] = Null)
    IN  [a \in DOMAIN m |->
            IF a \in Computed /\ m[a] = Null THEN IF changed THEN Unknown ELSE st[a]
            ELSE filled[a]]

\* ModifyPlan
Planned(m, st, untracked) ==
    LET p == Proposed(m, st, untracked)
    IN  IF m.purpose = "corporate" THEN p
        ELSE [p EXCEPT !.subnet = Null, !.dhcp = FALSE, !.range = Null, !.lease = Null,
                       !.dns = Null, !.internet = IF m.internet = Null THEN FALSE ELSE @]

Replaces(plan, st) == plan.purpose # st.purpose

\* What the plan leaves null or unknown keeps the value of the state.
ApplyPlanToState(plan, st) ==
    [a \in DOMAIN plan |->
        IF a # "purpose" /\ plan[a] \in {Null, Unknown} THEN st[a] ELSE plan[a]]

Kept(plan, st) == {a \in {"vlan", "subnet"} : plan[a] = Null /\ st[a] # Null}

\* modelToAPI
Request(m) ==
    LET ip == m.purpose = "corporate"
    IN  [purpose |-> m.purpose, enabled |-> TRUE,
         vlan |-> OrElse(m.vlan, Zero), tagging |-> m.vlan # Null, group |-> m.group,
         subnet |-> IF ip THEN OrElse(m.subnet, Empty) ELSE Empty,
         dhcp |-> ip /\ m.dhcp = TRUE,
         range |-> IF ip /\ m.range \notin {Null, Unknown} THEN m.range ELSE Empty,
         lease |-> IF ip THEN OrElse(m.lease, Zero) ELSE Zero,
         dns |-> IF ip /\ m.dns \notin {Null, Unknown} THEN m.dns ELSE {},
         internet |-> ip /\ m.internet = TRUE]

\* The SDK sends a range of its own for a corporate network without one.
Stored(r) ==
    IF r.purpose = "corporate" /\ r.range = Empty
    THEN {[r EXCEPT !.range = v] : v \in Value \cup {Empty}} ELSE {r}

\* "Fall back to the schema default so state is never null"
GroupOf(group) == IF group = Empty THEN "LAN" ELSE group

ApiToModel(n) ==
    LET ip == n.purpose = "corporate"
    IN  [purpose |-> n.purpose, vlan |-> IF n.vlan = Zero THEN Null ELSE n.vlan,
         group |-> GroupOf(n.group),
         subnet |-> IF ip /\ n.subnet # Empty THEN n.subnet ELSE Null,
         dhcp |-> ip /\ n.dhcp,
         range |-> IF ip /\ n.range # Empty THEN n.range ELSE Null,
         lease |-> IF ip /\ n.lease # Zero THEN n.lease ELSE Null,
         dns |-> IF ip /\ n.dns # {} THEN n.dns ELSE Null,
         internet |-> ip /\ n.internet]

\* Mutant: DHCP settings are left out whether DHCP is on or off.
GenerateWithoutDhcp(n) ==
    LET ip == n.purpose = "corporate"
    IN  [purpose |-> n.purpose, vlan |-> IF n.vlan = Zero THEN Null ELSE n.vlan,
         group |-> IF ip /\ n.group \notin {"LAN", Empty} THEN n.group ELSE Null,
         subnet |-> IF ip /\ n.subnet # Empty THEN n.subnet ELSE Null,
         dhcp |-> IF ip /\ n.dhcp THEN TRUE ELSE Null,
         range |-> Null, lease |-> Null, dns |-> Null,
         internet |-> IF ip /\ ~n.internet THEN FALSE ELSE Null]

\* NetworkBlocks; a lease of 0 is written, an absent one is not.
Generate(n) ==
    LET ip == n.purpose = "corporate"
        served == ip /\ n.dhcp
    IN  [purpose |-> n.purpose, vlan |-> IF n.vlan = Zero THEN Null ELSE n.vlan,
         group |-> IF ip /\ n.group \notin {"LAN", Empty} THEN n.group ELSE Null,
         subnet |-> IF ip /\ n.subnet # Empty THEN n.subnet ELSE Null,
         dhcp |-> IF served THEN TRUE ELSE Null,
         range |-> IF served /\ n.range # Empty THEN n.range ELSE Null,
         lease |-> IF served /\ n.lease # Day THEN n.lease ELSE Null,
         dns |-> IF served /\ n.dns # {} THEN n.dns ELSE Null,
         internet |-> IF ip /\ ~n.internet THEN FALSE ELSE Null]

\* No empty text, zero or empty list, and no internet access for a vlan-only network.
Expressible(m) ==
    /\ m.subnet # Empty /\ m.lease # Zero /\ m.dns # {}
    /\ m.purpose = "vlan-only" => m.internet # TRUE

\* The answer is the plan, with what was unknown filled in.
Matches(st, plan) == \A a \in DOMAIN plan : plan[a] = Unknown \/ st[a] = plan[a]

\* The network does what the plan asks for.
InForce(n, plan) ==
    LET r == Request(plan)
    IN  /\ n.enabled /\ n.vlan = r.vlan /\ n.tagging = r.tagging /\ GroupOf(n.group) = r.group
        /\ n.purpose = "corporate" =>
              \A a \in {"subnet", "dhcp", "range", "lease", "dns", "internet"} : n[a] = r[a]

\* Neither a network that is switched off nor one whose tagging is can be told from others.
Shown(n) == n.enabled /\ n.tagging = (n.vlan # Zero)

\* What the generated block cannot say: the group of a vlan-only network, the lease of
\* one that does not serve DHCP, and a lease of 0.
Restorable(n) ==
    IF n.purpose = "corporate" THEN n.lease = Day \/ (n.dhcp /\ n.lease # Zero)
    ELSE n.group \in {"LAN", Empty}
=============================================================================

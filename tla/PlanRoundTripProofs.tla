-------------------------- MODULE PlanRoundTripProofs --------------------------
(***************************************************************************)
(* What PlanRoundTrip promises of the six resources, for every value,      *)
(* target, schedule, setting, traffic class, network and passphrase, and   *)
(* any number of edits.                                                    *)
(*                                                                         *)
(* First each kind by itself: its conversions stay within their types, a   *)
(* read shows the one written form, and plan, request, stored object and   *)
(* answer make a round trip.  Then the steps, which need no more than      *)
(* that.                                                                   *)
(***************************************************************************)
EXTENDS PlanRoundTrip, TLAPS

\* A configuration does not ask for what is known after apply.
Known(m) == kind = "network" => Unknown \notin {m.range, m.dns}

\* What a profile enables has a value, and "custom" something to tag.
Settled(p) ==
    /\ p.mode = "custom" => ~(Lan \subseteq p.excluded \cup {p.native})
    /\ ~p.autoneg => p.speed # Null
    /\ p.limited => p.egress # Null
    /\ \A c \in Class : p.storm[c].on =>
          (IF p.unit = "rate" THEN p.storm[c].rate ELSE p.storm[c].level) # Null

\* The matching type of a port is the one that the port or the group calls for.
SettledPolicy(o) ==
    /\ o.group # Empty => o.portType = "OBJECT"
    /\ o.group = Empty /\ o.port # Null => o.portType = "SPECIFIC"

SettledObject(o) ==
    /\ kind = "port_profile" => Settled(o)
    /\ kind = "firewall_policy" => SettledPolicy(o)

Objects == {o \in Object : SettledObject(o)}
Configs == {m \in Model : Known(m)}
CanonicalState(m) ==
    /\ kind = "firewall_policy" => P!Canonical(m)
    /\ kind = "network" => N!Canonical(m)
States == {m \in Model : CanonicalState(m)}

RememberedPassphrase(st, o) == kind = "wlan" => st.passphrase \in {Null, o.passphrase}

\* Strengthening of the four properties that is inductive: the configuration and the
\* object are what Terraform and the controller let through, a passphrase in the state is
\* absent or the object's, and an answer is what the next read would store.
IInv ==
    /\ TypeOK
    /\ Known(config)
    /\ object # Gone => SettledObject(object)
    /\ object # Gone /\ state # Untracked /\ ~unsure => RememberedPassphrase(state, object)
    /\ plan # Untracked =>
          object # Gone /\ state # Untracked /\ state = ApiToModel(object, state)
    /\ plan # Untracked /\ Expressible(config) /\ ~removed =>
          Matches(state, plan) /\ Planned(config, state) = state

\* All of these depend on the resource type alone, which no step changes.
LEMMA Steady ==
    ASSUME kind' = kind
    PROVE  /\ Model' = Model /\ Object' = Object
           /\ \A m : Known(m)' = Known(m) /\ CanonicalState(m)' = CanonicalState(m)
           /\ \A m : Expressible(m)' = Expressible(m)
           /\ \A o : SettledObject(o)' = SettledObject(o)
           /\ \A st, o : RememberedPassphrase(st, o)' = RememberedPassphrase(st, o)
           /\ \A o, st : ApiToModel(o, st)' = ApiToModel(o, st)
           /\ \A st, p : Matches(st, p)' = Matches(st, p)
           /\ \A m, st : Planned(m, st)' = Planned(m, st)
BY DEF Model, Object, Known, CanonicalState, Expressible, SettledObject, RememberedPassphrase,
       ApiToModel, Matches, Planned

(***************************************************************************)
(* The sentinels, one fact at a time.                                      *)
(***************************************************************************)

\* What is absent, zero, empty and unknown are four things.
LEMMA Distinct ==
    /\ Null # Zero /\ Null # Empty /\ Null # Unknown
    /\ Zero # Empty /\ Zero # Unknown /\ Empty # Unknown
BY SentinelAssumption

\* None of them, nor what is foreign, is a value of an attribute.
LEMMA NoValue ==
    ASSUME NEW s \in {Null, Zero, Empty, Unknown, Foreign}
    PROVE  /\ s \notin Value /\ s \notin Passphrase /\ s \notin Lan /\ s \notin Amount
           /\ s # TRUE /\ s # FALSE /\ s # N!Day
           /\ s # "standard" /\ s # "hotspot" /\ s # "iot" /\ s # "usual" /\ s # "other"
           /\ s # "REPLACE_ME" /\ s # "LAN" /\ s # "ALWAYS" /\ s # "EVERY_WEEK" /\ s # "CUSTOM"
           /\ s # "ANY" /\ s # "IP" /\ s # "MAC" /\ s # "IID" /\ s # "NETWORK" /\ s # "CLIENT"
           /\ s # "auto" /\ s # "allow_all" /\ s # "block_all" /\ s # "custom"
           /\ s # "percentage" /\ s # "packets_per_second"
BY SentinelAssumption DEF W!Application, S!Unit

\* Nor a list, a schedule or a storm control block.
LEMMA NoList ==
    /\ Null \notin SUBSET Value /\ Null \notin SUBSET Lan
    /\ Unknown \notin SUBSET Value
    /\ Null \notin P!ScheduleBlock /\ Null \notin S!Storm
BY SentinelAssumption

\* What is not in the state is no model, what does not exist no object.
LEMMA NotThere == kind \in Kind => Untracked \notin Model /\ Gone \notin Object
BY SentinelAssumption DEF Kind, Model, Object

(***************************************************************************)
(* Firewall groups.                                                        *)
(***************************************************************************)

\* What a group starts from and is edited to has its type.
LEMMA GroupFits ==
    /\ G!Blank \in G!Model
    /\ \A m \in G!Model : G!Edits(m) \subseteq G!Model /\ G!OutsideEdits(m) \subseteq G!Model
<1>1. G!Blank \in G!Model
  BY InputAssumption DEF G!Blank, G!Model, G!GroupType
<1>2. ASSUME NEW m \in G!Model PROVE G!Edits(m) \subseteq G!Model
  BY DEF G!Edits, G!Model
<1>3. ASSUME NEW m \in G!Model PROVE G!OutsideEdits(m) \subseteq G!Model
  BY DEF G!OutsideEdits, G!Model
<1> QED BY <1>1, <1>2, <1>3

(***************************************************************************)
(* DNS records.                                                            *)
(***************************************************************************)

\* Two records of the same set with the same fields are the same.
LEMMA SameRecord ==
    ASSUME NEW a \in D!Model, NEW b \in D!Model, a.name = b.name, a.value = b.value,
           a.enabled = b.enabled, \A o \in Option : a.opt[o] = b.opt[o]
    PROVE  a = b
BY DEF D!Model

\* What a record starts from, is edited to, read as and generated as has its type.
LEMMA RecordFits ==
    /\ D!Blank \in D!Model
    /\ \A m \in D!Model : D!Edits(m) \subseteq D!Model
    /\ \A r \in D!Record : /\ D!OutsideEdits(r) \subseteq D!Record
                           /\ D!ApiToModel(r) \in D!Model
                           /\ D!Generate(r) \in D!Model
<1>1. D!Blank \in D!Model
  BY InputAssumption DEF D!Blank, D!Model
<1>2. ASSUME NEW m \in D!Model PROVE D!Edits(m) \subseteq D!Model
  <2>1. ASSUME NEW o \in Option, NEW v \in Value \cup {Null, Zero}
        PROVE  [m EXCEPT !.opt[o] = v] \in D!Model
    BY DEF D!Model
  <2>2. ASSUME NEW v \in Value
        PROVE  [m EXCEPT !.name = v] \in D!Model /\ [m EXCEPT !.value = v] \in D!Model
    BY DEF D!Model
  <2>3. ASSUME NEW b \in {Null, TRUE, FALSE} PROVE [m EXCEPT !.enabled = b] \in D!Model
    BY DEF D!Model
  <2> HIDE DEF D!Model
  <2>4. {[m EXCEPT !.enabled = b] : b \in {Null, TRUE, FALSE}} \subseteq D!Model
    BY <2>3
  <2>5. {[m EXCEPT !.name = v] : v \in Value} \subseteq D!Model
    BY <2>2
  <2>6. {[m EXCEPT !.value = v] : v \in Value} \subseteq D!Model
    BY <2>2
  <2>7. {[m EXCEPT !.opt[o] = v] : o \in Option, v \in Value \cup {Null, Zero}} \subseteq D!Model
    BY <2>1
  <2> QED BY <2>4, <2>5, <2>6, <2>7 DEF D!Edits
<1>3. ASSUME NEW r \in D!Record PROVE D!OutsideEdits(r) \subseteq D!Record
  <2>1. ASSUME NEW o \in Option, NEW v \in Value \cup {Zero}
        PROVE  [r EXCEPT !.opt[o] = v] \in D!Record
    BY DEF D!Record
  <2>2. [r EXCEPT !.enabled = ~@] \in D!Record
    BY DEF D!Record
  <2> QED BY <2>1, <2>2 DEF D!OutsideEdits, D!Record
<1>4. ASSUME NEW r \in D!Record PROVE D!ApiToModel(r) \in D!Model
  BY DEF D!ApiToModel, D!OptionOrNull, D!Record, D!Model
<1>5. ASSUME NEW r \in D!Record PROVE D!Generate(r) \in D!Model
  BY DEF D!Generate, D!OptionOrNull, D!Record, D!Model
<1> QED BY <1>1, <1>2, <1>3, <1>4, <1>5

\* A plan, and what is sent for it, has every attribute of a record.
LEMMA RecordPlanned ==
    ASSUME NEW m \in D!Model
    PROVE  /\ D!Planned(m) \in D!Model /\ D!Planned(m).enabled \in BOOLEAN
           /\ \A st \in D!Model : D!ApplyPlanToState(D!Planned(m), st) \in D!Model
           /\ \A st \in D!Model : D!ApplyPlanToState(D!Planned(m), st).enabled \in BOOLEAN
BY Distinct, NoValue DEF D!Planned, D!Model, D!ApplyPlanToState

\* What is sent for a plan is a record.
LEMMA RecordWritten ==
    ASSUME NEW q \in D!Model, q.enabled \in BOOLEAN
    PROVE  D!Request(q) \in D!Record
BY Distinct, NoValue DEF D!Request, D!Record, D!Model

\* A plan that keeps nothing of the state is read back as it is.
LEMMA RecordRoundTrip ==
    ASSUME NEW m \in D!Model, D!Expressible(m)
    PROVE  LET p == D!Planned(m)
           IN  /\ D!ApiToModel(D!Request(p)) = p
               /\ D!Planned(p) = p
               /\ \A st \in D!Model : D!Kept(p, st) = {} =>
                      D!ApiToModel(D!Request(D!ApplyPlanToState(p, st))) = p
<1> DEFINE p == D!Planned(m)
<1>1. p \in D!Model /\ D!Expressible(p) /\ p.enabled \in BOOLEAN
  BY RecordPlanned DEF D!Expressible, D!Planned, D!Model
<1>2. ASSUME NEW q \in D!Model, D!Expressible(q) PROVE D!ApiToModel(D!Request(q)) = q
  <2> DEFINE a == D!ApiToModel(D!Request(q))
  <2>1. /\ a \in D!Model /\ a.name = q.name /\ a.value = q.value
        /\ a.enabled = q.enabled
    BY DEF D!Request, D!ApiToModel, D!OptionOrNull, D!Model
  <2>2. ASSUME NEW o \in Option PROVE a.opt[o] = q.opt[o]
    <3>1. a.opt[o] = D!OptionOrNull(IF q.opt[o] = Null THEN Zero ELSE q.opt[o])
      BY DEF D!Request, D!ApiToModel, D!Model
    <3>2. q.opt[o] # Zero
      BY <1>2 DEF D!Expressible
    <3> QED BY <3>1, <3>2, Distinct DEF D!OptionOrNull
  <2> QED BY <1>2, <2>1, <2>2, SameRecord
<1>3. D!Planned(p) = p
  BY Distinct, NoValue DEF D!Planned, D!Model
<1>4. ASSUME NEW st \in D!Model, D!Kept(p, st) = {}
      PROVE  D!ApplyPlanToState(p, st) = p
  BY <1>1, <1>4, Distinct, NoValue DEF D!ApplyPlanToState, D!Kept, D!Model
<1> QED BY <1>1, <1>2, <1>3, <1>4

\* What was read of a record would send the record as it is.
LEMMA RecordRead == ASSUME NEW r \in D!Record PROVE D!Request(D!ApiToModel(r)) = r
<1>1. D!ApiToModel(r) \in D!Model
  BY RecordFits
<1>2. D!Request(D!ApiToModel(r)) \in D!Model /\ r \in D!Model
  BY <1>1 DEF D!Request, D!Record, D!Model
<1>3. \A o \in Option : D!Request(D!ApiToModel(r)).opt[o] = r.opt[o]
  BY Distinct, NoValue DEF D!Request, D!ApiToModel, D!OptionOrNull, D!Record
<1> QED BY <1>2, <1>3, SameRecord DEF D!Request, D!ApiToModel, D!Record

\* What is generated for a record plans what is read of it.
LEMMA RecordGenerated ==
    ASSUME NEW r \in D!Record, D!Restorable(r)
    PROVE  D!Planned(D!Generate(r)) = D!ApiToModel(r)
<1> DEFINE p == D!Planned(D!Generate(r))
<1>1. p \in D!Model /\ D!ApiToModel(r) \in D!Model
  BY RecordFits, RecordPlanned
<1>2. \A o \in Option : D!Generate(r).opt[o] = D!OptionOrNull(r.opt[o])
  BY DEF D!Restorable, D!Accepted, D!Generate, D!OptionOrNull, D!Record
<1>3. \A o \in Option : p.opt[o] = D!ApiToModel(r).opt[o]
  BY <1>2 DEF D!Planned, D!Generate, D!ApiToModel, D!Record
<1>4. p.enabled = D!ApiToModel(r).enabled
  BY Distinct, NoValue DEF D!Planned, D!Generate, D!ApiToModel, D!Record
<1>5. p.name = D!ApiToModel(r).name /\ p.value = D!ApiToModel(r).value
  BY DEF D!Planned, D!Generate, D!ApiToModel, D!Record
<1> QED BY <1>1, <1>3, <1>4, <1>5, SameRecord


(***************************************************************************)
(* Networks.                                                               *)
(***************************************************************************)

KnownNet(m) == Unknown \notin {m.range, m.dns}

LEMMA NetBlank == N!Blank \in N!Model /\ KnownNet(N!Blank)
BY InputAssumption, Distinct DEF N!Blank, N!Model, KnownNet, N!Purpose

\* No edit of a configuration asks for an unknown value.
LEMMA NetEdits ==
    ASSUME NEW m \in N!Model, KnownNet(m)
    PROVE  \A x \in N!Edits(m) : x \in N!Model /\ KnownNet(x)
<1> DEFINE Good == {x \in N!Model : KnownNet(x)}
<1>1. ASSUME NEW p \in N!Purpose
      PROVE  [m EXCEPT !.purpose = p, !.subnet = IF p = "corporate" THEN @ ELSE Null] \in Good
  BY DEF N!Model, KnownNet
<1>2. ASSUME NEW v \in Value \cup {Null} PROVE [m EXCEPT !.vlan = v] \in Good
  BY DEF N!Model, KnownNet
<1>3. ASSUME NEW v \in Value \cup {Null, Empty} PROVE [m EXCEPT !.subnet = v] \in Good
  BY DEF N!Model, KnownNet
<1>4. ASSUME NEW v \in Value \cup {Null, "LAN"} PROVE [m EXCEPT !.group = v] \in Good
  BY DEF N!Model, KnownNet
<1>5. ASSUME NEW x \in {Null, TRUE, FALSE} \X (Value \cup {Null}) \X (Value \cup {Null, Zero})
      PROVE  [m EXCEPT !.dhcp = x[1], !.range = x[2], !.lease = x[3]] \in Good
  BY Distinct, NoValue DEF N!Model, KnownNet
<1>6. ASSUME NEW s \in {Null} \cup SUBSET Value PROVE [m EXCEPT !.dns = s] \in Good
  BY Distinct, NoList DEF N!Model, KnownNet
<1>7. ASSUME NEW b \in {Null, TRUE, FALSE} PROVE [m EXCEPT !.internet = b] \in Good
  BY DEF N!Model, KnownNet
<1> HIDE DEF Good
<1>11. {[m EXCEPT !.purpose = p, !.subnet = IF p = "corporate" THEN @ ELSE Null] : p \in N!Purpose}
          \subseteq Good
  BY <1>1
<1>12. {[m EXCEPT !.vlan = v] : v \in Value \cup {Null}} \subseteq Good
  BY <1>2
<1>13. {[m EXCEPT !.subnet = v] : v \in Value \cup {Null, Empty}} \subseteq Good
  BY <1>3
<1>14. {[m EXCEPT !.group = v] : v \in Value \cup {Null, "LAN"}} \subseteq Good
  BY <1>4
<1>15. {[m EXCEPT !.dhcp = x[1], !.range = x[2], !.lease = x[3]] :
          x \in {Null, TRUE, FALSE} \X (Value \cup {Null}) \X (Value \cup {Null, Zero})}
          \subseteq Good
  BY <1>5
<1>16. {[m EXCEPT !.dns = s] : s \in {Null} \cup SUBSET Value} \subseteq Good
  BY <1>6
<1>17. {[m EXCEPT !.internet = b] : b \in {Null, TRUE, FALSE}} \subseteq Good
  BY <1>7
<1>18. N!Edits(m) \subseteq Good
  BY <1>11, <1>12, <1>13, <1>14, <1>15, <1>16, <1>17 DEF N!Edits
<1> QED BY <1>18 DEF Good

\* Whatever others edit, a network stays one.
LEMMA NetOutsideEdits == ASSUME NEW n \in N!Net PROVE N!OutsideEdits(n) \subseteq N!Net
<1>1. /\ [n EXCEPT !.enabled = ~@] \in N!Net /\ [n EXCEPT !.tagging = ~@] \in N!Net
      /\ [n EXCEPT !.internet = ~@] \in N!Net
  BY DEF N!Net
<1>2. ASSUME NEW v \in Value \cup {Zero}
      PROVE  [n EXCEPT !.vlan = v, !.tagging = v # Zero] \in N!Net
  BY DEF N!Net
<1>3. ASSUME NEW v \in Value \cup {"LAN", Empty} PROVE [n EXCEPT !.group = v] \in N!Net
  BY DEF N!Net
<1>4. ASSUME NEW x \in BOOLEAN \X (Value \cup {Empty}) \X (Value \cup {Zero, N!Day})
      PROVE  [n EXCEPT !.dhcp = x[1], !.range = x[2], !.lease = x[3]] \in N!Net
  BY DEF N!Net
<1>5. ASSUME NEW s \in SUBSET Value PROVE [n EXCEPT !.dns = s] \in N!Net
  BY DEF N!Net
<1>11. {[n EXCEPT !.enabled = ~@], [n EXCEPT !.tagging = ~@], [n EXCEPT !.internet = ~@]}
          \subseteq N!Net
  BY <1>1
<1>12. {[n EXCEPT !.vlan = v, !.tagging = v # Zero] : v \in Value \cup {Zero}} \subseteq N!Net
  BY <1>2
<1>13. {[n EXCEPT !.group = v] : v \in Value \cup {"LAN", Empty}} \subseteq N!Net
  BY <1>3
<1>14. {[n EXCEPT !.dhcp = x[1], !.range = x[2], !.lease = x[3]] :
          x \in BOOLEAN \X (Value \cup {Empty}) \X (Value \cup {Zero, N!Day})} \subseteq N!Net
  BY <1>4
<1>15. {[n EXCEPT !.dns = s] : s \in SUBSET Value} \subseteq N!Net
  BY <1>5
<1> QED BY <1>11, <1>12, <1>13, <1>14, <1>15 DEF N!OutsideEdits

\* A read shows the canonical form.
LEMMA NetRead ==
    ASSUME NEW n \in N!Net
    PROVE  N!ApiToModel(n) \in N!Model /\ N!Canonical(N!ApiToModel(n))
<1>1. N!ApiToModel(n) \in N!Model
  BY DEF N!ApiToModel, N!Net, N!Model, N!GroupOf
<1>2. N!Canonical(N!ApiToModel(n))
  BY Distinct, NoValue, NoList DEF N!ApiToModel, N!Canonical, N!Net, N!GroupOf
<1> QED BY <1>1, <1>2

\* What is generated for a network is a configuration without unknowns.
LEMMA NetGenerates ==
    ASSUME NEW n \in N!Net
    PROVE  N!Generate(n) \in N!Model /\ KnownNet(N!Generate(n))
<1>1. N!Generate(n) \in N!Model
  BY DEF N!Generate, N!Net, N!Model
<1>2. KnownNet(N!Generate(n))
  BY Distinct, NoValue, NoList DEF N!Generate, KnownNet, N!Net
<1> QED BY <1>1, <1>2

\* The schema defaults and what is computed, attribute by attribute.
NetChanged(m, st) ==
    \/ m.purpose # st.purpose \/ m.vlan # st.vlan \/ m.subnet # st.subnet
    \/ N!OrElse(m.group, "LAN") # st.group \/ N!OrElse(m.dhcp, FALSE) # st.dhcp
    \/ N!OrElse(m.lease, N!Day) # st.lease \/ N!OrElse(m.internet, TRUE) # st.internet
    \/ m.range # Null /\ m.range # st.range
    \/ m.dns # Null /\ m.dns # st.dns

NetComputed(v, old, changed) == IF v = Null THEN IF changed THEN Unknown ELSE old ELSE v

\* The proposed plan, attribute by attribute.
LEMMA NetProposed ==
    ASSUME NEW m \in N!Model, NEW st, NEW untracked \in BOOLEAN
    PROVE  N!Proposed(m, st, untracked) =
             [purpose |-> m.purpose, vlan |-> m.vlan, subnet |-> m.subnet,
              group |-> N!OrElse(m.group, "LAN"), dhcp |-> N!OrElse(m.dhcp, FALSE),
              range |-> NetComputed(m.range, st.range, untracked \/ NetChanged(m, st)),
              lease |-> N!OrElse(m.lease, N!Day),
              dns |-> NetComputed(m.dns, st.dns, untracked \/ NetChanged(m, st)),
              internet |-> N!OrElse(m.internet, TRUE)]
<1> DEFINE filled == [m EXCEPT !.group = N!OrElse(@, "LAN"), !.dhcp = N!OrElse(@, FALSE),
                               !.lease = N!OrElse(@, N!Day), !.internet = N!OrElse(@, TRUE)]
           changed == untracked \/ \E a \in DOMAIN m :
                         filled[a] # st[a] /\ ~(a \in N!Computed /\ m[a] = Null)
<1>1. DOMAIN m = {"purpose", "vlan", "subnet", "group", "dhcp", "range", "lease", "dns", "internet"}
  BY DEF N!Model
<1>2. /\ filled["purpose"] = m.purpose /\ filled["vlan"] = m.vlan /\ filled["subnet"] = m.subnet
      /\ filled["group"] = N!OrElse(m.group, "LAN") /\ filled["dhcp"] = N!OrElse(m.dhcp, FALSE)
      /\ filled["range"] = m.range /\ filled["lease"] = N!OrElse(m.lease, N!Day)
      /\ filled["dns"] = m.dns /\ filled["internet"] = N!OrElse(m.internet, TRUE)
  BY DEF N!Model
<1> HIDE DEF filled
<1>3. changed = (untracked \/ NetChanged(m, st))
  BY <1>1, <1>2 DEF NetChanged, N!Computed
<1>4. N!Proposed(m, st, untracked) =
         [a \in DOMAIN m |->
            IF a \in N!Computed /\ m[a] = Null THEN IF changed THEN Unknown ELSE st[a]
            ELSE filled[a]]
  BY DEF N!Proposed, filled
<1> HIDE DEF changed
<1> QED BY <1>1, <1>2, <1>3, <1>4 DEF N!Computed, NetComputed

\* Two networks are equal if their attributes are.
LEMMA SameNet ==
    ASSUME NEW a \in N!Model, NEW b \in N!Model, a.purpose = b.purpose, a.vlan = b.vlan,
           a.subnet = b.subnet, a.group = b.group, a.dhcp = b.dhcp, a.range = b.range,
           a.lease = b.lease, a.dns = b.dns, a.internet = b.internet
    PROVE  a = b
BY DEF N!Model

\* The plan, attribute by attribute: a vlan-only network has no IP settings.
LEMMA NetPlanned ==
    ASSUME NEW m \in N!Model, NEW st, NEW untracked \in BOOLEAN, untracked \/ st \in N!Model
    PROVE  LET p == N!Planned(m, st, untracked)
               ip == m.purpose = "corporate"
               changed == untracked \/ NetChanged(m, st)
           IN  /\ p \in N!Model
               /\ p.purpose = m.purpose /\ p.vlan = m.vlan /\ p.group = N!OrElse(m.group, "LAN")
               /\ p.subnet = IF ip THEN m.subnet ELSE Null
               /\ p.dhcp = IF ip THEN N!OrElse(m.dhcp, FALSE) ELSE FALSE
               /\ p.range = IF ip THEN NetComputed(m.range, st.range, changed) ELSE Null
               /\ p.lease = IF ip THEN N!OrElse(m.lease, N!Day) ELSE Null
               /\ p.dns = IF ip THEN NetComputed(m.dns, st.dns, changed) ELSE Null
               /\ p.internet = IF ip THEN N!OrElse(m.internet, TRUE) ELSE N!OrElse(m.internet, FALSE)
<1> DEFINE f == N!Proposed(m, st, untracked)
           changed == untracked \/ NetChanged(m, st)
<1>1. /\ f \in N!Model
      /\ f.purpose = m.purpose /\ f.vlan = m.vlan /\ f.subnet = m.subnet
      /\ f.group = N!OrElse(m.group, "LAN") /\ f.dhcp = N!OrElse(m.dhcp, FALSE)
      /\ f.range = NetComputed(m.range, st.range, changed)
      /\ f.lease = N!OrElse(m.lease, N!Day)
      /\ f.dns = NetComputed(m.dns, st.dns, changed)
      /\ f.internet = N!OrElse(m.internet, TRUE)
  <2> HIDE DEF changed
  <2>1. f = [purpose |-> m.purpose, vlan |-> m.vlan, subnet |-> m.subnet,
             group |-> N!OrElse(m.group, "LAN"), dhcp |-> N!OrElse(m.dhcp, FALSE),
             range |-> NetComputed(m.range, st.range, changed),
             lease |-> N!OrElse(m.lease, N!Day),
             dns |-> NetComputed(m.dns, st.dns, changed),
             internet |-> N!OrElse(m.internet, TRUE)]
    BY NetProposed DEF changed
  <2>2. changed \/ st \in N!Model
    BY DEF changed
  <2>3. NetComputed(m.range, st.range, changed) \in Value \cup {Null, Unknown}
    BY <2>2 DEF NetComputed, N!Model
  <2>4. NetComputed(m.dns, st.dns, changed) \in {Null, Unknown} \cup SUBSET Value
    BY <2>2 DEF NetComputed, N!Model
  <2>5. /\ N!OrElse(m.group, "LAN") \in Value \cup {Null, "LAN"}
        /\ N!OrElse(m.dhcp, FALSE) \in {Null, TRUE, FALSE}
        /\ N!OrElse(m.lease, N!Day) \in Value \cup {Null, Zero, N!Day}
        /\ N!OrElse(m.internet, TRUE) \in {Null, TRUE, FALSE}
    BY DEF N!Model, N!OrElse
  <2> HIDE DEF f
  <2>7. /\ m.purpose \in N!Purpose /\ m.vlan \in Value \cup {Null}
        /\ m.subnet \in Value \cup {Null, Empty}
    BY DEF N!Model
  <2>6. f \in N!Model
    BY <2>1, <2>3, <2>4, <2>5, <2>7, ZenonT(60) DEF N!Model
  <2> QED BY <2>1, <2>6
<1>2. CASE m.purpose = "corporate"
  BY <1>1, <1>2 DEF N!Planned
<1>3. CASE m.purpose # "corporate"
  <2> HIDE DEF f
  <2>1. N!Planned(m, st, untracked) =
          [f EXCEPT !.subnet = Null, !.dhcp = FALSE, !.range = Null, !.lease = Null,
                    !.dns = Null, !.internet = IF m.internet = Null THEN FALSE ELSE @]
    BY <1>3 DEF N!Planned, f
  <2> QED BY <2>1, <1>1, <1>3 DEF N!Model, N!OrElse
<1> QED BY <1>2, <1>3

\* What the controller may store for a request, attribute by attribute.
LEMMA NetWritten ==
    ASSUME NEW q \in N!Model, q.group # Null, NEW n \in N!Stored(N!Request(q))
    PROVE  /\ n \in N!Net
           /\ n.purpose = q.purpose /\ n.vlan = N!OrElse(q.vlan, Zero) /\ n.group = q.group
           /\ n.subnet = (IF q.purpose = "corporate" THEN N!OrElse(q.subnet, Empty) ELSE Empty)
           /\ n.dhcp = (q.purpose = "corporate" /\ q.dhcp = TRUE)
           /\ q.purpose # "corporate" => n.range = Empty
           /\ q.purpose = "corporate" /\ q.range \notin {Null, Unknown} => n.range = q.range
           /\ n.lease = (IF q.purpose = "corporate" THEN N!OrElse(q.lease, Zero) ELSE Zero)
           /\ n.dns = (IF q.purpose = "corporate" /\ q.dns \notin {Null, Unknown} THEN q.dns ELSE {})
           /\ n.internet = (q.purpose = "corporate" /\ q.internet = TRUE)
<1> DEFINE r == N!Request(q)
<1>1. /\ r \in N!Net
      /\ r.purpose = q.purpose /\ r.vlan = N!OrElse(q.vlan, Zero) /\ r.group = q.group
      /\ r.subnet = (IF q.purpose = "corporate" THEN N!OrElse(q.subnet, Empty) ELSE Empty)
      /\ r.dhcp = (q.purpose = "corporate" /\ q.dhcp = TRUE)
      /\ r.range = (IF q.purpose = "corporate" /\ q.range \notin {Null, Unknown}
                     THEN q.range ELSE Empty)
      /\ r.lease = (IF q.purpose = "corporate" THEN N!OrElse(q.lease, Zero) ELSE Zero)
      /\ r.dns = (IF q.purpose = "corporate" /\ q.dns \notin {Null, Unknown} THEN q.dns ELSE {})
      /\ r.internet = (q.purpose = "corporate" /\ q.internet = TRUE)
  BY DEF N!Request, N!Net, N!Model, N!OrElse
<1> HIDE DEF r
<1>2. \/ n = r
      \/ r.purpose = "corporate" /\ r.range = Empty
         /\ \E v \in Value \cup {Empty} : n = [r EXCEPT !.range = v]
  BY DEF N!Stored, r
<1>3. q.range \in Value \cup {Null, Unknown}
  BY DEF N!Model
<1>4. CASE n = r
  BY <1>1, <1>4
<1>5. CASE \E v \in Value \cup {Empty} :
             n = [r EXCEPT !.range = v] /\ r.purpose = "corporate" /\ r.range = Empty
  BY <1>1, <1>3, <1>5, NoValue DEF N!Net
<1> QED BY <1>2, <1>4, <1>5

\* What is shown of a network asks for it as it is.
LEMMA NetInForce ==
    ASSUME NEW n \in N!Net, N!Shown(n)
    PROVE  N!InForce(n, N!ApiToModel(n))
<1> DEFINE a == N!ApiToModel(n)
           r == N!Request(a)
<1>1. /\ r.vlan = n.vlan /\ r.tagging = n.tagging /\ r.group = N!GroupOf(n.group)
  BY Distinct, NoValue DEF N!Request, N!ApiToModel, N!OrElse, N!Shown, N!Net
<1>2. CASE n.purpose = "corporate"
  <2>1. /\ r.subnet = n.subnet /\ r.dhcp = n.dhcp /\ r.range = n.range
        /\ r.lease = n.lease /\ r.internet = n.internet
    BY <1>2, Distinct, NoValue DEF N!Request, N!ApiToModel, N!OrElse, N!Net
  <2>2. r.dns = n.dns
    BY <1>2, Distinct, NoList DEF N!Request, N!ApiToModel, N!OrElse, N!Net
  <2> HIDE DEF r
  <2> QED BY <1>1, <2>1, <2>2 DEF N!InForce, N!Shown, r
<1>3. CASE n.purpose # "corporate"
  BY <1>1, <1>3 DEF N!InForce, N!Shown
<1> QED BY <1>2, <1>3

NetKept(v, old) == IF v \in {Null, Unknown} THEN old ELSE v

\* What applies to the plan on the way to the request: Kept and Replaces exclude the rest.
LEMMA NetRequested ==
    ASSUME NEW p \in N!Model, p.group # Null, NEW st \in N!Model,
           st.group # Null
    PROVE  LET q == N!ApplyPlanToState(p, st)
           IN  /\ q \in N!Model /\ q.purpose = p.purpose /\ q.group = p.group
               /\ N!Kept(p, st) = {} => q.vlan = p.vlan /\ q.subnet = p.subnet
               /\ p.dhcp # Null => q.dhcp = p.dhcp
               /\ p.lease # Null => q.lease = p.lease
               /\ p.internet # Null => q.internet = p.internet
               /\ p.range \notin {Null, Unknown} => q.range = p.range
               /\ p.dns \notin {Null, Unknown} => q.dns = p.dns
<1> DEFINE q == N!ApplyPlanToState(p, st)
<1>1. DOMAIN p = {"purpose", "vlan", "subnet", "group", "dhcp", "range", "lease", "dns", "internet"}
  BY DEF N!Model
<1>2. q = [purpose |-> p.purpose, vlan |-> NetKept(p.vlan, st.vlan), subnet |-> NetKept(p.subnet, st.subnet),
           group |-> NetKept(p.group, st.group), dhcp |-> NetKept(p.dhcp, st.dhcp),
           range |-> NetKept(p.range, st.range), lease |-> NetKept(p.lease, st.lease),
           dns |-> NetKept(p.dns, st.dns), internet |-> NetKept(p.internet, st.internet)]
  BY <1>1 DEF N!ApplyPlanToState, NetKept
<1>3. /\ NetKept(p.vlan, st.vlan) \in Value \cup {Null}
      /\ NetKept(p.subnet, st.subnet) \in Value \cup {Null, Empty}
      /\ NetKept(p.group, st.group) = p.group
      /\ NetKept(p.dhcp, st.dhcp) \in {Null, TRUE, FALSE}
      /\ NetKept(p.range, st.range) \in Value \cup {Null, Unknown}
      /\ NetKept(p.lease, st.lease) \in Value \cup {Null, Zero, N!Day}
      /\ NetKept(p.dns, st.dns) \in {Null, Unknown} \cup SUBSET Value
      /\ NetKept(p.internet, st.internet) \in {Null, TRUE, FALSE}
  <2>1. p.group # Unknown
    BY NoValue DEF N!Model
  <2>2. NetKept(p.group, st.group) = p.group
    BY <2>1 DEF NetKept
  <2>3. /\ NetKept(p.dhcp, st.dhcp) \in {p.dhcp, st.dhcp}
        /\ NetKept(p.internet, st.internet) \in {p.internet, st.internet}
        /\ NetKept(p.dns, st.dns) \in {p.dns, st.dns}
        /\ NetKept(p.vlan, st.vlan) \in {p.vlan, st.vlan}
        /\ NetKept(p.subnet, st.subnet) \in {p.subnet, st.subnet}
        /\ NetKept(p.range, st.range) \in {p.range, st.range}
        /\ NetKept(p.lease, st.lease) \in {p.lease, st.lease}
    BY DEF NetKept
  <2> QED BY <2>2, <2>3 DEF N!Model
<1>4. /\ p.vlan # Unknown /\ p.subnet # Unknown /\ p.dhcp # Unknown /\ p.lease # Unknown
      /\ p.internet # Unknown
  BY Distinct, NoValue DEF N!Model
<1>5. N!Kept(p, st) = {} => (p.vlan = Null => st.vlan = Null) /\ (p.subnet = Null => st.subnet = Null)
  BY DEF N!Kept
<1> HIDE DEF q
<1>6. q \in N!Model
  BY <1>2, <1>3 DEF N!Model
<1>7. /\ q.purpose = p.purpose /\ q.vlan = NetKept(p.vlan, st.vlan)
      /\ q.subnet = NetKept(p.subnet, st.subnet) /\ q.group = p.group
      /\ q.dhcp = NetKept(p.dhcp, st.dhcp) /\ q.range = NetKept(p.range, st.range)
      /\ q.lease = NetKept(p.lease, st.lease) /\ q.dns = NetKept(p.dns, st.dns)
      /\ q.internet = NetKept(p.internet, st.internet)
  BY <1>2, <1>3
<1> QED BY <1>4, <1>5, <1>6, <1>7 DEF NetKept, q

\* Configuration m plans no change of state a.
NetStays(m, a) == N!Planned(m, a, FALSE) = a

\* The answer to a plan is the plan with what was unknown filled in, and plans no change;
\* the plan is for a network that is not there, or a change of one that keeps nothing of it.
LEMMA NetRoundTrip ==
    ASSUME NEW m \in N!Model, KnownNet(m), N!Accepted(m), N!Expressible(m),
           NEW st \in N!Model \cup {Untracked}, st = Untracked \/ N!Canonical(st),
           NEW p \in N!Model, p = N!Planned(m, st, st = Untracked),
           NEW q \in N!Model, NEW n \in N!Stored(N!Request(q)),
           st = Untracked => q = p,
           st # Untracked => q = N!ApplyPlanToState(p, st) /\ N!Kept(p, st) = {} /\ p # st
    PROVE  /\ N!Matches(N!ApiToModel(n), p)
           /\ NetStays(m, N!ApiToModel(n))
<1> DEFINE a == N!ApiToModel(n)
           ip == m.purpose = "corporate"
           untracked == st = Untracked
           changed == untracked \/ NetChanged(m, st)
<1>u. /\ untracked \in BOOLEAN /\ (untracked \/ st \in N!Model)
      /\ untracked => q = p
      /\ ~untracked => q = N!ApplyPlanToState(p, st) /\ N!Kept(p, st) = {} /\ p # st
      /\ ~untracked => st \in N!Model /\ st.group # Null
  BY DEF N!Canonical
<1>p. p = N!Planned(m, st, untracked)
  OBVIOUS
<1> HIDE DEF untracked
<1>1. /\ p \in N!Model
      /\ p.purpose = m.purpose /\ p.vlan = m.vlan /\ p.group = N!OrElse(m.group, "LAN")
      /\ p.subnet = IF ip THEN m.subnet ELSE Null
      /\ p.dhcp = IF ip THEN N!OrElse(m.dhcp, FALSE) ELSE FALSE
      /\ p.range = IF ip THEN NetComputed(m.range, st.range, changed) ELSE Null
      /\ p.lease = IF ip THEN N!OrElse(m.lease, N!Day) ELSE Null
      /\ p.dns = IF ip THEN NetComputed(m.dns, st.dns, changed) ELSE Null
      /\ p.internet = IF ip THEN N!OrElse(m.internet, TRUE) ELSE N!OrElse(m.internet, FALSE)
  <2> DEFINE planned == N!Planned(m, st, untracked)
  <2>1. /\ planned.purpose = m.purpose /\ planned.vlan = m.vlan
        /\ planned.group = N!OrElse(m.group, "LAN")
        /\ planned.subnet = IF ip THEN m.subnet ELSE Null
        /\ planned.dhcp = IF ip THEN N!OrElse(m.dhcp, FALSE) ELSE FALSE
        /\ planned.range = IF ip THEN NetComputed(m.range, st.range, changed) ELSE Null
        /\ planned.lease = IF ip THEN N!OrElse(m.lease, N!Day) ELSE Null
        /\ planned.dns = IF ip THEN NetComputed(m.dns, st.dns, changed) ELSE Null
        /\ planned.internet =
              IF ip THEN N!OrElse(m.internet, TRUE) ELSE N!OrElse(m.internet, FALSE)
    BY <1>u, NetPlanned, ZenonT(60)
  <2>2. planned = p
    BY <1>p
  <2> HIDE DEF planned
  <2> QED BY <2>1, <2>2
<1>2. /\ q \in N!Model /\ q.purpose = m.purpose /\ q.vlan = p.vlan /\ q.subnet = p.subnet
      /\ q.group = p.group /\ q.group # Null
      /\ q.dhcp = p.dhcp /\ q.internet = p.internet
      /\ ip => q.lease = p.lease
      /\ p.range \notin {Null, Unknown} => q.range = p.range
      /\ p.dns \notin {Null, Unknown} => q.dns = p.dns
  <2>1. /\ p.group # Null /\ p.dhcp # Null /\ p.internet # Null
        /\ ip => p.lease # Null
    BY <1>1, NoValue DEF N!OrElse
  <2>2. CASE untracked
    <3>1. q = p
      BY <2>2, <1>u
    <3> QED BY <3>1, <1>1, <2>1
  <2>3. CASE ~untracked
    <3>1. q = N!ApplyPlanToState(p, st) /\ N!Kept(p, st) = {} /\ st \in N!Model /\ st.group # Null
      BY <2>3, <1>u
    <3> QED BY <3>1, <1>1, <2>1, NetRequested
  <2> QED BY <2>2, <2>3
<1>3. ip => changed
  <2> SUFFICES ASSUME ip, ~changed PROVE FALSE
    OBVIOUS
  <2>1. /\ p.purpose = st.purpose /\ p.vlan = st.vlan /\ p.subnet = st.subnet
        /\ p.group = st.group /\ p.dhcp = st.dhcp /\ p.lease = st.lease
        /\ p.internet = st.internet
    BY <1>1 DEF NetChanged
  <2>2. p.range = st.range /\ p.dns = st.dns
    BY <1>1 DEF NetChanged, NetComputed
  <2>3. ~untracked
    OBVIOUS
  <2> QED BY <1>1, <1>u, <2>1, <2>2, <2>3, SameNet
<1> HIDE DEF changed
<1>4. /\ n \in N!Net
      /\ n.purpose = q.purpose /\ n.vlan = N!OrElse(q.vlan, Zero) /\ n.group = q.group
      /\ n.subnet = (IF q.purpose = "corporate" THEN N!OrElse(q.subnet, Empty) ELSE Empty)
      /\ n.dhcp = (q.purpose = "corporate" /\ q.dhcp = TRUE)
      /\ q.purpose # "corporate" => n.range = Empty
      /\ q.purpose = "corporate" /\ q.range \notin {Null, Unknown} => n.range = q.range
      /\ n.lease = (IF q.purpose = "corporate" THEN N!OrElse(q.lease, Zero) ELSE Zero)
      /\ n.dns = (IF q.purpose = "corporate" /\ q.dns \notin {Null, Unknown} THEN q.dns ELSE {})
      /\ n.internet = (q.purpose = "corporate" /\ q.internet = TRUE)
  BY <1>2, NetWritten
<1>r. a \in N!Model
  BY <1>4, NetRead
<1>5. ip => p.range \in Value \cup {Unknown} /\ p.dns \in {Unknown} \cup SUBSET Value /\ p.dns # {}
  <2> SUFFICES ASSUME ip PROVE p.range \in Value \cup {Unknown}
                               /\ p.dns \in {Unknown} \cup SUBSET Value /\ p.dns # {}
    OBVIOUS
  <2>1. p.range \in Value \cup {Unknown}
    BY <1>1, <1>3 DEF NetComputed, N!Model
  <2>2. p.dns \in {Unknown} \cup SUBSET Value
    BY <1>1, <1>3 DEF NetComputed, N!Model
  <2>3. p.dns # {}
    BY <1>1, <1>3, NoList DEF NetComputed, N!Model, N!Expressible
  <2> QED BY <2>1, <2>2, <2>3
<1>m. /\ m.purpose \in N!Purpose /\ p.vlan \in Value \cup {Null} /\ p.group \in Value \cup {"LAN"}
      /\ p.subnet \in Value \cup {Null} /\ (~ip => p.subnet = Null /\ p.lease = Null)
      /\ ip => p.lease \in Value \cup {N!Day}
  BY <1>1, NoValue DEF N!Model, N!OrElse, N!Expressible
<1>6. /\ a.purpose = p.purpose /\ a.vlan = p.vlan /\ a.group = p.group
  BY <1>1, <1>2, <1>4, <1>m, Distinct, NoValue DEF N!ApiToModel, N!OrElse, N!GroupOf
<1>7. a.subnet = p.subnet /\ a.lease = p.lease
  BY <1>1, <1>2, <1>4, <1>m, Distinct, NoValue DEF N!ApiToModel, N!OrElse
<1>8. a.dhcp = p.dhcp /\ a.internet = p.internet
  <2>1. /\ p.dhcp \in BOOLEAN /\ p.internet \in BOOLEAN
        /\ ~ip => p.dhcp = FALSE /\ p.internet = FALSE
    BY <1>1, NoValue DEF N!OrElse, N!Model, N!Expressible, N!Purpose
  <2> QED BY <1>1, <1>2, <2>1, <1>4 DEF N!ApiToModel
<1>9. p.range # Unknown => a.range = p.range
  BY <1>1, <1>2, <1>5, <1>4, Distinct, NoValue DEF N!ApiToModel
<1>10. p.dns # Unknown => a.dns = p.dns
  BY <1>1, <1>2, <1>5, <1>4, Distinct, NoList DEF N!ApiToModel
<1>11. N!Matches(a, p)
  <2>1. DOMAIN p =
           {"purpose", "vlan", "subnet", "group", "dhcp", "range", "lease", "dns", "internet"}
    BY <1>1 DEF N!Model
  <2> HIDE DEF a
  <2> QED BY <2>1, <1>6, <1>7, <1>8, <1>9, <1>10 DEF N!Matches
<1>12. N!Planned(m, a, FALSE) = a
  <2> DEFINE b == N!Planned(m, a, FALSE)
  <2> HIDE DEF a
  <2>1. /\ b \in N!Model
        /\ b.purpose = m.purpose /\ b.vlan = m.vlan /\ b.group = N!OrElse(m.group, "LAN")
        /\ b.subnet = IF ip THEN m.subnet ELSE Null
        /\ b.dhcp = IF ip THEN N!OrElse(m.dhcp, FALSE) ELSE FALSE
        /\ b.range = IF ip THEN NetComputed(m.range, a.range, FALSE \/ NetChanged(m, a)) ELSE Null
        /\ b.lease = IF ip THEN N!OrElse(m.lease, N!Day) ELSE Null
        /\ b.dns = IF ip THEN NetComputed(m.dns, a.dns, FALSE \/ NetChanged(m, a)) ELSE Null
        /\ b.internet = IF ip THEN N!OrElse(m.internet, TRUE) ELSE N!OrElse(m.internet, FALSE)
    BY <1>r, NetPlanned
  <2> HIDE DEF b
  <2>2. b.purpose = a.purpose /\ b.vlan = a.vlan /\ b.group = a.group /\ b.subnet = a.subnet
    BY <2>1, <1>1, <1>6, <1>7
  <2>3. b.dhcp = a.dhcp /\ b.lease = a.lease /\ b.internet = a.internet
    BY <2>1, <1>1, <1>7, <1>8
  <2>4. m.range # Null /\ ip => a.range = m.range
    BY <1>1, <1>9 DEF NetComputed, KnownNet
  <2>5. m.dns # Null /\ ip => a.dns = m.dns
    BY <1>1, <1>10 DEF NetComputed, KnownNet
  <2>6. ip => ~NetChanged(m, a)
    BY <2>4, <2>5, <1>1, <1>6, <1>7, <1>8 DEF NetChanged
  <2>7. b.range = a.range /\ b.dns = a.dns
    <3>1. CASE ip
      BY <3>1, <2>1, <2>4, <2>5, <2>6 DEF NetComputed
    <3>2. CASE ~ip
      BY <3>2, <2>1, <1>1, <1>9, <1>10, Distinct
    <3> QED BY <3>1, <3>2
  <2> QED BY <2>1, <2>2, <2>3, <2>7, <1>r, SameNet DEF b
<1> QED BY <1>11, <1>12 DEF NetStays

\* What is generated for a network plans what is read of it.
LEMMA NetGenerated ==
    ASSUME NEW n \in N!Net, N!Restorable(n)
    PROVE  /\ N!Accepted(N!Generate(n))
           /\ N!Planned(N!Generate(n), N!ApiToModel(n), FALSE) = N!ApiToModel(n)
<1> DEFINE g == N!Generate(n)
           a == N!ApiToModel(n)
           b == N!Planned(g, a, FALSE)
           ip == n.purpose = "corporate"
<1>1. N!Accepted(g)
  BY NoValue DEF N!Accepted, N!Generate
<1>2. g \in N!Model /\ a \in N!Model
  BY NetGenerates, NetRead
<1>3. /\ g.purpose = n.purpose /\ a.purpose = n.purpose
      /\ g.vlan = a.vlan /\ g.subnet = a.subnet /\ (~ip => a.subnet = Null)
      /\ N!OrElse(g.group, "LAN") = a.group
  BY NoValue DEF N!Generate, N!ApiToModel, N!OrElse, N!GroupOf, N!Restorable, N!Net
<1>4. /\ (IF ip THEN N!OrElse(g.dhcp, FALSE) ELSE FALSE) = a.dhcp
      /\ (IF ip THEN N!OrElse(g.internet, TRUE) ELSE N!OrElse(g.internet, FALSE)) = a.internet
  <2>1. n.dhcp \in BOOLEAN /\ n.internet \in BOOLEAN
    BY DEF N!Net
  <2> QED BY <2>1, NoValue DEF N!Generate, N!ApiToModel, N!OrElse
<1>5. (IF ip THEN N!OrElse(g.lease, N!Day) ELSE Null) = a.lease
  BY NoValue DEF N!Generate, N!ApiToModel, N!OrElse, N!Restorable, N!Net
<1>6. /\ g.range \in {Null, a.range} /\ g.dns \in {Null, a.dns}
      /\ ~ip => a.range = Null /\ a.dns = Null
  BY DEF N!Generate, N!ApiToModel
<1> HIDE DEF g, a
<1>7. ip => ~NetChanged(g, a)
  BY <1>3, <1>4, <1>5, <1>6 DEF NetChanged
<1>8. /\ b \in N!Model
      /\ b.purpose = g.purpose /\ b.vlan = g.vlan /\ b.group = N!OrElse(g.group, "LAN")
      /\ b.subnet = IF ip THEN g.subnet ELSE Null
      /\ b.dhcp = IF ip THEN N!OrElse(g.dhcp, FALSE) ELSE FALSE
      /\ b.range = IF ip THEN NetComputed(g.range, a.range, FALSE \/ NetChanged(g, a)) ELSE Null
      /\ b.lease = IF ip THEN N!OrElse(g.lease, N!Day) ELSE Null
      /\ b.dns = IF ip THEN NetComputed(g.dns, a.dns, FALSE \/ NetChanged(g, a)) ELSE Null
      /\ b.internet = IF ip THEN N!OrElse(g.internet, TRUE) ELSE N!OrElse(g.internet, FALSE)
  BY <1>2, <1>3, NetPlanned
<1> HIDE DEF b
<1>9. b.range = a.range /\ b.dns = a.dns
  BY <1>6, <1>7, <1>8 DEF NetComputed
<1>10. /\ b.purpose = a.purpose /\ b.vlan = a.vlan /\ b.group = a.group
       /\ b.subnet = a.subnet /\ b.lease = a.lease
  BY <1>3, <1>5, <1>8
<1>11. b.dhcp = a.dhcp /\ b.internet = a.internet
  BY <1>4, <1>8
<1>12. b = a
  BY <1>2, <1>8, <1>9, <1>10, <1>11, SameNet
<1> QED BY <1>1, <1>12 DEF g, a, b

(***************************************************************************)
(* WLANs.                                                                  *)
(***************************************************************************)

\* Two attributes of the same set with the same fields are the same.
LEMMA SameWlan ==
    ASSUME NEW a \in W!Model, NEW b \in W!Model, a.network = b.network, a.enabled = b.enabled,
           \A s \in Switch : a.switch[s] = b.switch[s],
           \A c \in Choice : a.choice[c] = b.choice[c],
           a.application = b.application, a.passphrase = b.passphrase
    PROVE  a = b
<1>1. a.switch = b.switch /\ a.choice = b.choice
  BY DEF W!Model
<1> QED BY <1>1 DEF W!Model

LEMMA WlanBlank == W!Blank \in W!Model
BY InputAssumption DEF W!Blank, W!Model

\* Edits, of either side, keep the type.
LEMMA WlanEdits == ASSUME NEW m \in W!Model PROVE W!Edits(m) \subseteq W!Model
<1>1. ASSUME NEW v \in Value PROVE [m EXCEPT !.network = v] \in W!Model
  BY DEF W!Model
<1>2. ASSUME NEW b \in {Null, TRUE, FALSE}
      PROVE  /\ [m EXCEPT !.enabled = b] \in W!Model
             /\ \A s \in Switch : [m EXCEPT !.switch[s] = b] \in W!Model
  BY DEF W!Model
<1>3. ASSUME NEW x \in {Null, "usual", "other"}
      PROVE  \A c \in Choice : [m EXCEPT !.choice[c] = x] \in W!Model
  BY DEF W!Model
<1>4. ASSUME NEW a \in W!Application \cup {Null} PROVE [m EXCEPT !.application = a] \in W!Model
  BY DEF W!Model
<1>5. ASSUME NEW p \in Passphrase \cup {Null} PROVE [m EXCEPT !.passphrase = p] \in W!Model
  BY DEF W!Model
<1>6. {[m EXCEPT !.network = v] : v \in Value} \subseteq W!Model
  BY <1>1
<1>7. {[m EXCEPT !.enabled = b] : b \in {Null, TRUE, FALSE}} \subseteq W!Model
  BY <1>2
<1>8. {[m EXCEPT !.switch[s] = b] : s \in Switch, b \in {Null, TRUE, FALSE}} \subseteq W!Model
  BY <1>2
<1>9. {[m EXCEPT !.choice[c] = x] : c \in Choice, x \in {Null, "usual", "other"}} \subseteq W!Model
  BY <1>3
<1>10. {[m EXCEPT !.application = a] : a \in W!Application \cup {Null}} \subseteq W!Model
  BY <1>4
<1>11. {[m EXCEPT !.passphrase = p] : p \in Passphrase \cup {Null}} \subseteq W!Model
  BY <1>5
<1> QED BY <1>6, <1>7, <1>8, <1>9, <1>10, <1>11 DEF W!Edits

LEMMA WlanOutsideEdits == \A w \in W!Wlan : W!OutsideEdits(w) \subseteq W!Wlan
<1> SUFFICES ASSUME NEW w \in W!Wlan PROVE W!OutsideEdits(w) \subseteq W!Wlan
  OBVIOUS
<1>1. {[w EXCEPT !.network = v] : v \in Value} \subseteq W!Wlan
  BY DEF W!Wlan
<1>2. {[w EXCEPT !.enabled = ~@]} \subseteq W!Wlan
  BY DEF W!Wlan
<1>0. \A s \in Switch : [w EXCEPT !.switch[s] = ~@] \in W!Wlan
  BY DEF W!Wlan
<1>3. {[w EXCEPT !.switch[s] = ~@] : s \in Switch} \subseteq W!Wlan
  BY <1>0
<1>4. {[w EXCEPT !.choice[c] = x] : c \in Choice, x \in {Empty, "usual", "other"}} \subseteq W!Wlan
  BY DEF W!Wlan
<1>5. {[w EXCEPT !.guest = ~@], [w EXCEPT !.iot = ~@]} \subseteq W!Wlan
  BY DEF W!Wlan
<1>6. {[w EXCEPT !.passphrase = p] : p \in Passphrase} \subseteq W!Wlan
  BY DEF W!Wlan
<1> QED BY <1>1, <1>2, <1>3, <1>4, <1>5, <1>6 DEF W!OutsideEdits

\* The plan has the passphrase of the configuration.
LEMMA WlanPlanned ==
    ASSUME NEW m \in W!Model
    PROVE  LET p == W!Planned(m)
           IN  /\ p \in W!Model /\ p.enabled \in BOOLEAN /\ p.switch \in [Switch -> BOOLEAN]
               /\ p.choice \in [Choice -> {"usual", "other"}] /\ p.application \in W!Application
               /\ p.passphrase = m.passphrase
BY Distinct, NoValue, SentinelAssumption DEF W!Planned, W!Model, W!OrElse, W!Application

\* What the controller stores for a plan, with the passphrase that was sent if one was.
LEMMA WlanWritten ==
    ASSUME NEW m \in W!Model, NEW old \in Passphrase \cup {Empty, W!Placeholder},
           NEW w \in W!Stored(W!Request(W!Planned(m)), old)
    PROVE  /\ w \in W!Wlan /\ m.passphrase \in {Null, w.passphrase}
           /\ w.network = m.network /\ w.enabled = W!Planned(m).enabled
           /\ w.switch = W!Planned(m).switch /\ w.choice = W!Planned(m).choice
           /\ w.guest = (W!Planned(m).application = "hotspot")
           /\ w.iot = (W!Planned(m).application = "iot")
<1> DEFINE p == W!Planned(m)
           r == W!Request(p)
<1>1. /\ p \in W!Model /\ p.enabled \in BOOLEAN /\ p.switch \in [Switch -> BOOLEAN]
      /\ p.choice \in [Choice -> {"usual", "other"}] /\ p.passphrase = m.passphrase
      /\ p.network = m.network
  BY WlanPlanned DEF W!Planned, W!Model
<1> HIDE DEF p
<1>2. r \in W!Wlan /\ m.passphrase \in {Null, r.passphrase}
  BY <1>1, Distinct, NoValue, SentinelAssumption DEF W!Request, W!Wlan, W!Model
<1>3. \/ r.passphrase # Empty /\ w = r
      \/ r.passphrase = Empty /\ w = [r EXCEPT !.passphrase = Empty]
      \/ r.passphrase = Empty /\ w = [r EXCEPT !.passphrase = old]
  <2> HIDE DEF r
  <2>1. w \in W!Stored(r, old)
    BY DEF r, p
  <2> QED BY <2>1 DEF W!Stored
<1>4. w \in W!Wlan
  BY <1>2, <1>3 DEF W!Wlan
<1>5. m.passphrase \in {Null, w.passphrase}
  <2>1. m.passphrase # Empty /\ Empty # Null
    BY Distinct, NoValue DEF W!Model, W!Placeholder
  <2>2. CASE w = r
    BY <2>2, <1>2
  <2>3. CASE r.passphrase = Empty
    BY <2>1, <2>3, <1>2
  <2> QED BY <1>3, <2>2, <2>3
<1>6. /\ w.network = r.network /\ w.enabled = r.enabled /\ w.switch = r.switch
      /\ w.choice = r.choice /\ w.guest = r.guest /\ w.iot = r.iot
  <2> HIDE DEF r
  <2> QED BY <1>2, <1>3 DEF W!Wlan
<1> QED BY <1>1, <1>4, <1>5, <1>6 DEF W!Request, p

\* A read shows the passphrase that is remembered.
LEMMA WlanRead ==
    ASSUME NEW w \in W!Wlan, NEW passphrase \in Passphrase \cup {Null, W!Placeholder}
    PROVE  /\ W!ApiToModel(w, passphrase) \in W!Model
           /\ W!ApiToModel(w, passphrase).passphrase = passphrase
BY DEF W!ApiToModel, W!Wlan, W!Model, W!ChoiceOf, W!ApplicationOf, W!Application

\* What the controller stores for a plan is read back as the plan.
LEMMA WlanRoundTrip ==
    ASSUME NEW m \in W!Model, NEW old \in Passphrase \cup {Empty, W!Placeholder},
           NEW w \in W!Stored(W!Request(W!Planned(m)), old)
    PROVE  LET p == W!Planned(m)
           IN  W!ApiToModel(w, p.passphrase) = p /\ W!Planned(m) = p
<1> DEFINE p == W!Planned(m)
           a == W!ApiToModel(w, p.passphrase)
<1>1. /\ p \in W!Model /\ p.enabled \in BOOLEAN /\ p.switch \in [Switch -> BOOLEAN]
      /\ p.choice \in [Choice -> {"usual", "other"}] /\ p.application \in W!Application
      /\ p.network = m.network
  BY WlanPlanned DEF W!Planned, W!Model
<1>2. /\ w \in W!Wlan /\ w.network = p.network /\ w.enabled = p.enabled /\ w.switch = p.switch
      /\ w.choice = p.choice /\ w.guest = (p.application = "hotspot")
      /\ w.iot = (p.application = "iot")
  BY <1>1, WlanWritten
<1> HIDE DEF p
<1>3. a \in W!Model
  BY <1>1, <1>2, WlanRead DEF W!Model
<1>4. \A c \in Choice : a.choice[c] = p.choice[c]
  BY <1>1, <1>2, NoValue DEF W!ApiToModel, W!ChoiceOf
<1>5. a.application = p.application
  BY <1>1, <1>2 DEF W!ApiToModel, W!ApplicationOf, W!Application
<1> QED BY <1>1, <1>2, <1>3, <1>4, <1>5, SameWlan DEF W!ApiToModel, p

\* What is generated for a WLAN is a configuration.
LEMMA WlanGenerates ==
    ASSUME NEW w \in W!Wlan
    PROVE  W!Generate(w) \in W!Model
BY DEF W!Generate, W!Wlan, W!Model, W!ApplicationOf, W!Application

\* And plans what is read of it, but for the passphrase.
LEMMA WlanGenerated ==
    ASSUME NEW w \in W!Wlan
    PROVE  W!WithoutPassphrase(W!Planned(W!Generate(w)))
              = W!WithoutPassphrase(W!ApiToModel(w, Null))
<1> DEFINE g == W!Generate(w)
           p == W!Planned(g)
           a == W!ApiToModel(w, Null)
<1>1. g \in W!Model /\ p \in W!Model /\ a \in W!Model
  BY WlanGenerates, WlanPlanned, WlanRead
<1>2. p.network = a.network
  BY <1>1 DEF W!Planned, W!Generate, W!ApiToModel, W!Model
<1>3. p.enabled = a.enabled
  BY <1>1, NoValue DEF W!Planned, W!Generate, W!ApiToModel, W!Model, W!Wlan, W!OrElse
<1>4. \A s \in Switch : p.switch[s] = a.switch[s]
  BY <1>1, NoValue DEF W!Planned, W!Generate, W!ApiToModel, W!Model, W!Wlan, W!OrElse
<1>5. ASSUME NEW c \in Choice PROVE p.choice[c] = a.choice[c]
  <2>1. g.choice[c] = IF w.choice[c] = "other" THEN "other" ELSE Null
    BY DEF W!Generate
  <2> HIDE DEF g
  <2>2. p.choice[c] = IF w.choice[c] = "other" THEN "other" ELSE "usual"
    BY <1>1, <2>1, NoValue DEF W!Planned, W!Model, W!OrElse
  <2>3. w.choice[c] \in {Empty, "usual", "other"}
    BY DEF W!Wlan
  <2> QED BY <2>2, <2>3, NoValue DEF W!ApiToModel, W!ChoiceOf
<1>6. p.application = a.application
  BY <1>1, NoValue
  DEF W!Planned, W!Generate, W!ApiToModel, W!Model, W!OrElse, W!ApplicationOf
<1> HIDE DEF p, a
<1>7. W!WithoutPassphrase(p) \in W!Model /\ W!WithoutPassphrase(a) \in W!Model
  BY <1>1 DEF W!WithoutPassphrase, W!Model
<1> QED
  BY <1>1, <1>2, <1>3, <1>4, <1>5, <1>6, <1>7, SameWlan DEF W!WithoutPassphrase, W!Model, p, a

\* Without a difference between the plan and what was read, the WLAN is as planned.
LEMMA WlanInForce ==
    ASSUME NEW w \in W!Wlan, W!Shown(w), NEW passphrase \in Passphrase \cup {Null, W!Placeholder}
    PROVE  W!InForce(w, W!ApiToModel(w, passphrase))
<1> DEFINE a == W!ApiToModel(w, passphrase)
           r == W!Request(a)
           left == [w EXCEPT !.passphrase = Empty, !.choice = [c \in Choice |-> W!ChoiceOf(@[c])]]
           right == [r EXCEPT !.passphrase = Empty]
<1>1. a \in W!Model
  BY WlanRead
<1>2. /\ a.network = w.network /\ a.enabled = w.enabled /\ a.switch = w.switch
      /\ a.choice = [c \in Choice |-> W!ChoiceOf(w.choice[c])]
      /\ a.application = W!ApplicationOf(w) /\ a.passphrase = passphrase
  BY DEF W!ApiToModel
<1> HIDE DEF a
<1>3. r = [network |-> w.network, enabled |-> w.enabled, switch |-> w.switch,
           choice |-> [c \in Choice |-> W!ChoiceOf(w.choice[c])], guest |-> w.guest, iot |-> w.iot,
           passphrase |-> IF passphrase = Null THEN Empty ELSE passphrase]
  BY <1>2 DEF W!Request, W!ApplicationOf, W!Shown, W!Wlan
<1>4. right = [network |-> w.network, enabled |-> w.enabled, switch |-> w.switch,
               choice |-> [c \in Choice |-> W!ChoiceOf(w.choice[c])],
               guest |-> w.guest, iot |-> w.iot, passphrase |-> Empty]
  BY <1>3
<1>5. /\ left \in W!Wlan
      /\ left.network = w.network /\ left.enabled = w.enabled /\ left.switch = w.switch
      /\ left.choice = [c \in Choice |-> W!ChoiceOf(w.choice[c])]
      /\ left.guest = w.guest /\ left.iot = w.iot /\ left.passphrase = Empty
  BY DEF W!Wlan, W!ChoiceOf
<1>6. left = right
  <2> HIDE DEF left
  <2>1. left = [network |-> left.network, enabled |-> left.enabled, switch |-> left.switch,
                choice |-> left.choice, guest |-> left.guest, iot |-> left.iot,
                passphrase |-> left.passphrase]
    BY <1>5 DEF W!Wlan
  <2> QED BY <2>1, <1>4, <1>5
<1> QED BY <1>6 DEF W!InForce, a

(***************************************************************************)
(* Firewall policies.                                                      *)
(***************************************************************************)

LEMMA PolicyBlank == P!Blank \in P!Model
BY DEF P!Blank, P!Model, P!PortType, P!SetOrNull

\* An edit of a configuration keeps its type.
LEMMA PolicyEdits == ASSUME NEW m \in P!Model PROVE P!Edits(m) \subseteq P!Model
<1>1. ASSUME NEW v \in Value \cup {Null, Empty} PROVE [m EXCEPT !.description = v] \in P!Model
  BY DEF P!Model
<1>2. ASSUME NEW x \in Flag \X {Null, TRUE, FALSE} PROVE [m EXCEPT !.flag[x[1]] = x[2]] \in P!Model
  BY DEF P!Model
<1>3. ASSUME NEW x \in {"ALL", "CUSTOM"} \X P!SetOrNull
      PROVE  [m EXCEPT !.stateType = x[1], !.states = x[2]] \in P!Model
  BY DEF P!Model
<1>4. ASSUME NEW t \in Target PROVE [m EXCEPT !.target = t] \in P!Model
  BY InputAssumption DEF P!Model
<1>5. [m EXCEPT !.external = ~@] \in P!Model
  BY DEF P!Model
<1>6. ASSUME NEW x \in P!PortType \X (Value \cup {Null}) \X (Value \cup {Null, Empty})
      PROVE  [m EXCEPT !.portType = x[1], !.port = x[2], !.group = x[3]] \in P!Model
  BY DEF P!Model
<1>7. ASSUME NEW s \in Schedule PROVE [m EXCEPT !.schedule = s] \in P!Model
  BY InputAssumption DEF P!Model
<1>11. {[m EXCEPT !.description = v] : v \in Value \cup {Null, Empty}} \subseteq P!Model
  BY <1>1
<1>12. {[m EXCEPT !.flag[x[1]] = x[2]] : x \in Flag \X {Null, TRUE, FALSE}} \subseteq P!Model
  BY <1>2
<1>13. {[m EXCEPT !.stateType = x[1], !.states = x[2]] : x \in {"ALL", "CUSTOM"} \X P!SetOrNull}
          \subseteq P!Model
  BY <1>3
<1>14. {[m EXCEPT !.target = t] : t \in Target} \subseteq P!Model
  BY <1>4
<1>15. {[m EXCEPT !.external = ~@]} \subseteq P!Model
  BY <1>5
<1>16. {[m EXCEPT !.portType = x[1], !.port = x[2], !.group = x[3]] :
          x \in P!PortType \X (Value \cup {Null}) \X (Value \cup {Null, Empty})} \subseteq P!Model
  BY <1>6
<1>17. {[m EXCEPT !.schedule = s] : s \in Schedule} \subseteq P!Model
  BY <1>7
<1> QED BY <1>11, <1>12, <1>13, <1>14, <1>15, <1>16, <1>17 DEF P!Edits

\* What is sent for a schedule is a block.
LEMMA ScheduleRequestType ==
    ASSUME NEW s \in {Null} \cup P!ScheduleBlock
    PROVE  P!ScheduleRequest(s) \in P!StoredSchedule
BY NoList DEF P!ScheduleRequest, P!StoredSchedule, P!ScheduleBlock, P!AlwaysOn, P!OrEmpty,
              P!SetOrNone, P!SetOrNull

\* What others edit keeps the type, and the port type that the port calls for.
LEMMA PolicyOutsideEdits ==
    ASSUME NEW o \in P!Policy, SettledPolicy(o)
    PROVE  \A x \in P!OutsideEdits(o) : x \in P!Policy /\ SettledPolicy(x)
<1> DEFINE Good == {x \in P!Policy : SettledPolicy(x)}
<1>1. ASSUME NEW v \in Value \cup {Empty} PROVE [o EXCEPT !.description = v] \in Good
  BY DEF P!Policy, SettledPolicy
<1>2. ASSUME NEW f \in Flag PROVE [o EXCEPT !.flag[f] = ~@] \in Good
  BY DEF P!Policy, SettledPolicy
<1>3. ASSUME NEW x \in {"ALL", "CUSTOM"} \X SUBSET Value
      PROVE  [o EXCEPT !.stateType = x[1], !.states = x[2]] \in Good
  BY DEF P!Policy, SettledPolicy
<1>4. ASSUME NEW x \in {"IID", "CLIENT", Foreign} \X Value
      PROVE  [o EXCEPT !.matching = x[1], !.values = {x[2]}] \in Good
  BY DEF P!Policy, P!SetOrNull, SettledPolicy
<1>5. [o EXCEPT !.matching = "ANY", !.values = Null] \in Good /\ [o EXCEPT !.values = {}] \in Good
  BY DEF P!Policy, P!SetOrNull, SettledPolicy
<1>6. ASSUME NEW v \in Value
      PROVE  [o EXCEPT !.portType = "OBJECT", !.port = Null, !.group = v] \in Good
  BY NoValue DEF P!Policy, SettledPolicy, P!PortType
<1>7. ASSUME NEW s \in Schedule PROVE [o EXCEPT !.schedule = P!ScheduleRequest(s)] \in Good
  BY InputAssumption, ScheduleRequestType DEF P!Policy, SettledPolicy
<1>8. [o EXCEPT !.portType = "SPECIFIC", !.port = Foreign, !.group = Empty] \in Good
  BY DEF P!Policy, P!PortType, SettledPolicy
<1>9. [o EXCEPT !.schedule.days = {}] \in Good
  <2>1. o.schedule \in P!StoredSchedule
    BY DEF P!Policy
  <2>2. [o.schedule EXCEPT !.days = {}] \in P!StoredSchedule
    BY <2>1 DEF P!StoredSchedule, P!SetOrNull
  <2> QED BY <2>2 DEF P!Policy, SettledPolicy
<1> HIDE DEF Good
<1>11. {[o EXCEPT !.description = v] : v \in Value \cup {Empty}} \subseteq Good
  BY <1>1
<1>12. {[o EXCEPT !.flag[f] = ~@] : f \in Flag} \subseteq Good
  BY <1>2
<1>13. {[o EXCEPT !.stateType = x[1], !.states = x[2]] : x \in {"ALL", "CUSTOM"} \X SUBSET Value}
          \subseteq Good
  BY <1>3
<1>14. {[o EXCEPT !.matching = x[1], !.values = {x[2]}] : x \in {"IID", "CLIENT", Foreign} \X Value}
          \subseteq Good
  BY <1>4
<1>15. {[o EXCEPT !.matching = "ANY", !.values = Null], [o EXCEPT !.values = {}]} \subseteq Good
  BY <1>5
<1>16. {[o EXCEPT !.portType = "OBJECT", !.port = Null, !.group = v] : v \in Value} \subseteq Good
  BY <1>6
<1>17. {[o EXCEPT !.schedule = P!ScheduleRequest(s)] : s \in Schedule} \subseteq Good
  BY <1>7
<1>18. P!OutsideEdits(o) \subseteq Good
  BY <1>8, <1>9, <1>11, <1>12, <1>13, <1>14, <1>15, <1>16, <1>17 DEF P!OutsideEdits
<1> QED BY <1>18 DEF Good

\* A read shows the canonical form.
LEMMA PolicyRead ==
    ASSUME NEW o \in P!Policy
    PROVE  P!ApiToModel(o) \in P!Model /\ P!Canonical(P!ApiToModel(o))
<1> DEFINE a == P!ApiToModel(o)
<1>1. /\ P!OrNull(o.description) \in (Value \cup {Null}) /\ P!OrNull(o.group) \in Value \cup {Null}
  BY DEF P!OrNull, P!Policy
<1>2. [f \in Flag |-> P!FlagOf(o.flag[f])] \in [Flag -> {Null, TRUE}]
  BY DEF P!FlagOf, P!TrueOrNull, P!Policy
<1>3. P!StatesOf(o) \in P!SetOrNull \ {{}}
  BY NoList DEF P!StatesOf, P!SetOrNone, P!SetOrNull, P!Policy
<1>4. P!TargetOf(o) \in [P!TargetField -> P!SetOrNull]
  BY DEF P!TargetOf, P!SetOrNull, P!Policy
<1>5. P!ScheduleOf(o.schedule) \in {Null} \cup P!ScheduleBlock
  BY DEF P!ScheduleOf, P!ScheduleBlock, P!StoredSchedule, P!OrNull, P!TrueOrNull, P!Policy
<1>6. a \in P!Model
  <2>1. P!ParsePort(o.port) \in Value \cup {Null}
    BY DEF P!ParsePort, P!Policy
  <2> QED BY <2>1, <1>1, <1>2, <1>3, <1>4, <1>5 DEF P!ApiToModel, P!Model, P!Policy
<1>7. /\ a.description \in Value \cup {Null} /\ a.group \in Value \cup {Null}
      /\ \A f \in Flag : a.flag[f] # FALSE
      /\ a.states # {}
  BY <1>1, <1>2, <1>3, NoValue DEF P!ApiToModel
<1> HIDE DEF a
<1>8. P!Canonical(a)
  BY <1>7, Distinct, NoValue DEF P!Canonical
<1> QED BY <1>6, <1>8 DEF a

\* What is generated for a schedule is a block, or none.
LEMMA GeneratedScheduleType ==
    ASSUME NEW s \in P!StoredSchedule
    PROVE  P!GeneratedSchedule(s) \in {Null} \cup P!ScheduleBlock
<1>1. CASE s.mode \in {Empty, "ALWAYS"}
  BY <1>1 DEF P!GeneratedSchedule
<1>2. CASE s.mode \notin {Empty, "ALWAYS"}
  <2>1. ~P!IsDefaultSchedule(s)
    BY <1>2 DEF P!IsDefaultSchedule, P!AlwaysOn, P!StoredSchedule
  <2>2. P!ScheduleOf(s) \in P!ScheduleBlock
    BY <2>1 DEF P!ScheduleOf, P!ScheduleBlock, P!StoredSchedule, P!OrNull, P!TrueOrNull
  <2>3. P!SetOrNone(P!ScheduleOf(s).days) \in P!SetOrNull
    BY <2>2 DEF P!SetOrNone, P!SetOrNull, P!ScheduleBlock
  <2> QED BY <1>2, <2>2, <2>3 DEF P!GeneratedSchedule, P!ScheduleBlock
<1> QED BY <1>1, <1>2

\* What is generated for a policy is a configuration.
LEMMA PolicyGenerates == ASSUME NEW o \in P!Policy PROVE P!Generate(o) \in P!Model
<1>1. P!ApiToModel(o) \in P!Model
  BY PolicyRead
<1>2. P!SetOrNone(o.states) \in P!SetOrNull
  BY DEF P!SetOrNone, P!SetOrNull, P!Policy
<1>4. P!GeneratedSchedule(o.schedule) \in {Null} \cup P!ScheduleBlock
  BY GeneratedScheduleType DEF P!Policy
<1>5. P!TargetOf(o) \in [P!TargetField -> P!SetOrNull]
  BY DEF P!TargetOf, P!SetOrNull, P!Policy
<1>6. P!GeneratedTarget(o) \in [P!TargetField -> P!SetOrNull]
  BY <1>5 DEF P!GeneratedTarget, P!SetOrNone, P!SetOrNull
<1> QED BY <1>1, <1>2, <1>4, <1>6 DEF P!Generate, P!Model

\* What is sent has the type of the object, and the port type the port calls for.
LEMMA PolicyRequest ==
    ASSUME NEW m \in P!Model
    PROVE  P!Request(m) \in P!Policy /\ SettledPolicy(P!Request(m))
<1>1. /\ P!OrEmpty(m.description) \in Value \cup {Empty} /\ P!OrEmpty(m.group) \in Value \cup {Empty}
      /\ P!OrNone(m.states) \in SUBSET Value
  BY DEF P!OrEmpty, P!OrNone, P!Model, P!SetOrNull
<1>2. [f \in Flag |-> m.flag[f] = TRUE] \in [Flag -> BOOLEAN]
  OBVIOUS
<1>3. P!Matching(m.target) \in {"ANY", "IP", "MAC", "IID", "NETWORK", "CLIENT", Foreign}
  BY DEF P!Matching
<1>4. P!MatchedValues(m.target) \in P!SetOrNull
  BY DEF P!MatchedValues, P!Matching, P!FieldOf, P!Model, P!TargetField, P!SetOrNull, P!SetOrNone
<1>5. P!ResolvePortType(m) \in P!PortType
  BY DEF P!ResolvePortType, P!Model, P!PortType
<1>6. P!ScheduleRequest(m.schedule) \in P!StoredSchedule
  BY ScheduleRequestType DEF P!Model
<1>7. P!Request(m) \in P!Policy
  BY <1>1, <1>2, <1>3, <1>4, <1>5, <1>6 DEF P!Request, P!Policy, P!Model
<1>8. SettledPolicy(P!Request(m))
  BY DEF SettledPolicy, P!Request, P!ResolvePortType, P!OrEmpty
<1> QED BY <1>7, <1>8

\* What the controller stores for a request has the port type that was derived.
LEMMA PolicyWritten ==
    ASSUME NEW m \in P!Model, NEW old \in SUBSET Value, NEW o \in P!Stored(P!Request(m), old)
    PROVE  o \in P!Policy /\ SettledPolicy(o)
<1> DEFINE r == P!Request(m)
           names == IF r.matching = "MAC" THEN {"MAC", "IID"} ELSE {r.matching}
           states == IF r.stateType = "ALL" /\ r.states = {} THEN {{}, old} ELSE {r.states}
<1>1. r \in P!Policy /\ SettledPolicy(r)
  BY PolicyRequest
<1>2. PICK x \in names \X states : o = [r EXCEPT !.matching = x[1], !.states = x[2]]
  BY DEF P!Stored
<1>3. x[1] \in {r.matching, "IID"} /\ x[2] \in {r.states, {}, old}
  BY <1>2
<1> HIDE DEF r
<1>4. x[1] \in {"ANY", "IP", "MAC", "IID", "NETWORK", "CLIENT", Foreign} /\ x[2] \in SUBSET Value
  BY <1>1, <1>3 DEF P!Policy
<1>5. o \in P!Policy
  BY <1>1, <1>2, <1>4 DEF P!Policy
<1>6. o.group = r.group /\ o.port = r.port /\ o.portType = r.portType
  BY <1>1, <1>2 DEF P!Policy
<1> QED BY <1>1, <1>5, <1>6 DEF SettledPolicy

\* Two policies of the same set with the same attributes are the same.
LEMMA SamePolicy ==
    ASSUME NEW a \in P!Model, NEW b \in P!Model,
           a.description = b.description, \A f \in Flag : a.flag[f] = b.flag[f],
           a.stateType = b.stateType, a.states = b.states, a.external = b.external,
           \A t \in P!TargetField : a.target[t] = b.target[t],
           a.portType = b.portType, a.port = b.port, a.group = b.group,
           a.schedule = b.schedule
    PROVE  a = b
<1>1. a.flag = b.flag /\ a.target = b.target
  BY DEF P!Model
<1> QED BY <1>1 DEF P!Model

\* A valid schedule is read back as it is.
LEMMA ScheduleRoundTrip ==
    ASSUME NEW s \in P!ScheduleBlock, Empty \notin {s.when, s.dates}, s.allDay # FALSE, s.days # {},
           ~P!IsDefaultSchedule(P!ScheduleRequest(s))
    PROVE  P!ScheduleOf(P!ScheduleRequest(s)) = s
<1> DEFINE r == P!ScheduleRequest(s)
<1>0. s # Null
  BY NoList
<1>1. r = [mode |-> P!OrEmpty(s.mode), when |-> P!OrEmpty(s.when), dates |-> P!OrEmpty(s.dates),
           allDay |-> s.allDay = TRUE, days |-> P!SetOrNone(s.days)]
  BY <1>0 DEF P!ScheduleRequest
<1>2. P!OrNull(P!OrEmpty(s.mode)) = s.mode
  BY Distinct, NoValue DEF P!OrNull, P!OrEmpty, P!ScheduleBlock
<1>3. P!OrNull(P!OrEmpty(s.when)) = s.when /\ P!OrNull(P!OrEmpty(s.dates)) = s.dates
  BY Distinct DEF P!OrNull, P!OrEmpty, P!ScheduleBlock
<1>4. P!TrueOrNull(s.allDay = TRUE) = s.allDay
  BY NoValue DEF P!TrueOrNull, P!ScheduleBlock
<1>5. P!SetOrNone(s.days) = s.days
  BY DEF P!SetOrNone
<1>6. r.mode = P!OrEmpty(s.mode) /\ r.when = P!OrEmpty(s.when) /\ r.dates = P!OrEmpty(s.dates)
      /\ r.days = P!SetOrNone(s.days)
  BY <1>1
<1>7. r.allDay = (s.allDay = TRUE)
  BY <1>1
<1> HIDE DEF r
<1>8. P!ScheduleOf(r) = [mode |-> s.mode, when |-> s.when, dates |-> s.dates, allDay |-> s.allDay,
                         days |-> s.days]
  BY <1>2, <1>3, <1>4, <1>5, <1>6, <1>7 DEF r, P!ScheduleOf
<1> QED BY <1>8 DEF r, P!ScheduleBlock

\* The one target set there is comes back under its own name.
LEMMA TargetRoundTrip ==
    ASSUME NEW u \in [P!TargetField -> P!SetOrNull], NEW n,
           n = P!Matching(u) \/ (P!Matching(u) = "MAC" /\ n = "IID"),
           \A t \in P!TargetField : u[t] # Null => u[t] # {} /\ t = P!FieldOf(P!Matching(u)),
           NEW t \in P!TargetField
    PROVE  (IF n \notin {"ANY", Foreign} /\ t = P!FieldOf(n)
            THEN P!MatchedValues(u) ELSE Null) = u[t]
<1>1. /\ u["ips"] \in P!SetOrNull /\ u["mac_addresses"] \in P!SetOrNull
      /\ u["network_ids"] \in P!SetOrNull /\ u["device_ids"] \in P!SetOrNull
  BY DEF P!TargetField
<1>2. t \in {"ips", "mac_addresses", "network_ids", "device_ids"}
  BY DEF P!TargetField
<1>3. Foreign \notin {"IP", "MAC", "IID", "NETWORK", "CLIENT"}
  BY NoValue
<1>4. P!FieldOf("IP") = "ips" /\ P!FieldOf("MAC") = "mac_addresses" /\ P!FieldOf("IID") = "mac_addresses"
      /\ P!FieldOf("NETWORK") = "network_ids" /\ P!FieldOf("CLIENT") = "device_ids"
  BY DEF P!FieldOf
<1>5. P!Matching(u) \in {"ANY", "IP", "MAC", "NETWORK", "CLIENT"}
  BY DEF P!Matching
<1>6. CASE P!Matching(u) = "ANY"
  <2>1. u[t] = Null
    BY <1>2, <1>6 DEF P!Matching
  <2> QED BY <2>1, <1>6
<1>7. CASE P!Matching(u) # "ANY"
  <2> DEFINE f == P!FieldOf(P!Matching(u))
  <2>1. f = P!FieldOf(n) /\ n \notin {"ANY", Foreign}
    BY <1>3, <1>4, <1>5, <1>7
  <2>2. P!MatchedValues(u) = P!SetOrNone(u[f])
    BY <1>7 DEF P!MatchedValues
  <2>3. f \in P!TargetField /\ u[f] # Null
    BY <1>2, <1>4, <1>5, <1>7 DEF P!Matching, P!TargetField
  <2> HIDE DEF f
  <2>4. u[f] # {}
    BY <2>3 DEF f
  <2>5. t # f => u[t] = Null
    BY DEF f
  <2> QED BY <2>1, <2>2, <2>4, <2>5 DEF P!SetOrNone
<1> QED BY <1>6, <1>7

\* What an answer holds after a request for m.
LEMMA PolicyAnswer ==
    ASSUME NEW m \in P!Model, NEW old \in SUBSET Value, NEW o \in P!Stored(P!Request(m), old)
    PROVE  /\ o \in P!Policy
           /\ o.description = P!OrEmpty(m.description) /\ o.group = P!OrEmpty(m.group)
           /\ o.port = m.port /\ o.portType = P!ResolvePortType(m)
           /\ \A f \in Flag : o.flag[f] = (m.flag[f] = TRUE)
           /\ o.stateType = m.stateType
           /\ o.states = P!OrNone(m.states) \/ m.stateType = "ALL"
           /\ o.external = m.external
           /\ o.matching = P!Matching(m.target)
              \/ (P!Matching(m.target) = "MAC" /\ o.matching = "IID")
           /\ o.values = P!MatchedValues(m.target)
           /\ o.schedule = P!ScheduleRequest(m.schedule)
<1> DEFINE r == P!Request(m)
           names == IF r.matching = "MAC" THEN {"MAC", "IID"} ELSE {r.matching}
           states == IF r.stateType = "ALL" /\ r.states = {} THEN {{}, old} ELSE {r.states}
<1>1. PICK x \in names \X states : o = [r EXCEPT !.matching = x[1], !.states = x[2]]
  BY DEF P!Stored
<1>2. x[1] \in names /\ x[2] \in states
  OBVIOUS
<1>3. /\ r.description = P!OrEmpty(m.description) /\ r.group = P!OrEmpty(m.group)
      /\ r.port = m.port /\ r.portType = P!ResolvePortType(m)
      /\ r.stateType = m.stateType /\ r.states = P!OrNone(m.states)
      /\ r.matching = P!Matching(m.target) /\ r.values = P!MatchedValues(m.target)
      /\ r.schedule = P!ScheduleRequest(m.schedule)
  BY DEF P!Request
<1>4. r.external = m.external
  BY DEF P!Request
<1>5. \A f \in Flag : r.flag[f] = (m.flag[f] = TRUE)
  BY DEF P!Request
<1>6. r \in P!Policy /\ o \in P!Policy
  BY PolicyRequest, PolicyWritten
<1> HIDE DEF r
<1>7. /\ o.description = r.description /\ o.group = r.group
      /\ o.port = r.port /\ o.portType = r.portType /\ o.stateType = r.stateType
      /\ o.values = r.values /\ o.schedule = r.schedule /\ o.flag = r.flag
      /\ o.matching = x[1] /\ o.states = x[2]
  BY <1>1, <1>6 DEF P!Policy
<1>8. o.external = r.external
  BY <1>1, <1>6 DEF P!Policy
<1>9. o.matching = r.matching \/ (r.matching = "MAC" /\ o.matching = "IID")
  BY <1>2, <1>7
<1>10. o.states = r.states \/ r.stateType = "ALL"
  BY <1>2, <1>7
<1>11. o.external = m.external
  BY <1>4, <1>8
<1>12. \A f \in Flag : o.flag[f] = (m.flag[f] = TRUE)
  BY <1>5, <1>7
<1> QED BY <1>3, <1>6, <1>7, <1>9, <1>10, <1>11, <1>12

\* What a read gives, attribute by attribute.
LEMMA PolicyReads ==
    ASSUME NEW o
    PROVE  LET a == P!ApiToModel(o)
           IN  /\ a.description = P!OrNull(o.description) /\ a.group = P!OrNull(o.group)
               /\ a.port = P!ParsePort(o.port) /\ a.portType = o.portType
               /\ \A f \in Flag : a.flag[f] = P!FlagOf(o.flag[f])
               /\ a.stateType = o.stateType /\ a.states = P!StatesOf(o)
               /\ a.external = o.external
               /\ \A t \in P!TargetField : a.target[t] =
                     IF o.matching \notin {"ANY", Foreign} /\ t = P!FieldOf(o.matching)
                     THEN o.values ELSE Null
               /\ a.schedule = P!ScheduleOf(o.schedule)
<1>1. \A t \in P!TargetField : P!TargetOf(o)[t] =
         IF o.matching \notin {"ANY", Foreign} /\ t = P!FieldOf(o.matching)
         THEN o.values ELSE Null
  BY DEF P!TargetOf
<1> QED BY <1>1 DEF P!ApiToModel

\* What is stored for an expressible configuration is read back as that configuration.
LEMMA PolicyRoundTrip ==
    ASSUME NEW m \in P!Model, P!Expressible(m), P!PortTypeAsDerived(m),
           NEW old \in SUBSET Value, NEW o \in P!Stored(P!Request(m), old)
    PROVE  P!ApiToModel(o) = m
<1> DEFINE a == P!ApiToModel(o)
<1>0. /\ a.description = P!OrNull(o.description) /\ a.group = P!OrNull(o.group)
      /\ a.port = P!ParsePort(o.port) /\ a.portType = o.portType
      /\ \A f \in Flag : a.flag[f] = P!FlagOf(o.flag[f])
      /\ a.stateType = o.stateType /\ a.states = P!StatesOf(o)
      /\ \A t \in P!TargetField : a.target[t] =
            IF o.matching \notin {"ANY", Foreign} /\ t = P!FieldOf(o.matching)
            THEN o.values ELSE Null
      /\ a.schedule = P!ScheduleOf(o.schedule)
  BY PolicyReads
<1>4. a.external = m.external
  <2>1. o.external = m.external
    BY PolicyAnswer
  <2>2. a.external = o.external
    BY PolicyReads
  <2> QED BY <2>1, <2>2
<1>1. a \in P!Model
  BY PolicyAnswer, PolicyRead
<1> HIDE DEF a
<1>10. /\ o.description = P!OrEmpty(m.description) /\ o.group = P!OrEmpty(m.group)
       /\ o.port = m.port /\ o.portType = P!ResolvePortType(m)
       /\ o.stateType = m.stateType /\ o.schedule = P!ScheduleRequest(m.schedule)
       /\ \A f \in Flag : o.flag[f] = (m.flag[f] = TRUE)
  BY PolicyAnswer
<1>2. a.description = m.description /\ a.group = m.group
  BY <1>0, <1>10, Distinct
     DEF P!OrNull, P!OrEmpty, P!Expressible, P!PortTypeAsDerived
<1>3. a.port = m.port /\ a.portType = m.portType /\ a.stateType = m.stateType
  <2>1. P!ParsePort(m.port) = m.port
    BY NoValue DEF P!Model, P!ParsePort
  <2> QED BY <2>1, <1>0, <1>10 DEF P!PortTypeAsDerived
<1>5. ASSUME NEW f \in Flag PROVE a.flag[f] = m.flag[f]
  <2>1. a.flag[f] = P!FlagOf(o.flag[f]) /\ o.flag[f] = (m.flag[f] = TRUE)
    BY <1>0, <1>10
  <2>2. m.flag[f] \in {Null, TRUE}
    BY DEF P!Model, P!Expressible
  <2>3. CASE m.flag[f] = TRUE
    BY <2>1, <2>3 DEF P!FlagOf, P!TrueOrNull
  <2>4. CASE m.flag[f] = Null
    BY <2>1, <2>4, NoValue DEF P!FlagOf, P!TrueOrNull
  <2> QED BY <2>2, <2>3, <2>4
<1>6. a.states = m.states
  <2>1. a.states = P!StatesOf(o) /\ o.stateType = m.stateType
        /\ (o.states = P!OrNone(m.states) \/ m.stateType = "ALL")
    BY <1>0, PolicyAnswer
  <2> QED BY <2>1 DEF P!StatesOf, P!SetOrNone, P!OrNone, P!Expressible
<1>7. ASSUME NEW t \in P!TargetField PROVE a.target[t] = m.target[t]
  <2>1. m.target \in [P!TargetField -> P!SetOrNull]
    BY DEF P!Model
  <2>2. \A t1 \in P!TargetField : m.target[t1] # Null =>
           m.target[t1] # {} /\ t1 = P!FieldOf(P!Matching(m.target))
    BY DEF P!Expressible
  <2>3. o.values = P!MatchedValues(m.target) /\ (o.matching = P!Matching(m.target)
              \/ (P!Matching(m.target) = "MAC" /\ o.matching = "IID"))
    BY PolicyAnswer
  <2>4. a.target[t] = IF o.matching \notin {"ANY", Foreign} /\ t = P!FieldOf(o.matching)
                      THEN o.values ELSE Null
    BY <1>0
  <2> QED BY <2>1, <2>2, <2>3, <2>4, TargetRoundTrip
<1>8. a.schedule = m.schedule
  <2>1. a.schedule = P!ScheduleOf(P!ScheduleRequest(m.schedule))
    BY <1>0, <1>10
  <2>2. CASE m.schedule = Null
    BY <2>1, <2>2 DEF P!ScheduleOf, P!ScheduleRequest, P!IsDefaultSchedule, P!AlwaysOn, P!SetOrNone
  <2>3. CASE m.schedule # Null
    <3>1. m.schedule \in P!ScheduleBlock
      BY <2>3 DEF P!Model
    <3> QED BY <3>1, <2>1, <2>3, ScheduleRoundTrip DEF P!Expressible
  <2> QED BY <2>2, <2>3
<1>9. a = m
  BY <1>1, <1>2, <1>3, <1>4, <1>5, <1>6, <1>7, <1>8, SamePolicy
<1> QED BY <1>9 DEF a
\* A schedule that was read asks for itself, but for a list of days that is empty.
LEMMA ScheduleKept ==
    ASSUME NEW s \in P!StoredSchedule
    PROVE  P!ScheduleRequest(P!ScheduleOf(s)) = [s EXCEPT !.days = P!SetOrNone(@)]
<1>1. CASE P!IsDefaultSchedule(s)
  BY <1>1 DEF P!ScheduleOf, P!ScheduleRequest, P!IsDefaultSchedule
<1>2. CASE ~P!IsDefaultSchedule(s)
  <2> DEFINE q == P!ScheduleOf(s)
  <2>1. q = [mode |-> P!OrNull(s.mode), when |-> P!OrNull(s.when), dates |-> P!OrNull(s.dates),
             allDay |-> P!TrueOrNull(s.allDay), days |-> s.days]
    BY <1>2 DEF P!ScheduleOf
  <2>2. q.mode = P!OrNull(s.mode) /\ q.when = P!OrNull(s.when) /\ q.dates = P!OrNull(s.dates)
        /\ q.allDay = P!TrueOrNull(s.allDay) /\ q.days = s.days
    BY <2>1
  <2>3. q # Null
    <3>1. q \in P!ScheduleBlock
      BY <2>1 DEF P!ScheduleBlock, P!StoredSchedule, P!OrNull, P!TrueOrNull
    <3> QED BY <3>1, NoList
  <2> HIDE DEF q
  <2>4. P!OrEmpty(q.mode) = s.mode /\ P!OrEmpty(q.when) = s.when /\ P!OrEmpty(q.dates) = s.dates
    BY <2>2, Distinct, NoValue DEF P!OrEmpty, P!OrNull, P!StoredSchedule
  <2>5. (q.allDay = TRUE) = s.allDay
    <3>1. CASE s.allDay = TRUE
      BY <2>2, <3>1 DEF P!TrueOrNull
    <3>2. CASE s.allDay = FALSE
      BY <2>2, <3>2, NoValue DEF P!TrueOrNull
    <3> QED BY <3>1, <3>2 DEF P!StoredSchedule
  <2>6. P!SetOrNone(q.days) = P!SetOrNone(s.days)
    BY <2>2
  <2>7. P!ScheduleRequest(q) = [mode |-> s.mode, when |-> s.when, dates |-> s.dates,
                                allDay |-> s.allDay, days |-> P!SetOrNone(s.days)]
    BY <2>3, <2>4, <2>5, <2>6 DEF P!ScheduleRequest
  <2>8. [s EXCEPT !.days = P!SetOrNone(@)]
          = [mode |-> s.mode, when |-> s.when, dates |-> s.dates, allDay |-> s.allDay,
             days |-> P!SetOrNone(s.days)]
    BY DEF P!StoredSchedule
  <2> QED BY <2>7, <2>8 DEF q
<1> QED BY <1>1, <1>2

\* A target that the four sets show is the one that is asked for.
LEMMA TargetKept ==
    ASSUME NEW o \in P!Policy, P!Shown(o), NEW u \in [P!TargetField -> P!SetOrNull],
           \A t \in P!TargetField : u[t] =
              IF o.matching \notin {"ANY", Foreign} /\ t = P!FieldOf(o.matching)
              THEN o.values ELSE Null
    PROVE  /\ P!Matching(u) = IF o.matching = "IID" THEN "MAC" ELSE o.matching
           /\ o.matching = "ANY" \/ P!SetOrNone(o.values) = P!MatchedValues(u)
<1>1. P!FieldOf("IP") = "ips" /\ P!FieldOf("MAC") = "mac_addresses" /\ P!FieldOf("IID") = "mac_addresses"
      /\ P!FieldOf("NETWORK") = "network_ids" /\ P!FieldOf("CLIENT") = "device_ids"
  BY DEF P!FieldOf
<1>2. o.matching \in {"ANY", "IP", "MAC", "IID", "NETWORK", "CLIENT", Foreign}
  BY DEF P!Policy
<1>3. Foreign \notin {"ANY", "IP", "MAC", "IID", "NETWORK", "CLIENT"}
  BY NoValue
<1>4. CASE o.matching = "ANY"
  <2>1. \A t \in P!TargetField : u[t] = Null
    BY <1>4
  <2>2. P!Matching(u) = "ANY"
    BY <2>1 DEF P!Matching, P!TargetField
  <2> QED BY <2>2, <1>4
<1>5. CASE o.matching # "ANY"
  <2>1. o.matching # Foreign /\ o.values # Null
    BY <1>5 DEF P!Shown
  <2>3. \A t \in P!TargetField : u[t] = IF t = P!FieldOf(o.matching) THEN o.values ELSE Null
    BY <2>1, <1>5
  <2>4. o.matching \in {"IP", "MAC", "IID", "NETWORK", "CLIENT"}
    BY <2>1, <1>2, <1>5
  <2>5. P!Matching(u) = IF o.matching = "IID" THEN "MAC" ELSE o.matching
    BY <2>1, <2>3, <2>4, <1>1 DEF P!Matching, P!TargetField
  <2>6. P!FieldOf(P!Matching(u)) = P!FieldOf(o.matching) /\ P!Matching(u) # "ANY"
    BY <2>4, <2>5, <1>1
  <2>7. P!MatchedValues(u) = P!SetOrNone(o.values)
    BY <2>3, <2>4, <2>6, <1>1 DEF P!MatchedValues, P!TargetField
  <2> QED BY <2>5, <2>7
<1> QED BY <1>4, <1>5

\* What is shown of a policy asks for it as it is.
LEMMA PolicyInForce ==
    ASSUME NEW o \in P!Policy, SettledPolicy(o), P!Shown(o)
    PROVE  P!InForce(o, P!ApiToModel(o))
<1> DEFINE a == P!ApiToModel(o)
           r == P!Request(a)
<1>1. a \in P!Model /\ r \in P!Policy
  BY PolicyRead, PolicyRequest
<1>2. /\ a.description = P!OrNull(o.description) /\ a.group = P!OrNull(o.group)
      /\ a.port = P!ParsePort(o.port) /\ a.portType = o.portType
      /\ \A f \in Flag : a.flag[f] = P!FlagOf(o.flag[f])
      /\ a.stateType = o.stateType /\ a.states = P!StatesOf(o)
      /\ \A t \in P!TargetField : a.target[t] =
            IF o.matching \notin {"ANY", Foreign} /\ t = P!FieldOf(o.matching)
            THEN o.values ELSE Null
      /\ a.schedule = P!ScheduleOf(o.schedule)
  BY PolicyReads
<1>3. a.external = o.external
  BY PolicyReads
<1> HIDE DEF a
<1>4. /\ r.description = P!OrEmpty(a.description) /\ r.group = P!OrEmpty(a.group)
      /\ r.port = a.port /\ r.portType = P!ResolvePortType(a)
      /\ r.stateType = a.stateType /\ r.states = P!OrNone(a.states)
      /\ r.matching = P!Matching(a.target) /\ r.values = P!MatchedValues(a.target)
      /\ r.schedule = P!ScheduleRequest(a.schedule)
      /\ \A f \in Flag : r.flag[f] = (a.flag[f] = TRUE)
  BY DEF P!Request
<1>5. r.external = a.external
  BY DEF P!Request
<1> HIDE DEF r
<1>6. r.description = o.description /\ r.group = o.group /\ r.port = o.port
  BY <1>2, <1>4, Distinct, NoValue DEF P!OrEmpty, P!OrNull, P!ParsePort, P!Shown, P!Policy
<1>7. r.portType = o.portType
  BY <1>2, <1>4, Distinct, NoValue
     DEF P!ResolvePortType, P!OrNull, P!ParsePort, P!Shown, SettledPolicy, P!Policy
<1>8. r.stateType = o.stateType
  BY <1>2, <1>4
<1>9. r.schedule = [o.schedule EXCEPT !.days = P!SetOrNone(@)]
  BY <1>2, <1>4, ScheduleKept DEF P!Policy
<1>10. o.stateType = "ALL" \/ o.states = r.states
  BY <1>2, <1>4, NoList DEF P!StatesOf, P!OrNone, P!SetOrNone, P!Policy
<1>11. /\ r.matching = IF o.matching = "IID" THEN "MAC" ELSE o.matching
       /\ o.matching = "ANY" \/ P!SetOrNone(o.values) = r.values
  <2>1. a.target \in [P!TargetField -> P!SetOrNull]
    BY <1>1 DEF P!Model
  <2> QED BY <2>1, <1>2, <1>4, TargetKept
<1>12. r.flag = o.flag
  <2>1. ASSUME NEW f \in Flag PROVE r.flag[f] = o.flag[f]
    <3>1. r.flag[f] = (P!FlagOf(o.flag[f]) = TRUE)
      BY <1>2, <1>4
    <3>2. CASE o.flag[f] = TRUE
      BY <3>1, <3>2 DEF P!FlagOf, P!TrueOrNull
    <3>3. CASE o.flag[f] = FALSE
      BY <3>1, <3>3, NoValue DEF P!FlagOf, P!TrueOrNull
    <3> QED BY <3>2, <3>3 DEF P!Policy
  <2> QED BY <2>1, <1>1 DEF P!Policy
<1>13. r.external = o.external
  BY <1>3, <1>5
<1>14. [o EXCEPT !.states = {}, !.matching = "ANY", !.values = Null,
                 !.schedule.days = P!SetOrNone(@)]
         = [r EXCEPT !.states = {}, !.matching = "ANY", !.values = Null]
  <2> DEFINE o1 == [o EXCEPT !.schedule.days = P!SetOrNone(@)]
  <2>1. /\ o1.schedule = r.schedule
        /\ o1.description = r.description /\ o1.group = r.group /\ o1.port = r.port
        /\ o1.portType = r.portType /\ o1.stateType = r.stateType /\ o1.flag = r.flag
        /\ o1.external = r.external
    BY <1>6, <1>7, <1>8, <1>9, <1>12, <1>13 DEF P!Policy
  <2>2. [o EXCEPT !.states = {}, !.matching = "ANY", !.values = Null,
                  !.schedule.days = P!SetOrNone(@)]
          = [o1 EXCEPT !.states = {}, !.matching = "ANY", !.values = Null]
    BY DEF P!Policy
  <2>3. o1 = [description |-> o1.description, flag |-> o1.flag, stateType |-> o1.stateType,
              states |-> o1.states, external |-> o1.external, matching |-> o1.matching,
              values |-> o1.values, portType |-> o1.portType, port |-> o1.port,
              group |-> o1.group, schedule |-> o1.schedule]
    BY DEF P!Policy
  <2>4. r = [description |-> r.description, flag |-> r.flag, stateType |-> r.stateType,
             states |-> r.states, external |-> r.external, matching |-> r.matching,
             values |-> r.values, portType |-> r.portType, port |-> r.port,
             group |-> r.group, schedule |-> r.schedule]
    BY <1>1 DEF P!Policy
  <2> HIDE DEF o1
  <2>5. [o1 EXCEPT !.states = {}, !.matching = "ANY", !.values = Null]
          = [r EXCEPT !.states = {}, !.matching = "ANY", !.values = Null]
    BY <2>1, <2>3, <2>4
  <2> QED BY <2>2, <2>5
<1>15. IF o.matching = "IID" THEN r.matching = "MAC" ELSE r.matching = o.matching
  BY <1>11
<1> QED BY <1>10, <1>11, <1>14, <1>15 DEF P!InForce, r, a

\* The block of a schedule without a date range says what is read of it, and is accepted.
LEMMA PlainSchedule ==
    ASSUME NEW s \in P!StoredSchedule,
           IF s.mode \in {Empty, "ALWAYS"} THEN P!IsDefaultSchedule(s)
           ELSE s.mode # "CUSTOM" /\ s.dates = Empty /\ s.days # {}
    PROVE  P!GeneratedSchedule(s) = P!ScheduleOf(s) /\ P!ValidSchedule(P!ScheduleOf(s))
<1>1. CASE s.mode \in {Empty, "ALWAYS"}
  BY <1>1 DEF P!GeneratedSchedule, P!ScheduleOf, P!ValidSchedule
<1>2. CASE s.mode \notin {Empty, "ALWAYS"}
  <2> DEFINE q == P!ScheduleOf(s)
  <2>1. ~P!IsDefaultSchedule(s)
    BY <1>2 DEF P!IsDefaultSchedule, P!AlwaysOn, P!StoredSchedule
  <2>2. q = [mode |-> P!OrNull(s.mode), when |-> P!OrNull(s.when), dates |-> P!OrNull(s.dates),
             allDay |-> P!TrueOrNull(s.allDay), days |-> s.days]
    BY <2>1 DEF P!ScheduleOf
  <2>3. q.mode # "CUSTOM"
    BY <1>2, <2>2, NoValue DEF P!OrNull
  <2>4. q.dates = Null /\ P!SetOrNone(q.days) = q.days
    BY <1>2, <2>2 DEF P!OrNull, P!SetOrNone
  <2>5. P!GeneratedSchedule(s) = [q EXCEPT !.dates = Null, !.days = P!SetOrNone(@)]
    BY <1>2 DEF P!GeneratedSchedule
  <2>6. [q EXCEPT !.dates = Null, !.days = P!SetOrNone(@)] = q
    BY <2>2, <2>4
  <2> QED BY <2>3, <2>5, <2>6 DEF P!ValidSchedule
<1> QED BY <1>1, <1>2

\* What is generated for a policy plans what is read of it.
LEMMA PolicyGenerated ==
    ASSUME NEW o \in P!Policy, P!Restorable(o)
    PROVE  P!Accepted(P!Generate(o)) /\ P!Generate(o) = P!ApiToModel(o)
<1> DEFINE a == P!ApiToModel(o)
<1>1. a \in P!Model
  BY PolicyRead
<1>2. a.states = P!StatesOf(o) /\ a.schedule = P!ScheduleOf(o.schedule)
      /\ \A f \in Flag : a.flag[f] = P!FlagOf(o.flag[f])
  BY PolicyReads
<1>3. a.external = o.external
  BY PolicyReads
<1>4. P!Generate(o) = [a EXCEPT !.states = P!SetOrNone(o.states), !.target = P!GeneratedTarget(o),
                                !.schedule = P!GeneratedSchedule(o.schedule)]
  BY DEF P!Generate
<1>9. P!GeneratedTarget(o) = a.target
  <2>1. a.target = P!TargetOf(o)
    BY DEF P!ApiToModel
  <2>2. \A t \in P!TargetField : P!TargetOf(o)[t] # {}
    BY NoList DEF P!TargetOf, P!Restorable
  <2>3. P!TargetOf(o) \in [P!TargetField -> P!SetOrNull]
    BY <1>1, <2>1 DEF P!Model
  <2> QED BY <2>1, <2>2, <2>3 DEF P!GeneratedTarget, P!SetOrNone
<1> HIDE DEF a
<1>5. P!SetOrNone(o.states) = a.states
  BY <1>2 DEF P!StatesOf, P!SetOrNone, P!Restorable
<1>6. P!GeneratedSchedule(o.schedule) = a.schedule /\ P!ValidSchedule(a.schedule)
  <2>1. o.schedule \in P!StoredSchedule
    BY DEF P!Policy
  <2> QED BY <2>1, <1>2, PlainSchedule DEF P!Restorable
<1>7. P!Generate(o) = a
  BY <1>1, <1>4, <1>5, <1>6, <1>9 DEF P!Model
<1>8. P!Accepted(a)
  <2>1. Respond \in Flag
    BY InputAssumption
  <2>2. a.flag[Respond] = TRUE => o.flag[Respond] = TRUE
    BY <1>2, <2>1, NoValue DEF P!FlagOf, P!TrueOrNull, P!Policy
  <2> QED BY <2>2, <1>3, <1>6 DEF P!Accepted, P!Restorable
<1> QED BY <1>7, <1>8 DEF a

(***************************************************************************)
(* Port profiles.                                                          *)
(***************************************************************************)

Limits == [Class -> [on : BOOLEAN, level : S!AmountOrNull, rate : S!AmountOrNull]]

\* What a profile enables has a value.
Enabled(p) ==
    /\ ~p.autoneg => p.speed # Null
    /\ p.limited => p.egress # Null
    /\ \A c \in Class : p.storm[c].on =>
          (IF p.unit = "rate" THEN p.storm[c].rate ELSE p.storm[c].level) # Null

LEMMA ProfileBlank == S!Blank \in S!Model
BY DEF S!Blank, S!Model, S!Vlans, S!Voice, S!Link, S!NetOrNull, S!NetsOrNull, S!Tristate,
       S!AmountOrNull, S!SetOrNull

\* An edit of a configuration keeps its type.
LEMMA ProfileEdits == ASSUME NEW m \in S!Model PROVE S!Edits(m) \subseteq S!Model
<1>1. ASSUME NEW x \in Setting \X {"usual", "other", Null}
      PROVE  [m EXCEPT !.setting[x[1]] = x[2]] \in S!Model
  BY DEF S!Model
<1>2. ASSUME NEW x \in S!Vlans PROVE [m EXCEPT !.vlans = x] \in S!Model
  BY DEF S!Model
<1>3. ASSUME NEW x \in S!Voice PROVE [m EXCEPT !.voice = x] \in S!Model
  BY DEF S!Model
<1>4. ASSUME NEW x \in S!Link PROVE [m EXCEPT !.link = x] \in S!Model
  BY DEF S!Model
<1>5. ASSUME NEW x \in S!AmountOrNull PROVE [m EXCEPT !.egress = x] \in S!Model
  BY DEF S!Model
<1>6. ASSUME NEW x \in S!AmountOrNull \cup {Zero} PROVE [m EXCEPT !.debounce = x] \in S!Model
  BY DEF S!Model
<1>7. ASSUME NEW x \in S!SetOrNull PROVE [m EXCEPT !.macs = x] \in S!Model
  BY DEF S!Model
<1>8. ASSUME NEW x \in S!Storm \cup {Null} PROVE [m EXCEPT !.storm = x] \in S!Model
  BY DEF S!Model
<1>11. {[m EXCEPT !.setting[x[1]] = x[2]] : x \in Setting \X {"usual", "other", Null}} \subseteq S!Model
  BY <1>1
<1>12. {[m EXCEPT !.vlans = x] : x \in S!Vlans} \subseteq S!Model
  BY <1>2
<1>13. {[m EXCEPT !.voice = x] : x \in S!Voice} \subseteq S!Model
  BY <1>3
<1>14. {[m EXCEPT !.link = x] : x \in S!Link} \subseteq S!Model
  BY <1>4
<1>15. {[m EXCEPT !.egress = x] : x \in S!AmountOrNull} \subseteq S!Model
  BY <1>5
<1>16. {[m EXCEPT !.debounce = x] : x \in S!AmountOrNull \cup {Zero}} \subseteq S!Model
  BY <1>6
<1>17. {[m EXCEPT !.macs = x] : x \in S!SetOrNull} \subseteq S!Model
  BY <1>7
<1>18. {[m EXCEPT !.storm = x] : x \in S!Storm \cup {Null}} \subseteq S!Model
  BY <1>8
<1> QED BY <1>11, <1>12, <1>13, <1>14, <1>15, <1>16, <1>17, <1>18 DEF S!Edits

\* With nothing left to tag the mode is block_all.
LEMMA ProfileStored ==
    ASSUME NEW p \in S!Profile, Enabled(p)
    PROVE  S!Stored(p) \in S!Profile /\ Settled(S!Stored(p))
<1> DEFINE b == [p EXCEPT !.mode = "block_all"]
<1>1. b \in S!Profile /\ b.mode = "block_all"
  BY DEF S!Profile
<1>2. b.speed = p.speed /\ b.egress = p.egress /\ b.unit = p.unit /\ b.storm = p.storm
  BY DEF S!Profile
<1>3. b.autoneg = p.autoneg
  BY DEF S!Profile
<1>4. b.limited = p.limited
  BY DEF S!Profile
<1> HIDE DEF b
<1>5. Settled(b)
  BY <1>1, <1>2, <1>3, <1>4 DEF Settled, Enabled
<1>6. S!Stored(p) = b \/ (S!Stored(p) = p /\ Settled(p))
  BY DEF S!Stored, Settled, Enabled, b
<1> QED BY <1>1, <1>5, <1>6

\* What others edit keeps the type, and what it enables has a value.
LEMMA ProfileOutsideEdits ==
    ASSUME NEW p \in S!Profile, Settled(p)
    PROVE  \A x \in S!OutsideEdits(p) : x \in S!Profile /\ Settled(x)
<1> DEFINE Good == {x \in S!Profile : Enabled(x)}
<1>0. p \in Good
  BY DEF Settled, Enabled
<1>1. ASSUME NEW x \in Setting \X {"usual", "other", Empty}
      PROVE  [p EXCEPT !.setting[x[1]] = x[2]] \in Good
  BY <1>0 DEF S!Profile, Enabled
<1>2. ASSUME NEW x \in (Lan \cup {Empty}) \X {"auto", "block_all", "custom"} \X SUBSET Lan
      PROVE  [p EXCEPT !.native = x[1], !.mode = x[2], !.excluded = x[3] \ {x[1]}] \in Good
  BY <1>0 DEF S!Profile, Enabled
<1>3. [p EXCEPT !.lldpmed = ~@] \in Good
  <2>1. ASSUME NEW b \in BOOLEAN PROVE [p EXCEPT !.lldpmed = b] \in Good
    BY <1>0 DEF S!Profile, Enabled
  <2> QED BY <2>1
<1>4. ASSUME NEW x \in Lan \cup {Empty} PROVE [p EXCEPT !.voice = x] \in Good
  BY <1>0 DEF S!Profile, Enabled
<1>5. [p EXCEPT !.autoneg = TRUE] \in Good
  BY <1>0 DEF S!Profile, Enabled
<1>6. [p EXCEPT !.duplex = ~@] \in Good /\ [p EXCEPT !.manual = ~@] \in Good
  <2>1. ASSUME NEW b \in BOOLEAN PROVE [p EXCEPT !.duplex = b] \in Good
    BY <1>0 DEF S!Profile, Enabled
  <2>2. ASSUME NEW b \in BOOLEAN PROVE [p EXCEPT !.manual = b] \in Good
    BY <1>0 DEF S!Profile, Enabled
  <2> QED BY <2>1, <2>2
<1>7. ASSUME NEW x \in Amount PROVE [p EXCEPT !.autoneg = FALSE, !.speed = x] \in Good
  BY <1>0, NoValue DEF S!Profile, S!AmountOrNull, Enabled
<1>8. [p EXCEPT !.limited = FALSE] \in Good
  BY <1>0 DEF S!Profile, Enabled
<1>9. [p EXCEPT !.debounceAuto = TRUE] \in Good
  BY <1>0 DEF S!Profile, Enabled
<1>10. ASSUME NEW x \in Amount PROVE [p EXCEPT !.limited = TRUE, !.egress = x] \in Good
  BY <1>0, NoValue DEF S!Profile, S!AmountOrNull, Enabled
<1>11. ASSUME NEW x \in Amount \cup {Zero}
       PROVE  [p EXCEPT !.debounceAuto = FALSE, !.debounce = x] \in Good
  <2>1. x \in S!AmountOrNull \cup {Zero}
    BY DEF S!AmountOrNull
  <2> QED BY <1>0, <2>1 DEF S!Profile, Enabled
<1>12. ASSUME NEW x \in SUBSET Value PROVE [p EXCEPT !.macs = x] \in Good
  BY <1>0 DEF S!Profile, Enabled
<1>13. ASSUME NEW c \in Class PROVE [p EXCEPT !.storm[c].on = FALSE] \in Good
  <2> DEFINE l == [p.storm EXCEPT ![c].on = FALSE]
  <2>1. l \in Limits
    BY DEF S!Profile, Limits
  <2>2. \A d \in Class : l[d].on => p.storm[d].on /\ l[d] = p.storm[d]
    BY DEF S!Profile
  <2> HIDE DEF l
  <2>3. [p EXCEPT !.storm = l] \in Good
    BY <1>0, <2>1, <2>2 DEF S!Profile, Enabled, Limits
  <2> QED BY <2>3 DEF l
<1>14. ASSUME NEW x \in Class \X Amount
       PROVE  [p EXCEPT !.unit = "level", !.storm = S!LevelSet(@, x[1], x[2])] \in Good
  <2>1. S!LevelSet(p.storm, x[1], x[2]) \in Limits
    BY DEF S!LevelSet, S!Profile, Limits, S!AmountOrNull
  <2>2. \A d \in Class : S!LevelSet(p.storm, x[1], x[2])[d].on =>
                            S!LevelSet(p.storm, x[1], x[2])[d].level # Null
    BY NoValue DEF S!LevelSet, S!Profile, S!AmountOrNull
  <2> QED BY <1>0, <2>1, <2>2 DEF S!Profile, Enabled, Limits
<1>15. ASSUME NEW x \in Class \X Amount
       PROVE  [p EXCEPT !.unit = "rate", !.storm = S!RateSet(@, x[1], x[2])] \in Good
  <2>1. S!RateSet(p.storm, x[1], x[2]) \in Limits
    BY DEF S!RateSet, S!Profile, Limits, S!AmountOrNull
  <2>2. \A d \in Class : S!RateSet(p.storm, x[1], x[2])[d].on =>
                            S!RateSet(p.storm, x[1], x[2])[d].rate # Null
    BY NoValue DEF S!RateSet, S!Profile, S!AmountOrNull
  <2> QED BY <1>0, <2>1, <2>2 DEF S!Profile, Enabled, Limits
<1> HIDE DEF Good
<1>21. {[p EXCEPT !.setting[x[1]] = x[2]] : x \in Setting \X {"usual", "other", Empty}} \subseteq Good
  BY <1>1
<1>22. {[p EXCEPT !.native = x[1], !.mode = x[2], !.excluded = x[3] \ {x[1]}] :
          x \in (Lan \cup {Empty}) \X {"auto", "block_all", "custom"} \X SUBSET Lan} \subseteq Good
  BY <1>2
<1>23. {[p EXCEPT !.lldpmed = ~@]} \subseteq Good
  BY <1>3
<1>24. {[p EXCEPT !.voice = x] : x \in Lan \cup {Empty}} \subseteq Good
  BY <1>4
<1>25. {[p EXCEPT !.autoneg = TRUE], [p EXCEPT !.duplex = ~@], [p EXCEPT !.manual = ~@]} \subseteq Good
  BY <1>5, <1>6
<1>26. {[p EXCEPT !.autoneg = FALSE, !.speed = x] : x \in Amount} \subseteq Good
  BY <1>7
<1>27. {[p EXCEPT !.limited = FALSE], [p EXCEPT !.debounceAuto = TRUE]} \subseteq Good
  BY <1>8, <1>9
<1>28. {[p EXCEPT !.limited = TRUE, !.egress = x] : x \in Amount} \subseteq Good
  BY <1>10
<1>29. {[p EXCEPT !.debounceAuto = FALSE, !.debounce = x] : x \in Amount \cup {Zero}} \subseteq Good
  BY <1>11
<1>30. {[p EXCEPT !.macs = x] : x \in SUBSET Value} \subseteq Good
  BY <1>12
<1>31. {[p EXCEPT !.storm[c].on = FALSE] : c \in Class} \subseteq Good
  BY <1>13
<1>32. {[p EXCEPT !.unit = "level", !.storm = S!LevelSet(@, x[1], x[2])] : x \in Class \X Amount}
          \subseteq Good
  BY <1>14
<1>33. {[p EXCEPT !.unit = "rate", !.storm = S!RateSet(@, x[1], x[2])] : x \in Class \X Amount}
          \subseteq Good
  BY <1>15
<1>34. \A x \in S!OutsideEdits(p) : \E y \in Good : x = S!Stored(y)
  BY <1>21, <1>22, <1>23, <1>24, <1>25, <1>26, <1>27, <1>28, <1>29, <1>30, <1>31, <1>32, <1>33
     DEF S!OutsideEdits
<1>35. \A y \in Good : S!Stored(y) \in S!Profile /\ Settled(S!Stored(y))
  BY ProfileStored DEF Good
<1> QED BY <1>34, <1>35
\* What a plan or a state holds has its default filled in.
Full(q) ==
    /\ \A s \in Setting : q.setting[s] # Null
    /\ q.vlans.mode # Null /\ q.voice.lldpmed # Null
    /\ q.link.autoneg # Null /\ q.link.duplex # Null /\ q.macs # Null
    /\ q.storm # Null => q.storm.unit # Null

\* Defaults leave each block of a profile in its type.
LEMMA PlannedVlans ==
    ASSUME NEW v \in S!Vlans
    PROVE  LET w == [v EXCEPT !.mode = S!OrElse(@, "allow_all")]
           IN  w \in S!Vlans /\ w.native = v.native /\ w.mode = S!OrElse(v.mode, "allow_all")
               /\ w.tagged = v.tagged /\ w.excluded = v.excluded
BY DEF S!Vlans, S!OrElse

LEMMA PlannedVoice ==
    ASSUME NEW v \in S!Voice
    PROVE  LET w == [v EXCEPT !.lldpmed = S!OrElse(@, TRUE)]
           IN  w \in S!Voice /\ w.lldpmed = S!OrElse(v.lldpmed, TRUE) /\ w.network = v.network
BY DEF S!Voice, S!OrElse, S!Tristate

LEMMA PlannedLink ==
    ASSUME NEW v \in S!Link
    PROVE  LET w == [v EXCEPT !.autoneg = S!OrElse(@, TRUE), !.duplex = S!OrElse(@, FALSE)]
           IN  w \in S!Link /\ w.autoneg = S!OrElse(v.autoneg, TRUE) /\ w.speed = v.speed
               /\ w.duplex = S!OrElse(v.duplex, FALSE)
BY DEF S!Link, S!OrElse, S!Tristate

LEMMA PlannedStorm ==
    ASSUME NEW v \in S!Storm
    PROVE  [unit |-> S!OrElse(v.unit, "percentage"), limit |-> v.limit] \in S!Storm
BY DEF S!Storm, S!OrElse, S!Unit

\* The plan, block by block.
LEMMA ProfilePlanned ==
    ASSUME NEW m \in S!Model
    PROVE  LET q == S!Planned(m)
           IN  /\ q \in S!Model
               /\ \A s \in Setting : q.setting[s] = S!OrElse(m.setting[s], "usual")
               /\ q.vlans = [m.vlans EXCEPT !.mode = S!OrElse(@, "allow_all")]
               /\ q.voice = [m.voice EXCEPT !.lldpmed = S!OrElse(@, TRUE)]
               /\ q.link = [m.link EXCEPT !.autoneg = S!OrElse(@, TRUE), !.duplex = S!OrElse(@, FALSE)]
               /\ q.egress = m.egress /\ q.debounce = m.debounce
               /\ q.macs = S!OrElse(m.macs, {})
               /\ q.storm = IF m.storm = Null THEN Null
                            ELSE [unit |-> S!OrElse(m.storm.unit, "percentage"),
                                  limit |-> m.storm.limit]
<1> DEFINE q == S!Planned(m)
           u == [s \in Setting |-> S!OrElse(m.setting[s], "usual")]
           v == [m.vlans EXCEPT !.mode = S!OrElse(@, "allow_all")]
           o == [m.voice EXCEPT !.lldpmed = S!OrElse(@, TRUE)]
           l == [m.link EXCEPT !.autoneg = S!OrElse(@, TRUE), !.duplex = S!OrElse(@, FALSE)]
           a == S!OrElse(m.macs, {})
           t == IF m.storm = Null THEN Null ELSE [unit |-> S!OrElse(m.storm.unit, "percentage"),
                                  limit |-> m.storm.limit]
<1>0. m.vlans \in S!Vlans /\ m.voice \in S!Voice /\ m.link \in S!Link
      /\ m.storm \in S!Storm \cup {Null} /\ m.macs \in S!SetOrNull
      /\ m.setting \in [Setting -> {"usual", "other", Null}]
  BY DEF S!Model
<1>1. u \in [Setting -> {"usual", "other", Null}]
  BY <1>0 DEF S!OrElse
<1>2. v \in S!Vlans
  BY <1>0, PlannedVlans
<1>3. o \in S!Voice
  BY <1>0, PlannedVoice
<1>4. l \in S!Link
  BY <1>0, PlannedLink
<1>5. a \in S!SetOrNull
  BY <1>0 DEF S!OrElse, S!SetOrNull
<1>6. t \in S!Storm \cup {Null}
  BY <1>0, PlannedStorm
<1>7. q = [m EXCEPT !.setting = u, !.vlans = v, !.voice = o, !.link = l, !.macs = a, !.storm = t]
  <2>1. q.setting = u
    BY DEF S!Planned, S!Model
  <2>2. q.vlans = v
    BY DEF S!Planned, S!Model
  <2>3. q.voice = o
    BY DEF S!Planned, S!Model
  <2>4. q.link = l
    BY DEF S!Planned, S!Model
  <2>5. q.macs = a
    BY DEF S!Planned, S!Model
  <2>6. q.storm = t
    BY DEF S!Planned, S!Model
  <2>7. q.egress = m.egress /\ q.debounce = m.debounce
    BY DEF S!Planned, S!Model
  <2>8. DOMAIN q = DOMAIN m
    BY DEF S!Planned
  <2>9. DOMAIN m = {"setting", "vlans", "voice", "link", "egress", "debounce", "macs", "storm"}
    BY DEF S!Model
  <2>10. q = [f \in DOMAIN q |-> q[f]]
    BY DEF S!Planned
  <2> HIDE DEF q, u, v, o, l, a, t
  <2> QED BY <2>1, <2>2, <2>3, <2>4, <2>5, <2>6, <2>7, <2>8, <2>9, <2>10 DEF S!Model
<1>8. \A s \in Setting : u[s] = S!OrElse(m.setting[s], "usual")
  OBVIOUS
<1> HIDE DEF q, u, v, o, l, a, t
<1>9. q \in S!Model
  BY <1>1, <1>2, <1>3, <1>4, <1>5, <1>6, <1>7 DEF S!Model
<1>10. q.setting = u /\ q.vlans = v /\ q.voice = o /\ q.link = l /\ q.macs = a /\ q.storm = t
       /\ q.egress = m.egress /\ q.debounce = m.debounce
  BY <1>7 DEF S!Model
<1> QED BY <1>8, <1>9, <1>10 DEF q, v, o, l, a, t

\* A plan has a value for whatever has a default.
LEMMA ProfileFull == ASSUME NEW m \in S!Model PROVE Full(S!Planned(m))
<1> DEFINE q == S!Planned(m)
<1>0. m.vlans \in S!Vlans /\ m.voice \in S!Voice /\ m.link \in S!Link
      /\ m.storm \in S!Storm \cup {Null}
  BY DEF S!Model
<1>7. /\ \A s \in Setting : q.setting[s] = S!OrElse(m.setting[s], "usual")
      /\ q.vlans = [m.vlans EXCEPT !.mode = S!OrElse(@, "allow_all")]
      /\ q.voice = [m.voice EXCEPT !.lldpmed = S!OrElse(@, TRUE)]
      /\ q.link = [m.link EXCEPT !.autoneg = S!OrElse(@, TRUE), !.duplex = S!OrElse(@, FALSE)]
      /\ q.macs = S!OrElse(m.macs, {})
      /\ q.storm = IF m.storm = Null THEN Null
                   ELSE [unit |-> S!OrElse(m.storm.unit, "percentage"),
                                  limit |-> m.storm.limit]
  BY ProfilePlanned
<1> HIDE DEF q
<1>1. \A s \in Setting : q.setting[s] # Null
  BY <1>7, NoValue DEF S!OrElse
<1>2. q.vlans.mode # Null
  BY <1>0, <1>7, PlannedVlans, NoValue DEF S!OrElse
<1>3. q.voice.lldpmed # Null
  BY <1>0, <1>7, PlannedVoice, NoValue DEF S!OrElse
<1>4. q.link.autoneg # Null /\ q.link.duplex # Null
  BY <1>0, <1>7, PlannedLink, NoValue DEF S!OrElse
<1>5. q.macs # Null
  BY <1>7, NoList DEF S!OrElse
<1>6. q.storm # Null => q.storm.unit # Null
  BY <1>0, <1>7, PlannedStorm, NoValue DEF S!OrElse
<1> QED BY <1>1, <1>2, <1>3, <1>4, <1>5, <1>6 DEF Full, q

\* Two plans of the same set with the same attributes are the same.
LEMMA SameProfile ==
    ASSUME NEW a \in S!Model, NEW b \in S!Model, \A s \in Setting : a.setting[s] = b.setting[s],
           a.vlans.native = b.vlans.native, a.vlans.mode = b.vlans.mode,
           a.vlans.tagged = b.vlans.tagged, a.vlans.excluded = b.vlans.excluded,
           a.voice.lldpmed = b.voice.lldpmed, a.voice.network = b.voice.network,
           a.link.autoneg = b.link.autoneg, a.link.speed = b.link.speed,
           a.link.duplex = b.link.duplex, a.egress = b.egress, a.debounce = b.debounce,
           a.macs = b.macs, a.storm = b.storm
    PROVE  a = b
<1>1. a.setting = b.setting
  BY DEF S!Model
<1>2. a.vlans = b.vlans
  BY DEF S!Model, S!Vlans
<1>3. a.voice = b.voice
  BY DEF S!Model, S!Voice
<1>4. a.link = b.link
  BY DEF S!Model, S!Link
<1> QED BY <1>1, <1>2, <1>3, <1>4 DEF S!Model
\* A plan has its own defaults.
LEMMA PlannedIsPlanned ==
    ASSUME NEW m \in S!Model, Full(m)
    PROVE  S!Planned(m) = m
<1> DEFINE q == S!Planned(m)
<1>0. m.vlans \in S!Vlans /\ m.voice \in S!Voice /\ m.link \in S!Link
      /\ m.storm \in S!Storm \cup {Null}
  BY DEF S!Model
<1>7. /\ q \in S!Model
      /\ \A s \in Setting : q.setting[s] = S!OrElse(m.setting[s], "usual")
      /\ q.vlans = [m.vlans EXCEPT !.mode = S!OrElse(@, "allow_all")]
      /\ q.voice = [m.voice EXCEPT !.lldpmed = S!OrElse(@, TRUE)]
      /\ q.link = [m.link EXCEPT !.autoneg = S!OrElse(@, TRUE), !.duplex = S!OrElse(@, FALSE)]
      /\ q.egress = m.egress /\ q.debounce = m.debounce
      /\ q.macs = S!OrElse(m.macs, {})
      /\ q.storm = IF m.storm = Null THEN Null
                   ELSE [unit |-> S!OrElse(m.storm.unit, "percentage"), limit |-> m.storm.limit]
  BY ProfilePlanned
<1> HIDE DEF q
<1>1. \A s \in Setting : q.setting[s] = m.setting[s]
  BY <1>7 DEF S!OrElse, Full
<1>2. q.vlans = m.vlans
  BY <1>0, <1>7 DEF S!OrElse, Full, S!Vlans
<1>3. q.voice = m.voice
  BY <1>0, <1>7 DEF S!OrElse, Full, S!Voice
<1>4. q.link = m.link
  BY <1>0, <1>7 DEF S!OrElse, Full, S!Link
<1>5. q.macs = m.macs
  BY <1>7 DEF S!OrElse, Full
<1>6. q.storm = m.storm
  BY <1>0, <1>7 DEF S!OrElse, Full, S!Storm
<1>8. q = m
  BY <1>1, <1>2, <1>3, <1>4, <1>5, <1>6, <1>7, SameProfile
<1> QED BY <1>8 DEF q

(***************************************************************************)
(* A profile, read.                                                        *)
(***************************************************************************)

\* The networks a profile shows are of the type, whatever the prior form of the list.
LEMMA ProfileVlans ==
    ASSUME NEW p \in S!Profile, NEW v
    PROVE  LET w == S!VlansOf(p, v)
           IN  /\ w \in S!Vlans /\ w.mode # Null
               /\ w.native = S!NullIfEmpty(p.native)
               /\ w.mode = IF p.mode = "auto" THEN "allow_all" ELSE p.mode
               /\ w.tagged = IF p.mode = "custom" /\ S!UsesTaggedList(v) THEN S!Carried(p) ELSE Null
               /\ w.excluded = IF p.mode = "custom" /\ ~S!UsesTaggedList(v) THEN p.excluded ELSE Null
<1>1. S!NullIfEmpty(p.native) \in S!NetOrNull
  BY DEF S!NullIfEmpty, S!NetOrNull, S!Profile
<1>2. S!Carried(p) \in S!NetsOrNull /\ p.excluded \in S!NetsOrNull /\ Null \in S!NetsOrNull
  BY DEF S!Carried, S!NetsOrNull, S!Profile
<1>3. /\ (IF p.mode = "auto" THEN "allow_all" ELSE p.mode)
           \in {"allow_all", "block_all", "custom", Null}
      /\ (IF p.mode = "auto" THEN "allow_all" ELSE p.mode) # Null
  BY NoValue DEF S!Profile
<1>4. S!VlansOf(p, v) \in S!Vlans
  BY <1>1, <1>2, <1>3 DEF S!VlansOf, S!Vlans
<1> QED BY <1>3, <1>4 DEF S!VlansOf

\* The list of networks keeps its form.
LEMMA ProfileVlansAgain ==
    ASSUME NEW p \in S!Profile, NEW v
    PROVE  S!VlansOf(p, S!VlansOf(p, v)) = S!VlansOf(p, v)
<1> DEFINE w == S!VlansOf(p, v)
<1>1. /\ w.tagged = IF p.mode = "custom" /\ S!UsesTaggedList(v) THEN S!Carried(p) ELSE Null
      /\ w.excluded = IF p.mode = "custom" /\ ~S!UsesTaggedList(v) THEN p.excluded ELSE Null
  BY ProfileVlans
<1> HIDE DEF w
<1>2. p.excluded # Null
  BY NoList DEF S!Profile
<1>3. p.mode = "custom" => S!UsesTaggedList(w) = S!UsesTaggedList(v)
  BY <1>1, <1>2 DEF S!UsesTaggedList
<1>4. S!VlansOf(p, w) = S!VlansOf(p, v)
  BY <1>3 DEF S!VlansOf
<1> QED BY <1>4 DEF w

\* The thresholds it shows too.
LEMMA ProfileStorm ==
    ASSUME NEW p \in S!Profile
    PROVE  /\ S!StormOf(p) \in S!Storm \cup {Null}
           /\ S!StormOf(p) # Null =>
                 /\ S!StormOf(p).unit = S!UnitOf(p)
                 /\ \A c \in Class : S!StormOf(p).limit[c] = S!Threshold(p, c)
                 /\ \E c \in Class : S!StormOf(p).limit[c] # Null
           /\ S!StormOf(p) = Null => \A c \in Class : S!Threshold(p, c) = Null
<1>1. \A c \in Class : S!Threshold(p, c) \in S!AmountOrNull
  BY DEF S!Threshold, S!Profile, S!AmountOrNull
<1>2. S!UnitOf(p) \in S!Unit
  BY DEF S!UnitOf, S!Unit
<1> DEFINE q == [unit |-> S!UnitOf(p), limit |-> [c \in Class |-> S!Threshold(p, c)]]
<1>3. q \in S!Storm /\ q # Null
  <2>1. q \in S!Storm
    BY <1>1, <1>2 DEF S!Storm
  <2> QED BY <2>1, NoList
<1>4. S!StormOf(p) = IF \A c \in Class : S!Threshold(p, c) = Null THEN Null ELSE q
  BY DEF S!StormOf
<1>5. q.unit = S!UnitOf(p) /\ \A c \in Class : q.limit[c] = S!Threshold(p, c)
  OBVIOUS
<1> HIDE DEF q
<1> QED BY <1>3, <1>4, <1>5

\* A read, block by block.
LEMMA ProfileReads ==
    ASSUME NEW p \in S!Profile, NEW v
    PROVE  LET a == S!ApiToModel(p, v)
           IN  /\ a \in S!Model
               /\ \A s \in Setting : a.setting[s] = IF p.setting[s] = Empty THEN "usual" ELSE p.setting[s]
               /\ a.vlans = S!VlansOf(p, v)
               /\ a.voice.lldpmed = p.lldpmed
               /\ a.voice.network = IF p.lldpmed THEN S!NullIfEmpty(p.voice) ELSE Null
               /\ a.link.autoneg = p.autoneg
               /\ a.link.speed = IF p.autoneg THEN Null ELSE p.speed
               /\ a.link.duplex = (~p.autoneg /\ p.duplex)
               /\ a.egress = IF p.limited THEN p.egress ELSE Null
               /\ a.debounce = IF p.debounceAuto THEN Null ELSE S!OrElse(p.debounce, Zero)
               /\ a.macs = p.macs /\ a.storm = S!StormOf(p)
<1> DEFINE a == S!ApiToModel(p, v)
           u == [s \in Setting |-> IF p.setting[s] = Empty THEN "usual" ELSE p.setting[s]]
           o == [lldpmed |-> p.lldpmed, network |-> IF p.lldpmed THEN S!NullIfEmpty(p.voice) ELSE Null]
           l == S!LinkOf(p)
           e == IF p.limited THEN p.egress ELSE Null
           d == IF p.debounceAuto THEN Null ELSE S!OrElse(p.debounce, Zero)
<1>1. u \in [Setting -> {"usual", "other", Null}]
  BY DEF S!Profile
<1>2. o \in S!Voice
  BY DEF S!Profile, S!Voice, S!NullIfEmpty, S!NetOrNull, S!Tristate
<1>3. l \in S!Link
  BY DEF S!Profile, S!Link, S!LinkOf, S!AmountOrNull, S!Tristate
<1>4. e \in S!AmountOrNull /\ d \in S!AmountOrNull \cup {Zero}
  BY DEF S!Profile, S!AmountOrNull, S!OrElse
<1>5. p.macs \in S!SetOrNull
  BY DEF S!Profile, S!SetOrNull
<1>6. S!VlansOf(p, v) \in S!Vlans /\ S!StormOf(p) \in S!Storm \cup {Null}
  BY ProfileVlans, ProfileStorm
<1>7. a = [setting |-> u, vlans |-> S!VlansOf(p, v), voice |-> o, link |-> l, egress |-> e,
           debounce |-> d, macs |-> p.macs, storm |-> S!StormOf(p)]
  BY DEF S!ApiToModel
<1>8. \A s \in Setting : u[s] = IF p.setting[s] = Empty THEN "usual" ELSE p.setting[s]
  OBVIOUS
<1>9. /\ o.network = IF p.lldpmed THEN S!NullIfEmpty(p.voice) ELSE Null
      /\ l.speed = IF p.autoneg THEN Null ELSE p.speed
  BY DEF S!LinkOf
<1>10. o.lldpmed = p.lldpmed
  OBVIOUS
<1>11. l.autoneg = p.autoneg
  BY DEF S!LinkOf
<1>12. l.duplex = (~p.autoneg /\ p.duplex)
  BY DEF S!LinkOf
<1> HIDE DEF a, u, o, l
<1>13. a \in S!Model
  BY <1>1, <1>2, <1>3, <1>4, <1>5, <1>6, <1>7 DEF S!Model
<1>14. a.setting = u /\ a.vlans = S!VlansOf(p, v) /\ a.voice = o /\ a.link = l
       /\ a.egress = e /\ a.debounce = d /\ a.macs = p.macs /\ a.storm = S!StormOf(p)
  BY <1>7
<1>15. a.voice.lldpmed = p.lldpmed
  BY <1>10, <1>14
<1>16. a.link.autoneg = p.autoneg
  BY <1>11, <1>14
<1>17. a.link.duplex = (~p.autoneg /\ p.duplex)
  BY <1>12, <1>14
<1>18. /\ a.voice.network = IF p.lldpmed THEN S!NullIfEmpty(p.voice) ELSE Null
       /\ a.link.speed = IF p.autoneg THEN Null ELSE p.speed
  BY <1>9, <1>14
<1>19. \A s \in Setting : a.setting[s] = IF p.setting[s] = Empty THEN "usual" ELSE p.setting[s]
  BY <1>8, <1>14
<1> QED BY <1>13, <1>14, <1>15, <1>16, <1>17, <1>18, <1>19 DEF a
\* What was read has its defaults, and is read again as it was.
LEMMA ProfileRead ==
    ASSUME NEW p \in S!Profile, NEW v
    PROVE  /\ S!ApiToModel(p, v) \in S!Model /\ Full(S!ApiToModel(p, v))
           /\ S!ApiToModel(p, S!ApiToModel(p, v).vlans) = S!ApiToModel(p, v)
<1> DEFINE a == S!ApiToModel(p, v)
           b == S!ApiToModel(p, a.vlans)
<1>1. /\ a \in S!Model
      /\ \A s \in Setting : a.setting[s] = IF p.setting[s] = Empty THEN "usual" ELSE p.setting[s]
      /\ a.vlans = S!VlansOf(p, v) /\ a.macs = p.macs /\ a.storm = S!StormOf(p)
  BY ProfileReads
<1>2. a.voice.lldpmed = p.lldpmed
  BY ProfileReads
<1>3. a.link.autoneg = p.autoneg
  BY ProfileReads
<1>4. a.link.duplex = (~p.autoneg /\ p.duplex)
  BY ProfileReads
<1>5. b = a
  <2>1. S!VlansOf(p, a.vlans) = S!VlansOf(p, v)
    BY <1>1, ProfileVlansAgain
  <2> QED BY <2>1 DEF S!ApiToModel
<1> HIDE DEF a, b
<1>6. a.voice.lldpmed # Null /\ a.link.autoneg # Null /\ a.link.duplex # Null
  <2>1. p.lldpmed \in BOOLEAN /\ p.autoneg \in BOOLEAN
    BY DEF S!Profile
  <2>2. a.voice.lldpmed \in BOOLEAN
    BY <2>1, <1>2
  <2>3. a.link.autoneg \in BOOLEAN
    BY <2>1, <1>3
  <2>4. a.link.duplex \in BOOLEAN
    BY <1>4
  <2> QED BY <2>2, <2>3, <2>4, NoValue
<1>7. \A s \in Setting : a.setting[s] # Null
  BY <1>1, NoValue, Distinct DEF S!Profile
<1>8. a.vlans.mode # Null
  BY <1>1, ProfileVlans
<1>9. a.macs # Null
  BY <1>1, NoList DEF S!Profile
<1>10. a.storm # Null => a.storm.unit # Null
  BY <1>1, ProfileStorm, NoValue DEF S!UnitOf
<1> QED BY <1>1, <1>5, <1>6, <1>7, <1>8, <1>9, <1>10 DEF Full, a, b

(***************************************************************************)
(* A profile, written.                                                     *)
(***************************************************************************)

\* The profile a request is laid over.
Under(old) ==
    /\ old.speed \in S!AmountOrNull /\ old.egress \in S!AmountOrNull
    /\ old.debounce \in S!AmountOrNull \cup {Zero}
    /\ old.unit \in {"level", "rate", Empty} /\ old.storm \in Limits

\* A request may be laid over nothing or over any profile.
LEMMA ProfileUnder == Under(S!Absent) /\ \A p \in S!Profile : Under(p)
<1>1. Under(S!Absent)
  BY DEF Under, S!Absent, S!AmountOrNull, Limits
<1>2. \A p \in S!Profile : Under(p)
  BY DEF Under, S!Profile, Limits
<1> QED BY <1>1, <1>2

\* What is sent for storm control: a class that has a threshold is on.
LEMMA StormRequest ==
    ASSUME NEW t \in S!Storm \cup {Null}, t # Null => t.unit # Null, NEW c \in Class,
           NEW o \in [on : BOOLEAN, level : S!AmountOrNull, rate : S!AmountOrNull]
    PROVE  LET x == S!StormClass(t, c, o)
           IN  /\ x \in [on : BOOLEAN, level : S!AmountOrNull, rate : S!AmountOrNull]
               /\ x.on <=> t # Null /\ t.limit[c] # Null
               /\ t # Null /\ t.limit[c] # Null =>
                     t.limit[c] = IF t.unit = "percentage" THEN x.level ELSE x.rate
<1>1. CASE t = Null \/ t.limit[c] = Null
  BY <1>1 DEF S!StormClass
<1>2. CASE t # Null /\ t.limit[c] # Null
  <2>1. t \in S!Storm /\ t.limit[c] \in S!AmountOrNull
    BY <1>2 DEF S!Storm
  <2>2. CASE t.unit = "percentage"
    BY <1>2, <2>1, <2>2 DEF S!StormClass
  <2>3. CASE t.unit # "percentage"
    BY <1>2, <2>1, <2>3 DEF S!StormClass
  <2> QED BY <2>2, <2>3
<1> QED BY <1>1, <1>2

\* A plan of a valid configuration gives every setting it enables a value.
Usable(q) == q.link.autoneg = (q.link.speed = Null)

\* The request for plan q, laid over old.
Asks(r, q, old) ==
    /\ r.setting = q.setting /\ r.native = S!OrElse(q.vlans.native, Empty)
    /\ r.mode = IF q.vlans.mode = "allow_all" THEN "auto" ELSE q.vlans.mode
    /\ r.excluded = S!Excluded(q.vlans)
    /\ r.lldpmed = q.voice.lldpmed /\ r.voice = S!OrElse(q.voice.network, Empty)
    /\ r.autoneg = q.link.autoneg
    /\ r.speed = S!OrElse(q.link.speed, old.speed)
    /\ r.duplex = q.link.duplex
    /\ r.limited = (q.egress # Null)
    /\ r.egress = S!OrElse(q.egress, old.egress)
    /\ r.debounceAuto = (q.debounce = Null)
    /\ r.debounce = S!OrElse(q.debounce, old.debounce)
    /\ r.macs = q.macs
    /\ r.unit = IF q.storm = Null THEN old.unit
                ELSE IF q.storm.unit = "percentage" THEN "level" ELSE "rate"
    /\ \A c \in Class : r.storm[c] = S!StormClass(q.storm, c, old.storm[c])
    /\ r.manual = TRUE

\* What a request sends, block by block.
LEMMA ProfileRequests ==
    ASSUME NEW q \in S!Model, Full(q), Usable(q), NEW old, Under(old)
    PROVE  LET r == S!Request(q, old)
           IN  r \in S!Profile /\ Enabled(r) /\ Asks(r, q, old)
<1> DEFINE r == S!Request(q, old)
           t == [c \in Class |-> S!StormClass(q.storm, c, old.storm[c])]
           u == IF q.storm = Null THEN old.unit
                ELSE IF q.storm.unit = "percentage" THEN "level" ELSE "rate"
           mode == IF q.vlans.mode = "allow_all" THEN "auto" ELSE q.vlans.mode
<1>1. /\ q.vlans \in S!Vlans /\ q.voice \in S!Voice /\ q.link \in S!Link
      /\ q.storm \in S!Storm \cup {Null}
      /\ q.setting \in [Setting -> {"usual", "other", Empty}]
      /\ q.macs \in SUBSET Value
      /\ q.egress \in S!AmountOrNull /\ q.debounce \in S!AmountOrNull \cup {Zero}
  BY DEF S!Model, Full, S!SetOrNull
<1>2. S!OrElse(q.vlans.native, Empty) \in Lan \cup {Empty}
      /\ S!OrElse(q.voice.network, Empty) \in Lan \cup {Empty}
  BY <1>1 DEF S!OrElse, S!Vlans, S!Voice, S!NetOrNull
<1>3. mode \in {"auto", "block_all", "custom"}
  BY <1>1 DEF Full, S!Vlans
<1>4. S!Excluded(q.vlans) \in SUBSET Lan
  BY <1>1 DEF S!Excluded, S!UsesTaggedList, S!Vlans, S!NetsOrNull
<1>5. q.voice.lldpmed \in BOOLEAN /\ q.link.autoneg \in BOOLEAN /\ q.link.duplex \in BOOLEAN
  BY <1>1 DEF Full, S!Voice, S!Link, S!Tristate
<1>6. /\ S!OrElse(q.link.speed, old.speed) \in S!AmountOrNull
      /\ S!OrElse(q.egress, old.egress) \in S!AmountOrNull
      /\ S!OrElse(q.debounce, old.debounce) \in S!AmountOrNull \cup {Zero}
  BY <1>1 DEF S!OrElse, Under, S!Link
<1>7. u \in {"level", "rate", Empty}
  BY DEF Under
<1>8. t \in Limits
  BY <1>1, StormRequest DEF Under, Limits, Full
<1>9. r = [setting |-> q.setting, native |-> S!OrElse(q.vlans.native, Empty), mode |-> mode,
           excluded |-> S!Excluded(q.vlans),
           lldpmed |-> q.voice.lldpmed, voice |-> S!OrElse(q.voice.network, Empty),
           autoneg |-> q.link.autoneg, speed |-> S!OrElse(q.link.speed, old.speed),
           duplex |-> q.link.duplex,
           limited |-> q.egress # Null, egress |-> S!OrElse(q.egress, old.egress),
           debounceAuto |-> q.debounce = Null, debounce |-> S!OrElse(q.debounce, old.debounce),
           macs |-> q.macs, unit |-> u, storm |-> t, manual |-> TRUE]
  BY DEF S!Request
<1>10. \A c \in Class : t[c] = S!StormClass(q.storm, c, old.storm[c])
  OBVIOUS
<1>11. \A c \in Class : t[c].on =>
          q.storm # Null /\ (IF q.storm.unit = "percentage" THEN t[c].level ELSE t[c].rate) # Null
  BY <1>1, <1>10, StormRequest DEF Under, Limits, Full
<1> HIDE DEF r, t, mode, u
<1>12. r \in S!Profile
  BY <1>1, <1>2, <1>3, <1>4, <1>5, <1>6, <1>7, <1>8, <1>9 DEF S!Profile, Limits
<1>13. /\ r.setting = q.setting /\ r.native = S!OrElse(q.vlans.native, Empty) /\ r.mode = mode
       /\ r.excluded = S!Excluded(q.vlans) /\ r.voice = S!OrElse(q.voice.network, Empty)
       /\ r.speed = S!OrElse(q.link.speed, old.speed)
       /\ r.egress = S!OrElse(q.egress, old.egress)
       /\ r.debounce = S!OrElse(q.debounce, old.debounce)
       /\ r.macs = q.macs /\ r.unit = u /\ r.storm = t
  BY <1>9
<1>14. r.lldpmed = q.voice.lldpmed
  BY <1>9
<1>15. r.autoneg = q.link.autoneg
  BY <1>9
<1>16. r.duplex = q.link.duplex
  BY <1>9
<1>17. r.limited = (q.egress # Null)
  BY <1>9
<1>18. r.debounceAuto = (q.debounce = Null)
  BY <1>9
<1>19. r.manual = TRUE
  BY <1>9
<1>20. ~r.autoneg => r.speed # Null
  BY <1>13, <1>15 DEF Usable, S!OrElse
<1>21. r.limited => r.egress # Null
  BY <1>13, <1>17 DEF S!OrElse
<1>22. ASSUME NEW c \in Class, r.storm[c].on
       PROVE  (IF r.unit = "rate" THEN r.storm[c].rate ELSE r.storm[c].level) # Null
  BY <1>11, <1>13, <1>22 DEF u
<1>23. Enabled(r)
  BY <1>20, <1>21, <1>22 DEF Enabled
<1>24. \A c \in Class : r.storm[c] = S!StormClass(q.storm, c, old.storm[c])
  BY <1>10, <1>13
<1>25. Asks(r, q, old)
  BY <1>13, <1>14, <1>15, <1>16, <1>17, <1>18, <1>19, <1>24 DEF u, mode, Asks
<1> QED BY <1>12, <1>23, <1>25 DEF r
\* What validation leaves of the plans there could be.
Valid(q) ==
    /\ Usable(q) /\ (q.link.autoneg => q.link.duplex = FALSE)
    /\ q.voice.network # Null => q.voice.lldpmed = TRUE
    /\ IF q.vlans.mode = "custom" THEN (q.vlans.tagged = Null) # (q.vlans.excluded = Null)
       ELSE q.vlans.tagged = Null /\ q.vlans.excluded = Null
    /\ q.vlans.tagged # {}
    /\ q.vlans.tagged # Null => q.vlans.native \notin q.vlans.tagged
    /\ q.storm # Null => \E c \in Class : q.storm.limit[c] # Null

\* What an accepted plan sends enables nothing without a value.
LEMMA ProfileValid ==
    ASSUME NEW m \in S!Model, S!Accepted(m)
    PROVE  Valid(S!Planned(m))
<1> DEFINE q == S!Planned(m)
<1>0. m.vlans \in S!Vlans /\ m.voice \in S!Voice /\ m.link \in S!Link
      /\ m.storm \in S!Storm \cup {Null}
  BY DEF S!Model
<1>1. /\ q.vlans = [m.vlans EXCEPT !.mode = S!OrElse(@, "allow_all")]
      /\ q.voice = [m.voice EXCEPT !.lldpmed = S!OrElse(@, TRUE)]
      /\ q.link = [m.link EXCEPT !.autoneg = S!OrElse(@, TRUE), !.duplex = S!OrElse(@, FALSE)]
      /\ q.storm = IF m.storm = Null THEN Null
                   ELSE [unit |-> S!OrElse(m.storm.unit, "percentage"), limit |-> m.storm.limit]
  BY ProfilePlanned
<1> HIDE DEF q
<1>2. q.vlans.native = m.vlans.native /\ q.vlans.mode = S!OrElse(m.vlans.mode, "allow_all")
      /\ q.vlans.tagged = m.vlans.tagged /\ q.vlans.excluded = m.vlans.excluded
  BY <1>0, <1>1, PlannedVlans
<1>3. q.voice.lldpmed = S!OrElse(m.voice.lldpmed, TRUE) /\ q.voice.network = m.voice.network
  BY <1>0, <1>1, PlannedVoice
<1>4. q.link.autoneg = S!OrElse(m.link.autoneg, TRUE) /\ q.link.speed = m.link.speed
      /\ q.link.duplex = S!OrElse(m.link.duplex, FALSE)
  BY <1>0, <1>1, PlannedLink
<1>5. q.link.autoneg = (q.link.speed = Null)
  BY <1>4 DEF S!Accepted, S!ValidLink
<1>6. q.link.autoneg => q.link.duplex = FALSE
  BY <1>0, <1>4 DEF S!Accepted, S!ValidLink, S!OrElse, S!Link, S!Tristate
<1>7. q.voice.network # Null => q.voice.lldpmed = TRUE
  BY <1>0, <1>3 DEF S!Accepted, S!ValidVoice, S!OrElse, S!Voice, S!Tristate
<1>8. IF q.vlans.mode = "custom" THEN (q.vlans.tagged = Null) # (q.vlans.excluded = Null)
      ELSE q.vlans.tagged = Null /\ q.vlans.excluded = Null
  BY <1>2, NoValue DEF S!Accepted, S!ValidVlans, S!OrElse
<1>9. q.vlans.tagged # {}
  BY <1>2 DEF S!Accepted, S!ValidVlans
<1>10. q.vlans.tagged # Null => q.vlans.native \notin q.vlans.tagged
  BY <1>2 DEF S!Accepted, S!ValidVlans
<1>11. q.storm # Null => \E c \in Class : q.storm.limit[c] # Null
  BY <1>1 DEF S!Accepted, S!ValidStorm
<1> QED BY <1>5, <1>6, <1>7, <1>8, <1>9, <1>10, <1>11 DEF Valid, Usable, q

\* So what is stored is a profile in which all that is enabled has a value.
LEMMA ProfileWritten ==
    ASSUME NEW m \in S!Model, S!Accepted(m), NEW old, Under(old)
    PROVE  LET o == S!Stored(S!Request(S!Planned(m), old))
           IN  o \in S!Profile /\ Settled(o)
<1> DEFINE q == S!Planned(m)
<1>1. q \in S!Model /\ Full(q) /\ Usable(q)
  BY ProfilePlanned, ProfileFull, ProfileValid DEF Valid
<1> HIDE DEF q
<1>2. S!Request(q, old) \in S!Profile /\ Enabled(S!Request(q, old))
  BY <1>1, ProfileRequests
<1> QED BY <1>2, ProfileStored DEF q

\* Something is left to tag, and the list of networks is the one that was planned.
LEMMA VlansRoundTrip ==
    ASSUME NEW v \in S!Vlans, v.mode # Null, v.tagged # {},
           IF v.mode = "custom" THEN (v.tagged = Null) # (v.excluded = Null)
           ELSE v.tagged = Null /\ v.excluded = Null,
           v.tagged # Null => v.native \notin v.tagged,
           v.excluded # Null => ~(Lan \subseteq v.excluded \cup {v.native}),
           NEW r \in S!Profile, r.native = S!OrElse(v.native, Empty),
           r.mode = (IF v.mode = "allow_all" THEN "auto" ELSE v.mode),
           r.excluded = S!Excluded(v)
    PROVE  S!Stored(r) = r /\ S!VlansOf(r, v) = v
<1>1. Null \notin Lan /\ Empty \notin Lan
  BY NoValue
<1>2. /\ v.native \in Lan \cup {Null} /\ v.tagged \in (SUBSET Lan) \cup {Null}
      /\ v.excluded \in (SUBSET Lan) \cup {Null}
      /\ v.mode \in {"allow_all", "block_all", "custom"}
  BY DEF S!Vlans, S!NetOrNull, S!NetsOrNull
<1>3. S!NullIfEmpty(r.native) = v.native
  BY <1>1, <1>2, Distinct DEF S!NullIfEmpty, S!OrElse
<1>4. CASE v.mode # "custom"
  <2>1. r.mode # "custom" /\ v.tagged = Null /\ v.excluded = Null
    BY <1>4
  <2>2. v.mode = IF r.mode = "auto" THEN "allow_all" ELSE r.mode
    BY <1>2, <1>4
  <2>3. S!VlansOf(r, v) = [native |-> v.native, mode |-> v.mode, tagged |-> v.tagged,
                            excluded |-> v.excluded]
    BY <2>1, <2>2, <1>3 DEF S!VlansOf
  <2> QED BY <2>1, <2>3 DEF S!Stored, S!Vlans
<1>5. CASE v.mode = "custom" /\ v.tagged # Null
  <2>1. v.excluded = Null /\ r.mode = "custom" /\ v.tagged \in SUBSET Lan
    BY <1>2, <1>5
  <2>2. S!UsesTaggedList(v)
    BY <1>5 DEF S!UsesTaggedList
  <2>3. r.excluded = Lan \ (v.tagged \cup {v.native})
    BY <1>5, <2>2 DEF S!Excluded
  <2>4. r.native = v.native \/ (v.native = Null /\ r.native = Empty)
    BY DEF S!OrElse
  <2>5. S!Carried(r) = v.tagged
    BY <1>1, <1>5, <2>1, <2>3, <2>4 DEF S!Carried
  <2>6. ~(Lan \subseteq r.excluded \cup {r.native})
    <3>1. PICK n \in v.tagged : TRUE
      BY <2>1
    <3>2. n \in Lan /\ n \notin r.excluded /\ n # r.native
      BY <3>1, <1>1, <1>5, <2>1, <2>3, <2>4
    <3> QED BY <3>2
  <2>7. S!VlansOf(r, v) = [native |-> v.native, mode |-> v.mode, tagged |-> v.tagged,
                            excluded |-> v.excluded]
    BY <2>1, <2>2, <2>5, <1>3, <1>5 DEF S!VlansOf
  <2> QED BY <2>6, <2>7 DEF S!Stored, S!Vlans
<1>6. CASE v.mode = "custom" /\ v.tagged = Null
  <2>1. v.excluded # Null /\ r.mode = "custom" /\ v.excluded \in SUBSET Lan
    BY <1>2, <1>6
  <2>2. ~S!UsesTaggedList(v)
    BY <1>6, <2>1 DEF S!UsesTaggedList
  <2>3. r.excluded = v.excluded
    BY <1>6, <2>2 DEF S!Excluded
  <2>4. r.native = v.native \/ (v.native = Null /\ r.native = Empty)
    BY DEF S!OrElse
  <2>5. ~(Lan \subseteq r.excluded \cup {r.native})
    BY <1>1, <2>1, <2>3, <2>4
  <2>6. S!VlansOf(r, v) = [native |-> v.native, mode |-> v.mode, tagged |-> v.tagged,
                            excluded |-> v.excluded]
    BY <2>1, <2>2, <2>3, <1>3, <1>6 DEF S!VlansOf
  <2> QED BY <2>5, <2>6 DEF S!Stored, S!Vlans
<1> QED BY <1>4, <1>5, <1>6

\* The limits that were asked for are the ones that are read.
LEMMA StormRoundTrip ==
    ASSUME NEW t \in S!Storm \cup {Null}, t # Null => t.unit # Null,
           t # Null => \E c \in Class : t.limit[c] # Null,
           NEW r \in S!Profile, NEW old, Under(old),
           t # Null => r.unit = IF t.unit = "percentage" THEN "level" ELSE "rate",
           \A c \in Class : r.storm[c] = S!StormClass(t, c, old.storm[c])
    PROVE  S!StormOf(r) = t
<1>1. ASSUME NEW c \in Class
      PROVE  /\ r.storm[c].on <=> t # Null /\ t.limit[c] # Null
             /\ t # Null /\ t.limit[c] # Null =>
                   t.limit[c] = IF t.unit = "percentage" THEN r.storm[c].level ELSE r.storm[c].rate
  <2>1. old.storm[c] \in [on : BOOLEAN, level : S!AmountOrNull, rate : S!AmountOrNull]
    BY DEF Under, Limits
  <2>2. r.storm[c] = S!StormClass(t, c, old.storm[c])
    OBVIOUS
  <2> QED BY <2>1, <2>2, StormRequest
<1>2. CASE t = Null
  <2>1. \A c \in Class : S!Threshold(r, c) = Null
    BY <1>1, <1>2 DEF S!Threshold
  <2> QED BY <2>1, <1>2 DEF S!StormOf
<1>3. CASE t # Null
  <2>1. t \in S!Storm /\ t.unit \in S!Unit
    BY <1>3 DEF S!Storm
  <2>2. \A c \in Class : S!Threshold(r, c) = t.limit[c]
    BY <1>1, <1>3 DEF S!Threshold
  <2>3. S!UnitOf(r) = t.unit
    BY <1>3, <2>1 DEF S!UnitOf, S!Unit
  <2>4. S!StormOf(r) = [unit |-> t.unit, limit |-> [c \in Class |-> t.limit[c]]]
    BY <1>3, <2>2, <2>3 DEF S!StormOf
  <2> QED BY <2>1, <2>4 DEF S!Storm
<1> QED BY <1>2, <1>3

\* What is stored for an expressible plan is read back as the plan.
LEMMA ProfileRoundTrip ==
    ASSUME NEW m \in S!Model, S!Accepted(m), S!Expressible(m), NEW old, Under(old)
    PROVE  LET q == S!Planned(m)
               a == S!ApiToModel(S!Stored(S!Request(q, old)), q.vlans)
           IN  a = q
<1> DEFINE q == S!Planned(m)
           r == S!Request(q, old)
           a == S!ApiToModel(r, q.vlans)
<1>1. q \in S!Model /\ Full(q) /\ Valid(q)
  BY ProfilePlanned, ProfileFull, ProfileValid
<1>2. q.vlans.excluded # Null => ~(Lan \subseteq q.vlans.excluded \cup {q.vlans.native})
  <2>1. m.vlans \in S!Vlans
    BY DEF S!Model
  <2>2. q.vlans = [m.vlans EXCEPT !.mode = S!OrElse(@, "allow_all")]
    BY ProfilePlanned
  <2> HIDE DEF q
  <2>3. q.vlans.native = m.vlans.native /\ q.vlans.excluded = m.vlans.excluded
    BY <2>1, <2>2, PlannedVlans
  <2> QED BY <2>3 DEF S!Expressible
<1> HIDE DEF q
<1>24. r \in S!Profile /\ Asks(r, q, old)
  BY <1>1, ProfileRequests DEF Valid
<1> HIDE DEF r
<1>3. /\ r \in S!Profile
      /\ r.setting = q.setting /\ r.native = S!OrElse(q.vlans.native, Empty)
      /\ r.mode = IF q.vlans.mode = "allow_all" THEN "auto" ELSE q.vlans.mode
      /\ r.excluded = S!Excluded(q.vlans) /\ r.voice = S!OrElse(q.voice.network, Empty)
      /\ r.speed = S!OrElse(q.link.speed, old.speed)
      /\ r.egress = S!OrElse(q.egress, old.egress)
      /\ r.debounce = S!OrElse(q.debounce, old.debounce)
      /\ r.macs = q.macs
      /\ r.unit = IF q.storm = Null THEN old.unit
                  ELSE IF q.storm.unit = "percentage" THEN "level" ELSE "rate"
      /\ \A c \in Class : r.storm[c] = S!StormClass(q.storm, c, old.storm[c])
  BY <1>24 DEF Asks
<1>4. r.lldpmed = q.voice.lldpmed
  BY <1>24 DEF Asks
<1>5. r.autoneg = q.link.autoneg
  BY <1>24 DEF Asks
<1>6. r.duplex = q.link.duplex
  BY <1>24 DEF Asks
<1>7. r.limited = (q.egress # Null)
  BY <1>24 DEF Asks
<1>8. r.debounceAuto = (q.debounce = Null)
  BY <1>24 DEF Asks
<1>9. S!Stored(r) = r /\ S!VlansOf(r, q.vlans) = q.vlans
  <2>1. q.vlans \in S!Vlans
    BY <1>1 DEF S!Model
  <2> QED BY <2>1, <1>1, <1>2, <1>3, VlansRoundTrip DEF Valid, Full
<1>10. S!StormOf(r) = q.storm
  BY <1>1, <1>3, StormRoundTrip DEF Valid, Full, S!Model
<1>11. /\ a \in S!Model
       /\ \A s \in Setting : a.setting[s] = IF r.setting[s] = Empty THEN "usual" ELSE r.setting[s]
       /\ a.vlans = q.vlans
       /\ a.voice.network = IF r.lldpmed THEN S!NullIfEmpty(r.voice) ELSE Null
       /\ a.link.speed = IF r.autoneg THEN Null ELSE r.speed
       /\ a.egress = IF r.limited THEN r.egress ELSE Null
       /\ a.debounce = IF r.debounceAuto THEN Null ELSE S!OrElse(r.debounce, Zero)
       /\ a.macs = r.macs /\ a.storm = q.storm
  BY <1>3, <1>9, <1>10, ProfileReads
<1>12. a.voice.lldpmed = r.lldpmed
  BY <1>3, ProfileReads
<1>13. a.link.autoneg = r.autoneg
  BY <1>3, ProfileReads
<1>14. a.link.duplex = (~r.autoneg /\ r.duplex)
  BY <1>3, ProfileReads
<1> HIDE DEF a
<1>15. \A s \in Setting : a.setting[s] = q.setting[s]
  <2>1. \A s \in Setting : q.setting[s] \in {"usual", "other", Null}
    BY <1>1 DEF S!Model
  <2>2. Empty \notin {"usual", "other", Null}
    BY NoValue, Distinct
  <2> QED BY <1>3, <1>11, <2>1, <2>2
<1>16. a.voice.lldpmed = q.voice.lldpmed
  BY <1>4, <1>12
<1>17. a.voice.network = q.voice.network
  <2>1. q.voice.lldpmed \in BOOLEAN /\ q.voice.network \in Lan \cup {Null}
    BY <1>1 DEF S!Model, S!Voice, S!Tristate, S!NetOrNull, Full
  <2>2. a.voice.network = IF q.voice.lldpmed THEN S!NullIfEmpty(r.voice) ELSE Null
    BY <1>4, <1>11
  <2>3. S!NullIfEmpty(r.voice) = q.voice.network
    BY <2>1, <1>3, Distinct, NoValue DEF S!NullIfEmpty, S!OrElse
  <2>4. ~q.voice.lldpmed => q.voice.network = Null
    BY <1>1 DEF Valid
  <2> QED BY <2>2, <2>3, <2>4
<1>18. a.link.autoneg = q.link.autoneg
  BY <1>5, <1>13
<1>19. a.link.speed = q.link.speed
  <2>1. a.link.speed = IF q.link.autoneg THEN Null ELSE r.speed
    BY <1>5, <1>11
  <2>2. q.link.autoneg = (q.link.speed = Null)
    BY <1>1 DEF Valid, Usable
  <2> QED BY <2>1, <2>2, <1>3 DEF S!OrElse
<1>20. a.link.duplex = q.link.duplex
  <2>1. a.link.duplex = (~q.link.autoneg /\ q.link.duplex)
    BY <1>5, <1>6, <1>14
  <2>2. q.link.duplex \in BOOLEAN /\ (q.link.autoneg => q.link.duplex = FALSE)
    BY <1>1 DEF S!Model, S!Link, S!Tristate, Full, Valid
  <2> QED BY <2>1, <2>2
<1>21. a.egress = q.egress
  BY <1>3, <1>7, <1>11 DEF S!OrElse
<1>22. a.debounce = q.debounce
  BY <1>3, <1>8, <1>11 DEF S!OrElse
<1>23. a = q
  BY <1>1, <1>3, <1>11, <1>15, <1>16, <1>17, <1>18, <1>19, <1>20, <1>21, <1>22, SameProfile
<1> QED BY <1>9, <1>23 DEF q, r, a
\* A storm limit that is on has a threshold, so what is read says which are on.
LEMMA ThresholdsShow ==
    ASSUME NEW p \in S!Profile, Settled(p), NEW c \in Class
    PROVE  p.storm[c].on <=> S!Threshold(p, c) # Null
BY DEF S!Threshold, Settled

\* The thresholds a profile shows would be sent as they are.
LEMMA StormKept ==
    ASSUME NEW p \in S!Profile, Settled(p), NEW r \in S!Profile, NEW t, t = S!StormOf(p),
           r.unit = IF t = Null THEN p.unit
                    ELSE IF t.unit = "percentage" THEN "level" ELSE "rate",
           \A c \in Class : r.storm[c] = S!StormClass(t, c, p.storm[c])
    PROVE  [c \in {x \in Class : p.storm[x].on} |->
              IF p.unit = "rate" THEN <<"rate", p.storm[c].rate>> ELSE <<"level", p.storm[c].level>>]
         = [c \in {x \in Class : r.storm[x].on} |->
              IF r.unit = "rate" THEN <<"rate", r.storm[c].rate>> ELSE <<"level", r.storm[c].level>>]
<1>0. /\ t \in S!Storm \cup {Null}
      /\ t # Null => /\ t.unit = S!UnitOf(p) /\ t.unit # Null
                     /\ \A c \in Class : t.limit[c] = S!Threshold(p, c)
      /\ t = Null => \A c \in Class : S!Threshold(p, c) = Null
  BY ProfileStorm, NoValue DEF S!UnitOf
<1>1. ASSUME NEW c \in Class
      PROVE  /\ r.storm[c].on <=> t # Null /\ t.limit[c] # Null
             /\ t # Null /\ t.limit[c] # Null =>
                   t.limit[c] = IF t.unit = "percentage" THEN r.storm[c].level ELSE r.storm[c].rate
  <2>1. p.storm[c] \in [on : BOOLEAN, level : S!AmountOrNull, rate : S!AmountOrNull]
    BY DEF S!Profile
  <2>2. r.storm[c] = S!StormClass(t, c, p.storm[c])
    OBVIOUS
  <2> QED BY <1>0, <2>1, <2>2, StormRequest
<1>2. \A c \in Class : r.storm[c].on <=> p.storm[c].on
  BY <1>0, <1>1, ThresholdsShow
<1>3. {x \in Class : p.storm[x].on} = {x \in Class : r.storm[x].on}
  BY <1>2
<1>4. ASSUME NEW c \in {x \in Class : p.storm[x].on}
      PROVE  (IF p.unit = "rate" THEN <<"rate", p.storm[c].rate>> ELSE <<"level", p.storm[c].level>>)
           = (IF r.unit = "rate" THEN <<"rate", r.storm[c].rate>> ELSE <<"level", r.storm[c].level>>)
  <2>1. t # Null /\ t.limit[c] = S!Threshold(p, c) /\ S!Threshold(p, c) # Null
    BY <1>0, ThresholdsShow
  <2>2. S!Threshold(p, c) = IF t.unit = "percentage" THEN r.storm[c].level ELSE r.storm[c].rate
    BY <1>1, <2>1
  <2>3. S!Threshold(p, c) = IF p.unit = "rate" THEN p.storm[c].rate ELSE p.storm[c].level
    BY DEF S!Threshold
  <2>4. t.unit = "percentage" <=> p.unit # "rate"
    BY <1>0, <2>1 DEF S!UnitOf
  <2>5. r.unit = "rate" <=> p.unit = "rate"
    BY <2>1, <2>4
  <2> QED BY <2>2, <2>3, <2>4, <2>5
<1> QED BY <1>3, <1>4

\* The networks a profile carries are the ones that are asked for.
LEMMA VlansKept ==
    ASSUME NEW p \in S!Profile, NEW v, NEW w, w = S!VlansOf(p, v), NEW r \in S!Profile,
           r.native = S!OrElse(w.native, Empty),
           r.mode = (IF w.mode = "allow_all" THEN "auto" ELSE w.mode),
           r.excluded = S!Excluded(w)
    PROVE  /\ r.native = p.native /\ r.mode = p.mode
           /\ p.mode = "custom" => S!Carried(r) = S!Carried(p)
<1>1. Null \notin Lan /\ Empty \notin Lan
  BY NoValue
<1>2. /\ w.native = S!NullIfEmpty(p.native)
      /\ w.mode = IF p.mode = "auto" THEN "allow_all" ELSE p.mode
      /\ w.tagged = IF p.mode = "custom" /\ S!UsesTaggedList(v) THEN S!Carried(p) ELSE Null
      /\ w.excluded = IF p.mode = "custom" /\ ~S!UsesTaggedList(v) THEN p.excluded ELSE Null
  BY ProfileVlans
<1>3. p.native \in Lan \cup {Empty} /\ p.mode \in {"auto", "block_all", "custom"}
      /\ p.excluded \in SUBSET Lan
  BY DEF S!Profile
<1>4. r.native = p.native
  BY <1>1, <1>2, <1>3, Distinct DEF S!OrElse, S!NullIfEmpty
<1>5. r.mode = p.mode
  BY <1>2, <1>3
<1>6. ASSUME p.mode = "custom" PROVE S!Carried(r) = S!Carried(p)
  <2>1. CASE S!UsesTaggedList(v)
    <3>1. w.excluded = Null /\ w.tagged = S!Carried(p) /\ w.mode = "custom"
      BY <1>2, <1>6, <2>1
    <3>2. r.excluded = Lan \ (S!Carried(p) \cup {w.native})
      BY <3>1 DEF S!Excluded, S!UsesTaggedList
    <3>3. w.native = p.native \/ w.native \notin Lan
      BY <1>1, <1>2 DEF S!NullIfEmpty
    <3> QED BY <3>2, <3>3, <1>3, <1>4 DEF S!Carried
  <2>2. CASE ~S!UsesTaggedList(v)
    <3>1. w.excluded = p.excluded /\ w.tagged = Null /\ w.mode = "custom"
      BY <1>2, <1>6, <2>2
    <3>2. p.excluded # Null
      BY <1>3, NoList
    <3>3. r.excluded = p.excluded
      BY <3>1, <3>2 DEF S!Excluded, S!UsesTaggedList
    <3> QED BY <3>3, <1>4 DEF S!Carried
  <2> QED BY <2>1, <2>2
<1> QED BY <1>4, <1>5, <1>6

\* What is shown of a profile asks for it as it is.
LEMMA ProfileInForce ==
    ASSUME NEW p \in S!Profile, Settled(p), S!Shown(p), NEW v
    PROVE  S!InForce(p, S!ApiToModel(p, v))
<1> DEFINE q == S!ApiToModel(p, v)
           r == S!Request(q, p)
<1>0. q \in S!Model /\ Full(q)
  BY ProfileRead
<1>1. /\ \A s \in Setting : q.setting[s] = IF p.setting[s] = Empty THEN "usual" ELSE p.setting[s]
      /\ q.vlans = S!VlansOf(p, v)
      /\ q.voice.network = IF p.lldpmed THEN S!NullIfEmpty(p.voice) ELSE Null
      /\ q.link.speed = IF p.autoneg THEN Null ELSE p.speed
      /\ q.egress = IF p.limited THEN p.egress ELSE Null
      /\ q.debounce = IF p.debounceAuto THEN Null ELSE S!OrElse(p.debounce, Zero)
      /\ q.macs = p.macs /\ q.storm = S!StormOf(p)
  BY ProfileReads
<1>2. q.voice.lldpmed = p.lldpmed
  BY ProfileReads
<1>3. q.link.autoneg = p.autoneg
  BY ProfileReads
<1>4. q.link.duplex = (~p.autoneg /\ p.duplex)
  BY ProfileReads
<1> HIDE DEF q
<1>5. Usable(q)
  <2>1. p.autoneg = (q.link.speed = Null)
    BY <1>1 DEF Settled, S!Profile
  <2> QED BY <2>1, <1>3 DEF Usable
<1>6. r \in S!Profile /\ Asks(r, q, p)
  BY <1>0, <1>5, ProfileUnder, ProfileRequests
<1> HIDE DEF r
<1>7. r.native = p.native /\ r.mode = p.mode /\ (p.mode = "custom" => S!Carried(r) = S!Carried(p))
  BY <1>1, <1>6, VlansKept DEF Asks
<1>8. [s \in Setting |-> IF p.setting[s] = Empty THEN "usual" ELSE p.setting[s]]
    = [s \in Setting |-> IF r.setting[s] = Empty THEN "usual" ELSE r.setting[s]]
  <2>1. \A s \in Setting : r.setting[s] = IF p.setting[s] = Empty THEN "usual" ELSE p.setting[s]
    BY <1>1, <1>6 DEF Asks
  <2> QED BY <2>1
<1>9. r.lldpmed = p.lldpmed
  BY <1>2, <1>6 DEF Asks
<1>10. (IF p.lldpmed THEN <<p.voice>> ELSE <<>>) = (IF r.lldpmed THEN <<r.voice>> ELSE <<>>)
  <2>1. p.lldpmed => r.voice = p.voice
    BY <1>1, <1>6, Distinct, NoValue DEF Asks, S!OrElse, S!NullIfEmpty, S!Profile
  <2> QED BY <2>1, <1>9
<1>11. r.autoneg = p.autoneg
  BY <1>3, <1>6 DEF Asks
<1>12. (IF p.autoneg THEN <<>> ELSE <<p.speed, p.duplex>>)
     = (IF r.autoneg THEN <<>> ELSE <<r.speed, r.duplex>>)
  <2>1. ~p.autoneg => r.speed = p.speed
    BY <1>1, <1>6 DEF Asks, S!OrElse
  <2>2. r.duplex = (~p.autoneg /\ p.duplex)
    BY <1>4, <1>6 DEF Asks
  <2>3. ~p.autoneg => r.duplex = p.duplex
    BY <2>2 DEF S!Profile
  <2> QED BY <2>1, <2>3, <1>11
<1>13. (IF p.limited THEN <<p.egress>> ELSE <<>>) = (IF r.limited THEN <<r.egress>> ELSE <<>>)
  <2>1. r.limited = (q.egress # Null)
    BY <1>6 DEF Asks
  <2>2. q.egress # Null <=> p.limited
    BY <1>1 DEF Settled
  <2>3. p.limited => r.egress = p.egress
    BY <1>1, <1>6 DEF Asks, S!OrElse
  <2> QED BY <2>1, <2>2, <2>3
<1>14. (IF p.debounceAuto THEN <<>> ELSE <<S!OrElse(p.debounce, Zero)>>)
     = (IF r.debounceAuto THEN <<>> ELSE <<S!OrElse(r.debounce, Zero)>>)
  <2>1. r.debounceAuto = (q.debounce = Null)
    BY <1>6 DEF Asks
  <2>2. q.debounce = Null <=> p.debounceAuto
    BY <1>1, Distinct DEF S!OrElse
  <2>3. ~p.debounceAuto => r.debounce = S!OrElse(p.debounce, Zero)
    BY <1>1, <1>6, <2>2 DEF Asks, S!OrElse
  <2>4. S!OrElse(S!OrElse(p.debounce, Zero), Zero) = S!OrElse(p.debounce, Zero)
    BY DEF S!OrElse
  <2> QED BY <2>1, <2>2, <2>3, <2>4
<1>15. r.macs = p.macs
  BY <1>1, <1>6 DEF Asks
<1>16. r.manual = p.manual
  BY <1>6 DEF Asks, S!Shown, S!Profile
<1>17. [c \in {x \in Class : p.storm[x].on} |->
          IF p.unit = "rate" THEN <<"rate", p.storm[c].rate>> ELSE <<"level", p.storm[c].level>>]
     = [c \in {x \in Class : r.storm[x].on} |->
          IF r.unit = "rate" THEN <<"rate", r.storm[c].rate>> ELSE <<"level", r.storm[c].level>>]
  <2>1. r.unit = IF q.storm = Null THEN p.unit
                 ELSE IF q.storm.unit = "percentage" THEN "level" ELSE "rate"
    BY <1>6 DEF Asks
  <2>2. \A c \in Class : r.storm[c] = S!StormClass(q.storm, c, p.storm[c])
    BY <1>6 DEF Asks
  <2>3. q.storm = S!StormOf(p)
    BY <1>1
  <2> QED BY <2>1, <2>2, <2>3, <1>6, StormKept
<1>18. (CASE p.mode = "auto" -> Lan \ {p.native} [] p.mode = "block_all" -> {}
          [] p.mode = "custom" -> S!Carried(p))
     = (CASE r.mode = "auto" -> Lan \ {r.native} [] r.mode = "block_all" -> {}
          [] r.mode = "custom" -> S!Carried(r))
  BY <1>7 DEF S!Profile
<1>19. S!Effect(p) = S!Effect(r)
  BY <1>7, <1>8, <1>10, <1>12, <1>13, <1>14, <1>15, <1>16, <1>17, <1>18 DEF S!Effect
<1> QED BY <1>19 DEF S!InForce, r, q
\* What is left out of the generated block is a default.
LEMMA ProfileGenerates ==
    ASSUME NEW p \in S!Profile
    PROVE  LET a == S!ApiToModel(p, S!Blank.vlans)
               g == S!Generate(p)
               unless(x, default) == IF x = default THEN Null ELSE x
           IN  /\ g \in S!Model
               /\ \A s \in Setting : g.setting[s] = unless(a.setting[s], "usual")
               /\ g.vlans = [a.vlans EXCEPT !.mode = unless(@, "allow_all")]
               /\ g.voice = [a.voice EXCEPT !.lldpmed = unless(@, TRUE)]
               /\ g.link = [a.link EXCEPT !.autoneg = unless(@, TRUE), !.duplex = unless(@, FALSE)]
               /\ g.egress = a.egress /\ g.debounce = a.debounce
               /\ g.macs = unless(a.macs, {})
               /\ g.storm = IF a.storm = Null THEN Null
                            ELSE [unit |-> unless(a.storm.unit, "percentage"), limit |-> a.storm.limit]
<1> DEFINE a == S!ApiToModel(p, S!Blank.vlans)
           g == S!Generate(p)
           unless(x, default) == IF x = default THEN Null ELSE x
           u == [s \in Setting |-> unless(a.setting[s], "usual")]
           v == [a.vlans EXCEPT !.mode = unless(@, "allow_all")]
           o == [a.voice EXCEPT !.lldpmed = unless(@, TRUE)]
           l == [a.link EXCEPT !.autoneg = unless(@, TRUE), !.duplex = unless(@, FALSE)]
           e == unless(a.macs, {})
           t == IF a.storm = Null THEN Null
                ELSE [unit |-> unless(a.storm.unit, "percentage"), limit |-> a.storm.limit]
<1>0. a \in S!Model
  BY ProfileRead
<1>1. g = [a EXCEPT !.setting = [s \in Setting |-> unless(@[s], "usual")],
                    !.vlans.mode = unless(@, "allow_all"), !.voice.lldpmed = unless(@, TRUE),
                    !.link.autoneg = unless(@, TRUE), !.link.duplex = unless(@, FALSE),
                    !.macs = unless(@, {}),
                    !.storm = IF @ = Null THEN Null
                              ELSE [unit |-> unless(@.unit, "percentage"), limit |-> @.limit]]
  BY DEF S!Generate
<1> HIDE DEF a, g
<1>2. a.vlans \in S!Vlans /\ a.voice \in S!Voice /\ a.link \in S!Link
      /\ a.storm \in S!Storm \cup {Null} /\ a.macs \in S!SetOrNull
      /\ a.setting \in [Setting -> {"usual", "other", Null}]
  BY <1>0 DEF S!Model
<1>3. u \in [Setting -> {"usual", "other", Null}]
  BY <1>2
<1>4. v \in S!Vlans
  BY <1>2 DEF S!Vlans
<1>5. o \in S!Voice
  BY <1>2 DEF S!Voice, S!Tristate
<1>6. l \in S!Link
  BY <1>2 DEF S!Link, S!Tristate
<1>7. e \in S!SetOrNull
  BY <1>2 DEF S!SetOrNull
<1>8. t \in S!Storm \cup {Null}
  BY <1>2 DEF S!Storm
<1>9. g.setting = u /\ g.macs = e /\ g.egress = a.egress /\ g.debounce = a.debounce
  BY <1>0, <1>1 DEF S!Model
<1>10. g.vlans = v
  BY <1>0, <1>1 DEF S!Model
<1>11. g.voice = o
  BY <1>0, <1>1 DEF S!Model
<1>12. g.link = l
  BY <1>0, <1>1 DEF S!Model
<1>13. g.storm = t
  BY <1>0, <1>1 DEF S!Model
<1>14. DOMAIN g = DOMAIN a /\ g = [f \in DOMAIN g |-> g[f]]
  BY <1>1
<1>15. DOMAIN a = {"setting", "vlans", "voice", "link", "egress", "debounce", "macs", "storm"}
  BY <1>0 DEF S!Model
<1>16. \A s \in Setting : u[s] = unless(a.setting[s], "usual")
  OBVIOUS
<1> HIDE DEF u, v, o, l, e, t
<1>17. g \in S!Model
  BY <1>0, <1>3, <1>4, <1>5, <1>6, <1>7, <1>8, <1>9, <1>10, <1>11, <1>12, <1>13, <1>14, <1>15
     DEF S!Model
<1> QED BY <1>9, <1>10, <1>11, <1>12, <1>13, <1>16, <1>17 DEF a, g, v, o, l, e, t

\* What is generated for a profile plans what is read of it.
LEMMA ProfileGenerated ==
    ASSUME NEW p \in S!Profile, Settled(p), S!Restorable(p)
    PROVE  /\ S!Accepted(S!Generate(p))
           /\ S!Planned(S!Generate(p)) = S!ApiToModel(p, S!Blank.vlans)
<1> DEFINE a == S!ApiToModel(p, S!Blank.vlans)
           g == S!Generate(p)
           q == S!Planned(g)
           unless(x, default) == IF x = default THEN Null ELSE x
<1>0. /\ g \in S!Model
      /\ \A s \in Setting : g.setting[s] = unless(a.setting[s], "usual")
      /\ g.vlans = [a.vlans EXCEPT !.mode = unless(@, "allow_all")]
      /\ g.voice = [a.voice EXCEPT !.lldpmed = unless(@, TRUE)]
      /\ g.link = [a.link EXCEPT !.autoneg = unless(@, TRUE), !.duplex = unless(@, FALSE)]
      /\ g.egress = a.egress /\ g.debounce = a.debounce
      /\ g.macs = unless(a.macs, {})
      /\ g.storm = IF a.storm = Null THEN Null
                   ELSE [unit |-> unless(a.storm.unit, "percentage"), limit |-> a.storm.limit]
  BY ProfileGenerates
<1>1. a \in S!Model /\ Full(a)
  BY ProfileRead
<1>2. /\ a.vlans = S!VlansOf(p, S!Blank.vlans)
      /\ a.voice.network = IF p.lldpmed THEN S!NullIfEmpty(p.voice) ELSE Null
      /\ a.link.speed = IF p.autoneg THEN Null ELSE p.speed
      /\ a.storm = S!StormOf(p)
  BY ProfileReads
<1>3. a.voice.lldpmed = p.lldpmed
  BY ProfileReads
<1>4. a.link.autoneg = p.autoneg
  BY ProfileReads
<1>5. a.link.duplex = (~p.autoneg /\ p.duplex)
  BY ProfileReads
<1> HIDE DEF a, g
<1>6. a.vlans \in S!Vlans /\ a.voice \in S!Voice /\ a.link \in S!Link
      /\ a.storm \in S!Storm \cup {Null}
  BY <1>1 DEF S!Model
<1>7. g.vlans.native = a.vlans.native /\ g.vlans.mode = unless(a.vlans.mode, "allow_all")
      /\ g.vlans.tagged = a.vlans.tagged /\ g.vlans.excluded = a.vlans.excluded
  BY <1>0, <1>6 DEF S!Vlans
<1>8. g.voice.lldpmed = unless(a.voice.lldpmed, TRUE) /\ g.voice.network = a.voice.network
  BY <1>0, <1>6 DEF S!Voice
<1>9. g.link.autoneg = unless(a.link.autoneg, TRUE) /\ g.link.speed = a.link.speed
      /\ g.link.duplex = unless(a.link.duplex, FALSE)
  BY <1>0, <1>6 DEF S!Link
<1>10. q = a
  <2>1. /\ q \in S!Model
        /\ \A s \in Setting : q.setting[s] = S!OrElse(g.setting[s], "usual")
        /\ q.vlans = [g.vlans EXCEPT !.mode = S!OrElse(@, "allow_all")]
        /\ q.voice = [g.voice EXCEPT !.lldpmed = S!OrElse(@, TRUE)]
        /\ q.link = [g.link EXCEPT !.autoneg = S!OrElse(@, TRUE), !.duplex = S!OrElse(@, FALSE)]
        /\ q.egress = g.egress /\ q.debounce = g.debounce
        /\ q.macs = S!OrElse(g.macs, {})
        /\ q.storm = IF g.storm = Null THEN Null
                     ELSE [unit |-> S!OrElse(g.storm.unit, "percentage"), limit |-> g.storm.limit]
    BY <1>0, ProfilePlanned
  <2> HIDE DEF q
  <2>2. g.vlans \in S!Vlans /\ g.voice \in S!Voice /\ g.link \in S!Link
    BY <1>0 DEF S!Model
  <2>3. \A s \in Setting : q.setting[s] = a.setting[s]
    BY <1>0, <1>1, <2>1 DEF S!OrElse, Full
  <2>4. q.vlans.native = a.vlans.native /\ q.vlans.mode = a.vlans.mode
        /\ q.vlans.tagged = a.vlans.tagged /\ q.vlans.excluded = a.vlans.excluded
    BY <1>1, <1>7, <2>1, <2>2, PlannedVlans DEF S!OrElse, Full
  <2>5. q.voice.lldpmed = a.voice.lldpmed /\ q.voice.network = a.voice.network
    BY <1>1, <1>8, <2>1, <2>2, PlannedVoice DEF S!OrElse, Full
  <2>6. q.link.autoneg = a.link.autoneg /\ q.link.speed = a.link.speed
        /\ q.link.duplex = a.link.duplex
    BY <1>1, <1>9, <2>1, <2>2, PlannedLink DEF S!OrElse, Full
  <2>7. q.macs = a.macs /\ q.egress = a.egress /\ q.debounce = a.debounce
    BY <1>0, <1>1, <2>1 DEF S!OrElse, Full
  <2>8. q.storm = a.storm
    <3>1. CASE a.storm = Null
      BY <3>1, <1>0, <2>1
    <3>2. CASE a.storm # Null
      <4>1. g.storm # Null
        <5>1. a.storm \in S!Storm
          BY <3>2, <1>6
        <5>2. [unit |-> unless(a.storm.unit, "percentage"), limit |-> a.storm.limit] \in S!Storm
          BY <5>1 DEF S!Storm
        <5> QED BY <3>2, <5>2, <1>0, NoList
      <4>2. q.storm = [unit |-> a.storm.unit, limit |-> a.storm.limit]
        BY <3>2, <4>1, <1>0, <1>1, <2>1 DEF S!OrElse, Full
      <4> QED BY <3>2, <4>2, <1>6 DEF S!Storm
    <3> QED BY <3>1, <3>2
  <2> QED BY <1>1, <2>1, <2>3, <2>4, <2>5, <2>6, <2>7, <2>8, SameProfile
<1>11. /\ a.vlans.native = S!NullIfEmpty(p.native)
       /\ a.vlans.mode = IF p.mode = "auto" THEN "allow_all" ELSE p.mode
       /\ a.vlans.tagged = IF p.mode = "custom" THEN S!Carried(p) ELSE Null
       /\ a.vlans.excluded = Null
  <2>1. S!UsesTaggedList(S!Blank.vlans)
    BY DEF S!UsesTaggedList, S!Blank
  <2> QED BY <2>1, <1>2, ProfileVlans
<1>12. p.mode \in {"auto", "block_all", "custom"} /\ p.native \in Lan \cup {Empty}
       /\ S!Carried(p) \in SUBSET Lan
  BY DEF S!Profile, S!Carried
<1>13. g.vlans.mode = "custom" <=> p.mode = "custom"
  BY <1>7, <1>11, <1>12, NoValue
<1>14. g.vlans.native \notin S!Carried(p)
  BY <1>7, <1>11, <1>12, NoValue DEF S!Carried, S!NullIfEmpty
<1>15. S!ValidVlans(g)
  <2>1. CASE p.mode = "custom"
    <3>1. g.vlans.tagged = S!Carried(p) /\ g.vlans.excluded = Null
      BY <1>7, <1>11, <2>1
    <3>2. S!Carried(p) # Null /\ S!Carried(p) # {}
      BY <1>12, <2>1, NoList DEF Settled, S!Carried
    <3> QED BY <1>13, <1>14, <2>1, <3>1, <3>2 DEF S!ValidVlans
  <2>2. CASE p.mode # "custom"
    <3>1. g.vlans.tagged = Null /\ g.vlans.excluded = Null /\ Null # {}
      BY <1>7, <1>11, <2>2, NoList
    <3> QED BY <1>13, <2>2, <3>1 DEF S!ValidVlans
  <2> QED BY <2>1, <2>2
<1>16. S!ValidVoice(g)
  <2>1. SUFFICES ASSUME g.voice.network # Null
                 PROVE  /\ g.voice.lldpmed # FALSE /\ g.vlans.mode # "block_all"
                        /\ g.vlans.tagged # Null => g.voice.network \in g.vlans.tagged
                        /\ g.vlans.excluded # Null => g.voice.network \notin g.vlans.excluded
    BY DEF S!ValidVoice
  <2>2. p.lldpmed = TRUE /\ p.voice # Empty /\ g.voice.network = p.voice
    BY <1>2, <1>8, <2>1 DEF S!NullIfEmpty, S!Profile
  <2>3. g.voice.lldpmed # FALSE
    BY <1>3, <1>8, <2>2, NoValue
  <2>4. p.voice \in S!Effect(p).tagged
    BY <2>2 DEF S!Restorable
  <2>5. S!Effect(p).tagged = CASE p.mode = "auto" -> Lan \ {p.native} [] p.mode = "block_all" -> {}
                               [] p.mode = "custom" -> S!Carried(p)
    BY DEF S!Effect
  <2>6. p.mode # "block_all" /\ (p.mode = "custom" => p.voice \in S!Carried(p))
    BY <2>4, <2>5, <1>12
  <2>7. g.vlans.mode # "block_all"
    BY <2>6, <1>7, <1>11, <1>12, NoValue
  <2>8. g.vlans.tagged # Null => g.voice.network \in g.vlans.tagged
    BY <2>2, <2>6, <1>7, <1>11
  <2>9. g.vlans.excluded = Null
    BY <1>7, <1>11
  <2> QED BY <2>3, <2>7, <2>8, <2>9
<1>17. S!ValidLink(g)
  <2>1. p.autoneg \in BOOLEAN
    BY DEF S!Profile
  <2>2. S!OrElse(g.link.autoneg, TRUE) = p.autoneg
    <3>1. CASE p.autoneg = TRUE
      BY <3>1, <1>4, <1>9 DEF S!OrElse
    <3>2. CASE p.autoneg = FALSE
      BY <3>2, <1>4, <1>9, NoValue DEF S!OrElse
    <3> QED BY <2>1, <3>1, <3>2
  <2>3. p.autoneg = (g.link.speed = Null)
    BY <2>1, <1>2, <1>9 DEF Settled
  <2>4. p.autoneg => g.link.duplex # TRUE
    BY <1>5, <1>9, NoValue
  <2> QED BY <2>2, <2>3, <2>4 DEF S!ValidLink
<1>18. S!ValidStorm(g)
  <2>1. a.storm # Null => \E c \in Class : a.storm.limit[c] # Null
    BY <1>2, ProfileStorm
  <2>2. g.storm # Null => a.storm # Null /\ g.storm.limit = a.storm.limit
    BY <1>0
  <2> QED BY <2>1, <2>2 DEF S!ValidStorm
<1>19. S!Accepted(g)
  BY <1>15, <1>16, <1>17, <1>18 DEF S!Accepted
<1> QED BY <1>10, <1>19 DEF q, g, a

(***************************************************************************)
(* What a step needs to know of the conversions, whatever the kind.        *)
(***************************************************************************)

\* A blank configuration and every edit of it.
LEMMA BlankFits == kind \in Kind => Blank(kind) \in Configs
<1>1. kind = "dns_record" => Blank(kind) \in Configs
  BY RecordFits DEF Blank, Configs, Model, Known
<1>2. kind = "firewall_group" => Blank(kind) \in Configs
  BY GroupFits DEF Blank, Configs, Model, Known
<1>3. kind = "network" => Blank(kind) \in Configs
  BY NetBlank DEF Blank, Configs, Model, Known, KnownNet
<1>4. kind = "firewall_policy" => Blank(kind) \in Configs
  BY PolicyBlank DEF Blank, Configs, Model, Known
<1>5. kind = "wlan" => Blank(kind) \in Configs
  BY WlanBlank DEF Blank, Configs, Model, Known
<1>6. kind = "port_profile" => Blank(kind) \in Configs
  BY ProfileBlank DEF Blank, Configs, Model, Known
<1> QED BY <1>1, <1>2, <1>3, <1>4, <1>5, <1>6 DEF Kind

LEMMA EditsFit == kind \in Kind /\ config \in Configs => Edits \subseteq Configs
<1> SUFFICES ASSUME kind \in Kind, config \in Configs, NEW x \in Edits PROVE x \in Configs
  OBVIOUS
<1>1. kind = "dns_record" => x \in Configs
  BY RecordFits DEF Edits, Configs, Model, Known
<1>2. kind = "firewall_group" => x \in Configs
  BY GroupFits DEF Edits, Configs, Model, Known
<1>3. kind = "network" => x \in Configs
  BY NetEdits DEF Edits, Configs, Model, Known, KnownNet
<1>4. kind = "firewall_policy" => x \in Configs
  BY PolicyEdits DEF Edits, Configs, Model, Known
<1>5. kind = "wlan" => x \in Configs
  BY WlanEdits DEF Edits, Configs, Model, Known
<1>6. kind = "port_profile" => x \in Configs
  BY ProfileEdits DEF Edits, Configs, Model, Known
<1> QED BY <1>1, <1>2, <1>3, <1>4, <1>5, <1>6 DEF Kind

\* Other people's edits.
LEMMA OutsideEditsFit == kind \in Kind /\ object \in Objects => OutsideEdits \subseteq Objects
<1> SUFFICES ASSUME kind \in Kind, object \in Objects, NEW x \in OutsideEdits PROVE x \in Objects
  OBVIOUS
<1>1. kind = "dns_record" => x \in Objects
  BY RecordFits DEF OutsideEdits, Objects, Object, SettledObject
<1>2. kind = "firewall_group" => x \in Objects
  BY GroupFits DEF OutsideEdits, Objects, Object, SettledObject
<1>3. kind = "network" => x \in Objects
  BY NetOutsideEdits DEF OutsideEdits, Objects, Object, SettledObject
<1>4. kind = "firewall_policy" => x \in Objects
  BY PolicyOutsideEdits DEF OutsideEdits, Objects, Object, SettledObject
<1>5. kind = "wlan" => x \in Objects
  BY WlanOutsideEdits DEF OutsideEdits, Objects, Object, SettledObject
<1>6. kind = "port_profile" => x \in Objects
  BY ProfileOutsideEdits DEF OutsideEdits, Objects, Object, SettledObject
<1> QED BY <1>1, <1>2, <1>3, <1>4, <1>5, <1>6 DEF Kind

\* A read.
LEMMA ReadFits ==
    ASSUME kind \in Kind, NEW o \in Objects, NEW st \in States \cup {Untracked}
    PROVE  /\ ApiToModel(o, st) \in States
           /\ ApiToModel(o, ApiToModel(o, st)) = ApiToModel(o, st)
           /\ RememberedPassphrase(ApiToModel(o, Untracked), o)
           /\ st # Untracked /\ RememberedPassphrase(st, o) =>
                 RememberedPassphrase(ApiToModel(o, st), o)
<1> DEFINE Fits == /\ ApiToModel(o, st) \in States
                   /\ ApiToModel(o, ApiToModel(o, st)) = ApiToModel(o, st)
                   /\ RememberedPassphrase(ApiToModel(o, Untracked), o)
                   /\ st # Untracked /\ RememberedPassphrase(st, o) =>
                         RememberedPassphrase(ApiToModel(o, st), o)
<1>0. o \in Object /\ SettledObject(o)
  BY DEF Objects
<1>1. kind = "dns_record" => Fits
  BY <1>0, RecordFits
     DEF ApiToModel, Object, States, Model, CanonicalState, RememberedPassphrase
<1>2. kind = "firewall_group" => Fits
  BY <1>0 DEF ApiToModel, Object, States, Model, CanonicalState, RememberedPassphrase, G!ApiToModel
<1>3. kind = "network" => Fits
  BY <1>0, NetRead DEF ApiToModel, Object, States, Model, CanonicalState, RememberedPassphrase
<1>4. kind = "firewall_policy" => Fits
  BY <1>0, PolicyRead DEF ApiToModel, Object, States, Model, CanonicalState, RememberedPassphrase
<1>5. ASSUME kind = "wlan" PROVE Fits
  <2> DEFINE prior == IF st = Untracked THEN Null ELSE st.passphrase
             a == ApiToModel(o, st)
  <2>1. o \in W!Wlan /\ prior \in Passphrase \cup {Null, W!Placeholder}
    BY <1>0, <1>5 DEF Object, States, Model, W!Model
  <2>2. a = W!ApiToModel(o, prior)
    BY <1>5 DEF ApiToModel
  <2>3. a \in W!Model /\ a.passphrase = prior
    BY <2>1, <2>2, WlanRead
  <2>4. a # Untracked
    BY <2>3, SentinelAssumption
  <2>5. ApiToModel(o, a) = W!ApiToModel(o, prior)
    BY <1>5, <2>3, <2>4 DEF ApiToModel
  <2>6. a \in States
    BY <1>5, <2>3 DEF States, Model, CanonicalState
  <2>7. RememberedPassphrase(ApiToModel(o, Untracked), o)
    BY <1>5, <2>1, WlanRead DEF ApiToModel, RememberedPassphrase
  <2>8. st # Untracked /\ RememberedPassphrase(st, o) => RememberedPassphrase(a, o)
    BY <1>5, <2>3 DEF RememberedPassphrase
  <2> QED BY <2>2, <2>5, <2>6, <2>7, <2>8
<1>6. ASSUME kind = "port_profile" PROVE Fits
  <2> DEFINE prior == IF st = Untracked THEN S!Blank.vlans ELSE st.vlans
             a == ApiToModel(o, st)
  <2>1. o \in S!Profile
    BY <1>0, <1>6 DEF Object
  <2>2. a = S!ApiToModel(o, prior)
    BY <1>6 DEF ApiToModel
  <2>3. a \in S!Model /\ S!ApiToModel(o, a.vlans) = a
    BY <2>1, <2>2, ProfileRead
  <2>4. a # Untracked
    BY <2>3, SentinelAssumption
  <2>5. ApiToModel(o, a) = a
    BY <1>6, <2>3, <2>4 DEF ApiToModel
  <2>6. a \in States
    BY <1>6, <2>3 DEF States, Model, CanonicalState
  <2> QED BY <1>6, <2>5, <2>6 DEF RememberedPassphrase
<1> QED BY <1>1, <1>2, <1>3, <1>4, <1>5, <1>6 DEF Kind

\* A generated block.
LEMMA GeneratedFits == ASSUME kind \in Kind, NEW o \in Objects PROVE Generate(o) \in Configs
<1>1. kind = "dns_record" => Generate(o) \in Configs
  BY RecordFits DEF Generate, Objects, Object, Configs, Model, Known
<1>2. kind = "firewall_group" => Generate(o) \in Configs
  BY DEF Generate, G!Generate, Objects, Object, Configs, Model, Known
<1>3. kind = "network" => Generate(o) \in Configs
  BY NetGenerates DEF Generate, Objects, Object, Configs, Model, Known, KnownNet
<1>4. kind = "firewall_policy" => Generate(o) \in Configs
  BY PolicyGenerates DEF Generate, Objects, Object, Configs, Model, Known
<1>5. kind = "wlan" => Generate(o) \in Configs
  BY WlanGenerates DEF Generate, Objects, Object, Configs, Model, Known
<1>6. kind = "port_profile" => Generate(o) \in Configs
  BY ProfileGenerates DEF Generate, Objects, Object, Configs, Model, Known
<1> QED BY <1>1, <1>2, <1>3, <1>4, <1>5, <1>6 DEF Kind

\* The two ways a plan becomes a request.
Requested(p, st) == IF st = Untracked THEN p ELSE ApplyPlanToState(p, st)

\* A write of a network, which the lemmas after this one both start from.
LEMMA NetworkWriteFits ==
    ASSUME kind = "network", NEW m \in N!Model, NEW st \in States \cup {Untracked},
           NEW o \in Written(Requested(Planned(m, st), st))
    PROVE  /\ Planned(m, st) \in N!Model /\ o \in N!Net
           /\ Requested(Planned(m, st), st) \in N!Model
           /\ o \in N!Stored(N!Request(Requested(Planned(m, st), st)))
<1> DEFINE p == Planned(m, st)
           q == Requested(p, st)
<1>1. st = Untracked \/ (st \in N!Model /\ N!Canonical(st))
  BY DEF States, Model, CanonicalState
<1>2. p = N!Planned(m, st, st = Untracked)
  BY DEF Planned
<1>3. p \in N!Model /\ p.group = N!OrElse(m.group, "LAN")
  <2> DEFINE untracked == st = Untracked
  <2>1. untracked \in BOOLEAN /\ (untracked \/ st \in N!Model)
    BY <1>1
  <2> HIDE DEF untracked
  <2>2. /\ N!Planned(m, st, untracked) \in N!Model
        /\ N!Planned(m, st, untracked).group = N!OrElse(m.group, "LAN")
    BY <2>1, NetPlanned
  <2> QED BY <2>2, <1>2 DEF untracked
<1>4. p.group # Null
  BY <1>3, NoValue DEF N!OrElse
<1> HIDE DEF p
<1>5. q \in N!Model /\ q.group # Null
  <2>1. CASE st = Untracked
    BY <2>1, <1>3, <1>4 DEF Requested
  <2>2. CASE st # Untracked
    <3>1. q = N!ApplyPlanToState(p, st)
      BY <2>2 DEF Requested, ApplyPlanToState
    <3>2. st \in N!Model /\ st.group # Null
      BY <2>2, <1>1 DEF N!Canonical
    <3> HIDE DEF q
    <3> QED BY <3>1, <3>2, <1>3, <1>4, NetRequested
  <2> QED BY <2>1, <2>2
<1>6. o \in N!Stored(N!Request(q))
  BY DEF Written, p
<1> HIDE DEF q
<1>7. o \in N!Net
  BY <1>5, <1>6, NetWritten
<1> QED BY <1>3, <1>5, <1>6, <1>7 DEF p, q

\* A write.
LEMMA WriteFits ==
    ASSUME kind \in Kind, object \in Objects \cup {Gone},
           NEW m \in Configs, Accepted(m), NEW st \in States \cup {Untracked},
           NEW o \in Written(Requested(Planned(m, st), st))
    PROVE  /\ Planned(m, st) \in Model
           /\ o \in Objects
           /\ ApiToModel(o, Planned(m, st)) \in States
           /\ ApiToModel(o, ApiToModel(o, Planned(m, st))) = ApiToModel(o, Planned(m, st))
           /\ RememberedPassphrase(ApiToModel(o, Planned(m, st)), o)
<1> DEFINE p == Planned(m, st)
           Fits == /\ p \in Model /\ o \in Objects /\ ApiToModel(o, p) \in States
                   /\ ApiToModel(o, ApiToModel(o, p)) = ApiToModel(o, p)
                   /\ RememberedPassphrase(ApiToModel(o, p), o)
<1>0. m \in Model /\ object \in Object \cup {Gone} /\ (st = Untracked \/ st \in Model)
      /\ (object # Gone => SettledObject(object))
  BY DEF Configs, Objects, States
<1>1. ASSUME kind = "dns_record" PROVE Fits
  <2>1. p = D!Planned(m) /\ o = D!Request(Requested(p, st))
    BY <1>1 DEF Planned, Written
  <2>2. Requested(p, st) \in D!Model /\ Requested(p, st).enabled \in BOOLEAN /\ p \in D!Model
    BY <1>0, <1>1, <2>1, RecordPlanned DEF Requested, ApplyPlanToState, Model
  <2>3. o \in D!Record
    BY <2>1, <2>2, RecordWritten
  <2>4. D!ApiToModel(o) \in D!Model
    BY <2>3, RecordFits
  <2> HIDE DEF p
  <2> QED BY <1>1, <2>2, <2>3, <2>4 DEF ApiToModel, Model, States, CanonicalState, Objects,
             Object, SettledObject, RememberedPassphrase
<1>2. ASSUME kind = "firewall_group" PROVE Fits
  BY <1>0, <1>2 DEF Planned, Written, Requested, ApplyPlanToState, G!ApplyPlanToState, G!Request,
     ApiToModel, G!ApiToModel, Model, States, CanonicalState, Objects, Object, SettledObject,
     RememberedPassphrase
<1>3. ASSUME kind = "network" PROVE Fits
  <2>1. p \in N!Model /\ o \in N!Net
    BY <1>0, <1>3, NetworkWriteFits DEF Model
  <2>2. N!ApiToModel(o) \in N!Model /\ N!Canonical(N!ApiToModel(o))
    BY <2>1, NetRead
  <2> HIDE DEF p
  <2> QED BY <1>3, <2>1, <2>2 DEF ApiToModel, Model, States, CanonicalState, Objects,
             Object, SettledObject, RememberedPassphrase
<1>4. ASSUME kind = "firewall_policy" PROVE Fits
  <2> DEFINE old == IF object = Gone THEN {} ELSE object.states
  <2>1. p = m /\ m \in P!Model
    BY <1>0, <1>4 DEF Planned, Model
  <2>2. o \in P!Stored(P!Request(m), old)
    BY <1>4, <2>1 DEF Written, Requested, ApplyPlanToState, P!ApplyPlanToState
  <2>3. old \in SUBSET Value
    BY <1>0, <1>4 DEF Object, P!Policy
  <2>4. o \in P!Policy /\ SettledPolicy(o)
    BY <2>1, <2>2, <2>3, PolicyWritten
  <2>5. P!ApiToModel(o) \in P!Model /\ P!Canonical(P!ApiToModel(o))
    BY <2>4, PolicyRead
  <2> QED BY <1>4, <2>1, <2>4, <2>5 DEF ApiToModel, Model, States, CanonicalState, Objects,
             Object, SettledObject, RememberedPassphrase
<1>5. ASSUME kind = "wlan" PROVE Fits
  <2> DEFINE old == IF object = Gone THEN Empty ELSE object.passphrase
             a == ApiToModel(o, p)
  <2>1. p = W!Planned(m) /\ m \in W!Model
    BY <1>0, <1>5 DEF Planned, Model
  <2>2. o \in W!Stored(W!Request(p), old)
    BY <1>5 DEF Written, Requested, ApplyPlanToState, W!ApplyPlanToState
  <2>3. old \in Passphrase \cup {Empty, W!Placeholder}
    BY <1>0, <1>5 DEF Object, W!Wlan
  <2>4. o \in W!Wlan /\ m.passphrase \in {Null, o.passphrase}
    BY <2>1, <2>2, <2>3, WlanWritten
  <2>5. p \in W!Model /\ p.passphrase = m.passphrase
    BY <2>1, WlanPlanned
  <2> HIDE DEF p
  <2>6. p # Untracked /\ p.passphrase \in Passphrase \cup {Null, W!Placeholder}
    BY <2>5, SentinelAssumption DEF W!Model
  <2>7. a = W!ApiToModel(o, p.passphrase)
    BY <1>5, <2>6 DEF ApiToModel
  <2>8. a \in W!Model /\ a.passphrase = p.passphrase
    BY <2>4, <2>6, <2>7, WlanRead
  <2>9. ApiToModel(o, a) = a
    <3>1. a # Untracked
      BY <2>8, SentinelAssumption
    <3> QED BY <1>5, <2>7, <2>8, <3>1 DEF ApiToModel
  <2>10. RememberedPassphrase(a, o)
    BY <2>4, <2>5, <2>8 DEF RememberedPassphrase
  <2>11. p \in Model /\ o \in Objects /\ a \in States
    BY <1>5, <2>4, <2>5, <2>8
       DEF Model, States, CanonicalState, Objects, Object, SettledObject
  <2> QED BY <2>9, <2>10, <2>11
<1>6. ASSUME kind = "port_profile" PROVE Fits
  <2> DEFINE old == IF object = Gone THEN S!Absent ELSE object
             a == ApiToModel(o, p)
  <2>1. p = S!Planned(m) /\ m \in S!Model /\ S!Accepted(m)
    BY <1>0, <1>6 DEF Planned, Model, Accepted
  <2>2. o = S!Stored(S!Request(p, old))
    BY <1>6 DEF Written, Requested, ApplyPlanToState, S!ApplyPlanToState
  <2>3. Under(old)
    BY <1>0, <1>6, ProfileUnder DEF Object
  <2>4. o \in S!Profile /\ Settled(o)
    BY <2>1, <2>2, <2>3, ProfileWritten
  <2>5. p \in S!Model
    BY <2>1, ProfilePlanned
  <2> HIDE DEF p
  <2>6. p # Untracked
    BY <2>5, SentinelAssumption
  <2>7. a = S!ApiToModel(o, p.vlans)
    BY <1>6, <2>6 DEF ApiToModel
  <2>8. a \in S!Model /\ S!ApiToModel(o, a.vlans) = a
    BY <2>4, <2>7, ProfileRead
  <2>9. ApiToModel(o, a) = a
    <3>1. a # Untracked
      BY <2>8, SentinelAssumption
    <3> QED BY <1>6, <2>8, <3>1 DEF ApiToModel
  <2>10. p \in Model /\ o \in Objects /\ a \in States
    BY <1>6, <2>4, <2>5, <2>8
       DEF Model, States, CanonicalState, Objects, Object, SettledObject
  <2> QED BY <1>6, <2>9, <2>10 DEF RememberedPassphrase
<1>7. Fits
  BY <1>1, <1>2, <1>3, <1>4, <1>5, <1>6 DEF Kind
<1> QED BY <1>7

\* What was planned, sent, stored and read back is what was planned.
LEMMA RoundTrip ==
    ASSUME kind \in Kind, object \in Objects \cup {Gone},
           NEW m \in Configs, Accepted(m), Expressible(m), NEW st \in States \cup {Untracked},
           st # Untracked => Planned(m, st) # st /\ Kept(Planned(m, st), st) = {},
           NEW o \in Written(Requested(Planned(m, st), st))
    PROVE  LET answer == ApiToModel(o, Planned(m, st))
           IN  Matches(answer, Planned(m, st)) /\ Planned(m, answer) = answer
<1> DEFINE p == Planned(m, st)
           a == ApiToModel(o, p)
           Same == Matches(a, p) /\ Planned(m, a) = a
<1>0. m \in Model /\ object \in Object \cup {Gone} /\ (st = Untracked \/ st \in Model)
  BY DEF Configs, Objects, States
<1>1. ASSUME kind = "dns_record" PROVE Same
  <2>1. p = D!Planned(m) /\ o = D!Request(Requested(p, st)) /\ m \in D!Model /\ D!Expressible(m)
    BY <1>0, <1>1 DEF Planned, Written, Model, Expressible
  <2>2. st # Untracked => st \in D!Model /\ D!Kept(p, st) = {}
    BY <1>0, <1>1 DEF Model, Kept
  <2>3. Requested(p, st) = IF st = Untracked THEN p ELSE D!ApplyPlanToState(p, st)
    BY <1>1 DEF Requested, ApplyPlanToState
  <2>4. /\ D!ApiToModel(D!Request(p)) = p /\ D!Planned(p) = p
        /\ \A s \in D!Model : D!Kept(p, s) = {} =>
              D!ApiToModel(D!Request(D!ApplyPlanToState(p, s))) = p
    BY <2>1, RecordRoundTrip
  <2> HIDE DEF p
  <2>5. D!ApiToModel(o) = p
    BY <2>1, <2>2, <2>3, <2>4
  <2> QED BY <1>1, <2>1, <2>4, <2>5 DEF ApiToModel, Matches, Planned
<1>2. ASSUME kind = "firewall_group" PROVE Same
  BY <1>2 DEF Planned, Written, Requested, ApplyPlanToState, G!ApplyPlanToState, G!Request,
     ApiToModel, G!ApiToModel, Matches
<1>3. ASSUME kind = "network" PROVE Same
  <2> DEFINE q == Requested(p, st)
             made == N!ApiToModel(o)
  <2>1. m \in N!Model /\ KnownNet(m) /\ N!Accepted(m) /\ N!Expressible(m)
    BY <1>0, <1>3 DEF Model, Configs, Known, KnownNet, Accepted, Expressible
  <2>2. q \in N!Model /\ o \in N!Stored(N!Request(q)) /\ o \in N!Net
    BY <1>3, <2>1, NetworkWriteFits
  <2>3. st \in N!Model \cup {Untracked} /\ (st = Untracked \/ N!Canonical(st))
    BY <1>3 DEF States, Model, CanonicalState
  <2>4. p \in N!Model /\ p = N!Planned(m, st, st = Untracked)
    BY <1>3, <2>1, NetworkWriteFits DEF Planned
  <2>5. /\ st = Untracked => q = p
        /\ st # Untracked => q = N!ApplyPlanToState(p, st) /\ N!Kept(p, st) = {} /\ p # st
    BY <1>3 DEF Requested, ApplyPlanToState, Kept
  <2> HIDE DEF p, q
  <2>6. N!Matches(made, p) /\ NetStays(m, made)
    BY <2>1, <2>2, <2>3, <2>4, <2>5, NetRoundTrip
  <2>7. a = made
    BY <1>3 DEF ApiToModel
  <2>8. a # Untracked
    BY <2>2, <2>7, NetRead, SentinelAssumption
  <2>9. Planned(m, a) = N!Planned(m, a, FALSE)
    BY <1>3, <2>8 DEF Planned
  <2> QED BY <1>3, <2>6, <2>7, <2>9 DEF Matches, NetStays
<1>4. ASSUME kind = "firewall_policy" PROVE Same
  <2> DEFINE old == IF object = Gone THEN {} ELSE object.states
  <2>1. p = m /\ m \in P!Model /\ P!Expressible(m) /\ P!PortTypeAsDerived(m)
    BY <1>0, <1>4 DEF Planned, Model, Expressible
  <2>2. o \in P!Stored(P!Request(m), old)
    BY <1>4, <2>1 DEF Written, Requested, ApplyPlanToState, P!ApplyPlanToState
  <2>3. old \in SUBSET Value
    BY <1>0, <1>4 DEF Object, P!Policy
  <2>4. P!ApiToModel(o) = m
    BY <2>1, <2>2, <2>3, PolicyRoundTrip
  <2> QED BY <1>4, <2>1, <2>4 DEF ApiToModel, Matches, Planned
<1>5. ASSUME kind = "wlan" PROVE Same
  <2> DEFINE old == IF object = Gone THEN Empty ELSE object.passphrase
  <2>1. p = W!Planned(m) /\ m \in W!Model
    BY <1>0, <1>5 DEF Planned, Model
  <2>2. o \in W!Stored(W!Request(p), old)
    BY <1>5 DEF Written, Requested, ApplyPlanToState, W!ApplyPlanToState
  <2>3. old \in Passphrase \cup {Empty, W!Placeholder}
    BY <1>0, <1>5 DEF Object, W!Wlan
  <2>4. W!ApiToModel(o, p.passphrase) = p
    BY <2>1, <2>2, <2>3, WlanRoundTrip
  <2>5. p # Untracked
    BY <2>1, WlanPlanned, SentinelAssumption
  <2>6. \A s : Planned(m, s) = p
    BY <1>5, <2>1 DEF Planned
  <2> HIDE DEF p
  <2>7. a = p
    BY <1>5, <2>4, <2>5 DEF ApiToModel
  <2> QED BY <1>5, <2>6, <2>7 DEF Matches
<1>6. ASSUME kind = "port_profile" PROVE Same
  <2> DEFINE old == IF object = Gone THEN S!Absent ELSE object
  <2>1. p = S!Planned(m) /\ m \in S!Model /\ S!Accepted(m) /\ S!Expressible(m)
    BY <1>0, <1>6 DEF Planned, Model, Accepted, Expressible
  <2>2. o = S!Stored(S!Request(p, old))
    BY <1>6 DEF Written, Requested, ApplyPlanToState, S!ApplyPlanToState
  <2>3. Under(old)
    BY <1>0, <1>6, ProfileUnder DEF Object
  <2>4. S!ApiToModel(o, p.vlans) = p
    BY <2>1, <2>2, <2>3, ProfileRoundTrip
  <2>5. p # Untracked
    <3>1. p \in S!Model
      BY <2>1, ProfilePlanned
    <3> QED BY <3>1, SentinelAssumption
  <2>6. \A s : Planned(m, s) = p
    BY <1>6, <2>1 DEF Planned
  <2> HIDE DEF p
  <2>7. a = p
    BY <1>6, <2>4, <2>5 DEF ApiToModel
  <2> QED BY <1>6, <2>6, <2>7 DEF Matches
<1>7. Same
  BY <1>1, <1>2, <1>3, <1>4, <1>5, <1>6 DEF Kind
<1> QED BY <1>7

\* What was read asks for the object as it is.
LEMMA ReadInForce ==
    ASSUME kind \in Kind, NEW o \in Objects, Shown(o), NEW st \in States
    PROVE  InForce(o, ApiToModel(o, st))
<1> DEFINE a == ApiToModel(o, st)
<1>0. o \in Object /\ SettledObject(o) /\ st \in Model /\ st # Untracked
  BY NotThere DEF Objects, States
<1>1. kind = "dns_record" => InForce(o, a)
  BY <1>0, RecordRead DEF InForce, ApiToModel, Object
<1>2. kind = "firewall_group" => InForce(o, a)
  BY DEF InForce, ApiToModel, G!Request, G!ApiToModel
<1>3. kind = "network" => InForce(o, a)
  BY <1>0, NetInForce DEF InForce, ApiToModel, Object, Shown
<1>4. kind = "firewall_policy" => InForce(o, a)
  BY <1>0, PolicyInForce DEF InForce, ApiToModel, Object, Shown, SettledObject
<1>5. kind = "wlan" => InForce(o, a)
  <2>1. kind = "wlan" => st.passphrase \in Passphrase \cup {Null, W!Placeholder}
    BY <1>0 DEF Model, W!Model
  <2> QED BY <1>0, <2>1, WlanInForce DEF InForce, ApiToModel, Object, Shown
<1>6. kind = "port_profile" => InForce(o, a)
  BY <1>0, ProfileInForce DEF InForce, ApiToModel, Object, Shown, SettledObject
<1> QED BY <1>1, <1>2, <1>3, <1>4, <1>5, <1>6 DEF Kind

\* What is generated for an object plans what is read of it.
LEMMA GeneratedPlans ==
    ASSUME kind \in Kind, NEW o \in Objects, Restorable(o)
    PROVE  LET st == ApiToModel(o, Untracked)
               p == Planned(Generate(o), st)
           IN  /\ Accepted(Generate(o))
               /\ IF kind = "wlan"
                  THEN W!WithoutPassphrase(p) = W!WithoutPassphrase(st) ELSE p = st
<1> DEFINE st == ApiToModel(o, Untracked)
           p == Planned(Generate(o), st)
           Same == /\ Accepted(Generate(o))
                   /\ IF kind = "wlan"
                      THEN W!WithoutPassphrase(p) = W!WithoutPassphrase(st) ELSE p = st
<1>0. o \in Object /\ SettledObject(o)
  BY DEF Objects
<1>1. kind = "dns_record" => Same
  BY <1>0, RecordGenerated
     DEF Accepted, Generate, Planned, ApiToModel, Object, Restorable, D!Restorable
<1>2. kind = "firewall_group" => Same
  BY DEF Accepted, Generate, Planned, ApiToModel, G!Generate, G!ApiToModel
<1>3. ASSUME kind = "network" PROVE Same
  <2>1. o \in N!Net /\ N!Restorable(o) /\ st = N!ApiToModel(o) /\ Generate(o) = N!Generate(o)
    BY <1>0, <1>3 DEF Object, Restorable, ApiToModel, Generate
  <2>2. st # Untracked
    BY <2>1, NetRead, SentinelAssumption
  <2>3. p = N!Planned(N!Generate(o), N!ApiToModel(o), FALSE)
    BY <1>3, <2>1, <2>2 DEF Planned
  <2> QED BY <1>3, <2>1, <2>3, NetGenerated DEF Accepted
<1>4. kind = "firewall_policy" => Same
  BY <1>0, PolicyGenerated DEF Accepted, Generate, Planned, ApiToModel, Object, Restorable
<1>5. kind = "wlan" => Same
  BY <1>0, WlanGenerated DEF Accepted, Generate, Planned, ApiToModel, Object
<1>6. kind = "port_profile" => Same
  BY <1>0, ProfileGenerated
     DEF Accepted, Generate, Planned, ApiToModel, Object, Restorable, SettledObject
<1>7. Same
  BY <1>1, <1>2, <1>3, <1>4, <1>5, <1>6 DEF Kind
<1> QED BY <1>7

\* The invariant, in terms of the sets above.
LEMMA IInvSets ==
    IInv <=> /\ kind \in Kind
             /\ object \in Objects \cup {Gone}
             /\ config \in Configs
             /\ state \in States \cup {Untracked}
             /\ edits \in 0..MaxEdits /\ outside \in 0..MaxOutside
             /\ plan \in Model \cup {Untracked}
             /\ {removed, unsure} \subseteq BOOLEAN
             /\ object # Gone /\ state # Untracked /\ ~unsure =>
                   RememberedPassphrase(state, object)
             /\ plan # Untracked =>
                   object # Gone /\ state # Untracked /\ state = ApiToModel(object, state)
             /\ plan # Untracked /\ Expressible(config) /\ ~removed =>
                   Matches(state, plan) /\ Planned(config, state) = state
<1>1. kind \in Kind => Untracked \notin Model /\ Gone \notin Object
  BY NotThere
<1> QED BY <1>1 DEF IInv, TypeOK, Objects, Configs, States, CanonicalState

\* Every step keeps the invariant; only an update or create needs the round trip.
LEMMA InvStep == IInv /\ [Next]_vars => IInv'
<1> SUFFICES ASSUME IInv, [Next]_vars PROVE IInv'
  OBVIOUS
<1>0. /\ kind \in Kind /\ object \in Objects \cup {Gone} /\ config \in Configs
      /\ state \in States \cup {Untracked} /\ plan \in Model \cup {Untracked}
      /\ edits \in 0..MaxEdits /\ outside \in 0..MaxOutside
      /\ removed \in BOOLEAN /\ unsure \in BOOLEAN
      /\ object # Gone /\ state # Untracked /\ ~unsure => RememberedPassphrase(state, object)
      /\ plan # Untracked =>
            object # Gone /\ state # Untracked /\ state = ApiToModel(object, state)
      /\ plan # Untracked /\ Expressible(config) /\ ~removed =>
            Matches(state, plan) /\ Planned(config, state) = state
  BY IInvSets
<1>k. kind' = kind
  BY DEF Next, EditConfig, Refuse, Create, Update, Refresh, Import, Delete, OutsideEdit, vars
<1>s. Objects' = Objects /\ Configs' = Configs /\ States' = States /\ Model' = Model
  BY <1>k, Steady DEF Objects, Configs, States
<1>n. Untracked \notin Model /\ Gone \notin Object
  BY <1>0, NotThere
<1>1. SUFFICES
        /\ object' \in Objects \cup {Gone}
        /\ config' \in Configs
        /\ state' \in States \cup {Untracked}
        /\ edits' \in 0..MaxEdits /\ outside' \in 0..MaxOutside
        /\ plan' \in Model \cup {Untracked}
        /\ removed' \in BOOLEAN /\ unsure' \in BOOLEAN
        /\ object' # Gone /\ state' # Untracked /\ ~unsure' =>
              RememberedPassphrase(state', object')
        /\ plan' # Untracked =>
              object' # Gone /\ state' # Untracked /\ state' = ApiToModel(object', state')
        /\ plan' # Untracked /\ Expressible(config') /\ ~removed' =>
              Matches(state', plan') /\ Planned(config', state') = state'
  BY <1>0, <1>k, <1>s, <1>n, Steady DEF IInv, TypeOK, Objects, Configs, States, CanonicalState
<1>2. CASE EditConfig
  <2>1. config' \in Configs
    BY <1>2, <1>0, EditsFit DEF EditConfig
  <2>2. edits' \in 0..MaxEdits
    BY <1>2, <1>0, InputAssumption DEF EditConfig
  <2> QED BY <2>1, <2>2, <1>2, <1>0 DEF EditConfig, NothingAnswered
<1>3. CASE Refuse
  BY <1>3, <1>0 DEF Refuse, vars
<1>4. CASE Create
  <2>1. object' \in Written(Requested(Planned(config, state), state))
    BY <1>4 DEF Create, Requested
  <2>2. plan' = Planned(config, state)
    BY <1>4 DEF Create
  <2>3. state' = ApiToModel(object', plan')
    BY <1>4 DEF Create
  <2>4. /\ plan' \in Model /\ object' \in Objects /\ state' \in States
        /\ ApiToModel(object', state') = state'
        /\ RememberedPassphrase(state', object')
    BY <2>1, <2>2, <2>3, <1>4, <1>0, WriteFits DEF Create
  <2>5. Expressible(config) => Matches(state', plan') /\ Planned(config, state') = state'
    BY <2>1, <2>2, <2>3, <1>4, <1>0, RoundTrip DEF Create
  <2> QED BY <2>4, <2>5, <1>4, <1>0, <1>k, <1>n, Steady DEF Create, Objects, States
<1>5. CASE Update
  <2> DEFINE p == Planned(config, state)
  <2>1. object' \in Written(Requested(p, state))
    BY <1>5 DEF Update, Requested
  <2>2. /\ object' \in Objects /\ p \in Model /\ ApiToModel(object', p) \in States
        /\ ApiToModel(object', ApiToModel(object', p)) = ApiToModel(object', p)
        /\ RememberedPassphrase(ApiToModel(object', p), object')
    BY <2>1, <1>5, <1>0, WriteFits DEF Update
  <2>3. CASE state' = ApiToModel(object', p) /\ plan' = p /\ removed' = (Kept(p, state) # {})
             /\ unsure' = FALSE
    <3>1. Expressible(config) /\ ~removed' => Matches(state', plan') /\ Planned(config, state') = state'
      BY <2>1, <2>3, <1>5, <1>0, RoundTrip DEF Update
    <3> HIDE DEF p
    <3> QED BY <2>2, <2>3, <3>1, <1>5, <1>0, <1>k, <1>n, Steady DEF Update, Objects, States
  <2>4. CASE state' = state /\ NothingAnswered /\ unsure' = (kind = "wlan")
    <3>1. ~unsure' => RememberedPassphrase(state', object')
      BY <2>4 DEF RememberedPassphrase
    <3> QED BY <2>2, <2>4, <3>1, <1>5, <1>0, <1>k, <1>n, Steady DEF Update, NothingAnswered, Objects
  <2> QED BY <2>3, <2>4, <1>5 DEF Update
<1>6. CASE Refresh
  <2>1. CASE object = Gone
    BY <2>1, <1>6, <1>0, Steady, <1>k DEF Refresh
  <2>2. CASE object # Gone
    <3>1. state' = ApiToModel(object, state)
      BY <2>2, <1>6 DEF Refresh
    <3>2. state' \in States /\ ApiToModel(object, state') = state'
      BY <3>1, <2>2, <1>0, ReadFits
    <3>3. ~unsure => RememberedPassphrase(state', object)
      BY <3>1, <2>2, <1>6, <1>0, ReadFits DEF Refresh
    <3> QED BY <3>1, <3>2, <3>3, <2>2, <1>6, <1>0, <1>k, <1>n, Steady DEF Refresh, States
  <2> QED BY <2>1, <2>2
<1>7. CASE Import
  <2>1. state' \in States /\ RememberedPassphrase(state', object)
    BY <1>7, <1>0, ReadFits DEF Import
  <2>2. config' \in Configs
    BY <1>7, <1>0, GeneratedFits DEF Import
  <2>3. edits' \in 0..MaxEdits
    BY <1>7, <1>0, InputAssumption DEF Import
  <2> QED BY <2>1, <2>2, <2>3, <1>7, <1>0, <1>k, Steady DEF Import, NothingAnswered
<1>8. CASE Delete
  BY <1>8, <1>0, <1>k, Steady DEF Delete, NothingAnswered
<1>9. CASE OutsideEdit
  <2>1. object' \in Objects \cup {Gone}
    BY <1>9, <1>0, OutsideEditsFit DEF OutsideEdit
  <2>2. outside' \in 0..MaxOutside
    BY <1>9, <1>0, InputAssumption DEF OutsideEdit
  <2>3. ~unsure' => RememberedPassphrase(state', object')
    BY <1>9 DEF OutsideEdit, RememberedPassphrase
  <2> QED BY <2>1, <2>2, <2>3, <1>9, <1>0, <1>k, Steady DEF OutsideEdit, NothingAnswered
<1>10. CASE UNCHANGED vars
  BY <1>10, <1>0, <1>k, Steady DEF vars
<1> QED
  BY <1>2, <1>3, <1>4, <1>5, <1>6, <1>7, <1>8, <1>9, <1>10 DEF Next

\* It holds before anything was applied.
LEMMA InvInit == Init => IInv
<1> SUFFICES ASSUME Init PROVE IInv
  OBVIOUS
<1>1. kind \in Kind /\ object = Gone /\ state = Untracked /\ config \in Configs
  BY BlankFits DEF Init
<1>2. edits \in 0..MaxEdits /\ outside \in 0..MaxOutside
  BY InputAssumption DEF Init
<1>3. plan = Untracked /\ removed = FALSE /\ unsure = FALSE
  BY DEF Init
<1> QED BY <1>1, <1>2, <1>3, IInvSets

\* What the theorems below are about: the resource, its object and its configuration
\* always fit each other, and an answer is what a read would store again.
THEOREM Invariance == Spec => []IInv
BY InvInit, InvStep, PTL DEF Spec

\* The configuration, the state and the object always have their types, whatever is
\* planned, applied, imported or edited by others; what is in the state has the one
\* written form the provider gives it.  (apiToModel of the six resources)
THEOREM TypeCorrect == Spec => []TypeOK
<1>1. IInv => TypeOK
  BY DEF IInv
<1> QED BY <1>1, Invariance, PTL

\* An apply of a configuration that has a written form stores what was planned, and no
\* plan comes back after it, for any values, targets, schedules, settings and networks.
\* (Create and Update of the six resources)
THEOREM AppliesAreConsistent == Spec => []ApplyIsConsistent
<1>1. IInv => ApplyIsConsistent
  <2> SUFFICES ASSUME IInv, plan # Untracked, Expressible(config), ~removed
               PROVE  /\ Matches(state, plan)
                      /\ Planned(config, ApiToModel(object, state)) = ApiToModel(object, state)
    BY DEF ApplyIsConsistent
  <2>1. state = ApiToModel(object, state) /\ Matches(state, plan) /\ Planned(config, state) = state
    BY DEF IInv
  <2> QED BY <2>1
<1> QED BY <1>1, Invariance, PTL

\* A plan without a difference means that the controller does what the configuration
\* asks for, whoever edited the object, if the provider can show all of it.
\* (Read, apiToModel of the six resources)
THEOREM NoDiffIsInForce == Spec => []NoDiffMeansInForce
<1>1. IInv => NoDiffMeansInForce
  <2> DEFINE st == ApiToModel(object, state)
             p == Planned(config, st)
  <2> SUFFICES ASSUME IInv, object # Gone, state # Untracked, Shown(object), p = st
               PROVE  InForce(object, p) /\ PassphraseInForce
    BY DEF NoDiffMeansInForce
  <2>1. /\ kind \in Kind /\ object \in Objects /\ config \in Configs /\ state \in States
        /\ ~unsure => RememberedPassphrase(state, object)
    BY IInvSets
  <2>2. InForce(object, st)
    BY <2>1, ReadInForce
  <2>3. ASSUME kind = "wlan", ~unsure PROVE config.passphrase \in {Null, object.passphrase}
    <3>1. RememberedPassphrase(st, object)
      BY <2>1, <2>3, ReadFits
    <3>2. st.passphrase \in {Null, object.passphrase}
      BY <2>3, <3>1 DEF RememberedPassphrase
    <3>3. config \in W!Model
      BY <2>1, <2>3 DEF Configs, Model
    <3>4. p = W!Planned(config)
      BY <2>3 DEF Planned
    <3>5. p.passphrase = config.passphrase
      BY <3>3, <3>4, WlanPlanned
    <3> QED BY <3>2, <3>5
  <2> QED BY <2>2, <2>3 DEF PassphraseInForce
<1> QED BY <1>1, Invariance, PTL

\* What generate-imports writes for any object it can represent is accepted and plans
\* no change, but for the placeholder of a passphrase.
\* (DNSRecordBlocks, FirewallGroupBlocks, FirewallPolicyBlocks, NetworkBlocks, WLANBlocks,
\* PortProfileBlocks)
THEOREM GeneratedPlansNothing == Spec => []GeneratedBlockPlansNothing
<1>1. IInv => GeneratedBlockPlansNothing
  <2> SUFFICES ASSUME IInv, object # Gone, Restorable(object)
               PROVE  GeneratedBlockPlansNothing
    BY DEF GeneratedBlockPlansNothing
  <2>1. kind \in Kind /\ object \in Objects
    BY IInvSets
  <2> QED BY <2>1, GeneratedPlans DEF GeneratedBlockPlansNothing
<1> QED BY <1>1, Invariance, PTL
=============================================================================

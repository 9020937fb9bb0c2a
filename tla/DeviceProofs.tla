----------------------------- MODULE DeviceProofs -----------------------------
(***************************************************************************)
(* A device keeps every setting that nobody gave another value, and what   *)
(* was applied undisturbed shows no difference, for every set of           *)
(* attributes, radios and values and any number of changes.                *)
(***************************************************************************)
EXTENDS Device, TLAPS

\* What the configuration and the state are both made of.
Prior == [text : [Text -> Value \cup {Null, Empty}], locked : BOOLEAN,
          net : {Null} \cup [type : {"static", "dhcp"}, ip : Value \cup {Null}],
          radio : [Band -> {Null} \cup [Field -> Value \cup {Null, Empty}]]]

\* The variables that TypeOK speaks of, in two halves.
DeviceType ==
    /\ dev \in Stored \cup {Gone}
    /\ cached \in Stored \cup {Gone, NoList}
    /\ inflight \in Stored \cup {Gone, NoList}
    /\ base \in Table \cup {NoList}
    /\ last \in Stored /\ raced \subseteq Cell
RunType ==
    /\ config \in Configuration
    /\ state \in Model \cup {Untracked}
    /\ pc \in {"idle", "running", "merge", "put", "reread"}
    /\ settled \in {"no", "applying", "yes"}

\* A process ends with its cache; only a merge has a table to start from.
FlowOK ==
    /\ pc = "idle" => cached = NoList /\ inflight = NoList
    /\ pc = "put" /\ PlansRadio => base # NoList
    /\ pc \in {"merge", "put", "reread"} => settled # "yes"

\* A radio table shows what each field was given last.
Shows(table) == \A c \in Cell \ raced : table[c[1]][c[2]] = last.radio[c[1]][c[2]]
ListShows(l) == l \notin {NoList, Gone} => Shows(l.radio)

\* The list a merge may start from shows it until the PUT.
MergeOK ==
    dev # Gone =>
        /\ pc \in {"running", "merge"} => ListShows(cached) /\ ListShows(inflight)
        /\ pc = "put" /\ PlansRadio => Shows(base)

\* The device has what is configured.
Has(d) ==
    /\ \A a \in Text : config.text[a] \notin {Null, Empty} => d.text[a] = config.text[a]
    /\ d.locked = config.locked
    /\ config.net # Null => \/ d.net = config.net
                            \/ config.net.type = "dhcp" /\ d.net \in Dhcp(Value \cup {Empty})
    /\ \A b \in Present, f \in Field : Planned(b, f) => d.radio[b][f] = config.radio[b][f]

\* After an apply nothing is seen but the device as it was left.
SettledOK ==
    /\ pc = "reread" /\ settled = "applying" => Has(dev)
    /\ settled = "yes" =>
          /\ dev # Gone /\ Has(dev)
          /\ cached \in {NoList, dev} /\ inflight \in {NoList, dev}
          /\ Representable => state = config

\* Nothing changes unasked, the LED's switch included.
SettingsKept ==
    dev # Gone =>
        /\ \A a \in Text :
              dev.text[a] = last.text[a] \/ (a \in Always /\ dev.text[a] = Empty)
        /\ dev.locked = last.locked
        /\ dev.net = last.net
        /\ \A c \in Cell \ raced : dev.radio[c[1]][c[2]] = last.radio[c[1]][c[2]]

IInv ==
    /\ DeviceType /\ RunType /\ FlowOK
    /\ SettingsKept /\ MergeOK /\ SettledOK

(***************************************************************************)
(* Types of the request and of the answer.                                 *)
(***************************************************************************)

LEMMA StoredFields ==
  ASSUME NEW d \in Stored
  PROVE  /\ d.text \in [Text -> Value \cup {Empty}] /\ d.locked \in BOOLEAN
         /\ d.net \in {Null} \cup Static \cup Dhcp(Value \cup {Empty})
         /\ d.radio \in Table /\ \A b \in Present : d.radio[b] \in [Field -> Value \cup {Empty}]
<1>1. QED
  BY DEF Stored, Table

LEMMA ConfigFields ==
  ASSUME config \in Configuration
  PROVE  /\ config.text \in [Text -> Value \cup {Null, Empty}] /\ config.locked \in BOOLEAN
         /\ config.net \in {Null} \cup Static \cup Dhcp({Null})
         /\ config.radio \in [Band -> {Null} \cup [Field -> Value \cup {Null, Empty}]]
         /\ \A b \in Band, f \in Field : Planned(b, f) => config.radio[b][f] \in Value \cup {Empty}
<1>1. QED
  BY DEF Configuration, Planned

LEMMA PriorFields ==
  ASSUME NEW m \in Prior
  PROVE  /\ m.text \in [Text -> Value \cup {Null, Empty}] /\ m.locked \in BOOLEAN
         /\ m.net \in {Null} \cup [type : {"static", "dhcp"}, ip : Value \cup {Null}]
         /\ m.radio \in [Band -> {Null} \cup [Field -> Value \cup {Null, Empty}]]
<1>1. QED
  BY DEF Prior

LEMMA ConfigIsPrior ==
  ASSUME config \in Configuration
  PROVE  config \in Prior
<1>1. config = [text |-> config.text, locked |-> config.locked, net |-> config.net,
                radio |-> config.radio]
  BY DEF Configuration
<1>2. config.net \in {Null} \cup [type : {"static", "dhcp"}, ip : Value \cup {Null}]
  BY ConfigFields DEF Static, Dhcp
<1>3. QED
  BY <1>1, <1>2, ConfigFields DEF Prior

LEMMA ModelIsPrior == Model \subseteq Prior
<1> SUFFICES ASSUME NEW m \in Model PROVE m \in Prior
  OBVIOUS
<1>1. m = [text |-> m.text, locked |-> m.locked, net |-> m.net, radio |-> m.radio]
  BY DEF Model
<1>2. /\ m.text \in [Text -> Value \cup {Null, Empty}] /\ m.locked \in BOOLEAN
      /\ m.net \in {Null} \cup [type : {"static", "dhcp"}, ip : Value \cup {Null}]
  BY DEF Model
<1>3. m.radio \in [Band -> {Null} \cup [Field -> Value \cup {Null, Empty}]]
  <2>1. m.radio \in [Band -> {Null} \cup [Field -> Value \cup {Null}]]
    BY DEF Model
  <2>2. [Field -> Value \cup {Null}] \subseteq [Field -> Value \cup {Null, Empty}]
    OBVIOUS
  <2>3. QED
    BY <2>1, <2>2
<1>4. QED
  BY <1>1, <1>2, <1>3 DEF Prior

LEMMA AllNullType == AllNull \in Configuration /\ AllNull \in Prior
<1>1. QED
  BY DEF AllNull, Configuration, Prior

\* The answer, field by field.
ReadRadio(prior, d, b) ==
    PreserveNullRadio(prior.radio[b],
        IF b \in Present THEN [f \in Field |-> ValueOrNull(d.radio[b][f])] ELSE Null)

LEMMA OneRecord ==
  ASSUME NEW t, NEW l, NEW n, NEW r,
         NEW x \in [text : {t}, locked : {l}, net : {n}, radio : {r}]
  PROVE  x = [text |-> t, locked |-> l, net |-> n, radio |-> r]
<1>1. QED
  OBVIOUS

LEMMA ReadFields ==
  ASSUME NEW prior, NEW d
  PROVE  Read(prior, d) =
           [text |-> [a \in Text |-> IF prior.text[a] = Null THEN Null ELSE ValueOrNull(d.text[a])],
            locked |-> d.locked,
            net |-> PreserveNet(prior.net, ReadNet(d.net)),
            radio |-> [b \in Band |-> ReadRadio(prior, d, b)]]
<1> DEFINE m == ApiToModel(d)
<1>1. m = [text |-> [a \in Text |-> ValueOrNull(d.text[a])], locked |-> d.locked,
           net |-> ReadNet(d.net),
           radio |-> [b \in Band |-> IF b \in Present
              THEN [f \in Field |-> ValueOrNull(d.radio[b][f])] ELSE Null]]
  BY DEF ApiToModel
<1> HIDE DEF m
<1>2. PreserveNullOptionals(prior, m) =
        [text |-> [a \in Text |-> IF prior.text[a] = Null THEN Null ELSE m.text[a]],
         locked |-> m.locked, net |-> PreserveNet(prior.net, m.net),
         radio |-> [b \in Band |-> PreserveNullRadio(prior.radio[b], m.radio[b])]]
  <2> DEFINE t == [a \in Text |-> IF prior.text[a] = Null THEN Null ELSE m.text[a]]
             n == PreserveNet(prior.net, m.net)
             r == [b \in Band |-> PreserveNullRadio(prior.radio[b], m.radio[b])]
  <2>1. PreserveNullOptionals(prior, m) = [m EXCEPT !.text = t, !.net = n, !.radio = r]
    BY DEF PreserveNullOptionals
  <2> HIDE DEF t, n, r
  <2>2. [m EXCEPT !.text = t, !.net = n, !.radio = r] =
        [text |-> t, locked |-> m.locked, net |-> n, radio |-> r]
    <3>1. m = [text |-> m.text, locked |-> m.locked, net |-> m.net, radio |-> m.radio]
      BY <1>1
    <3>2. m \in [text : {m.text}, locked : {m.locked}, net : {m.net}, radio : {m.radio}]
      BY <3>1
    <3>3. [m EXCEPT !.text = t, !.net = n, !.radio = r]
             \in [text : {t}, locked : {m.locked}, net : {n}, radio : {r}]
      BY <3>2
    <3>4. QED
      BY <3>3, OneRecord
  <2>3. QED
    BY <2>1, <2>2 DEF t, n, r
<1>3. /\ m.locked = d.locked /\ m.net = ReadNet(d.net)
      /\ \A a \in Text : m.text[a] = ValueOrNull(d.text[a])
      /\ \A b \in Band : m.radio[b] = IF b \in Present
              THEN [f \in Field |-> ValueOrNull(d.radio[b][f])] ELSE Null
  BY <1>1
<1>4. [a \in Text |-> IF prior.text[a] = Null THEN Null ELSE m.text[a]] =
      [a \in Text |-> IF prior.text[a] = Null THEN Null ELSE ValueOrNull(d.text[a])]
  BY <1>3
<1>5. [b \in Band |-> PreserveNullRadio(prior.radio[b], m.radio[b])] =
      [b \in Band |-> ReadRadio(prior, d, b)]
  BY <1>3 DEF ReadRadio
<1>6. QED
  BY <1>2, <1>3, <1>4, <1>5 DEF Read, m

LEMMA ValueOrNullType ==
  ASSUME NEW v \in Value \cup {Empty}
  PROVE  ValueOrNull(v) \in Value \cup {Null} /\ (v \in Value => ValueOrNull(v) = v)
<1>1. QED
  BY NoValueAssumption DEF ValueOrNull

LEMMA ReadNetType ==
  ASSUME NEW n \in {Null} \cup Static \cup Dhcp(Value \cup {Empty})
  PROVE  ReadNet(n) \in {Null} \cup [type : {"static", "dhcp"}, ip : Value \cup {Null}]
<1>1. CASE n = Null
  BY <1>1 DEF ReadNet
<1>2. CASE n # Null
  <2>1. n \in [type : {"static", "dhcp"}, ip : Value \cup {Empty}]
    BY <1>2 DEF Static, Dhcp
  <2>2. ReadNet(n) = [n EXCEPT !.ip = ValueOrNull(n.ip)] /\ n.ip \in Value \cup {Empty}
    BY <1>2, <2>1 DEF ReadNet
  <2>3. ValueOrNull(n.ip) \in Value \cup {Null}
    BY <2>2, ValueOrNullType
  <2>4. QED
    BY <2>1, <2>2, <2>3
<1>3. QED
  BY <1>1, <1>2

LEMMA ReadType ==
  ASSUME NEW prior \in Prior, NEW d \in Stored
  PROVE  Read(prior, d) \in Model
<1>1. ASSUME NEW a \in Text
      PROVE  (IF prior.text[a] = Null THEN Null ELSE ValueOrNull(d.text[a])) \in Value \cup {Null}
  BY StoredFields, ValueOrNullType
<1>2. PreserveNet(prior.net, ReadNet(d.net))
         \in {Null} \cup [type : {"static", "dhcp"}, ip : Value \cup {Null}]
  <2> DEFINE n == ReadNet(d.net)
  <2>1. n \in {Null} \cup [type : {"static", "dhcp"}, ip : Value \cup {Null}]
    BY StoredFields, ReadNetType
  <2> HIDE DEF n
  <2>2. n # Null => [n EXCEPT !.ip = Null] \in [type : {"static", "dhcp"}, ip : Value \cup {Null}]
    BY <2>1
  <2>3. QED
    BY <2>1, <2>2 DEF PreserveNet, n
<1>3. ASSUME NEW b \in Band
      PROVE  ReadRadio(prior, d, b) \in {Null} \cup [Field -> Value \cup {Null}]
  <2> DEFINE r == IF b \in Present THEN [f \in Field |-> ValueOrNull(d.radio[b][f])] ELSE Null
  <2>1. r = Null \/ r \in [Field -> Value \cup {Null}]
    BY StoredFields, ValueOrNullType
  <2>2. ReadRadio(prior, d, b) = PreserveNullRadio(prior.radio[b], r)
    BY DEF ReadRadio
  <2> HIDE DEF r
  <2>3. QED
    BY <2>1, <2>2 DEF PreserveNullRadio
<1>4. d.locked \in BOOLEAN
  BY StoredFields
<1>5. QED
  BY <1>1, <1>2, <1>3, <1>4, ReadFields DEF Model

\* What the device has is what is read, when the schema can say it.
LEMMA ReadAgrees ==
  ASSUME config \in Configuration, NEW d \in Stored, Has(d), Representable
  PROVE  Read(config, d) = config
<1>1. ASSUME NEW a \in Text
      PROVE  config.text[a] = IF config.text[a] = Null THEN Null ELSE ValueOrNull(d.text[a])
  <2>1. config.text[a] # Null => config.text[a] \in Value /\ d.text[a] = config.text[a]
    BY ConfigFields DEF Has, Representable
  <2>2. QED
    BY <2>1, ValueOrNullType
<1>2. config.net = PreserveNet(config.net, ReadNet(d.net))
  <2>1. CASE config.net = Null
    BY <2>1 DEF PreserveNet
  <2>2. CASE config.net # Null /\ config.net \in Static
    <3>1. d.net = config.net
      BY <2>2 DEF Has, Static
    <3>2. /\ config.net.ip \in Value /\ config.net = [type |-> "static", ip |-> config.net.ip]
      BY <2>2 DEF Static
    <3>3. ReadNet(d.net) = config.net
      BY <2>2, <3>1, <3>2, ValueOrNullType DEF ReadNet
    <3>4. QED
      BY <2>2, <3>2, <3>3, NoValueAssumption DEF PreserveNet
  <2>3. CASE config.net # Null /\ config.net \in Dhcp({Null})
    <3>1. config.net = [type |-> "dhcp", ip |-> Null] /\ config.net.ip = Null
      BY <2>3 DEF Dhcp
    <3>2. d.net \in Dhcp(Value \cup {Empty})
      <4>1. {Null} \subseteq Value \cup {Null, Empty}
        OBVIOUS
      <4>2. d.net = config.net => d.net \notin Static /\ d.net # Null
        BY <2>3, <3>1 DEF Static
      <4>3. QED
        BY <2>3, <4>2, StoredFields DEF Has
    <3>3. d.net = [type |-> "dhcp", ip |-> d.net.ip] /\ d.net.ip \in Value \cup {Empty}
      BY <3>2 DEF Dhcp
    <3>4. d.net # Null
      BY <3>2, NoValueAssumption DEF Dhcp
    <3>5. ReadNet(d.net) = [type |-> "dhcp", ip |-> ValueOrNull(d.net.ip)]
      BY <3>3, <3>4 DEF ReadNet
    <3>6. ValueOrNull(d.net.ip) \in Value \cup {Null}
      BY <3>3, ValueOrNullType
    <3>7. ReadNet(d.net) # Null
      BY <3>5, <3>6, NoValueAssumption
    <3>8. QED
      BY <2>3, <3>1, <3>5, <3>7 DEF PreserveNet
  <2>4. QED
    BY <2>1, <2>2, <2>3, ConfigFields
<1>3. ASSUME NEW b \in Band PROVE config.radio[b] = ReadRadio(config, d, b)
  <2>1. CASE config.radio[b] = Null
    BY <2>1 DEF ReadRadio, PreserveNullRadio
  <2>2. CASE config.radio[b] # Null
    <3> DEFINE r == [f \in Field |-> ValueOrNull(d.radio[b][f])]
    <3>1. b \in Present /\ config.radio[b] \in [Field -> Value \cup {Null}]
      BY <2>2, ConfigFields DEF Representable
    <3>2. \A f \in Field : config.radio[b][f] # Null =>
             config.radio[b][f] \in Value /\ d.radio[b][f] = config.radio[b][f]
      BY <2>2, <3>1 DEF Has, Planned
    <3>3. \A f \in Field : config.radio[b][f] = IF config.radio[b][f] = Null THEN Null ELSE r[f]
      BY <3>2, ValueOrNullType
    <3>4. r \in [Field -> Value \cup {Null}]
      BY <3>1, StoredFields, ValueOrNullType
    <3>5. ReadRadio(config, d, b) = PreserveNullRadio(config.radio[b], r)
      BY <3>1 DEF ReadRadio
    <3> HIDE DEF r
    <3>6. r # Null
      BY <3>4, NoValueAssumption
    <3>7. QED
      BY <2>2, <3>1, <3>3, <3>5, <3>6 DEF PreserveNullRadio
  <2>3. QED
    BY <2>1, <2>2
<1>4. d.locked = config.locked
  BY DEF Has
<1>5. config = [text |-> [a \in Text |-> config.text[a]], locked |-> config.locked,
                net |-> config.net, radio |-> [b \in Band |-> config.radio[b]]]
  BY DEF Configuration
<1>6. [a \in Text |-> config.text[a]] =
        [a \in Text |-> IF config.text[a] = Null THEN Null ELSE ValueOrNull(d.text[a])]
  BY <1>1
<1>7. [b \in Band |-> config.radio[b]] = [b \in Band |-> ReadRadio(config, d, b)]
  BY <1>3
<1>8. QED
  BY <1>2, <1>4, <1>5, <1>6, <1>7, ReadFields

(***************************************************************************)
(* Steps.                                                                  *)
(***************************************************************************)

LEMMA ListedType ==
  ASSUME DeviceType, Listed # Gone
  PROVE  Listed \in Stored
<1>1. QED
  BY DEF DeviceType, Listed

\* A walk that ends without a request leaves nothing of its process behind.
LEMMA WalkEnds ==
  ASSUME IInv, EndWalk, UNCHANGED <<dev, last, raced>>, state' \in Model \cup {Untracked},
         \/ settled' \in {"no", "applying"}
         \/ /\ settled' = "yes" /\ dev # Gone /\ Has(dev)
            /\ Representable => state' = config
  PROVE  IInv'
<1>1. /\ pc' = "idle" /\ cached' = NoList /\ inflight' = NoList /\ base' = NoList
      /\ config' = config
  BY DEF EndWalk
<1>2. DeviceType' /\ RunType'
  BY <1>1 DEF IInv, DeviceType, RunType
<1>3. FlowOK' /\ MergeOK'
  BY <1>1 DEF FlowOK, MergeOK
<1>4. SettingsKept'
  BY DEF IInv, SettingsKept
<1>5. SettledOK'
  BY <1>1 DEF SettledOK, Has, Representable, Planned
<1>6. QED
  BY <1>2, <1>3, <1>4, <1>5 DEF IInv

LEMMA InitIInv == Init => IInv
<1> SUFFICES ASSUME Init PROVE IInv
  OBVIOUS
<1>1. PICK v \in Value :
         dev = [text |-> [a \in Text |-> v], locked |-> FALSE, net |-> Null,
                radio |-> [b \in Present |-> [f \in Field |-> v]]]
  BY DEF Init
<1>2. dev \in Stored
  BY <1>1 DEF Stored, Table
<1>3. DeviceType /\ RunType
  BY <1>2, AllNullType DEF Init, DeviceType, RunType
<1>4. FlowOK /\ MergeOK /\ SettledOK
  BY DEF Init, FlowOK, MergeOK, SettledOK
<1>5. SettingsKept
  BY DEF Init, SettingsKept
<1>6. QED
  BY <1>3, <1>4, <1>5 DEF IInv

LEMMA EditType ==
  ASSUME config \in Configuration, EditConfig
  PROVE  config' \in Configuration
<1>1. CASE \E a \in Text, v \in Value \cup {Null, Empty} : config' = [config EXCEPT !.text[a] = v]
  BY <1>1 DEF Configuration
<1>2. CASE config' = [config EXCEPT !.locked = ~config.locked]
  BY <1>2 DEF Configuration
<1>3. CASE \E n \in {Null} \cup Static \cup Dhcp({Null}) : config' = [config EXCEPT !.net = n]
  BY <1>3 DEF Configuration
<1>4. CASE \E b \in Band, s \in {Null} \cup [Field -> Value \cup {Null, Empty}] :
              config' = [config EXCEPT !.radio[b] = s]
  BY <1>4 DEF Configuration
<1>5. QED
  BY <1>1, <1>2, <1>3, <1>4 DEF EditConfig

\* The device after the request, and what it was meant to become.
LEMMA PutFacts ==
  ASSUME IInv, pc = "put", dev # Gone, dev' \in PutDevice, last' = Meant(dev'),
         raced' = {c \in raced : ~Planned(c[1], c[2])}, config' = config
  PROVE  /\ dev' \in Stored /\ last' \in Stored /\ raced' \subseteq Cell
         /\ SettingsKept' /\ Has(dev)'
<1> DEFINE d == dev'
           radio == IF PlansRadio THEN MergeRadio(base) ELSE dev.radio
<1>1. PICK n \in PutNet(dev.net) :
         d = [text |-> PutText(dev.text), locked |-> config.locked, net |-> n, radio |-> radio]
  BY DEF PutDevice
<1>2. /\ d.text = PutText(dev.text) /\ d.locked = config.locked /\ d.net = n /\ d.radio = radio
  BY <1>1
<1>3. /\ config \in Configuration /\ dev \in Stored /\ last \in Stored /\ raced \subseteq Cell
      /\ PlansRadio => base \in Table
  BY DEF IInv, DeviceType, RunType, FlowOK
<1>4. \A a \in Text : d.text[a] = IF ~Sent(a, config.text[a]) THEN dev.text[a]
                                  ELSE IF config.text[a] = Null THEN Empty ELSE config.text[a]
  BY <1>2 DEF PutText
<1>5. PutText(dev.text) \in [Text -> Value \cup {Empty}]
  BY <1>3, ConfigFields, StoredFields DEF PutText
<1>6. /\ n \in {Null} \cup Static \cup Dhcp(Value \cup {Empty})
      /\ config.net = Null => n = dev.net
      /\ config.net # Null => \/ n = config.net
                              \/ config.net.type = "dhcp" /\ n \in Dhcp(Value \cup {Empty})
  <2>1. CASE config.net = Null
    BY <1>3, <2>1, StoredFields DEF PutNet
  <2>2. CASE config.net # Null /\ config.net \in Static
    <3>1. config.net.type = "static"
      BY <2>2 DEF Static
    <3>2. n = config.net
      BY <2>2, <3>1 DEF PutNet
    <3>3. QED
      BY <2>2, <3>2
  <2>3. CASE config.net # Null /\ config.net \in Dhcp({Null})
    BY <2>3 DEF PutNet, Dhcp
  <2>4. QED
    BY <1>3, <2>1, <2>2, <2>3, ConfigFields
<1>7. ASSUME NEW b \in Present, NEW f \in Field
      PROVE  /\ PlansRadio => radio[b][f] = IF Planned(b, f) THEN config.radio[b][f] ELSE base[b][f]
             /\ Planned(b, f) => PlansRadio
             /\ radio[b][f] \in Value \cup {Empty}
  <2>1. b \in Band
    BY InputAssumption DEF InputAssumption
  <2>2. Planned(b, f) => PlansRadio
    BY <2>1 DEF Planned, PlansRadio
  <2>3. PlansRadio => radio[b][f] = IF Planned(b, f) THEN config.radio[b][f] ELSE base[b][f]
    BY DEF MergeRadio
  <2>4. Planned(b, f) => config.radio[b][f] \in Value \cup {Empty}
    BY <1>3, <2>1, ConfigFields
  <2>5. PlansRadio => base[b][f] \in Value \cup {Empty}
    BY <1>3 DEF Table
  <2>6. ~PlansRadio => radio[b][f] \in Value \cup {Empty}
    BY <1>3, StoredFields
  <2>7. QED
    BY <2>2, <2>3, <2>4, <2>5, <2>6
<1>8. radio \in Table
  <2>1. CASE PlansRadio
    <3>1. radio = [b \in Present |-> [f \in Field |-> radio[b][f]]]
      BY <2>1 DEF MergeRadio
    <3> HIDE DEF radio
    <3>2. QED
      BY <1>7, <3>1 DEF Table
  <2>2. CASE ~PlansRadio
    BY <1>3, <2>2, StoredFields
  <2>3. QED
    BY <2>1, <2>2
<1> HIDE DEF radio
<1>9. d \in Stored
  <2>1. config.locked \in BOOLEAN
    BY <1>3, ConfigFields
  <2>2. QED
    BY <1>1, <1>5, <1>6, <1>8, <2>1 DEF Stored
<1> HIDE DEF d
<1>10. \A a \in Text :
          last'.text[a] = IF config.text[a] # Null /\ Sent(a, config.text[a])
                          THEN d.text[a] ELSE last.text[a]
  BY DEF Meant, d
<1>11. /\ last'.locked = d.locked
       /\ last'.net = IF config.net = Null THEN last.net ELSE d.net
  BY DEF Meant, d
<1>12. \A b \in Present, f \in Field :
          last'.radio[b][f] = IF Planned(b, f) THEN config.radio[b][f] ELSE last.radio[b][f]
  BY DEF Meant, d
<1>13. last' \in Stored
  <2> DEFINE t == [a \in Text |-> IF config.text[a] # Null /\ Sent(a, config.text[a])
                                  THEN d.text[a] ELSE last.text[a]]
             m == IF config.net = Null THEN last.net ELSE d.net
             r == [b \in Present |-> [f \in Field |->
                     IF Planned(b, f) THEN config.radio[b][f] ELSE last.radio[b][f]]]
  <2>1. last' = [text |-> t, locked |-> d.locked, net |-> m, radio |-> r]
    BY DEF Meant, d
  <2>2. t \in [Text -> Value \cup {Empty}]
    BY <1>3, <1>9, StoredFields
  <2>3. m \in {Null} \cup Static \cup Dhcp(Value \cup {Empty}) /\ d.locked \in BOOLEAN
    BY <1>3, <1>9, StoredFields
  <2>4. ASSUME NEW b \in Present, NEW f \in Field
        PROVE  (IF Planned(b, f) THEN config.radio[b][f] ELSE last.radio[b][f]) \in Value \cup {Empty}
    <3>1. b \in Band
      BY InputAssumption DEF InputAssumption
    <3>2. last.radio[b][f] \in Value \cup {Empty}
      BY <1>3, StoredFields
    <3>3. QED
      BY <1>3, <3>1, <3>2, ConfigFields
  <2>5. r \in Table
    BY <2>4 DEF Table
  <2> HIDE DEF t, m, r
  <2>6. QED
    BY <2>1, <2>2, <2>3, <2>5 DEF Stored
<1>14. SettingsKept'
  <2>1. ASSUME NEW a \in Text
        PROVE  d.text[a] = last'.text[a] \/ (a \in Always /\ d.text[a] = Empty)
    BY <1>4, <1>10 DEF IInv, SettingsKept, Sent
  <2>2. d.net = last'.net
    BY <1>2, <1>6, <1>11 DEF IInv, SettingsKept
  <2>3. ASSUME NEW c \in Cell \ raced'
        PROVE  d.radio[c[1]][c[2]] = last'.radio[c[1]][c[2]]
    <3>1. c[1] \in Present /\ c[2] \in Field
      BY DEF Cell
    <3>2. CASE Planned(c[1], c[2])
      BY <1>2, <1>7, <1>12, <3>1, <3>2
    <3>3. CASE ~Planned(c[1], c[2])
      <4>1. c \in Cell \ raced
        BY <3>3
      <4>2. /\ dev.radio[c[1]][c[2]] = last.radio[c[1]][c[2]]
            /\ PlansRadio => base[c[1]][c[2]] = last.radio[c[1]][c[2]]
        BY <4>1 DEF IInv, SettingsKept, MergeOK, Shows
      <4>3. QED
        BY <1>2, <1>7, <1>12, <3>1, <3>3, <4>2 DEF radio
    <3>4. QED
      BY <3>2, <3>3
  <2>4. QED
    BY <1>11, <2>1, <2>2, <2>3 DEF SettingsKept, d
<1>15. Has(d)
  <2>1. \A a \in Text : config.text[a] \notin {Null, Empty} => d.text[a] = config.text[a]
    BY <1>4 DEF Sent
  <2>2. \A b \in Present, f \in Field : Planned(b, f) => d.radio[b][f] = config.radio[b][f]
    BY <1>2, <1>7
  <2>3. QED
    BY <1>2, <1>6, <2>1, <2>2 DEF Has
<1>16. Has(dev)'
  BY <1>15 DEF Has, Planned, d
<1>17. raced' \subseteq Cell
  BY <1>3
<1>18. QED
  BY <1>9, <1>13, <1>14, <1>16, <1>17 DEF d

\* Somebody else gives one setting another value, and that is what it was given last.
LEMMA OutsideFacts ==
  ASSUME IInv, OutsideEdit
  PROVE  DeviceType' /\ SettingsKept' /\ MergeOK'
<1>1. /\ dev # Gone /\ dev \in Stored /\ last \in Stored /\ raced \subseteq Cell
      /\ UNCHANGED <<cached, inflight, config, pc, base>>
  BY DEF OutsideEdit, IInv, DeviceType
<1>2. ASSUME dev' \in Stored, dev'.radio = dev.radio,
             last' = [dev' EXCEPT !.radio = last.radio, !.text = [a \in Text |->
                         IF dev'.text[a] = dev.text[a] THEN last.text[a] ELSE dev'.text[a]]],
             raced' = raced
      PROVE  DeviceType' /\ SettingsKept' /\ MergeOK'
  <2> DEFINE d == dev'
             t == [a \in Text |-> IF d.text[a] = dev.text[a] THEN last.text[a] ELSE d.text[a]]
  <2>1. t \in [Text -> Value \cup {Empty}]
    BY <1>1, <1>2, StoredFields
  <2>2. last' = [d EXCEPT !.radio = last.radio, !.text = t]
    BY <1>2
  <2>3. last.radio \in Table
    BY <1>1, StoredFields
  <2>4. \A a \in Text : t[a] = IF d.text[a] = dev.text[a] THEN last.text[a] ELSE d.text[a]
    OBVIOUS
  <2> HIDE DEF d, t
  <2>5. d \in Stored /\ d.radio = dev.radio
    BY <1>2 DEF d
  <2>6. /\ last' \in Stored /\ last'.radio = last.radio /\ last'.text = t
        /\ last'.locked = d.locked /\ last'.net = d.net
    BY <2>1, <2>2, <2>3, <2>5 DEF Stored
  <2>7. DeviceType'
    BY <1>1, <1>2, <2>5, <2>6 DEF IInv, DeviceType, d
  <2>8. SettingsKept'
    <3>1. \A a \in Text : d.text[a] = last'.text[a] \/ (a \in Always /\ d.text[a] = Empty)
      BY <1>1, <2>4, <2>6 DEF IInv, SettingsKept
    <3>2. \A c \in Cell \ raced : d.radio[c[1]][c[2]] = last'.radio[c[1]][c[2]]
      BY <1>1, <2>5, <2>6 DEF IInv, SettingsKept
    <3>3. QED
      BY <1>2, <2>6, <3>1, <3>2 DEF SettingsKept, d
  <2>9. MergeOK'
    BY <1>1, <1>2, <2>6 DEF IInv, MergeOK, ListShows, Shows, PlansRadio
  <2>10. QED
    BY <2>7, <2>8, <2>9
<1>3. ASSUME NEW c \in Cell, NEW v \in Value,
             dev' = [dev EXCEPT !.radio[c[1]][c[2]] = v],
             last' = [last EXCEPT !.radio[c[1]][c[2]] = v],
             raced' = IF <<cached, inflight, base>> = <<NoList, NoList, NoList>>
                      THEN raced \ {c} ELSE raced \cup {c}
      PROVE  DeviceType' /\ SettingsKept' /\ MergeOK'
  <2>1. /\ c[1] \in Present /\ c[2] \in Field
        /\ \A e \in Cell : e[1] \in Present /\ e[2] \in Field
        /\ \A e \in Cell : e # c => e[1] # c[1] \/ e[2] # c[2]
    BY DEF Cell
  <2>2. ASSUME NEW s \in Stored, NEW r, r = [s EXCEPT !.radio[c[1]][c[2]] = v]
        PROVE  /\ r \in Stored /\ r.text = s.text /\ r.locked = s.locked /\ r.net = s.net
               /\ r.radio[c[1]][c[2]] = v
               /\ \A e \in Cell : e # c => r.radio[e[1]][e[2]] = s.radio[e[1]][e[2]]
    <3> DEFINE m == [s.radio EXCEPT ![c[1]][c[2]] = v]
    <3>1. s.radio \in Table
      BY StoredFields
    <3>2. m \in Table
      BY <2>1, <3>1 DEF Table
    <3>3. /\ m[c[1]][c[2]] = v
          /\ \A e \in Cell : e # c => m[e[1]][e[2]] = s.radio[e[1]][e[2]]
      BY <2>1, <3>1 DEF Table
    <3>4. r = [s EXCEPT !.radio = m]
      BY <2>2 DEF Stored
    <3> HIDE DEF m
    <3>5. r \in Stored /\ r.text = s.text /\ r.locked = s.locked /\ r.net = s.net /\ r.radio = m
      BY <3>2, <3>4 DEF Stored
    <3>6. QED
      BY <3>3, <3>5
  <2>3. /\ dev' \in Stored /\ dev'.text = dev.text /\ dev'.locked = dev.locked
        /\ dev'.net = dev.net /\ dev'.radio[c[1]][c[2]] = v
        /\ \A e \in Cell : e # c => dev'.radio[e[1]][e[2]] = dev.radio[e[1]][e[2]]
    BY <1>1, <1>3, <2>2
  <2>4. /\ last' \in Stored /\ last'.text = last.text /\ last'.locked = last.locked
        /\ last'.net = last.net /\ last'.radio[c[1]][c[2]] = v
        /\ \A e \in Cell : e # c => last'.radio[e[1]][e[2]] = last.radio[e[1]][e[2]]
    BY <1>1, <1>3, <2>2
  <2>5. raced' \subseteq Cell /\ \A e \in Cell \ raced' : e = c \/ e \in Cell \ raced
    BY <1>1, <1>3
  <2>6. cached # NoList \/ inflight # NoList \/ base # NoList =>
           \A e \in Cell \ raced' : e # c /\ e \in Cell \ raced
    BY <1>3
  <2>7. DeviceType'
    BY <1>1, <2>3, <2>4, <2>5 DEF IInv, DeviceType
  <2>8. SettingsKept'
    BY <1>1, <2>3, <2>4, <2>5 DEF IInv, SettingsKept
  <2>9. ASSUME NEW table, Shows(table),
               cached # NoList \/ inflight # NoList \/ base # NoList
        PROVE  \A e \in Cell \ raced' : table[e[1]][e[2]] = last'.radio[e[1]][e[2]]
    BY <2>4, <2>6, <2>9 DEF Shows
  <2>10. MergeOK'
    <3>1. pc \in {"running", "merge"} => ListShows(cached)' /\ ListShows(inflight)'
      BY <1>1, <2>9 DEF IInv, MergeOK, ListShows, Shows
    <3>2. pc = "put" /\ PlansRadio => Shows(base)'
      BY <1>1, <2>9 DEF IInv, MergeOK, FlowOK, Shows
    <3>3. QED
      BY <1>1, <3>1, <3>2 DEF MergeOK, PlansRadio
  <2>11. QED
    BY <2>7, <2>8, <2>10
<1>4. ASSUME \/ \E a \in Text, v \in Value \cup {Empty} : dev' = [dev EXCEPT !.text[a] = v]
             \/ dev' = [dev EXCEPT !.locked = ~dev.locked]
             \/ \E n \in Static \cup Dhcp({Empty}) : dev' = [dev EXCEPT !.net = n]
      PROVE  dev' \in Stored /\ dev'.radio = dev.radio
  <2>1. ASSUME NEW a \in Text, NEW v \in Value \cup {Empty}, dev' = [dev EXCEPT !.text[a] = v]
        PROVE  dev' \in Stored /\ dev'.radio = dev.radio
    BY <1>1, <2>1 DEF Stored
  <2>2. ASSUME dev' = [dev EXCEPT !.locked = ~dev.locked]
        PROVE  dev' \in Stored /\ dev'.radio = dev.radio
    BY <1>1, <2>2 DEF Stored
  <2>3. ASSUME NEW n \in Static \cup Dhcp({Empty}), dev' = [dev EXCEPT !.net = n]
        PROVE  dev' \in Stored /\ dev'.radio = dev.radio
    <3>1. n \in {Null} \cup Static \cup Dhcp(Value \cup {Empty})
      BY DEF Dhcp
    <3>2. QED
      BY <1>1, <2>3, <3>1 DEF Stored
  <2>4. QED
    BY <1>4, <2>1, <2>2, <2>3
<1>5. QED
  BY <1>2, <1>3, <1>4 DEF OutsideEdit

LEMMA StepIInv == IInv /\ [Next]_vars => IInv'
<1> SUFFICES ASSUME IInv, [Next]_vars PROVE IInv'
  OBVIOUS
<1> USE DEF IInv
<1>1. CASE EditConfig
  <2>1. /\ pc = "idle" /\ settled' = "no"
        /\ UNCHANGED <<dev, cached, inflight, state, pc, base, last, raced>>
    BY <1>1 DEF EditConfig
  <2>2. DeviceType' /\ RunType'
    BY <1>1, <2>1, EditType DEF DeviceType, RunType
  <2>3. FlowOK' /\ MergeOK' /\ SettledOK'
    BY <2>1 DEF FlowOK, MergeOK, SettledOK
  <2>4. SettingsKept'
    BY <2>1 DEF SettingsKept
  <2>5. QED
    BY <2>2, <2>3, <2>4
<1>2. CASE NewProcess
  <2>1. /\ pc = "idle" /\ pc' = "running"
        /\ UNCHANGED <<dev, cached, inflight, config, state, base, settled, last, raced>>
    BY <1>2 DEF NewProcess
  <2>2. DeviceType' /\ RunType' /\ FlowOK' /\ SettingsKept'
    BY <2>1 DEF DeviceType, RunType, FlowOK, SettingsKept
  <2>3. MergeOK'
    BY <2>1 DEF FlowOK, MergeOK, ListShows
  <2>4. SettledOK'
    BY <2>1 DEF SettledOK, Has, Planned, Representable
  <2>5. QED
    BY <2>2, <2>3, <2>4
<1>3. CASE Refresh
  <2>1. /\ EndWalk /\ UNCHANGED <<dev, settled, last, raced>>
        /\ state # Untracked /\ state \in Model
        /\ state' = IF Listed = Gone THEN Untracked ELSE Read(state, Listed)
    BY <1>3 DEF Refresh, RunType
  <2>2. state' \in Model \cup {Untracked}
    BY <2>1, ListedType, ReadType, ModelIsPrior
  <2>3. settled = "yes" => Listed = dev /\ dev # Gone /\ Has(dev)
    BY DEF SettledOK, Listed
  <2>4. settled = "yes" /\ Representable => state' = config
    BY <2>1, <2>3, ReadAgrees DEF SettledOK, RunType, DeviceType
  <2>5. settled' \in {"no", "applying"} \/ settled' = "yes"
    BY <2>1 DEF RunType
  <2>6. QED
    BY <2>1, <2>2, <2>3, <2>4, <2>5, WalkEnds
<1>4. CASE Import
  <2>1. /\ EndWalk /\ UNCHANGED <<dev, last, raced>> /\ settled' = "no"
        /\ state' = IF Listed = Gone THEN Untracked ELSE Read(AllNull, Listed)
    BY <1>4 DEF Import
  <2>2. state' \in Model \cup {Untracked}
    BY <2>1, ListedType, ReadType, AllNullType
  <2>3. QED
    BY <2>1, <2>2, WalkEnds
<1>5. CASE StartApply
  <2>1. /\ pc = "running" /\ settled' = "applying"
        /\ pc' = IF PlansRadio THEN "merge" ELSE "put"
        /\ UNCHANGED <<dev, cached, inflight, config, state, base, last, raced>>
    BY <1>5 DEF StartApply
  <2>2. DeviceType' /\ RunType' /\ SettingsKept'
    BY <2>1 DEF DeviceType, RunType, SettingsKept
  <2>3. FlowOK' /\ SettledOK'
    BY <2>1 DEF FlowOK, SettledOK, PlansRadio
  <2>4. MergeOK'
    BY <2>1 DEF MergeOK, ListShows, Shows, PlansRadio
  <2>5. QED
    BY <2>2, <2>3, <2>4
<1>6. CASE NoOperation
  <2>1. EndWalk /\ UNCHANGED <<dev, state, settled, last, raced>>
    BY <1>6 DEF NoOperation
  <2>2. \/ settled' \in {"no", "applying"}
        \/ settled' = "yes" /\ dev # Gone /\ Has(dev) /\ (Representable => state' = config)
    BY <2>1 DEF RunType, SettledOK
  <2>3. QED
    BY <2>1, <2>2, WalkEnds DEF RunType
<1>7. CASE ReadForMerge
  <2>1. /\ pc = "merge" /\ pc' = "put" /\ Listed # Gone /\ base' = Listed.radio
        /\ cached' = IF Caching THEN Listed ELSE NoList
        /\ UNCHANGED <<dev, inflight, config, state, settled, last, raced>>
    BY <1>7 DEF ReadForMerge, KeepList
  <2>2. Listed \in Stored /\ base' \in Table
    BY <2>1, ListedType, StoredFields
  <2>3. DeviceType' /\ RunType' /\ SettingsKept'
    BY <2>1, <2>2 DEF DeviceType, RunType, SettingsKept
  <2>4. FlowOK' /\ SettledOK'
    BY <2>1, <2>2, NoValueAssumption DEF FlowOK, SettledOK, RunType
  <2>5. dev # Gone => Shows(Listed.radio)
    BY <2>1 DEF MergeOK, ListShows, Listed, SettingsKept, Shows
  <2>6. MergeOK'
    BY <2>1, <2>5 DEF MergeOK, Shows
  <2>7. QED
    BY <2>3, <2>4, <2>6
<1>8. CASE Put
  <2>1. /\ pc = "put" /\ dev # Gone /\ dev' \in PutDevice /\ last' = Meant(dev')
        /\ raced' = {c \in raced : ~Planned(c[1], c[2])}
        /\ config' = config /\ state' = state
    BY <1>8 DEF Put, EndWalk
  <2>2. /\ dev' \in Stored /\ last' \in Stored /\ raced' \subseteq Cell
        /\ SettingsKept' /\ Has(dev)'
    BY <2>1, PutFacts
  <2>3. CASE /\ cached' = NoList /\ pc' = "reread" /\ base' = NoList
             /\ UNCHANGED <<inflight, settled>>
    <3>1. DeviceType' /\ RunType'
      BY <2>1, <2>2, <2>3 DEF DeviceType, RunType
    <3>2. FlowOK' /\ MergeOK' /\ SettledOK'
      BY <2>1, <2>2, <2>3 DEF FlowOK, MergeOK, SettledOK
    <3>3. QED
      BY <2>2, <3>1, <3>2
  <2>4. CASE settled' = "no" /\ EndWalk
    <3>1. DeviceType' /\ RunType'
      BY <2>1, <2>2, <2>4 DEF DeviceType, RunType, EndWalk
    <3>2. FlowOK' /\ MergeOK' /\ SettledOK'
      BY <2>4 DEF FlowOK, MergeOK, SettledOK, EndWalk
    <3>3. QED
      BY <2>2, <3>1, <3>2
  <2>5. QED
    BY <1>8, <2>3, <2>4 DEF Put
<1>9. CASE Fail
  BY <1>9, WalkEnds DEF Fail, RunType
<1>10. CASE ReadBack
  <2>1. /\ EndWalk /\ UNCHANGED <<dev, last, raced>> /\ pc = "reread" /\ Listed # Gone
        /\ state' = Read(config, Listed)
        /\ settled' = IF settled = "applying" /\ Listed = dev THEN "yes" ELSE "no"
    BY <1>10 DEF ReadBack
  <2>2. Listed \in Stored /\ config \in Configuration
    BY <2>1, ListedType DEF RunType
  <2>3. state' \in Model
    BY <2>1, <2>2, ReadType, ConfigIsPrior
  <2>4. settled' = "yes" => dev # Gone /\ Has(dev) /\ Listed = dev
    BY <2>1 DEF SettledOK
  <2>5. settled' = "yes" /\ Representable => state' = config
    BY <2>1, <2>2, <2>4, ReadAgrees
  <2>6. settled' \in {"no", "yes"}
    BY <2>1
  <2>7. QED
    BY <2>1, <2>3, <2>4, <2>5, <2>6, WalkEnds
<1>11. CASE Delete
  BY <1>11, WalkEnds DEF Delete
<1>12. CASE OtherListServed
  <2>1. /\ inflight' = dev /\ pc # "idle"
        /\ UNCHANGED <<dev, cached, config, state, pc, base, settled, last, raced>>
    BY <1>12 DEF OtherListServed
  <2>2. DeviceType' /\ RunType' /\ FlowOK' /\ SettingsKept'
    BY <2>1 DEF DeviceType, RunType, FlowOK, SettingsKept, PlansRadio
  <2>3. dev # Gone => Shows(dev.radio)
    BY DEF SettingsKept, Shows
  <2>4. MergeOK'
    BY <2>1, <2>3 DEF MergeOK, ListShows, Shows, PlansRadio
  <2>5. SettledOK'
    BY <2>1 DEF SettledOK, Has, Planned, Representable
  <2>6. QED
    BY <2>2, <2>4, <2>5
<1>13. CASE OtherListCached
  <2>1. /\ cached' = inflight /\ inflight' = NoList /\ inflight # NoList
        /\ UNCHANGED <<dev, config, state, pc, base, settled, last, raced>>
    BY <1>13 DEF OtherListCached
  <2>2. DeviceType' /\ RunType' /\ FlowOK' /\ SettingsKept'
    BY <2>1 DEF DeviceType, RunType, FlowOK, SettingsKept, PlansRadio
  <2>3. MergeOK'
    BY <2>1 DEF MergeOK, ListShows, Shows, PlansRadio
  <2>4. SettledOK'
    BY <2>1 DEF SettledOK, Has, Planned, Representable
  <2>5. QED
    BY <2>2, <2>3, <2>4
<1>14. CASE OutsideEdit
  <2>1. DeviceType' /\ SettingsKept' /\ MergeOK'
    BY <1>14, OutsideFacts
  <2>2. settled' = "no" /\ UNCHANGED <<cached, inflight, config, state, pc, base>>
    BY <1>14 DEF OutsideEdit
  <2>3. RunType' /\ FlowOK' /\ SettledOK'
    BY <2>2 DEF RunType, FlowOK, SettledOK, PlansRadio
  <2>4. QED
    BY <2>1, <2>3
<1>15. CASE Forget
  <2>1. /\ dev' = Gone /\ settled' = "no"
        /\ UNCHANGED <<cached, inflight, config, state, pc, base, last, raced>>
    BY <1>15 DEF Forget
  <2>2. DeviceType' /\ RunType' /\ FlowOK'
    BY <2>1 DEF DeviceType, RunType, FlowOK, PlansRadio
  <2>3. SettingsKept' /\ MergeOK' /\ SettledOK'
    BY <2>1 DEF SettingsKept, MergeOK, SettledOK
  <2>4. QED
    BY <2>2, <2>3
<1>16. CASE UNCHANGED vars
  <2>1. UNCHANGED <<dev, cached, inflight, config, state, pc, base, settled, last, raced>>
    BY <1>16 DEF vars
  <2>2. DeviceType' /\ RunType' /\ FlowOK' /\ SettingsKept'
    BY <2>1 DEF DeviceType, RunType, FlowOK, SettingsKept, PlansRadio
  <2>3. MergeOK' /\ SettledOK'
    BY <2>1 DEF MergeOK, ListShows, Shows, PlansRadio, SettledOK, Has, Planned, Representable
  <2>4. QED
    BY <2>2, <2>3
<1>17. QED
  BY <1>1, <1>2, <1>3, <1>4, <1>5, <1>6, <1>7, <1>8, <1>9, <1>10, <1>11, <1>12, <1>13, <1>14,
     <1>15, <1>16 DEF Next

(***************************************************************************)
(* What the resource promises.                                             *)
(***************************************************************************)

\* The strengthened invariant holds in every reachable state.
THEOREM Invariance == Spec => []IInv
<1>1. QED
  BY InitIInv, StepIInv, PTL DEF Spec

\* Every variable keeps its type: what is sent can be stored, and what is read is a model.
THEOREM TypeCorrect == Spec => []TypeOK
<1>1. IInv => TypeOK
  BY DEF IInv, DeviceType, RunType, TypeOK
<1>2. QED
  BY <1>1, Invariance, PTL

\* However applies, failures, slow lists and changes by others interleave, a setting keeps
\* the value it was given last, but for a name or LED switch that is not configured and
\* for a radio field that was changed behind a merge.  (UpdateDevice, GetDevice)
THEOREM NothingIsLost == Spec => []SettingsSurvive
<1>1. IInv => SettingsSurvive
  BY DEF IInv, SettingsKept, SettingsSurvive
<1>2. QED
  BY <1>1, Invariance, PTL

\* What was applied undisturbed is what is stored and read again, unless the schema cannot
\* say it.  (Create, Update, Read, preserveNullOptionals)
THEOREM NoDiffAfterApply == Spec => []NoPerpetualDiff
<1>1. ASSUME IInv PROVE NoPerpetualDiff
  <2>1. SUFFICES ASSUME settled = "yes", Representable
                 PROVE  state = config /\ Read(state, dev) = state
    BY DEF NoPerpetualDiff
  <2>2. /\ state = config /\ Has(dev) /\ dev \in Stored /\ config \in Configuration
    BY <1>1, <2>1 DEF IInv, SettledOK, DeviceType, RunType
  <2>3. QED
    BY <2>1, <2>2, ReadAgrees
<1>2. QED
  BY <1>1, Invariance, PTL
=============================================================================

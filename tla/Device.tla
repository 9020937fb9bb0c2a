------------------------------- MODULE Device -------------------------------
(***************************************************************************)
(* terrifi_device: the settings of one adopted device.                     *)
(*                                                                         *)
(* The resource adopts nothing and deletes nothing.  A PUT sends only the  *)
(* attributes that are configured, always the name and the two flags, and, *)
(* when a radio is configured, the whole radio table: the one the device   *)
(* list shows with the configured fields written over it.  The answer is   *)
(* read back through the same, possibly cached, device list, and what is   *)
(* not configured is dropped from the state again.                         *)
(*                                                                         *)
(* Every Terraform walk runs in a provider process of its own, whose cache *)
(* starts empty and which runs one operation of the resource; in it other  *)
(* goroutines list the same devices.                                       *)
(***************************************************************************)
EXTENDS Naturals

CONSTANTS
    Text,       \* scalar attributes (name, LED, SNMP, outdoor mode, volume)
    Always,     \* those sent even when null (name)
    Led,        \* led_enabled, which has no empty value
    Band, Field,\* radios the schema knows, fields of a radio
    Present,    \* radios the device has
    Value,      \* values of an attribute
    Empty,      \* the empty string, an absent key, led_override = default
    Null,       \* a null attribute or block
    NoList,     \* nothing cached, nothing on the wire
    Untracked,  \* the resource is not in the Terraform state
    Gone,       \* the device is not in the controller's list
    Caching,    \* the provider's response_caching setting
    MaxEdits,   \* bound: changes of the configuration
    MaxOutside  \* bound: changes made by others

ASSUME InputAssumption ==
    /\ Always \cup Led \subseteq Text /\ Present \subseteq Band /\ Caching \in BOOLEAN
    /\ MaxEdits \in Nat /\ MaxOutside \in Nat

VARIABLES
    dev,      \* the controller's device, or Gone
    cached,   \* the device as the cached list shows it, or NoList
    inflight, \* a list answered to another goroutine and not yet cached
    config, state,
    pc,       \* step of the provider process
    base,     \* radio table the merge started from
    \* History variables.
    edits, outside,
    settled,  \* "yes": config was applied with nothing else going on
    last,     \* the value somebody last gave each setting
    raced     \* radio fields others changed behind a list already fetched

vars == <<dev, cached, inflight, config, state, pc, base, edits, outside, settled, last, raced>>

Table == [Present -> [Field -> Value \cup {Empty}]]
Static == [type : {"static"}, ip : Value]
Dhcp(addresses) == [type : {"dhcp"}, ip : addresses]

Stored == [text : [Text -> Value \cup {Empty}], locked : BOOLEAN,
           net : {Null} \cup Static \cup Dhcp(Value \cup {Empty}), radio : Table]

\* ConfigValidators: an address with type static, none with dhcp.
Configuration ==
    [text : [Text -> Value \cup {Null, Empty}], locked : BOOLEAN,
     net : {Null} \cup Static \cup Dhcp({Null}),
     radio : [Band -> {Null} \cup [Field -> Value \cup {Null, Empty}]]]
Model == [text : [Text -> Value \cup {Null}], locked : BOOLEAN,
          net : {Null} \cup [type : {"static", "dhcp"}, ip : Value \cup {Null}],
          radio : [Band -> {Null} \cup [Field -> Value \cup {Null}]]]

\* A null attribute, a null block, an absent key and no table are told from every other.
ASSUME NoValueAssumption ==
    /\ Null \notin Value /\ Empty \notin Value /\ Null # Empty
    /\ Null \notin [Field -> Value \cup {Null, Empty}]
    /\ Null \notin [type : {"static", "dhcp"}, ip : Value \cup {Null, Empty}]
    /\ NoList \notin Table

AllNull == [text |-> [a \in Text |-> Null], locked |-> FALSE,
            net |-> Null, radio |-> [b \in Band |-> Null]]
Cell == Present \X Field

TypeOK ==
    /\ dev \in Stored \cup {Gone}
    /\ cached \in Stored \cup {Gone, NoList}
    /\ inflight \in Stored \cup {Gone, NoList}
    /\ config \in Configuration
    /\ state \in Model \cup {Untracked}
    /\ pc \in {"idle", "running", "merge", "put", "reread"}
    /\ base \in Table \cup {NoList}
    /\ settled \in {"no", "applying", "yes"}
    /\ last \in Stored
    /\ raced \subseteq Cell

Init ==
    /\ \E v \in Value :
          dev = [text |-> [a \in Text |-> v], locked |-> FALSE, net |-> Null,
                 radio |-> [b \in Present |-> [f \in Field |-> v]]]
    /\ last = dev
    /\ cached = NoList /\ inflight = NoList
    /\ config = AllNull /\ state = Untracked
    /\ pc = "idle" /\ base = NoList
    /\ edits = 0 /\ outside = 0 /\ settled = "no" /\ raced = {}

(***************************************************************************)
(* The request: UpdateDevice.                                              *)
(***************************************************************************)

\* Mutant: the payload's strings lose omitempty.
SentAlsoWhenNull(a, v) == TRUE

\* Optional attributes go out only with a value (omitempty); the name always does.
Sent(a, v) == a \in Always \/ v \notin {Null, Empty}

PutText(old) ==
    [a \in Text |-> LET v == config.text[a] IN
        IF ~Sent(a, v) THEN old[a] ELSE IF v = Null THEN Empty ELSE v]

PlansRadio == \E b \in Band : config.radio[b] # Null
Planned(b, f) == config.radio[b] # Null /\ config.radio[b][f] # Null

\* applyPlannedToRadioEntry for every entry of the table that was read.  A band
\* the device lacks has no entry to write to.
MergeRadio(table) ==
    [b \in Present |-> [f \in Field |->
        IF Planned(b, f) THEN config.radio[b][f] ELSE table[b][f]]]

\* The controller's blocks after the PUT.  With DHCP it fills in a leased address.
PutNet(old) ==
    IF config.net = Null THEN {old}
    ELSE IF config.net.type = "static" THEN {config.net}
    ELSE Dhcp(Value \cup {Empty})
PutDevice ==
    {[text |-> PutText(dev.text), locked |-> config.locked, net |-> n,
      radio |-> IF PlansRadio THEN MergeRadio(base) ELSE dev.radio] : n \in PutNet(dev.net)}

(***************************************************************************)
(* The answer: apiToModel, preserveNullOptionals.                          *)
(***************************************************************************)

\* Mutant: the empty string is a value.
VerbatimOrNull(v) == v

\* stringValueOrNull; absent numbers, led_override = default
ValueOrNull(v) == IF v = Empty THEN Null ELSE v

ReadNet(n) == IF n = Null THEN Null ELSE [n EXCEPT !.ip = ValueOrNull(@)]

\* apiToModel
ApiToModel(d) ==
    [text |-> [a \in Text |-> ValueOrNull(d.text[a])], locked |-> d.locked,
     net |-> ReadNet(d.net),
     radio |-> [b \in Band |->
        IF b \in Present THEN [f \in Field |-> ValueOrNull(d.radio[b][f])] ELSE Null]]

\* Mutant: a configured radio is taken over whole.
PreserveWholeRadio(prior, read) == IF prior = Null THEN Null ELSE read

\* preserveNullRadio
PreserveNullRadio(prior, read) ==
    IF prior = Null \/ read = Null THEN Null
    ELSE [f \in Field |-> IF prior[f] = Null THEN Null ELSE read[f]]

PreserveNet(prior, read) ==
    IF prior = Null \/ read = Null THEN Null
    ELSE IF prior.ip = Null THEN [read EXCEPT !.ip = Null] ELSE read

\* preserveNullOptionals
PreserveNullOptionals(prior, m) ==
    [m EXCEPT !.text = [a \in Text |-> IF prior.text[a] = Null THEN Null ELSE @[a]],
              !.net = PreserveNet(prior.net, @),
              !.radio = [b \in Band |-> PreserveNullRadio(prior.radio[b], @[b])]]

Read(prior, d) == PreserveNullOptionals(prior, ApiToModel(d))

(***************************************************************************)
(* The device list and its cache.                                          *)
(***************************************************************************)

\* What GetDevice answers, and the cache afterwards.
Listed == IF cached = NoList THEN dev ELSE cached
KeepList == cached' = IF Caching THEN Listed ELSE NoList

\* The walk ends and the process with it.
EndWalk ==
    /\ pc' = "idle" /\ cached' = NoList /\ inflight' = NoList /\ base' = NoList
    /\ UNCHANGED <<config, edits, outside>>

\* Another goroutine of the process lists the devices; its answer is stored late.
OtherListServed ==
    /\ Caching /\ pc # "idle" /\ cached = NoList /\ inflight = NoList
    /\ inflight' = dev
    /\ UNCHANGED <<dev, cached, config, state, pc, base, edits, outside, settled, last, raced>>

OtherListCached ==
    /\ inflight # NoList
    /\ cached' = inflight /\ inflight' = NoList
    /\ UNCHANGED <<dev, config, state, pc, base, edits, outside, settled, last, raced>>

(***************************************************************************)
(* Operations.                                                             *)
(***************************************************************************)

\* The user edits one attribute between two runs.
EditConfig ==
    /\ pc = "idle" /\ edits < MaxEdits
    /\ \/ \E a \in Text, v \in Value \cup {Null, Empty} :
             ~(a \in Led /\ v = Empty) /\ config' = [config EXCEPT !.text[a] = v]
       \/ config' = [config EXCEPT !.locked = ~@]
       \/ \E n \in {Null} \cup Static \cup Dhcp({Null}) :
             config' = [config EXCEPT !.net = n]
       \/ \E b \in Band, s \in {Null} \cup [Field -> Value \cup {Null, Empty}] :
             config' = [config EXCEPT !.radio[b] = s]
    /\ config' # config
    /\ edits' = edits + 1 /\ settled' = "no"
    /\ UNCHANGED <<dev, cached, inflight, state, pc, base, outside, last, raced>>

NewProcess ==
    /\ pc = "idle"
    /\ pc' = "running"
    /\ UNCHANGED <<dev, cached, inflight, config, state, base, edits, outside, settled, last, raced>>

\* Read
Refresh ==
    /\ pc = "running" /\ state # Untracked
    /\ state' = IF Listed = Gone THEN Untracked ELSE Read(state, Listed)
    /\ EndWalk
    /\ UNCHANGED <<dev, settled, last, raced>>

\* ImportState, found by MAC, and the Read that follows it.
Import ==
    /\ pc = "running" /\ state = Untracked /\ dev # Gone
    /\ state' = IF Listed = Gone THEN Untracked ELSE Read(AllNull, Listed)
    /\ settled' = "no"
    /\ EndWalk
    /\ UNCHANGED <<dev, last, raced>>

\* Create finds the device by its MAC; Update has its id in the state.
StartApply ==
    /\ pc = "running"
    /\ \/ state = Untracked /\ dev # Gone
       \/ state # Untracked /\ state # config
    /\ pc' = IF PlansRadio THEN "merge" ELSE "put"
    /\ settled' = "applying"
    /\ UNCHANGED <<dev, cached, inflight, config, state, base, edits, outside, last, raced>>

\* Nothing to do, or Create does not find the device.
NoOperation ==
    /\ pc = "running"
    /\ IF state = Untracked THEN dev = Gone ELSE state = config
    /\ EndWalk
    /\ UNCHANGED <<dev, state, settled, last, raced>>

\* UpdateDevice reads the radio table to merge into.
ReadForMerge ==
    /\ pc = "merge" /\ Listed # Gone
    /\ base' = Listed.radio
    /\ KeepList
    /\ pc' = "put"
    /\ UNCHANGED <<dev, inflight, config, state, edits, outside, settled, last, raced>>

\* What the configuration asks for, recorded setting by setting.
Meant(d) ==
    [text |-> [a \in Text |-> IF config.text[a] # Null /\ Sent(a, config.text[a])
                              THEN d.text[a] ELSE last.text[a]],
     locked |-> d.locked,
     net |-> IF config.net = Null THEN last.net ELSE d.net,
     radio |-> [b \in Present |-> [f \in Field |->
                  IF Planned(b, f) THEN config.radio[b][f] ELSE last.radio[b][f]]]]

\* The controller applies the PUT; a 2xx answer clears the cache.
Put ==
    /\ pc = "put" /\ dev # Gone
    /\ dev' \in PutDevice
    /\ last' = Meant(dev')
    /\ raced' = {c \in raced : ~Planned(c[1], c[2])}
    /\ \/ /\ cached' = NoList /\ pc' = "reread" /\ base' = NoList
          /\ UNCHANGED <<inflight, config, state, edits, outside, settled>>
       \/ \* The answer is lost: the operation fails.
          /\ settled' = "no" /\ EndWalk
          /\ UNCHANGED state

\* A request fails, or the device is no longer listed: nothing is stored.
Fail ==
    /\ pc \in {"merge", "put", "reread"}
    /\ settled' = "no"
    /\ EndWalk
    /\ UNCHANGED <<dev, state, last, raced>>

\* The device is read back for the new state.
ReadBack ==
    /\ pc = "reread" /\ Listed # Gone
    /\ state' = Read(config, Listed)
    /\ settled' = IF settled = "applying" /\ Listed = dev THEN "yes" ELSE "no"
    /\ EndWalk
    /\ UNCHANGED <<dev, last, raced>>

\* Delete is a no-op on the controller.
Delete ==
    /\ pc = "running" /\ state # Untracked
    /\ state' = Untracked /\ settled' = "no"
    /\ EndWalk
    /\ UNCHANGED <<dev, last, raced>>

\* Somebody else changes one setting.
OutsideEdit ==
    /\ dev # Gone /\ outside < MaxOutside
    /\ \/ /\ \/ \E a \in Text, v \in Value \cup {Empty} : dev' = [dev EXCEPT !.text[a] = v]
             \/ dev' = [dev EXCEPT !.locked = ~@]
             \/ \E n \in Static \cup Dhcp({Empty}) : dev' = [dev EXCEPT !.net = n]
          /\ last' = [dev' EXCEPT !.radio = last.radio, !.text = [a \in Text |->
                          IF dev'.text[a] = dev.text[a] THEN last.text[a] ELSE @[a]]]
          /\ UNCHANGED raced
       \/ \E c \in Cell, v \in Value :
          /\ dev' = [dev EXCEPT !.radio[c[1]][c[2]] = v]
          /\ last' = [last EXCEPT !.radio[c[1]][c[2]] = v]
          /\ raced' = IF <<cached, inflight, base>> = <<NoList, NoList, NoList>>
                      THEN raced \ {c} ELSE raced \cup {c}
    /\ dev' # dev
    /\ outside' = outside + 1 /\ settled' = "no"
    /\ UNCHANGED <<cached, inflight, config, state, pc, base, edits>>

\* Somebody forgets the device.
Forget ==
    /\ dev # Gone /\ outside < MaxOutside
    /\ dev' = Gone
    /\ outside' = outside + 1 /\ settled' = "no"
    /\ UNCHANGED <<cached, inflight, config, state, pc, base, edits, last, raced>>

Next ==
    \/ EditConfig
    \/ NewProcess
    \/ Refresh
    \/ Import
    \/ StartApply
    \/ NoOperation
    \/ ReadForMerge
    \/ Put
    \/ Fail
    \/ ReadBack
    \/ Delete
    \/ OtherListServed
    \/ OtherListCached
    \/ OutsideEdit
    \/ Forget

Spec == Init /\ [][Next]_vars

(***************************************************************************)
(* Properties.                                                             *)
(***************************************************************************)

\* An attribute the state cannot agree on: the empty string is read back as null,
\* and a radio the device lacks is read back as no block at all.
Representable ==
    /\ \A a \in Text : config.text[a] # Empty
    /\ \A b \in Band : config.radio[b] # Null =>
          b \in Present /\ (\A f \in Field : config.radio[b][f] # Empty)

\* After an apply that nothing interfered with, the state is what was configured
\* and the next refresh changes nothing: no inconsistent result and no plan that
\* comes back for ever.  (Create, Update, Read)
NoPerpetualDiff ==
    settled = "yes" /\ Representable =>
        state = config /\ Read(state, dev) = state

\* Every setting of the device holds the value that somebody last gave it, in the
\* configuration or elsewhere.  Only a name that is not configured is emptied, and
\* only a radio field changed after the merge's list was fetched is set back; the
\* LED's switch is promised for a configured one only.  (UpdateDevice)
SettingsSurvive ==
    dev # Gone =>
        /\ \A a \in Text :
              \/ dev.text[a] = last.text[a]
              \/ a \in Always /\ dev.text[a] = Empty
              \/ a \in Led /\ config.text[a] = Null
        /\ dev.locked = last.locked
        /\ dev.net = last.net
        /\ \A c \in Cell \ raced : dev.radio[c[1]][c[2]] = last.radio[c[1]][c[2]]
=============================================================================

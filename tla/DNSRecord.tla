------------------------------- MODULE DNSRecord -------------------------------
(***************************************************************************)
(* terrifi_dns_record: the conversions of its attributes.  Every option    *)
(* has a zero value (0, the empty text) that the record cannot tell from   *)
(* an absent one and the configuration can.                                *)
(***************************************************************************)
CONSTANTS
    Option,  \* the optional attributes among port, priority, ttl, weight, record_type
    Value,   \* names, targets, numbers that are not 0
    Null, Zero

Model ==
    [name : Value, value : Value, enabled : {Null, TRUE, FALSE},
     opt : [Option -> Value \cup {Null, Zero}]]

\* The API object; a port that is nil or 0 is Zero.
Record == [name : Value, value : Value, enabled : BOOLEAN, opt : [Option -> Value \cup {Zero}]]

Blank ==
    LET v == CHOOSE v \in Value : TRUE
    IN  [name |-> v, value |-> v, enabled |-> Null, opt |-> [o \in Option |-> Null]]

Edits(m) ==
    {[m EXCEPT !.name = v] : v \in Value} \cup {[m EXCEPT !.value = v] : v \in Value}
    \cup {[m EXCEPT !.enabled = b] : b \in {Null, TRUE, FALSE}}
    \cup {[m EXCEPT !.opt[o] = v] : o \in Option, v \in Value \cup {Null, Zero}}

OutsideEdits(rec) ==
    {[rec EXCEPT !.value = v] : v \in Value} \cup {[rec EXCEPT !.enabled = ~@]}
    \cup {[rec EXCEPT !.opt[o] = v] : o \in Option, v \in Value \cup {Zero}}

\* The validators accept 0 but not an empty record_type.
Accepted(m) == \A o \in Option : o = "record_type" => m.opt[o] # Zero

Planned(m) == [m EXCEPT !.enabled = IF @ = Null THEN TRUE ELSE @]

Replaces(plan, st) == plan.name # st.name

\* A null option of the plan keeps the value of the state.
ApplyPlanToState(plan, st) ==
    [plan EXCEPT !.opt = [o \in Option |-> IF @[o] = Null THEN st.opt[o] ELSE @[o]]]

Kept(plan, st) == {o \in Option : plan.opt[o] = Null /\ st.opt[o] # Null}

\* modelToAPI
Request(m) == [m EXCEPT !.opt = [o \in Option |-> IF @[o] = Null THEN Zero ELSE @[o]]]

OptionOrNull(v) == IF v = Zero THEN Null ELSE v

ApiToModel(rec) == [rec EXCEPT !.opt = [o \in Option |-> OptionOrNull(@[o])]]

\* DNSRecordBlocks; record_type is written in any case.
Generate(rec) ==
    [rec EXCEPT !.enabled = IF @ THEN Null ELSE FALSE,
                !.opt = [o \in Option |-> IF o = "record_type" THEN @[o] ELSE OptionOrNull(@[o])]]

Expressible(m) == \A o \in Option : m.opt[o] # Zero

\* The validator refuses the record_type "" that is written for a record without one.
Restorable(rec) == Accepted(Generate(rec))
=============================================================================

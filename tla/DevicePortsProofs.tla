--------------------------- MODULE DevicePortsProofs ---------------------------
(***************************************************************************)
(* What DevicePorts promises, for every device, configuration and entry.   *)
(***************************************************************************)
EXTENDS DevicePorts, TLAPS

\* The merge keeps every port outside want, whatever its entries look like.
LEMMA MergeKeepsOthers ==
    ASSUME NEW array, NEW want, NEW p, p \notin DOMAIN want
    PROVE  /\ p \in DOMAIN Merge(array, want) <=> p \in DOMAIN array
           /\ p \in DOMAIN array => Merge(array, want)[p] = array[p]
BY DEF Merge

\* The array a write will put back agrees with the device on every port nobody
\* touched since the write read it.
SnapIsCurrent ==
    pc = "put" /\ overrides # Gone =>
        \A p \in Port \ touched :
            /\ p \in DOMAIN snap <=> p \in DOMAIN overrides
            /\ p \in DOMAIN snap => snap[p] = overrides[p]

LEMMA SnapInvariant == Spec => []SnapIsCurrent
<1>1. Init => SnapIsCurrent
  BY DEF Init, SnapIsCurrent
<1>2. SnapIsCurrent /\ [Next]_vars => SnapIsCurrent'
  <2> SUFFICES ASSUME SnapIsCurrent, [Next]_vars PROVE SnapIsCurrent'
    OBVIOUS
  <2> USE DEF SnapIsCurrent
  <2>1. CASE Import BY <2>1 DEF Import
  <2>2. CASE Read BY <2>2 DEF Read
  <2>3. CASE \E ports \in Configs : Plan(ports) BY <2>3 DEF Plan
  <2>4. CASE PlanDestroy BY <2>4 DEF PlanDestroy
  <2>5. CASE Get BY <2>5 DEF Get
  <2>6. CASE WriteNothing BY <2>6 DEF WriteNothing
  <2>7. CASE Put \/ PutFails BY <2>7 DEF Put, PutFails, PutEnds
  <2>8. ASSUME NEW p \in Port, NEW e \in Edited, Edit(p, e)
        PROVE  SnapIsCurrent'
    BY <2>8 DEF Edit
  <2>9. CASE Forget BY <2>9 DEF Forget
  <2>10. CASE UNCHANGED vars BY <2>10 DEF vars
  <2> QED
    BY <2>1, <2>2, <2>3, <2>4, <2>5, <2>6, <2>7, <2>8, <2>9, <2>10 DEF Next
<1> QED BY <1>1, <1>2, PTL DEF Spec

\* A write changes only its own ports and those somebody else changed meanwhile.
THEOREM OthersUntouched == Spec => UnlistedPortsUntouched
<1>1. SnapIsCurrent /\ [Next]_vars => [WriteLeavesOthersAlone]_vars
  <2> SUFFICES ASSUME SnapIsCurrent, Next, pc = "put", pc' = "idle", overrides # Gone
               PROVE  \A p \in Port \ (DOMAIN Wants \cup touched) :
                        /\ p \in DOMAIN overrides <=> p \in DOMAIN overrides'
                        /\ p \in DOMAIN overrides => overrides'[p] = overrides[p]
    BY DEF WriteLeavesOthersAlone
  <2>1. Put \/ PutFails
    BY DEF Next, Import, Read, Plan, PlanDestroy, Get, WriteNothing, Edit, Forget
  <2>2. overrides' = overrides \/ overrides' = Merge(snap, Wants)
    BY <2>1 DEF Put, PutFails
  <2> TAKE p \in Port \ (DOMAIN Wants \cup touched)
  <2>3. /\ p \in DOMAIN snap <=> p \in DOMAIN overrides
        /\ p \in DOMAIN snap => snap[p] = overrides[p]
    BY DEF SnapIsCurrent
  <2>4. /\ p \in DOMAIN Merge(snap, Wants) <=> p \in DOMAIN snap
        /\ p \in DOMAIN snap => Merge(snap, Wants)[p] = snap[p]
    BY MergeKeepsOthers
  <2> QED BY <2>2, <2>3, <2>4
<1> QED BY <1>1, SnapInvariant, PTL DEF Spec, UnlistedPortsUntouched

\* A port nobody configured or edited that the schema cannot express is tracked
\* nowhere, and both the device and the array in flight still have its entry.
LeftAlone(p) ==
    /\ p \notin DOMAIN PortsOf(state) \cup DOMAIN PortsOf(config)
    /\ overrides # Gone => p \in DOMAIN overrides /\ overrides[p] = first[p]
    /\ pc = "put" /\ p \notin touched => p \in DOMAIN snap /\ snap[p] = first[p]

UnsupportedLeftAlone ==
    \A p \in DOMAIN first \ owned : Unsupported(first[p]) => LeftAlone(p)

LEMMA WantsLeaveAlone ==
    ASSUME NEW p, LeftAlone(p)
    PROVE  p \notin DOMAIN Wants
BY DEF LeftAlone, Wants, PortWants

LEMMA UnsupportedStep == UnsupportedLeftAlone /\ [Next]_vars => UnsupportedLeftAlone'
<1> SUFFICES ASSUME UnsupportedLeftAlone, [Next]_vars PROVE UnsupportedLeftAlone'
  OBVIOUS
<1>0. first' = first
  BY DEF Next, vars, Import, Read, Plan, PlanDestroy, Get, WriteNothing, Put, PutFails,
         PutEnds, Edit, Forget
<1>a. owned \subseteq owned'
  BY DEF Next, vars, Import, Read, Plan, PlanDestroy, Get, WriteNothing, Put, PutFails,
         PutEnds, Edit, Forget
<1> SUFFICES ASSUME NEW p \in DOMAIN first, p \notin owned', Unsupported(first[p])
             PROVE  LeftAlone(p)'
  BY <1>0 DEF UnsupportedLeftAlone
<1>b. LeftAlone(p)
  BY <1>a DEF UnsupportedLeftAlone
<1>1. CASE Import
  <2>1. p \notin DOMAIN ImportedPorts(overrides)
    BY <1>b, <1>1 DEF LeftAlone, Import, ImportedPorts, Importable
  <2>2. p \notin DOMAIN PortsOf(state') /\ p \notin DOMAIN PortsOf(config')
    BY <2>1, <1>1 DEF Import, PortsOf, NoPorts
  <2> QED BY <2>2, <1>0, <1>1, <1>b DEF Import, LeftAlone
<1>2. CASE Read
  <2>1. p \notin DOMAIN PortsOf(state')
    BY <1>2, <1>b DEF Read, LeftAlone, PortsOf, NoPorts, ReadPorts
  <2> QED BY <2>1, <1>0, <1>2, <1>b DEF Read, LeftAlone
<1>3. CASE \E ports \in Configs : Plan(ports)
  <2>1. PICK ports \in Configs : Plan(ports) BY <1>3
  <2>2. p \notin DOMAIN PortsOf(config')
    BY <2>1 DEF Plan, PortsOf, NoPorts
  <2> QED BY <2>1, <2>2, <1>0, <1>b DEF Plan, LeftAlone
<1>4. CASE PlanDestroy
  <2>1. p \notin DOMAIN PortsOf(config')
    BY <1>4 DEF PlanDestroy, PortsOf, NoPorts
  <2> QED BY <2>1, <1>4, <1>0, <1>b DEF PlanDestroy, LeftAlone
<1>5. CASE Get
  BY <1>5, <1>0, <1>b DEF Get, LeftAlone
<1>6. CASE WriteNothing
  BY <1>6, <1>0, <1>b DEF WriteNothing, LeftAlone
<1>7. CASE Put \/ PutFails
  <2>1. p \notin touched /\ pc = "put"
    BY <1>7 DEF Put, PutFails, PutEnds
  <2>2. p \in DOMAIN Merge(snap, Wants) /\ Merge(snap, Wants)[p] = first[p]
    BY <2>1, <1>b, WantsLeaveAlone, MergeKeepsOthers DEF LeftAlone
  <2> QED BY <2>2, <1>7, <1>0, <1>b DEF Put, PutFails, PutEnds, LeftAlone
<1>8. ASSUME NEW q \in Port, NEW e \in Edited, Edit(q, e)
      PROVE  LeftAlone(p)'
  BY <1>8, <1>0, <1>b DEF Edit, LeftAlone
<1>9. CASE Forget
  BY <1>9, <1>0, <1>b DEF Forget, LeftAlone
<1>10. CASE UNCHANGED vars
  BY <1>10, <1>b DEF vars, LeftAlone
<1> QED
  BY <1>1, <1>2, <1>3, <1>4, <1>5, <1>6, <1>7, <1>8, <1>9, <1>10 DEF Next

\* A port whose settings the schema cannot express is never reset.
THEOREM UnsupportedStays == Spec => []UnsupportedNeverReset
<1>1. Init => UnsupportedLeftAlone
  BY DEF Init, UnsupportedLeftAlone, LeftAlone, PortsOf, NoPorts
<1>2. UnsupportedLeftAlone => UnsupportedNeverReset
  BY DEF UnsupportedLeftAlone, LeftAlone, UnsupportedNeverReset
<1> QED BY <1>1, <1>2, UnsupportedStep, PTL DEF Spec

(***************************************************************************)
(* Types, and the merge as a function of its fields.                       *)
(***************************************************************************)

Want == [model : Model, reset : BOOLEAN]

LEMMA BlankEntry == Blank \in Entry
BY DEF Blank, Entry

\* What a port keeps of its old entry, and what is written over it.
Keeps(w) == w.model.prof = None /\ ~w.reset /\ w.model.native = None
Sets(w) == w.model.native # None /\ w.model.mode # None
MergedEntry(e, w) ==
    [name |-> w.model.name,
     prof |-> w.model.prof,
     native |-> IF Sets(w) THEN w.model.native ELSE IF Keeps(w) THEN e.native ELSE None,
     tagged |-> IF Sets(w) THEN TaggedKey(w.model.mode)
                ELSE IF Keeps(w) THEN e.tagged ELSE None,
     forward |-> IF Sets(w) THEN IF w.model.mode = "block_all" THEN "native" ELSE "all"
                 ELSE IF Keeps(w) THEN e.forward ELSE None,
     voice |-> Keeps(w) /\ e.voice,
     lists |-> Sets(w) \/ (Keeps(w) /\ e.lists),
     other |-> w.model.prof = None /\ e.other]

LEMMA MergeEntryFields ==
    ASSUME NEW e \in Entry, NEW w \in Want
    PROVE  MergeEntry(e, w) = MergedEntry(e, w)
<1> DEFINE
      profiled == IF w.model.prof # None THEN [Blank EXCEPT !.prof = w.model.prof]
                  ELSE [e EXCEPT !.prof = None]
      cleared == IF ClearsVLAN(e, w) THEN ClearVLAN(profiled) ELSE profiled
      tagged == IF Sets(w)
                THEN [cleared EXCEPT !.native = w.model.native, !.lists = TRUE,
                        !.tagged = TaggedKey(w.model.mode),
                        !.forward = IF w.model.mode = "block_all" THEN "native" ELSE "all"]
                ELSE cleared
<1>1. MergeEntry(e, w) = [tagged EXCEPT !.name = w.model.name]
  BY DEF MergeEntry, Sets
<1>2. profiled = [name |-> IF w.model.prof # None THEN None ELSE e.name,
                  prof |-> w.model.prof,
                  native |-> IF w.model.prof # None THEN None ELSE e.native,
                  tagged |-> IF w.model.prof # None THEN None ELSE e.tagged,
                  forward |-> IF w.model.prof # None THEN None ELSE e.forward,
                  voice |-> w.model.prof = None /\ e.voice,
                  lists |-> w.model.prof = None /\ e.lists,
                  other |-> w.model.prof = None /\ e.other]
  BY DEF Blank, Entry
<1> HIDE DEF profiled
<1>3. cleared = [name |-> profiled.name,
                 prof |-> w.model.prof,
                 native |-> IF Keeps(w) THEN e.native ELSE None,
                 tagged |-> IF Keeps(w) THEN e.tagged ELSE None,
                 forward |-> IF Keeps(w) THEN e.forward ELSE None,
                 voice |-> Keeps(w) /\ e.voice,
                 lists |-> Keeps(w) /\ e.lists,
                 other |-> w.model.prof = None /\ e.other]
  BY <1>2 DEF ClearsVLAN, ClearVLAN, Keeps
<1> HIDE DEF cleared
<1>4. CASE Sets(w)
  <2>1. tagged = [name |-> profiled.name, prof |-> w.model.prof,
                  native |-> w.model.native, tagged |-> TaggedKey(w.model.mode),
                  forward |-> IF w.model.mode = "block_all" THEN "native" ELSE "all",
                  voice |-> Keeps(w) /\ e.voice, lists |-> TRUE,
                  other |-> w.model.prof = None /\ e.other]
    BY <1>3, <1>4
  <2> QED BY <2>1, <1>1, <1>4 DEF MergedEntry
<1>5. CASE ~Sets(w)
  <2>1. tagged = cleared
    BY <1>5
  <2> QED BY <2>1, <1>1, <1>3, <1>5 DEF MergedEntry
<1> QED BY <1>4, <1>5

LEMMA MergedEntryType ==
    ASSUME NEW e \in Entry, NEW w \in Want
    PROVE  MergedEntry(e, w) \in Entry
BY DEF Entry, Want, Model, MergedEntry, TaggedKey, Tagged, Forward, Keeps, Sets

\* Writing the wanted settings over themselves changes nothing.
LEMMA MergeEntryIdempotent ==
    ASSUME NEW e \in Entry, NEW w \in Want
    PROVE  MergeEntry(MergeEntry(e, w), w) = MergeEntry(e, w)
<1>1. MergedEntry(MergedEntry(e, w), w) = MergedEntry(e, w)
  BY DEF MergedEntry, Keeps, Sets, Entry, Want, Model
<1> QED BY <1>1, MergeEntryFields, MergedEntryType

IsWants(want) ==
    DOMAIN want \subseteq Port /\ \A p \in DOMAIN want : want[p] = Release \/ want[p] \in Want

LEMMA WantsType ==
    ASSUME NEW planned, IsPorts(planned), NEW prior, IsPorts(prior)
    PROVE  IsWants(PortWants(planned, prior))
<1>1. DOMAIN PortWants(planned, prior) = DOMAIN planned \cup DOMAIN prior
  BY DEF PortWants
<1>2. ASSUME NEW p \in DOMAIN planned \cup DOMAIN prior
      PROVE  \/ PortWants(planned, prior)[p] = Release
             \/ PortWants(planned, prior)[p] \in Want
  <2>1. CASE p \notin DOMAIN planned
    BY <2>1 DEF PortWants
  <2>2. CASE p \in DOMAIN planned
    <3> DEFINE r == /\ p \in DOMAIN prior
                    /\ prior[p].native # None
                    /\ planned[p].native = None
    <3>1. PortWants(planned, prior)[p] = [model |-> planned[p], reset |-> r]
      BY <2>2 DEF PortWants
    <3>2. planned[p] \in Model
      BY <2>2 DEF IsPorts
    <3>3. r \in BOOLEAN
      OBVIOUS
    <3> HIDE DEF r
    <3> QED BY <3>1, <3>2, <3>3 DEF Want
  <2> QED BY <2>1, <2>2
<1> QED BY <1>1, <1>2 DEF IsWants, IsPorts

LEMMA MergeType ==
    ASSUME NEW array, IsArray(array), NEW want, IsWants(want)
    PROVE  IsArray(Merge(array, want))
<1> DEFINE merged == Merge(array, want)
<1>1. DOMAIN merged \subseteq Port
  BY DEF Merge, IsArray, IsWants
<1>2. ASSUME NEW p \in DOMAIN merged
      PROVE  merged[p] \in Entry
  <2>1. CASE p \in DOMAIN want
    <3>1. want[p] \in Want /\ merged[p] = MergeEntry(EntryAt(array, p), want[p])
      BY <2>1 DEF Merge, IsWants
    <3>2. EntryAt(array, p) \in Entry
      BY BlankEntry DEF EntryAt, IsArray
    <3> QED BY <3>1, <3>2, MergeEntryFields, MergedEntryType
  <2>2. CASE p \notin DOMAIN want
    BY <2>2 DEF Merge, IsArray
  <2> QED BY <2>1, <2>2
<1>3. merged = [p \in DOMAIN merged |-> merged[p]]
  BY DEF Merge
<1> QED BY <1>1, <1>2, <1>3 DEF IsArray

\* Repeating a merge changes nothing.
LEMMA MergeIdempotent ==
    ASSUME NEW array, IsArray(array), NEW want, IsWants(want)
    PROVE  Merge(Merge(array, want), want) = Merge(array, want)
<1> DEFINE once == Merge(array, want)
           twice == Merge(once, want)
           at(p) == MergeEntry(EntryAt(array, p), want[p])
<1>1. ASSUME NEW p \in DOMAIN want, want[p] # Release
      PROVE  MergeEntry(EntryAt(once, p), want[p]) = at(p)
  <2>1. want[p] \in Want /\ EntryAt(array, p) \in Entry
    BY <1>1, BlankEntry DEF IsWants, EntryAt, IsArray
  <2>2. EntryAt(once, p) = at(p)
    BY <1>1 DEF EntryAt, Merge
  <2> QED BY <2>1, <2>2, MergeEntryIdempotent
<1>2. DOMAIN twice = DOMAIN once
  BY <1>1 DEF Merge
<1>3. ASSUME NEW p \in DOMAIN once PROVE twice[p] = once[p]
  BY <1>1, <1>3 DEF Merge
<1>4. twice = [p \in DOMAIN twice |-> twice[p]] /\ once = [p \in DOMAIN once |-> once[p]]
  BY DEF Merge
<1> HIDE DEF once, twice
<1>5. twice = once
  BY <1>2, <1>3, <1>4
<1> QED BY <1>5 DEF once, twice

LEMMA FromEntryType == ASSUME NEW e \in Entry PROVE FromEntry(e) \in Model
<1>1. FromEntry(e).mode \in Mode \cup {None}
  BY DEF FromEntry, Unsupported, VLANSettings, Entry, Mode, Tagged
<1>2. FromEntry(e).native \in Network \cup {None}
  BY DEF FromEntry, VLANSettings, Entry
<1>3. FromEntry(e) = [name |-> e.name, prof |-> e.prof,
                      native |-> FromEntry(e).native, mode |-> FromEntry(e).mode]
  BY DEF FromEntry
<1> QED BY <1>1, <1>2, <1>3 DEF Model, Entry

LEMMA ImportedType ==
    ASSUME NEW array, IsArray(array)
    PROVE  IsPorts(ImportedPorts(array))
BY FromEntryType DEF ImportedPorts, IsArray, IsPorts

LEMMA ReadType ==
    ASSUME NEW array, IsArray(array), NEW prior, IsPorts(prior)
    PROVE  IsPorts(ReadPorts(array, prior))
<1>1. ASSUME NEW m \in Model PROVE [m EXCEPT !.native = None, !.mode = None] \in Model
  BY DEF Model
<1>2. NullModel \in Model
  BY DEF NullModel, Model
<1>3. ASSUME NEW p \in DOMAIN prior PROVE ReadPorts(array, prior)[p] \in Model
  <2>1. CASE p \notin DOMAIN array
    BY <2>1, <1>2 DEF ReadPorts
  <2>2. CASE p \in DOMAIN array
    <3>1. array[p] \in Entry
      BY <2>2 DEF IsArray
    <3> DEFINE m == FromEntry(array[p])
               quiet == [m EXCEPT !.native = None, !.mode = None]
    <3>2. m \in Model
      BY <3>1, FromEntryType
    <3>3. quiet \in Model
      BY <3>2, <1>1
    <3>4. ReadPorts(array, prior)[p] = IF prior[p].native # None THEN m ELSE quiet
      BY <2>2, Zenon DEF ReadPorts
    <3> HIDE DEF m, quiet
    <3> QED BY <3>2, <3>3, <3>4
  <2> QED BY <2>1, <2>2
<1>4. DOMAIN ReadPorts(array, prior) = DOMAIN prior
  BY Zenon DEF ReadPorts
<1>5. ReadPorts(array, prior) = [p \in DOMAIN prior |-> ReadPorts(array, prior)[p]]
  BY Zenon DEF ReadPorts
<1> QED BY <1>3, <1>4, <1>5 DEF IsPorts

LEMMA PortsOfType ==
    ASSUME NEW s, s = Untracked \/ IsPorts(s)
    PROVE  IsPorts(PortsOf(s))
BY DEF PortsOf, NoPorts, IsPorts

LEMMA TypeOfWants == TypeOK => IsWants(Wants)
BY PortsOfType, WantsType DEF TypeOK, Wants

LEMMA NoEntriesType == IsArray(NoEntries)
BY DEF NoEntries, IsArray

LEMMA TypeStep == TypeOK /\ [Next]_vars => TypeOK'
<1> SUFFICES ASSUME TypeOK, [Next]_vars PROVE TypeOK'
  OBVIOUS
<1> USE InputAssumption
<1>1. CASE Import
  <2>1. IsPorts(ImportedPorts(overrides))
    BY <1>1, ImportedType DEF Import, TypeOK
  <2> QED BY <2>1, <1>1 DEF Import, TypeOK
<1>2. CASE Read
  <2>1. overrides # Gone => IsPorts(ReadPorts(overrides, state))
    BY <1>2, ReadType DEF Read, TypeOK
  <2> QED BY <2>1, <1>2 DEF Read, TypeOK
<1>3. ASSUME NEW ports \in Configs, Plan(ports)
      PROVE  TypeOK'
  <2>1. PICK D \in SUBSET Configured : ports \in [D -> Model]
    BY DEF Configs
  <2>2. IsPorts(ports)
    BY <2>1 DEF IsPorts
  <2>3. owned' \subseteq Port
    BY <2>2, <1>3 DEF Plan, TypeOK, IsPorts
  <2> QED BY <2>2, <2>3, <1>3 DEF Plan, TypeOK
<1>4. CASE PlanDestroy
  BY <1>4 DEF PlanDestroy, TypeOK
<1>5. CASE Get
  BY <1>5 DEF Get, TypeOK
<1>6. CASE WriteNothing
  BY <1>6 DEF WriteNothing, TypeOK
<1>7. CASE Put \/ PutFails
  <2>1. IsArray(Merge(snap, Wants))
    BY TypeOfWants, MergeType DEF TypeOK
  <2>2. overrides' = Gone \/ IsArray(overrides')
    BY <2>1, <1>7 DEF Put, PutFails, TypeOK
  <2> QED BY <2>2, <1>7, NoEntriesType DEF Put, PutFails, PutEnds, TypeOK
<1>8. ASSUME NEW p \in Port, NEW e \in Edited, Edit(p, e)
      PROVE  TypeOK'
  <2>1. IsArray(overrides) /\ e \in Entry
    BY <1>8 DEF Edit, TypeOK
  <2>2. IsArray(overrides')
    BY <2>1, <1>8 DEF Edit, IsArray
  <2>3. edits' \in 0..MaxOutside /\ touched' \subseteq Port /\ owned' \subseteq Port
    BY <1>8 DEF Edit, TypeOK
  <2> QED BY <2>2, <2>3, <1>8 DEF Edit, TypeOK
<1>9. CASE Forget
  <2>1. edits' \in 0..MaxOutside
    BY <1>9 DEF Forget, TypeOK
  <2> QED BY <2>1, <1>9 DEF Forget, TypeOK
<1>10. CASE UNCHANGED vars
  BY <1>10 DEF vars, TypeOK
<1> QED
  BY <1>1, <1>2, <1>3, <1>4, <1>5, <1>6, <1>7, <1>8, <1>9, <1>10 DEF Next

\* The array, the state and the configuration always have their types; in
\* particular every write sends entries the controller could have sent.
THEOREM TypeCorrect == Spec => []TypeOK
<1>1. Init => TypeOK
  BY InputAssumption, NoEntriesType DEF Init, TypeOK
<1> QED BY <1>1, TypeStep, PTL DEF Spec

\* A write whose answer was lost can be repeated.
THEOREM RetriesHarmless == Spec => []RetryIsHarmless
<1>1. TypeOK => RetryIsHarmless
  BY TypeOfWants, MergeIdempotent DEF TypeOK, RetryIsHarmless
<1> QED BY <1>1, TypeCorrect, PTL

(***************************************************************************)
(* What is written is what is read.                                        *)
(***************************************************************************)

\* What the provider reads of an entry is valid: a network has its mode, and a
\* profile hides both.
LEMMA FromEntryValid == ASSUME NEW e \in Entry PROVE ValidModel(FromEntry(e))
<1> DEFINE s == VLANSettings(e)
<1>1. e.prof # None => s.native = None /\ s.mode = None
  BY DEF VLANSettings
<1>2. ~Unsupported(e) => (s.native = None <=> s.mode = None)
  <2>1. ~Unsupported(e) => \/ s.native = None /\ s.mode = None
                           \/ s.native # None /\ s.mode \in Mode
    BY DEF Unsupported
  <2> QED BY <2>1, NoValueAssumption
<1>3. /\ FromEntry(e).prof = e.prof
      /\ FromEntry(e).native = IF Unsupported(e) THEN None ELSE s.native
      /\ FromEntry(e).mode = IF Unsupported(e) THEN None ELSE s.mode
  BY DEF FromEntry
<1> HIDE DEF s
<1> QED BY <1>1, <1>2, <1>3 DEF ValidModel

ValidPorts(m) == IsPorts(m) /\ \A p \in DOMAIN m : ValidModel(m[p])

\* A port without inline settings in the prior state shows none.
Quiet(m) == [m EXCEPT !.native = None, !.mode = None]

LEMMA ReadPort ==
    ASSUME NEW array, NEW prior
    PROVE  /\ DOMAIN ReadPorts(array, prior) = DOMAIN prior
           /\ ReadPorts(array, prior) = [p \in DOMAIN prior |-> ReadPorts(array, prior)[p]]
           /\ \A p \in DOMAIN prior : ReadPorts(array, prior)[p] =
                 IF p \notin DOMAIN array THEN NullModel
                 ELSE IF prior[p].native # None THEN FromEntry(array[p])
                 ELSE Quiet(FromEntry(array[p]))
BY Zenon DEF ReadPorts, Quiet

LEMMA ReadsAsIs ==
    ASSUME NEW array, NEW ports, IsPorts(ports),
           \A p \in DOMAIN ports : ReadPorts(array, ports)[p] = ports[p]
    PROVE  ReadPorts(array, ports) = ports
<1>1. ports = [p \in DOMAIN ports |-> ports[p]]
  BY DEF IsPorts
<1> QED BY <1>1, ReadPort

LEMMA QuietModel ==
    ASSUME NEW m \in Model
    PROVE  /\ Quiet(m).name = m.name /\ Quiet(m).prof = m.prof
           /\ Quiet(m).native = None /\ Quiet(m).mode = None
           /\ ValidModel(m) /\ m.native = None => Quiet(m) = m
BY DEF Quiet, Model, ValidModel

LEMMA SameModel ==
    ASSUME NEW m \in Model, NEW n \in Model, m.name = n.name, m.prof = n.prof,
           m.native = n.native, m.mode = n.mode
    PROVE  m = n
BY DEF Model

\* What was read is read again.
LEMMA ReadIdempotent ==
    ASSUME NEW array, IsArray(array), NEW prior, IsPorts(prior)
    PROVE  ReadPorts(array, ReadPorts(array, prior)) = ReadPorts(array, prior)
<1> DEFINE once == ReadPorts(array, prior)
<1>1. IsPorts(once) /\ DOMAIN once = DOMAIN prior
  BY ReadType, ReadPort
<1>2. ASSUME NEW p \in DOMAIN prior PROVE ReadPorts(array, once)[p] = once[p]
  <2>1. CASE p \notin DOMAIN array
    BY <2>1, <1>1, ReadPort
  <2>2. CASE p \in DOMAIN array
    <3> DEFINE m == FromEntry(array[p])
    <3>1. m \in Model /\ ValidModel(m)
      BY <2>2, FromEntryType, FromEntryValid DEF IsArray
    <3>2. /\ once[p] = IF prior[p].native # None THEN m ELSE Quiet(m)
          /\ ReadPorts(array, once)[p] = IF once[p].native # None THEN m ELSE Quiet(m)
      BY <2>2, <1>1, ReadPort
    <3> HIDE DEF m, once
    <3> QED BY <3>1, <3>2, QuietModel
  <2> QED BY <2>1, <2>2
<1> HIDE DEF once
<1>3. ReadPorts(array, once) = once
  BY <1>1, <1>2, ReadsAsIs
<1> QED BY <1>3 DEF once

\* What was imported is read again.
LEMMA ImportReadsBack ==
    ASSUME NEW array, IsArray(array)
    PROVE  /\ ValidPorts(ImportedPorts(array))
           /\ ReadPorts(array, ImportedPorts(array)) = ImportedPorts(array)
<1> DEFINE ports == ImportedPorts(array)
<1>1. IsPorts(ports)
  BY ImportedType
<1>2. \A p \in DOMAIN ports : p \in DOMAIN array /\ ports[p] = FromEntry(array[p])
  BY DEF ImportedPorts
<1> HIDE DEF ports
<1>3. ASSUME NEW p \in DOMAIN ports
      PROVE  ValidModel(ports[p]) /\ ReadPorts(array, ports)[p] = ports[p]
  <2> DEFINE m == FromEntry(array[p])
  <2>1. m \in Model /\ ValidModel(m)
    BY <1>2, FromEntryType, FromEntryValid DEF IsArray
  <2>2. ReadPorts(array, ports)[p] = IF m.native # None THEN m ELSE Quiet(m)
    BY <1>2, ReadPort
  <2>3. ports[p] = m
    BY <1>2
  <2> HIDE DEF m
  <2> QED BY <2>1, <2>2, <2>3, QuietModel
<1> QED BY <1>1, <1>3, ReadsAsIs DEF ValidPorts, ports

\* The entry a port is given says what its model says.
LEMMA WrittenModel ==
    ASSUME NEW e \in Entry, NEW w \in Want, ValidModel(w.model)
    PROVE  LET m == FromEntry(MergedEntry(e, w)) IN
           /\ m.name = w.model.name /\ m.prof = w.model.prof
           /\ w.model.native # None => m.native = w.model.native /\ m.mode = w.model.mode
<1> DEFINE n == MergedEntry(e, w)
           s == VLANSettings(n)
<1>1. /\ n.name = w.model.name /\ n.prof = w.model.prof
      /\ w.model \in Model
  BY DEF MergedEntry, Want
<1>2. FromEntry(n).name = n.name /\ FromEntry(n).prof = n.prof
  BY DEF FromEntry
<1>3. ASSUME w.model.native # None
      PROVE  FromEntry(n).native = w.model.native /\ FromEntry(n).mode = w.model.mode
  <2>1. /\ w.model.mode \in Mode /\ w.model.mode # None /\ w.model.prof = None
    BY <1>1, <1>3 DEF ValidModel, Model
  <2>2. Sets(w) /\ ~Keeps(w)
    BY <1>3, <2>1 DEF Sets, Keeps
  <2>3. /\ n.native = w.model.native /\ n.tagged = TaggedKey(w.model.mode)
        /\ n.forward \in {"native", "all"} /\ ~n.voice /\ n.prof = None
    BY <2>1, <2>2 DEF MergedEntry
  <2> HIDE DEF n
  <2>4. s.native = w.model.native /\ s.mode = w.model.mode /\ s.forward = n.forward
    <3>1. CASE w.model.mode = "allow_all"
      <4>1. n.tagged = "auto" /\ n.tagged # None
        BY <2>3, <3>1, NoValueAssumption DEF TaggedKey, Tagged
      <4> QED BY <2>3, <3>1, <4>1 DEF VLANSettings
    <3>2. CASE w.model.mode = "block_all"
      <4>1. n.tagged = "block_all" /\ n.tagged # None
        BY <2>3, <3>2, NoValueAssumption DEF TaggedKey, Tagged
      <4> QED BY <2>3, <3>2, <4>1 DEF VLANSettings
    <3> QED BY <2>1, <3>1, <3>2 DEF Mode
  <2> HIDE DEF s
  <2>5. ~Unsupported(n)
    BY <1>3, <2>1, <2>3, <2>4 DEF Unsupported, s
  <2>6. FromEntry(n).native = s.native /\ FromEntry(n).mode = s.mode
    BY <2>5 DEF FromEntry, s
  <2> QED BY <2>4, <2>6
<1> QED BY <1>1, <1>2, <1>3

\* A port that needs no entry has nothing to say.
LEMMA BlankSaysNothing ==
    ASSUME NEW e \in Entry, NEW w \in Want, ValidModel(w.model), MergedEntry(e, w) = Blank
    PROVE  w.model = NullModel
<1>1. /\ MergedEntry(e, w).name = None /\ MergedEntry(e, w).prof = None
      /\ MergedEntry(e, w).lists = FALSE
  BY DEF Blank
<1>2. w.model.name = None /\ w.model.prof = None /\ ~Sets(w)
  BY <1>1 DEF MergedEntry
<1>3. w.model.native = None /\ w.model.mode = None
  BY <1>2 DEF Sets, ValidModel
<1>4. w.model \in Model
  BY DEF Want
<1> QED BY <1>2, <1>3, <1>4 DEF Model, NullModel

\* The plan that a write stored is what is read from the array it left.
LEMMA MergeReadsBack ==
    ASSUME NEW array, IsArray(array), NEW planned, ValidPorts(planned),
           NEW prior, IsPorts(prior)
    PROVE  ReadPorts(Merge(array, PortWants(planned, prior)), planned) = planned
<1> DEFINE want == PortWants(planned, prior)
           merged == Merge(array, want)
<1>1. IsWants(want) /\ IsPorts(planned)
  BY WantsType DEF ValidPorts
<1>2. ASSUME NEW p \in DOMAIN planned PROVE ReadPorts(merged, planned)[p] = planned[p]
  <2> DEFINE e == EntryAt(array, p)
             w == want[p]
             m == planned[p]
  <2>1. p \in DOMAIN want /\ w.model = m /\ w # Release
    <3> DEFINE r == p \in DOMAIN prior /\ prior[p].native # None /\ m.native = None
    <3>1. p \in DOMAIN want /\ w = [model |-> m, reset |-> r]
      BY DEF PortWants
    <3>2. m \in Model /\ r \in BOOLEAN
      BY <1>1 DEF IsPorts
    <3> HIDE DEF r, w, m
    <3>3. w \in [model : Model, reset : BOOLEAN] /\ w.model = m
      BY <3>1, <3>2
    <3> QED BY <3>1, <3>3, NoValueAssumption
  <2>2. w \in Want /\ e \in Entry /\ ValidModel(m)
    BY <1>1, <2>1, BlankEntry DEF IsWants, EntryAt, IsArray, ValidPorts
  <2>3. MergeEntry(e, w) = MergedEntry(e, w) /\ MergedEntry(e, w) \in Entry
    BY <2>2, MergeEntryFields, MergedEntryType
  <2>4. /\ p \in DOMAIN merged <=> MergeEntry(e, w) # Blank
        /\ p \in DOMAIN merged => merged[p] = MergeEntry(e, w)
    BY <2>1 DEF Merge
  <2>5. ReadPorts(merged, planned)[p] =
           IF p \notin DOMAIN merged THEN NullModel
           ELSE IF m.native # None THEN FromEntry(merged[p]) ELSE Quiet(FromEntry(merged[p]))
    BY ReadPort
  <2> HIDE DEF e, w, m, merged, want
  <2>6. CASE p \notin DOMAIN merged
    BY <2>1, <2>2, <2>3, <2>4, <2>5, <2>6, BlankSaysNothing DEF m
  <2>7. CASE p \in DOMAIN merged
    <3> DEFINE f == FromEntry(MergedEntry(e, w))
    <3>1. /\ f.name = m.name /\ f.prof = m.prof
          /\ m.native # None => f.native = m.native /\ f.mode = m.mode
      BY <2>1, <2>2, WrittenModel
    <3>2. f \in Model /\ m \in Model
      BY <1>1, <2>3, FromEntryType DEF IsPorts, m
    <3>3. ReadPorts(merged, planned)[p] = IF m.native # None THEN f ELSE Quiet(f)
      BY <2>3, <2>4, <2>5, <2>7
    <3> HIDE DEF f
    <3>4. CASE m.native # None
      <4>1. f = m
        BY <3>1, <3>2, <3>4, SameModel
      <4> QED BY <3>3, <3>4, <4>1 DEF m
    <3>5. CASE m.native = None
      <4>1. m.mode = None
        BY <2>2, <3>5 DEF ValidModel
      <4>2. Quiet(f) \in Model
        BY <3>2 DEF Quiet, Model
      <4>3. Quiet(f) = m
        BY <3>1, <3>2, <3>5, <4>1, <4>2, QuietModel, SameModel
      <4> QED BY <3>3, <3>5, <4>3 DEF m
    <3> QED BY <3>4, <3>5
  <2> QED BY <2>6, <2>7
<1> QED BY <1>1, <1>2, ReadsAsIs

\* The configuration is valid, and the state is true until something happens behind it.
ConfigValid == config # Untracked => ValidPorts(config)
StateTrue == clean /\ state # Untracked => ReadPorts(overrides, state) = state

LEMMA StateTrueStep ==
    TypeOK /\ ConfigValid /\ StateTrue /\ [Next]_vars => ConfigValid' /\ StateTrue'
<1> SUFFICES ASSUME TypeOK, ConfigValid, StateTrue, [Next]_vars PROVE ConfigValid' /\ StateTrue'
  OBVIOUS
<1>1. CASE Import
  BY <1>1, ImportReadsBack DEF Import, ConfigValid, StateTrue, TypeOK
<1>2. CASE Read
  BY <1>2, ReadIdempotent DEF Read, ConfigValid, StateTrue, TypeOK
<1>3. ASSUME NEW ports \in Configs, Plan(ports)
      PROVE  ConfigValid' /\ StateTrue'
  <2>1. PICK D \in SUBSET Configured : ports \in [D -> Model]
    BY DEF Configs
  <2>2. ValidPorts(ports)
    BY <1>3, <2>1, InputAssumption DEF Plan, ValidPorts, IsPorts
  <2> QED BY <1>3, <2>2 DEF Plan, ConfigValid, StateTrue
<1>4. CASE PlanDestroy
  BY <1>4 DEF PlanDestroy, ConfigValid, StateTrue
<1>5. CASE Get
  BY <1>5 DEF Get, ConfigValid, StateTrue
<1>6. CASE WriteNothing
  <2>1. UNCHANGED <<overrides, config, clean>> /\ state' = config
    BY <1>6 DEF WriteNothing
  <2>2. config # Untracked => DOMAIN Wants = {}
    BY <1>6 DEF WriteNothing
  <2>3. config # Untracked => DOMAIN config = {}
    BY <2>2 DEF Wants, PortWants, PortsOf
  <2>4. config # Untracked => ReadPorts(overrides, config) = config
    BY <2>3, ReadsAsIs DEF ConfigValid, ValidPorts
  <2> QED BY <2>1, <2>4 DEF ConfigValid, StateTrue
<1>7. CASE Put
  <2>1. overrides' = Merge(snap, Wants) /\ state' = config /\ config' = config
    BY <1>7 DEF Put, PutEnds
  <2>2. IsArray(snap) /\ IsPorts(PortsOf(state))
    BY PortsOfType DEF TypeOK
  <2>3. config # Untracked => Wants = PortWants(config, PortsOf(state))
    BY DEF Wants, PortsOf
  <2>4. config # Untracked => ReadPorts(Merge(snap, Wants), config) = config
    BY <2>2, <2>3, MergeReadsBack DEF ConfigValid
  <2> QED BY <2>1, <2>4 DEF ConfigValid, StateTrue
<1>8. CASE PutFails
  BY <1>8 DEF PutFails, PutEnds, ConfigValid, StateTrue
<1>9. ASSUME NEW p \in Port, NEW e \in Edited, Edit(p, e)
      PROVE  ConfigValid' /\ StateTrue'
  BY <1>9 DEF Edit, ConfigValid, StateTrue
<1>10. CASE Forget
  BY <1>10 DEF Forget, ConfigValid, StateTrue
<1>11. CASE UNCHANGED vars
  BY <1>11 DEF vars, ConfigValid, StateTrue
<1> QED
  BY <1>1, <1>2, <1>3, <1>4, <1>5, <1>6, <1>7, <1>8, <1>9, <1>10, <1>11 DEF Next

\* After any import, refresh or write the next refresh changes nothing, whatever ports
\* are configured and whatever the array already held.
THEOREM NoDiffAfterWrite == Spec => []StateReadsBack
<1>1. Init => ConfigValid /\ StateTrue
  BY DEF Init, ConfigValid, StateTrue
<1>2. Spec => [](ConfigValid /\ StateTrue)
  <2>1. TypeOK /\ (ConfigValid /\ StateTrue) /\ [Next]_vars => (ConfigValid /\ StateTrue)'
    BY StateTrueStep
  <2> QED BY <1>1, <2>1, TypeCorrect, PTL DEF Spec
<1>3. ConfigValid /\ StateTrue => StateReadsBack
  BY DEF StateTrue, StateReadsBack
<1> QED BY <1>2, <1>3, PTL
=============================================================================

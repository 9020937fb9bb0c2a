--------------------------- MODULE ClientDeviceProofs ---------------------------
(***************************************************************************)
(* What an operation on a client device leaves behind, for every set of    *)
(* record ids, groups and icons and every number of upsets: the state      *)
(* names the record the MAC has, an update leaves the planned icon, and a  *)
(* destroyed device holds no group back.                                   *)
(***************************************************************************)
EXTENDS ClientDevice, TLAPS

\* Where Create and Update stand, and where Delete does.
Recording == {"post", "put", "getPut", "lookup", "retryPut", "getRetryPut", "icon"}
Clearing == {"clearIcon", "clear", "getClear", "findCurrent", "clearCurrent", "forget"}

\* The configuration a create or update works for does not change under it, and a
\* PUT names a record.
OperationOK ==
    /\ pc \in Recording => kind # "delete" /\ config # Untracked
    /\ pc \in Clearing => kind = "delete"
    /\ pc \in {"put", "getPut", "retryPut", "getRetryPut", "icon"} => id \in Id

\* What is known of the record between its write and the end of the operation.
RecordOK ==
    /\ settled => pc \in {"idle", "icon"}
    /\ settled /\ pc = "icon" => record = id /\ refs = config.groups
    /\ pc \in {"getPut", "getRetryPut"} => refs = config.groups
    /\ pc = "getClear" => refs = {}

\* A delete that could clear the MAC's references has done so before it forgets it.
ClearedOK == kind = "delete" /\ ~unclear /\ pc \in {"idle", "forget"} => refs = {}

\* TypeOK, in the parts that different steps disturb.
DataOK ==
    /\ record \in Id \cup {None}
    /\ refs \subseteq Group /\ lagging \subseteq Group /\ groups \subseteq Group
    /\ icon \in Icon \cup {None}
    /\ state \in State \cup {Untracked}
    /\ config \in Settings \cup {Untracked}
    /\ id \in Id \cup {None}

PhaseOK ==
    /\ pc \in Recording \cup Clearing \cup {"idle"}
    /\ kind \in {"create", "update", "delete"}
    /\ settled \in BOOLEAN /\ unclear \in BOOLEAN

UpsetsOK == upsets \in 0..MaxUpsets

\* A deletion sleeps only when another try is left.
Deletion == [pc : {"idle", "try", "sleep", "done"}, tries : 0..MaxRetries - 1]
DeletionsOK ==
    /\ deletion \in [Group -> Deletion]
    /\ \A g \in Group : deletion[g].pc = "sleep" => deletion[g].tries < MaxRetries - 1

IInv ==
    /\ DataOK
    /\ PhaseOK
    /\ UpsetsOK
    /\ DeletionsOK
    /\ OperationOK
    /\ RecordOK
    /\ StateNamesTheRecord
    /\ UpdateSyncsIcon
    /\ ClearedOK

LEMMA TypeParts == TypeOK <=> DataOK /\ PhaseOK /\ UpsetsOK /\ deletion \in [Group -> Deletion]
BY DEF TypeOK, DataOK, PhaseOK, UpsetsOK, Deletion, Recording, Clearing

LEMMA InitIInv == Init => IInv
<1> SUFFICES ASSUME Init PROVE IInv
  OBVIOUS
<1>1. DeletionsOK
  <2>1. [pc |-> "idle", tries |-> 0] \in Deletion
    BY BoundsAssumption DEF Deletion
  <2>2. QED
    BY <2>1 DEF Init, DeletionsOK
<1>2. DataOK /\ PhaseOK
  BY DEF Init, DataOK, PhaseOK
<1>3. UpsetsOK
  BY BoundsAssumption DEF Init, UpsetsOK
<1>4. QED
  BY <1>1, <1>2, <1>3
     DEF Init, IInv, OperationOK, RecordOK, StateNamesTheRecord, UpdateSyncsIcon, ClearedOK,
         Recording, Clearing

\* A step of the device that does not touch the deletions.
LEMMA Undisturbed ==
    ASSUME UpsetsOK, DeletionsOK, UNCHANGED deletion, Upset \/ UNCHANGED upsets
    PROVE  UpsetsOK' /\ DeletionsOK'
<1>1. UpsetsOK'
  BY BoundsAssumption DEF UpsetsOK, Upset
<1>2. DeletionsOK'
  BY DEF DeletionsOK
<1>3. QED
  BY <1>1, <1>2

\* One that moves a deletion.
LEMMA DeletionMoves ==
    ASSUME IInv, NEW g \in Group, NEW d \in Deletion,
           d.pc = "sleep" => d.tries < MaxRetries - 1,
           deletion' = [deletion EXCEPT ![g] = d],
           groups' \subseteq Group, UNCHANGED <<device, lagging, upsets>>
    PROVE  IInv'
<1>1. DeletionsOK'
  BY DEF IInv, DeletionsOK
<1>2. DataOK' /\ PhaseOK' /\ UpsetsOK'
  BY DEF IInv, DataOK, PhaseOK, UpsetsOK, device
<1>3. QED
  BY <1>1, <1>2
     DEF IInv, OperationOK, RecordOK, StateNamesTheRecord, UpdateSyncsIcon, ClearedOK, device

LEMMA DeletionGoesTo ==
    ASSUME IInv, NEW g \in Group, NEW p \in {"try", "sleep", "done"}, Deleting(g, p),
           p = "sleep" => MayRetry(g), groups' \subseteq Group
    PROVE  IInv'
<1> DEFINE e == deletion[g]
           d == [e EXCEPT !.pc = p]
<1>1. e \in Deletion
  BY DEF IInv, DeletionsOK
<1>2. deletion' = [deletion EXCEPT ![g] = d] /\ (p = "sleep" => e.tries < MaxRetries - 1)
      /\ UNCHANGED <<device, lagging, upsets>>
  BY DEF Deleting, MayRetry
<1> HIDE DEF e
<1>3. d \in Deletion /\ d.pc = p /\ d.tries = e.tries
  BY <1>1 DEF Deletion
<1> HIDE DEF d
<1>4. QED
  BY <1>2, <1>3, DeletionMoves

LEMMA BindType ==
    ASSUME DataOK, NEW gs \in SUBSET Group, Bind(gs)
    PROVE  refs' = gs /\ lagging' \subseteq Group
BY DEF Bind, DataOK

LEMMA ConfigType ==
    ASSUME DataOK, config # Untracked
    PROVE  config.groups \in SUBSET Group /\ config.icon \in Icon \cup {None}
BY DEF DataOK, Settings

\* What is tracked after a record was written.
LEMMA TrackType ==
    ASSUME DataOK, config # Untracked, NEW i \in Id, Track(i)
    PROVE  /\ state' \in State
           /\ state'.id = i /\ state'.groups = config.groups /\ state'.icon = config.icon
BY ConfigType DEF Track, AnsweredId, State

\* The record was written with id i; the groups are bound to it.
LEMMA WrittenIInv ==
    ASSUME IInv, pc \in {"post", "put", "getPut", "retryPut", "getRetryPut"}, NEW i \in Id,
           RecordWritten(i), record' = i, refs' = config.groups, lagging' \subseteq Group
    PROVE  IInv'
<1>1. config # Untracked /\ kind # "delete"
  BY DEF IInv, OperationOK, Recording
<1>2. refs' = config.groups /\ lagging' \subseteq Group /\ refs' \subseteq Group
  BY <1>1, ConfigType DEF IInv
<1>3. /\ settled' = TRUE /\ id' = i
      /\ UNCHANGED <<icon, config, kind, unclear, groups, deletion, upsets>>
  BY DEF RecordWritten
<1>4. UpsetsOK' /\ DeletionsOK'
  BY <1>3, Undisturbed DEF IInv
<1>5. CASE kind = "create" /\ config.icon = None
  <2>1. pc' = "idle" /\ Track(i)
    BY <1>5 DEF RecordWritten
  <2>2. /\ state' \in State
        /\ state'.id = i /\ state'.groups = config.groups
    BY <1>1, <2>1, TrackType DEF IInv
  <2>3. DataOK' /\ PhaseOK'
    BY <1>2, <1>3, <2>1, <2>2 DEF IInv, DataOK, PhaseOK
  <2>4. QED
    BY <1>1, <1>2, <1>3, <1>4, <1>5, <2>1, <2>2, <2>3
       DEF IInv, OperationOK, RecordOK, StateNamesTheRecord, UpdateSyncsIcon, ClearedOK,
           Recording, Clearing
<1>6. CASE ~(kind = "create" /\ config.icon = None)
  <2>1. pc' = "icon" /\ UNCHANGED state
    BY <1>6 DEF RecordWritten
  <2>2. DataOK' /\ PhaseOK'
    BY <1>2, <1>3, <2>1 DEF IInv, DataOK, PhaseOK, Recording
  <2>3. QED
    BY <1>1, <1>2, <1>3, <1>4, <2>1, <2>2
       DEF IInv, OperationOK, RecordOK, StateNamesTheRecord, UpdateSyncsIcon, ClearedOK,
           Recording, Clearing
<1>7. QED
  BY <1>5, <1>6

LEMMA StepIInv == IInv /\ [Next]_vars => IInv'
<1> SUFFICES ASSUME IInv, [Next]_vars PROVE IInv'
  OBVIOUS
<1> USE DEF IInv, OperationOK, RecordOK, StateNamesTheRecord, UpdateSyncsIcon, ClearedOK,
            Recording, Clearing
<1>1. CASE Configure
  <2>1. DataOK' /\ PhaseOK'
    BY <1>1 DEF DataOK, PhaseOK, Configure
  <2>2. UpsetsOK' /\ DeletionsOK'
    BY <1>1, Undisturbed DEF Configure
  <2>3. QED
    BY <1>1, <2>1, <2>2 DEF DataOK, Configure
<1>2. CASE Create
  <2>1. DataOK' /\ PhaseOK'
    BY <1>2 DEF DataOK, PhaseOK, Create, Begin
  <2>2. UpsetsOK' /\ DeletionsOK'
    BY <1>2, Undisturbed DEF Create, Begin
  <2>3. QED
    BY <1>2, <2>1, <2>2 DEF DataOK, Create, Begin
<1>3. CASE Update
  <2>1. DataOK' /\ PhaseOK'
    BY <1>3 DEF DataOK, PhaseOK, Update, Begin, State
  <2>2. UpsetsOK' /\ DeletionsOK'
    BY <1>3, Undisturbed DEF Update, Begin
  <2>3. QED
    BY <1>3, <2>1, <2>2 DEF DataOK, Update, Begin, State
<1>4. CASE Delete
  <2>1. DataOK' /\ PhaseOK'
    BY <1>4 DEF DataOK, PhaseOK, Delete, Begin, State
  <2>2. UpsetsOK' /\ DeletionsOK'
    BY <1>4, Undisturbed DEF Delete, Begin
  <2>3. QED
    BY <1>4, <2>1, <2>2 DEF DataOK, Delete, Begin, State
<1>5. CASE Read
  <2>1. DataOK' /\ PhaseOK'
    BY <1>5 DEF DataOK, PhaseOK, Read, State
  <2>2. UpsetsOK' /\ DeletionsOK'
    BY <1>5, Undisturbed DEF Read
  <2>3. QED
    BY <1>5, <2>1, <2>2 DEF DataOK, Read, State
<1>6. CASE PutNotFound
  <2>1. DataOK' /\ PhaseOK'
    BY <1>6 DEF DataOK, PhaseOK, PutNotFound, Goto
  <2>2. UpsetsOK' /\ DeletionsOK'
    BY <1>6, Undisturbed DEF PutNotFound, Goto
  <2>3. QED
    BY <1>6, <2>1, <2>2 DEF DataOK, PutNotFound, Goto
<1>7. CASE Lookup
  <2>1. DataOK' /\ PhaseOK'
    BY <1>7 DEF DataOK, PhaseOK, Lookup, FoundId
  <2>2. UpsetsOK' /\ DeletionsOK'
    BY <1>7, Undisturbed DEF Lookup
  <2>3. QED
    BY <1>7, <2>1, <2>2 DEF DataOK, Lookup, FoundId
<1>8. CASE ClearIcon
  <2>1. DataOK' /\ PhaseOK'
    BY <1>8 DEF DataOK, PhaseOK, ClearIcon
  <2>2. UpsetsOK' /\ DeletionsOK'
    BY <1>8, Undisturbed DEF ClearIcon
  <2>3. QED
    BY <1>8, <2>1, <2>2 DEF DataOK, ClearIcon
<1>9. CASE ClearNotFound
  <2>1. DataOK' /\ PhaseOK'
    BY <1>9 DEF DataOK, PhaseOK, ClearNotFound
  <2>2. UpsetsOK' /\ DeletionsOK'
    BY <1>9, Undisturbed DEF ClearNotFound
  <2>3. QED
    BY <1>9, <2>1, <2>2 DEF DataOK, ClearNotFound
<1>10. CASE FindCurrent
  <2>1. DataOK' /\ PhaseOK'
    BY <1>10 DEF DataOK, PhaseOK, FindCurrent, FoundId
  <2>2. UpsetsOK' /\ DeletionsOK'
    BY <1>10, Undisturbed DEF FindCurrent
  <2>3. QED
    BY <1>10, <2>1, <2>2 DEF DataOK, FindCurrent, FoundId
<1>11. CASE Forget
  <2>1. DataOK' /\ PhaseOK'
    BY <1>11 DEF DataOK, PhaseOK, Forget
  <2>2. UpsetsOK' /\ DeletionsOK'
    BY <1>11, Undisturbed DEF Forget
  <2>3. QED
    BY <1>11, <2>1, <2>2 DEF DataOK, Forget
<1>12. CASE RequestFails
  <2>1. DataOK' /\ PhaseOK'
    BY <1>12 DEF DataOK, PhaseOK, RequestFails, AfterError
  <2>2. UpsetsOK' /\ DeletionsOK'
    BY <1>12, Undisturbed DEF RequestFails
  <2>3. (settled' => settled /\ pc # "icon") /\ (~unclear' => ~unclear)
    BY <1>12 DEF RequestFails
  <2>4. pc' \in {"post", "clear", "forget", "idle"}
        /\ UNCHANGED <<record, refs, icon, state, config, kind, id>>
    BY <1>12 DEF RequestFails, AfterError, PhaseOK
  <2>5. OperationOK'
    BY <1>12, <2>4 DEF PhaseOK, RequestFails, AfterError
  <2>6. RecordOK' /\ StateNamesTheRecord' /\ UpdateSyncsIcon'
    <3>1. ~settled'
      BY <1>12, <2>3 DEF RequestFails
    <3>2. QED
      BY <2>4, <3>1
  <2>7. ClearedOK'
    BY <1>12, <2>3, <2>4 DEF PhaseOK, RequestFails, AfterError
  <2>8. QED
    BY <2>1, <2>2, <2>5, <2>6, <2>7
<1>13. CASE AutoClean
  <2>1. DataOK' /\ PhaseOK'
    BY <1>13 DEF DataOK, PhaseOK, AutoClean
  <2>2. UpsetsOK' /\ DeletionsOK'
    BY <1>13, Undisturbed DEF AutoClean
  <2>3. QED
    BY <1>13, <2>1, <2>2 DEF DataOK, AutoClean
<1>14. CASE Reappear
  <2>1. DataOK' /\ PhaseOK'
    BY <1>14 DEF DataOK, PhaseOK, Reappear
  <2>2. UpsetsOK' /\ DeletionsOK'
    BY <1>14, Undisturbed DEF Reappear
  <2>3. QED
    BY <1>14, <2>1, <2>2 DEF DataOK, Reappear
<1>15. CASE Post
  <2>1. PICK i \in Id : record' = i /\ RecordWritten(i)
    BY <1>15 DEF Post, DataOK
  <2>2. Bind(config.groups) /\ pc = "post"
    BY <1>15 DEF Post
  <2>3. refs' = config.groups /\ lagging' \subseteq Group
    BY <2>2, ConfigType, BindType
  <2>4. QED
    BY <2>1, <2>2, <2>3, WrittenIInv
<1>16. CASE Put
  <2>1. id \in Id
    BY <1>16 DEF Put
  <2>2. /\ RecordWritten(id) /\ record' = id /\ Bind(config.groups)
        /\ pc \in {"put", "retryPut"}
    BY <1>16 DEF Put
  <2>3. refs' = config.groups /\ lagging' \subseteq Group
    BY <2>2, ConfigType, BindType
  <2>4. QED
    BY <2>1, <2>2, <2>3, WrittenIInv
<1>17. CASE SetIcon
  <2>1. /\ state' \in State
        /\ state'.id = id /\ state'.groups = config.groups /\ state'.icon = config.icon
    BY <1>17, TrackType DEF SetIcon
  <2>2. config.icon \in Icon \cup {None}
    BY <1>17, ConfigType DEF SetIcon
  <2>3. DataOK' /\ PhaseOK'
    BY <1>17, <2>1, <2>2 DEF SetIcon, SyncIcon, DataOK, PhaseOK
  <2>4. UpsetsOK' /\ DeletionsOK'
    BY <1>17, Undisturbed DEF SetIcon
  <2>5. QED
    BY <1>17, <2>1, <2>3, <2>4 DEF SetIcon, SyncIcon
<1>18. CASE ClearBindings
  <2>1. refs' = {} /\ lagging' \subseteq Group
    BY <1>18, BindType DEF ClearBindings, ClearedGroups
  <2>2. DataOK' /\ PhaseOK'
    BY <1>18, <2>1 DEF ClearBindings, DataOK, PhaseOK
  <2>3. UpsetsOK' /\ DeletionsOK'
    BY <1>18, Undisturbed DEF ClearBindings
  <2>4. QED
    BY <1>18, <2>1, <2>2, <2>3 DEF ClearBindings
<1>19. CASE AnswerLost
  <2>1. /\ UNCHANGED <<state, config, kind, id, unclear, groups, deletion>> /\ Upset
        /\ pc' \in {"post", "idle"} /\ (pc' = "post" => pc = "retryPut")
        /\ pc \in {"post", "put", "retryPut", "icon", "forget"}
    BY <1>19 DEF AnswerLost, AfterError
  <2>2. /\ pc \in {"post", "put", "retryPut"} => refs' = config.groups /\ lagging' \subseteq Group
        /\ pc \in {"post", "put", "retryPut"} => config.groups \subseteq Group
    <3>1. pc \in {"post", "put", "retryPut"} => config.groups \in SUBSET Group /\ Bind(config.groups)
      BY <1>19, ConfigType DEF AnswerLost
    <3>2. QED
      BY <3>1, BindType
  <2>3. pc \in {"icon", "forget"} => UNCHANGED <<refs, lagging>>
    BY <1>19 DEF AnswerLost
  <2>4. record' \in Id \cup {None} /\ icon' \in Icon \cup {None}
    <3>1. record' \in Id \cup {None}
      BY <1>19 DEF AnswerLost, DataOK
    <3>2. pc = "icon" => icon' \in Icon \cup {None}
      BY <1>19, ConfigType DEF AnswerLost, SyncIcon
    <3>3. pc # "icon" => icon' = icon
      BY <1>19 DEF AnswerLost
    <3>4. QED
      BY <3>1, <3>2, <3>3 DEF DataOK
  <2>5. refs' \subseteq Group /\ lagging' \subseteq Group
    BY <2>1, <2>2, <2>3 DEF DataOK
  <2>6. ~settled'
    BY <1>19, <2>1 DEF AnswerLost
  <2>7. DataOK' /\ PhaseOK'
    <3>1. DataOK'
      BY <2>1, <2>4, <2>5 DEF DataOK
    <3>2. PhaseOK'
      <4>1. pc' \in {"post", "idle"} /\ kind' = kind /\ unclear' = unclear /\ settled' = FALSE
        BY <1>19, <2>1 DEF AnswerLost
      <4>2. QED
        BY <4>1 DEF PhaseOK
    <3>3. QED
      BY <3>1, <3>2
  <2>8. UpsetsOK' /\ DeletionsOK'
    BY <2>1, Undisturbed
  <2>9. OperationOK' /\ RecordOK' /\ StateNamesTheRecord' /\ UpdateSyncsIcon'
    BY <2>1, <2>6
  <2>10. ClearedOK'
    BY <2>1, <2>2, <2>3
  <2>11. QED
    BY <2>7, <2>8, <2>9, <2>10
<1>20. ASSUME NEW g \in Group, CatchUp(g) PROVE IInv'
  <2>1. DataOK' /\ PhaseOK'
    BY <1>20 DEF CatchUp, device, DataOK, PhaseOK
  <2>2. UpsetsOK' /\ DeletionsOK'
    BY <1>20, Undisturbed DEF CatchUp
  <2>3. QED
    BY <1>20, <2>1, <2>2 DEF CatchUp, device
<1>21. ASSUME NEW g \in Group, StartDelete(g) PROVE IInv'
  BY <1>21, DeletionGoesTo DEF StartDelete, DataOK
<1>22. ASSUME NEW g \in Group, DeleteGroup(g) PROVE IInv'
  <2>1. groups' \subseteq Group
    BY <1>22 DEF DeleteGroup, DataOK
  <2>2. \E p \in {"try", "sleep", "done"} : Deleting(g, p) /\ (p = "sleep" => MayRetry(g))
    BY <1>22 DEF DeleteGroup
  <2>3. QED
    BY <2>1, <2>2, DeletionGoesTo
<1>23. ASSUME NEW g \in Group, DeleteGroupFails(g) PROVE IInv'
  BY <1>23, DeletionGoesTo DEF DeleteGroupFails, DataOK
<1>24. ASSUME NEW g \in Group, Wake(g) PROVE IInv'
  <2> DEFINE n == deletion[g].tries + 1
             d == [pc |-> "try", tries |-> n]
  <2>1. deletion' = [deletion EXCEPT ![g] = d] /\ UNCHANGED <<device, lagging, groups, upsets>>
    BY <1>24 DEF Wake, NextTry
  <2>2. n \in 0..MaxRetries - 1
    BY <1>24, BoundsAssumption DEF Wake, DeletionsOK, Deletion
  <2> HIDE DEF n
  <2>3. d \in Deletion /\ d.pc = "try"
    BY <2>2 DEF Deletion
  <2> HIDE DEF d
  <2>4. QED
    BY <2>1, <2>3, DeletionMoves DEF DataOK
<1>25. CASE UNCHANGED vars
  <2>1. DataOK' /\ PhaseOK'
    BY <1>25 DEF vars, device, DataOK, PhaseOK
  <2>2. UpsetsOK' /\ DeletionsOK'
    BY <1>25, Undisturbed DEF vars
  <2>3. QED
    BY <1>25, <2>1, <2>2 DEF vars, device
<1>26. CASE PutAnswersNothing
  <2>1. /\ UNCHANGED <<record, refs, icon, state, config, kind, id, settled, unclear,
                      lagging, groups, deletion, upsets>>
        /\ \/ pc = "put" /\ pc' = "getPut" /\ refs = config.groups
           \/ pc = "retryPut" /\ pc' = "getRetryPut" /\ refs = config.groups
           \/ pc = "clear" /\ pc' = "getClear" /\ refs = {}
    BY <1>26 DEF PutAnswersNothing, Goto
  <2>2. DataOK' /\ PhaseOK'
    BY <2>1 DEF DataOK, PhaseOK
  <2>3. UpsetsOK' /\ DeletionsOK'
    BY <2>1, Undisturbed
  <2>4. QED
    BY <2>1, <2>2, <2>3
<1>27. CASE Get
  <2>1. CASE pc = "getClear"
    <3>1. /\ UNCHANGED <<record, refs, icon, state, config, kind, id, settled, unclear,
                        lagging, groups, deletion, upsets>>
          /\ pc' = "forget"
      BY <1>27, <2>1 DEF Get, Goto
    <3>2. DataOK' /\ PhaseOK'
      BY <3>1 DEF DataOK, PhaseOK
    <3>3. UpsetsOK' /\ DeletionsOK'
      BY <3>1, Undisturbed
    <3>4. QED
      BY <2>1, <3>1, <3>2, <3>3
  <2>2. CASE pc \in {"getPut", "getRetryPut"}
    <3>1. RecordWritten(id) /\ UNCHANGED <<record, refs, lagging>> /\ record = id /\ id \in Id
      BY <1>27, <2>2 DEF Get
    <3>2. record' = id /\ refs' = config.groups /\ lagging' \subseteq Group
      BY <2>2, <3>1 DEF DataOK
    <3>3. QED
      BY <2>2, <3>1, <3>2, WrittenIInv
  <2>3. QED
    BY <1>27, <2>1, <2>2 DEF Get
<1>28. QED
  BY <1>1, <1>2, <1>3, <1>4, <1>5, <1>6, <1>7, <1>8, <1>9, <1>10, <1>11, <1>12, <1>13, <1>14,
     <1>15, <1>16, <1>17, <1>18, <1>19, <1>20, <1>21, <1>22, <1>23, <1>24, <1>25, <1>26, <1>27
     DEF Next, Step, GroupStep

\* The strengthened invariant holds in every reachable state.
THEOREM Invariance == Spec => []IInv
<1>1. QED
  BY InitIInv, StepIInv, PTL DEF Spec

\* Every variable keeps its type; a deletion is tried at most MaxRetries times.
THEOREM TypeCorrect == Spec => []TypeOK
<1>1. IInv => TypeOK
  BY TypeParts DEF IInv, DeletionsOK
<1>2. QED
  BY <1>1, Invariance, PTL

\* However the controller dropped and replaced the record on the way, a state that an
\* operation wrote names the record the MAC has and the groups it is bound to, until
\* something happens behind its back.  (Create, Update, GetClientDeviceByMAC)
THEOREM StateIsTrue == Spec => []StateNamesTheRecord
<1>1. IInv => StateNamesTheRecord
  BY DEF IInv
<1>2. QED
  BY <1>1, Invariance, PTL

\* An update that went through leaves the planned icon, whichever of its requests made
\* the record.  (syncFingerprintOverride)
THEOREM IconIsSynced == Spec => []UpdateSyncsIcon
<1>1. IInv => UpdateSyncsIcon
  BY DEF IInv
<1>2. QED
  BY <1>1, Invariance, PTL

\* A device that was destroyed refers to no group, unless its references could not be
\* cleared.  (Delete)
THEOREM GroupsAreFree == Spec => []DestroyFreesGroups
<1>1. IInv => DestroyFreesGroups
  BY DEF IInv, ClearedOK, DestroyFreesGroups
<1>2. QED
  BY <1>1, Invariance, PTL
=================================================================================

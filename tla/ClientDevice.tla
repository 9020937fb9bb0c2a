----------------------------- MODULE ClientDevice -----------------------------
(***************************************************************************)
(* terrifi_client_device and the deletion of the client groups it names.   *)
(*                                                                         *)
(* A client device is the controller's user record of one MAC address.     *)
(* The controller drops the record of a MAC that is not connected and      *)
(* makes another, with another id, when it shows up again; the MAC's       *)
(* references to client groups outlive the record, and a reference that    *)
(* was dropped blocks the deletion of its group a little longer.           *)
(*                                                                         *)
(* Every operation is a sequence of requests, each of which may fail, be   *)
(* applied although its answer is lost, or meet a controller that changed. *)
(***************************************************************************)
EXTENDS Naturals, FiniteSets

CONSTANTS
    Id,         \* ids of user records
    Group,      \* client groups
    Icon,       \* device_type_id values
    None,       \* no record, no icon
    Untracked,  \* not in the Terraform state, not in the configuration
    MaxRetries, \* tries at deleting a group (5 in the source)
    MaxUpsets   \* bound: records dropped or made by the controller, lost requests

ASSUME BoundsAssumption == MaxRetries \in Nat \ {0} /\ MaxUpsets \in Nat

VARIABLES
    record,     \* controller: id of the MAC's user record, or None
    refs,       \* controller: groups the MAC refers to
    lagging,    \* controller: groups that do not know yet that a reference is gone
    icon,       \* controller: fingerprint override of the MAC
    groups,     \* controller: client groups
    state,      \* Terraform state of the device
    config,     \* its configuration
    pc, kind,   \* where its operation stands, and which one it is
    id,         \* the record id its next PUT names
    deletion,   \* deletion[g]: the deletion of group g
    \* History variables.
    upsets,     \* upsets so far
    settled,    \* nothing happened behind the last record the operation wrote
    unclear     \* the delete could not clear the references of this MAC

device == <<record, refs, icon, state, config, pc, kind, id, settled, unclear>>
vars == <<device, lagging, groups, deletion, upsets>>

Settings == [groups : SUBSET Group, icon : Icon \cup {None}]
State == [id : Id, groups : SUBSET Group, icon : Icon \cup {None}]

TypeOK ==
    /\ record \in Id \cup {None}
    /\ refs \subseteq Group /\ lagging \subseteq Group /\ groups \subseteq Group
    /\ icon \in Icon \cup {None}
    /\ state \in State \cup {Untracked}
    /\ config \in Settings \cup {Untracked}
    /\ pc \in {"idle", "post", "put", "getPut", "lookup", "retryPut", "getRetryPut", "icon",
               "clearIcon", "clear", "getClear", "findCurrent", "clearCurrent", "forget"}
    /\ kind \in {"create", "update", "delete"}
    /\ id \in Id \cup {None}
    /\ deletion \in [Group -> [pc : {"idle", "try", "sleep", "done"},
                               tries : 0..MaxRetries - 1]]
    /\ upsets \in 0..MaxUpsets
    /\ settled \in BOOLEAN /\ unclear \in BOOLEAN

Init ==
    /\ record = None
    /\ refs = {} /\ lagging = {} /\ icon = None
    /\ groups = Group
    /\ state = Untracked /\ config = Untracked
    /\ pc = "idle" /\ kind = "create" /\ id = None
    /\ deletion = [g \in Group |-> [pc |-> "idle", tries |-> 0]]
    /\ upsets = 0 /\ settled = FALSE /\ unclear = FALSE

Upset == upsets < MaxUpsets /\ upsets' = upsets + 1

(***************************************************************************)
(* Terraform.                                                              *)
(***************************************************************************)

\* The user edits the configuration; it names groups that exist and stay.
Configure ==
    /\ pc = "idle"
    /\ config' \in Settings \cup {Untracked}
    /\ config' # Untracked =>
          \A g \in config'.groups : g \in groups /\ deletion[g].pc = "idle"
    /\ UNCHANGED <<record, refs, icon, state, pc, kind, id, settled, unclear,
                   lagging, groups, deletion, upsets>>

Begin(k, p, i) ==
    /\ pc = "idle"
    /\ kind' = k /\ pc' = p /\ id' = i
    /\ settled' = FALSE /\ unclear' = FALSE
    /\ UNCHANGED <<record, refs, icon, state, config, lagging, groups, deletion, upsets>>

Create ==
    /\ state = Untracked /\ config # Untracked
    /\ Begin("create", "post", None)

Update ==
    /\ state # Untracked /\ config # Untracked
    /\ \/ state.groups # config.groups
       \/ state.icon # config.icon
    /\ Begin("update", "put", state.id)

\* Delete clears the icon only if the state has one.
Delete ==
    /\ state # Untracked /\ config = Untracked
    /\ Begin("delete", IF state.icon # None THEN "clearIcon" ELSE "clear", state.id)

\* Read: a record that is gone leaves the state.  The groups are kept from the
\* state; the icon is, too, when it cannot be read.
Read ==
    /\ pc = "idle" /\ state # Untracked
    /\ state' \in IF record # state.id THEN {Untracked}
                  ELSE {state, [state EXCEPT !.icon = icon]}
    /\ settled' = FALSE
    /\ UNCHANGED <<record, refs, icon, config, pc, kind, id, unclear,
                   lagging, groups, deletion, upsets>>

(***************************************************************************)
(* Requests of Create and Update.                                          *)
(***************************************************************************)

\* What the controller holds after a request that binds the MAC to gs.
Bind(gs) == refs' = gs /\ lagging' = lagging \cup (refs \ gs)

\* Mutant: the state keeps the id it had.
KeepsOldId(i) == IF state = Untracked THEN i ELSE state.id

\* apiToModel takes the id from the answer.
AnsweredId(i) == i

\* State.Set with the plan and the id of the record that answered.
Track(i) == state' = [id |-> AnsweredId(i), groups |-> config.groups, icon |-> config.icon]

\* After the record: Create sets an icon that is planned, Update always syncs it.
RecordWritten(i) ==
    /\ settled' = TRUE
    /\ id' = i
    /\ IF kind = "create" /\ config.icon = None
       THEN pc' = "idle" /\ Track(i)
       ELSE pc' = "icon" /\ UNCHANGED state
    /\ UNCHANGED <<icon, config, kind, unclear, groups, deletion, upsets>>

\* CreateClientDevice: a new record, with an id nobody remembers, or the one the
\* MAC has.
Post ==
    /\ pc = "post"
    /\ \E i \in IF record # None THEN {record}
                ELSE Id \ {id, IF state = Untracked THEN None ELSE state.id} :
          record' = i /\ RecordWritten(i)
    /\ Bind(config.groups)

\* UpdateClientDevice answered with the record.
Put ==
    /\ pc \in {"put", "retryPut"}
    /\ record = id
    /\ Bind(config.groups)
    /\ RecordWritten(id)
    /\ UNCHANGED record

Goto(p) ==
    /\ pc' = p
    /\ UNCHANGED <<record, refs, icon, state, config, kind, id, settled, unclear,
                   lagging, groups, deletion, upsets>>

\* A PUT that changes nothing may be answered without data; a GET follows.
PutAnswersNothing ==
    /\ record = id
    /\ \/ pc = "put" /\ refs = config.groups /\ Goto("getPut")
       \/ pc = "retryPut" /\ refs = config.groups /\ Goto("getRetryPut")
       \/ pc = "clear" /\ refs = {} /\ Goto("getClear")

\* GetClientDevice within UpdateClientDevice.
Get ==
    /\ record = id
    /\ \/ pc \in {"getPut", "getRetryPut"} /\ RecordWritten(id) /\ UNCHANGED <<record, refs, lagging>>
       \/ pc = "getClear" /\ Goto("forget")

\* 404, to the PUT or the GET after it: the controller has dropped the record.
PutNotFound ==
    /\ record # id
    /\ \/ pc \in {"put", "getPut"} /\ Goto("lookup")
       \/ pc \in {"retryPut", "getRetryPut"} /\ Goto("post")

\* apiObj.ID = found.ID
FoundId == record

\* GetClientDeviceByMAC
Lookup ==
    /\ pc = "lookup"
    /\ IF record # None THEN pc' = "retryPut" /\ id' = FoundId
                        ELSE pc' = "post" /\ UNCHANGED id
    /\ UNCHANGED <<record, refs, icon, state, config, kind, settled, unclear,
                   lagging, groups, deletion, upsets>>

\* Mutant: only an icon that is planned is sent.
SyncSetsOnly == IF config.icon = None THEN icon ELSE config.icon

\* syncFingerprintOverride: an icon that is not planned is cleared.
SyncIcon == config.icon

SetIcon ==
    /\ pc = "icon"
    /\ icon' = SyncIcon
    /\ pc' = "idle"
    /\ Track(id)
    /\ UNCHANGED <<record, refs, config, kind, id, settled, unclear,
                   lagging, groups, deletion, upsets>>

(***************************************************************************)
(* Requests of Delete.                                                     *)
(***************************************************************************)

\* Whether the answer arrives makes no difference here and in ClearBindings.
ClearIcon ==
    /\ pc = "clearIcon"
    /\ icon' = None
    /\ pc' = "clear"
    /\ UNCHANGED <<record, refs, state, config, kind, id, settled, unclear,
                   lagging, groups, deletion, upsets>>

\* Mutant: the request leaves the groups out instead of sending none.
KeepsGroups == refs

\* buildClientDeviceRequest sends [] for no groups.
ClearedGroups == {}

ClearBindings ==
    /\ pc \in {"clear", "clearCurrent"}
    /\ record = id
    /\ Bind(ClearedGroups)
    /\ pc' = "forget"
    /\ UNCHANGED <<record, icon, state, config, kind, id, settled, unclear,
                   groups, deletion, upsets>>

ClearNotFound ==
    /\ pc \in {"clear", "getClear", "clearCurrent"}
    /\ record # id
    /\ pc' = IF pc = "clearCurrent" THEN "forget" ELSE "findCurrent"
    /\ unclear' = (unclear \/ pc = "clearCurrent")
    /\ UNCHANGED <<record, refs, icon, state, config, kind, id, settled,
                   lagging, groups, deletion, upsets>>

\* The lookup before the second try; without a record there is none.
FindCurrent ==
    /\ pc = "findCurrent"
    /\ IF record # None
       THEN pc' = "clearCurrent" /\ id' = FoundId /\ UNCHANGED unclear
       ELSE pc' = "forget" /\ unclear' = TRUE /\ UNCHANGED id
    /\ UNCHANGED <<record, refs, icon, state, config, kind, settled,
                   lagging, groups, deletion, upsets>>

\* ForgetClientDevicesByMAC; an unknown MAC counts as success.
Forget ==
    /\ pc = "forget"
    /\ record' = None
    /\ state' = Untracked
    /\ pc' = "idle"
    /\ UNCHANGED <<refs, icon, config, kind, id, settled, unclear,
                   lagging, groups, deletion, upsets>>

(***************************************************************************)
(* Failures.                                                               *)
(***************************************************************************)

\* Create and Update report an error, except that a failed lookup or second PUT makes
\* way for the POST; Delete goes on, except that its last request is reported.
AfterError ==
    CASE pc \in {"lookup", "retryPut", "getRetryPut"} -> "post"
      [] pc = "clearIcon" -> "clear"
      [] pc \in {"clear", "getClear", "findCurrent", "clearCurrent"} -> "forget"
      [] OTHER -> "idle"

\* A request fails before it takes effect.
RequestFails ==
    /\ pc # "idle"
    /\ Upset
    /\ pc' = AfterError
    /\ unclear' = (unclear \/ pc \in {"clear", "findCurrent", "clearCurrent"})
    /\ settled' = (settled /\ pc # "icon")
    /\ UNCHANGED <<record, refs, icon, state, config, kind, id,
                   lagging, groups, deletion>>

\* A request takes effect and its answer is lost: the state does not know.
AnswerLost ==
    /\ Upset
    /\ \/ /\ pc = "post" /\ Bind(config.groups) /\ UNCHANGED icon
          /\ record' \in IF record # None THEN {record} ELSE Id
       \/ /\ pc \in {"put", "retryPut"} /\ record = id
          /\ Bind(config.groups) /\ UNCHANGED <<record, icon>>
       \/ pc = "icon" /\ icon' = SyncIcon /\ UNCHANGED <<record, refs, lagging>>
       \/ pc = "forget" /\ record' = None /\ UNCHANGED <<refs, icon, lagging>>
    /\ pc' = AfterError
    /\ settled' = (settled /\ pc # "icon")
    /\ UNCHANGED <<state, config, kind, id, unclear, groups, deletion>>

\* The controller drops the record of a MAC that is not connected.
AutoClean ==
    /\ record # None
    /\ Upset
    /\ record' = None /\ settled' = FALSE
    /\ UNCHANGED <<refs, icon, state, config, pc, kind, id, unclear,
                   lagging, groups, deletion>>

\* The MAC connects and gets a new record.
Reappear ==
    /\ record = None
    /\ Upset
    /\ record' \in Id \ {id, IF state = Untracked THEN None ELSE state.id}
    /\ settled' = FALSE
    /\ UNCHANGED <<refs, icon, state, config, pc, kind, id, unclear,
                   lagging, groups, deletion>>

(***************************************************************************)
(* Client groups.                                                          *)
(***************************************************************************)

\* The controller lets a group know that a reference to it is gone.
CatchUp(g) ==
    /\ g \in lagging
    /\ lagging' = lagging \ {g}
    /\ UNCHANGED <<device, groups, deletion, upsets>>

Deleting(g, p) ==
    /\ deletion' = [deletion EXCEPT ![g].pc = p]
    /\ UNCHANGED <<device, lagging, upsets>>

\* The configuration drops the group.  A device that is destroyed with it goes
\* first; one that is updated to do without it may be updated meanwhile.
StartDelete(g) ==
    /\ deletion[g].pc = "idle"
    /\ IF config = Untracked THEN state = Untracked /\ pc = "idle" ELSE g \notin config.groups
    /\ Deleting(g, "try")
    /\ UNCHANGED groups

\* Mutant: off by one.
MayRetryOnceMore(g) == deletion[g].tries < MaxRetries

\* i < maxRetries-1
MayRetry(g) == deletion[g].tries < MaxRetries - 1

\* DELETE: refused with ObjectReferredBy while the MAC refers to the group.
DeleteGroup(g) ==
    /\ deletion[g].pc = "try"
    /\ IF g \notin refs \cup lagging
       THEN groups' = groups \ {g} /\ Deleting(g, "done")
       ELSE UNCHANGED groups /\ Deleting(g, IF MayRetry(g) THEN "sleep" ELSE "done")

\* Mutant: the loop variable is not advanced.
SameTry(n) == n

NextTry(n) == n + 1

Wake(g) ==
    /\ deletion[g].pc = "sleep"
    /\ deletion' = [deletion EXCEPT ![g] = [pc |-> "try", tries |-> NextTry(@.tries)]]
    /\ UNCHANGED <<device, lagging, groups, upsets>>

\* Any other error ends the deletion.
DeleteGroupFails(g) ==
    /\ deletion[g].pc = "try"
    /\ Deleting(g, "done")
    /\ UNCHANGED groups

Step ==
    \/ Post \/ Put \/ PutAnswersNothing \/ Get \/ PutNotFound \/ Lookup \/ SetIcon
    \/ ClearIcon \/ ClearBindings \/ ClearNotFound \/ FindCurrent \/ Forget

GroupStep(g) == DeleteGroup(g) \/ Wake(g) \/ DeleteGroupFails(g)

Next ==
    \/ Configure \/ Create \/ Update \/ Delete \/ Read
    \/ Step
    \/ RequestFails \/ AnswerLost \/ AutoClean \/ Reappear
    \/ \E g \in Group : CatchUp(g) \/ StartDelete(g) \/ GroupStep(g)

Spec == Init /\ [][Next]_vars

\* Every request is answered or fails, and a goroutine that sleeps wakes up.
FairSpec == Spec /\ WF_vars(Step) /\ \A g \in Group : WF_vars(GroupStep(g))

(***************************************************************************)
(* Properties.                                                             *)
(***************************************************************************)

\* After a create or update the state names the record that the MAC has and the
\* groups it is bound to, although the record was dropped or replaced on the way,
\* unless something happened after the record was written.
StateNamesTheRecord ==
    pc = "idle" /\ state # Untracked /\ settled =>
        record = state.id /\ refs = state.groups

\* An update leaves the icon that was planned, also when that is none.  (Create
\* does not clear an icon it did not plan.)  (syncFingerprintOverride)
UpdateSyncsIcon ==
    pc = "idle" /\ state # Untracked /\ settled /\ kind = "update" => icon = state.icon

\* A device that was destroyed holds no group back, unless the controller had no
\* record to clear or a clearing request failed.  (clearObj in Delete)
DestroyFreesGroups ==
    pc = "idle" /\ state = Untracked /\ kind = "delete" /\ ~unclear => refs = {}

\* Both the operation on the device and the deletion of a group come to an end,
\* although the controller drops and makes records behind the device's back and
\* never lets go of a reference.
OperationsReturn ==
    /\ pc # "idle" ~> pc = "idle"
    /\ \A g \in Group : deletion[g].pc # "idle" ~> deletion[g].pc = "done"
=============================================================================

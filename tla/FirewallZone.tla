----------------------------- MODULE FirewallZone -----------------------------
(***************************************************************************)
(* terrifi_firewall_zone: one Terraform apply that creates, updates and    *)
(* deletes several zones concurrently, and the refresh of the next run.    *)
(*                                                                         *)
(* A network sits in at most one zone, so moving one is two zone updates.  *)
(* The source reports that the controller answers such concurrent PUTs     *)
(* with success although they interfere; Update therefore reads the zone   *)
(* list back and repeats its PUT.  The list may come from the cache.       *)
(*                                                                         *)
(* Each zone's operation runs in a goroutine of its own.  A list of zones  *)
(* is a function from the zones that exist to their sets of networks.      *)
(***************************************************************************)
EXTENDS Integers, FiniteSets

CONSTANTS
    Zone,        \* zone resources
    Net,         \* networks
    MaxAttempts, \* rounds of the verification loop (5 in the source)
    Unknown,     \* network_ids left out of the configuration (computed)
    NoList       \* the zone list is not cached

ASSUME AttemptsAssumption == MaxAttempts \in Nat \ {0}

VARIABLES
    caching,  \* the provider's response_caching setting
    zones,    \* controller: the zone list
    cached,   \* response cache: the zone list or NoList
    state,    \* Terraform state: network_ids of the tracked zones
    config,   \* planned network_ids, or Unknown, of the configured zones
    op,       \* op[z]: the operation on z
    \* History variables.
    held,     \* held[z]: the controller had z as wanted since this read-back began
    overlap   \* two writes were inside the controller at once

vars == <<caching, zones, cached, state, config, op, held, overlap>>

Lists == UNION {[D -> SUBSET Net] : D \in SUBSET Zone}
Kind == {"create", "update", "delete"}
Phase == {"idle",       \* not started
          "sent",       \* request on its way
          "begun",      \* the controller works on it
          "committed",  \* applied; the answer is on its way
          "verify",     \* about to read the zone list back
          "fetched",    \* a fresh list is on its way back
          "done", "failed", "refreshed"}
Outcome == {"none", "verified", "gaveUp"}

Op == [pc : Phase, kind : Kind, want : SUBSET Net, snap : Lists \cup {NoList},
       attempt : 0..MaxAttempts, put : BOOLEAN, outcome : Outcome]

TypeOK ==
    /\ caching \in BOOLEAN
    /\ zones \in Lists
    /\ cached \in Lists \cup {NoList}
    /\ state \in Lists
    /\ config \in UNION {[D -> (SUBSET Net) \cup {Unknown}] : D \in SUBSET Zone}
    /\ op \in [Zone -> Op]
    /\ held \in [Zone -> BOOLEAN]
    /\ overlap \in BOOLEAN

Disjoint(list) == \A y, z \in DOMAIN list : y # z => list[y] \cap list[z] = {}

\* What the plan step hands to apply: the state was just refreshed.
Init ==
    /\ caching \in BOOLEAN
    /\ zones \in {l \in Lists : Disjoint(l)}
    /\ cached = NoList
    /\ state \in {[z \in D |-> zones[z]] : D \in SUBSET DOMAIN zones}
    /\ config \in UNION {[D -> (SUBSET Net) \cup {Unknown}] : D \in SUBSET Zone}
    /\ \A z \in DOMAIN zones \ DOMAIN state : z \notin DOMAIN config
    /\ op = [z \in Zone |-> [pc |-> "idle", kind |-> "update", want |-> {},
                             snap |-> NoList, attempt |-> 0, put |-> FALSE,
                             outcome |-> "none"]]
    /\ held = [z \in Zone |-> FALSE]
    /\ overlap = FALSE

Move(z, o) == op' = [op EXCEPT ![z] = o]
Goto(z, p) == Move(z, [op[z] EXCEPT !.pc = p])
At(z, p) == op[z].pc = p

(***************************************************************************)
(* Terraform calls the resource.                                           *)
(***************************************************************************)

\* Mutant: an update sends what the state holds whatever the plan says.
KeepStateOnUpdate(z) == state[z]

\* applyPlanToState: an unknown plan value keeps the network_ids of the state.
ApplyPlanToState(z) == IF config[z] = Unknown THEN state[z] ELSE config[z]

\* modelToAPI and the empty-slice default: an unknown set is sent as [].
PlannedIds(z) == IF config[z] = Unknown THEN {} ELSE config[z]

Start(z, kind, want) ==
    /\ At(z, "idle")
    /\ Move(z, [op[z] EXCEPT !.pc = "sent", !.kind = kind, !.want = want])
    /\ UNCHANGED <<caching, zones, cached, state, config, held, overlap>>

Create(z) ==
    /\ z \in DOMAIN config \ DOMAIN state
    /\ Start(z, "create", PlannedIds(z))

\* Terraform calls Update when some attribute differs; with network_ids unknown
\* that is another attribute (the name).
Update(z) ==
    /\ z \in DOMAIN config \cap DOMAIN state
    /\ config[z] # state[z]
    /\ Start(z, "update", ApplyPlanToState(z))

Delete(z) ==
    /\ z \in DOMAIN state \ DOMAIN config
    /\ Start(z, "delete", {})

(***************************************************************************)
(* The controller (external).  A write that overlaps another may be        *)
(* applied to the list as it was when the write began.                     *)
(***************************************************************************)

Begin(z) ==
    /\ At(z, "sent")
    /\ op[z].kind # "create" => z \in DOMAIN zones
    /\ Move(z, [op[z] EXCEPT !.pc = "begun", !.snap = zones])
    /\ overlap' = (overlap \/ \E y \in Zone \ {z} : At(y, "begun"))
    /\ UNCHANGED <<caching, zones, cached, state, config, held>>

\* The list base with z set to the networks a write wants it to hold.
Written(base, z) ==
    LET w == op[z].want
        kept == DOMAIN zones \ {z}
        others == [y \in kept |-> (IF y \in DOMAIN base THEN base[y] ELSE zones[y]) \ w]
    IN  IF op[z].kind = "delete" THEN others
        ELSE [y \in kept \cup {z} |-> IF y = z THEN w ELSE others[y]]

\* The controller holds z as its update wants it.
HasWanted(z) == z \in DOMAIN zones /\ zones[z] = op[z].want

Commit(z) ==
    /\ At(z, "begun")
    /\ \E base \in {zones, op[z].snap} : zones' = Written(base, z)
    /\ Move(z, [op[z] EXCEPT !.pc = "committed", !.snap = NoList])
    /\ held' = [y \in Zone |-> held[y] \/ HasWanted(y)']
    /\ UNCHANGED <<caching, cached, state, config, overlap>>

(***************************************************************************)
(* Answers.                                                                *)
(***************************************************************************)

\* State.Set with the answer to a write, which repeats what was asked for.
Track(z) == [y \in DOMAIN state \cup {z} |-> IF y = z THEN op[z].want ELSE state[y]]

Untrack(z) == [y \in DOMAIN state \ {z} |-> state[y]]

\* Mutant: the loop variable is not advanced.
AnotherRoundForever(z) ==
    [op[z] EXCEPT !.pc = "verify", !.snap = NoList]

\* Mutant: the bound is off by one.
AnotherRoundTooMany(z) ==
    LET n == op[z].attempt + 1 IN
    IF n <= MaxAttempts
    THEN [op[z] EXCEPT !.pc = "verify", !.attempt = n, !.snap = NoList]
    ELSE [op[z] EXCEPT !.pc = "done", !.attempt = n, !.snap = NoList, !.outcome = "gaveUp"]

\* One round of the loop ended with a PUT, answered or not.
AnotherRound(z) ==
    LET n == op[z].attempt + 1 IN
    IF n < MaxAttempts
    THEN [op[z] EXCEPT !.pc = "verify", !.attempt = n, !.snap = NoList]
    ELSE [op[z] EXCEPT !.pc = "done", !.attempt = n, !.snap = NoList, !.outcome = "gaveUp"]

Answer(z) ==
    /\ At(z, "committed")
    /\ cached' = NoList
    /\ CASE op[z].kind = "create" -> Goto(z, "done") /\ state' = Track(z)
         [] op[z].kind = "delete" -> Goto(z, "done") /\ state' = Untrack(z)
         [] op[z].kind = "update" /\ ~op[z].put ->
               /\ Move(z, [op[z] EXCEPT !.pc = "verify", !.put = TRUE])
               /\ UNCHANGED state
         [] OTHER ->
               /\ Move(z, AnotherRound(z))
               /\ state' = IF AnotherRound(z).pc = "done" THEN Track(z) ELSE state
    /\ held' = [held EXCEPT ![z] = HasWanted(z)]
    /\ UNCHANGED <<caching, zones, config, overlap>>

\* The write is refused, or its answer is lost after it was applied.  The first
\* PUT of an update, a create and a delete report it and leave the state alone;
\* a repeated PUT ignores it.  The cache is not touched.
WriteFails(z) ==
    /\ op[z].pc \in {"sent", "begun", "committed"}
    /\ IF op[z].put
       THEN /\ Move(z, AnotherRound(z))
            /\ state' = IF AnotherRound(z).pc = "done" THEN Track(z) ELSE state
       ELSE /\ Move(z, [op[z] EXCEPT !.pc = "failed", !.snap = NoList])
            /\ UNCHANGED state
    /\ held' = [held EXCEPT ![z] = HasWanted(z)]
    /\ UNCHANGED <<caching, zones, cached, config, overlap>>

(***************************************************************************)
(* The verification loop of Update.                                        *)
(***************************************************************************)

\* Mutant: only the lengths of the two lists are compared.
SameLength(a, b) == Cardinality(a) = Cardinality(b)

NetworkIDsMatch(a, b) == a = b

\* The list read back shows z as wanted: stop; otherwise repeat the PUT.
Compare(z, list) ==
    IF z \in DOMAIN list /\ NetworkIDsMatch(list[z], op[z].want)
    THEN /\ Move(z, [op[z] EXCEPT !.pc = "done", !.snap = NoList, !.outcome = "verified"])
         /\ state' = Track(z)
    ELSE /\ Move(z, [op[z] EXCEPT !.pc = "sent", !.snap = NoList])
         /\ UNCHANGED state

VerifyCached(z) ==
    /\ At(z, "verify")
    /\ cached # NoList
    /\ Compare(z, cached)
    /\ UNCHANGED <<caching, zones, cached, config, held, overlap>>

\* The list is read at the controller; its bytes are on their way back.
Fetch(z) ==
    /\ At(z, "verify")
    /\ cached = NoList
    /\ Move(z, [op[z] EXCEPT !.pc = "fetched", !.snap = zones])
    /\ UNCHANGED <<caching, zones, cached, state, config, held, overlap>>

VerifyFetched(z) ==
    /\ At(z, "fetched")
    /\ cached' = IF caching THEN op[z].snap ELSE cached
    /\ Compare(z, op[z].snap)
    /\ UNCHANGED <<caching, zones, config, held, overlap>>

\* A read-back that fails counts as a mismatch.
VerifyFails(z) ==
    /\ op[z].pc \in {"verify", "fetched"}
    /\ Move(z, [op[z] EXCEPT !.pc = "sent", !.snap = NoList])
    /\ UNCHANGED <<caching, zones, cached, state, config, held, overlap>>

(***************************************************************************)
(* The next run: a new provider process refreshes every tracked zone.      *)
(***************************************************************************)

Finished(z) == op[z].pc \in {"done", "failed", "refreshed"}
Busy(z) == op[z].pc \notin {"idle", "done", "failed", "refreshed"}

Read(z) ==
    /\ op[z].pc \in {"done", "failed"}
    /\ \A y \in Zone : ~Busy(y)
    /\ z \in DOMAIN state
    /\ Goto(z, "refreshed")
    /\ state' = IF z \in DOMAIN zones THEN [state EXCEPT ![z] = zones[z]] ELSE Untrack(z)
    /\ cached' = NoList
    /\ UNCHANGED <<caching, zones, config, held, overlap>>

Progress(z) ==
    \/ Begin(z)
    \/ Commit(z)
    \/ Answer(z)
    \/ WriteFails(z)
    \/ VerifyCached(z)
    \/ Fetch(z)
    \/ VerifyFetched(z)
    \/ VerifyFails(z)

Next ==
    \/ \E z \in Zone : Create(z)
    \/ \E z \in Zone : Update(z)
    \/ \E z \in Zone : Delete(z)
    \/ \E z \in Zone : Progress(z)
    \/ \E z \in Zone : Read(z)

\* A request is answered or times out and a goroutine that is not waiting runs;
\* nothing obliges Terraform to start an operation or to run again.
Spec == Init /\ [][Next]_vars
FairSpec == Spec /\ \A z \in Zone : WF_vars(Progress(z))

(***************************************************************************)
(* Properties.                                                             *)
(***************************************************************************)

Verified(z) == op[z].outcome = "verified"

\* With caching off, an update that ends because the read-back matched saw a zone
\* list in which the controller really held the zone as planned after the last PUT
\* was answered: concurrent writes and failed reads cannot fake a match.
VerifiedUpdateTookEffect == \A z \in Zone : ~caching /\ Verified(z) => held[z]

\* Every planned zone holds its planned networks once an apply without failures is
\* over, provided no network is planned in two zones, no set is left to the
\* controller and no two writes met inside the controller, whatever the order of
\* the operations that move a network between zones.
PlanIsFixed == \A z \in DOMAIN config : config[z] # Unknown
ApplyOver ==
    \A z \in Zone : \/ op[z].pc = "done"
                    \/ op[z].pc = "idle" /\ z \notin DOMAIN config \cup DOMAIN state
                    \/ op[z].pc = "idle" /\ z \in DOMAIN config \cap DOMAIN state
                                         /\ config[z] = state[z]
QuietApplyConverges ==
    PlanIsFixed /\ Disjoint(config) /\ ~overlap /\ ApplyOver
        => \A z \in DOMAIN config : z \in DOMAIN zones /\ zones[z] = config[z]

\* Every operation returns: an update gives up after MaxAttempts rounds even when
\* two zones keep undoing each other's PUTs.  (the verification loop)
OperationsReturn == \A z \in Zone : Busy(z) ~> ~Busy(z)
=============================================================================

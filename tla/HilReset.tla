------------------------------- MODULE HilReset -------------------------------
(***************************************************************************)
(* terrifi-tests reset: bring the hardware test site back to its baseline. *)
(*                                                                         *)
(* A reset makes four Terraform plans (baseline, capture, delete, verify), *)
(* checks each and applies it.  Between the first two it lists what the    *)
(* controller has and the state does not, and writes import blocks for it  *)
(* to a file, which it removes before the third.  A run can be killed at   *)
(* any moment and any request can fail; the remote state then keeps what   *)
(* was done and a later run, perhaps of another commit with another        *)
(* baseline, starts from there.                                            *)
(*                                                                         *)
(* Tests leave objects behind only between resets.  The controller drops   *)
(* and makes records of clients whenever it likes.                         *)
(***************************************************************************)
EXTENDS Naturals, FiniteSets

CONSTANTS
    Object,     \* what the controller may have
    Baselines,  \* the sets of objects a commit may configure as the baseline
    Adopted,    \* those configured with an import block, by the id they had at first
    Device, BuiltIn, Clashing,  \* of GenerateImports
    Client,     \* user records: one per MAC, with an id that changes when it is made again
    Tagged,     \* clients whose name begins with tfacc-
    Lasting,    \* objects that stay listed after their deletion (unsupported ports, orders)
    Invalid,    \* objects whose generated block a validator refuses (CUSTOM schedules)
    Refs,       \* <<r, o>>: a deletion of o is refused while r refers to it
    MaxFaults,  \* bound: interruptions and failed requests
    MaxOutside  \* bound: what happens outside the resets

VARIABLES
    live,       \* objects the controller has
    id,         \* the id each object has, or had last
    refs,       \* references the controller counts, also those of dropped records
    drifted,    \* baseline objects that differ from their configuration
    state,      \* the remote state: entries [label, object, id]
    capture,    \* the entries hil-reset.generated.tf imports
    baseline,   \* the baseline of the checked-out commit
    pc, phase,
    todo,       \* changes of the running apply
    refused,    \* and those that failed
    \* History variables.
    appeared,   \* client records made since the reset listed the controller
    hidden,     \* clients it left out because the state has another id for their MAC
    faults, outside

controller == <<live, id, refs, drifted>>
seen == <<appeared, hidden>>
run == <<pc, phase, todo, refused, capture>>
vars == <<controller, state, baseline, run, seen, faults, outside>>

Id == Nat
Entry == [label : {"baseline", "hil_reset"}, object : Object, id : Id]
Change == [entry : Entry, action : {"no-op", "create", "update", "delete"}, importing : BOOLEAN]

ASSUME InputAssumption ==
    /\ Baselines \subseteq SUBSET Object /\ Baselines # {} /\ {} \notin Baselines
    /\ \A B \in Baselines : B \cap (BuiltIn \cup Lasting) = {}
    /\ Device \cup BuiltIn \cup Client \cup Lasting \cup Adopted \cup Invalid \subseteq Object
    /\ Device \cap Client = {} /\ {} \notin Clashing
    /\ Tagged \subseteq Client
    /\ Refs \subseteq Object \X Object
    /\ MaxFaults \in Nat /\ MaxOutside \in Nat

G == INSTANCE GenerateImports WITH ByMac <- Client \cup Device

Always == {o \in Object : \A B \in Baselines : o \in B}
Extra == Object \ (Always \cup Device \cup BuiltIn)
Resting == pc \in {"idle", "done", "failed"}

TypeOK ==
    /\ live \cup drifted \subseteq Object /\ appeared \cup hidden \subseteq Client
    /\ id \in [Object -> Id]
    /\ refs \subseteq Refs
    /\ state \cup capture \subseteq Entry /\ baseline \in Baselines
    /\ \A e, f \in state : e.label = "baseline" /\ f.label = "baseline" /\ e.object = f.object => e = f
    /\ pc \in {"idle", "plan", "apply", "list", "done", "failed"}
    /\ phase \in {"baseline", "capture", "delete", "verify"}
    /\ todo \cup refused \subseteq Change
    /\ capture # {} => phase = "capture" \/ pc = "failed"
    /\ faults \in 0..MaxFaults /\ outside \in 0..MaxOutside

\* The first reset may find some of the baseline in the state, or none of it.
Init ==
    /\ live = Always \cup Device \cup BuiltIn
    /\ id = [o \in Object |-> IF o \in live THEN 1 ELSE 0]
    /\ refs = {} /\ drifted = {} /\ capture = {}
    /\ \E T \in SUBSET Always : state = {[label |-> "baseline", object |-> o, id |-> 1] : o \in T}
    /\ baseline \in Baselines
    /\ pc = "idle" /\ phase = "baseline" /\ todo = {} /\ refused = {}
    /\ appeared = {} /\ hidden = {} /\ faults = 0 /\ outside = 0

(***************************************************************************)
(* The plan Terraform makes for the files in the directory.                *)
(***************************************************************************)

\* The refresh finds the object under the id of the entry.
Known(e) == e.object \in live /\ id[e.object] = e.id
Refreshed == {e \in state : Known(e)}

NoChange(e) == [entry |-> e, action |-> "no-op", importing |-> FALSE]
Restore(o) == IF o \in drifted THEN "update" ELSE "no-op"

\* A baseline object is looked up in the state, else imported by its first id.
BaselineChange(o) ==
    LET held == {e \in state : e.label = "baseline" /\ e.object = o}
        first == [label |-> "baseline", object |-> o, id |-> 1]
    IN  IF held \cap Refreshed # {}
        THEN [entry |-> CHOOSE e \in held : TRUE, action |-> Restore(o), importing |-> FALSE]
        ELSE IF held = {} /\ o \in Adopted
        THEN [entry |-> first, action |-> Restore(o), importing |-> TRUE]
        ELSE [entry |-> first, action |-> "create", importing |-> FALSE]

\* Captured objects have ignore_changes = all.
CaptureChange(e) ==
    [entry |-> e, action |-> "no-op", importing |-> e \notin Refreshed]

\* Entries without configuration are deleted.
Plan ==
    {BaselineChange(o) : o \in baseline} \cup {CaptureChange(e) : e \in capture}
    \cup {[entry |-> e, action |-> "delete", importing |-> FALSE] :
            e \in {f \in Refreshed \ capture : ~(f.label = "baseline" /\ f.object \in baseline)}}

\* A plan that imports an object that is not there is an error, and so is a captured
\* block that a validator refuses; ignore_changes does not skip validation.
PlanExists ==
    /\ \A c \in Plan : c.importing => Known(c.entry)
    /\ \A e \in capture : e.object \notin Invalid

(***************************************************************************)
(* What the reset makes of it.                                             *)
(***************************************************************************)

\* baselineAddresses refuses reserved addresses among the configured ones, and no baseline.
BaselineAccepted == phase = "baseline" => capture = {} /\ baseline # {}

Cleanup(c) == c.entry.label = "hil_reset"

\* Mutant: what an interrupted reset captured is not deleted in the baseline phase.
AllowedWithoutCleanup(c) ==
    /\ c.importing => phase \in {"baseline", "capture"}
    /\ \/ c.action = "no-op"
       \/ phase = "baseline" /\ ~Cleanup(c) /\ c.entry.object \in baseline
            /\ c.action \in {"update", "create"}
       \/ phase = "delete" /\ Cleanup(c) /\ c.action = "delete"

\* validateResetPlan
Allowed(c) ==
    /\ c.importing => phase \in {"baseline", "capture"}
    /\ \/ c.action = "no-op"
       \/ phase = "baseline" /\ ~Cleanup(c) /\ c.entry.object \in baseline
            /\ c.action \in {"update", "create"}
       \/ phase \in {"baseline", "delete"} /\ Cleanup(c) /\ c.action = "delete"

\* Mutant: a plan that only imports is taken for one without changes.
ChangesSomething(c) == c.action # "no-op"

\* What applyPlan counts; a plan without any is not applied.
Counts(c) == c.action # "no-op" \/ c.importing

\* runReset returns an error: the deferred removal takes the file away.
Fail ==
    /\ pc' = "failed" /\ todo' = {} /\ refused' = {} /\ capture' = {}
    /\ UNCHANGED phase

\* The next step of runReset.
Proceed ==
    /\ todo' = {} /\ refused' = {}
    /\ CASE phase = "baseline" -> pc' = "list" /\ UNCHANGED <<phase, capture>>
         [] phase = "capture" -> pc' = "plan" /\ phase' = "delete" /\ capture' = {}
         [] phase = "delete" -> pc' = "plan" /\ phase' = "verify" /\ UNCHANGED capture
         [] phase = "verify" -> pc' = "done" /\ UNCHANGED <<phase, capture>>

\* Mutant: the file of a killed reset is left in place.
LeaveFile == capture

\* "never reuse stale config"
RemoveStale == {}

Start ==
    /\ Resting
    /\ pc' = "plan" /\ phase' = "baseline" /\ capture' = RemoveStale
    /\ UNCHANGED <<controller, state, baseline, todo, refused, seen, faults, outside>>

\* applyPlan up to the apply, which begins by keeping the refreshed state.
MakePlan ==
    /\ pc = "plan"
    /\ IF ~PlanExists \/ ~BaselineAccepted \/ \E c \in Plan : ~Allowed(c)
       THEN Fail /\ UNCHANGED state
       ELSE IF \A c \in Plan : ~Counts(c) THEN Proceed /\ UNCHANGED state
       ELSE /\ pc' = "apply" /\ todo' = {c \in Plan : Counts(c)}
            /\ state' = Refreshed
            /\ UNCHANGED <<phase, capture, refused>>
    /\ UNCHANGED <<controller, baseline, seen, faults, outside>>

\* A captured object is imported after those it refers to, and deleted before them.
Waits(c) ==
    \E d \in (todo \cup refused) \ {c} :
        /\ (c.action = "delete") = (d.action = "delete")
        /\ IF c.action = "delete" THEN <<d.entry.object, c.entry.object>> \in Refs
           ELSE <<c.entry.object, d.entry.object>> \in Refs

Referred(o) == \E r \in refs : r[2] = o

\* Create and Update of the provider take over the record a MAC has, or make one.
Write(c) ==
    LET o == c.entry.object
        now == IF o \in live THEN id[o] ELSE id[o] + 1
    IN  /\ live' = live \cup {o} /\ id' = [id EXCEPT ![o] = now]
        /\ drifted' = drifted \ {o}
        /\ state' = {e \in state : e.label # "baseline" \/ e.object # o}
                      \cup {[c.entry EXCEPT !.id = now]}
        /\ UNCHANGED refs

\* Deleting a client clears its references, on the record its MAC has now.
Remove(c) ==
    LET o == c.entry.object IN
    /\ live' = IF o \in Lasting THEN live ELSE live \ {o}
    /\ refs' = IF o \in live THEN {r \in refs : r[1] # o} ELSE refs
    /\ state' = state \ {c.entry}
    /\ UNCHANGED <<id, drifted>>

\* One change of the plan is made, or refused by the controller.
Perform(c) ==
    /\ pc = "apply" /\ c \in todo /\ ~Waits(c)
    /\ todo' = todo \ {c}
    /\ IF \/ c.action = "delete" /\ Referred(c.entry.object)
          \/ c.importing /\ ~Known(c.entry)
       THEN refused' = refused \cup {c} /\ UNCHANGED <<controller, state>>
       ELSE /\ CASE c.action = "delete" -> Remove(c)
                 [] c.action \in {"create", "update"} -> Write(c)
                 [] c.action = "no-op" -> state' = state \cup {c.entry} /\ UNCHANGED controller
            /\ UNCHANGED refused
    /\ UNCHANGED <<baseline, pc, phase, capture, seen, faults, outside>>

EndApply ==
    /\ pc = "apply" /\ \A c \in todo : Waits(c)
    /\ IF todo \cup refused = {} THEN Proceed ELSE Fail
    /\ UNCHANGED <<controller, state, baseline, seen, faults, outside>>

\* What generate-imports describes.
Unmanaged == G!Generated(live, id, state)

\* show -json, the check for missing baseline resources, generate-imports, captureConfig.
List ==
    LET tracked == {e.object : e \in {f \in state : f.label = "baseline"}}
        found == G!CaptureConfig(Unmanaged)
    IN  /\ pc = "list"
        /\ IF baseline \subseteq tracked /\ ~G!CaptureRefused(Unmanaged)
           THEN /\ capture' = {[label |-> "hil_reset", object |-> o, id |-> id[o]] : o \in found}
                /\ pc' = "plan" /\ phase' = IF found = {} THEN "verify" ELSE "capture"
                /\ UNCHANGED <<todo, refused>>
           ELSE Fail
        /\ appeared' = {} /\ hidden' = {e.object : e \in state \ Refreshed} \cap live \cap Client
        /\ UNCHANGED <<controller, state, baseline, faults, outside>>

ResetStep == MakePlan \/ (\E c \in todo : Perform(c)) \/ EndApply \/ List

(***************************************************************************)
(* Faults, and what happens outside.                                       *)
(***************************************************************************)

\* The process is killed; Terraform keeps what it has done, the file stays.
Interrupt ==
    /\ ~Resting /\ faults < MaxFaults
    /\ faults' = faults + 1
    /\ pc' = "failed" /\ todo' = {} /\ refused' = {}
    /\ UNCHANGED <<controller, state, baseline, phase, capture, seen, outside>>

RequestFails(c) ==
    /\ pc = "apply" /\ c \in todo /\ ~Waits(c) /\ faults < MaxFaults
    /\ faults' = faults + 1
    /\ todo' = todo \ {c} /\ refused' = refused \cup {c}
    /\ UNCHANGED <<controller, state, baseline, pc, phase, capture, seen, outside>>

Outside == outside < MaxOutside /\ outside' = outside + 1

\* A test, or somebody, leaves an object that refers to others.
Leftover(o) ==
    /\ Resting /\ Outside /\ o \in Extra \ live
    /\ live' = live \cup {o} /\ id' = [id EXCEPT ![o] = @ + 1]
    /\ refs' = refs \cup {r \in Refs : r[1] = o /\ r[2] \in live}
    /\ UNCHANGED <<drifted, state, baseline, run, seen, faults>>

\* A test changes a baseline object.
Drift(o) ==
    /\ Resting /\ Outside /\ o \in (Always \cap live) \ drifted
    /\ drifted' = drifted \cup {o}
    /\ UNCHANGED <<live, id, refs, state, baseline, run, seen, faults>>

\* The next reset is of another commit.
Checkout(B) ==
    /\ Resting /\ Outside /\ B # baseline
    /\ baseline' = B
    /\ UNCHANGED <<controller, state, run, seen, faults>>

\* terrifi-tests cleanup forgets the test clients, in batches that may fail; it does
\* not clear their references.
CleanupClients ==
    /\ Resting /\ Outside /\ Tagged \cap live # {}
    /\ \E kept \in SUBSET (Tagged \cap live) : live' = live \ (Tagged \ kept)
    /\ UNCHANGED <<id, refs, drifted, state, baseline, run, seen, faults>>

\* The controller drops the record of a client, but not its references.
DropRecord(o) ==
    /\ Outside /\ o \in Client \cap live
    /\ live' = live \ {o}
    /\ UNCHANGED <<id, refs, drifted, state, baseline, run, seen, faults>>

\* A client connects and gets a record of its own.
Connect(o) ==
    /\ Outside /\ o \in Client \ live
    /\ live' = live \cup {o} /\ id' = [id EXCEPT ![o] = @ + 1]
    /\ appeared' = appeared \cup {o}
    /\ UNCHANGED <<refs, drifted, state, baseline, run, hidden, faults>>

Next ==
    \/ Start \/ MakePlan \/ EndApply \/ List \/ Interrupt \/ CleanupClients
    \/ \E c \in todo : Perform(c) \/ RequestFails(c)
    \/ \E o \in Object : Leftover(o) \/ Drift(o) \/ DropRecord(o) \/ Connect(o)
    \/ \E B \in Baselines : Checkout(B)

Spec == Init /\ [][Next]_vars

\* A reset that runs goes on, and one that failed is tried again.
FairSpec == Spec /\ WF_vars(ResetStep) /\ WF_vars(Start)

(***************************************************************************)
(* Properties.                                                             *)
(***************************************************************************)

\* No apply deletes an object of the baseline it restores.  The one exception: a reset
\* of another commit, whose baseline did not have the object, captured it and was cut
\* short.  (validateResetPlan, ExcludeManaged)
DeletesOnlyExtras ==
    \A c \in todo : c.action = "delete" /\ c.entry.object \in baseline =>
        phase = "baseline" /\ c.entry.object \notin Always

\* A reset that reports success has restored the baseline and removed every extra
\* object there was when it listed them, whatever earlier resets left half done.
\* Excepted are clients made again under another id than an entry of the state has.
\* (runReset, applyPlan, captureConfig)
SuccessMeansReset ==
    [][pc # "done" /\ pc' = "done" =>
          /\ \A o \in baseline : o \notin drifted
                /\ \E e \in Refreshed : e.label = "baseline" /\ e.object = o
          /\ (live \cap Extra) \ (baseline \cup Lasting) \subseteq appeared \cup hidden]_vars

\* What no retry gets over: a reference of something the state does not delete first, an
\* entry of another commit's baseline, a client of the baseline that is gone from the
\* state and has another id than its import block; objects that captureConfig refuses, and
\* one whose block the provider refuses, a policy with a schedule of mode CUSTOM.
Stuck ==
    \/ \E r \in refs : r[1] \notin live \/
          \E e \in state : e.object = r[2] /\ \A f \in Refreshed : f.object # r[1]
    \/ \E e \in state : e.label = "baseline" /\ e.object \notin baseline
    \/ \E o \in baseline \cap Adopted :
          /\ \A e \in state : e.label = "baseline" => e.object # o
          /\ o \notin live \/ id[o] # 1
    \/ G!CaptureRefused(Unmanaged)
    \/ G!CaptureConfig(Unmanaged) \cap Invalid # {}

\* "Failed resets can be retried using the R2 state": wherever a reset was cut short,
\* the next ones complete, unless it is stuck in one of these ways.  (runReset)
RetriesSucceed == pc = "failed" ~> pc = "done" \/ Stuck

\* "This deletes extra supported user-managed resources on the HIL controller", also
\* a client that was made again.  (ExcludeManaged, applyPlan)
SuccessLeavesNoExtras ==
    [][pc # "done" /\ pc' = "done" =>
          (live \cap Extra) \ (baseline \cup Lasting) \subseteq appeared]_vars
=============================================================================

# Verification of terraform-provider-terrifi

TLA+ models of the Terraform provider for UniFi controllers, checked with TLC
and, in part, proved with TLAPS. Every module says which part of the source it
stands for; `PROJECT.json` maps each definition to its lines.

Run `tlc -config X.cfg MCmodule` for a model and `tlapm XProofs.tla` for a proof.

## 1. The system

The provider translates Terraform's CRUD calls into HTTP requests to a UniFi
controller. It keeps no data of its own apart from an optional response cache.
Three copies of every object matter: the **configuration** (after schema
defaults and plan modifiers: the plan), the **Terraform state**, and the
**controller's object**. Terraform calls the operations of different resources
concurrently in one process, one operation per resource and walk; the UI and
other administrators change the controller meanwhile.

| Component (source under `src/internal/provider` unless stated) | State | Operations | What makes it correct |
|---|---|---|---|
| HTTP helper, response cache (`firewall_zone_api.go`, `response_cache.go`, `client.go`) | URL → bytes, shared by all goroutines | `doRequest`, `get`, `set`, `invalidateAll`; re-sends of `retryablehttp` | an answer is never older than a write that finished before the read began |
| `terrifi_firewall_zone` | zone → networks | CRUD, read-back loop after an update | a verified update took effect; an apply converges; it ends |
| `terrifi_device_ports` (also `internal/unifi/device_ports.go`) | one `port_overrides` array per device, shared by all | import, read, write = GET, merge, PUT; release | only its own ports change; what is written reads back |
| `terrifi_device` | settings of an adopted device | lookup, radio merge, partial PUT, read-back; delete is a no-op | unmanaged settings survive; nulls stay null |
| `terrifi_client_device`, `terrifi_client_group` | user record of a MAC, its group references, its icon | CRUD with fall-backs when the record is gone; group deletion with retries | the state names the right record; a destroy blocks nothing |
| `terrifi_port_profile`, `terrifi_network` | the networks a profile excludes | CRUD; waiting for the controller's job and a repair write | a tagged network stays tagged; a created profile is tracked |
| `terrifi_firewall_policy` | the policy and its index | CRUD, `ModifyPlan` | the answer equals the plan; no difference means in force |
| `terrifi_firewall_policy_order` | indices of a pair's policies | reorder, read-back, import | the order holds after the run and is read back as written |
| `terrifi_wlan`, `terrifi_dns_record`, `terrifi_firewall_group` | one object each | one SDK request per operation | the answer equals the plan; no difference means in force |
| provider configuration, login | client, token | once, before everything | – |
| import generation and CLI (`cmd/terrifi`, `internal/generate`) | none | objects → HCL, without those a state manages | importing a generated block plans no change |
| test-site reset and cleanup (`cmd/terrifi-tests`) | remote state, captured configuration, the test site | four plan-and-apply phases; forgetting test clients | success means reset; nothing of the baseline is deleted; a reset cut short can be repeated |

How they interact: every custom API call goes through `doRequest` and its cache,
while SDK methods (network deletion, DNS, WLAN, groups) pass it by. Device,
zone, policy and order resources read whole lists and so share cache entries. A
policy's update sends the index the order resource is about to change. A port
profile must name networks the same apply creates. A client device holds the
references that block the deletion of a group.

What is hard: overlapping requests and late cache fills; read-modify-write of
objects others edit; runs that are killed half way; controller jobs and records that change behind an
operation's back; lost answers and re-sent writes; loops that must end; and
conversions between plan, request, answer and state that are not each other's
inverse. `PROJECT.json` lists these hazards line by line.

## 2. Modules and how they correspond to the code

`X.tla` is a component, `MCX.tla` and `X.cfg` its instance for TLC, `XProofs.tla`
its theorems. Operators named after a Go function model that function. Variables
under "History variables" only remember what a property needs.

**ResponseCache**. One goroutine per worker calls `doRequest`; sending, serving
and storing are separate steps because the mutex covers one cache operation
only. Object data is a version number per list. Failed requests and re-sends are
actions; `OtherWrite` is a write that never passes the helper, by an SDK method
or by somebody else.

**ListReads**, **CachedReads**. ListReads is what readers of lists are promised,
without a cache: a read returns a version the list had since it began or one at
least as new as the last vouched update, or else a *late* answer, and late
answers end with the next update. CachedReads is ResponseCache with the
refinement mapping: an entry older than a finished update is a late answer.

**FirewallZone**. Create, Update, Delete and Read of all zones of a
configuration. The controller's handling of overlapping zone writes (each starts
from the list it saw and a network sits in one zone) is external: it is the
reason for the read-back loop in the source. `AnotherRound` is that loop's
condition.

**DevicePorts**. `MergeEntry`, `ClearVLAN`, `TaggedKey`, `FromEntry`,
`Importable` are the functions of `device_ports.go`; an operation is a GET and,
one step later, a PUT, with edits by others between the two. The checks that
follow the GET are part of its action.

**Device**. The provider process of one walk: cache empty at the start, one
operation, other goroutines that list devices. `Sent` is `omitempty`,
`MergeRadio` the radio table, `Read` is `apiToModel` with
`preserveNullOptionals`. Scalars share one representation: `Empty` is an empty
string, an absent number and `led_override = default` alike; `Led` are the
switches among them, which a configuration sets or leaves out.

**ClientDevice**. One MAC. `Lookup`, PUT, the GET after a PUT that was answered
without data, POST, icon, clearing and forget requests are steps; the controller
drops a record, or makes another, between any two. A request fails before it takes
effect (`RequestFails`) or its answer is lost (`AnswerLost`); `AfterError` says what
the operation does then. Group deletions run beside it.

**PortProfile**. `tagged_vlan_mode = custom`. The job that excludes a new
network from every profile is an action of the controller; `Age` lets a network
become old. `settleFreshTaggedNetworks` is the wait, the check and the second
write. The lists of networks (`cached`) and of profiles (`seen`) come from the
cache or the controller; other goroutines fill it, a write clears it, the SDK's
network deletion leaves it.

**PlanRoundTrip** and the modules of pure conversions it instantiates.
PlanRoundTrip has the operations all resources share: a configuration is
changed, planned, refused or applied, refreshed, imported (with the configuration
there is or the one `generate-imports` writes), deleted, and somebody edits the
object. `kind` chooses the resource; each kind is one module with the same
operators, named after the Go functions: `Planned` (schema defaults and
`ModifyPlan`), `Accepted` (validators, and the check Terraform makes of a plan),
`ApplyPlanToState`, `Request` (`modelToAPI`), `Stored` (what the controller makes
of it, external), `ApiToModel`, and `Generate` (`*Blocks` of `internal/generate`).

* `FirewallPolicy`: one endpoint stands for source and destination, one
  attribute for those converted alike (`when` for the date and the times of a day,
  `dates` for the date range). A list in an answer is absent, empty or filled; a
  port is one number, none, or what `parsePort` drops (a range or a list).
  `ValidSchedule` is the validator that asks for the dates of a CUSTOM schedule.
* `DNSRecord`: every option has a zero value an answer cannot tell from absence.
* `FirewallGroup`: the identity, and the check that nothing else is claimed.
* `Network`: vlan-only networks lose their IP settings in the plan, the request
  and the answer; range and servers are unknown in a plan that changes anything.
* `WLAN`: `application` is two flags; the passphrase is never read.
* `PortProfileSettings`: `Request` is laid over the profile there is
  (`mergePortProfile`), so that values the controller keeps and ignores stay. The
  UI fills in the threshold of a traffic class that is on when the unit changes
  (`LevelSet`, `RateSet`), as the rates of the sample profile in
  `port_profile_resource_test.go:76-80` are; otherwise a class that is on without
  one would read as off (`stormControlClassToModel`) and `NoDiffMeansInForce`
  would fail for two classes, which is how the proof found that this was assumed.

**HilReset**, **GenerateImports**. `pc` is a line of `runReset`, `phase` the plan
it makes. Terraform's plan (`Plan`), apply (`Perform`, one change at a time in the
order of the references) and the provider's writes are external and as the reset
uses them. `Interrupt` kills the process anywhere, `RequestFails` fails one
change; the remote state keeps what was done and a killed run also leaves its
file. `Checkout` is the next commit with another baseline. GenerateImports says
which objects get a block, which of them the reset captures and which sets of
objects `captureConfig` refuses (`Clashing`); objects whose block the provider's
validators refuse (`Invalid`) make the capture plan an error. Adopted devices
(`Device`) may be in a baseline and are never captured.

**FirewallPolicyOrder**. Phases of a run: refresh, create and update policies,
reorder and read back, delete. Composes the index of FirewallPolicy's
operations with the order resource and with a goroutine that fills the cache.
`Ordering` is `readOrdering`: the sort of `GetFirewallPolicyOrdering`, which is not
stable, of the policies it keeps. What a reorder sends is `policy_ids` as
configured, also when it names a predefined policy; what is read back is not.

The models of *external* behaviour (what the controller or Terraform does) are
marked as such in the map. They rest on what the source says of it: which calls
answer with what, which fields it fills in, that a batch reorder puts the listed
ids first, that records disappear. ListReads is a specification and maps to no
line.

## 3. What the runs check

| Run | Shows | Bounds, and why they are enough |
|---|---|---|
| `response_cache` | a cached read is not older than a finished write (`ReadsNotOlderThanAcked`), an old entry can only come from a GET that a write overtook (`StaleEntryWasOvertaken`), and the helper implements ListReads (`ImplementsListReads`) | 2 workers, 2 lists, 2 and 1 writes, 1 re-send: an overlap needs two workers and two versions, a leak across URLs two lists |
| `fresh_after_write` *(violated)* | such an overtaken GET puts its old answer back into the cache | same |
| `firewall_zone` | a match in the read-back is real (`VerifiedUpdateTookEffect`, caching off), a quiet apply converges, every operation returns | 2 zones, 2 networks, all plans; the loop has 2 rounds instead of 5: first round, last round |
| `device_ports` | writes keep to their ports, read back, are idempotent, never reset what cannot be expressed | 2 ports, every configuration of one on every kind of entry, 1 edit by others |
| `device` | no perpetual difference after a quiet apply, and no setting changes unless somebody asked | 3 scalars (one always sent, one a switch), 2 radios of which the device has one, 2 fields, 2 values; 2 configuration changes (set, then remove), 1 outside change |
| `client_device` | the state names the record, icons are synced, destroys free groups, everything returns | 3 record ids, 1 group, 1 icon; group deletion 3 tries instead of 5; 3 upsets (records dropped or made, requests failed or answers lost) |
| `port_profile` | tags survive the job, created profiles are tracked, with cached lists too | 4 networks, symmetric |
| `plan_round_trip` | for six kinds of resource: an apply comes back as planned and the next plan is empty (`ApplyIsConsistent`), an empty plan means the configuration is in force (`NoDiffMeansInForce`), a generated block is valid and plans nothing (`GeneratedBlockPlansNothing`) | one value per kind of data, two where a change of value matters (passphrases, amounts, networks, traffic classes of one block), one or two of each group of like attributes, at most 2 target sets, the kinds of schedule listed in `MCSchedule`; 2 configuration changes (set, then remove), 1 change by others |
| `policy_port_type` *(violated)* | a port without `port_matching_type` is an inconsistent result | same |
| `policy_order` | the order holds, inconsistent results have only the named causes, and an order that was written and read back as planned cannot be read in any other way by the next refresh, though the sort is not stable (`WrittenOrderPlansNothing`) | 5 policies (own, predefined, other pair), index up to 5, 1 outside change |
| `hil_reset` | an apply deletes nothing of the baseline it restores (`DeletesOnlyExtras`), success means baseline restored and extras gone (`SuccessMeansReset`), resets cut short are completed by later ones (`RetriesSucceed`) | a client, a device and, for one of two commits, a network as baseline; a group, a client of it and a policy with a CUSTOM schedule as extras, a default zone, a ports resource that stays listed and whose capture clashes with the group's; 2 interruptions or failures (a second one in the retry), 4 outside changes (leave two objects, drop and make again a record) |
| `extras_removed` *(violated)* | a captured client that was made again survives a successful reset | the same with 1 fault and 3 outside changes |

The three violated runs are the findings of `PROJECT.json`: each checks a
sentence of a comment or doc against what the code does. Every property of
a passing run has a mutant (a plausible bug in a mapped definition, kept in the
module next to the original) that violates it.

Sentences of the repository the code does not keep, found by reading and without
a run, because one line against another shows them:

* `docs/index.md:65` says any write operation invalidates the cache; writes by
  SDK methods (`network_resource.go:297` and others) never reach it.
* `firewall_policy_order_resource_test.go:189-190` says import discovers all
  policies of the pair; `readOrdering` (`firewall_policy_order_resource.go:361`)
  keeps only those already in `policy_ids`, which import leaves null.
* `docs/resources/device.md:135` and `device_resource.go:187` say of `led_enabled`
  "Omit to follow (the) site default", and a test step (`device_resource_test.go:375`)
  is called "Reset to site default (omit attribute)". A null attribute is not sent
  (`device_api.go:48,104`): an override that was applied stays in force, and
  `preserveNullOptionals` keeps the state null, so no plan shows it.
* `docs/resources/device.md:205` says radio fields that are omitted are left
  unchanged; the update sends whole radio entries of a list that may be cached or
  overtaken (`device_api.go:171`) and so sets back what somebody changed since.
* `hardware-testing/terraform/README.md:33` says failed resets can be retried. A
  policy with a CUSTOM schedule that was left on the site gets a block without
  dates (`generate/firewall_policy.go:118-139`), which the provider's validator
  refuses (`firewall_policy_resource.go:951-967`; `ignore_changes` does not skip
  it), in every retry; and so do the errors of `captureConfig`
  (`reset_config.go:56-70`).
* `port_profile_resource.go:213-214` says a voice network must be tagged on the
  port; the native network beside `excluded_network_ids` is accepted.

Exceptions stated inside properties are results too.

* `Expressible` of each kind lists what the provider accepts and cannot read
  back: empty strings, sets and zeros, explicit `false` of a policy's flags, more
  than one target set, a schedule that spells out the default, internet access
  of a vlan-only network, a profile that excludes every network. `Kept`: removing an
  attribute of a DNS record, or the VLAN or subnet of a network, sends the old
  value again. `Representable` of Device: a radio the device lacks.
* `Shown` lists what an answer does not show: a policy's unknown target (the next
  update makes it ANY), a known target without a list, a port that is a range or a
  list (`parsePort` reads it as none, and the next update removes it), a network that is switched off or has its tagging off, a
  guest WLAN that is also optimised for IoT, a profile under "Advanced: Auto".
  A WLAN's passphrase is in force only after an answered apply (`unsure`).
* `Restorable` lists generated blocks that do not fit: connection states beside
  ALL, an always-on schedule with other settings, a date range, every CUSTOM schedule
  (the block has no dates and the provider refuses it), empty lists, an allowed response towards an
  external zone, an empty record type, a lease that is 0, absent or not served,
  the group of a vlan-only network, a voice network that is not tagged.
* `SettingsSurvive` names the two settings a device update changes unasked: a
  name that is not configured is emptied, and a radio field changed after the list
  was fetched is set back. It does not speak of a led switch
  that is not configured: the documentation says it goes back to the site's default,
  the code sends nothing.
* `DestroyFreesGroups` exempts a destroy that met no record or whose clearing
  failed; `UnlistedPortsUntouched` a port that was edited between GET and PUT, whose
  edit is lost; `QuietApplyIsConsistent` and `VerifiedUpdateTookEffect` are about
  caching off. The models contain all of these.
* `Stuck` of HilReset lists what no retry gets over: a reference whose record was
  dropped or is not deleted first, an entry of another commit's baseline, an
  adopted client of the baseline that lost its entry and its id, objects that
  `captureConfig` refuses, and an object whose block a validator refuses. `hidden` names the clients
  `SuccessMeansReset` cannot cover; `extras_removed` is about them.

**Fairness.** Three runs check liveness. `FairSpec` of FirewallZone has weak
fairness of `Progress(z)`: a request is answered or times out (the HTTP client
has a timeout and bounded retries) and a runnable goroutine runs. `FairSpec` of
ClientDevice has it for the operation's and for the group deletion's next step,
for the same reason. `FairSpec` of HilReset has it for the next step of a reset
(each is a process that ends) and for `Start`: somebody tries again after a
failure, which is what the promise is about. Nothing obliges Terraform to start anything, the controller
to act, or others to edit. `CHECK_DEADLOCK` is off
only for FirewallZone: there every zone runs its operations once and the apply is
over; the other models can always begin another walk.

## 4. What is proved

Assumptions are the named `ASSUME`s of the modules (bounds are naturals, inputs
have their types, the set of policies is finite, sentinels are not data); TLC
evaluates them in every run. Each theorem holds for every value of the constants:
any number of workers, zones, ports, records and policies, and any bound. Every
`IInv` below was checked by TLC on the component's run before it was proved; each
module proves that it holds initially, one step per action, and reads its theorems
off `THEOREM Invariance` (device ports and port profiles have one such invariant per
theorem).

* `ResponseCacheProofs`. `IInv` adds to type correctness that no copy is ahead
  of the controller (`NotAhead`) and that each call in flight carries a version
  no older than its floor unless it was overtaken (`CallOK`). The two properties
  are not inductive by themselves: a late fill is harmless only because the call
  knows whether it was overtaken. Theorems `TypeCorrect`,
  `StaleOnlyWhenOvertaken`, `ReadsFresh`.
  The second half proves `Refinement`, that CachedReads implements ListReads:
  sending a GET begins a read, answering it returns one, a hit recalls one, a
  finished write vouches for its version and ends the late answers, and a re-send,
  a failure or an answer still on its way is a stutter or abandons a read. What
  the mapping needs of `IInv` is that an entry lies between what was vouched for
  and what the controller has, or else is late.
  The third part is about PortProfile, whose networks are listed through the cache;
  its specification is `ProfileSpec`, so that the module can extend both.
  `StickInv`: a tag that the job may still exclude is one the operation is waiting
  for. `TrackInv`: whatever step comes after the POST, the state is set, and no
  cached list lacks a profile that exists. Theorems `ProfileTypeCorrect`, `TagsStick`, `ProfileTracked`.
* `FirewallZoneProofs`. For one zone, `ReadBackOK` says that whoever sees the zone
  as wanted while it reads back sees what was there after the PUT: with the cache
  off a match is real (`VerifiedMeansHeld`). For all zones, `Alone` says that a
  write which meets no other starts from the list as it is, and `SettledOK` that
  what is written, or planned to stay, is in force, because the plan gives no
  network to two zones: `QuietApplyHolds`. `TypeCorrect`.
* `DevicePortsProofs`. `MergeEntryFields` gives the merged entry in closed form;
  type preservation, idempotence (`RetriesHarmless`) and the frame lemma
  `MergeKeepsOthers` follow from it. `OthersUntouched` needs that the snapshot
  equals the array except where others edited (`SnapIsCurrent`),
  `UnsupportedStays` that a port left alone is in neither state, plan nor
  snapshot in another form (`LeftAlone`). `NoDiffAfterWrite` rests on two lemmas
  without a bound: reading twice is reading once (`ReadIdempotent`) and what was
  merged for a valid model reads back as that model (`MergeReadsBack`).
  `TypeCorrect`.
* `ClientDeviceProofs`. `OperationOK` ties each step to the configuration and the
  id it works with, `RecordOK` says what a write that was answered leaves until
  the operation ends (also when its answer had no data or a later one was lost),
  `ClearedOK` that a delete clears before it forgets. Theorems `TypeCorrect`, `StateIsTrue`, `IconIsSynced`, `GroupsAreFree`.
* `DeviceProofs`. `MergeOK`: the list a merge may start from shows every radio
  field as somebody last gave it, unless it was raced; so a PUT loses nothing
  (`SettingsKept`, from which `NothingIsLost`). `SettledOK`: between the PUT and the re-read nothing but the
  device as it was left is cached, so the state is the configuration and reads back
  as itself (`NoDiffAfterApply`). `TypeCorrect`.
* `HilResetProofs`. `AlwaysOK`: what every commit has in its baseline is never
  captured. `ChangeOK`: what `validateResetPlan` lets through stays so while the
  apply goes on, one change at a time. Hence `OnlyExtrasDeleted`. For success,
  each phase hands on what it established: `BaselineOK` (all of the baseline and
  nothing else is tracked), `CaptureOK` (each object that remains has an entry in
  the file or the state), `DeleteOK` (a change will remove it), `VerifyOK`
  (nothing remains). `SuccessIsReset` is the action property. `TypeCorrect`.
* `FirewallPolicyOrderProofs`. `WantedOK`: once the order is under way no step of
  the run touches a policy it lists. `SeenOK`: until then the index an update sends
  again is the one the controller has. `OrderOK`: so the order read back stays in
  force to the end of the run (`OrderHolds`), with the cache on too.
  `AnswerIsThePlan` needs that one list only is sorted by the indices of a reorder
  (`OneSortedList`, by counting: as many policies lie before a place as there are
  places before it). `WrittenOK`: an order that was read back as planned
  repeats no policy and names no predefined one, so its policies have distinct indices
  and one reading (`OneReading`), and no later step of the run writes one of them
  (`WrittenOrderStays`). `TypeCorrect`.
* `PlanRoundTripProofs`. First each kind by itself, for any values, targets,
  schedules, settings, traffic classes and networks: the conversions stay in their
  types, a read shows the one written form (`NetRead`, `PolicyRead`,
  `ProfileRead`), what is stored for an expressible plan is read back as the plan
  (`...RoundTrip`), what is shown would be sent as it is (`...InForce`), and what is
  generated plans what is read (`...Generated`). `WriteFits`, `ReadFits`,
  `RoundTrip`, `ReadInForce` and `GeneratedPlans` join the kinds. `IInv` says what
  the steps hand on: a configuration asks for nothing unknown (`Known`); what an
  object enables has a value and its port type is the derived one
  (`SettledObject`), without which an answer would show less than there is; the
  state's passphrase is absent or the object's (`RememberedPassphrase`); an answer
  is what the next read would store. Theorems `TypeCorrect`,
  `AppliesAreConsistent`, `NoDiffIsInForce`, `GeneratedPlansNothing`. They rest on
  `SentinelAssumption`: what is absent, unknown or foreign is no value.

Every property of a passing run but the liveness properties is stated by a theorem.
Only model-checked:

* `OperationsReturn` (zones, client devices) and `RetriesSucceed` (HilReset): the
  prover does neither fairness nor ENABLED.
* Induction over data is out of its reach. Where a proof would need it the model
  says the same without: a sorted list is one of the arrangements of its set in
  order, counted with the library's facts about finite sets.
* What the violated runs show.

## 5. Plan

Order of work: first what all resources share (ResponseCache, ListReads), then
the resources with read-modify-write or controller races (zones, ports, client
devices, profiles, order), then the conversions (Device, PlanRoundTrip), then the
tools (HilReset). All of these exist, and every safety property that a run checks
is a theorem. Left for later: the blocks `generate-imports` writes for devices, ports,
clients, client groups and zones, in the form of `Generate`; and a create of the
six kinds of PlanRoundTrip whose answer is lost.

## 6. Not modelled

* Provider configuration, login, CSRF and API discovery: they run once before any
  operation, and nothing in the source states how long a token lives.
* `list-device-types`, `check-connection` and the fingerprint database: each
  prints what one request answered. Logging and text formatting.
* Names in generated HCL and their deduplication (names a, a and a_2 become a,
  a_2 and a_2): text only; the reset renames what it captures.
* The generated blocks of devices, ports, clients, client groups and zones.
* A WLAN's group ids: WLAN, user and AP groups are set on create, an update copies
  the first two from the WLAN and sends no AP group; a policy's ICMP types,
  which the request never carries; a device's read-only attributes; the spelling
  of MAC addresses; the fixed IP, DNS name, network override and blocked flag of a
  client device. Ranges of numbers: validators refuse what is out of range.
* The lock around network deletions, which only keeps them apart.

Details the models abstract: `PortProfile` assumes that the controller's job takes
less than the age at which the provider calls a network old, and that the wait
outlasts jobs due when it starts, as the source does; `PortProfileSettings` keeps
the networks as they are. A create whose answer is lost may leave an object that
Terraform does not know, which is modelled where a later operation meets it
(client devices, profiles) and not elsewhere. The remote state's lock excludes two
resets at a time.

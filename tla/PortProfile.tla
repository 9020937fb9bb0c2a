------------------------------ MODULE PortProfile ------------------------------
(***************************************************************************)
(* terrifi_port_profile with tagged_vlan_mode "custom" and                 *)
(* tagged_network_ids: a list of the networks a port carries, which the    *)
(* controller stores as the list of those it does not.                     *)
(*                                                                         *)
(* About a second after a network is created, a job of the controller adds *)
(* it to that list of every custom profile there is.  A profile written    *)
(* before the job runs would lose a new network that it tags; the resource *)
(* waits, looks, and writes the profile once more.                         *)
(*                                                                         *)
(* Networks are created and deleted meanwhile by the same apply or by      *)
(* others.  Attributes other than the networks are left out.               *)
(***************************************************************************)
EXTENDS Naturals

CONSTANTS
    Net,       \* ids of corporate networks
    Native,    \* the network the profile carries untagged
    NoProfile, \* the profile does not exist
    Untracked, \* it is not in the Terraform state
    NoList     \* the list is not cached

ASSUME NativeAssumption == Native \in Net
ASSUME SentinelAssumption ==
    /\ \A N \in SUBSET Net : N \notin {NoProfile, Untracked, NoList}
    /\ NoProfile # NoList

VARIABLES
    caching,   \* the provider's response_caching setting
    nets,      \* controller: the networks
    born,      \* ids that were ever given out
    pending,   \* new networks the job has not handled yet
    fresh,     \* networks created less than a minute ago
    profile,   \* controller: excluded_networkconf_ids, or NoProfile
    cached,    \* response cache: the network list, or NoList
    seen,      \* response cache: the profile as the list of profiles has it, or NoList
    state,     \* Terraform state: tagged_network_ids, or Untracked
    config,    \* the planned tagged_network_ids
    pc,        \* where the operation on the profile stands
    kind,      \* the operation
    got,       \* the profile a Read was answered with
    lan,       \* the networks a write listed
    waiting,   \* networks whose job its wait outlasts
    \* History variables.
    applied,   \* the last operation wrote config and succeeded
    lost       \* the answer to a POST was lost

network == <<nets, born, pending, fresh>>
lists == <<cached, seen>>
profileVars ==
    <<caching, network, profile, lists, state, config, pc, kind, got, lan, waiting, applied, lost>>

ProfileTypeOK ==
    /\ caching \in BOOLEAN
    /\ nets \subseteq born /\ born \subseteq Net
    /\ pending \subseteq fresh /\ fresh \subseteq nets
    /\ profile \in (SUBSET Net) \cup {NoProfile}
    /\ cached \in (SUBSET Net) \cup {NoList}
    /\ seen \in (SUBSET Net) \cup {NoProfile, NoList}
    /\ state \in (SUBSET Net) \cup {Untracked}
    /\ config \in SUBSET Net
    /\ pc \in {"idle", "list", "write", "wait", "check", "rewrite", "read", "listForRead"}
    /\ kind \in {"create", "update"}
    /\ got \subseteq Net /\ lan \subseteq Net /\ waiting \subseteq Net
    /\ pc \in {"write", "wait", "check", "rewrite"} => config \subseteq lan
    /\ applied \in BOOLEAN /\ lost \in BOOLEAN

ProfileInit ==
    /\ caching \in BOOLEAN
    /\ nets = {Native} /\ born = nets /\ pending = {} /\ fresh = {}
    /\ profile = NoProfile /\ cached = NoList /\ seen = NoList
    /\ state = Untracked /\ config = {}
    /\ pc = "idle" /\ kind = "create" /\ got = {} /\ lan = {} /\ waiting = {}
    /\ applied = FALSE /\ lost = FALSE

(***************************************************************************)
(* internal/unifi/port_profile.go, for one profile and its native network. *)
(***************************************************************************)

ExcludedFromTagged(all, tagged) == all \ (tagged \cup {Native})

TaggedFromExcluded(all, excluded) == all \ (excluded \cup {Native})

(***************************************************************************)
(* The response cache, with the two lists that matter here.                *)
(***************************************************************************)

\* invalidateAll, on a write that was answered.
Forget == cached' = NoList /\ seen' = NoList

\* Other goroutines list networks or profiles, and those of device_ports and of
\* profiles that settle replace what is cached.
OthersList ==
    /\ caching
    /\ \/ cached' = nets /\ UNCHANGED seen
       \/ seen' = profile /\ UNCHANGED cached
    /\ UNCHANGED <<caching, network, profile, state, config, pc, kind, got, lan, waiting,
                   applied, lost>>

(***************************************************************************)
(* The controller and its networks (external).                             *)
(***************************************************************************)

\* Created by Terraform, which forgets the cached lists, or by somebody else.
CreateNetwork(n) ==
    /\ n \notin born
    /\ nets' = nets \cup {n} /\ born' = born \cup {n}
    /\ pending' = pending \cup {n} /\ fresh' = fresh \cup {n}
    /\ UNCHANGED lists \/ Forget
    /\ UNCHANGED <<caching, profile, state, config, pc, kind, got, lan, waiting, applied, lost>>

\* The background job excludes the network from the profile, if there is one.
Job(n) ==
    /\ n \in pending
    /\ pending' = pending \ {n}
    /\ profile' = IF profile = NoProfile THEN NoProfile ELSE profile \cup {n}
    /\ UNCHANGED <<caching, nets, born, fresh, lists, state, config, pc, kind, got, lan,
                   waiting, applied, lost>>

\* A minute passes: longer than any job takes.
Age(n) ==
    /\ n \in fresh \ pending
    /\ fresh' = fresh \ {n}
    /\ UNCHANGED <<caching, nets, born, pending, profile, lists, state, config, pc, kind,
                   got, lan, waiting, applied, lost>>

\* Only a network that no profile tags is deleted; exclusions of it go with it.  The
\* SDK, which Terraform deletes networks with, does not know of the cached lists.
DeleteNetwork(n) ==
    /\ n \in nets \ ({Native} \cup config)
    /\ state # Untracked => n \notin state
    /\ nets' = nets \ {n} /\ pending' = pending \ {n} /\ fresh' = fresh \ {n}
    /\ profile' = IF profile = NoProfile THEN NoProfile ELSE profile \ {n}
    /\ UNCHANGED <<caching, born, lists, state, config, pc, kind, got, lan, waiting, applied, lost>>

(***************************************************************************)
(* Terraform.                                                              *)
(***************************************************************************)

\* validatePortProfileModel: some network is tagged, and not the native one.
\* A tagged network that Terraform manages is created before the profile.
Configure(tagged) ==
    /\ pc = "idle"
    /\ tagged # {} /\ Native \notin tagged
    /\ config' = tagged
    /\ applied' = FALSE
    /\ UNCHANGED <<caching, network, profile, lists, state, pc, kind, got, lan, waiting, lost>>

\* A new run starts with an empty cache.
Restart ==
    /\ pc = "idle"
    /\ Forget
    /\ UNCHANGED <<caching, network, profile, state, config, pc, kind, got, lan, waiting,
                   applied, lost>>

Begin(k, p) ==
    /\ pc = "idle"
    /\ kind' = k /\ pc' = p
    /\ UNCHANGED <<caching, network, profile, lists, state, config, got, lan, waiting,
                   applied, lost>>

Create == state = Untracked /\ profile = NoProfile /\ config # {} /\ Begin("create", "list")
Update == state # Untracked /\ config # {} /\ state # config /\ Begin("update", "list")
Read == state # Untracked /\ Begin(kind, "read")

\* ListLANNetworkIDs: from the cache or the controller.
Listed == IF cached # NoList THEN cached ELSE nets
CacheList == cached' = (IF caching THEN Listed ELSE cached) /\ UNCHANGED seen

\* Mutant: any id may be tagged.
AnyTagged(all, tagged) == TRUE

\* A tagged network that is not in the list is an error.
CanTag(all, tagged) == tagged \subseteq all

\* lanNetworksIfNeeded and modelToAPI.
List ==
    /\ pc = "list"
    /\ CacheList
    /\ IF CanTag(Listed, config)
       THEN pc' = "write" /\ lan' = Listed
       ELSE pc' = "idle" /\ UNCHANGED lan
    /\ UNCHANGED <<caching, network, profile, state, config, kind, got, waiting, applied, lost>>

\* Mutant: nothing is ever taken to be new.
NeverFresh(tagged) == FALSE

\* anyCreatedWithin
AnyFresh(tagged) == tagged \cap fresh # {}

\* apiToModel: the networks carried, out of those that were listed.
Stored(excluded) == TaggedFromExcluded(lan, excluded)

Finish(s) == pc' = "idle" /\ state' = s /\ applied' = TRUE /\ lan' = {}

\* Mutant: Create keeps nothing before it has settled.
StoresNothing(excluded) == state

\* State.Set right after the POST, before anything else can fail.
CreatedState(excluded) == IF kind = "create" THEN Stored(excluded) ELSE state

\* CreatePortProfile, or UpdatePortProfile of a profile that is still there.  (The
\* list an update looks it up in may be a cached one: it fails if that lacks it.)
Write ==
    LET sent == ExcludedFromTagged(lan, config) IN
    /\ pc = "write"
    /\ kind = "update" => profile # NoProfile
    /\ profile' = sent
    /\ Forget
    /\ IF AnyFresh(config)
       THEN /\ pc' = "wait" /\ waiting' = pending
            /\ state' = CreatedState(sent)
            /\ UNCHANGED <<applied, lan>>
       ELSE Finish(Stored(sent)) /\ UNCHANGED waiting
    /\ UNCHANGED <<caching, network, config, kind, got, lost>>

\* The wait of three seconds outlasts the jobs that were due when it began.
Wait ==
    /\ pc = "wait"
    /\ waiting \cap pending = {}
    /\ pc' = "check" /\ waiting' = {}
    /\ UNCHANGED <<caching, network, profile, lists, state, config, kind, got, lan, applied,
                   lost>>

\* getPortProfile with useCached false; the answer replaces the cached one.
Check ==
    /\ pc = "check"
    /\ profile # NoProfile
    /\ seen' = IF caching THEN profile ELSE seen
    /\ IF config \cap profile = {}
       THEN Finish(Stored(profile))
       ELSE pc' = "rewrite" /\ UNCHANGED <<state, applied, lan>>
    /\ UNCHANGED <<caching, network, profile, cached, config, kind, got, waiting, lost>>

\* UpdatePortProfile with the profile as sent before.
Rewrite ==
    LET sent == ExcludedFromTagged(lan, config) IN
    /\ pc = "rewrite"
    /\ profile # NoProfile
    /\ profile' = sent
    /\ Forget
    /\ Finish(Stored(sent))
    /\ UNCHANGED <<caching, network, config, kind, got, waiting, lost>>

\* Read: a profile that the list, cached or not, lacks leaves the state; networks are
\* listed for any other.  A run reads a profile before it writes it: an answer that
\* was overtaken by the write (ResponseCache) is not the one it reads.
ReadProfile ==
    LET found == IF seen # NoList THEN seen ELSE profile IN
    /\ pc = "read"
    /\ seen' = IF caching THEN found ELSE seen
    /\ IF found = NoProfile
       THEN pc' = "idle" /\ state' = Untracked /\ UNCHANGED got
       ELSE pc' = "listForRead" /\ got' = found /\ UNCHANGED state
    /\ UNCHANGED <<caching, network, profile, cached, config, kind, lan, waiting,
                   applied, lost>>

ListForRead ==
    /\ pc = "listForRead"
    /\ CacheList
    /\ state' = TaggedFromExcluded(Listed, got)
    /\ pc' = "idle" /\ got' = {}
    /\ UNCHANGED <<caching, network, profile, config, kind, lan, waiting, applied, lost>>

\* DeletePortProfile: also when it is gone already, which is an error to the cache.
Delete ==
    /\ pc = "idle" /\ state # Untracked /\ config = {}
    /\ profile' = NoProfile /\ state' = Untracked
    /\ IF profile = NoProfile THEN UNCHANGED lists ELSE Forget
    /\ applied' = FALSE
    /\ UNCHANGED <<caching, network, config, pc, kind, got, lan, waiting, lost>>

PlanDestroy ==
    /\ pc = "idle" /\ config # {}
    /\ config' = {} /\ applied' = FALSE
    /\ UNCHANGED <<caching, network, profile, lists, state, pc, kind, got, lan, waiting, lost>>

\* A request fails or the run is cancelled; a write may have been applied.
Fails ==
    /\ pc # "idle"
    /\ pc' = "idle" /\ got' = {} /\ lan' = {} /\ waiting' = {}
    /\ \/ UNCHANGED <<profile, lost>>
       \/ /\ pc \in {"write", "rewrite"}
          /\ profile # NoProfile \/ (kind = "create" /\ pc = "write")
          /\ profile' = ExcludedFromTagged(lan, config)
          /\ lost' = (lost \/ (kind = "create" /\ pc = "write"))
    /\ UNCHANGED <<caching, network, lists, state, config, kind, applied>>

\* Somebody deletes the profile.
RemoveProfile ==
    /\ profile # NoProfile
    /\ profile' = NoProfile
    /\ applied' = FALSE
    /\ UNCHANGED <<caching, network, lists, state, config, pc, kind, got, lan, waiting, lost>>

Step == List \/ Write \/ Wait \/ Check \/ Rewrite \/ ReadProfile \/ ListForRead \/ Fails

ProfileNext ==
    \/ \E n \in Net : CreateNetwork(n) \/ Job(n) \/ Age(n) \/ DeleteNetwork(n)
    \/ \E tagged \in SUBSET nets : Configure(tagged)
    \/ PlanDestroy \/ Restart
    \/ Create \/ Update \/ Read \/ Delete
    \/ Step
    \/ OthersList \/ RemoveProfile

ProfileSpec == ProfileInit /\ [][ProfileNext]_profileVars

(***************************************************************************)
(* Properties.                                                             *)
(***************************************************************************)

\* Once a create or update has succeeded and the controller's jobs are done, the
\* profile carries every network it tags, also one created in the same apply.
\* (settleFreshTaggedNetworks)
TaggedNetworksStick ==
    pc = "idle" /\ applied /\ pending = {} => config \cap profile = {}

\* A profile that Terraform created is in the state, also when the run is cancelled
\* while it waits or a request fails after the POST, unless the answer to the POST
\* itself was lost.  ("Terraform must retain the ID", Create)
CreatedProfileIsTracked ==
    pc = "idle" /\ ~lost /\ profile # NoProfile => state # Untracked
=============================================================================

-------------------------- MODULE FirewallPolicyOrder --------------------------
(***************************************************************************)
(* terrifi_firewall_policy_order for one pair of zones, together with the  *)
(* firewall policies it puts in order.                                     *)
(*                                                                         *)
(* The controller keeps an index for each policy and evaluates a pair's    *)
(* policies by rising index.  The order resource sends a list of ids and   *)
(* reads the indices back; the policy resource sends the index it last saw *)
(* whenever it updates a policy for another reason.                        *)
(*                                                                         *)
(* A run refreshes, plans and applies: policies are created and updated    *)
(* first, the order follows, policies that go are deleted last.            *)
(***************************************************************************)
EXTENDS Naturals, FiniteSets, Sequences

CONSTANTS
    Policy,     \* ids of policies
    Predefined, \* those the system brings along
    Elsewhere,  \* those of another pair of zones
    Managed,    \* those with a terrifi_firewall_policy
    Orders,     \* lists policy_ids may be set to
    Given,      \* the indices at the start
    MaxIndex,   \* bound: indices
    MaxOutside, \* bound: changes by others
    Untracked,  \* the order is not in the state, or not configured
    NoList      \* the policy list is not cached, or nobody fetches it

ASSUME PolicyAssumption ==
    /\ IsFiniteSet(Policy)
    /\ Predefined \subseteq Policy /\ Elsewhere \subseteq Policy
    /\ Managed \subseteq Policy \ (Predefined \cup Elsewhere)
    /\ Orders \subseteq Seq(Policy)
    /\ MaxIndex \in Nat /\ MaxOutside \in Nat
    /\ Given \in [Policy \ Managed -> 0..MaxIndex]

VARIABLES
    caching,  \* the provider's response_caching setting
    index,    \* controller: index of each policy there is
    cached,   \* response cache: the policy list, or NoList
    fetched,  \* a list that another goroutine is about to put into the cache
    seen,     \* Terraform state: index of each tracked policy
    state,    \* Terraform state: policy_ids, or Untracked
    config,   \* planned policy_ids, or Untracked
    wanted,   \* managed policies in the configuration
    dirty,    \* of these, those with another change to make
    phase,    \* "plan" or "apply"
    pc,       \* the order's operation
    \* History variables.
    outside,  \* changes by others so far
    settled,  \* the last apply succeeded and nothing changed since
    quiet,    \* nobody else changed anything since the refresh
    written,  \* the run wrote the order and read it back as planned
    surprise  \* the answer of an apply differed from its plan

order == <<state, config>>
policy == <<seen, wanted, dirty>>
history == <<outside, settled, quiet, written, surprise>>
vars == <<caching, index, cached, fetched, policy, order, phase, pc, history>>

IsList(l) == DOMAIN l \subseteq Policy /\ l \in [DOMAIN l -> Nat]
Ids == UNION {[1..n -> Policy] : n \in 0..Cardinality(Policy)}

TypeOK ==
    /\ caching \in BOOLEAN
    /\ IsList(index) /\ IsList(seen)
    /\ (cached = NoList \/ IsList(cached)) /\ (fetched = NoList \/ IsList(fetched))
    /\ state \in Ids \cup {Untracked} /\ config \in Orders \cup {Untracked}
    /\ DOMAIN seen \subseteq Managed /\ dirty \subseteq wanted /\ wanted \subseteq Managed
    /\ phase \in {"plan", "apply"}
    /\ pc \in {"todo", "reorder", "readBack", "done"}
    /\ outside \in 0..MaxOutside
    /\ {settled, quiet, written, surprise} \subseteq BOOLEAN

InPair(p) == p \notin Elsewhere

Init ==
    /\ caching \in BOOLEAN
    /\ index = Given
    /\ cached = NoList /\ fetched = NoList
    /\ seen = [p \in {} |-> 0] /\ wanted = {} /\ dirty = {}
    /\ state = Untracked /\ config = Untracked
    /\ phase = "plan" /\ pc = "done"
    /\ outside = 0 /\ settled = FALSE /\ quiet = TRUE /\ written = FALSE
    /\ surprise = FALSE

Elements(s) == {s[i] : i \in DOMAIN s}

(***************************************************************************)
(* The controller (external).                                              *)
(***************************************************************************)

PairOf(l) == {p \in DOMAIN l : InPair(p) /\ p \notin Predefined}
Highest(l) == IF DOMAIN l = {} THEN 0
              ELSE CHOOSE i \in {l[p] : p \in DOMAIN l} : \A p \in DOMAIN l : l[p] <= i

\* The lists of S that a sort by index, which is not stable, can return.
SortedBy(l, S) ==
    {s \in [1..Cardinality(S) -> S] :
        /\ Elements(s) = S
        /\ \A i, j \in DOMAIN s : i < j => l[s[i]] <= l[s[j]]}

Position(s, p) == CHOOSE i \in DOMAIN s : s[i] = p

\* batch-reorder: the ids come first, the pair's other policies keep their order.
Reordered(ids) ==
    {[p \in DOMAIN index |->
        IF p \in Elements(ids) THEN Position(ids, p)
        ELSE IF p \in PairOf(index) THEN Len(ids) + Position(rest, p) ELSE index[p]]
     : rest \in SortedBy(index, PairOf(index) \ Elements(ids))}

(***************************************************************************)
(* Reading (firewall_policy_order_api.go and readOrdering).                *)
(***************************************************************************)

\* ListFirewallPolicies, from the cache or the controller.
Listed == IF cached # NoList THEN cached ELSE index
CacheList == cached' = IF caching THEN Listed ELSE cached

\* Mutant: what was sent is taken to be what is there.
OrderingAsSent(l, ids) == {ids}

\* Mutant: the ids found are appended to those of the state.
OrderingAppended(l, ids) == {ids \o s : s \in SortedBy(l, PairOf(l) \cap Elements(ids))}

\* readOrdering: of GetFirewallPolicyOrdering's list, the policies that are in ids.
\* To leave the others out after the sort, as the code does, gives the same lists.
Ordering(l, ids) == SortedBy(l, PairOf(l) \cap Elements(ids))

(***************************************************************************)
(* Terraform.                                                              *)
(***************************************************************************)

\* The user edits the configuration, which names a policy it manages by reference.
Configure ==
    /\ phase = "plan"
    /\ config' \in Orders \cup {Untracked}
    /\ wanted' \in SUBSET Managed
    /\ config' # Untracked => Elements(config') \cap Managed \subseteq wanted'
    /\ dirty' \in SUBSET wanted'
    /\ settled' = FALSE /\ surprise' = FALSE
    /\ UNCHANGED <<caching, index, cached, fetched, seen, state, phase, pc, outside, quiet,
                   written>>

\* ImportState names the pair and leaves policy_ids null; a Read follows.
Import ==
    /\ phase = "plan" /\ state = Untracked /\ config # Untracked
    /\ state' \in Ordering(index, <<>>)
    /\ settled' = FALSE
    /\ UNCHANGED <<caching, index, cached, fetched, policy, config, phase, pc, outside,
                   quiet, written, surprise>>

\* Read of the order and of the policies (one that is gone leaves the state), then
\* the plan: the order is written when it differs.  Apply runs in a new process.
Refresh ==
    /\ phase = "plan"
    /\ state' \in IF state = Untracked THEN {Untracked} ELSE Ordering(index, state)
    /\ seen' = [p \in DOMAIN seen \cap DOMAIN index |-> index[p]]
    /\ phase' = "apply"
    /\ pc' = IF state' = config THEN "done" ELSE "todo"
    /\ settled' = FALSE /\ quiet' = TRUE /\ written' = FALSE /\ surprise' = FALSE
    /\ UNCHANGED <<caching, index, cached, fetched, config, wanted, dirty, outside>>

\* The run is over: its cache goes with the process.
End ==
    /\ phase' = "plan" /\ pc' = "done"
    /\ cached' = NoList /\ fetched' = NoList

ToCreate == wanted \ DOMAIN seen
ToUpdate == dirty \cap DOMAIN seen
ToDelete == DOMAIN seen \ wanted

Finish ==
    /\ phase = "apply" /\ pc = "done"
    /\ ToCreate \cup ToUpdate \cup ToDelete = {}
    /\ End
    /\ settled' = quiet
    /\ UNCHANGED <<caching, index, policy, order, outside, quiet, written, surprise>>

(***************************************************************************)
(* terrifi_firewall_policy, as far as its index goes.                      *)
(***************************************************************************)

With(l, p, i) == [q \in DOMAIN l \cup {p} |-> IF q = p THEN i ELSE l[q]]
Without(l, p) == [q \in DOMAIN l \ {p} |-> l[q]]

\* Create sends no index; the controller puts the policy last.
CreatePolicy(p) ==
    /\ phase = "apply"
    /\ p \in ToCreate /\ p \notin DOMAIN index
    /\ Highest(index) + 1 \in 1..MaxIndex
    /\ index' = With(index, p, Highest(index) + 1)
    /\ seen' = With(seen, p, Highest(index) + 1)
    /\ dirty' = dirty \ {p}
    /\ cached' = NoList
    /\ UNCHANGED <<caching, fetched, wanted, order, phase, pc, history>>

\* Mutant: the planned index, which is unknown, is sent: none.
SentNoIndex(p) == Highest(index) + 1

\* applyPlanToState keeps the index of the state when the plan's is unknown.
SentIndex(p) == seen[p]

UpdatePolicy(p) ==
    /\ phase = "apply"
    /\ p \in ToUpdate \cap DOMAIN index
    /\ index' = With(index, p, SentIndex(p))
    /\ seen' = With(seen, p, SentIndex(p))
    /\ dirty' = dirty \ {p}
    /\ cached' = NoList
    /\ UNCHANGED <<caching, fetched, wanted, order, phase, pc, history>>

\* A policy that the order listed goes after the order was written without it.
DeletePolicy(p) ==
    /\ phase = "apply"
    /\ p \in ToDelete \cap DOMAIN index
    /\ state # Untracked /\ p \in Elements(state) => pc = "done"
    /\ index' = Without(index, p)
    /\ seen' = Without(seen, p)
    /\ cached' = NoList
    /\ UNCHANGED <<caching, fetched, wanted, dirty, order, phase, pc, history>>

(***************************************************************************)
(* terrifi_firewall_policy_order.                                          *)
(***************************************************************************)

\* Mutant: a policy that exists is good enough.
KnownPolicies(l) == Elements(config) \subseteq DOMAIN l

\* validatePolicyZones
ValidPolicies(l) == \A p \in Elements(config) : p \in DOMAIN l /\ InPair(p)

\* Create and Update begin once the policies listed have been written.
Validate ==
    /\ phase = "apply" /\ pc = "todo" /\ config # Untracked
    /\ Elements(config) \cap (ToCreate \cup ToUpdate) = {}
    /\ ValidPolicies(Listed)
    /\ CacheList
    /\ pc' = "reorder"
    /\ UNCHANGED <<caching, index, fetched, policy, order, phase, history>>

\* ReorderFirewallPolicies: 404 unless every id is a policy of the pair.
Reorder ==
    /\ phase = "apply" /\ pc = "reorder"
    /\ ValidPolicies(index)
    /\ index' \in Reordered(config)
    /\ cached' = NoList
    /\ pc' = "readBack"
    /\ UNCHANGED <<caching, fetched, policy, order, phase, history>>

\* The list read back is stored; Terraform objects when it is not what was planned.
ReadBack ==
    /\ phase = "apply" /\ pc = "readBack"
    /\ state' \in Ordering(Listed, config)
    /\ written' = (state' = config)
    /\ IF state' = config
       THEN pc' = "done" /\ CacheList /\ UNCHANGED <<fetched, phase, surprise>>
       ELSE End /\ surprise' = TRUE
    /\ UNCHANGED <<caching, index, policy, config, outside, settled, quiet>>

\* Delete only forgets the order.
DeleteOrder ==
    /\ phase = "apply" /\ pc = "todo" /\ config = Untracked
    /\ state' = Untracked /\ pc' = "done"
    /\ UNCHANGED <<caching, index, cached, fetched, policy, config, phase, history>>

\* A request is refused or fails and the run stops; a reorder may have been applied.
Fails ==
    /\ phase = "apply"
    /\ index' \in IF pc = "reorder" /\ ValidPolicies(index) THEN {index} \cup Reordered(config)
                  ELSE {index}
    /\ End
    /\ UNCHANGED <<caching, policy, order, history>>

(***************************************************************************)
(* Everybody else.                                                         *)
(***************************************************************************)

\* The order of another pair reads the same list; its goroutine may be slow.
FetchElsewhere ==
    /\ phase = "apply" /\ caching /\ cached = NoList /\ fetched = NoList
    /\ fetched' = index
    /\ UNCHANGED <<caching, index, cached, policy, order, phase, pc, history>>

StoreElsewhere ==
    /\ fetched # NoList
    /\ cached' = fetched /\ fetched' = NoList
    /\ UNCHANGED <<caching, index, policy, order, phase, pc, history>>

OutsideChange ==
    /\ outside < MaxOutside /\ outside' = outside + 1
    /\ settled' = FALSE /\ quiet' = FALSE
    /\ UNCHANGED <<caching, cached, fetched, policy, order, phase, pc, written, surprise>>

\* Somebody drags a policy to the top or to the bottom.
MoveOutside(p, i) ==
    /\ p \in PairOf(index)
    /\ index' = With(index, p, i)
    /\ OutsideChange

DeleteOutside(p) ==
    /\ p \in PairOf(index)
    /\ index' = Without(index, p)
    /\ OutsideChange

Next ==
    \/ Configure \/ Import \/ Refresh \/ Finish
    \/ \E p \in Managed : CreatePolicy(p) \/ UpdatePolicy(p) \/ DeletePolicy(p)
    \/ Validate \/ Reorder \/ ReadBack \/ DeleteOrder \/ Fails
    \/ FetchElsewhere \/ StoreElsewhere
    \/ \E p \in Policy, i \in {0, MaxIndex} : MoveOutside(p, i)
    \/ \E p \in Policy : DeleteOutside(p)

Spec == Init /\ [][Next]_vars

(***************************************************************************)
(* Properties.                                                             *)
(***************************************************************************)

\* After a run that succeeded undisturbed the controller evaluates the listed
\* policies in the order of policy_ids, whatever else the run did to them.
\* ("Policies are evaluated in this order", policy_ids)
AppliedOrderHolds ==
    settled /\ config # Untracked =>
        /\ Elements(config) \subseteq DOMAIN index
        /\ \A i, j \in DOMAIN config : i < j => index[config[i]] <= index[config[j]]

\* Without the cache an undisturbed run never ends in "Provider produced
\* inconsistent result", unless the list repeats a policy or names a predefined
\* one, which the read-back leaves out.  (readOrdering after ReorderFirewallPolicies)
Repeats(ids) == \E i, j \in DOMAIN ids : i # j /\ ids[i] = ids[j]
QuietApplyIsConsistent ==
    surprise /\ quiet /\ ~caching =>
        Repeats(config) \/ Elements(config) \cap Predefined # {}

\* The order that an undisturbed run has written is the only one the next refresh can
\* read: no two policies it names share an index, by which a sort that is not stable
\* could return them either way.  (GetFirewallPolicyOrdering after Create and Update)
WrittenOrderPlansNothing ==
    settled /\ written => SortedBy(index, PairOf(index) \cap Elements(config)) = {config}
=============================================================================

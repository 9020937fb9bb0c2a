------------------------------- MODULE ListReads -------------------------------
(***************************************************************************)
(* What the readers of the controller's lists are promised, whether or not *)
(* a response cache stands between.                                        *)
(*                                                                         *)
(* A read returns a version the list had since it began, or one at least   *)
(* as new as the last update somebody vouched for.  A read during which an *)
(* update finishes may return what was there before, and such a late       *)
(* answer may be returned again, until the next update finishes.           *)
(***************************************************************************)
EXTENDS Naturals

CONSTANTS Worker, Url

VARIABLES
    store,    \* store[u]: the version of list u
    vouched,  \* vouched[u]: newest version of a finished update or fresh read
    late,     \* late[u]: late answers that may be returned again
    read      \* read[w]: what worker w reads, has read, or None

vars == <<store, vouched, late, read>>

None == [pc |-> "none"]
Reading(u, fresh, from) == [pc |-> "reading", url |-> u, fresh |-> fresh, from |-> from]
Returned(u, fresh, v) == [pc |-> "returned", url |-> u, fresh |-> fresh, version |-> v]

Init ==
    /\ store = [u \in Url |-> 0] /\ vouched = [u \in Url |-> 0]
    /\ late = [u \in Url |-> {}] /\ read = [w \in Worker |-> None]

\* Somebody changes a list; nobody is told yet.
Change(u) ==
    /\ store' = [store EXCEPT ![u] = @ + 1]
    /\ UNCHANGED <<vouched, late, read>>

\* A worker learns that a version is there.
Vouch(u, v) == vouched' = [vouched EXCEPT ![u] = IF v > @ THEN v ELSE @]

\* An update that made version v of u is answered: no late answer outlives it.
FinishUpdate(u) ==
    /\ \E v \in 1..store[u] : Vouch(u, v)
    /\ late' = [x \in Url |-> {}]
    /\ UNCHANGED <<store, read>>

Begin(w, u, fresh) ==
    /\ read[w].pc # "reading"
    /\ read' = [read EXCEPT ![w] = Reading(u, fresh, IF fresh THEN store[u] ELSE vouched[u])]
    /\ UNCHANGED <<store, vouched, late>>

\* A version the list had since the read began; it is late if an update overtook it.
Return(w) ==
    LET r == read[w] IN
    /\ r.pc = "reading"
    /\ \E v \in r.from .. store[r.url] :
          /\ read' = [read EXCEPT ![w] = Returned(r.url, r.fresh, v)]
          /\ late' = [late EXCEPT ![r.url] = IF v < vouched[r.url] THEN {v} ELSE {}]
          /\ IF r.fresh THEN Vouch(r.url, v) ELSE UNCHANGED vouched
    /\ UNCHANGED store

\* A read for which the controller is not asked; never one that wants a fresh answer.
Recall(w, u) ==
    /\ read[w].pc # "reading"
    /\ \E v \in (vouched[u] .. store[u]) \cup late[u] :
          read' = [read EXCEPT ![w] = Returned(u, FALSE, v)]
    /\ UNCHANGED <<store, vouched, late>>

\* The read fails, or the worker turns to something else.
Abandon(w) ==
    /\ read[w] # None
    /\ read' = [read EXCEPT ![w] = None]
    /\ UNCHANGED <<store, vouched, late>>

Next ==
    \/ \E u \in Url : Change(u) \/ FinishUpdate(u)
    \/ \E w \in Worker : Return(w) \/ Abandon(w)
    \/ \E w \in Worker, u \in Url : Recall(w, u) \/ \E fresh \in BOOLEAN : Begin(w, u, fresh)

Spec == Init /\ [][Next]_vars
=============================================================================

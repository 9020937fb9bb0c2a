------------------------------ MODULE CachedReads ------------------------------
(***************************************************************************)
(* doRequest and its response cache implement the reads of ListReads: what *)
(* a worker has in flight is a read that has begun, and an entry older     *)
(* than an update that was answered is a late answer.                      *)
(***************************************************************************)
EXTENDS ResponseCache

LateEntry(u) == IF cache[u] # NoEntry /\ cache[u] < acked[u] THEN {cache[u]} ELSE {}
Late == [u \in Url |-> LateEntry(u)]

\* The read that a call of doRequest is.
ReadOf(c) ==
    CASE c.pc \in {"getSent", "getServed"} ->
            [pc |-> "reading", url |-> c.url, fresh |-> c.fresh, from |-> c.floor]
      [] c.pc = "got" ->
            [pc |-> "returned", url |-> c.url, fresh |-> c.fresh, version |-> c.ver]
      [] OTHER -> [pc |-> "none"]
Reads == [w \in Worker |-> ReadOf(call[w])]

L == INSTANCE ListReads WITH vouched <- acked, late <- Late, read <- Reads

\* Every behaviour of the helper, with the cache on, is one of ListReads: a read never
\* returns a version from before it began, or before the last vouched one, unless it is
\* a late answer, and those end with the next write.  (doRequest, responseCache)
ImplementsListReads == L!Spec
=============================================================================

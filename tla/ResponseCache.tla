---------------------------- MODULE ResponseCache ----------------------------
(***************************************************************************)
(* The provider's optional response cache and the HTTP helper every custom *)
(* API call goes through (Client.doRequest).                               *)
(*                                                                         *)
(* Terraform runs resource operations concurrently inside one provider     *)
(* process.  Each Worker is one such goroutine.  The cache mutex covers a  *)
(* single get, set or invalidateAll; it is not held while a request is on  *)
(* the wire, so a GET and a write of two workers overlap freely.           *)
(*                                                                         *)
(* The controller's answer for a URL is abstracted to a version number     *)
(* that every applied write of that URL raises.                            *)
(***************************************************************************)
EXTENDS Integers

CONSTANTS
    Worker,      \* goroutines running resource operations
    Url,         \* the list endpoints read through doRequest
    MaxVersion,  \* bound: MaxVersion[u] writes are applied to URL u
    RetryMax     \* retryablehttp re-sends of one request

ASSUME ConstantsAssumption ==
    Url # {} /\ MaxVersion \in [Url -> Nat] /\ RetryMax \in Nat

VARIABLES
    store,     \* store[u]: the version the controller holds
    cache,     \* cache[u]: cached version, or NoEntry
    call,      \* call[w]: worker w's call of doRequest
    \* History variables.
    acked,     \* acked[u]: newest version a finished write or fresh read vouched for
    tainted    \* tainted[u]: the entry for u was set by an overtaken response

vars == <<store, cache, call, acked, tainted>>

NoEntry == -1
Version == Nat
Larger(a, b) == IF a > b THEN a ELSE b

Phase == {"idle", "getSent", "getServed", "got", "writeSent", "writeApplied"}

\* fresh: the caller passed useCached = false.  ver: the version served (or
\* written).  attempts: re-sends so far.  History: floor, the version a read must
\* not be older than; raced, a cache update overtook the response.
Call == [pc : Phase, url : Url, fresh : BOOLEAN, ver : Version, attempts : 0..RetryMax,
         floor : Version, raced : BOOLEAN]

NewCall(p, u, f) ==
    [pc |-> p, url |-> u, fresh |-> f, ver |-> 0, attempts |-> 0,
     floor |-> 0, raced |-> FALSE]

NoCall == NewCall("idle", CHOOSE u \in Url : TRUE, FALSE)

Ready(w) == call[w].pc \in {"idle", "got"}

TypeOK ==
    /\ store \in [Url -> Version]
    /\ cache \in [Url -> Version \cup {NoEntry}]
    /\ call \in [Worker -> Call]
    /\ acked \in [Url -> Version]
    /\ tainted \in [Url -> BOOLEAN]

Init ==
    /\ store = [u \in Url |-> 0]
    /\ cache = [u \in Url |-> NoEntry]
    /\ call = [w \in Worker |-> NoCall]
    /\ acked = [u \in Url |-> 0]
    /\ tainted = [u \in Url |-> FALSE]

(***************************************************************************)
(* Reads.                                                                  *)
(***************************************************************************)

\* Mutant: useCached = false is ignored when an entry exists.
SkipsCacheOnlyOnMiss(f, u) == cache[u] = NoEntry

\* A caller that insists on the controller (useCached = false), or a cache miss.
SkipsCache(f, u) == f \/ cache[u] = NoEntry

\* What a read of u beginning now must not fall behind.
FloorOf(f, u) == IF f THEN store[u] ELSE acked[u]

\* responseCache.get finds an entry and the caller allows one: no request is sent.
CacheHit(w, u, f) ==
    /\ Ready(w)
    /\ ~SkipsCache(f, u)
    /\ call' = [call EXCEPT ![w] =
                  [NewCall("got", u, f) EXCEPT
                     !.ver = cache[u], !.floor = FloorOf(f, u), !.raced = tainted[u]]]
    /\ UNCHANGED <<store, cache, acked, tainted>>

SendGet(w, u, f) ==
    /\ Ready(w)
    /\ SkipsCache(f, u)
    /\ call' = [call EXCEPT ![w] =
                  [NewCall("getSent", u, f) EXCEPT !.floor = FloorOf(f, u)]]
    /\ UNCHANGED <<store, cache, acked, tainted>>

\* The controller answers 2xx; the bytes are on their way back.
ServeGet(w) ==
    /\ call[w].pc = "getSent"
    /\ call' = [call EXCEPT ![w].pc = "getServed", ![w].ver = store[call[w].url]]
    /\ UNCHANGED <<store, cache, acked, tainted>>

\* call after w moves to its new value and the responses already served to other
\* workers for the URLs us are overtaken.
Overtake(w, new, us) ==
    [x \in Worker |->
       IF x = w THEN new
       ELSE IF call[x].pc = "getServed" /\ call[x].url \in us
            THEN [call[x] EXCEPT !.raced = TRUE]
            ELSE call[x]]

\* A 2xx GET replaces the entry, whether or not the caller read past the cache.
FinishGet(w) ==
    LET c == call[w] IN
    /\ c.pc = "getServed"
    /\ cache' = [cache EXCEPT ![c.url] = c.ver]
    /\ tainted' = [tainted EXCEPT ![c.url] = c.raced]
    /\ call' = Overtake(w, [c EXCEPT !.pc = "got", !.attempts = 0],
                        IF c.fresh THEN {c.url} ELSE {})
    /\ acked' = IF c.fresh THEN [acked EXCEPT ![c.url] = Larger(@, c.ver)] ELSE acked
    /\ UNCHANGED store

(***************************************************************************)
(* Writes through doRequest.                                               *)
(***************************************************************************)

SendWrite(w) ==
    /\ Ready(w)
    /\ call' = [call EXCEPT ![w] = [NoCall EXCEPT !.pc = "writeSent"]]
    /\ UNCHANGED <<store, cache, acked, tainted>>

\* The controller applies the write, which goes to an object's own URL and changes
\* the list u that shows the object; the response is on its way back.
ApplyWrite(w, u) ==
    /\ call[w].pc = "writeSent"
    /\ store[u] < MaxVersion[u]
    /\ store' = [store EXCEPT ![u] = @ + 1]
    /\ call' = [call EXCEPT ![w].pc = "writeApplied", ![w].url = u,
                            ![w].ver = store[u] + 1]
    /\ UNCHANGED <<cache, acked, tainted>>

\* Mutant: the write path forgets to clear the cache.
FinishWriteKeepsCache(w) ==
    LET c == call[w] IN
    /\ c.pc = "writeApplied"
    /\ call' = Overtake(w, NoCall, Url)
    /\ acked' = [acked EXCEPT ![c.url] = Larger(@, c.ver)]
    /\ UNCHANGED <<store, cache, tainted>>

\* A 2xx answer to a POST, PUT or DELETE clears the whole cache.
FinishWrite(w) ==
    LET c == call[w] IN
    /\ c.pc = "writeApplied"
    /\ cache' = [u \in Url |-> NoEntry]
    /\ tainted' = [u \in Url |-> FALSE]
    /\ call' = Overtake(w, NoCall, Url)
    /\ acked' = [acked EXCEPT ![c.url] = Larger(@, c.ver)]
    /\ UNCHANGED store

(***************************************************************************)
(* Failures: a transport error, an unreadable body or a non-2xx status     *)
(* returns before the cache is touched, also when the write was applied.   *)
(***************************************************************************)

\* Mutant: nothing counts the attempts.
ResendForever(w) ==
    /\ ~Ready(w)
    /\ call' = [call EXCEPT ![w].attempts = @ + 1]
    /\ UNCHANGED <<store, cache, acked, tainted>>

\* retryablehttp sends the request again after a connection error, 429 or 5xx,
\* whatever the method and whether or not the controller applied it.
Resend(w) ==
    LET c == call[w]
        again == IF c.pc \in {"getSent", "getServed"}
                 THEN [c EXCEPT !.pc = "getSent", !.ver = 0, !.raced = FALSE]
                 ELSE [NoCall EXCEPT !.pc = "writeSent"]
    IN
    /\ ~Ready(w)
    /\ c.attempts < RetryMax
    /\ call' = [call EXCEPT ![w] = [again EXCEPT !.attempts = c.attempts + 1]]
    /\ UNCHANGED <<store, cache, acked, tainted>>

\* doRequest returns an error to the resource operation.
Fail(w) ==
    /\ ~Ready(w)
    /\ call' = [call EXCEPT ![w] = NoCall]
    /\ UNCHANGED <<store, cache, acked, tainted>>

(***************************************************************************)
(* Writes that do not pass through doRequest: the SDK methods promoted     *)
(* from the embedded ApiClient (delete a network, DNS records, WLANs,      *)
(* groups), and everyone else who configures the controller.               *)
(***************************************************************************)

OtherWrite(u) ==
    /\ store[u] < MaxVersion[u]
    /\ store' = [store EXCEPT ![u] = @ + 1]
    /\ UNCHANGED <<cache, call, acked, tainted>>

\* Steps of a request already on the wire.
Progress(w) ==
    \/ ServeGet(w)
    \/ FinishGet(w)
    \/ \E u \in Url : ApplyWrite(w, u)
    \/ FinishWrite(w)
    \/ Resend(w)
    \/ Fail(w)

Next ==
    \/ \E w \in Worker, u \in Url, f \in BOOLEAN : CacheHit(w, u, f)
    \/ \E w \in Worker, u \in Url, f \in BOOLEAN : SendGet(w, u, f)
    \/ \E w \in Worker : SendWrite(w)
    \/ \E w \in Worker : Progress(w)
    \/ \E u \in Url : OtherWrite(u)

Spec == Init /\ [][Next]_vars

(***************************************************************************)
(* Properties.                                                             *)
(***************************************************************************)

\* A read with useCached = false returns a state the controller held after the
\* call began, and a cached read returns nothing older than the last write that
\* finished (or fresh read that returned) before it began, unless the entry was
\* stored by a GET that such an update overtook on the wire.  (doRequest)
ReadsNotOlderThanAcked ==
    \A w \in Worker :
        call[w].pc = "got" /\ (call[w].fresh \/ ~call[w].raced)
            => call[w].ver >= call[w].floor

\* An entry that nothing overtook is at least as new as every write whose
\* response reached doRequest: only an overlap can leave an older one behind.
StaleEntryWasOvertaken ==
    \A u \in Url : cache[u] # NoEntry /\ ~tainted[u] => cache[u] >= acked[u]

\* "Any non-GET request (POST, PUT, DELETE) invalidates the entire cache to ensure
\* subsequent reads see fresh data": a read begun after a write finished sees it.
SubsequentReadsSeeFreshData ==
    \A w \in Worker : call[w].pc = "got" => call[w].ver >= call[w].floor
=============================================================================

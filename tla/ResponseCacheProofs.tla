------------------------- MODULE ResponseCacheProofs -------------------------
(***************************************************************************)
(* The response cache serves nothing older than what finished writes and   *)
(* fresh reads vouched for, unless the entry was set by an overtaken GET:  *)
(* for every set of workers and URLs and every number of re-sends.  And    *)
(* what a port profile tags survives, although its networks are listed     *)
(* through that cache.                                                     *)
(***************************************************************************)
EXTENDS CachedReads, PortProfile, TLAPS

\* A call's version and floor against the controller and what was vouched for.
CallOK(c) ==
    /\ c.pc \in {"getSent", "getServed"} => c.floor <= store[c.url]
    /\ c.pc \in {"getServed", "writeApplied"} => c.ver <= store[c.url]
    /\ c.pc = "writeApplied" => c.ver >= 1
    /\ c.pc = "getServed" => c.ver >= c.floor
    /\ c.pc = "getServed" /\ ~c.raced => c.ver >= acked[c.url]
    /\ c.pc = "got" /\ (c.fresh \/ ~c.raced) => c.ver >= c.floor

\* Neither the cache nor a vouched version is ahead of the controller.
NotAhead == \A u \in Url : acked[u] <= store[u] /\ cache[u] <= store[u]

\* Strengthening of the two safety invariants that is inductive.
IInv ==
    /\ TypeOK
    /\ NotAhead
    /\ StaleEntryWasOvertaken
    /\ \A w \in Worker : CallOK(call[w])

LEMMA NewCallType ==
    ASSUME NEW p \in Phase, NEW u \in Url, NEW f \in BOOLEAN
    PROVE  /\ NewCall(p, u, f) \in Call
           /\ NewCall(p, u, f).pc = p /\ NewCall(p, u, f).url = u
           /\ NewCall(p, u, f).fresh = f
           /\ NewCall(p, u, f).attempts = 0
BY ConstantsAssumption DEF NewCall, Call, Version, Phase

LEMMA NoCallType == NoCall \in Call /\ NoCall.pc = "idle" /\ NoCall.attempts = 0
<1> DEFINE any == CHOOSE u \in Url : TRUE
<1>1. any \in Url /\ "idle" \in Phase /\ FALSE \in BOOLEAN
  BY ConstantsAssumption DEF Phase
<1>2. NoCall = NewCall("idle", any, FALSE)
  BY DEF NoCall
<1> HIDE DEF any
<1>3. QED
  BY <1>1, <1>2, NewCallType

LEMMA InitIInv == Init => IInv
BY NoCallType DEF Init, IInv, TypeOK, NotAhead, StaleEntryWasOvertaken, CallOK, Version, NoEntry

\* A step that only moves worker w to a call n that is itself in order.
LEMMA OneCallMoves ==
    ASSUME IInv, NEW w \in Worker, NEW n \in Call, CallOK(n),
           call' = [call EXCEPT ![w] = n],
           UNCHANGED <<store, cache, acked, tainted>>
    PROVE  IInv'
<1>1. call' \in [Worker -> Call] /\ call'[w] = n /\ \A x \in Worker \ {w} : call'[x] = call[x]
  BY DEF IInv, TypeOK
<1>2. TypeOK' /\ NotAhead' /\ StaleEntryWasOvertaken'
  BY <1>1 DEF IInv, TypeOK, NotAhead, StaleEntryWasOvertaken
<1>3. ASSUME NEW x \in Worker PROVE CallOK(call[x])'
  BY <1>1 DEF IInv, CallOK
<1>4. QED
  BY <1>2, <1>3 DEF IInv

\* What a cache update does to the calls of the other workers.
LEMMA OvertakeEffect ==
    ASSUME TypeOK, NEW w \in Worker, NEW n \in Call, NEW us \in SUBSET Url,
           call' = Overtake(w, n, us)
    PROVE  /\ call' \in [Worker -> Call]
           /\ call'[w] = n
           /\ \A x \in Worker \ {w} :
                 /\ call'[x].pc = call[x].pc /\ call'[x].url = call[x].url
                 /\ call'[x].ver = call[x].ver /\ call'[x].floor = call[x].floor
                 /\ call'[x].fresh = call[x].fresh
                 /\ call[x].pc # "getServed" => call'[x] = call[x]
                 /\ call[x].raced => call'[x].raced
                 /\ call[x].pc = "getServed" /\ call[x].url \in us => call'[x].raced
<1>1. call'[w] = n
  BY DEF Overtake
<1>2. ASSUME NEW x \in Worker \ {w},
             NEW c \in Call, c = call[x],
             NEW d, d = [c EXCEPT !.raced = TRUE]
      PROVE  /\ d \in Call /\ d.raced
             /\ d.pc = c.pc /\ d.url = c.url /\ d.ver = c.ver
             /\ d.floor = c.floor /\ d.fresh = c.fresh
  BY <1>2 DEF Call
<1>3. ASSUME NEW x \in Worker \ {w}
      PROVE  call'[x] = IF call[x].pc = "getServed" /\ call[x].url \in us
                        THEN [call[x] EXCEPT !.raced = TRUE] ELSE call[x]
  BY DEF Overtake
<1>4. \A x \in Worker : call[x] \in Call
  BY DEF TypeOK
<1>5. \A x \in Worker : call'[x] \in Call
  BY <1>1, <1>2, <1>3, <1>4
<1>6. call' = [x \in Worker |-> call'[x]]
  BY DEF Overtake
<1>7. QED
  BY <1>1, <1>2, <1>3, <1>4, <1>5, <1>6

LEMMA StepIInv == IInv /\ [Next]_vars => IInv'
<1> SUFFICES ASSUME IInv, [Next]_vars PROVE IInv'
  OBVIOUS
<1>a. \A w \in Worker : call[w] \in Call /\ CallOK(call[w])
  BY DEF IInv, TypeOK
<1>1. ASSUME NEW w \in Worker, NEW u \in Url, NEW f \in BOOLEAN, CacheHit(w, u, f)
      PROVE  IInv'
  <2> DEFINE c == NewCall("got", u, f)
             n == [c EXCEPT !.ver = cache[u], !.floor = FloorOf(f, u), !.raced = tainted[u]]
  <2>1. c \in Call /\ c.pc = "got" /\ c.fresh = f
    BY NewCallType DEF Phase
  <2>2. cache[u] \in Nat /\ FloorOf(f, u) \in Nat /\ tainted[u] \in BOOLEAN /\ ~f
    BY <1>1 DEF CacheHit, SkipsCache, FloorOf, IInv, TypeOK, Version, NoEntry
  <2>3. ~tainted[u] => cache[u] >= FloorOf(f, u)
    BY <1>1, <2>2 DEF CacheHit, SkipsCache, FloorOf, IInv, StaleEntryWasOvertaken
  <2> HIDE DEF c
  <2>4. n \in Call /\ n.pc = "got" /\ n.fresh = f
        /\ n.ver = cache[u] /\ n.floor = FloorOf(f, u) /\ n.raced = tainted[u]
    BY <2>1, <2>2 DEF Call, Version
  <2>5. call' = [call EXCEPT ![w] = n]
    BY <1>1 DEF CacheHit, c
  <2> HIDE DEF n
  <2>6. CallOK(n)
    BY <2>2, <2>3, <2>4 DEF CallOK
  <2>7. QED
    BY <1>1, <2>4, <2>5, <2>6, OneCallMoves DEF CacheHit
<1>2. ASSUME NEW w \in Worker, NEW u \in Url, NEW f \in BOOLEAN, SendGet(w, u, f)
      PROVE  IInv'
  <2> DEFINE c == NewCall("getSent", u, f)
             n == [c EXCEPT !.floor = FloorOf(f, u)]
  <2>1. c \in Call /\ c.pc = "getSent" /\ c.url = u
    BY NewCallType DEF Phase
  <2>2. FloorOf(f, u) \in Nat /\ FloorOf(f, u) <= store[u]
    BY DEF FloorOf, IInv, TypeOK, NotAhead, Version
  <2> HIDE DEF c
  <2>3. n \in Call /\ n.pc = "getSent" /\ n.url = u /\ n.floor = FloorOf(f, u)
    BY <2>1, <2>2 DEF Call, Version
  <2>4. call' = [call EXCEPT ![w] = n]
    BY <1>2 DEF SendGet, c
  <2> HIDE DEF n
  <2>5. CallOK(n)
    BY <2>2, <2>3 DEF CallOK
  <2>6. QED
    BY <1>2, <2>3, <2>4, <2>5, OneCallMoves DEF SendGet
<1>3. ASSUME NEW w \in Worker, SendWrite(w)
      PROVE  IInv'
  <2> DEFINE n == [NoCall EXCEPT !.pc = "writeSent"]
  <2>1. n \in Call /\ n.pc = "writeSent"
    BY NoCallType DEF Call, Phase
  <2>2. CallOK(n)
    BY <2>1 DEF CallOK
  <2>3. QED
    BY <1>3, <2>1, <2>2, OneCallMoves DEF SendWrite
<1>4. ASSUME NEW w \in Worker, ServeGet(w)
      PROVE  IInv'
  <2> DEFINE c == call[w]
             n == [c EXCEPT !.pc = "getServed", !.ver = store[c.url]]
  <2>1. c \in Call /\ c.pc = "getSent" /\ c.floor <= store[c.url] /\ c.url \in Url
    BY <1>a, <1>4 DEF ServeGet, CallOK, Call
  <2>2. store[c.url] \in Nat /\ acked[c.url] \in Nat /\ acked[c.url] <= store[c.url]
    BY <2>1 DEF IInv, TypeOK, NotAhead, Version
  <2>3. call' = [call EXCEPT ![w] = n]
    BY <1>4 DEF ServeGet
  <2> HIDE DEF c
  <2>4. n \in Call /\ n.pc = "getServed" /\ n.ver = store[c.url]
        /\ n.url = c.url /\ n.floor = c.floor
    BY <2>1, <2>2 DEF Call, Version, Phase
  <2> HIDE DEF n
  <2>5. CallOK(n)
    BY <2>1, <2>2, <2>4 DEF CallOK
  <2>6. QED
    BY <1>4, <2>3, <2>4, <2>5, OneCallMoves DEF ServeGet
<1>5. ASSUME NEW w \in Worker, FinishGet(w)
      PROVE  IInv'
  <2> DEFINE c == call[w]
             n == [c EXCEPT !.pc = "got", !.attempts = 0]
             us == IF c.fresh THEN {c.url} ELSE {}
  <2>1. c \in Call /\ c.pc = "getServed" /\ c.url \in Url /\ c.ver \in Nat /\ c.raced \in BOOLEAN
    BY <1>a, <1>5 DEF FinishGet, Call, Version
  <2>2. /\ c.ver <= store[c.url] /\ c.ver >= c.floor
        /\ ~c.raced => c.ver >= acked[c.url]
    BY <1>a, <2>1 DEF CallOK
  <2>3. call' = Overtake(w, n, us)
    BY <1>5 DEF FinishGet
  <2>4. /\ cache' = [cache EXCEPT ![c.url] = c.ver]
        /\ tainted' = [tainted EXCEPT ![c.url] = c.raced]
        /\ acked' = IF c.fresh THEN [acked EXCEPT ![c.url] = Larger(acked[c.url], c.ver)]
                    ELSE acked
        /\ UNCHANGED store
    BY <1>5 DEF FinishGet
  <2> HIDE DEF c
  <2>a. 0 \in 0..RetryMax
    BY ConstantsAssumption
  <2>5. n \in Call /\ n.pc = "got" /\ n.ver = c.ver /\ n.floor = c.floor
    BY <2>1, <2>a DEF Call, Phase
  <2> HIDE DEF n
  <2>6. us \in SUBSET Url /\ (c.fresh => c.url \in us)
    BY <2>1
  <2> HIDE DEF us
  <2>7. \A u \in Url : acked'[u] = acked[u] \/ (u = c.url /\ c.fresh /\ acked'[u] = Larger(acked[u], c.ver))
    BY <2>1, <2>4 DEF IInv, TypeOK
  <2>8. \A u \in Url : acked[u] \in Nat /\ store[u] \in Nat /\ acked[u] <= store[u]
    BY DEF IInv, TypeOK, NotAhead, Version
  <2>9. TypeOK'
    <3>1. call' \in [Worker -> Call]
      BY <2>3, <2>5, <2>6, OvertakeEffect DEF IInv
    <3>2. acked' \in [Url -> Nat]
      BY <2>1, <2>4 DEF Larger, IInv, TypeOK, Version
    <3>3. QED
      BY <2>1, <2>4, <3>1, <3>2 DEF IInv, TypeOK, Version
  <2>10. NotAhead'
    <3>1. ASSUME NEW u \in Url PROVE acked'[u] <= store[u]
      BY <2>1, <2>2, <2>7, <2>8 DEF Larger
    <3>2. ASSUME NEW u \in Url PROVE cache'[u] <= store[u]
      BY <2>1, <2>2, <2>4 DEF IInv, TypeOK, NotAhead
    <3>3. QED
      BY <2>4, <3>1, <3>2 DEF NotAhead
  <2>11. StaleEntryWasOvertaken'
    <3>1. ASSUME NEW u \in Url, cache'[u] # NoEntry, ~tainted'[u]
          PROVE  cache'[u] >= acked'[u]
      <4>1. CASE u = c.url
        BY <2>1, <2>2, <2>4, <2>7, <2>8, <3>1, <4>1 DEF IInv, TypeOK, Larger
      <4>2. CASE u # c.url
        BY <2>1, <2>4, <2>7, <3>1, <4>2 DEF IInv, TypeOK, StaleEntryWasOvertaken
      <4>3. QED
        BY <4>1, <4>2
    <3>2. QED
      BY <3>1 DEF StaleEntryWasOvertaken
  <2>12. CallOK(call[w])'
    BY <2>2, <2>3, <2>5, <2>6, OvertakeEffect DEF IInv, CallOK
  <2>13. ASSUME NEW x \in Worker \ {w}
         PROVE  CallOK(call[x])'
    <3>1. /\ call'[x].pc = call[x].pc /\ call'[x].url = call[x].url
          /\ call'[x].ver = call[x].ver /\ call'[x].floor = call[x].floor
          /\ call'[x].fresh = call[x].fresh
          /\ call[x].pc # "getServed" => call'[x] = call[x]
          /\ call[x].raced => call'[x].raced
          /\ call[x].pc = "getServed" /\ call[x].url \in us => call'[x].raced
      BY <2>3, <2>5, <2>6, OvertakeEffect DEF IInv
    <3>2. call[x] \in Call /\ CallOK(call[x]) /\ call[x].url \in Url
      BY <1>a DEF Call
    <3>3. call[x].url \notin us => acked'[call[x].url] = acked[call[x].url]
      BY <2>6, <2>7, <3>2
    <3>4. QED
      BY <2>4, <3>1, <3>2, <3>3 DEF CallOK
  <2>14. QED
    BY <2>9, <2>10, <2>11, <2>12, <2>13 DEF IInv
<1>6. ASSUME NEW w \in Worker, NEW u \in Url, ApplyWrite(w, u)
      PROVE  IInv'
  <2> DEFINE c == call[w]
             n == [c EXCEPT !.pc = "writeApplied", !.url = u, !.ver = store[u] + 1]
  <2>1. call' = [call EXCEPT ![w] = n] /\ c \in Call
    BY <1>a, <1>6 DEF ApplyWrite
  <2>2. store' = [store EXCEPT ![u] = store[u] + 1] /\ UNCHANGED <<cache, acked, tainted>>
    BY <1>6 DEF ApplyWrite
  <2>3. store \in [Url -> Nat] /\ store' \in [Url -> Nat] /\ \A v \in Url : store[v] <= store'[v]
    BY <2>2 DEF IInv, TypeOK, Version
  <2> HIDE DEF c
  <2>a. store[u] + 1 \in Nat
    BY <2>3
  <2>4. n \in Call /\ n.pc = "writeApplied" /\ n.url = u /\ n.ver = store[u] + 1
    BY <2>1, <2>a DEF Call, Version, Phase
  <2> HIDE DEF n
  <2>5. call' \in [Worker -> Call] /\ call'[w] = n /\ \A x \in Worker \ {w} : call'[x] = call[x]
    BY <2>1, <2>4 DEF IInv, TypeOK
  <2>6. TypeOK' /\ NotAhead' /\ StaleEntryWasOvertaken'
    BY <2>2, <2>3, <2>5 DEF IInv, TypeOK, NotAhead, StaleEntryWasOvertaken, Version, NoEntry
  <2>7. CallOK(call[w])'
    BY <2>2, <2>3, <2>4, <2>5 DEF CallOK
  <2>8. ASSUME NEW x \in Worker \ {w} PROVE CallOK(call[x])'
    <3>1. call[x] \in Call /\ CallOK(call[x]) /\ call'[x] = call[x]
      BY <1>a, <2>5
    <3>2. call[x].url \in Url /\ call[x].ver \in Nat /\ call[x].floor \in Nat
      BY <3>1 DEF Call, Version
    <3>3. QED
      BY <2>2, <2>3, <3>1, <3>2 DEF CallOK
  <2>9. QED
    BY <2>6, <2>7, <2>8 DEF IInv
<1>7. ASSUME NEW w \in Worker, FinishWrite(w)
      PROVE  IInv'
  <2> DEFINE c == call[w]
  <2>1. c \in Call /\ c.pc = "writeApplied" /\ c.url \in Url /\ c.ver \in Nat
        /\ c.ver <= store[c.url]
    BY <1>a, <1>7 DEF FinishWrite, Call, Version, CallOK
  <2>2. /\ call' = Overtake(w, NoCall, Url)
        /\ cache' = [u \in Url |-> NoEntry]
        /\ tainted' = [u \in Url |-> FALSE]
        /\ acked' = [acked EXCEPT ![c.url] = Larger(acked[c.url], c.ver)]
        /\ UNCHANGED store
    BY <1>7 DEF FinishWrite
  <2> HIDE DEF c
  <2>3. /\ call' \in [Worker -> Call] /\ call'[w] = NoCall
        /\ \A x \in Worker \ {w} :
              /\ call'[x].pc = call[x].pc /\ call'[x].url = call[x].url
              /\ call'[x].ver = call[x].ver /\ call'[x].floor = call[x].floor
              /\ call[x].pc # "getServed" => call'[x] = call[x]
              /\ call[x].pc = "getServed" /\ call[x].url \in Url => call'[x].raced
    BY <2>2, NoCallType, OvertakeEffect DEF IInv
  <2>4. TypeOK'
    BY <2>1, <2>2, <2>3 DEF IInv, TypeOK, Version, NoEntry, Larger
  <2>5. NotAhead'
    BY <2>1, <2>2 DEF IInv, TypeOK, NotAhead, Version, NoEntry, Larger
  <2>6. StaleEntryWasOvertaken'
    BY <2>2 DEF StaleEntryWasOvertaken
  <2>7. ASSUME NEW x \in Worker PROVE CallOK(call[x])'
    <3>1. call[x] \in Call /\ CallOK(call[x]) /\ call[x].url \in Url
      BY <1>a DEF Call
    <3>2. CASE x = w
      BY <2>3, <3>2, NoCallType DEF CallOK
    <3>3. CASE x # w
      BY <2>2, <2>3, <3>1, <3>3 DEF CallOK
    <3>4. QED
      BY <3>2, <3>3
  <2>8. QED
    BY <2>4, <2>5, <2>6, <2>7 DEF IInv
<1>8. ASSUME NEW w \in Worker, Resend(w)
      PROVE  IInv'
  <2> DEFINE c == call[w]
             again == IF c.pc \in {"getSent", "getServed"}
                      THEN [c EXCEPT !.pc = "getSent", !.ver = 0, !.raced = FALSE]
                      ELSE [NoCall EXCEPT !.pc = "writeSent"]
             n == [again EXCEPT !.attempts = c.attempts + 1]
  <2>1. call' = [call EXCEPT ![w] = n]
    BY <1>8 DEF Resend
  <2>2. c \in Call /\ CallOK(c) /\ c.attempts \in 0..RetryMax /\ c.attempts < RetryMax
    BY <1>a, <1>8 DEF Resend, Call
  <2>3. c.pc = "getServed" => c.floor <= store[c.url]
    BY <2>2 DEF CallOK
  <2> HIDE DEF c
  <2>4. /\ again \in Call
        /\ \/ again.pc = "getSent" /\ again.floor <= store[again.url]
           \/ again.pc = "writeSent"
    <3>1. CASE c.pc \in {"getSent", "getServed"}
      <4> DEFINE d == [c EXCEPT !.pc = "getSent", !.ver = 0, !.raced = FALSE]
      <4>1. d \in Call /\ d.pc = "getSent" /\ d.floor = c.floor /\ d.url = c.url
        BY <2>2 DEF Call, Phase, Version
      <4>2. QED
        BY <2>2, <2>3, <3>1, <4>1 DEF CallOK
    <3>2. CASE c.pc \notin {"getSent", "getServed"}
      <4> DEFINE d == [NoCall EXCEPT !.pc = "writeSent"]
      <4>1. d \in Call /\ d.pc = "writeSent"
        BY NoCallType DEF Call, Phase
      <4>2. QED
        BY <3>2, <4>1
    <3>3. QED
      BY <3>1, <3>2
  <2> HIDE DEF again
  <2>5. c.attempts + 1 \in 0..RetryMax
    BY <2>2, ConstantsAssumption
  <2>6. n \in Call /\ n.pc = again.pc /\ n.floor = again.floor /\ n.url = again.url
    BY <2>4, <2>5 DEF Call
  <2> HIDE DEF n
  <2>7. CallOK(n)
    BY <2>4, <2>6 DEF CallOK
  <2>8. QED
    BY <1>8, <2>1, <2>6, <2>7, OneCallMoves DEF Resend
<1>9. ASSUME NEW w \in Worker, Fail(w)
      PROVE  IInv'
  <2>1. CallOK(NoCall)
    BY NoCallType DEF CallOK
  <2>2. QED
    BY <1>9, <2>1, NoCallType, OneCallMoves DEF Fail
<1>10. ASSUME NEW u \in Url, OtherWrite(u)
       PROVE  IInv'
  <2>1. store' = [store EXCEPT ![u] = store[u] + 1] /\ UNCHANGED <<cache, call, acked, tainted>>
    BY <1>10 DEF OtherWrite
  <2>2. store \in [Url -> Nat] /\ store' \in [Url -> Nat] /\ \A v \in Url : store[v] <= store'[v]
    BY <2>1 DEF IInv, TypeOK, Version
  <2>4. TypeOK' /\ NotAhead' /\ StaleEntryWasOvertaken'
    BY <2>1, <2>2 DEF IInv, TypeOK, NotAhead, StaleEntryWasOvertaken, Version, NoEntry
  <2>5. ASSUME NEW x \in Worker PROVE CallOK(call[x])'
    <3>1. call[x] \in Call /\ CallOK(call[x]) /\ call'[x] = call[x]
      BY <1>a, <2>1
    <3>2. call[x].url \in Url /\ call[x].ver \in Nat /\ call[x].floor \in Nat
      BY <3>1 DEF Call, Version
    <3>3. QED
      BY <2>1, <2>2, <3>1, <3>2 DEF CallOK
  <2>6. QED
    BY <2>4, <2>5 DEF IInv
<1>11. CASE UNCHANGED vars
  BY <1>11 DEF vars, IInv, TypeOK, NotAhead, StaleEntryWasOvertaken, CallOK
<1>12. QED
  BY <1>1, <1>2, <1>3, <1>4, <1>5, <1>6, <1>7, <1>8, <1>9, <1>10, <1>11
     DEF Next, Progress

\* The strengthened invariant holds in every reachable state.
THEOREM Invariance == Spec => []IInv
<1>1. QED
  BY InitIInv, StepIInv, PTL DEF Spec

\* Every variable keeps its type; re-sends stay within RetryMax.
THEOREM TypeCorrect == Spec => []TypeOK
<1>1. IInv => TypeOK
  BY DEF IInv
<1>2. QED
  BY <1>1, Invariance, PTL

\* A cache entry older than a finished write (or an answered fresh read) was
\* stored by a GET that the write overtook on the wire.  (doRequest, responseCache)
THEOREM StaleOnlyWhenOvertaken == Spec => []StaleEntryWasOvertaken
<1>1. IInv => StaleEntryWasOvertaken
  BY DEF IInv
<1>2. QED
  BY <1>1, Invariance, PTL

\* Reads that insist on the controller, and cached reads of entries that nothing
\* overtook, never return a version older than the one vouched for when they began.
THEOREM ReadsFresh == Spec => []ReadsNotOlderThanAcked
<1>1. IInv => ReadsNotOlderThanAcked
  BY DEF IInv, CallOK, ReadsNotOlderThanAcked
<1>2. QED
  BY <1>1, Invariance, PTL

(***************************************************************************)
(* doRequest and its response cache implement the reads of ListReads: each *)
(* step is a step of ListReads, or one that ListReads does not see.        *)
(***************************************************************************)

LEMMA CallsInOrder ==
    ASSUME IInv, NEW w \in Worker
    PROVE  call[w] \in Call /\ CallOK(call[w]) /\ call[w].url \in Url
BY DEF IInv, TypeOK, Call

\* What a call of each phase reads.
LEMMA ReadOfPhase ==
    ASSUME NEW c
    PROVE  /\ c.pc \in {"getSent", "getServed"} => ReadOf(c) = L!Reading(c.url, c.fresh, c.floor)
           /\ c.pc = "got" => ReadOf(c) = L!Returned(c.url, c.fresh, c.ver)
           /\ c.pc \in {"idle", "writeSent", "writeApplied"} => ReadOf(c) = L!None
BY DEF ReadOf, L!Reading, L!Returned, L!None

LEMMA ReadKinds ==
    ASSUME NEW u, NEW f, NEW v
    PROVE  /\ L!Reading(u, f, v).pc = "reading" /\ L!Reading(u, f, v).url = u
           /\ L!Reading(u, f, v).fresh = f /\ L!Reading(u, f, v).from = v
           /\ L!Returned(u, f, v).pc = "returned"
           /\ L!None.pc = "none"
BY DEF L!Reading, L!Returned, L!None

\* A worker without a request on the wire is not reading.
LEMMA ReadyIsNotReading ==
    ASSUME IInv, NEW w \in Worker, Ready(w)
    PROVE  Reads[w].pc # "reading"
<1> DEFINE c == call[w]
<1>1. c.pc \in {"idle", "got"}
  BY DEF Ready
<1>2. Reads[w] = ReadOf(c)
  BY DEF Reads
<1> HIDE DEF c
<1>3. ReadOf(c) = L!None \/ ReadOf(c) = L!Returned(c.url, c.fresh, c.ver)
  BY <1>1, ReadOfPhase
<1>4. QED
  BY <1>2, <1>3, ReadKinds

\* One worker's call moves: so does its read, and no other.
LEMMA OneReadMoves ==
    ASSUME IInv, NEW w \in Worker, NEW n, call' = [call EXCEPT ![w] = n]
    PROVE  Reads' = [Reads EXCEPT ![w] = ReadOf(n)]
<1>1. \A x \in Worker : call'[x] = IF x = w THEN n ELSE call[x]
  BY DEF IInv, TypeOK
<1>2. \A x \in Worker : ReadOf(call'[x]) = IF x = w THEN ReadOf(n) ELSE ReadOf(call[x])
  BY <1>1
<1>3. Reads' = [x \in Worker |-> ReadOf(call'[x])]
  BY DEF Reads
<1> DEFINE R(x) == ReadOf(call[x])
<1>4. Reads = [x \in Worker |-> R(x)]
  BY DEF Reads
<1>5. \A x \in Worker : ReadOf(call'[x]) = IF x = w THEN ReadOf(n) ELSE R(x)
  BY <1>2
<1> HIDE DEF R
<1>6. QED
  BY <1>3, <1>4, <1>5

\* What overtakes the calls of the others leaves their reads as they are.
LEMMA OvertakeMovesOneRead ==
    ASSUME IInv, NEW w \in Worker, NEW n \in Call, NEW us \in SUBSET Url,
           call' = Overtake(w, n, us)
    PROVE  Reads' = [Reads EXCEPT ![w] = ReadOf(n)]
<1>1. TypeOK
  BY DEF IInv
<1>2. call'[w] = n
  BY <1>1, OvertakeEffect
<1>3. ASSUME NEW x \in Worker \ {w} PROVE ReadOf(call'[x]) = ReadOf(call[x])
  <2> DEFINE c == call[x]
             d == call'[x]
  <2>1. c \in Call
    BY <1>1 DEF TypeOK
  <2>2. /\ d.pc = c.pc /\ d.url = c.url /\ d.ver = c.ver /\ d.floor = c.floor
        /\ d.fresh = c.fresh
    BY <1>1, OvertakeEffect
  <2> HIDE DEF c, d
  <2>3. ReadOf(d) = ReadOf(c)
    BY <2>2 DEF ReadOf
  <2>4. QED
    BY <2>3 DEF c, d
<1>4. Reads' = [x \in Worker |-> ReadOf(call'[x])]
  BY DEF Reads
<1> DEFINE R(x) == ReadOf(call[x])
<1>5. Reads = [x \in Worker |-> R(x)]
  BY DEF Reads
<1>6. \A x \in Worker : ReadOf(call'[x]) = IF x = w THEN ReadOf(n) ELSE R(x)
  BY <1>2, <1>3
<1> HIDE DEF R
<1>7. QED
  BY <1>4, <1>5, <1>6

\* Late answers are entries, so they stay while the cache and what is vouched for do.
LEMMA LateStays == UNCHANGED <<cache, acked>> => Late' = Late
BY DEF Late, LateEntry

LEMMA InitRefines == Init => L!Init
<1> SUFFICES ASSUME Init PROVE L!Init
  OBVIOUS
<1>1. Reads = [w \in Worker |-> L!None]
  BY NoCallType, ReadOfPhase DEF Reads, Init
<1>2. Late = [u \in Url |-> {}]
  BY DEF Late, LateEntry, Init
<1>3. QED
  BY <1>1, <1>2 DEF Init, L!Init

LEMMA StepRefines == IInv /\ [Next]_vars => [L!Next]_L!vars
<1> SUFFICES ASSUME IInv, [Next]_vars PROVE L!Next \/ UNCHANGED L!vars
  OBVIOUS
<1>1. ASSUME NEW w \in Worker, NEW u \in Url, NEW f \in BOOLEAN, CacheHit(w, u, f)
      PROVE  L!Recall(w, u)
  <2> DEFINE c == NewCall("got", u, f)
             n == [c EXCEPT !.ver = cache[u], !.floor = FloorOf(f, u), !.raced = tainted[u]]
  <2>1. c \in Call /\ c.pc = "got" /\ c.url = u /\ c.fresh = f
    BY NewCallType DEF Phase
  <2> HIDE DEF c
  <2>2. n.pc = "got" /\ n.url = u /\ n.fresh = f /\ n.ver = cache[u]
    BY <2>1 DEF Call
  <2>3. call' = [call EXCEPT ![w] = n] /\ UNCHANGED <<store, cache, acked>> /\ ~f
        /\ cache[u] # NoEntry /\ Ready(w)
    BY <1>1 DEF CacheHit, SkipsCache, c
  <2> HIDE DEF n
  <2>4. Reads' = [Reads EXCEPT ![w] = L!Returned(u, FALSE, cache[u])]
    <3>1. ReadOf(n) = L!Returned(u, FALSE, cache[u])
      BY <2>2, <2>3, ReadOfPhase
    <3>2. QED
      BY <2>3, <3>1, OneReadMoves
  <2>5. cache[u] \in (acked[u] .. store[u]) \cup Late[u]
    <3>1. cache[u] \in Nat /\ acked[u] \in Nat /\ store[u] \in Nat /\ cache[u] <= store[u]
      BY <2>3 DEF IInv, TypeOK, Version, NotAhead, NoEntry
    <3>2. CASE cache[u] < acked[u]
      BY <2>3, <3>2 DEF Late, LateEntry
    <3>3. CASE ~(cache[u] < acked[u])
      BY <3>1, <3>3
    <3>4. QED
      BY <3>2, <3>3
  <2>6. QED
    BY <2>3, <2>4, <2>5, ReadyIsNotReading, LateStays DEF L!Recall
<1>2. ASSUME NEW w \in Worker, NEW u \in Url, NEW f \in BOOLEAN, SendGet(w, u, f)
      PROVE  L!Begin(w, u, f)
  <2> DEFINE c == NewCall("getSent", u, f)
             n == [c EXCEPT !.floor = FloorOf(f, u)]
  <2>1. c \in Call /\ c.pc = "getSent" /\ c.url = u /\ c.fresh = f
    BY NewCallType DEF Phase
  <2> HIDE DEF c
  <2>2. n.pc = "getSent" /\ n.url = u /\ n.fresh = f /\ n.floor = FloorOf(f, u)
    BY <2>1 DEF Call
  <2>3. call' = [call EXCEPT ![w] = n] /\ UNCHANGED <<store, cache, acked>> /\ Ready(w)
    BY <1>2 DEF SendGet, c
  <2> HIDE DEF n
  <2>4. Reads' = [Reads EXCEPT ![w] = L!Reading(u, f, FloorOf(f, u))]
    <3>1. ReadOf(n) = L!Reading(u, f, FloorOf(f, u))
      BY <2>2, <2>3, ReadOfPhase
    <3>2. QED
      BY <2>3, <3>1, OneReadMoves
  <2>5. QED
    BY <2>3, <2>4, ReadyIsNotReading, LateStays DEF L!Begin, FloorOf
<1>3. ASSUME NEW w \in Worker, NEW n, call' = [call EXCEPT ![w] = n],
             UNCHANGED <<store, cache, acked>>,
             ReadOf(n) = L!None \/ ReadOf(n) = ReadOf(call[w])
      PROVE  L!Abandon(w) \/ UNCHANGED L!vars
  \* A worker that reads nothing more, or goes on as it was.
  <2>1. Reads' = [Reads EXCEPT ![w] = ReadOf(n)] /\ Late' = Late
    BY <1>3, OneReadMoves, LateStays
  <2> DEFINE R(x) == ReadOf(call[x])
  <2>2. Reads = [x \in Worker |-> R(x)] /\ R(w) = ReadOf(call[w])
    BY DEF Reads
  <2> HIDE DEF R
  <2>3. CASE ReadOf(n) = R(w)
    BY <1>3, <2>1, <2>2, <2>3 DEF L!vars
  <2>4. CASE ReadOf(n) = L!None /\ R(w) # L!None
    BY <1>3, <2>1, <2>2, <2>4 DEF L!Abandon
  <2>5. QED
    BY <1>3, <2>2, <2>3, <2>4
<1>4. ASSUME NEW w \in Worker, SendWrite(w)
      PROVE  L!Abandon(w) \/ UNCHANGED L!vars
  <2> DEFINE n == [NoCall EXCEPT !.pc = "writeSent"]
  <2>1. n.pc = "writeSent"
    BY NoCallType DEF Call
  <2>2. call' = [call EXCEPT ![w] = n] /\ UNCHANGED <<store, cache, acked>>
    BY <1>4 DEF SendWrite
  <2> HIDE DEF n
  <2>3. QED
    BY <1>3, <2>1, <2>2, ReadOfPhase
<1>5. ASSUME NEW w \in Worker, ServeGet(w)
      PROVE  L!Abandon(w) \/ UNCHANGED L!vars
  <2> DEFINE c == call[w]
             n == [c EXCEPT !.pc = "getServed", !.ver = store[c.url]]
  <2>1. c \in Call /\ c.pc = "getSent"
    BY <1>5, CallsInOrder DEF ServeGet
  <2>2. call' = [call EXCEPT ![w] = n] /\ UNCHANGED <<store, cache, acked>>
    BY <1>5 DEF ServeGet
  <2> HIDE DEF c
  <2>3. n.pc = "getServed" /\ n.url = c.url /\ n.fresh = c.fresh /\ n.floor = c.floor
    BY <2>1 DEF Call
  <2> HIDE DEF n
  <2>4. ReadOf(n) = ReadOf(c)
    BY <2>1, <2>3, ReadOfPhase
  <2>5. QED
    BY <1>3, <2>2, <2>4 DEF c
<1>6. ASSUME NEW w \in Worker, FinishGet(w)
      PROVE  L!Return(w)
  <2> DEFINE c == call[w]
             n == [c EXCEPT !.pc = "got", !.attempts = 0]
             us == IF c.fresh THEN {c.url} ELSE {}
  <2>1. c \in Call /\ c.pc = "getServed" /\ c.url \in Url /\ CallOK(c)
    BY <1>6, CallsInOrder DEF FinishGet
  <2>2. Reads[w] = ReadOf(c)
    BY DEF Reads
  <2>3. /\ call' = Overtake(w, n, us)
        /\ cache' = [cache EXCEPT ![c.url] = c.ver]
        /\ acked' = IF c.fresh THEN [acked EXCEPT ![c.url] = Larger(acked[c.url], c.ver)]
                    ELSE acked
        /\ UNCHANGED store
    BY <1>6 DEF FinishGet
  <2> HIDE DEF c
  <2>4. us \in SUBSET Url
    BY <2>1
  <2> HIDE DEF us
  <2>a. 0 \in 0..RetryMax
    BY ConstantsAssumption
  <2>5. n \in Call /\ n.pc = "got" /\ n.url = c.url /\ n.fresh = c.fresh /\ n.ver = c.ver
    BY <2>1, <2>a DEF Call, Phase
  <2> HIDE DEF n
  <2>6. Reads' = [Reads EXCEPT ![w] = L!Returned(c.url, c.fresh, c.ver)]
    BY <2>3, <2>4, <2>5, OvertakeMovesOneRead, ReadOfPhase
  <2>7. Reads[w] = L!Reading(c.url, c.fresh, c.floor)
    BY <2>1, <2>2, ReadOfPhase
  <2>8. c.ver \in Nat /\ c.floor \in Nat /\ c.floor <= c.ver /\ c.ver <= store[c.url]
        /\ store[c.url] \in Nat /\ acked[c.url] \in Nat
    BY <2>1 DEF CallOK, Call, Version, IInv, TypeOK
  <2>9. Late' = [Late EXCEPT ![c.url] = IF c.ver < acked[c.url] THEN {c.ver} ELSE {}]
    <3>1. ASSUME NEW u \in Url \ {c.url} PROVE LateEntry(u)' = LateEntry(u)
      BY <2>1, <2>3, <3>1 DEF LateEntry, IInv, TypeOK
    <3>2. ASSUME NEW u \in Url, u = c.url
          PROVE  LateEntry(u)' = IF c.ver < acked[u] THEN {c.ver} ELSE {}
      <4>1. cache'[u] = c.ver /\ c.ver # NoEntry
        BY <2>3, <2>8, <3>2 DEF NoEntry, IInv, TypeOK
      <4>2. acked'[u] = acked[u] \/ acked'[u] = Larger(acked[u], c.ver)
        BY <2>3, <3>2 DEF IInv, TypeOK
      <4>3. c.ver < acked'[u] <=> c.ver < acked[u]
        BY <2>8, <3>2, <4>2 DEF Larger
      <4>4. QED
        BY <4>1, <4>3 DEF LateEntry
    <3> DEFINE E(u) == LateEntry(u)
               F(u) == LateEntry(u)'
    <3>3. Late = [u \in Url |-> E(u)] /\ Late' = [u \in Url |-> F(u)]
      BY DEF Late
    <3>4. \A u \in Url \ {c.url} : F(u) = E(u)
      BY <3>1
    <3>5. \A u \in Url : u = c.url => F(u) = IF c.ver < acked[c.url] THEN {c.ver} ELSE {}
      BY <3>2
    <3> HIDE DEF E, F
    <3>6. QED
      BY <3>3, <3>4, <3>5
  <2>10. IF c.fresh THEN L!Vouch(c.url, c.ver) ELSE UNCHANGED acked
    <3>1. Larger(acked[c.url], c.ver) = IF c.ver > acked[c.url] THEN c.ver ELSE acked[c.url]
      BY <2>8 DEF Larger
    <3>2. QED
      BY <2>3, <3>1 DEF L!Vouch
  <2>11. QED
    <3> DEFINE r == L!Reading(c.url, c.fresh, c.floor)
    <3>1. /\ r.pc = "reading" /\ r.url = c.url /\ r.fresh = c.fresh /\ r.from = c.floor
          /\ Reads[w] = r
      BY <2>7, ReadKinds
    <3>2. c.ver \in r.from .. store[r.url]
      BY <2>8, <3>1
    <3> HIDE DEF r
    <3>3. QED
      BY <2>3, <2>6, <2>9, <2>10, <3>1, <3>2 DEF L!Return
<1>7. ASSUME NEW w \in Worker, NEW u \in Url, ApplyWrite(w, u)
      PROVE  L!Change(u)
  <2> DEFINE c == call[w]
             n == [c EXCEPT !.pc = "writeApplied", !.url = u, !.ver = store[u] + 1]
  <2>1. c \in Call /\ c.pc = "writeSent"
    BY <1>7, CallsInOrder DEF ApplyWrite
  <2>2. /\ call' = [call EXCEPT ![w] = n] /\ UNCHANGED <<cache, acked>>
        /\ store' = [store EXCEPT ![u] = @ + 1]
    BY <1>7 DEF ApplyWrite
  <2> HIDE DEF c
  <2>3. n.pc = "writeApplied"
    BY <2>1 DEF Call
  <2> HIDE DEF n
  <2>4. Reads' = [Reads EXCEPT ![w] = L!None]
    <3>1. ReadOf(n) = L!None
      BY <2>3, ReadOfPhase
    <3>2. QED
      BY <2>2, <3>1, OneReadMoves
  <2> DEFINE R(x) == ReadOf(call[x])
  <2>5. Reads = [x \in Worker |-> R(x)] /\ R(w) = ReadOf(c)
    BY DEF Reads, c
  <2> HIDE DEF R
  <2>6. R(w) = L!None
    BY <2>1, <2>5, ReadOfPhase
  <2>7. Reads' = Reads
    BY <2>4, <2>5, <2>6
  <2>8. QED
    BY <2>2, <2>7, LateStays DEF L!Change
<1>8. ASSUME NEW w \in Worker, FinishWrite(w)
      PROVE  \E u \in Url : L!FinishUpdate(u)
  <2> DEFINE c == call[w]
  <2>1. c \in Call /\ c.pc = "writeApplied" /\ c.url \in Url /\ CallOK(c)
    BY <1>8, CallsInOrder DEF FinishWrite
  <2>2. /\ call' = Overtake(w, NoCall, Url)
        /\ cache' = [u \in Url |-> NoEntry]
        /\ acked' = [acked EXCEPT ![c.url] = Larger(acked[c.url], c.ver)]
        /\ UNCHANGED store
    BY <1>8 DEF FinishWrite
  <2> HIDE DEF c
  <2>3. Reads' = [Reads EXCEPT ![w] = L!None]
    BY <2>2, NoCallType, OvertakeMovesOneRead, ReadOfPhase
  <2> DEFINE R(x) == ReadOf(call[x])
  <2>4. Reads = [x \in Worker |-> R(x)] /\ R(w) = ReadOf(c)
    BY DEF Reads, c
  <2> HIDE DEF R
  <2>5. R(w) = L!None
    BY <2>1, <2>4, ReadOfPhase
  <2>6. Reads' = Reads
    BY <2>3, <2>4, <2>5
  <2>7. Late' = [u \in Url |-> {}]
    BY <2>2 DEF Late, LateEntry
  <2>8. c.ver \in 1 .. store[c.url] /\ acked[c.url] \in Nat
    BY <2>1 DEF CallOK, Call, Version, IInv, TypeOK
  <2>9. L!Vouch(c.url, c.ver)
    <3>1. store[c.url] \in Nat
      BY <2>1 DEF IInv, TypeOK, Version
    <3>2. Larger(acked[c.url], c.ver) = IF c.ver > acked[c.url] THEN c.ver ELSE acked[c.url]
      BY <2>8, <3>1 DEF Larger
    <3>3. QED
      BY <2>2, <3>2 DEF L!Vouch
  <2>10. QED
    BY <2>1, <2>2, <2>6, <2>7, <2>8, <2>9 DEF L!FinishUpdate
<1>9. ASSUME NEW w \in Worker, Resend(w)
      PROVE  L!Abandon(w) \/ UNCHANGED L!vars
  <2> DEFINE c == call[w]
             again == IF c.pc \in {"getSent", "getServed"}
                      THEN [c EXCEPT !.pc = "getSent", !.ver = 0, !.raced = FALSE]
                      ELSE [NoCall EXCEPT !.pc = "writeSent"]
             n == [again EXCEPT !.attempts = c.attempts + 1]
  <2>1. call' = [call EXCEPT ![w] = n] /\ UNCHANGED <<store, cache, acked>>
    BY <1>9 DEF Resend
  <2>2. c \in Call
    BY CallsInOrder
  <2> HIDE DEF c
  <2>3. CASE c.pc \in {"getSent", "getServed"}
    <3> DEFINE d == [c EXCEPT !.pc = "getSent", !.ver = 0, !.raced = FALSE]
               m == [d EXCEPT !.attempts = c.attempts + 1]
    <3>1. /\ d \in [DOMAIN c -> {d[x] : x \in DOMAIN c}] /\ DOMAIN d = DOMAIN c
          /\ d.pc = "getSent" /\ d.url = c.url /\ d.fresh = c.fresh /\ d.floor = c.floor
      BY <2>2 DEF Call
    <3>2. n = m
      BY <2>3
    <3> HIDE DEF d, n
    <3>3. m.pc = "getSent" /\ m.url = c.url /\ m.fresh = c.fresh /\ m.floor = c.floor
      BY <3>1
    <3> HIDE DEF m
    <3>4. ReadOf(n) = ReadOf(c)
      BY <2>3, <3>2, <3>3, ReadOfPhase
    <3>5. QED
      BY <1>3, <2>1, <3>4 DEF c
  <2>4. CASE c.pc \notin {"getSent", "getServed"}
    <3> DEFINE d == [NoCall EXCEPT !.pc = "writeSent"]
               m == [d EXCEPT !.attempts = c.attempts + 1]
    <3>1. d \in Call /\ d.pc = "writeSent"
      BY NoCallType DEF Call, Phase
    <3>2. n = m
      BY <2>4
    <3> HIDE DEF d, n
    <3>3. m.pc = "writeSent"
      BY <3>1 DEF Call
    <3> HIDE DEF m
    <3>4. ReadOf(n) = L!None
      BY <3>2, <3>3, ReadOfPhase
    <3>5. QED
      BY <1>3, <2>1, <3>4
  <2>5. QED
    BY <2>3, <2>4
<1>10. ASSUME NEW w \in Worker, call' = [call EXCEPT ![w] = NoCall],
              UNCHANGED <<store, cache, acked>>
       PROVE  L!Abandon(w) \/ UNCHANGED L!vars
  BY <1>3, <1>10, NoCallType, ReadOfPhase
<1>11. ASSUME NEW u \in Url, OtherWrite(u)
       PROVE  L!Change(u)
  <2>1. Reads' = Reads /\ Late' = Late
    BY <1>11, LateStays DEF OtherWrite, Reads
  <2>2. QED
    BY <1>11, <2>1 DEF OtherWrite, L!Change
<1>12. CASE UNCHANGED vars
  <2>1. Reads' = Reads /\ Late' = Late
    BY <1>12, LateStays DEF vars, Reads
  <2>2. QED
    BY <1>12, <2>1 DEF vars, L!vars
<1>13. CASE Next
  <2>1. \/ \E w \in Worker, u \in Url, f \in BOOLEAN : CacheHit(w, u, f)
        \/ \E w \in Worker, u \in Url, f \in BOOLEAN : SendGet(w, u, f)
        \/ \E w \in Worker : SendWrite(w) \/ ServeGet(w) \/ FinishGet(w)
        \/ \E w \in Worker, u \in Url : ApplyWrite(w, u)
        \/ \E w \in Worker : FinishWrite(w) \/ Resend(w) \/ Fail(w)
        \/ \E u \in Url : OtherWrite(u)
    BY <1>13 DEF Next, Progress
  <2>2. \A w \in Worker : Fail(w) => L!Abandon(w) \/ UNCHANGED L!vars
    BY <1>10 DEF Fail
  <2>3. QED
    BY <2>1, <2>2, <1>1, <1>2, <1>4, <1>5, <1>6, <1>7, <1>8, <1>9, <1>11 DEF L!Next
<1>14. QED
  BY <1>12, <1>13

\* Every behaviour of the helper with the cache on is one of ListReads: a read returns a
\* version the list had since it began, or one no older than the newest vouched for; only
\* a GET that a write overtook leaves a late answer, and the next write ends it.
\* (doRequest, responseCache)
THEOREM Refinement == Spec => ImplementsListReads
<1>1. Spec => []IInv
  BY Invariance
<1>2. QED
  BY <1>1, InitRefines, StepRefines, PTL DEF Spec, ImplementsListReads, L!Spec
(***************************************************************************)
(* PortProfile, which lists networks through the cache: tagged networks    *)
(* stay on the profile and created profiles stay in the state, for any     *)
(* number of networks and with or without the cache.                       *)
(***************************************************************************)

LEMMA ListedType == ProfileTypeOK => Listed \subseteq Net
BY DEF ProfileTypeOK, Listed

LEMMA SentType ==
    ASSUME ProfileTypeOK
    PROVE  /\ ExcludedFromTagged(lan, config) \in SUBSET Net
           /\ Stored(ExcludedFromTagged(lan, config)) \in SUBSET Net
           /\ profile # NoProfile => Stored(profile) \in SUBSET Net
BY DEF ProfileTypeOK, ExcludedFromTagged, Stored, TaggedFromExcluded

LEMMA ProfileTypeStep == ProfileTypeOK /\ [ProfileNext]_profileVars => ProfileTypeOK'
<1> SUFFICES ASSUME ProfileTypeOK, [ProfileNext]_profileVars PROVE ProfileTypeOK'
  OBVIOUS
<1> USE DEF ProfileTypeOK
<1>1. ASSUME NEW n \in Net, CreateNetwork(n) PROVE ProfileTypeOK'
  BY <1>1 DEF CreateNetwork, lists, Forget
<1>2. ASSUME NEW n \in Net, Job(n) PROVE ProfileTypeOK'
  BY <1>2 DEF Job, lists, Forget
<1>3. ASSUME NEW n \in Net, Age(n) PROVE ProfileTypeOK'
  BY <1>3 DEF Age, lists, Forget
<1>4. ASSUME NEW n \in Net, DeleteNetwork(n) PROVE ProfileTypeOK'
  BY <1>4 DEF DeleteNetwork, lists, Forget
<1>5. ASSUME NEW tagged \in SUBSET nets, Configure(tagged) PROVE ProfileTypeOK'
  BY <1>5 DEF Configure, network, lists, Forget
<1>6. CASE PlanDestroy
  BY <1>6 DEF PlanDestroy, network, lists, Forget
<1>7. CASE Restart
  BY <1>7 DEF Restart, network, lists, Forget
<1>8. CASE Create \/ Update \/ Read
  BY <1>8 DEF Create, Update, Read, Begin, network, lists, Forget
<1>9. CASE Delete
  BY <1>9 DEF Delete, network, lists, Forget
<1>10. CASE List
  BY <1>10, ListedType DEF List, CacheList, CanTag, network, lists, Forget
<1>11. CASE Write
  <2>1. CASE AnyFresh(config)
    <3>1. state' \in (SUBSET Net) \cup {Untracked}
      BY <2>1, <1>11, SentType DEF Write, CreatedState
    <3> QED BY <3>1, <2>1, <1>11, SentType DEF Write, network, lists, Forget
  <2>2. CASE ~AnyFresh(config)
    BY <2>2, <1>11, SentType DEF Write, Finish, network, lists, Forget
  <2> QED BY <2>1, <2>2
<1>12. CASE Wait
  BY <1>12 DEF Wait, network, lists, Forget
<1>13. CASE Check
  BY <1>13, SentType DEF Check, Finish, network, lists, Forget
<1>14. CASE Rewrite
  BY <1>14, SentType DEF Rewrite, Finish, network, lists, Forget
<1>15. CASE ReadProfile \/ ListForRead
  <2>1. CASE ReadProfile
    BY <2>1 DEF ReadProfile, network, lists, Forget
  <2>2. CASE ListForRead
    <3>1. state' \in SUBSET Net
      BY <2>2, ListedType DEF ListForRead, TaggedFromExcluded
    <3> QED BY <3>1, <2>2, ListedType DEF ListForRead, CacheList, network, lists, Forget
  <2> QED BY <2>1, <2>2, <1>15
<1>16. CASE Fails
  BY <1>16, SentType DEF Fails, network, lists, Forget
<1>17. CASE RemoveProfile
  BY <1>17 DEF RemoveProfile, network, lists, Forget
<1>18. CASE OthersList
  BY <1>18 DEF OthersList, network, lists
<1>19. CASE UNCHANGED profileVars
  BY <1>19 DEF profileVars, network, lists
<1> QED
  BY <1>1, <1>2, <1>3, <1>4, <1>5, <1>6, <1>7, <1>8, <1>9, <1>10, <1>11, <1>12, <1>13,
     <1>14, <1>15, <1>16, <1>17, <1>18, <1>19 DEF ProfileNext, Step

\* The networks, the list the operation works on and the state keep their types,
\* and a write is only sent for networks that were listed.
THEOREM ProfileTypeCorrect == ProfileSpec => []ProfileTypeOK
<1>1. ProfileInit => ProfileTypeOK
  BY NativeAssumption DEF ProfileInit, ProfileTypeOK
<1> QED BY <1>1, ProfileTypeStep, PTL DEF ProfileSpec

\* The networks the profile tags exist, and no job is left that could take a tagged
\* network off a profile that was written and, if need be, checked.
StickInv ==
    /\ config \subseteq nets
    /\ applied => /\ profile # NoProfile
                  /\ config \cap profile = {}
                  /\ config \cap pending = {}
    /\ pc = "wait" => config \cap pending \subseteq waiting
    /\ pc \in {"check", "rewrite"} => config \cap pending = {}

\* What a write sends is not NoProfile and excludes no tagged network.
LEMMA SentKeepsTagged ==
    ASSUME ProfileTypeOK
    PROVE  /\ ExcludedFromTagged(lan, config) # NoProfile
           /\ config \cap ExcludedFromTagged(lan, config) = {}
BY SentType, SentinelAssumption DEF ExcludedFromTagged

LEMMA StickStep == ProfileTypeOK /\ StickInv /\ [ProfileNext]_profileVars => StickInv'
<1> SUFFICES ASSUME ProfileTypeOK, StickInv, [ProfileNext]_profileVars PROVE StickInv'
  OBVIOUS
<1> USE DEF StickInv
<1>1. ASSUME NEW n \in Net, CreateNetwork(n) PROVE StickInv'
  BY <1>1 DEF CreateNetwork, ProfileTypeOK, lists, Forget
<1>2. ASSUME NEW n \in Net, Job(n) PROVE StickInv'
  <2>1. profile # NoProfile => profile' # NoProfile
    BY <1>2, SentinelAssumption DEF Job, ProfileTypeOK
  <2> QED BY <2>1, <1>2 DEF Job, lists, Forget
<1>3. ASSUME NEW n \in Net, Age(n) PROVE StickInv'
  BY <1>3 DEF Age, lists, Forget
<1>4. ASSUME NEW n \in Net, DeleteNetwork(n) PROVE StickInv'
  <2>1. profile # NoProfile => profile' # NoProfile
    BY <1>4, SentinelAssumption DEF DeleteNetwork, ProfileTypeOK
  <2> QED BY <2>1, <1>4 DEF DeleteNetwork, lists, Forget
<1>5. ASSUME NEW tagged \in SUBSET nets, Configure(tagged) PROVE StickInv'
  BY <1>5 DEF Configure, network, lists, Forget
<1>6. CASE PlanDestroy
  BY <1>6 DEF PlanDestroy, network, lists, Forget
<1>7. CASE Restart
  BY <1>7 DEF Restart, network, lists, Forget
<1>8. CASE Create \/ Update \/ Read
  BY <1>8 DEF Create, Update, Read, Begin, network, lists, Forget
<1>9. CASE Delete
  BY <1>9 DEF Delete, network, lists, Forget
<1>10. CASE List
  BY <1>10 DEF List, network, lists, Forget
<1>11. CASE Write
  <2>1. CASE AnyFresh(config)
    BY <2>1, <1>11, SentKeepsTagged DEF Write, network, lists, Forget
  <2>2. CASE ~AnyFresh(config)
    <3>1. config \cap pending = {}
      BY <2>2 DEF AnyFresh, ProfileTypeOK
    <3> QED BY <3>1, <2>2, <1>11, SentKeepsTagged DEF Write, Finish, network, lists, Forget
  <2> QED BY <2>1, <2>2
<1>12. CASE Wait
  BY <1>12 DEF Wait, network, lists, Forget
<1>13. CASE Check
  BY <1>13 DEF Check, Finish, network, lists, Forget
<1>14. CASE Rewrite
  BY <1>14, SentKeepsTagged DEF Rewrite, Finish, network, lists, Forget
<1>15. CASE ReadProfile \/ ListForRead
  BY <1>15 DEF ReadProfile, ListForRead, network, lists, Forget
<1>16. CASE Fails
  BY <1>16, SentKeepsTagged DEF Fails, network, lists, Forget
<1>17. CASE RemoveProfile
  BY <1>17 DEF RemoveProfile, network, lists, Forget
<1>18. CASE OthersList
  BY <1>18 DEF OthersList, network, lists
<1>19. CASE UNCHANGED profileVars
  BY <1>19 DEF profileVars, network, lists
<1> QED
  BY <1>1, <1>2, <1>3, <1>4, <1>5, <1>6, <1>7, <1>8, <1>9, <1>10, <1>11, <1>12, <1>13,
     <1>14, <1>15, <1>16, <1>17, <1>18, <1>19 DEF ProfileNext, Step

\* After a create or update and the controller's jobs, every tagged network is on
\* the profile.
THEOREM TagsStick == ProfileSpec => []TaggedNetworksStick
<1>1. ProfileInit => StickInv
  BY DEF ProfileInit, StickInv
<1>2. StickInv => TaggedNetworksStick
  BY DEF StickInv, TaggedNetworksStick
<1> QED BY <1>1, <1>2, StickStep, ProfileTypeCorrect, PTL DEF ProfileSpec

\* A profile that exists and was not lost is in the state, at every step of the
\* operation; everything but the start of a create has a profile in the state, and no
\* cached list lacks a profile that exists.
TrackInv ==
    /\ ~lost /\ seen = NoProfile => profile = NoProfile
    /\ ~lost /\ profile # NoProfile => state # Untracked
    /\ pc \in {"read", "listForRead", "wait", "check", "rewrite"} => state # Untracked
    /\ pc # "idle" /\ kind = "update" => state # Untracked

\* What the resource stores is a list of networks, which Untracked is not.
LEMMA StoredIsTracked ==
    ASSUME ProfileTypeOK
    PROVE  /\ \A excluded : Stored(excluded) # Untracked
           /\ \A excluded : TaggedFromExcluded(Listed, excluded) # Untracked
BY ListedType, SentinelAssumption DEF ProfileTypeOK, Stored, TaggedFromExcluded

LEMMA TrackStep == ProfileTypeOK /\ TrackInv /\ [ProfileNext]_profileVars => TrackInv'
<1> SUFFICES ASSUME ProfileTypeOK, TrackInv, [ProfileNext]_profileVars PROVE TrackInv'
  OBVIOUS
<1> USE SentinelAssumption DEF TrackInv
<1>1. ASSUME NEW n \in Net, CreateNetwork(n) PROVE TrackInv'
  BY <1>1 DEF CreateNetwork, lists, Forget
<1>2. ASSUME NEW n \in Net, Job(n) PROVE TrackInv'
  BY <1>2 DEF Job, lists, Forget
<1>3. ASSUME NEW n \in Net, Age(n) PROVE TrackInv'
  BY <1>3 DEF Age, lists, Forget
<1>4. ASSUME NEW n \in Net, DeleteNetwork(n) PROVE TrackInv'
  BY <1>4 DEF DeleteNetwork, lists, Forget
<1>5. ASSUME NEW tagged \in SUBSET nets, Configure(tagged) PROVE TrackInv'
  BY <1>5 DEF Configure, network, lists, Forget
<1>6. CASE PlanDestroy \/ Restart
  BY <1>6 DEF PlanDestroy, Restart, network, lists, Forget
<1>7. CASE Create \/ Update \/ Read
  BY <1>7 DEF Create, Update, Read, Begin, network, lists, Forget
<1>8. CASE Delete
  BY <1>8 DEF Delete, network, lists, Forget
<1>9. CASE List
  BY <1>9 DEF List, CacheList, network
<1>10. CASE Write
  <2>1. kind \in {"create", "update"}
    BY DEF ProfileTypeOK
  <2>2. CASE AnyFresh(config)
    BY <2>1, <2>2, <1>10, StoredIsTracked DEF Write, CreatedState, network, lists, Forget
  <2>3. CASE ~AnyFresh(config)
    BY <2>3, <1>10, StoredIsTracked DEF Write, Finish, network, lists, Forget
  <2> QED BY <2>2, <2>3
<1>11. CASE Wait
  BY <1>11 DEF Wait, network, lists, Forget
<1>12. CASE Check
  BY <1>12, StoredIsTracked DEF Check, Finish, network, lists, Forget
<1>13. CASE Rewrite
  BY <1>13, StoredIsTracked DEF Rewrite, Finish, network, lists, Forget
<1>14. CASE ReadProfile \/ ListForRead
  <2>1. CASE ReadProfile
    BY <2>1 DEF ReadProfile, network
  <2>2. CASE ListForRead
    <3>1. state' # Untracked /\ pc' = "idle" /\ UNCHANGED <<profile, lost, seen, kind>>
      BY <2>2, StoredIsTracked DEF ListForRead, CacheList
    <3> QED BY <3>1
  <2> QED BY <2>1, <2>2, <1>14
<1>15. CASE Fails
  <2>1. kind \in {"create", "update"}
    BY DEF ProfileTypeOK
  <2>2. CASE UNCHANGED <<profile, lost>>
    BY <2>2, <1>15 DEF Fails, network, lists, Forget
  <2>3. CASE ~UNCHANGED <<profile, lost>>
    BY <2>1, <2>3, <1>15 DEF Fails, network, lists, Forget
  <2> QED BY <2>2, <2>3
<1>16. CASE RemoveProfile
  BY <1>16 DEF RemoveProfile, network, lists, Forget
<1>17. CASE OthersList
  BY <1>17 DEF OthersList, network, lists
<1>18. CASE UNCHANGED profileVars
  BY <1>18 DEF profileVars, network, lists
<1> QED
  BY <1>1, <1>2, <1>3, <1>4, <1>5, <1>6, <1>7, <1>8, <1>9, <1>10, <1>11, <1>12, <1>13,
     <1>14, <1>15, <1>16, <1>17, <1>18 DEF ProfileNext, Step

\* A profile that Terraform created is in the state whenever the operation is over,
\* unless the answer to its POST was lost.
THEOREM ProfileTracked == ProfileSpec => []CreatedProfileIsTracked
<1>1. ProfileInit => TrackInv
  BY DEF ProfileInit, TrackInv
<1>2. TrackInv => CreatedProfileIsTracked
  BY DEF TrackInv, CreatedProfileIsTracked
<1> QED BY <1>1, <1>2, TrackStep, ProfileTypeCorrect, PTL DEF ProfileSpec
================================================================================

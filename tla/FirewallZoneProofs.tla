--------------------------- MODULE FirewallZoneProofs ---------------------------
(***************************************************************************)
(* What an apply of firewall zones can rely on, for every set of zones and *)
(* networks and every number of rounds: without the cache a verified       *)
(* update took effect, and an apply in which no two writes met leaves      *)
(* every zone as planned.                                                  *)
(***************************************************************************)
EXTENDS FirewallZone, TLAPS

Over == {"done", "failed", "refreshed"}

\* TypeOK, in the parts that different steps disturb.
Configs == UNION {[D -> (SUBSET Net) \cup {Unknown}] : D \in SUBSET Zone}
ListsOK ==
    /\ zones \in Lists /\ state \in Lists /\ config \in Configs
    /\ cached \in Lists \cup {NoList}
FlagsOK == caching \in BOOLEAN /\ overlap \in BOOLEAN /\ held \in [Zone -> BOOLEAN]
OpsOK == op \in [Zone -> Op]

\* An operation under way has a round left, and the list it works from.
OpOK(z) ==
    /\ op[z].pc \in {"begun", "fetched"} => op[z].snap \in Lists
    /\ op[z].pc \notin Over => op[z].attempt < MaxAttempts
    /\ op[z].outcome # "none" => op[z].pc \in {"done", "refreshed"}

\* While the zone is read back, whoever sees it as wanted sees what was there.
ReadBackOK(z) ==
    /\ op[z].pc \in {"verify", "fetched"} /\ HasWanted(z) => held[z]
    /\ op[z].pc = "fetched" /\ z \in DOMAIN op[z].snap /\ op[z].snap[z] = op[z].want => held[z]
    /\ ~caching /\ Verified(z) => held[z]

\* An operation works for the plan.
Intended(z) ==
    op[z].pc # "idle" =>
        IF op[z].kind = "delete" THEN z \notin DOMAIN config /\ op[z].want = {}
        ELSE z \in DOMAIN config /\ (PlanIsFixed => op[z].want = config[z])

\* A write that meets no other works from the list as it is.
Alone(z) ==
    ~overlap /\ At(z, "begun") =>
        /\ op[z].snap = zones
        /\ \A y \in Zone : At(y, "begun") => y = z

\* Once written, and before if nothing is planned to change, a zone is as planned.
Quiet == PlanIsFixed /\ Disjoint(config) /\ ~overlap
InForce(z) == z \in DOMAIN zones /\ zones[z] = config[z]
HasWritten(z) == op[z].pc \in {"committed", "verify", "fetched", "done"} \/ op[z].put
SettledOK(z) ==
    Quiet /\ z \in DOMAIN config =>
        /\ HasWritten(z) => InForce(z)
        /\ At(z, "idle") /\ z \in DOMAIN state /\ config[z] = state[z] => InForce(z)

CacheOff == ~caching => cached = NoList

ZoneOK(z) == OpOK(z) /\ ReadBackOK(z) /\ Intended(z) /\ Alone(z) /\ SettledOK(z)

IInv ==
    /\ ListsOK
    /\ FlagsOK
    /\ OpsOK
    /\ CacheOff
    /\ \A z \in Zone : ZoneOK(z)

LEMMA TypeParts == TypeOK <=> ListsOK /\ FlagsOK /\ OpsOK
BY DEF TypeOK, ListsOK, FlagsOK, OpsOK, Configs

LEMMA ListType ==
    ASSUME NEW l \in Lists
    PROVE  DOMAIN l \in SUBSET Zone /\ l \in [DOMAIN l -> SUBSET Net]
BY DEF Lists

LEMMA MakeList ==
    ASSUME NEW D \in SUBSET Zone, NEW f \in [D -> SUBSET Net]
    PROVE  f \in Lists
BY DEF Lists

\* Planned sets of networks are sets of networks, unless left to the controller.
LEMMA ConfigType ==
    ASSUME ListsOK
    PROVE  /\ DOMAIN config \in SUBSET Zone
           /\ \A z \in DOMAIN config : config[z] \in (SUBSET Net) \cup {Unknown}
BY DEF ListsOK, Configs

LEMMA OpMoves ==
    ASSUME OpsOK, NEW z \in Zone, NEW o \in Op, Move(z, o)
    PROVE  OpsOK' /\ op'[z] = o /\ \A y \in Zone \ {z} : op'[y] = op[y]
BY DEF OpsOK, Move

LEMMA OpFields ==
    ASSUME OpsOK, NEW z \in Zone
    PROVE  /\ op[z] \in Op /\ op[z].pc \in Phase /\ op[z].kind \in Kind
           /\ op[z].want \in SUBSET Net /\ op[z].attempt \in 0..MaxAttempts
           /\ op[z].put \in BOOLEAN /\ op[z].outcome \in Outcome
           /\ op[z].snap \in Lists \cup {NoList}
<1>1. op[z] \in Op
  BY DEF OpsOK
<1>2. QED
  BY <1>1 DEF Op

LEMMA TrackType ==
    ASSUME ListsOK, OpsOK, NEW z \in Zone, NEW s, s = Track(z)
    PROVE  s \in Lists /\ \A y \in Zone \ {z} :
               (y \in DOMAIN s <=> y \in DOMAIN state) /\ (y \in DOMAIN s => s[y] = state[y])
<1> DEFINE D == DOMAIN state \cup {z}
<1>1. DOMAIN state \in SUBSET Zone /\ state \in [DOMAIN state -> SUBSET Net]
  BY ListType DEF ListsOK
<1>2. s \in [D -> SUBSET Net]
  BY <1>1, OpFields DEF Track
<1>3. D \in SUBSET Zone
  BY <1>1
<1>4. s \in Lists
  BY <1>2, <1>3, MakeList
<1>5. QED
  BY <1>4 DEF Track

LEMMA UntrackType ==
    ASSUME ListsOK, OpsOK, NEW z \in Zone, NEW s, s = Untrack(z)
    PROVE  s \in Lists /\ \A y \in Zone \ {z} :
               (y \in DOMAIN s <=> y \in DOMAIN state) /\ (y \in DOMAIN s => s[y] = state[y])
<1> DEFINE D == DOMAIN state \ {z}
<1>1. DOMAIN state \in SUBSET Zone /\ state \in [DOMAIN state -> SUBSET Net]
  BY ListType DEF ListsOK
<1>2. s \in [D -> SUBSET Net] /\ D \in SUBSET Zone
  BY <1>1 DEF Untrack
<1>3. s \in Lists
  BY <1>2, MakeList
<1>4. QED
  BY <1>3 DEF Untrack

\* Another round of the verification loop.
LEMMA RoundType ==
    ASSUME IInv, NEW z \in Zone, op[z].pc \notin Over, NEW n, n = AnotherRound(z)
    PROVE  /\ n \in Op /\ n.pc \in {"verify", "done"} /\ n.snap = NoList
           /\ n.kind = op[z].kind /\ n.want = op[z].want /\ n.put = op[z].put
           /\ n.pc = "verify" => n.attempt < MaxAttempts /\ n.outcome = op[z].outcome
           /\ n.pc = "done" => n.outcome = "gaveUp"
<1> DEFINE c == op[z]
           k == op[z].attempt + 1
           a == [c EXCEPT !.pc = "verify", !.attempt = k, !.snap = NoList]
           b == [c EXCEPT !.pc = "done", !.attempt = k, !.snap = NoList, !.outcome = "gaveUp"]
<1>1. c \in Op /\ k \in 0..MaxAttempts
  BY OpFields, AttemptsAssumption DEF IInv, ZoneOK, OpOK
<1>2. n = IF k < MaxAttempts THEN a ELSE b
  BY DEF AnotherRound
<1> SUFFICES /\ n \in Op /\ n.pc \in {"verify", "done"} /\ n.snap = NoList
             /\ n.kind = c.kind /\ n.want = c.want /\ n.put = c.put
             /\ n.pc = "verify" => n.attempt < MaxAttempts /\ n.outcome = c.outcome
             /\ n.pc = "done" => n.outcome = "gaveUp"
  OBVIOUS
<1> HIDE DEF c, k
<1>3. /\ a \in Op /\ a.pc = "verify" /\ a.snap = NoList /\ a.attempt = k
      /\ a.kind = c.kind /\ a.want = c.want /\ a.put = c.put /\ a.outcome = c.outcome
  BY <1>1 DEF Op, Phase
<1>4. /\ b \in Op /\ b.pc = "done" /\ b.snap = NoList
      /\ b.kind = c.kind /\ b.want = c.want /\ b.put = c.put /\ b.outcome = "gaveUp"
  BY <1>1 DEF Op, Phase, Outcome
<1> HIDE DEF a, b
<1>5. QED
  BY <1>2, <1>3, <1>4

LEMMA InitIInv == Init => IInv
<1> SUFFICES ASSUME Init PROVE IInv
  OBVIOUS
<1>1. ListsOK
  <2>1. PICK D \in SUBSET DOMAIN zones : state = [z \in D |-> zones[z]]
    BY DEF Init
  <2>2. DOMAIN zones \in SUBSET Zone /\ zones \in [DOMAIN zones -> SUBSET Net]
    BY ListType DEF Init
  <2>3. D \in SUBSET Zone /\ state \in [D -> SUBSET Net]
    BY <2>1, <2>2
  <2>4. state \in Lists
    BY <2>3, MakeList
  <2>5. QED
    BY <2>4 DEF Init, ListsOK, Configs
<1>2. FlagsOK /\ CacheOff
  BY DEF Init, FlagsOK, CacheOff
<1>3. ASSUME NEW z \in Zone
      PROVE  /\ op[z] \in Op /\ op[z].pc = "idle" /\ op[z].attempt = 0
             /\ op[z].outcome = "none" /\ op[z].put = FALSE
  <2> DEFINE o == [pc |-> "idle", kind |-> "update", want |-> {},
                   snap |-> NoList, attempt |-> 0, put |-> FALSE, outcome |-> "none"]
  <2>1. o \in Op
    BY AttemptsAssumption DEF Op, Phase, Kind, Outcome
  <2>2. op[z] = o
    BY DEF Init
  <2>3. QED
    BY <2>1, <2>2
<1>4. OpsOK
  BY <1>3 DEF Init, OpsOK
<1>5. ASSUME NEW z \in Zone PROVE ZoneOK(z)
  <2>a. OpOK(z)
    <3>1. 0 < MaxAttempts
      BY AttemptsAssumption
    <3>2. QED
      BY <1>3, <3>1 DEF OpOK, Over
  <2>1. ReadBackOK(z) /\ Intended(z) /\ Alone(z)
    BY <1>3 DEF ReadBackOK, Verified, Intended, Alone, At
  <2>2. SettledOK(z)
    BY <1>3 DEF SettledOK, HasWritten, InForce, Init
  <2>3. QED
    BY <2>a, <2>1, <2>2 DEF ZoneOK
<1>6. QED
  BY <1>1, <1>2, <1>4, <1>5 DEF IInv

\* A step of one zone's operation that leaves the controller's list alone.
LEMMA OneZoneMoves ==
    ASSUME IInv, NEW z \in Zone, NEW n \in Op, Move(z, n),
           ListsOK', FlagsOK', CacheOff', ZoneOK(z)',
           UNCHANGED <<caching, zones, config>>, overlap => overlap',
           \A y \in Zone \ {z} : held'[y] = held[y],
           \A y \in Zone \ {z} : /\ y \in DOMAIN state' <=> y \in DOMAIN state
                                 /\ y \in DOMAIN state' => state'[y] = state[y],
           n.pc = "begun" => overlap' \/ \A y \in Zone \ {z} : ~At(y, "begun")
    PROVE  IInv'
<1>1. OpsOK' /\ op'[z] = n /\ \A y \in Zone \ {z} : op'[y] = op[y]
  BY OpMoves DEF IInv
<1>2. ASSUME NEW y \in Zone \ {z} PROVE ZoneOK(y)'
  <2>1. ZoneOK(y) /\ op'[y] = op[y]
    BY <1>1 DEF IInv
  <2>2. OpOK(y)'
    BY <2>1 DEF ZoneOK, OpOK
  <2>3. ReadBackOK(y)'
    BY <2>1 DEF ZoneOK, ReadBackOK, HasWanted, Verified
  <2>4. Intended(y)'
    BY <2>1 DEF ZoneOK, Intended, PlanIsFixed
  <2>5. Alone(y)'
    BY <1>1, <2>1 DEF ZoneOK, Alone, At
  <2>6. SettledOK(y)'
    BY <2>1 DEF ZoneOK, SettledOK, Quiet, PlanIsFixed, Disjoint, HasWritten, InForce, At
  <2>7. QED
    BY <2>2, <2>3, <2>4, <2>5, <2>6 DEF ZoneOK
<1>3. QED
  BY <1>1, <1>2 DEF IInv

\* Operations start with the state as it was refreshed, and end what they began: each
\* step below names the record n the zone's operation moves to.
LEMMA StartIInv ==
    ASSUME IInv, NEW z \in Zone, NEW kind \in Kind, NEW want \in SUBSET Net,
           Start(z, kind, want),
           IF kind = "delete" THEN z \notin DOMAIN config /\ want = {}
           ELSE z \in DOMAIN config /\ (PlanIsFixed => want = config[z])
    PROVE  IInv'
<1> DEFINE c == op[z]
           n == [c EXCEPT !.pc = "sent", !.kind = kind, !.want = want]
<1>1. c \in Op /\ c.pc = "idle" /\ ZoneOK(z)
  BY OpFields DEF Start, At, IInv
<1>2. Move(z, n) /\ UNCHANGED <<caching, zones, cached, state, config, held, overlap>>
  BY DEF Start
<1> HIDE DEF c
<1>3. /\ n \in Op /\ n.pc = "sent" /\ n.kind = kind /\ n.want = want
      /\ n.attempt = c.attempt /\ n.put = c.put /\ n.outcome = c.outcome
  BY <1>1 DEF Op, Phase
<1> HIDE DEF n
<1>4. op'[z] = n
  BY <1>2, <1>3, OpMoves DEF IInv
<1>5. OpOK(z)' /\ ReadBackOK(z)' /\ Alone(z)'
  BY <1>1, <1>3, <1>4 DEF ZoneOK, OpOK, ReadBackOK, Verified, Alone, At, Over, c
<1>6. Intended(z)'
  BY <1>2, <1>3, <1>4 DEF Intended, PlanIsFixed
<1>7. SettledOK(z)'
  BY <1>1, <1>2, <1>3, <1>4
     DEF ZoneOK, SettledOK, Quiet, PlanIsFixed, Disjoint, HasWritten, InForce, At, c
<1>8. ZoneOK(z)'
  BY <1>5, <1>6, <1>7 DEF ZoneOK
<1>9. ListsOK' /\ FlagsOK' /\ CacheOff'
  BY <1>2 DEF IInv, ListsOK, FlagsOK, CacheOff
<1>10. QED
  BY <1>2, <1>3, <1>8, <1>9, OneZoneMoves

LEMMA BeginIInv ==
    ASSUME IInv, NEW z \in Zone, Begin(z)
    PROVE  IInv'
<1> DEFINE c == op[z]
           n == [c EXCEPT !.pc = "begun", !.snap = zones]
<1>1. c \in Op /\ c.pc = "sent" /\ ZoneOK(z) /\ zones \in Lists
  BY OpFields DEF Begin, At, IInv, ListsOK
<1>2. /\ Move(z, n) /\ UNCHANGED <<caching, zones, cached, state, config, held>>
      /\ overlap' = (overlap \/ \E y \in Zone \ {z} : At(y, "begun"))
  BY DEF Begin
<1> HIDE DEF c
<1>3. /\ n \in Op /\ n.pc = "begun" /\ n.snap = zones /\ n.kind = c.kind /\ n.want = c.want
      /\ n.attempt = c.attempt /\ n.put = c.put /\ n.outcome = c.outcome
  BY <1>1 DEF Op, Phase
<1> HIDE DEF n
<1>4. op'[z] = n /\ \A y \in Zone \ {z} : op'[y] = op[y]
  BY <1>2, <1>3, OpMoves DEF IInv
<1>5. OpOK(z)' /\ ReadBackOK(z)'
  BY <1>1, <1>2, <1>3, <1>4 DEF ZoneOK, OpOK, ReadBackOK, Verified, Over, c
<1>6. Intended(z)'
  BY <1>1, <1>2, <1>3, <1>4 DEF ZoneOK, Intended, PlanIsFixed, c
<1>7. Alone(z)'
  BY <1>2, <1>3, <1>4 DEF Alone, At
<1>8. SettledOK(z)'
  BY <1>1, <1>2, <1>3, <1>4
     DEF ZoneOK, SettledOK, Quiet, PlanIsFixed, Disjoint, HasWritten, InForce, At, c
<1>9. ZoneOK(z)'
  BY <1>5, <1>6, <1>7, <1>8 DEF ZoneOK
<1>10. ListsOK' /\ FlagsOK' /\ CacheOff'
  BY <1>2 DEF IInv, ListsOK, FlagsOK, CacheOff
<1>11. QED
  BY <1>2, <1>3, <1>9, <1>10, OneZoneMoves

\* A step after the controller's: what was written stays written.
LEMMA LaterStep ==
    ASSUME IInv, NEW z \in Zone, NEW n \in Op, Move(z, n),
           UNCHANGED <<caching, zones, config, overlap>>,
           ListsOK', CacheOff', held' \in [Zone -> BOOLEAN],
           \A y \in Zone \ {z} : held'[y] = held[y],
           \A y \in Zone \ {z} : /\ y \in DOMAIN state' <=> y \in DOMAIN state
                                 /\ y \in DOMAIN state' => state'[y] = state[y],
           op[z].pc # "idle", n.pc \notin {"idle", "begun"},
           n.kind = op[z].kind, n.want = op[z].want,
           OpOK(z)', ReadBackOK(z)',
           n.pc \in {"committed", "verify", "fetched", "done"} \/ n.put => HasWritten(z)
    PROVE  IInv'
<1>1. op'[z] = n /\ ZoneOK(z)
  BY OpMoves DEF IInv
<1>2. Intended(z)' /\ Alone(z)'
  BY <1>1 DEF ZoneOK, Intended, PlanIsFixed, Alone, At
<1>3. SettledOK(z)'
  BY <1>1 DEF ZoneOK, SettledOK, Quiet, PlanIsFixed, Disjoint, HasWritten, InForce, At
<1>4. ZoneOK(z)'
  BY <1>2, <1>3 DEF ZoneOK
<1>5. FlagsOK'
  BY DEF IInv, FlagsOK
<1>6. QED
  BY <1>4, <1>5, OneZoneMoves

\* What a read-back decides: stop, with the zone as wanted in the list, or send again.
LEMMA CompareIInv ==
    ASSUME IInv, NEW z \in Zone, op[z].pc \in {"verify", "fetched"}, NEW list,
           Compare(z, list),
           z \in DOMAIN list /\ list[z] = op[z].want /\ ~caching => held[z],
           UNCHANGED <<caching, zones, config, held, overlap>>,
           cached' \in Lists \cup {NoList}, CacheOff'
    PROVE  IInv'
<1> DEFINE c == op[z]
           a == [c EXCEPT !.pc = "done", !.snap = NoList, !.outcome = "verified"]
           b == [c EXCEPT !.pc = "sent", !.snap = NoList]
<1>1. c \in Op /\ OpOK(z) /\ ReadBackOK(z) /\ HasWritten(z) /\ c.put \in BOOLEAN
  BY OpFields DEF IInv, ZoneOK, HasWritten
<1>2. c.outcome = "none" /\ c.attempt < MaxAttempts
  BY <1>1 DEF OpOK, Over
<1>3. \/ z \in DOMAIN list /\ list[z] = op[z].want /\ Move(z, a) /\ state' = Track(z)
      \/ Move(z, b) /\ UNCHANGED state
  BY DEF Compare, NetworkIDsMatch
<1>4. held' \in [Zone -> BOOLEAN]
  BY DEF IInv, FlagsOK
<1>5. c.pc # "idle" /\ c.kind = op[z].kind /\ c.want = op[z].want
  OBVIOUS
<1> HIDE DEF c
<1>6. CASE z \in DOMAIN list /\ list[z] = op[z].want /\ Move(z, a) /\ state' = Track(z)
  <2>1. a \in Op /\ a.pc = "done" /\ a.kind = c.kind /\ a.want = c.want /\ a.outcome = "verified"
    BY <1>1 DEF Op, Phase, Outcome
  <2> HIDE DEF a
  <2>2. op'[z] = a
    BY <1>6, <2>1, OpMoves DEF IInv
  <2>3. OpOK(z)'
    BY <2>1, <2>2 DEF OpOK, Over
  <2>4. ReadBackOK(z)'
    BY <1>6, <2>1, <2>2 DEF ReadBackOK, Verified
  <2>5. /\ state' \in Lists
        /\ \A y \in Zone \ {z} : /\ y \in DOMAIN state' <=> y \in DOMAIN state
                                 /\ y \in DOMAIN state' => state'[y] = state[y]
    BY <1>6, TrackType DEF IInv
  <2>6. ListsOK'
    BY <2>5 DEF IInv, ListsOK
  <2>7. QED
    BY <1>1, <1>4, <1>5, <1>6, <2>1, <2>3, <2>4, <2>5, <2>6, LaterStep
<1>7. CASE Move(z, b) /\ UNCHANGED state
  <2>1. b \in Op /\ b.pc = "sent" /\ b.kind = c.kind /\ b.want = c.want /\ b.outcome = "none"
        /\ b.attempt = c.attempt
    BY <1>1, <1>2 DEF Op, Phase
  <2> HIDE DEF b
  <2>2. op'[z] = b
    BY <1>7, <2>1, OpMoves DEF IInv
  <2>3. OpOK(z)' /\ ReadBackOK(z)'
    BY <1>2, <2>1, <2>2 DEF OpOK, ReadBackOK, Verified
  <2>4. ListsOK'
    BY <1>7 DEF IInv, ListsOK
  <2>5. QED
    BY <1>1, <1>4, <1>5, <1>7, <2>1, <2>3, <2>4, LaterStep
<1>8. QED
  BY <1>3, <1>6, <1>7

LEMMA VerifyIInv ==
    ASSUME IInv, NEW z \in Zone, VerifyCached(z) \/ Fetch(z) \/ VerifyFetched(z) \/ VerifyFails(z)
    PROVE  IInv'
<1>1. op[z] \in Op /\ op[z].put \in BOOLEAN /\ ZoneOK(z)
  BY OpFields DEF IInv
<1>2. CASE VerifyCached(z)
  <2>1. caching /\ Compare(z, cached) /\ op[z].pc = "verify"
        /\ UNCHANGED <<caching, zones, cached, config, held, overlap>>
    BY <1>2 DEF VerifyCached, At, IInv, CacheOff
  <2>2. cached' \in Lists \cup {NoList} /\ CacheOff'
    BY <2>1 DEF IInv, ListsOK, CacheOff
  <2>3. QED
    BY <2>1, <2>2, CompareIInv
<1>3. CASE VerifyFetched(z)
  <2>1. /\ Compare(z, op[z].snap) /\ op[z].pc = "fetched"
        /\ cached' = IF caching THEN op[z].snap ELSE cached
        /\ UNCHANGED <<caching, zones, config, held, overlap>>
    BY <1>3 DEF VerifyFetched, At
  <2>2. op[z].snap \in Lists
    BY <1>1, <2>1 DEF ZoneOK, OpOK
  <2>3. cached' \in Lists \cup {NoList} /\ CacheOff'
    BY <2>1, <2>2 DEF IInv, ListsOK, CacheOff
  <2>4. z \in DOMAIN op[z].snap /\ op[z].snap[z] = op[z].want => held[z]
    BY <1>1, <2>1 DEF ZoneOK, ReadBackOK
  <2>5. QED
    BY <2>1, <2>3, <2>4, CompareIInv
<1>4. CASE Fetch(z) \/ VerifyFails(z)
  <2> DEFINE c == op[z]
             a == [c EXCEPT !.pc = "fetched", !.snap = zones]
             b == [c EXCEPT !.pc = "sent", !.snap = NoList]
  <2>1. /\ c.pc \in {"verify", "fetched"}
        /\ UNCHANGED <<caching, zones, cached, state, config, held, overlap>>
        /\ (c.pc = "verify" /\ Move(z, a)) \/ Move(z, b)
    BY <1>4 DEF Fetch, VerifyFails, At
  <2>2. HasWritten(z) /\ c.outcome = "none" /\ c.attempt < MaxAttempts
    BY <1>1, <2>1 DEF HasWritten, ZoneOK, OpOK, Over
  <2>3. ListsOK' /\ CacheOff' /\ held' \in [Zone -> BOOLEAN] /\ zones \in Lists
    BY <2>1 DEF IInv, ListsOK, CacheOff, FlagsOK
  <2>4. c \in Op /\ c.kind = op[z].kind /\ c.want = op[z].want /\ c.pc = op[z].pc
    BY <1>1
  <2> HIDE DEF c
  <2>5. CASE c.pc = "verify" /\ Move(z, a)
    <3>1. /\ a \in Op /\ a.pc = "fetched" /\ a.snap = zones /\ a.kind = c.kind
          /\ a.want = c.want /\ a.outcome = "none" /\ a.attempt = c.attempt
      BY <2>2, <2>3, <2>4 DEF Op, Phase
    <3> HIDE DEF a
    <3>2. op'[z] = a
      BY <2>5, <3>1, OpMoves DEF IInv
    <3>3. OpOK(z)'
      BY <2>2, <2>3, <3>1, <3>2 DEF OpOK
    <3>4. HasWanted(z) => held[z]
      BY <1>1, <2>4, <2>5 DEF ZoneOK, ReadBackOK
    <3>5. ReadBackOK(z)'
      BY <2>1, <2>4, <3>1, <3>2, <3>4 DEF ReadBackOK, Verified, HasWanted
    <3>6. QED
      BY <2>1, <2>2, <2>3, <2>4, <2>5, <3>1, <3>3, <3>5, LaterStep
  <2>6. CASE Move(z, b)
    <3>1. /\ b \in Op /\ b.pc = "sent" /\ b.kind = c.kind
          /\ b.want = c.want /\ b.outcome = "none" /\ b.attempt = c.attempt
      BY <2>2, <2>3, <2>4 DEF Op, Phase
    <3> HIDE DEF b
    <3>2. op'[z] = b
      BY <2>6, <3>1, OpMoves DEF IInv
    <3>3. OpOK(z)' /\ ReadBackOK(z)'
      BY <2>2, <3>1, <3>2 DEF OpOK, ReadBackOK, Verified
    <3>4. QED
      BY <2>1, <2>2, <2>3, <2>4, <2>6, <3>1, <3>3, LaterStep
  <2>7. QED
    BY <2>1, <2>5, <2>6
<1>5. QED
  BY <1>2, <1>3, <1>4

\* A round that ends, answered or not, when a PUT was answered before.
LEMMA RoundIInv ==
    ASSUME IInv, NEW z \in Zone, op[z].pc \in {"sent", "begun", "committed"}, op[z].put,
           Move(z, AnotherRound(z)),
           state' = IF AnotherRound(z).pc = "done" THEN Track(z) ELSE state,
           held' = [held EXCEPT ![z] = HasWanted(z)],
           cached' \in {cached, NoList},
           UNCHANGED <<caching, zones, config, overlap>>
    PROVE  IInv'
<1> DEFINE n == AnotherRound(z)
<1>1. op[z].pc \notin Over /\ op[z].pc # "idle" /\ HasWritten(z) /\ OpOK(z)
  BY DEF Over, HasWritten, IInv, ZoneOK
<1>2. /\ n \in Op /\ n.pc \in {"verify", "done"}
      /\ n.kind = op[z].kind /\ n.want = op[z].want
      /\ n.pc = "verify" => n.attempt < MaxAttempts /\ n.outcome = op[z].outcome
      /\ n.pc = "done" => n.outcome = "gaveUp"
  BY <1>1, RoundType
<1>3. Move(z, n) /\ state' = IF n.pc = "done" THEN Track(z) ELSE state
  OBVIOUS
<1> HIDE DEF n
<1>4. op'[z] = n
  BY <1>2, <1>3, OpMoves DEF IInv
<1>5. op[z].outcome = "none"
  BY <1>1 DEF OpOK, Over
<1>6. /\ state' \in Lists
      /\ \A y \in Zone \ {z} : /\ y \in DOMAIN state' <=> y \in DOMAIN state
                               /\ y \in DOMAIN state' => state'[y] = state[y]
  <2>1. CASE n.pc = "done"
    BY <1>3, <2>1, TrackType DEF IInv
  <2>2. CASE n.pc # "done"
    BY <1>3, <2>2 DEF IInv, ListsOK
  <2>3. QED
    BY <2>1, <2>2
<1>7. ListsOK' /\ CacheOff'
  BY <1>6 DEF IInv, ListsOK, CacheOff
<1>8. HasWanted(z) \in BOOLEAN
  BY DEF HasWanted
<1>9. /\ held' \in [Zone -> BOOLEAN] /\ held'[z] = HasWanted(z)
      /\ \A y \in Zone \ {z} : held'[y] = held[y]
  BY <1>8 DEF IInv, FlagsOK
<1>10. OpOK(z)'
  BY <1>2, <1>4, <1>5 DEF OpOK, Over
<1>11. ReadBackOK(z)'
  BY <1>2, <1>4, <1>5, <1>9 DEF ReadBackOK, Verified, HasWanted
<1>12. QED
  BY <1>1, <1>2, <1>3, <1>6, <1>7, <1>9, <1>10, <1>11, LaterStep

LEMMA AnswerIInv ==
    ASSUME IInv, NEW z \in Zone, Answer(z)
    PROVE  IInv'
<1> DEFINE c == op[z]
           a == [c EXCEPT !.pc = "done"]
           b == [c EXCEPT !.pc = "verify", !.put = TRUE]
<1>1. /\ c.pc = "committed" /\ cached' = NoList /\ held' = [held EXCEPT ![z] = HasWanted(z)]
      /\ UNCHANGED <<caching, zones, config, overlap>>
  BY DEF Answer, At
<1>2. \/ Move(z, a) /\ (state' = Track(z) \/ state' = Untrack(z))
      \/ Move(z, b) /\ UNCHANGED state
      \/ /\ c.put /\ Move(z, AnotherRound(z))
         /\ state' = IF AnotherRound(z).pc = "done" THEN Track(z) ELSE state
  <2>1. CASE c.kind = "create"
    BY <2>1 DEF Answer, Goto
  <2>2. CASE c.kind = "delete"
    BY <2>2 DEF Answer, Goto
  <2>3. CASE c.kind = "update" /\ ~c.put
    BY <2>3 DEF Answer
  <2>4. CASE c.kind = "update" /\ c.put
    BY <2>4 DEF Answer
  <2>5. c.kind \in Kind
    BY OpFields DEF IInv
  <2>6. QED
    BY <2>1, <2>2, <2>3, <2>4, <2>5 DEF Kind
<1>3. c \in Op /\ c.outcome = "none" /\ c.attempt < MaxAttempts /\ HasWritten(z)
  BY <1>1, OpFields DEF IInv, ZoneOK, OpOK, Over, HasWritten
<1>4. c.kind = op[z].kind /\ c.want = op[z].want /\ c.pc = op[z].pc
  OBVIOUS
<1>5. HasWanted(z) \in BOOLEAN
  BY DEF HasWanted
<1>6. /\ held' \in [Zone -> BOOLEAN] /\ held'[z] = HasWanted(z)
      /\ \A y \in Zone \ {z} : held'[y] = held[y]
  BY <1>1, <1>5 DEF IInv, FlagsOK
<1>7. CacheOff' /\ cached' \in Lists \cup {NoList}
  BY <1>1 DEF CacheOff
<1>8. CASE c.put /\ Move(z, AnotherRound(z))
           /\ state' = IF AnotherRound(z).pc = "done" THEN Track(z) ELSE state
  BY <1>1, <1>8, RoundIInv
<1> HIDE DEF c
<1>9. CASE Move(z, a) /\ (state' = Track(z) \/ state' = Untrack(z))
  <2>1. /\ a \in Op /\ a.pc = "done" /\ a.kind = c.kind /\ a.want = c.want
        /\ a.outcome = "none"
    BY <1>3 DEF Op, Phase
  <2> HIDE DEF a
  <2>2. op'[z] = a
    BY <1>9, <2>1, OpMoves DEF IInv
  <2>3. OpOK(z)' /\ ReadBackOK(z)'
    BY <2>1, <2>2 DEF OpOK, Over, ReadBackOK, Verified
  <2>4. /\ state' \in Lists
        /\ \A y \in Zone \ {z} : /\ y \in DOMAIN state' <=> y \in DOMAIN state
                                 /\ y \in DOMAIN state' => state'[y] = state[y]
    BY <1>9, TrackType, UntrackType DEF IInv
  <2>5. ListsOK'
    BY <1>1, <1>7, <2>4 DEF IInv, ListsOK
  <2>6. QED
    BY <1>1, <1>3, <1>4, <1>6, <1>7, <1>9, <2>1, <2>3, <2>4, <2>5, LaterStep
<1>10. CASE Move(z, b) /\ UNCHANGED state
  <2>1. /\ b \in Op /\ b.pc = "verify" /\ b.kind = c.kind /\ b.want = c.want
        /\ b.outcome = "none" /\ b.attempt = c.attempt
    BY <1>3 DEF Op, Phase
  <2> HIDE DEF b
  <2>2. op'[z] = b
    BY <1>10, <2>1, OpMoves DEF IInv
  <2>3. OpOK(z)'
    BY <1>3, <2>1, <2>2 DEF OpOK
  <2>4. ReadBackOK(z)'
    BY <1>1, <1>4, <1>6, <2>1, <2>2 DEF ReadBackOK, Verified, HasWanted
  <2>5. ListsOK'
    BY <1>1, <1>7, <1>10 DEF IInv, ListsOK
  <2>6. QED
    BY <1>1, <1>3, <1>4, <1>6, <1>7, <1>10, <2>1, <2>3, <2>4, <2>5, LaterStep
<1>11. QED
  BY <1>2, <1>8, <1>9, <1>10

LEMMA WriteFailsIInv ==
    ASSUME IInv, NEW z \in Zone, WriteFails(z)
    PROVE  IInv'
<1> DEFINE c == op[z]
           a == [c EXCEPT !.pc = "failed", !.snap = NoList]
<1>1. /\ c.pc \in {"sent", "begun", "committed"}
      /\ held' = [held EXCEPT ![z] = HasWanted(z)]
      /\ UNCHANGED <<caching, zones, cached, config, overlap>>
  BY DEF WriteFails
<1>2. CASE c.put
  <2>1. Move(z, AnotherRound(z))
        /\ state' = IF AnotherRound(z).pc = "done" THEN Track(z) ELSE state
    BY <1>2 DEF WriteFails
  <2>2. QED
    BY <1>1, <1>2, <2>1, RoundIInv
<1>3. CASE ~c.put
  <2>1. Move(z, a) /\ UNCHANGED state
    BY <1>3 DEF WriteFails
  <2>2. c \in Op /\ c.outcome = "none"
    BY <1>1, OpFields DEF IInv, ZoneOK, OpOK, Over
  <2>3. c.kind = op[z].kind /\ c.want = op[z].want /\ c.pc = op[z].pc
    OBVIOUS
  <2>4. HasWanted(z) \in BOOLEAN
    BY DEF HasWanted
  <2>5. held' \in [Zone -> BOOLEAN] /\ \A y \in Zone \ {z} : held'[y] = held[y]
    BY <1>1, <2>4 DEF IInv, FlagsOK
  <2>6. ListsOK' /\ CacheOff'
    BY <1>1, <2>1 DEF IInv, ListsOK, CacheOff
  <2> HIDE DEF c
  <2>7. /\ a \in Op /\ a.pc = "failed" /\ a.kind = c.kind /\ a.want = c.want
        /\ a.outcome = "none" /\ a.put = c.put
    BY <2>2 DEF Op, Phase
  <2> HIDE DEF a
  <2>8. op'[z] = a
    BY <2>1, <2>7, OpMoves DEF IInv
  <2>9. OpOK(z)' /\ ReadBackOK(z)'
    BY <2>7, <2>8 DEF OpOK, Over, ReadBackOK, Verified
  <2>10. QED
    BY <1>1, <1>3, <2>1, <2>3, <2>5, <2>6, <2>7, <2>9, LaterStep
<1>4. QED
  BY <1>2, <1>3

LEMMA ReadIInv ==
    ASSUME IInv, NEW z \in Zone, Read(z)
    PROVE  IInv'
<1> DEFINE c == op[z]
           a == [c EXCEPT !.pc = "refreshed"]
<1>1. /\ c.pc \in {"done", "failed"} /\ z \in DOMAIN state /\ Move(z, a)
      /\ state' = IF z \in DOMAIN zones THEN [state EXCEPT ![z] = zones[z]] ELSE Untrack(z)
      /\ cached' = NoList
      /\ UNCHANGED <<caching, zones, config, held, overlap>>
  BY DEF Read, Goto
<1>2. c \in Op /\ ZoneOK(z) /\ c.kind = op[z].kind /\ c.want = op[z].want /\ c.pc = op[z].pc
      /\ c.put = op[z].put /\ c.outcome = op[z].outcome
  BY OpFields DEF IInv
<1> HIDE DEF c
<1>3. /\ a \in Op /\ a.pc = "refreshed" /\ a.kind = c.kind /\ a.want = c.want
      /\ a.outcome = c.outcome /\ a.put = c.put
  BY <1>2 DEF Op, Phase
<1> HIDE DEF a
<1>4. op'[z] = a
  BY <1>1, <1>3, OpMoves DEF IInv
<1>5. OpOK(z)' /\ ReadBackOK(z)'
  BY <1>1, <1>2, <1>3, <1>4 DEF ZoneOK, OpOK, Over, ReadBackOK, Verified
<1>6. /\ state' \in Lists
      /\ \A y \in Zone \ {z} : /\ y \in DOMAIN state' <=> y \in DOMAIN state
                               /\ y \in DOMAIN state' => state'[y] = state[y]
  <2>1. CASE z \in DOMAIN zones
    <3>1. zones[z] \in SUBSET Net
      BY <2>1, ListType DEF IInv, ListsOK
    <3>2. DOMAIN state \in SUBSET Zone /\ state' \in [DOMAIN state -> SUBSET Net]
      BY <1>1, <2>1, <3>1, ListType DEF IInv, ListsOK
    <3>3. state' \in Lists
      BY <3>2, MakeList
    <3>4. QED
      BY <1>1, <2>1, <3>3
  <2>2. CASE z \notin DOMAIN zones
    BY <1>1, <2>2, UntrackType DEF IInv
  <2>3. QED
    BY <2>1, <2>2
<1>7. ListsOK' /\ CacheOff' /\ held' \in [Zone -> BOOLEAN]
  BY <1>1, <1>6 DEF IInv, ListsOK, CacheOff, FlagsOK
<1>8. a.put => HasWritten(z)
  BY <1>2, <1>3 DEF HasWritten
<1>9. QED
  BY <1>1, <1>2, <1>3, <1>5, <1>6, <1>7, <1>8, LaterStep

\* What a write makes of the controller's list.
LEMMA WrittenList ==
    ASSUME IInv, NEW z \in Zone, NEW base \in Lists, NEW l, l = Written(base, z)
    PROVE  /\ l \in Lists
           /\ op[z].kind # "delete" => z \in DOMAIN l /\ l[z] = op[z].want
           /\ base = zones => \A y \in DOMAIN zones \ {z} :
                 y \in DOMAIN l /\ l[y] = zones[y] \ op[z].want
<1> DEFINE w == op[z].want
           kept == DOMAIN zones \ {z}
           others == [y \in kept |-> (IF y \in DOMAIN base THEN base[y] ELSE zones[y]) \ w]
           all == [y \in kept \cup {z} |-> IF y = z THEN w ELSE others[y]]
<1>1. w \in SUBSET Net
  BY OpFields DEF IInv
<1>2. /\ DOMAIN zones \in SUBSET Zone /\ zones \in [DOMAIN zones -> SUBSET Net]
      /\ base \in [DOMAIN base -> SUBSET Net]
  BY ListType DEF IInv, ListsOK
<1>3. l = IF op[z].kind = "delete" THEN others ELSE all
  BY DEF Written
<1>4. kept \in SUBSET Zone /\ kept \cup {z} \in SUBSET Zone
  BY <1>2
<1> SUFFICES /\ l \in Lists
             /\ op[z].kind # "delete" => z \in DOMAIN l /\ l[z] = w
             /\ base = zones => \A y \in kept : y \in DOMAIN l /\ l[y] = zones[y] \ w
  OBVIOUS
<1> HIDE DEF w
<1>5. others \in [kept -> SUBSET Net]
      /\ (base = zones => \A y \in kept : others[y] = zones[y] \ w)
  BY <1>2
<1> HIDE DEF others
<1>6. all \in [kept \cup {z} -> SUBSET Net]
  BY <1>1, <1>5
<1>7. others \in Lists /\ all \in Lists
  BY <1>4, <1>5, <1>6, MakeList
<1>8. CASE op[z].kind = "delete"
  BY <1>3, <1>5, <1>7, <1>8
<1>9. CASE op[z].kind # "delete"
  BY <1>3, <1>5, <1>7, <1>9
<1>10. QED
  BY <1>8, <1>9

\* The write whose turn it is changes the list under everybody's feet: held follows it,
\* and without overlap it spoils nothing that is planned for another zone.
LEMMA CommitIInv ==
    ASSUME IInv, NEW z \in Zone, Commit(z)
    PROVE  IInv'
<1> DEFINE c == op[z]
           n == [c EXCEPT !.pc = "committed", !.snap = NoList]
<1>1. c.pc = "begun" /\ Move(z, n) /\ held' = [y \in Zone |-> held[y] \/ HasWanted(y)']
      /\ UNCHANGED <<caching, cached, state, config, overlap>>
  BY DEF Commit, At
<1>2. PICK base \in {zones, c.snap} : zones' = Written(base, z)
  BY DEF Commit
<1>3. c \in Op /\ ZoneOK(z) /\ c.snap \in Lists
  BY <1>1, OpFields DEF IInv, ZoneOK, OpOK
<1>4. c.outcome = "none" /\ c.attempt < MaxAttempts
  BY <1>1, <1>3 DEF ZoneOK, OpOK, Over
<1>5. c.kind = op[z].kind /\ c.want = op[z].want /\ c.pc = op[z].pc /\ c.snap = op[z].snap
  OBVIOUS
<1> HIDE DEF c
<1>6. n \in Op /\ n.pc = "committed" /\ n.kind = c.kind /\ n.want = c.want
      /\ n.outcome = "none" /\ n.attempt = c.attempt
  BY <1>3, <1>4 DEF Op, Phase
<1> HIDE DEF n
<1>7. OpsOK' /\ op'[z] = n /\ \A y \in Zone \ {z} : op'[y] = op[y]
  BY <1>1, <1>6, OpMoves DEF IInv
<1>8. base \in Lists /\ (~overlap => base = zones)
  BY <1>1, <1>2, <1>3, <1>5 DEF IInv, ListsOK, ZoneOK, Alone, At
<1>9. /\ zones' \in Lists
      /\ c.kind # "delete" => z \in DOMAIN zones' /\ zones'[z] = c.want
      /\ ~overlap => \A y \in DOMAIN zones \ {z} :
            y \in DOMAIN zones' /\ zones'[y] = zones[y] \ c.want
  BY <1>2, <1>5, <1>8, WrittenList
<1>10. ListsOK' /\ CacheOff'
  BY <1>1, <1>9 DEF IInv, ListsOK, CacheOff
<1>11. /\ held' \in [Zone -> BOOLEAN]
       /\ \A y \in Zone : held'[y] <=> held[y] \/ HasWanted(y)'
  <2>1. \A y \in Zone : held[y] \in BOOLEAN
    BY DEF IInv, FlagsOK
  <2>2. \A y \in Zone : (held[y] \/ HasWanted(y)') \in BOOLEAN
    OBVIOUS
  <2>3. QED
    BY <1>1, <2>2
<1>12. FlagsOK'
  BY <1>1, <1>11 DEF IInv, FlagsOK
<1>13. ASSUME NEW y \in Zone PROVE OpOK(y)' /\ ReadBackOK(y)' /\ Intended(y)'
  <2>1. ZoneOK(y)
    BY DEF IInv
  <2>2. CASE y = z
    BY <1>1, <1>3, <1>4, <1>5, <1>6, <1>7, <2>2
       DEF ZoneOK, OpOK, Over, ReadBackOK, Verified, Intended, PlanIsFixed
  <2>3. CASE y # z
    <3>1. op'[y] = op[y]
      BY <1>7, <2>3
    <3>2. ReadBackOK(y)'
      BY <1>1, <1>11, <2>1, <3>1 DEF ZoneOK, ReadBackOK, Verified
    <3>3. QED
      BY <1>1, <2>1, <3>1, <3>2 DEF ZoneOK, OpOK, Over, Intended, PlanIsFixed
  <2>4. QED
    BY <2>2, <2>3
<1>14. ASSUME NEW y \in Zone PROVE Alone(y)'
  \* A write that began with this one had overlapped it.
  <2>1. ZoneOK(z)
    BY DEF IInv
  <2>2. ~overlap => \A x \in Zone : At(x, "begun") => x = z
    BY <1>1, <1>5, <2>1 DEF ZoneOK, Alone, At
  <2>3. QED
    BY <1>1, <1>6, <1>7, <2>2 DEF Alone, At
<1>15. ASSUME NEW y \in Zone PROVE SettledOK(y)'
  <2>1. SUFFICES ASSUME Quiet, y \in DOMAIN config,
                        \/ HasWritten(y)'
                        \/ At(y, "idle")' /\ y \in DOMAIN state /\ config[y] = state[y]
                 PROVE  y \in DOMAIN zones' /\ zones'[y] = config[y]
    BY <1>1 DEF SettledOK, InForce, Quiet, PlanIsFixed, Disjoint
  <2>2. Intended(z) /\ PlanIsFixed /\ Disjoint(config) /\ ~overlap
    BY <2>1 DEF IInv, ZoneOK, Quiet
  <2>3. CASE y = z
    <3>1. c.kind # "delete" /\ c.want = config[z]
      BY <1>1, <1>5, <2>1, <2>2, <2>3 DEF Intended
    <3>2. QED
      BY <1>9, <2>3, <3>1
  <2>4. CASE y # z
    <3>1. op'[y] = op[y] /\ ZoneOK(y)
      BY <1>7, <2>4 DEF IInv
    <3>2. y \in DOMAIN zones /\ zones[y] = config[y]
      BY <2>1, <3>1 DEF ZoneOK, SettledOK, InForce, HasWritten, At
    <3>3. c.want = {} \/ (z \in DOMAIN config /\ c.want = config[z])
      BY <1>1, <1>5, <2>2 DEF Intended
    <3>4. c.want \cap config[y] = {}
      BY <2>1, <2>2, <2>4, <3>3 DEF Disjoint
    <3>5. y \in DOMAIN zones' /\ zones'[y] = config[y] \ c.want
      BY <1>9, <2>2, <2>4, <3>2
    <3>6. config[y] \in SUBSET Net
      BY <2>1, <2>2, ConfigType DEF PlanIsFixed, IInv
    <3>7. QED
      BY <3>4, <3>5, <3>6
  <2>5. QED
    BY <2>3, <2>4
<1>16. QED
  BY <1>7, <1>10, <1>12, <1>13, <1>14, <1>15 DEF IInv, ZoneOK

LEMMA StepIInv == IInv /\ [Next]_vars => IInv'
<1> SUFFICES ASSUME IInv, [Next]_vars PROVE IInv'
  OBVIOUS
<1>1. ASSUME NEW z \in Zone, Create(z) PROVE IInv'
  <2>1. z \in DOMAIN config /\ PlannedIds(z) \in SUBSET Net
    BY <1>1, ConfigType DEF Create, PlannedIds, IInv
  <2>2. PlanIsFixed => PlannedIds(z) = config[z]
    BY <2>1 DEF PlanIsFixed, PlannedIds
  <2>3. QED
    BY <1>1, <2>1, <2>2, StartIInv DEF Create, Kind
<1>2. ASSUME NEW z \in Zone, Update(z) PROVE IInv'
  <2>1. z \in DOMAIN config /\ z \in DOMAIN state /\ state[z] \in SUBSET Net
    BY <1>2, ListType DEF Update, IInv, ListsOK
  <2>2. ApplyPlanToState(z) \in SUBSET Net
    BY <2>1, ConfigType DEF ApplyPlanToState, IInv
  <2>3. PlanIsFixed => ApplyPlanToState(z) = config[z]
    BY <2>1 DEF PlanIsFixed, ApplyPlanToState
  <2>4. QED
    BY <1>2, <2>1, <2>2, <2>3, StartIInv DEF Update, Kind
<1>3. ASSUME NEW z \in Zone, Delete(z) PROVE IInv'
  BY <1>3, StartIInv DEF Delete, Kind
<1>4. ASSUME NEW z \in Zone, Progress(z) PROVE IInv'
  BY <1>4, BeginIInv, CommitIInv, AnswerIInv, WriteFailsIInv, VerifyIInv DEF Progress
<1>5. CASE UNCHANGED vars
  <2>1. ListsOK' /\ FlagsOK' /\ OpsOK' /\ CacheOff'
    BY <1>5 DEF vars, IInv, ListsOK, FlagsOK, OpsOK, CacheOff
  <2>2. ASSUME NEW z \in Zone PROVE ZoneOK(z)'
    <3>1. ZoneOK(z)
      BY DEF IInv
    <3>2. OpOK(z)' /\ ReadBackOK(z)' /\ Intended(z)' /\ Alone(z)'
      BY <1>5, <3>1
         DEF vars, ZoneOK, OpOK, ReadBackOK, HasWanted, Verified, Intended, PlanIsFixed, Alone, At
    <3>3. SettledOK(z)'
      BY <1>5, <3>1
         DEF vars, ZoneOK, SettledOK, Quiet, PlanIsFixed, Disjoint, HasWritten, InForce, At
    <3>4. QED
      BY <3>2, <3>3 DEF ZoneOK
  <2>3. QED
    BY <2>1, <2>2 DEF IInv
<1>6. QED
  BY <1>1, <1>2, <1>3, <1>4, <1>5, ReadIInv DEF Next

\* The strengthened invariant holds in every reachable state.
THEOREM Invariance == Spec => []IInv
<1>1. QED
  BY InitIInv, StepIInv, PTL DEF Spec

\* Every variable keeps its type; an update makes at most MaxAttempts rounds.
THEOREM TypeCorrect == Spec => []TypeOK
<1>1. IInv => TypeOK
  BY TypeParts DEF IInv
<1>2. QED
  BY <1>1, Invariance, PTL

\* With caching off a read-back that matches saw the zone as planned after the last PUT
\* was answered, however the writes of other zones interfere.  (UpdateFirewallZone)
THEOREM VerifiedMeansHeld == Spec => []VerifiedUpdateTookEffect
<1>1. IInv => VerifiedUpdateTookEffect
  BY DEF IInv, ZoneOK, ReadBackOK, VerifiedUpdateTookEffect
<1>2. QED
  BY <1>1, Invariance, PTL

\* An apply without failures, in which no two writes met inside the controller, leaves
\* every zone with its planned networks, in whatever order its operations ran.
\* (UpdateFirewallZone, Create, Delete)
THEOREM QuietApplyHolds == Spec => []QuietApplyConverges
<1>1. ASSUME IInv, PlanIsFixed, Disjoint(config), ~overlap, ApplyOver, NEW z \in DOMAIN config
      PROVE  z \in DOMAIN zones /\ zones[z] = config[z]
  <2>1. z \in Zone
    BY <1>1, ConfigType DEF IInv
  <2>2. SettledOK(z)
    BY <1>1, <2>1 DEF IInv, ZoneOK
  <2>3. CASE op[z].pc = "done"
    BY <1>1, <2>2, <2>3 DEF SettledOK, Quiet, HasWritten, InForce
  <2>4. CASE op[z].pc = "idle" /\ z \in DOMAIN state /\ config[z] = state[z]
    BY <1>1, <2>2, <2>4 DEF SettledOK, Quiet, InForce, At
  <2>5. QED
    BY <1>1, <2>1, <2>3, <2>4 DEF ApplyOver
<1>2. IInv => QuietApplyConverges
  BY <1>1 DEF QuietApplyConverges
<1>3. QED
  BY <1>2, Invariance, PTL
=================================================================================

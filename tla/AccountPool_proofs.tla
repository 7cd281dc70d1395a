------------------------- MODULE AccountPool_proofs -------------------------
(***************************************************************************)
(* Proofs about the account pool.  What the selection of a member          *)
(* guarantees, for every roster, every hash and every number of members;   *)
(* and what that means to the requests that are served, for every set of   *)
(* identities, sessions and requests, every choice of settings and any     *)
(* number of overlapping requests and operations.                          *)
(***************************************************************************)
EXTENDS AccountPool, FiniteSetTheorems, WellFoundedInduction, TLAPS

(***************************************************************************)
(* Every non-empty set of identities has a greatest element for every      *)
(* score, and a least one.  The members that beat m are fewer than those   *)
(* that beat a member m beats, and "is a strict subset of" is well-founded *)
(* on finite sets.                                                         *)
(***************************************************************************)
LEMMA GreatestExists ==
  ASSUME NEW S \in SUBSET Identities, S # {}, NEW f \in [Identities -> Int]
  PROVE  \E m \in S : \A i \in S : f[i] <= f[m]
<1> DEFINE Above(m) == {i \in S : f[m] < f[i]}
           Aboves   == {Above(m) : m \in S}
<1>1. IsFiniteSet(S)
  BY IdentitiesAssumption, FS_Subset
<1>2. IsWellFoundedOn(StrictSubsetOrdering(S), SUBSET S)
  BY <1>1, FS_StrictSubsetOrderingWellFounded, FS_FiniteSubsetsOfFinite
<1>3. Aboves \subseteq SUBSET S /\ Aboves # {}
  OBVIOUS
<1>4. \E X \in Aboves : \A Y \in Aboves : ~(<<Y, X>> \in StrictSubsetOrdering(S))
  BY <1>2, <1>3, WFMin
<1>5. PICK m \in S : \A n \in S : ~(<<Above(n), Above(m)>> \in StrictSubsetOrdering(S))
  BY <1>4
<1>6. Above(m) = {}
  <2> SUFFICES ASSUME NEW n \in Above(m) PROVE FALSE
    OBVIOUS
  <2>1. n \in S /\ f[m] < f[n] /\ f[m] \in Int /\ f[n] \in Int
    OBVIOUS
  <2>2. Above(n) \subseteq Above(m)
    <3> SUFFICES ASSUME NEW i \in Above(n) PROVE f[m] < f[i]
      OBVIOUS
    <3> f[i] \in Int /\ f[n] < f[i]
      OBVIOUS
    <3> QED BY <2>1
  <2>3. n \notin Above(n)
    BY <2>1
  <2>4. Above(n) # Above(m)
    BY <2>3
  <2>5. Above(n) \in SUBSET S /\ Above(m) \in SUBSET S
    OBVIOUS
  <2>6. <<Above(n), Above(m)>> \in StrictSubsetOrdering(S)
    BY <2>2, <2>4, <2>5 DEF StrictSubsetOrdering
  <2> QED BY <1>5, <2>1, <2>6
<1>7. \A i \in S : f[i] <= f[m]
  <2> SUFFICES ASSUME NEW i \in S PROVE f[i] <= f[m]
    OBVIOUS
  <2> i \notin Above(m) /\ f[i] \in Int /\ f[m] \in Int
    BY <1>6
  <2> QED OBVIOUS
<1> QED BY <1>7

LEMMA LeastExists ==
  ASSUME NEW S \in SUBSET Identities, S # {}, NEW f \in [Identities -> Int]
  PROVE  \E m \in S : \A i \in S : f[m] <= f[i]
<1> DEFINE g == [i \in Identities |-> 0 - f[i]]
<1>1. g \in [Identities -> Int]
  OBVIOUS
<1>2. PICK m \in S : \A i \in S : g[i] <= g[m]
  BY <1>1, GreatestExists
<1>3. \A i \in S : f[m] <= f[i]
  <2> SUFFICES ASSUME NEW i \in S PROVE f[m] <= f[i]
    OBVIOUS
  <2> f[i] \in Int /\ f[m] \in Int /\ g[i] = 0 - f[i] /\ g[m] = 0 - f[m] /\ g[i] <= g[m]
    BY <1>2
  <2> HIDE DEF g
  <2> QED OBVIOUS
<1> QED BY <1>3
(***************************************************************************)
(* Every selection of a strategy picks a member of the set it is given.    *)
(***************************************************************************)
LEMMA FirstIn ==
  ASSUME NEW S \in SUBSET Identities, S # {}
  PROVE  /\ First(S) \in S
         /\ \A i \in S : ListOrder[First(S)] <= ListOrder[i]
<1>1. ListOrder \in [Identities -> Int]
  BY OrderAssumption
<1>2. \E m \in S : \A i \in S : ListOrder[m] <= ListOrder[i]
  BY <1>1, LeastExists
<1> QED BY <1>2 DEF First

LEMMA RendezvousIn ==
  ASSUME NEW rows, NEW S \in SUBSET Identities, S # {}, NEW s \in Sessions,
         \A m \in S : rows[m].weight \in Nat
  PROVE  Highest(S, rows, s) # {} /\ Rendezvous(S, rows, s) \in Highest(S, rows, s)
<1> DEFINE f == [m \in Identities |-> IF m \in S THEN WeightedScore(rows, s, m) ELSE 0]
<1>1. f \in [Identities -> Int]
  <2> SUFFICES ASSUME NEW m \in S PROVE WeightedScore(rows, s, m) \in Int
    OBVIOUS
  <2>1. Base[s][m] \in Nat /\ rows[m].weight \in Nat
    BY HashAssumption
  <2> QED BY <2>1 DEF WeightedScore
<1>2. PICK m \in S : \A i \in S : f[i] <= f[m]
  BY <1>1, GreatestExists
<1>3. m \in Highest(S, rows, s)
  <2>1. \A i \in S : f[i] = WeightedScore(rows, s, i)
    OBVIOUS
  <2> QED BY <1>2, <2>1 DEF Highest
<1>4. Highest(S, rows, s) \in SUBSET Identities
  BY DEF Highest
<1> QED BY <1>3, <1>4, FirstIn DEF Rendezvous

LEMMA LeastRecentlyUsedIn ==
  ASSUME NEW rows, NEW S \in SUBSET Identities, S # {},
         \A m \in S : rows[m].lastUsedAt \in Nat
  PROVE  LeastRecentlyUsed(S, rows) \in S
<1> DEFINE f == [m \in Identities |-> IF m \in S THEN rows[m].lastUsedAt ELSE 0]
<1>1. f \in [Identities -> Int]
  OBVIOUS
<1>2. PICK m \in S : \A i \in S : f[m] <= f[i]
  BY <1>1, LeastExists
<1>3. m \in Oldest(S, rows)
  <2>1. \A i \in S : f[i] = rows[i].lastUsedAt
    OBVIOUS
  <2> QED BY <1>2, <2>1 DEF Oldest
<1>4. Oldest(S, rows) \in SUBSET S
  BY DEF Oldest
<1> QED BY <1>3, <1>4, FirstIn DEF LeastRecentlyUsed

LEMMA SoonestIn ==
  ASSUME NEW rows, NEW S \in SUBSET Identities, S # {},
         \A m \in S : rows[m].coolingUntil \in Nat
  PROVE  /\ Soonest(S, rows) \in S
         /\ \A i \in S : rows[Soonest(S, rows)].coolingUntil <= rows[i].coolingUntil
<1> DEFINE f == [m \in Identities |-> IF m \in S THEN rows[m].coolingUntil ELSE 0]
           T == {m \in S : \A i \in S : rows[m].coolingUntil <= rows[i].coolingUntil}
<1>1. f \in [Identities -> Int]
  OBVIOUS
<1>2. PICK m \in S : \A i \in S : f[m] <= f[i]
  BY <1>1, LeastExists
<1>3. m \in T
  <2>1. \A i \in S : f[i] = rows[i].coolingUntil
    OBVIOUS
  <2> QED BY <1>2, <2>1
<1>4. First(T) \in T
  BY <1>3, FirstIn
<1> QED BY <1>4 DEF Soonest

(***************************************************************************)
(* Round-robin: for every k below the size of S one member of S has k      *)
(* others before it.  Among those with at most k before them take the last *)
(* m; if it had fewer than k, the next one would have at most k as well.   *)
(***************************************************************************)
LEMMA PlaceExists ==
  ASSUME NEW S \in SUBSET Identities, NEW k \in Nat, k < Cardinality(S)
  PROVE  \E m \in S : Cardinality(Before(S, m)) = k
<1>1. IsFiniteSet(S) /\ Cardinality(S) \in Nat
  BY IdentitiesAssumption, FS_Subset, FS_CardinalityType
<1>2. \A m \in S : /\ IsFiniteSet(Before(S, m))
                   /\ Cardinality(Before(S, m)) \in Nat
  <2> TAKE m \in S
  <2> Before(S, m) \in SUBSET S
    BY DEF Before
  <2> QED BY <1>1, FS_Subset, FS_CardinalityType
<1>3. LocaleOrder \in [Identities -> Int] /\ OneToOne(LocaleOrder)
  BY OrderAssumption
<1> DEFINE T == {m \in S : Cardinality(Before(S, m)) <= k}
<1>4. T # {}
  <2>1. S # {}
    BY FS_EmptySet
  <2>2. PICK m \in S : \A i \in S : LocaleOrder[m] <= LocaleOrder[i]
    BY <1>3, <2>1, LeastExists
  <2>3. Before(S, m) = {}
    <3> SUFFICES ASSUME NEW i \in S, LocaleOrder[i] < LocaleOrder[m] PROVE FALSE
      BY DEF Before
    <3> LocaleOrder[i] \in Int /\ LocaleOrder[m] \in Int /\ LocaleOrder[m] <= LocaleOrder[i]
      BY <1>3, <2>2
    <3> QED OBVIOUS
  <2>4. Cardinality(Before(S, m)) = 0
    BY <2>3, FS_EmptySet
  <2> QED BY <2>4
<1>5. PICK m \in T : \A i \in T : LocaleOrder[i] <= LocaleOrder[m]
  <2> T \in SUBSET Identities
    OBVIOUS
  <2> HIDE DEF T
  <2> QED BY <1>3, <1>4, GreatestExists
<1>6. ASSUME Cardinality(Before(S, m)) < k PROVE FALSE
  <2> DEFINE B == Before(S, m) \cup {m}
             U == S \ B
  <2>1. m \notin Before(S, m) /\ m \in S
    BY <1>3 DEF Before
  <2>2. IsFiniteSet(B) /\ Cardinality(B) = Cardinality(Before(S, m)) + 1
    BY <1>2, <2>1, FS_AddElement
  <2>3. B # S
    BY <1>1, <1>2, <1>6, <2>1, <2>2
  <2>4. U # {} /\ U \in SUBSET Identities
    BY <2>1, <2>3 DEF Before
  <2>5. PICK n \in U : \A i \in U : LocaleOrder[n] <= LocaleOrder[i]
    <3> HIDE DEF U
    <3> QED BY <1>3, <2>4, LeastExists
  <2>6. LocaleOrder[m] < LocaleOrder[n]
    <3>1. n \in S /\ n # m /\ ~(LocaleOrder[n] < LocaleOrder[m])
      BY <2>5 DEF Before
    <3>2. LocaleOrder[n] # LocaleOrder[m]
      BY <1>3, <2>1, <3>1 DEF OneToOne
    <3>3. LocaleOrder[n] \in Int /\ LocaleOrder[m] \in Int
      BY <1>3, <2>1, <3>1
    <3> QED BY <3>1, <3>2, <3>3
  <2>7. Before(S, n) = B
    <3>1. ASSUME NEW i \in Before(S, n) PROVE i \in B
      <4>1. i \in S /\ LocaleOrder[i] < LocaleOrder[n]
        BY <3>1 DEF Before
      <4>2. i \notin U
        <5> LocaleOrder[i] \in Int /\ LocaleOrder[n] \in Int
          BY <1>3, <2>5, <4>1
        <5> QED BY <2>5, <4>1
      <4> QED BY <4>1, <4>2
    <3>2. ASSUME NEW i \in B PROVE i \in Before(S, n)
      <4>1. i \in S /\ (i = m \/ LocaleOrder[i] < LocaleOrder[m])
        BY <2>1 DEF Before
      <4>2. LocaleOrder[i] \in Int /\ LocaleOrder[m] \in Int /\ LocaleOrder[n] \in Int
        BY <1>3, <2>1, <2>5, <4>1
      <4>3. LocaleOrder[i] < LocaleOrder[n]
        BY <2>6, <4>1, <4>2
      <4> QED BY <4>1, <4>3 DEF Before
    <3> QED BY <3>1, <3>2
  <2>8. n \in T
    <3>1. Cardinality(Before(S, n)) = Cardinality(Before(S, m)) + 1
      BY <2>2, <2>7
    <3>2. Cardinality(Before(S, m)) \in Nat
      BY <1>2, <2>1
    <3> QED BY <1>6, <2>5, <3>1, <3>2
  <2> QED
    <3>1. LocaleOrder[n] <= LocaleOrder[m] /\ LocaleOrder[n] \in Int /\ LocaleOrder[m] \in Int
      BY <1>3, <1>5, <2>5, <2>8
    <3> QED BY <2>6, <3>1
<1>7. m \in S /\ Cardinality(Before(S, m)) <= k /\ Cardinality(Before(S, m)) \in Nat
  BY <1>2
<1> QED BY <1>6, <1>7

LEMMA RoundRobinIn ==
  ASSUME NEW S \in SUBSET Identities, S # {}, NEW s \in Sessions
  PROVE  RoundRobin(S, s) \in S
<1>1. Cardinality(S) \in Nat /\ Cardinality(S) # 0
  BY IdentitiesAssumption, FS_Subset, FS_CardinalityType, FS_EmptySet
<1>2. Bucket[s] \in Nat
  BY HashAssumption
<1> DEFINE k == Bucket[s] % Cardinality(S)
<1>3. k \in Nat /\ k < Cardinality(S)
  BY <1>1, <1>2
<1>4. \E m \in S : Cardinality(Before(S, m)) = k
  <2> HIDE DEF k
  <2> QED BY <1>3, PlaceExists
<1> QED BY <1>4 DEF RoundRobin

(***************************************************************************)
(* selectMember never selects a member that is unavailable, and refuses    *)
(* only when none is available: whatever the strategy, the roster, the     *)
(* hash values and the excluded members.                                   *)
(***************************************************************************)
IsRoster(rows) == DOMAIN rows \subseteq Identities /\ rows \in [DOMAIN rows -> Row]

THEOREM SelectMemberCorrect ==
  ASSUME NEW rows, IsRoster(rows), NEW strategy, NEW s \in Sessions,
         NEW exclude, NEW now \in Nat
  PROVE  LET out == SelectMember(strategy, rows, s, exclude, now)
             usable == AvailableMembers(rows, now) \ exclude
         IN  /\ out.kind = "selected" <=> usable # {}
             /\ out.kind = "selected" => out.who \in usable
             /\ out.kind = "all-cooling" => out.who \in DOMAIN rows
             /\ out.kind = "empty" => out.who = NoOne
             /\ out.kind \in {"selected", "all-cooling", "empty"}
             /\ out.retryAfter \in Nat
<1> DEFINE candidates == Candidates(rows, exclude)
           available  == candidates \cap AvailableMembers(rows, now)
           soonest    == Soonest(candidates, rows)
           out        == SelectMember(strategy, rows, s, exclude, now)
<1>1. /\ candidates \in SUBSET Identities /\ available \in SUBSET Identities
      /\ candidates \subseteq DOMAIN rows
      /\ \A m \in DOMAIN rows : rows[m] \in Row
  BY DEF IsRoster, Candidates
<1>2. available = AvailableMembers(rows, now) \ exclude
  BY DEF Candidates, AvailableMembers, IsMemberAvailable
<1>3. \A m \in DOMAIN rows : /\ rows[m].weight \in Nat /\ rows[m].lastUsedAt \in Nat
                            /\ rows[m].coolingUntil \in Nat
  BY <1>1 DEF Row
<1>4. CASE candidates = {}
  <2>1. out = [kind |-> "empty", who |-> NoOne, retryAfter |-> 0]
    BY <1>4 DEF SelectMember
  <2> QED BY <1>2, <1>4, <2>1
<1>5. CASE candidates # {} /\ available = {}
  <2>1. soonest \in candidates
    BY <1>1, <1>3, <1>5, SoonestIn
  <2>2. RetryAfter(soonest, rows, now) \in Nat
    <3>1. rows[soonest].coolingUntil \in Nat
      BY <1>1, <1>3, <2>1
    <3>2. Second \in Nat \ {0}
      BY SecondAssumption
    <3>3. ASSUME NEW d \in Nat, d > 0 PROVE (d + Second - 1) \div Second \in Nat
      BY <3>2, <3>3
    <3> HIDE DEF soonest
    <3> QED BY <3>1, <3>2, <3>3 DEF RetryAfter, CeilDiv
  <2>3. out = [kind |-> "all-cooling", who |-> soonest,
               retryAfter |-> RetryAfter(soonest, rows, now)]
    BY <1>5 DEF SelectMember
  <2> QED BY <1>1, <1>2, <1>5, <2>1, <2>2, <2>3
<1>6. CASE candidates # {} /\ available # {}
  <2>1. Pick(strategy, available, rows, s) \in available
    <3>1. \A m \in available : m \in DOMAIN rows
      BY <1>1
    <3>2. Rendezvous(available, rows, s) \in available
      BY <1>1, <1>3, <1>6, <3>1, RendezvousIn DEF Highest
    <3>3. LeastRecentlyUsed(available, rows) \in available
      BY <1>1, <1>3, <1>6, <3>1, LeastRecentlyUsedIn
    <3>4. RoundRobin(available, s) \in available
      BY <1>1, <1>6, RoundRobinIn
    <3> HIDE DEF available
    <3> QED BY <3>2, <3>3, <3>4 DEF Pick
  <2>2. out = [kind |-> "selected", who |-> Pick(strategy, available, rows, s),
               retryAfter |-> 0]
    BY <1>6 DEF SelectMember
  <2> QED BY <1>2, <1>6, <2>1, <2>2
<1> QED BY <1>4, <1>5, <1>6
(***************************************************************************)
(* Rendezvous hashing remaps as little as possible, for two rosters that   *)
(* differ at most in member m: a session changes hands only if m lost it   *)
(* or m won it.  Each of two other winners would score as much as the      *)
(* other, and be listed before it.                                         *)
(***************************************************************************)
THEOREM RendezvousMinimalRemap ==
  ASSUME NEW rows1, NEW rows2, NEW S1 \in SUBSET Identities, NEW S2 \in SUBSET Identities,
         NEW m, NEW s \in Sessions, S1 # {}, S2 # {}, S1 \ {m} = S2 \ {m},
         \A i \in S1 : rows1[i].weight \in Nat,
         \A i \in S2 : rows2[i].weight \in Nat,
         \A i \in S1 \ {m} : rows1[i].weight = rows2[i].weight
  PROVE  \/ Rendezvous(S1, rows1, s) = Rendezvous(S2, rows2, s)
         \/ m \in {Rendezvous(S1, rows1, s), Rendezvous(S2, rows2, s)}
<1> DEFINE w1 == Rendezvous(S1, rows1, s)
           w2 == Rendezvous(S2, rows2, s)
           H1 == Highest(S1, rows1, s)
           H2 == Highest(S2, rows2, s)
<1> SUFFICES ASSUME w1 # m, w2 # m PROVE w1 = w2
  OBVIOUS
<1>1. w1 \in H1 /\ w2 \in H2
  BY RendezvousIn
<1>2. w1 \in S1 /\ w2 \in S1 /\ w1 \in S2 /\ w2 \in S2
  BY <1>1 DEF Highest
<1>3. /\ WeightedScore(rows1, s, w1) = WeightedScore(rows2, s, w1)
      /\ WeightedScore(rows1, s, w2) = WeightedScore(rows2, s, w2)
  BY <1>2 DEF WeightedScore
<1>4. \A i \in S1 : WeightedScore(rows1, s, i) \in Int
  BY HashAssumption DEF WeightedScore
<1>5. \A i \in S2 : WeightedScore(rows2, s, i) \in Int
  BY HashAssumption DEF WeightedScore
<1>6. WeightedScore(rows1, s, w1) = WeightedScore(rows1, s, w2)
  <2>1. WeightedScore(rows1, s, w2) <= WeightedScore(rows1, s, w1)
    BY <1>1, <1>2 DEF Highest
  <2>2. WeightedScore(rows2, s, w1) <= WeightedScore(rows2, s, w2)
    BY <1>1, <1>2 DEF Highest
  <2> QED BY <1>2, <1>3, <1>4, <2>1, <2>2
<1>7. w2 \in H1 /\ w1 \in H2
  BY <1>1, <1>2, <1>3, <1>6 DEF Highest
<1>8. /\ \A i \in H1 : ListOrder[w1] <= ListOrder[i]
      /\ \A i \in H2 : ListOrder[w2] <= ListOrder[i]
  <2>1. H1 \in SUBSET Identities /\ H2 \in SUBSET Identities
    BY DEF Highest
  <2> QED BY <1>1, <2>1, FirstIn DEF Rendezvous
<1>9. ListOrder[w1] = ListOrder[w2]
  <2>1. ListOrder[w1] \in Nat /\ ListOrder[w2] \in Nat
    BY <1>2, OrderAssumption
  <2>2. ListOrder[w1] <= ListOrder[w2] /\ ListOrder[w2] <= ListOrder[w1]
    BY <1>7, <1>8
  <2> HIDE DEF w1, w2
  <2> QED BY <2>1, <2>2
<1> QED BY <1>2, <1>9, OrderAssumption DEF OneToOne
(***************************************************************************)
(* The wait: CeilDiv rounds up, so that as many seconds are enough and one *)
(* second less is not.                                                     *)
(***************************************************************************)
LEMMA CeilDivTight ==
  ASSUME NEW n \in Nat \ {0}
  PROVE  /\ CeilDiv(n, Second) \in Nat
         /\ n <= CeilDiv(n, Second) * Second
         /\ (CeilDiv(n, Second) - 1) * Second < n
<1> DEFINE k == n + Second - 1
           q == k \div Second
<1>1. Second \in Nat /\ Second > 0 /\ k \in Nat
  BY SecondAssumption
<1>2. q \in Nat /\ k % Second \in 0 .. (Second - 1) /\ k = Second * q + (k % Second)
  BY <1>1, Z3
<1>3. Second * q = q * Second /\ (q - 1) * Second = q * Second - Second
  BY <1>1, <1>2
<1> QED BY <1>1, <1>2, <1>3 DEF CeilDiv

\* When every candidate is cooling, the wait that is named is enough for the
\* member that is named, and one second less is enough for nobody: of all
\* rosters, clocks and excluded members (selectMember, PoolAllCoolingError).
THEOREM RetryAfterTight ==
  ASSUME NEW rows, IsRoster(rows), NEW strategy, NEW s \in Sessions,
         NEW exclude, NEW now \in Nat
  PROVE  LET out == SelectMember(strategy, rows, s, exclude, now)
         IN  out.kind = "all-cooling" =>
               /\ out.who \in AvailableMembers(rows, now + out.retryAfter * Second)
               /\ AvailableMembers(rows, now + (out.retryAfter - 1) * Second) \subseteq exclude
<1> DEFINE candidates == Candidates(rows, exclude)
           available  == candidates \cap AvailableMembers(rows, now)
           soonest    == Soonest(candidates, rows)
           wait       == RetryAfter(soonest, rows, now)
           until      == rows[soonest].coolingUntil
<1>1. /\ candidates \in SUBSET Identities /\ candidates \subseteq DOMAIN rows
      /\ \A m \in DOMAIN rows : rows[m] \in Row
  BY DEF IsRoster, Candidates
<1>2. \A m \in DOMAIN rows : rows[m].coolingUntil \in Nat /\ rows[m].state \in MemberStates
  BY <1>1 DEF Row
<1> SUFFICES ASSUME candidates # {}, available = {}
             PROVE  /\ soonest \in AvailableMembers(rows, now + wait * Second)
                    /\ AvailableMembers(rows, now + (wait - 1) * Second) \subseteq exclude
  BY DEF SelectMember
<1>3. /\ soonest \in candidates
      /\ \A i \in candidates : until <= rows[i].coolingUntil
  BY <1>1, <1>2, SoonestIn
<1>4. \A i \in candidates : /\ rows[i].state = "cooling"
                            /\ rows[i].coolingUntil # NoTime /\ rows[i].coolingUntil > now
  BY <1>1, <1>2 DEF Candidates, AvailableMembers, IsMemberAvailable, MemberStates, NoTime
<1>5. until \in Nat /\ until > now /\ soonest \in DOMAIN rows
  BY <1>1, <1>2, <1>3, <1>4
<1> HIDE DEF soonest, candidates
<1>6. /\ wait \in Nat /\ until - now <= wait * Second /\ (wait - 1) * Second < until - now
  <2>1. until - now \in Nat \ {0} /\ wait = CeilDiv(until - now, Second)
    BY <1>5 DEF RetryAfter
  <2> HIDE DEF wait, until
  <2> QED BY <2>1, CeilDivTight
<1>7. wait * Second \in Int /\ (wait - 1) * Second \in Int
  BY <1>6, SecondAssumption
<1> HIDE DEF wait
<1>8. soonest \in AvailableMembers(rows, now + wait * Second)
  BY <1>3, <1>4, <1>5, <1>6, <1>7 DEF AvailableMembers, IsMemberAvailable
<1>9. ASSUME NEW i \in AvailableMembers(rows, now + (wait - 1) * Second) PROVE i \in exclude
  <2>1. i \in DOMAIN rows /\ IsMemberAvailable(rows[i], now + (wait - 1) * Second)
    BY <1>9 DEF AvailableMembers
  <2>2. rows[i].state # "disabled"
    BY <2>1 DEF IsMemberAvailable
  <2>3. SUFFICES ASSUME i \in candidates PROVE FALSE
    BY <2>1, <2>2 DEF candidates, Candidates
  <2>4. until <= rows[i].coolingUntil /\ rows[i].coolingUntil \in Nat
    BY <1>2, <1>3, <2>1, <2>3
  <2>5. rows[i].coolingUntil <= now + (wait - 1) * Second
    BY <1>4, <2>1, <2>3 DEF IsMemberAvailable
  <2> HIDE DEF until
  <2> QED BY <1>5, <1>6, <1>7, <2>4, <2>5
<1> QED BY <1>8, <1>9

-----------------------------------------------------------------------------
(* The account pool. *)

(***************************************************************************)
(* The inductive invariant.  What the record of a handler says by itself:  *)
(* a selection that was kept is one of the members that were available in  *)
(* the listing, and there is none only if none was.                        *)
(***************************************************************************)
Kept(q) == /\ q.plan.kind = "selected" => q.plan.who \in q.avail
           /\ q.plan.kind # "selected" => q.avail = {}

HandlerOK(q) ==
  /\ q.pc \in Resolving => q.pool \in PoolSettings /\ q.session \in Sessions
  /\ q.pc \in {"lookup", "clear", "bind"} => Kept(q)
  /\ q.pc = "bind" => q.plan.kind = "selected"
  /\ q.pc = "renew" => q.who \in q.avail
  /\ q.pc \in Serving => q.who \in Names
  /\ q.pc = "mark" => q.pool \in PoolSettings
  /\ q.pc \in {"retire", "reject"} => q.answer = "unauthorized"
  /\ q.pc # "done" => q.answer \notin Refusals

\* A member that has been usable all along is not cooling past the moment the
\* request found the pool: a cooldown that was set since then is still running.
NotCooling(m, since) ==
  /\ m \in Usable
  /\ members[m].state = "cooling" => members[m].coolingUntil <= since

HistoryOK(r) ==
  /\ req[r].pc \in Resolving => req[r].since <= clock
  /\ req[r].pc \in Resolving \cup {"auth"} =>
       Usable \subseteq seen[r] /\ req[r].avail \subseteq seen[r]
  /\ req[r].pc = "auth" /\ req[r].pool # NoPool => req[r].who \in seen[r]
  /\ req[r].pc = "list" => \A m \in steady[r] : NotCooling(m, req[r].since)
  /\ req[r].pc \in {"lookup", "clear"} /\ req[r].plan.kind # "selected" => steady[r] = {}
  /\ req[r].pc = "done" /\ req[r].answer \in Refusals => steady[r] = {}

OperatorOK == op.pc # "idle" => op.who \in Identities

IInv == /\ TypeOK /\ OperatorOK
        /\ \A r \in Requests : HandlerOK(req[r]) /\ HistoryOK(r)

(***************************************************************************)
(* What one step of a handler makes of its record.                         *)
(***************************************************************************)
Progress(r, q) ==
  /\ q \in Request /\ HandlerOK(q) /\ q.pc # "idle"
  /\ q.pc = "list" => req[r].pc = "idle" /\ q.since = clock /\ q.avail = {}
  /\ q.pc \in Resolving \ {"list"} =>
       /\ req[r].pc \in Resolving /\ q.since = req[r].since
       /\ q.avail \subseteq req[r].avail \cup Usable
  /\ q.pc = "auth" => /\ req[r].pc \in Resolving \cup {"idle"} /\ q.avail = {}
                      /\ q.pool # NoPool => /\ req[r].pc \in Resolving
                                            /\ q.who \in req[r].avail \cup Usable
  /\ \/ q.pc \in {"lookup", "clear"} /\ q.plan.kind # "selected"
     \/ q.pc = "done" /\ q.answer \in Refusals
     => \/ req[r].pc = "list" /\ AvailableMembers(members, req[r].since) = {}
        \/ req[r].pc \in {"lookup", "clear"} /\ req[r].plan.kind # "selected"

LEMMA FinishType ==
  ASSUME NEW q \in Request, NEW answer \in Answers
  PROVE  /\ Finish(q, answer) \in Request /\ HandlerOK(Finish(q, answer))
         /\ Finish(q, answer).pc = "done" /\ Finish(q, answer).answer = answer
<1> DEFINE f == Finish(q, answer)
<1>1. NoPlan \in Plan
  BY DEF NoPlan, Plan
<1>2. f = [pc |-> "done", route |-> q.route, session |-> q.session, since |-> 0,
           pool |-> NoPool, avail |-> {}, plan |-> NoPlan, who |-> q.who,
           tok |-> q.tok, answer |-> answer]
  BY DEF Finish, Request
<1>3. f \in Request
  BY <1>1, <1>2 DEF Request
<1>4. f.pc = "done" /\ f.answer = answer
  BY <1>2
<1>5. HandlerOK(f)
  <2> HIDE DEF f
  <2> QED BY <1>4 DEF HandlerOK, Resolving, Serving
<1> QED BY <1>3, <1>4, <1>5

LEMMA ResolveType ==
  ASSUME NEW q \in Request, NEW who \in Names, q.answer \notin Refusals
  PROVE  /\ Resolve(q, who) \in Request /\ HandlerOK(Resolve(q, who))
         /\ Resolve(q, who).pc = "auth" /\ Resolve(q, who).avail = {}
         /\ Resolve(q, who).who = who /\ Resolve(q, who).pool = q.pool
<1> DEFINE f == Resolve(q, who)
<1>1. NoPlan \in Plan
  BY DEF NoPlan, Plan
<1>2. f = [pc |-> "auth", route |-> q.route, session |-> q.session, since |-> 0,
           pool |-> q.pool, avail |-> {}, plan |-> NoPlan, who |-> who,
           tok |-> q.tok, answer |-> q.answer]
  BY DEF Resolve, Request
<1>3. f \in Request
  BY <1>1, <1>2 DEF Request, Serving
<1>4. f.pc = "auth" /\ f.avail = {} /\ f.who = who /\ f.pool = q.pool /\ f.answer = q.answer
  BY <1>2
<1>5. HandlerOK(f)
  <2> HIDE DEF f
  <2> QED BY <1>4 DEF HandlerOK, Resolving, Serving
<1> QED BY <1>3, <1>4, <1>5

\* A listed member that was available at a moment before is available now, and
\* one that was not cooling at a moment before was available after it.
LEMMA AvailableLater ==
  ASSUME NEW rows, IsRoster(rows), NEW t \in Nat, NEW u \in Nat, t <= u
  PROVE  AvailableMembers(rows, t) \subseteq AvailableMembers(rows, u)
<1> SUFFICES ASSUME NEW m \in AvailableMembers(rows, t) PROVE m \in AvailableMembers(rows, u)
  OBVIOUS
<1>1. m \in DOMAIN rows /\ rows[m].coolingUntil \in Nat
  BY DEF AvailableMembers, IsRoster, Row
<1> QED BY <1>1 DEF AvailableMembers, IsMemberAvailable

LEMMA UsableIsAvailable ==
  ASSUME TypeOK
  PROVE  Usable = AvailableMembers(members, clock)
<1>1. \A m \in DOMAIN members : members[m].state \in MemberStates /\ members[m].coolingUntil \in Nat
  BY DEF TypeOK, Row
<1> QED BY <1>1 DEF Usable, AvailableMembers, IsMemberAvailable, MemberStates, TypeOK, NoTime

LEMMA DecideType ==
  ASSUME NEW q \in Request, Kept(q), q.pool \in PoolSettings, q.session \in Sessions,
         q.answer \notin Refusals, q.pc \in Resolving
  PROVE  LET d == Decide(q)
         IN  /\ d \in Request /\ HandlerOK(d)
             /\ d.pc \in {"done", "bind", "auth"}
             /\ d.pc = "bind" => d.since = q.since /\ d.avail = q.avail
             /\ d.pc = "auth" => d.avail = {} /\ d.who \in q.avail
             /\ d.pc = "done" => q.plan.kind # "selected"
<1>1. CASE q.plan.kind # "selected"
  <2>1. q.plan.kind \in Answers
    BY <1>1 DEF Request, Plan, Answers, Refusals
  <2> QED BY <1>1, <2>1, FinishType DEF Decide
<1>2. CASE q.plan.kind = "selected" /\ q.pool.strategy = "sticky-affinity"
  <2>1. Decide(q) = [q EXCEPT !.pc = "bind"]
    BY <1>2 DEF Decide
  <2> QED BY <1>2, <2>1 DEF Request, HandlerOK, Kept, Resolving, Serving
<1>3. CASE q.plan.kind = "selected" /\ q.pool.strategy # "sticky-affinity"
  <2>1. q.plan.who \in q.avail /\ q.avail \subseteq Identities
    BY <1>3 DEF Kept, Request
  <2>2. q.plan.who \in Names
    BY <2>1 DEF Names
  <2>3. Decide(q) = Resolve(q, q.plan.who)
    BY <1>3 DEF Decide
  <2> QED BY <2>1, <2>2, <2>3, ResolveType
<1> QED BY <1>1, <1>2, <1>3

LEMMA FindPoolType ==
  ASSUME TypeOK
  PROVE  /\ FindPool \in PoolSettings \cup {NoPool}
         /\ FindPool # NoPool => FindPool \in PoolSettings
BY DEF TypeOK, FindPool

LEMMA AfterCheckFailureType ==
  ASSUME NEW q \in Request, q.who \in Names, q.answer \notin Refusals
  PROVE  LET d == AfterCheckFailure(q)
         IN  d \in Request /\ HandlerOK(d) /\ d.pc \in {"done", "note"} /\ d.answer \notin Refusals
<1>1. q.answer \in Answers
  BY DEF Request
<1>2. CASE q.route = "models" \/ q.pool = NoPool
  BY <1>1, <1>2, FinishType DEF AfterCheckFailure
<1>3. CASE ~(q.route = "models" \/ q.pool = NoPool)
  <2>1. AfterCheckFailure(q) = [q EXCEPT !.pc = "note"]
    BY <1>3 DEF AfterCheckFailure
  <2> QED BY <2>1 DEF Request, HandlerOK, Resolving, Serving
<1> QED BY <1>2, <1>3

LEMMA AfterAnswerType ==
  ASSUME NEW q \in Request, q.who \in Names, q.answer \notin Refusals
  PROVE  LET d == AfterAnswer(q)
         IN  d \in Request /\ HandlerOK(d) /\ d.pc \in {"done", "report"} /\ d.answer \notin Refusals
<1>1. q.answer \in Answers
  BY DEF Request
<1>2. CASE (q.route = "count" /\ q.answer = "unsupported") \/ q.pool = NoPool
  BY <1>1, <1>2, FinishType DEF AfterAnswer
<1>3. CASE ~((q.route = "count" /\ q.answer = "unsupported") \/ q.pool = NoPool)
  <2>1. AfterAnswer(q) = [q EXCEPT !.pc = "report"]
    BY <1>3 DEF AfterAnswer
  <2> QED BY <2>1 DEF Request, HandlerOK, Resolving, Serving
<1> QED BY <1>2, <1>3

\* Once it is being served, a request is beyond everything Progress restrains.
LEMMA ServingProgress ==
  ASSUME NEW r \in Requests, NEW q \in Request, HandlerOK(q),
         q.pc \in (Serving \ {"auth"}) \cup {"done"}, q.answer \notin Refusals
  PROVE  Progress(r, q)
BY DEF Progress, Resolving, Serving

LEMMA ArriveProgress ==
  ASSUME IInv, NEW r \in Requests, Arrive(r)
  PROVE  \E q : Progress(r, q) /\ req' = [req EXCEPT ![r] = q]
<1>1. PICK s \in Sessions, route \in Routes :
        LET q == [pc |-> "list", route |-> route, session |-> s, since |-> clock,
                  pool |-> FindPool, avail |-> {}, plan |-> NoPlan, who |-> NoOne,
                  tok |-> NoToken, answer |-> "none"]
        IN  req' = [req EXCEPT ![r] = IF FindPool = NoPool THEN Resolve(q, PoolName) ELSE q]
  BY DEF Arrive, Become
<1> DEFINE q == [pc |-> "list", route |-> route, session |-> s, since |-> clock,
                 pool |-> FindPool, avail |-> {}, plan |-> NoPlan, who |-> NoOne,
                 tok |-> NoToken, answer |-> "none"]
<1>2. At(r, "idle") /\ TypeOK /\ clock \in Nat
  BY DEF Arrive, IInv, TypeOK
<1>3. q \in Request
  <2>1. NoToken \in (Names \cup {NoOne}) \X Nat
    BY DEF NoToken
  <2>2. NoPlan \in Plan
    BY DEF NoPlan, Plan
  <2>3. "none" \in Answers
    BY DEF Answers
  <2> QED BY <1>2, <2>1, <2>2, <2>3, FindPoolType DEF Request, Resolving
<1>4. CASE FindPool = NoPool
  <2>1. PoolName \in Names /\ q.answer \notin Refusals /\ q.pool = NoPool
    BY <1>4 DEF Names, Refusals
  <2>2. /\ Resolve(q, PoolName) \in Request /\ HandlerOK(Resolve(q, PoolName))
        /\ Resolve(q, PoolName).pc = "auth" /\ Resolve(q, PoolName).avail = {}
        /\ Resolve(q, PoolName).pool = NoPool
    <3> HIDE DEF q
    <3> QED BY <1>3, <2>1, ResolveType
  <2>3. Progress(r, Resolve(q, PoolName))
    <3> HIDE DEF q
    <3> QED BY <1>2, <2>2 DEF Progress, At, Resolving
  <2>4. req' = [req EXCEPT ![r] = Resolve(q, PoolName)]
    BY <1>1, <1>4
  <2> HIDE DEF q
  <2> QED BY <2>3, <2>4
<1>5. CASE FindPool # NoPool
  <2>1. FindPool \in PoolSettings
    BY <1>2, <1>5, FindPoolType
  <2>2. HandlerOK(q)
    BY <2>1 DEF HandlerOK, Resolving, Serving, Refusals
  <2>3. Progress(r, q)
    BY <1>2, <1>3, <2>2 DEF Progress, At, Resolving
  <2>4. req' = [req EXCEPT ![r] = q]
    BY <1>1, <1>5
  <2> HIDE DEF q
  <2> QED BY <2>3, <2>4
<1> QED BY <1>4, <1>5

LEMMA ListProgress ==
  ASSUME IInv, NEW r \in Requests, ListMembers(r)
  PROVE  \E q : Progress(r, q) /\ req' = [req EXCEPT ![r] = q]
<1> DEFINE p == req[r]
<1>1. /\ TypeOK /\ p \in Request /\ p.pc = "list" /\ HandlerOK(p) /\ p.since <= clock
      /\ p.since \in Nat /\ clock \in Nat /\ IsRoster(members)
  BY DEF IInv, TypeOK, ListMembers, At, HistoryOK, Request, IsRoster, Resolving
<1>2. PICK now \in p.since .. clock :
        LET plan == SelectMember(p.pool.strategy, members, p.session, {}, now)
            q    == [p EXCEPT !.avail = AvailableMembers(members, now), !.plan = plan]
        IN  req' = [req EXCEPT ![r] =
                      IF DOMAIN members = {} THEN Finish(q, "empty")
                      ELSE IF q.pool.strategy = "sticky-affinity"
                        THEN [q EXCEPT !.pc = "lookup"]
                      ELSE Decide(q)]
  BY DEF ListMembers, Become
<1> DEFINE plan  == SelectMember(p.pool.strategy, members, p.session, {}, now)
           avail == AvailableMembers(members, now)
           q     == [p EXCEPT !.avail = avail, !.plan = plan]
<1>3. now \in Nat /\ p.since <= now /\ now <= clock
  BY <1>1
<1>4. p.session \in Sessions /\ p.pool \in PoolSettings /\ p.answer \notin Refusals
  BY <1>1 DEF HandlerOK, Resolving
<1>5. avail \in SUBSET Identities
  BY <1>1 DEF AvailableMembers, IsRoster
<1>6. /\ plan \in Plan
      /\ plan.kind = "selected" => plan.who \in avail
      /\ plan.kind # "selected" => avail = {}
  <2> DEFINE out == SelectMember(p.pool.strategy, members, p.session, {}, now)
             usable == AvailableMembers(members, now) \ {}
  <2>1. /\ out.kind = "selected" <=> usable # {}
        /\ out.kind = "selected" => out.who \in usable
        /\ out.kind = "all-cooling" => out.who \in DOMAIN members
        /\ out.kind = "empty" => out.who = NoOne
        /\ out.kind \in {"selected", "all-cooling", "empty"}
        /\ out.retryAfter \in Nat
    BY <1>1, <1>3, <1>4, SelectMemberCorrect
  <2>2. out = [kind |-> out.kind, who |-> out.who, retryAfter |-> out.retryAfter]
    BY DEF SelectMember
  <2>3. out.who \in Identities \cup {NoOne}
    BY <1>1, <1>5, <2>1 DEF IsRoster
  <2>4. out \in Plan
    <3> HIDE DEF out
    <3> QED BY <2>1, <2>2, <2>3 DEF Plan
  <2> QED BY <2>1, <2>4
<1> HIDE DEF plan, avail
<1>7. q \in Request
  BY <1>1, <1>5, <1>6 DEF Request
<1>8. /\ q.plan = plan /\ q.avail = avail /\ q.pc = p.pc /\ q.pool = p.pool
      /\ q.session = p.session /\ q.since = p.since /\ q.answer = p.answer
  BY <1>1 DEF Request
<1>9. avail \subseteq Usable
  BY <1>1, <1>3, AvailableLater, UsableIsAvailable DEF avail
<1>10. avail = {} => AvailableMembers(members, p.since) = {}
  BY <1>1, <1>3, AvailableLater DEF avail
<1>11. CASE DOMAIN members = {}
  <2>1. AvailableMembers(members, p.since) = {}
    BY <1>11 DEF AvailableMembers
  <2>2. "empty" \in Answers
    BY DEF Answers, Refusals
  <2>3. Progress(r, Finish(q, "empty"))
    <3> HIDE DEF q
    <3>1. /\ Finish(q, "empty") \in Request /\ HandlerOK(Finish(q, "empty"))
          /\ Finish(q, "empty").pc = "done"
      BY <1>7, <2>2, FinishType
    <3> QED BY <1>1, <2>1, <3>1 DEF Progress, Resolving
  <2>4. req' = [req EXCEPT ![r] = Finish(q, "empty")]
    BY <1>2, <1>11 DEF plan, avail
  <2> HIDE DEF q
  <2> QED BY <2>3, <2>4
<1>12. CASE DOMAIN members # {} /\ q.pool.strategy = "sticky-affinity"
  <2> DEFINE d == [q EXCEPT !.pc = "lookup"]
  <2>1. d \in Request /\ d.pc = "lookup" /\ d.plan = plan /\ d.avail = avail
        /\ d.since = p.since /\ d.session = p.session /\ d.pool = p.pool
        /\ d.answer = p.answer
    <3> HIDE DEF q
    <3> QED BY <1>7, <1>8 DEF Request, Resolving
  <2>2. req' = [req EXCEPT ![r] = d]
    BY <1>2, <1>12 DEF plan, avail
  <2> HIDE DEF d, q
  <2>3. HandlerOK(d)
    BY <1>4, <1>6, <2>1 DEF HandlerOK, Kept, Resolving, Serving
  <2>4. Progress(r, d)
    BY <1>1, <1>6, <1>9, <1>10, <2>1, <2>3 DEF Progress, Resolving
  <2> QED BY <2>2, <2>4
<1>13. CASE DOMAIN members # {} /\ q.pool.strategy # "sticky-affinity"
  <2>1. req' = [req EXCEPT ![r] = Decide(q)]
    BY <1>2, <1>13 DEF plan, avail
  <2> HIDE DEF q
  <2>2. Kept(q)
    BY <1>6, <1>8 DEF Kept
  <2> DEFINE d == Decide(q)
  <2>3. /\ d \in Request /\ HandlerOK(d) /\ d.pc \in {"done", "bind", "auth"}
        /\ d.pc = "bind" => d.since = q.since /\ d.avail = q.avail
        /\ d.pc = "auth" => d.avail = {} /\ d.who \in q.avail
        /\ d.pc = "done" => q.plan.kind # "selected"
    BY <1>1, <1>4, <1>7, <1>8, <2>2, DecideType DEF Resolving
  <2> HIDE DEF d
  <2>4. Progress(r, d)
    BY <1>1, <1>6, <1>8, <1>9, <1>10, <2>3 DEF Progress, Resolving
  <2> QED BY <2>1, <2>4 DEF d
<1> QED BY <1>11, <1>12, <1>13
\* Leaving "lookup" or "clear" with the selection made on the listing.
LEMMA DecideProgress ==
  ASSUME IInv, NEW r \in Requests, req[r].pc \in {"lookup", "clear"}
  PROVE  Progress(r, Decide(req[r]))
<1> DEFINE p == req[r]
           d == Decide(p)
<1>1. /\ p \in Request /\ Kept(p) /\ p.pool \in PoolSettings /\ p.session \in Sessions
      /\ p.answer \notin Refusals /\ p.pc \in Resolving
  BY DEF IInv, TypeOK, HandlerOK, Resolving
<1>2. /\ d \in Request /\ HandlerOK(d) /\ d.pc \in {"done", "bind", "auth"}
      /\ d.pc = "bind" => d.since = p.since /\ d.avail = p.avail
      /\ d.pc = "auth" => d.avail = {} /\ d.who \in p.avail
      /\ d.pc = "done" => p.plan.kind # "selected"
  BY <1>1, DecideType
<1> HIDE DEF d
<1>3. Progress(r, d)
  BY <1>1, <1>2 DEF Progress, Resolving
<1> QED BY <1>3 DEF d

\* Leaving "renew" or "bind" with the member whose binding was written.
LEMMA ResolveProgress ==
  ASSUME IInv, NEW r \in Requests, req[r].pc \in {"renew", "bind"},
         NEW who \in req[r].avail
  PROVE  Progress(r, Resolve(req[r], who))
<1> DEFINE p == req[r]
           d == Resolve(p, who)
<1>1. p \in Request /\ p.answer \notin Refusals /\ p.pc \in Resolving
  BY DEF IInv, TypeOK, HandlerOK, Resolving
<1>2. who \in Names
  BY <1>1 DEF Request, Names
<1>3. d \in Request /\ HandlerOK(d) /\ d.pc = "auth" /\ d.avail = {} /\ d.who = who
  BY <1>1, <1>2, ResolveType
<1> HIDE DEF d
<1>4. Progress(r, d)
  BY <1>1, <1>3 DEF Progress, Resolving
<1> QED BY <1>4 DEF d

LEMMA LookupProgress ==
  ASSUME IInv, NEW r \in Requests, LookupAffinity(r)
  PROVE  \E q : Progress(r, q) /\ req' = [req EXCEPT ![r] = q]
<1> DEFINE p == req[r]
           s == p.session
<1>1. p \in Request /\ p.pc = "lookup" /\ HandlerOK(p) /\ TypeOK
  BY DEF IInv, TypeOK, LookupAffinity, At
<1>2. CASE ~LiveBinding(s)
  <2>1. req' = [req EXCEPT ![r] = Decide(p)]
    BY <1>2 DEF LookupAffinity, Become
  <2> QED BY <1>1, <2>1, DecideProgress
<1>3. CASE LiveBinding(s) /\ affinity[s].who \in p.avail
  <2> DEFINE d == [p EXCEPT !.pc = "renew", !.who = affinity[s].who]
  <2>1. req' = [req EXCEPT ![r] = d]
    BY <1>3 DEF LookupAffinity, Become
  <2>2. affinity[s].who \in Names
    BY <1>1, <1>3 DEF Names, Request
  <2>3. d \in Request /\ d.pc = "renew" /\ d.who \in d.avail /\ d.avail = p.avail
        /\ d.since = p.since /\ d.pool = p.pool /\ d.session = p.session
        /\ d.answer = p.answer
    BY <1>1, <1>3, <2>2 DEF Request, Resolving
  <2> HIDE DEF d
  <2>4. HandlerOK(d)
    BY <1>1, <2>3 DEF HandlerOK, Resolving, Serving
  <2>5. Progress(r, d)
    BY <1>1, <2>3, <2>4 DEF Progress, Resolving
  <2> QED BY <2>1, <2>5
<1>4. CASE LiveBinding(s) /\ affinity[s].who \notin p.avail
  <2> DEFINE d == [p EXCEPT !.pc = "clear"]
  <2>1. req' = [req EXCEPT ![r] = d]
    BY <1>4 DEF LookupAffinity, Become
  <2>2. d \in Request /\ d.pc = "clear" /\ d.avail = p.avail /\ d.plan = p.plan
        /\ d.since = p.since /\ d.pool = p.pool /\ d.session = p.session
        /\ d.answer = p.answer
    BY <1>1 DEF Request, Resolving
  <2> HIDE DEF d
  <2>3. HandlerOK(d)
    BY <1>1, <2>2 DEF HandlerOK, Kept, Resolving, Serving
  <2>4. Progress(r, d)
    BY <1>1, <2>2, <2>3 DEF Progress, Resolving
  <2> QED BY <2>1, <2>4
<1> QED BY <1>2, <1>3, <1>4

LEMMA GetAuthProgress ==
  ASSUME IInv, NEW r \in Requests, GetAuth(r)
  PROVE  \E q : Progress(r, q) /\ req' = [req EXCEPT ![r] = q]
<1> DEFINE p == req[r]
           n == p.who
           answer == IF accounts[n].status \in {"absent", "refreshing"}
                       THEN "initializing" ELSE "not-ready"
<1>1. p \in Request /\ p.pc = "auth" /\ n \in Names /\ p.answer \notin Refusals /\ TypeOK
  BY DEF IInv, TypeOK, GetAuth, At, HandlerOK, Serving
<1>2. CASE accounts[n].status = "valid"
  <2> DEFINE d == [p EXCEPT !.pc = "check", !.tok = Token(n)]
  <2>1. req' = [req EXCEPT ![r] = d]
    BY <1>2 DEF GetAuth, Become
  <2>2. Token(n) \in (Names \cup {NoOne}) \X Nat
    BY <1>1 DEF Token, TypeOK, Account
  <2>3. d \in Request /\ d.pc = "check" /\ d.who = n /\ d.answer = p.answer
    BY <1>1, <2>2 DEF Request, Serving
  <2> HIDE DEF d
  <2>4. HandlerOK(d)
    BY <1>1, <2>3 DEF HandlerOK, Resolving, Serving
  <2>5. Progress(r, d)
    BY <1>1, <2>3, <2>4, ServingProgress DEF Serving
  <2> QED BY <2>1, <2>5
<1>3. CASE accounts[n].status # "valid"
  <2>1. req' = [req EXCEPT ![r] = Finish(p, answer)]
    BY <1>3 DEF GetAuth, Become
  <2>2. answer \in Answers /\ answer \notin Refusals
    BY DEF Answers, Refusals
  <2> HIDE DEF answer
  <2>3. Progress(r, Finish(p, answer))
    BY <1>1, <2>2, FinishType, ServingProgress
  <2> QED BY <2>1, <2>3
<1> QED BY <1>2, <1>3

\* The steps that follow: what a handler does with the upstream's answers.
LEMMA ServeProgress ==
  ASSUME IInv, NEW r \in Requests,
         \/ ModelAccepted(r) \/ ModelRejected(r) \/ Retire(r) \/ NotePoolFailure(r)
         \/ ReportMemberFailure(r) \/ Unreachable(r) \/ UpstreamAnswer(r)
         \/ RejectClientName(r) \/ ReportMemberSuccess(r)
  PROVE  \E q : Progress(r, q) /\ req' = [req EXCEPT ![r] = q]
<1> DEFINE p == req[r]
<1>1. p \in Request /\ HandlerOK(p) /\ TypeOK
  BY DEF IInv, TypeOK
<1>2. p.pc \in Serving /\ p.who \in Names /\ p.answer \in Answers \ Refusals
  BY <1>1 DEF HandlerOK, Serving, Request, ModelAccepted, ModelRejected, Retire, NotePoolFailure,
      ReportMemberFailure, Unreachable, UpstreamAnswer, RejectClientName, ReportMemberSuccess, At
<1>3. ASSUME NEW a \in Answers \ Refusals PROVE Progress(r, Finish(p, a))
  BY <1>1, <1>3, FinishType, ServingProgress
<1>4. ASSUME NEW pc \in {"check", "retire", "note", "send", "reject", "report"},
             NEW a \in Answers \ Refusals, pc \in {"retire", "reject"} => a = "unauthorized"
      PROVE  LET d == [p EXCEPT !.pc = pc, !.answer = a]
             IN  d \in Request /\ Progress(r, d) /\ d.who \in Names /\ d.answer \notin Refusals
  <2> DEFINE d == [p EXCEPT !.pc = pc, !.answer = a]
  <2>1. d \in Request /\ d.pc = pc /\ d.who = p.who /\ d.answer = a
    BY <1>1, <1>4 DEF Request, Serving
  <2> HIDE DEF d
  <2>2. HandlerOK(d)
    BY <1>2, <1>4, <2>1 DEF HandlerOK, Resolving, Serving
  <2>3. Progress(r, d)
    BY <2>1, <2>2, ServingProgress DEF Serving
  <2> QED BY <1>2, <2>1, <2>3 DEF d
<1>5. ASSUME NEW q \in Request, q.who \in Names, q.answer \notin Refusals
      PROVE  Progress(r, AfterCheckFailure(q)) /\ Progress(r, AfterAnswer(q))
  BY <1>5, AfterCheckFailureType, AfterAnswerType, ServingProgress DEF Serving
<1>6. CASE ModelAccepted(r)
  <2>1. CASE p.route = "models"
    <3>1. req' = [req EXCEPT ![r] = Finish(p, "ok")]
      BY <1>6, <2>1 DEF ModelAccepted, Become
    <3>2. "ok" \in Answers \ Refusals
      BY DEF Answers, UpstreamAnswers, Refusals
    <3> QED BY <1>3, <3>1, <3>2
  <2>2. CASE p.route # "models"
    <3>1. req' = [req EXCEPT ![r] = [p EXCEPT !.pc = "send"]]
      BY <1>6, <2>2 DEF ModelAccepted, Become
    <3>2. [p EXCEPT !.pc = "send"] = [p EXCEPT !.pc = "send", !.answer = p.answer]
      BY <1>1 DEF Request
    <3> QED BY <1>2, <1>4, <3>1, <3>2
  <2> QED BY <2>1, <2>2
<1>7. CASE ModelRejected(r)
  <2>1. PICK e \in CheckFailures :
          LET q == [p EXCEPT !.answer = e]
          IN  req' = [req EXCEPT ![r] = IF e = "unauthorized" THEN [q EXCEPT !.pc = "retire"]
                                        ELSE AfterCheckFailure(q)]
    BY <1>7 DEF ModelRejected, Become
  <2> DEFINE q == [p EXCEPT !.answer = e]
  <2>2. e \in Answers \ Refusals
    BY DEF CheckFailures, Answers, Refusals
  <2>3. q \in Request /\ q.who \in Names /\ q.answer \notin Refusals
    BY <1>1, <1>2, <2>2 DEF Request
  <2>4. CASE e = "unauthorized"
    <3>1. req' = [req EXCEPT ![r] = [q EXCEPT !.pc = "retire"]]
      BY <2>1, <2>4
    <3>2. [q EXCEPT !.pc = "retire"] = [p EXCEPT !.pc = "retire", !.answer = e]
      BY <1>1 DEF Request
    <3> QED BY <1>4, <2>2, <2>4, <3>1, <3>2
  <2>5. CASE e # "unauthorized"
    <3>1. req' = [req EXCEPT ![r] = AfterCheckFailure(q)]
      BY <2>1, <2>5
    <3> HIDE DEF q
    <3> QED BY <1>5, <2>3, <3>1
  <2> QED BY <2>4, <2>5
<1>8. CASE Retire(r)
  <2>1. req' = [req EXCEPT ![r] = AfterCheckFailure(p)]
    BY <1>8 DEF Retire, Become
  <2> QED BY <1>1, <1>2, <1>5, <2>1
<1>9. CASE NotePoolFailure(r)
  <2>1. CASE FindPool = NoPool
    <3>1. req' = [req EXCEPT ![r] = Finish(p, p.answer)]
      BY <1>9, <2>1 DEF NotePoolFailure, Become
    <3> QED BY <1>2, <1>3, <3>1
  <2>2. CASE FindPool # NoPool
    <3> DEFINE d == [p EXCEPT !.pc = "mark", !.pool = FindPool]
    <3>1. req' = [req EXCEPT ![r] = d]
      BY <1>9, <2>2 DEF NotePoolFailure, Become
    <3>2. FindPool \in PoolSettings
      BY <1>1, <2>2, FindPoolType
    <3>3. d \in Request /\ d.pc = "mark" /\ d.who = p.who /\ d.answer = p.answer
          /\ d.pool \in PoolSettings
      BY <1>1, <3>2 DEF Request, Serving
    <3> HIDE DEF d
    <3>4. HandlerOK(d)
      BY <1>2, <3>3 DEF HandlerOK, Resolving, Serving
    <3>5. Progress(r, d)
      BY <1>2, <3>3, <3>4, ServingProgress DEF Serving
    <3> QED BY <3>1, <3>5
  <2> QED BY <2>1, <2>2
<1>10. CASE ReportMemberFailure(r) \/ ReportMemberSuccess(r)
  <2>1. req' = [req EXCEPT ![r] = Finish(p, p.answer)]
    BY <1>10 DEF ReportMemberFailure, ReportMemberSuccess, Become
  <2> QED BY <1>2, <1>3, <2>1
<1>11. CASE Unreachable(r)
  <2>1. req' = [req EXCEPT ![r] = Finish(p, "unreachable")]
    BY <1>11 DEF Unreachable, Become
  <2>2. "unreachable" \in Answers \ Refusals
    BY DEF Answers, Refusals
  <2> QED BY <1>3, <2>1, <2>2
<1>12. CASE UpstreamAnswer(r)
  <2>1. PICK e \in UpstreamAnswers :
          LET q == [p EXCEPT !.answer = e]
          IN  req' = [req EXCEPT ![r] = IF e = "unauthorized" THEN [q EXCEPT !.pc = "reject"]
                                        ELSE AfterAnswer(q)]
    BY <1>12 DEF UpstreamAnswer, Become
  <2> DEFINE q == [p EXCEPT !.answer = e]
  <2>2. e \in Answers \ Refusals
    BY DEF UpstreamAnswers, Answers, Refusals
  <2>3. q \in Request /\ q.who \in Names /\ q.answer \notin Refusals
    BY <1>1, <1>2, <2>2 DEF Request
  <2>4. CASE e = "unauthorized"
    <3>1. req' = [req EXCEPT ![r] = [q EXCEPT !.pc = "reject"]]
      BY <2>1, <2>4
    <3>2. [q EXCEPT !.pc = "reject"] = [p EXCEPT !.pc = "reject", !.answer = e]
      BY <1>1 DEF Request
    <3> QED BY <1>4, <2>2, <2>4, <3>1, <3>2
  <2>5. CASE e # "unauthorized"
    <3>1. req' = [req EXCEPT ![r] = AfterAnswer(q)]
      BY <2>1, <2>5
    <3> HIDE DEF q
    <3> QED BY <1>5, <2>3, <3>1
  <2> QED BY <2>4, <2>5
<1>13. CASE RejectClientName(r)
  <2>1. req' = [req EXCEPT ![r] = AfterAnswer(p)]
    BY <1>13 DEF RejectClientName, Become
  <2> QED BY <1>1, <1>2, <1>5, <2>1
<1> QED BY <1>6, <1>7, <1>8, <1>9, <1>10, <1>11, <1>12, <1>13

LEMMA HandleProgress ==
  ASSUME IInv, NEW r \in Requests, Handle(r)
  PROVE  \E q : Progress(r, q) /\ req' = [req EXCEPT ![r] = q]
<1>1. CASE Renew(r)
  <2>1. req[r].pc = "renew" /\ req[r].who \in req[r].avail
    BY <1>1 DEF Renew, At, IInv, HandlerOK
  <2>2. req' = [req EXCEPT ![r] = Resolve(req[r], req[r].who)]
    BY <1>1 DEF Renew, Become
  <2> QED BY <2>1, <2>2, ResolveProgress
<1>2. CASE ClearAffinity(r)
  <2>1. req[r].pc = "clear" /\ req' = [req EXCEPT ![r] = Decide(req[r])]
    BY <1>2 DEF ClearAffinity, At, Become
  <2> QED BY <2>1, DecideProgress
<1>3. CASE Bind(r)
  <2>1. req[r].pc = "bind" /\ req[r].plan.who \in req[r].avail
    BY <1>3 DEF Bind, At, IInv, HandlerOK, Kept
  <2>2. req' = [req EXCEPT ![r] = Resolve(req[r], req[r].plan.who)]
    BY <1>3 DEF Bind, Become
  <2> QED BY <2>1, <2>2, ResolveProgress
<1> QED BY <1>1, <1>2, <1>3, ArriveProgress, ListProgress, LookupProgress, GetAuthProgress,
           ServeProgress DEF Handle

(***************************************************************************)
(* What the storage operations make of the rows.  A row that is cooling    *)
(* afterwards was cooling as long before, or has no end any more, or cools *)
(* past the present.                                                       *)
(***************************************************************************)
CoolingFrom(old, new, now) ==
  \A m \in DOMAIN new : new[m].state = "cooling" =>
    \/ /\ m \in DOMAIN old /\ old[m].state = "cooling"
       /\ new[m].coolingUntil = old[m].coolingUntil
    \/ new[m].coolingUntil = NoTime
    \/ new[m].coolingUntil > now

LEMMA UpsertMemberRows ==
  ASSUME NEW rows, IsRoster(rows), NEW m \in Identities, NEW weight \in Nat \ {0},
         NEW state \in {"active", "disabled"}, NEW now \in Nat
  PROVE  /\ IsRoster(UpsertMember(rows, m, weight, state))
         /\ CoolingFrom(rows, UpsertMember(rows, m, weight, state), now)
<1> DEFINE new == UpsertMember(rows, m, weight, state)
<1>1. DOMAIN new = DOMAIN rows \cup {m} /\ new = [i \in DOMAIN new |-> new[i]]
  BY DEF UpsertMember
<1>2. \A i \in DOMAIN rows : i # m => new[i] = rows[i]
  BY DEF UpsertMember
<1>3. /\ new[m] \in Row /\ new[m].state = state
  <2>1. CASE m \in DOMAIN rows
    <3>1. new[m] = [rows[m] EXCEPT !.weight = weight, !.state = state]
      BY <2>1 DEF UpsertMember
    <3>2. rows[m] \in Row
      BY <2>1 DEF IsRoster
    <3> HIDE DEF new
    <3> QED BY <3>1, <3>2 DEF Row, MemberStates
  <2>2. CASE m \notin DOMAIN rows
    <3>1. new[m] = [weight |-> weight, state |-> state, coolingUntil |-> NoTime,
                    failures |-> 0, lastUsedAt |-> NoTime]
      BY <2>2 DEF UpsertMember
    <3> HIDE DEF new
    <3> QED BY <3>1 DEF Row, MemberStates, NoTime
  <2> QED BY <2>1, <2>2
<1> HIDE DEF new
<1>4. IsRoster(new)
  BY <1>1, <1>2, <1>3 DEF IsRoster
<1>5. CoolingFrom(rows, new, now)
  BY <1>1, <1>2, <1>3 DEF CoolingFrom
<1> QED BY <1>4, <1>5 DEF new

\* A report leaves the roster and what the operator decided as it was.
SameRoster(old, new) ==
  /\ DOMAIN new = DOMAIN old
  /\ \A i \in DOMAIN old : /\ new[i].weight = old[i].weight
                           /\ new[i].state = "disabled" <=> old[i].state = "disabled"

LEMMA MarkMemberSuccessRows ==
  ASSUME NEW rows, IsRoster(rows), NEW m, NEW now \in Nat,
         NEW new, new = MarkMemberSuccess(rows, m, now)
  PROVE  IsRoster(new) /\ CoolingFrom(rows, new, now) /\ SameRoster(rows, new)
<1> DEFINE row == [rows[m] EXCEPT !.failures = 0, !.state = "active",
                                  !.coolingUntil = NoTime, !.lastUsedAt = now]
<1>1. CASE Live(rows, m)
  <2>1. m \in DOMAIN rows /\ rows[m] \in Row /\ rows[m].state # "disabled"
    BY <1>1 DEF Live, IsRoster
  <2>2. row \in Row /\ row.state = "active" /\ row.weight = rows[m].weight
    BY <2>1 DEF Row, MemberStates, NoTime
  <2>3. new = [rows EXCEPT ![m] = row]
    BY <1>1 DEF MarkMemberSuccess
  <2> HIDE DEF row
  <2>4. DOMAIN new = DOMAIN rows /\ new[m] = row /\ \A i \in DOMAIN rows : i # m => new[i] = rows[i]
    BY <2>1, <2>3 DEF IsRoster
  <2>5. IsRoster(new)
    BY <2>2, <2>3, <2>4 DEF IsRoster
  <2>6. CoolingFrom(rows, new, now)
    BY <2>2, <2>4 DEF CoolingFrom
  <2>7. SameRoster(rows, new)
    BY <2>1, <2>2, <2>4 DEF SameRoster
  <2> QED BY <2>4, <2>5, <2>6, <2>7
<1>2. CASE ~Live(rows, m)
  <2>1. new = rows
    BY <1>2 DEF MarkMemberSuccess
  <2> QED BY <2>1 DEF CoolingFrom, SameRoster
<1> QED BY <1>1, <1>2

LEMMA MarkMemberFailureRows ==
  ASSUME NEW rows, IsRoster(rows), NEW m, NEW settings \in PoolSettings,
         NEW force \in BOOLEAN, NEW now \in Nat,
         NEW new, new = MarkMemberFailure(rows, m, settings, force, now)
  PROVE  IsRoster(new) /\ CoolingFrom(rows, new, now) /\ SameRoster(rows, new)
<1> DEFINE failures == rows[m].failures + 1
           cool  == force \/ failures >= settings.threshold
           state == IF cool THEN "cooling" ELSE rows[m].state
           until == IF cool THEN now + settings.cooldown * Second ELSE NoTime
           row == [rows[m] EXCEPT !.failures = failures, !.state = state,
                                  !.coolingUntil = until]
<1>1. CASE Live(rows, m)
  <2>1. m \in DOMAIN rows /\ rows[m] \in Row /\ rows[m].state # "disabled"
    BY <1>1 DEF Live, IsRoster
  <2>2. until \in Nat /\ (until = NoTime \/ until > now)
    <3>1. settings.cooldown \in Nat \ {0} /\ Second \in Nat \ {0}
      BY SecondAssumption DEF PoolSettings
    <3>2. ASSUME NEW x \in Nat \ {0}, NEW y \in Nat \ {0} PROVE x * y \in Nat /\ x * y > 0
      BY <3>2
    <3>3. settings.cooldown * Second \in Nat /\ settings.cooldown * Second > 0
      BY <3>1, <3>2
    <3> HIDE DEF cool
    <3> QED BY <3>3 DEF NoTime
  <2>3. state \in MemberStates \ {"disabled"} /\ failures \in Nat
    <3> HIDE DEF cool
    <3> QED BY <2>1 DEF Row, MemberStates
  <2>4. new = [rows EXCEPT ![m] = row]
    BY <1>1 DEF MarkMemberFailure
  <2> HIDE DEF failures, cool, state, until
  <2>5. /\ row \in Row /\ row.weight = rows[m].weight /\ row.state = state
        /\ row.coolingUntil = until
    BY <2>1, <2>2, <2>3 DEF Row
  <2> HIDE DEF row
  <2>6. DOMAIN new = DOMAIN rows /\ new[m] = row /\ \A i \in DOMAIN rows : i # m => new[i] = rows[i]
    BY <2>1, <2>4 DEF IsRoster
  <2>7. IsRoster(new)
    BY <2>4, <2>5, <2>6 DEF IsRoster
  <2>8. CoolingFrom(rows, new, now)
    BY <2>2, <2>5, <2>6 DEF CoolingFrom
  <2>9. SameRoster(rows, new)
    BY <2>1, <2>3, <2>5, <2>6 DEF SameRoster
  <2> QED BY <2>6, <2>7, <2>8, <2>9
<1>2. CASE ~Live(rows, m)
  <2>1. new = rows
    BY <1>2 DEF MarkMemberFailure
  <2> QED BY <2>1 DEF CoolingFrom, SameRoster
<1> QED BY <1>1, <1>2

(***************************************************************************)
(* One step and the rows.                                                  *)
(***************************************************************************)
IsAffinity(rows) == DOMAIN rows \subseteq Sessions /\ rows \in [DOMAIN rows -> Binding]

StoreOK == /\ clock \in Nat \ {0} /\ edits \in Nat /\ pool \in PoolSettings \cup {NoPool}
           /\ IsRoster(members) /\ IsAffinity(affinity) /\ accounts \in [Names -> Account]
           /\ op \in Handler /\ OperatorOK

StoreMoves == /\ clock' \in Nat /\ clock <= clock'
              /\ members' = members \/ clock' = clock
              /\ CoolingFrom(members, members', clock)

LEMMA BindingRows ==
  ASSUME NEW rows, IsAffinity(rows), NEW s \in Sessions, NEW m \in Identities,
         NEW ttl \in Nat, NEW now \in Nat
  PROVE  /\ IsAffinity(UpsertBinding(rows, s, m, ttl, now))
         /\ IsAffinity(DropSession(rows, s))
         /\ IsAffinity(DropBindings(rows, m))
         /\ IsAffinity(PruneBindings(rows, now))
<1>1. now + ttl * Second \in Nat
  <2>1. ASSUME NEW x \in Nat, NEW y \in Nat PROVE x * y \in Nat
    BY <2>1
  <2>2. ttl * Second \in Nat
    BY <2>1, SecondAssumption
  <2> QED BY <2>2
<1>2. [who |-> m, expires |-> now + ttl * Second] \in Binding
  BY <1>1 DEF Binding
<1>3. IsAffinity(UpsertBinding(rows, s, m, ttl, now))
  BY <1>2 DEF IsAffinity, UpsertBinding
<1>4. IsAffinity(DropSession(rows, s)) /\ IsAffinity(DropBindings(rows, m))
  BY DEF IsAffinity, DropSession, DropBindings
<1>5. IsAffinity(PruneBindings(rows, now))
  BY DEF IsAffinity, PruneBindings
<1> QED BY <1>3, <1>4, <1>5

LEMMA RetireTokenRows ==
  ASSUME NEW rows \in [Names -> Account], NEW n \in Names, NEW tok
  PROVE  RetireToken(rows, n, tok) \in [Names -> Account]
<1>1. [rows[n] EXCEPT !.status = "expired"] \in Account
  BY DEF Account, Statuses
<1> QED BY <1>1 DEF RetireToken

LEMMA StoreTypes ==
  ASSUME IInv
  PROVE  StoreOK /\ CoolingFrom(members, members, clock)
BY DEF IInv, TypeOK, StoreOK, IsRoster, IsAffinity, CoolingFrom

LEMMA HandleStore ==
  ASSUME IInv, NEW r \in Requests, Handle(r)
  PROVE  StoreOK' /\ StoreMoves
<1> DEFINE p == req[r]
<1>1. StoreOK /\ CoolingFrom(members, members, clock) /\ p \in Request /\ HandlerOK(p) /\ clock \in Nat
  BY StoreTypes DEF IInv, TypeOK
<1>2. UNCHANGED <<clock, op, edits, pool>>
  BY DEF Handle, Arrive, ListMembers, LookupAffinity, Renew, ClearAffinity, Bind, GetAuth,
         ModelAccepted, ModelRejected, Retire, NotePoolFailure, ReportMemberFailure, Unreachable,
         UpstreamAnswer, RejectClientName, ReportMemberSuccess, store
<1>3. ASSUME UNCHANGED members PROVE StoreMoves /\ IsRoster(members)'
  BY <1>1, <1>2, <1>3 DEF StoreMoves, StoreOK
<1>4. ASSUME IsRoster(members)', IsAffinity(affinity)', accounts' \in [Names -> Account]
      PROVE  StoreOK'
  BY <1>1, <1>2, <1>4 DEF StoreOK, OperatorOK
<1>5. CASE UNCHANGED store
  BY <1>1, <1>3, <1>4, <1>5 DEF store, StoreOK
<1>6. CASE Renew(r) \/ ClearAffinity(r) \/ Bind(r)
  <2>1. p.session \in Sessions /\ p.pool \in PoolSettings /\ p.pool.ttl \in Nat
    BY <1>1, <1>6 DEF Renew, ClearAffinity, Bind, At, HandlerOK, Resolving, PoolSettings
  <2>2. UNCHANGED <<members, accounts>>
    BY <1>6 DEF Renew, ClearAffinity, Bind
  <2>3. IsAffinity(affinity)'
    <3>1. CASE Renew(r)
      <4>1. p.who \in Identities
        BY <1>1, <3>1 DEF Renew, At, HandlerOK, Request
      <4>2. affinity' = UpsertBinding(affinity, p.session, p.who, p.pool.ttl, clock)
        BY <3>1 DEF Renew
      <4> QED BY <1>1, <2>1, <4>1, <4>2, BindingRows DEF StoreOK, IsAffinity
    <3>2. CASE Bind(r)
      <4>1. p.plan.who \in Identities
        BY <1>1, <3>2 DEF Bind, At, HandlerOK, Kept, Request
      <4>2. affinity' = UpsertBinding(affinity, p.session, p.plan.who, p.pool.ttl, clock)
        BY <3>2 DEF Bind
      <4> QED BY <1>1, <2>1, <4>1, <4>2, BindingRows DEF StoreOK, IsAffinity
    <3>3. CASE ClearAffinity(r)
      <4>1. affinity' = DropSession(affinity, p.session)
        BY <3>3 DEF ClearAffinity
      <4> QED BY <1>1, <4>1 DEF StoreOK, IsAffinity, DropSession
    <3> QED BY <1>6, <3>1, <3>2, <3>3
  <2> QED BY <1>1, <1>3, <1>4, <2>2, <2>3 DEF StoreOK
<1>7. CASE Retire(r) \/ RejectClientName(r)
  <2>1. UNCHANGED <<members, affinity>>
    BY <1>7 DEF Retire, RejectClientName
  <2>2. p.who \in Names /\ PoolName \in Names
    BY <1>1, <1>7 DEF Retire, RejectClientName, At, HandlerOK, Serving, Names
  <2>3. accounts' \in [Names -> Account]
    BY <1>1, <1>7, <2>2, RetireTokenRows DEF Retire, RejectClientName, StoreOK
  <2> QED BY <1>1, <1>3, <1>4, <2>1, <2>3 DEF StoreOK, IsAffinity
<1>8. CASE ReportMemberFailure(r)
  <2>1. UNCHANGED <<affinity, accounts>> /\ p.pool \in PoolSettings
    BY <1>1, <1>8 DEF ReportMemberFailure, At, HandlerOK
  <2>2. members' = MarkMemberFailure(members, p.who, p.pool, p.answer = "rate-limited", clock)
    BY <1>8 DEF ReportMemberFailure
  <2>3. IsRoster(members') /\ CoolingFrom(members, members', clock)
    BY <1>1, <2>1, <2>2, MarkMemberFailureRows DEF StoreOK
  <2> QED BY <1>1, <1>2, <1>4, <2>1, <2>3 DEF StoreOK, StoreMoves, IsRoster, IsAffinity
<1>9. CASE ReportMemberSuccess(r)
  <2>1. UNCHANGED <<affinity, accounts>>
    BY <1>9 DEF ReportMemberSuccess
  <2>2. members' = MarkMemberSuccess(members, p.who, clock)
    BY <1>9 DEF ReportMemberSuccess
  <2>3. IsRoster(members') /\ CoolingFrom(members, members', clock)
    BY <1>1, <2>2, MarkMemberSuccessRows DEF StoreOK
  <2> QED BY <1>1, <1>2, <1>4, <2>1, <2>3 DEF StoreOK, StoreMoves, IsRoster, IsAffinity
<1> QED BY <1>5, <1>6, <1>7, <1>8, <1>9 DEF Handle, Arrive, ListMembers, LookupAffinity, GetAuth,
           ModelAccepted, ModelRejected, NotePoolFailure, Unreachable, UpstreamAnswer

LEMMA OperateStore ==
  ASSUME IInv, Operate
  PROVE  StoreOK' /\ StoreMoves
<1>1. StoreOK /\ CoolingFrom(members, members, clock) /\ clock \in Nat /\ NoHandler \in Handler
      /\ NoHandler.pc = "idle" /\ DefaultWeight \in Nat \ {0}
  BY StoreTypes DEF IInv, TypeOK, NoHandler, Handler, DefaultWeight
<1>2. clock' = clock /\ edits' \in Nat
  BY <1>1 DEF StoreOK, Operate, CreatePool, UpdatePool, DeletePool, AddMember, CheckAccount,
              InsertMember, RemoveMember, Resume, Reinsert, ResetMember, PruneSessions, Authorize,
              BeginAuthorization, DeleteAccount, Edit
<1>3. ASSUME pool' \in PoolSettings \cup {NoPool}, IsRoster(members'),
             CoolingFrom(members, members', clock), IsAffinity(affinity'),
             accounts' \in [Names -> Account], op' \in Handler, op'.pc # "idle" => op'.who \in Identities
      PROVE  StoreOK' /\ StoreMoves
  BY <1>1, <1>2, <1>3 DEF StoreOK, StoreMoves, OperatorOK, IsRoster, IsAffinity
<1>4. CASE CreatePool \/ UpdatePool
  <2>1. pool' \in PoolSettings /\ UNCHANGED <<members, affinity, accounts, op>>
    BY <1>4, PoolAssumption DEF CreatePool, UpdatePool
  <2> QED BY <1>1, <1>3, <2>1 DEF StoreOK, OperatorOK
<1>5. CASE DeletePool
  <2>1. /\ pool' = NoPool /\ UNCHANGED <<accounts, op>>
        /\ members' = [m \in {} |-> 0] /\ affinity' = [s \in {} |-> 0]
    BY <1>5 DEF DeletePool
  <2>2. IsRoster(members') /\ CoolingFrom(members, members', clock) /\ IsAffinity(affinity')
    BY <2>1 DEF IsRoster, CoolingFrom, IsAffinity
  <2> QED BY <1>1, <1>3, <2>1, <2>2 DEF StoreOK, OperatorOK
<1>6. CASE AddMember \/ Resume \/ CheckAccount
  <2>1. UNCHANGED <<pool, members, affinity, accounts>>
    BY <1>6 DEF AddMember, Resume, CheckAccount, store
  <2>2. op' \in Handler /\ (op'.pc # "idle" => op'.who \in Identities)
    <3>1. CASE AddMember
      <4>1. PICK m \in Identities, w \in Weights, state \in {"active", "disabled"} :
              op' = [pc |-> "account", who |-> m, weight |-> w, state |-> state]
        BY <3>1 DEF AddMember
      <4>2. w \in Nat \ {0}
        BY PoolAssumption
      <4> QED BY <4>1, <4>2 DEF Handler
    <3>2. CASE Resume
      <4>1. PICK m \in DOMAIN members :
              op' = [pc |-> "reinsert", who |-> m, weight |-> DefaultWeight, state |-> "active"]
        BY <3>2 DEF Resume
      <4> QED BY <1>1, <4>1 DEF Handler, StoreOK, IsRoster
    <3>3. CASE CheckAccount
      BY <1>1, <3>3 DEF CheckAccount, StoreOK, OperatorOK, Handler
    <3> QED BY <1>6, <3>1, <3>2, <3>3
  <2> QED BY <1>1, <1>3, <2>1, <2>2 DEF StoreOK, OperatorOK
<1>7. CASE InsertMember \/ Reinsert
  <2>1. op \in Handler /\ op.who \in Identities
    BY <1>1, <1>7 DEF InsertMember, Reinsert, StoreOK, OperatorOK
  <2>2. members' = UpsertMember(members, op.who, op.weight, op.state)
        /\ UNCHANGED <<pool, affinity, accounts>>
    BY <1>7 DEF InsertMember, Reinsert
  <2>3. op.weight \in Nat \ {0} /\ op.state \in {"active", "disabled"}
    BY <2>1 DEF Handler
  <2>4. IsRoster(members') /\ CoolingFrom(members, members', clock)
    BY <1>1, <2>1, <2>2, <2>3, UpsertMemberRows DEF StoreOK
  <2>5. op' \in Handler /\ (op'.pc # "idle" => op'.who \in Identities)
    BY <1>1, <1>7, <2>1 DEF InsertMember, Reinsert, Handler
  <2> QED BY <1>1, <1>3, <2>2, <2>4, <2>5 DEF StoreOK
<1>8. CASE ResetMember
  <2>1. members' = MarkMemberSuccess(members, op.who, clock) /\ op' = NoHandler
        /\ UNCHANGED <<pool, affinity, accounts>>
    BY <1>8 DEF ResetMember
  <2>2. IsRoster(members') /\ CoolingFrom(members, members', clock)
    BY <1>1, <2>1, MarkMemberSuccessRows DEF StoreOK
  <2> QED BY <1>1, <1>3, <2>1, <2>2 DEF StoreOK
<1>9. CASE RemoveMember
  <2>1. PICK m \in Identities :
          /\ members' = [i \in DOMAIN members \ {m} |-> members[i]]
          /\ affinity' = DropBindings(affinity, m)
    BY <1>9 DEF RemoveMember
  <2>2. UNCHANGED <<pool, accounts, op>>
    BY <1>9 DEF RemoveMember
  <2>3. IsRoster(members') /\ CoolingFrom(members, members', clock)
    BY <1>1, <2>1 DEF StoreOK, IsRoster, CoolingFrom
  <2>4. IsAffinity(affinity')
    BY <1>1, <2>1 DEF StoreOK, IsAffinity, DropBindings
  <2> QED BY <1>1, <1>3, <2>2, <2>3, <2>4 DEF StoreOK, OperatorOK
<1>10. CASE PruneSessions
  <2>1. affinity' = PruneBindings(affinity, clock) /\ UNCHANGED <<pool, members, accounts, op>>
    BY <1>10 DEF PruneSessions
  <2>2. IsAffinity(affinity')
    BY <1>1, <2>1 DEF StoreOK, IsAffinity, PruneBindings
  <2> QED BY <1>1, <1>3, <2>1, <2>2 DEF StoreOK, OperatorOK
<1>11. CASE Authorize \/ BeginAuthorization \/ DeleteAccount
  <2>1. UNCHANGED <<pool, members, affinity, op>>
    BY <1>11 DEF Authorize, BeginAuthorization, DeleteAccount
  <2>2. ASSUME NEW n \in Names
        PROVE  /\ [status |-> "valid", token |-> accounts[n].token + 1] \in Account
               /\ [accounts[n] EXCEPT !.status = "refreshing"] \in Account
               /\ [accounts[n] EXCEPT !.status = "absent"] \in Account
    BY <1>1 DEF StoreOK, Account, Statuses
  <2>3. accounts' \in [Names -> Account]
    BY <1>1, <1>11, <2>2 DEF StoreOK, Authorize, BeginAuthorization, DeleteAccount
  <2> QED BY <1>1, <1>3, <2>1, <2>3 DEF StoreOK, OperatorOK
<1> QED BY <1>4, <1>5, <1>6, <1>7, <1>8, <1>9, <1>10, <1>11 DEF Operate

LEMMA TickStore ==
  ASSUME IInv, Tick
  PROVE  StoreOK' /\ StoreMoves
<1>1. StoreOK /\ CoolingFrom(members, members, clock) /\ UNCHANGED <<store, op, edits>>
      /\ clock' = clock + 1
  BY StoreTypes DEF Tick
<1> QED BY <1>1 DEF StoreOK, StoreMoves, OperatorOK, IsRoster, IsAffinity, store

(***************************************************************************)
(* One step and the requests: one of them makes progress at most, and the  *)
(* history of every one of them is kept up.                                *)
(***************************************************************************)
Follows(r) == req'[r] = req[r] \/ Progress(r, req'[r])

LEMMA RequestsStep ==
  ASSUME IInv, Next
  PROVE  /\ StoreOK' /\ StoreMoves
         /\ req' \in [Requests -> Request]
         /\ \A r \in Requests : Follows(r)
         /\ req' = req \/ clock' = clock
<1>1. req \in [Requests -> Request]
  BY DEF IInv, TypeOK
<1>2. CASE Operate \/ Tick
  <2>1. req' = req
    BY <1>2 DEF Operate, CreatePool, UpdatePool, DeletePool, AddMember, CheckAccount,
              InsertMember, RemoveMember, Resume, Reinsert, ResetMember, PruneSessions, Authorize,
              BeginAuthorization, DeleteAccount, Tick
  <2> QED BY <1>1, <1>2, <2>1, OperateStore, TickStore DEF Follows
<1>3. CASE \E r \in Requests : Handle(r)
  <2>1. PICK r \in Requests : Handle(r)
    BY <1>3
  <2>2. PICK q : Progress(r, q) /\ req' = [req EXCEPT ![r] = q]
    BY <2>1, HandleProgress
  <2>3. q \in Request
    BY <2>2 DEF Progress
  <2>4. req' \in [Requests -> Request] /\ req'[r] = q /\ \A i \in Requests : i # r => req'[i] = req[i]
    BY <1>1, <2>2, <2>3
  <2>5. clock' = clock
    BY <2>1 DEF Handle, Arrive, ListMembers, LookupAffinity, Renew, ClearAffinity, Bind, GetAuth,
                ModelAccepted, ModelRejected, Retire, NotePoolFailure, ReportMemberFailure,
                Unreachable, UpstreamAnswer, RejectClientName, ReportMemberSuccess
  <2> QED BY <2>1, <2>2, <2>4, <2>5, HandleStore DEF Follows
<1> QED BY <1>2, <1>3 DEF Next

LEMMA HistoryTypes ==
  ASSUME IInv, Next
  PROVE  /\ seen' \in [Requests -> SUBSET Identities]
         /\ steady' \in [Requests -> SUBSET Identities]
<1>1. Usable' \subseteq Identities
  BY RequestsStep DEF Usable, StoreOK, IsRoster
<1> QED BY <1>1 DEF Next, Watch, IInv, TypeOK

\* A member that stayed usable is still not cooling past the moment the
\* request found the pool: whatever cooldown a step sets ends in the future.
LEMMA NotCoolingKept ==
  ASSUME IInv, Next, NEW m, NEW since \in Nat, NotCooling(m, since), m \in Usable'
  PROVE  NotCooling(m, since)'
<1>1. /\ clock \in Nat /\ clock' \in Nat /\ CoolingFrom(members, members', clock)
      /\ members' = members \/ clock' = clock
  BY RequestsStep DEF StoreMoves, IInv, TypeOK
<1>2. /\ m \in DOMAIN members' /\ m \in DOMAIN members
      /\ members'[m].state = "cooling" => members'[m].coolingUntil <= clock'
      /\ members[m].state = "cooling" => members[m].coolingUntil <= since
  BY DEF NotCooling, Usable
<1>3. members'[m].coolingUntil \in Nat
  BY <1>2, RequestsStep DEF StoreOK, IsRoster, Row
<1>4. members'[m].state = "cooling" => members'[m].coolingUntil <= since
  BY <1>1, <1>2, <1>3 DEF CoolingFrom, NoTime
<1> QED BY <1>4 DEF NotCooling

LEMMA HistoryStep ==
  ASSUME IInv, Next, NEW r \in Requests
  PROVE  HistoryOK(r)'
<1> DEFINE p == req[r]
           q == req'[r]
<1>1. /\ TypeOK /\ HandlerOK(p) /\ HistoryOK(r) /\ p \in Request /\ q \in Request /\ Follows(r)
  BY RequestsStep DEF IInv, TypeOK
<1>2. /\ clock \in Nat /\ clock' \in Nat /\ clock <= clock' /\ p.since \in Nat /\ q.since \in Nat
  BY <1>1, RequestsStep DEF StoreMoves, TypeOK, Request
<1>3. seen'[r] = IF q.pc \notin Resolving \cup {"auth"} THEN {}
                 ELSE IF p.pc = "idle" THEN Usable' ELSE seen[r] \cup Usable'
  BY DEF Next, Watch
<1>4. steady'[r] = IF p.pc = "done" THEN steady[r]
                   ELSE IF q.pc \notin Resolving \cup {"done"} THEN {}
                   ELSE IF p.pc = "idle" THEN Usable' ELSE steady[r] \cap Usable'
  BY DEF Next, Watch
<1>5. Usable = AvailableMembers(members, clock)
  BY <1>1, UsableIsAvailable
<1>6. CASE q = p
  <2>1. p.pc \in Resolving => p.since <= clock'
    BY <1>1, <1>2 DEF HistoryOK
  <2>2. p.pc \in Resolving \cup {"auth"} => Usable' \subseteq seen'[r] /\ p.avail \subseteq seen'[r]
    BY <1>1, <1>3, <1>6 DEF HistoryOK, Resolving
  <2>3. p.pc = "auth" /\ p.pool # NoPool => p.who \in seen'[r]
    BY <1>1, <1>3, <1>6 DEF HistoryOK
  <2>4. p.pc = "list" => \A m \in steady'[r] :
        m \in Usable' /\ (members'[m].state = "cooling" => members'[m].coolingUntil <= p.since)
    <3>1. ASSUME p.pc = "list", NEW m \in steady'[r]
          PROVE  NotCooling(m, p.since) /\ m \in Usable'
      BY <1>1, <1>4, <1>6, <3>1 DEF HistoryOK, Resolving
    <3>2. ASSUME p.pc = "list", NEW m \in steady'[r], NEW n, n = p.since
          PROVE  NotCooling(m, n)'
      <4>1. n \in Nat /\ NotCooling(m, n) /\ m \in Usable'
        BY <1>2, <3>1, <3>2
      <4> QED BY <4>1, NotCoolingKept
    <3> QED BY <3>1, <3>2 DEF NotCooling
  <2>5. \/ p.pc \in {"lookup", "clear"} /\ p.plan.kind # "selected"
        \/ p.pc = "done" /\ p.answer \in Refusals
        => steady'[r] = {}
    BY <1>1, <1>4, <1>6 DEF HistoryOK, Resolving
  <2> QED BY <1>6, <2>1, <2>2, <2>3, <2>4, <2>5 DEF HistoryOK, NotCooling
<1>7. CASE Progress(r, q)
  <2>1. q.pc \in Resolving => q.since <= clock'
    BY <1>1, <1>2, <1>7 DEF Progress, HistoryOK, Resolving
  <2>2. q.pc \in Resolving \cup {"auth"} => Usable' \subseteq seen'[r] /\ q.avail \subseteq seen'[r]
    BY <1>1, <1>3, <1>7 DEF Progress, HistoryOK, Resolving
  <2>3. q.pc = "auth" /\ q.pool # NoPool => q.who \in seen'[r]
    BY <1>1, <1>3, <1>7 DEF Progress, HistoryOK, Resolving
  <2>4. q.pc = "list" => \A m \in steady'[r] :
        m \in Usable' /\ (members'[m].state = "cooling" => members'[m].coolingUntil <= q.since)
    <3>1. ASSUME q.pc = "list"
          PROVE  q.since = clock /\ clock' = clock /\ steady'[r] = Usable'
      BY <1>4, <1>7, <3>1, RequestsStep DEF Progress, Resolving
    <3>2. ASSUME NEW m \in Usable', clock' = clock
          PROVE  NotCooling(m, clock)'
      BY <3>2 DEF NotCooling, Usable
    <3>3. ASSUME q.pc = "list", NEW m \in steady'[r]
          PROVE  /\ m \in Usable'
                 /\ members'[m].state = "cooling" => members'[m].coolingUntil <= q.since
      BY <3>1, <3>2, <3>3 DEF NotCooling
    <3> QED BY <3>3
  <2>5. \/ q.pc \in {"lookup", "clear"} /\ q.plan.kind # "selected"
        \/ q.pc = "done" /\ q.answer \in Refusals
        => steady'[r] = {}
    <3>1. ASSUME p.pc = "list", AvailableMembers(members, p.since) = {}, q.pc \in Resolving \cup {"done"}
          PROVE  steady'[r] = {}
      <4>1. ASSUME NEW m \in steady[r] PROVE FALSE
        <5>1. NotCooling(m, p.since)
          BY <1>1, <3>1 DEF HistoryOK
        <5>2. m \in DOMAIN members /\ members[m] \in Row
          BY <1>1, <5>1 DEF NotCooling, Usable, TypeOK
        <5>3. m \in AvailableMembers(members, p.since)
          BY <5>1, <5>2 DEF NotCooling, Usable, AvailableMembers, IsMemberAvailable, Row, MemberStates
        <5> QED BY <3>1, <5>3
      <4> QED BY <1>4, <3>1, <4>1
    <3>2. ASSUME p.pc \in {"lookup", "clear"}, p.plan.kind # "selected", q.pc \in Resolving \cup {"done"}
          PROVE  steady'[r] = {}
      BY <1>1, <1>4, <3>2 DEF HistoryOK
    <3> QED BY <1>7, <3>1, <3>2 DEF Progress, Resolving
  <2> QED BY <2>1, <2>2, <2>3, <2>4, <2>5 DEF HistoryOK, NotCooling
<1> QED BY <1>1, <1>6, <1>7 DEF Follows

(***************************************************************************)
(* The invariant is inductive.                                             *)
(***************************************************************************)
LEMMA InitInv == Init => IInv
<1> SUFFICES ASSUME Init PROVE IInv
  OBVIOUS
<1>1. NewRequest \in Request /\ HandlerOK(NewRequest) /\ NewRequest.pc = "idle"
  <2>1. NoPlan \in Plan /\ NoToken \in (Names \cup {NoOne}) \X Nat /\ "none" \in Answers
    BY DEF NoPlan, Plan, NoToken, Answers
  <2>2. NewRequest \in Request
    BY <2>1 DEF NewRequest, Request
  <2> QED BY <2>2 DEF NewRequest, HandlerOK, Resolving, Serving, Refusals
<1>2. \A r \in Requests : req[r] = NewRequest
  BY DEF Init
<1>3. \A r \in Requests : HandlerOK(req[r]) /\ HistoryOK(r)
  BY <1>1, <1>2 DEF HistoryOK, Resolving
<1>4. NoHandler \in Handler /\ NoHandler.pc = "idle"
  BY DEF NoHandler, Handler
<1>5. DOMAIN members \subseteq Identities /\ members \in [DOMAIN members -> Row]
  <2>1. PICK w \in [Roster -> Weights] :
          members = [m \in Roster |-> [weight |-> w[m], state |-> "active",
                       coolingUntil |-> NoTime, failures |-> 0, lastUsedAt |-> NoTime]]
    BY DEF Init
  <2>2. \A m \in Roster : w[m] \in Nat \ {0}
    BY PoolAssumption
  <2> QED BY <2>1, <2>2, PoolAssumption DEF Row, MemberStates, NoTime
<1>6. accounts \in [Names -> Account]
  BY DEF Init, Account, Statuses
<1>7. TypeOK
  BY <1>1, <1>4, <1>5, <1>6, PoolAssumption DEF Init, TypeOK
<1> QED BY <1>3, <1>4, <1>7 DEF IInv, OperatorOK, Init

LEMMA NextInv ==
  ASSUME IInv, Next
  PROVE  IInv'
<1>1. TypeOK'
  BY RequestsStep, HistoryTypes DEF TypeOK, StoreOK, IsRoster, IsAffinity
<1>2. OperatorOK'
  BY RequestsStep DEF StoreOK
<1>3. ASSUME NEW r \in Requests PROVE HandlerOK(req[r])'
  <2>1. Follows(r) /\ HandlerOK(req[r])
    BY RequestsStep DEF IInv
  <2>2. HandlerOK(req'[r])
    BY <2>1 DEF Follows, Progress
  <2> QED BY <2>2 DEF HandlerOK, Kept
<1>4. \A r \in Requests : HistoryOK(r)'
  BY HistoryStep
<1> QED BY <1>1, <1>2, <1>3, <1>4 DEF IInv

LEMMA StutterInv ==
  ASSUME IInv, UNCHANGED vars
  PROVE  IInv'
<1>1. Usable' = Usable
  BY DEF vars, Usable
<1> QED BY <1>1 DEF vars, IInv, TypeOK, OperatorOK, HandlerOK, HistoryOK, Kept, NotCooling

\* The invariant holds throughout every behaviour.
THEOREM Invariance == Spec => []IInv
<1>1. IInv /\ [Next]_vars => IInv'
  BY NextInv, StutterInv
<1> QED BY InitInv, <1>1, PTL DEF Spec

\* Every variable keeps its type: requests, edits and time never leave a row
\* that poolTypes.ts does not describe.
THEOREM TypeCorrect == Spec => []TypeOK
<1>1. IInv => TypeOK
  BY DEF IInv
<1> QED BY Invariance, <1>1, PTL

\* A pooled request is only ever handed a member that was usable since it
\* found the pool (resolvePoolMember).
THEOREM OnlyUsableServe == Spec => []ServesOnlyUsable
<1>1. IInv => ServesOnlyUsable
  BY DEF IInv, HistoryOK, ServesOnlyUsable, At
<1> QED BY Invariance, <1>1, PTL

\* No request is refused while a member has been usable all along
\* (resolvePoolMember, selectMember).
THEOREM RefusedForCause == Spec => []NoFalseRefusal
<1>1. IInv => NoFalseRefusal
  BY DEF IInv, HistoryOK, NoFalseRefusal, At
<1> QED BY Invariance, <1>1, PTL

\* While every member is cooling, the wait a client is told is enough for the
\* member it names and a second less is not enough for any
\* (selectMember, PoolAllCoolingError).
THEOREM RetryAfterHolds == Spec => []RetryAfterIsTight
<1>1. TypeOK => RetryAfterIsTight
  <2> SUFFICES ASSUME TypeOK, NEW strategy \in Strategies, NEW s \in Sessions
               PROVE  LET out == SelectMember(strategy, members, s, {}, clock)
                      IN  out.kind = "all-cooling" =>
                            /\ out.who \in AvailableMembers(members, clock + out.retryAfter * Second)
                            /\ AvailableMembers(members, clock + (out.retryAfter - 1) * Second) = {}
    BY DEF RetryAfterIsTight
  <2>1. IsRoster(members) /\ clock \in Nat
    BY DEF TypeOK, IsRoster
  <2> QED BY <2>1, RetryAfterTight
<1> QED BY TypeCorrect, <1>1, PTL

\* What requests report never undoes what the operator did to the roster
\* (markMemberSuccess, markMemberFailure).
THEOREM RosterRespected == Spec => RequestsRespectRoster
<1> DEFINE RosterKept == req' # req => SameRoster(members, members')
<1>1. IInv /\ [Next]_vars => RosterKept
  <2> SUFFICES ASSUME IInv, Next, req' # req PROVE SameRoster(members, members')
    BY DEF vars
  <2>1. PICK r \in Requests : Handle(r)
    BY DEF Next, Operate, CreatePool, UpdatePool, DeletePool, AddMember, CheckAccount,
           InsertMember, RemoveMember, Resume, Reinsert, ResetMember, PruneSessions, Authorize,
           BeginAuthorization, DeleteAccount, Tick
  <2>2. /\ IsRoster(members) /\ clock \in Nat /\ HandlerOK(req[r])
    BY DEF IInv, TypeOK, IsRoster
  <2>3. CASE ReportMemberFailure(r)
    <3>1. /\ req[r].pool \in PoolSettings
          /\ members' = MarkMemberFailure(members, req[r].who, req[r].pool,
                                          req[r].answer = "rate-limited", clock)
      BY <2>2, <2>3 DEF ReportMemberFailure, At, HandlerOK
    <3> QED BY <2>2, <3>1, MarkMemberFailureRows
  <2>4. CASE ReportMemberSuccess(r)
    <3>1. members' = MarkMemberSuccess(members, req[r].who, clock)
      BY <2>4 DEF ReportMemberSuccess
    <3> QED BY <2>2, <3>1, MarkMemberSuccessRows
  <2>5. CASE ~ReportMemberFailure(r) /\ ~ReportMemberSuccess(r)
    <3>1. members' = members
      BY <2>1, <2>5 DEF Handle, Arrive, ListMembers, LookupAffinity, Renew, ClearAffinity, Bind,
           GetAuth, ModelAccepted, ModelRejected, Retire, NotePoolFailure, Unreachable,
           UpstreamAnswer, RejectClientName, store
    <3> QED BY <3>1 DEF SameRoster
  <2> QED BY <2>3, <2>4, <2>5
<1>2. RosterKept => (req' # req =>
       /\ DOMAIN members' = DOMAIN members
       /\ \A m \in DOMAIN members :
            /\ members'[m].weight = members[m].weight
            /\ members'[m].state = "disabled" <=> members[m].state = "disabled")
  BY DEF SameRoster
<1> HIDE DEF RosterKept
<1> QED BY Invariance, <1>1, <1>2, PTL DEF Spec, RequestsRespectRoster

\* A session is moved by rendezvous hashing only to or from the one member
\* that changed (rendezvous).
THEOREM RemapsMinimally == Spec => MinimalRemap
<1> DEFINE Remap == \A m \in Identities, s \in Sessions :
       LET others == Identities \ {m}
       IN  /\ Usable # {} /\ Usable' # {}
           /\ Usable \cap others = Usable' \cap others
           /\ \A i \in Usable \cap others : members'[i].weight = members[i].weight
           => Chosen(s)' = Chosen(s) \/ m \in {Chosen(s), Chosen(s)'}
<1>1. TypeOK /\ TypeOK' => Remap
  <2> SUFFICES ASSUME TypeOK, TypeOK', NEW m \in Identities, NEW s \in Sessions,
                      Usable # {}, Usable' # {},
                      Usable \cap (Identities \ {m}) = Usable' \cap (Identities \ {m}),
                      \A i \in Usable \cap (Identities \ {m}) :
                        members'[i].weight = members[i].weight
               PROVE  \/ Rendezvous(Usable', members', s) = Rendezvous(Usable, members, s)
                      \/ m \in {Rendezvous(Usable, members, s), Rendezvous(Usable', members', s)}
    BY DEF Chosen
  <2>1. /\ Usable \in SUBSET Identities /\ Usable' \in SUBSET Identities
        /\ \A i \in Usable : members[i].weight \in Nat
        /\ \A i \in Usable' : members'[i].weight \in Nat
    BY DEF TypeOK, Usable, Row
  <2>2. Usable \ {m} = Usable' \ {m} /\ \A i \in Usable \ {m} : members[i].weight = members'[i].weight
    BY <2>1
  <2> QED BY <2>1, <2>2, RendezvousMinimalRemap
<1> HIDE DEF Remap
<1>2. Spec => [][Remap]_vars
  BY <1>1, TypeCorrect, PTL
<1> QED BY <1>2 DEF Remap, MinimalRemap

\* Only the request that was answered 401 with the very token an account has
\* now takes it from it (invalidateCopilotOauthToken).
THEOREM RejectedOnly == Spec => OnlyRejectedTokenRetired
<1> DEFINE Only == \A n \in Names :
       accounts[n].status # "expired" /\ accounts'[n].status = "expired" =>
         \E r \in Requests : req[r].answer = "unauthorized" /\ req[r].tok = Token(n)
<1>1. IInv /\ [Next]_vars => Only
  <2> SUFFICES ASSUME IInv, Next, NEW n \in Names,
                      accounts[n].status # "expired", accounts'[n].status = "expired"
               PROVE  \E r \in Requests : req[r].answer = "unauthorized" /\ req[r].tok = Token(n)
    BY DEF vars
  <2>1. accounts \in [Names -> Account]
    BY DEF IInv, TypeOK
  <2>2. ASSUME NEW r \in Requests, NEW x \in Names, accounts' = RetireToken(accounts, x, req[r].tok),
               req[r].pc \in {"retire", "reject"}
        PROVE  req[r].answer = "unauthorized" /\ req[r].tok = Token(n)
    <3>1. req[r].answer = "unauthorized"
      BY <2>2 DEF IInv, HandlerOK
    <3>2. x = n /\ <<x, accounts[x].token>> = req[r].tok
      BY <2>1, <2>2 DEF RetireToken
    <3> QED BY <3>1, <3>2 DEF Token
  <2>3. CASE Operate \/ Tick
    <3>1. ASSUME NEW x \in Names, NEW row, row.status # "expired",
                 accounts' = [accounts EXCEPT ![x] = row]
          PROVE  FALSE
      BY <2>1, <3>1
    <3>2. CASE Authorize
      <4>1. PICK x \in Names :
              accounts' = [accounts EXCEPT ![x] = [status |-> "valid", token |-> @.token + 1]]
        BY <3>2 DEF Authorize
      <4> QED BY <3>1, <4>1
    <3>3. CASE BeginAuthorization
      <4>1. PICK x \in Names : accounts' = [accounts EXCEPT ![x].status = "refreshing"]
        BY <3>3 DEF BeginAuthorization
      <4>2. [accounts[x] EXCEPT !.status = "refreshing"].status # "expired"
        BY <2>1 DEF Account
      <4> QED BY <3>1, <4>1, <4>2
    <3>4. CASE DeleteAccount
      <4>1. PICK x \in Names : accounts' = [accounts EXCEPT ![x].status = "absent"]
        BY <3>4 DEF DeleteAccount
      <4>2. [accounts[x] EXCEPT !.status = "absent"].status # "expired"
        BY <2>1 DEF Account
      <4> QED BY <3>1, <4>1, <4>2
    <3>5. CASE UNCHANGED accounts
      BY <3>5
    <3> QED BY <2>3, <3>2, <3>3, <3>4, <3>5 DEF Operate, CreatePool, UpdatePool, DeletePool,
           AddMember, CheckAccount, InsertMember, RemoveMember, Resume, Reinsert, ResetMember,
           PruneSessions, Tick, store
  <2>4. CASE \E r \in Requests : Handle(r)
    <3>1. PICK r \in Requests : Handle(r)
      BY <2>4
    <3>2. CASE Retire(r)
      <4>1. req[r].who \in Names /\ req[r].pc = "retire"
        BY <3>2 DEF Retire, At, IInv, HandlerOK, Serving
      <4> QED BY <2>2, <3>2, <4>1 DEF Retire
    <3>3. CASE RejectClientName(r)
      <4>1. PoolName \in Names /\ req[r].pc = "reject"
        BY <3>3 DEF RejectClientName, At, Names
      <4> QED BY <2>2, <3>3, <4>1 DEF RejectClientName
    <3>4. CASE ~Retire(r) /\ ~RejectClientName(r)
      BY <3>1, <3>4 DEF Handle, Arrive, ListMembers, LookupAffinity, Renew, ClearAffinity, Bind,
           GetAuth, ModelAccepted, ModelRejected, NotePoolFailure, ReportMemberFailure, Unreachable,
           UpstreamAnswer, ReportMemberSuccess, store
    <3> QED BY <3>2, <3>3, <3>4
  <2> QED BY <2>3, <2>4 DEF Next
<1> HIDE DEF Only
<1>2. Spec => [][Only]_vars
  BY Invariance, <1>1, PTL DEF Spec
<1> QED BY <1>2 DEF Only, OnlyRejectedTokenRetired
=============================================================================

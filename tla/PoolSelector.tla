---------------------------- MODULE PoolSelector ----------------------------
(***************************************************************************)
(* The member selection of an account pool: proxy/src/pool/poolSelector.ts *)
(* and the member row it reads (poolTypes.ts).  Everything here is a pure  *)
(* operator on a roster, a function from the identities that are members   *)
(* of the pool to their rows.  A time is a natural number of clock ticks;  *)
(* NoTime stands for the NULL of a timestamp column.                       *)
(***************************************************************************)
EXTENDS Integers, FiniteSets

CONSTANTS
  Identities,   \* the account names that can be members of the pool
  Sessions,     \* the session keys
  ListOrder,    \* the place of an identity in ORDER BY identity
  LocaleOrder,  \* its place under localeCompare, which round-robin sorts by
  Base,         \* Base[s][m] stands for -1 / ln(sha256(s m)), an unweighted score
  Bucket,       \* Bucket[s] stands for the 32-bit digest of the session key
  Second        \* clock ticks in a second

OneToOne(f) == \A a, b \in Identities : f[a] = f[b] => a = b

ASSUME IdentitiesAssumption == IsFiniteSet(Identities)
ASSUME OrderAssumption ==
  /\ ListOrder \in [Identities -> Nat] /\ OneToOne(ListOrder)
  /\ LocaleOrder \in [Identities -> Nat] /\ OneToOne(LocaleOrder)
ASSUME HashAssumption ==
  /\ Base \in [Sessions -> [Identities -> Nat \ {0}]]
  /\ Bucket \in [Sessions -> Nat]
ASSUME SecondAssumption == Second \in Nat \ {0}

Strategies == {"sticky-affinity", "least-loaded", "round-robin"}
MemberStates == {"active", "cooling", "disabled"}
NoTime == 0
NoOne == "no-one"
ASSUME NoOneAssumption == NoOne \notin Identities

Row == [weight : Nat \ {0}, state : MemberStates, coolingUntil : Nat,
        failures : Nat, lastUsedAt : Nat]

(***************************************************************************)
(* Availability: a cooldown ends by itself, nothing has to thaw a member.  *)
(***************************************************************************)
\* Mutant: a cooldown that ends now has not ended yet.
MutantIsMemberAvailable(row, now) ==
  \/ row.state = "active"
  \/ row.state = "cooling" /\ (row.coolingUntil = NoTime \/ row.coolingUntil < now)

IsMemberAvailable(row, now) ==
  \/ row.state = "active"
  \/ row.state = "cooling" /\ (row.coolingUntil = NoTime \/ row.coolingUntil <= now)

Candidates(rows, exclude) ==
  {m \in DOMAIN rows : m \notin exclude /\ rows[m].state # "disabled"}

\* Mutant: whoever is not disabled is taken for available.
MutantAvailableMembers(rows, now) == {m \in DOMAIN rows : rows[m].state # "disabled"}

AvailableMembers(rows, now) == {m \in DOMAIN rows : IsMemberAvailable(rows[m], now)}

(***************************************************************************)
(* The strategies.  Each picks one member of a non-empty set S of          *)
(* available members; a tie goes to the member listed first.               *)
(***************************************************************************)
First(S) == CHOOSE m \in S : \A i \in S : ListOrder[m] <= ListOrder[i]

WeightedScore(rows, s, m) == rows[m].weight * Base[s][m]

Highest(S, rows, s) ==
  {m \in S : \A i \in S : WeightedScore(rows, s, i) <= WeightedScore(rows, s, m)}

Before(S, m) == {i \in S : LocaleOrder[i] < LocaleOrder[m]}

\* Mutant: the hash of the session modulo the number of members.
MutantRendezvous(S, rows, s) ==
  CHOOSE m \in S : Cardinality(Before(S, m)) = Bucket[s] % Cardinality(S)

Rendezvous(S, rows, s) == First(Highest(S, rows, s))

Oldest(S, rows) == {m \in S : \A i \in S : rows[m].lastUsedAt <= rows[i].lastUsedAt}

LeastRecentlyUsed(S, rows) == First(Oldest(S, rows))

RoundRobin(S, s) ==
  CHOOSE m \in S : Cardinality(Before(S, m)) = Bucket[s] % Cardinality(S)

Soonest(S, rows) ==
  First({m \in S : \A i \in S : rows[m].coolingUntil <= rows[i].coolingUntil})

(***************************************************************************)
(* selectMember: what a request gets, and how long it is told to wait when *)
(* every candidate is cooling.                                             *)
(***************************************************************************)
\* Mutant: the wait is rounded down.
MutantCeilDiv(n, d) == n \div d

CeilDiv(n, d) == (n + d - 1) \div d

RetryAfter(m, rows, now) ==
  IF rows[m].coolingUntil > now THEN CeilDiv(rows[m].coolingUntil - now, Second) ELSE 0

Pick(strategy, S, rows, s) ==
  CASE strategy = "least-loaded" -> LeastRecentlyUsed(S, rows)
    [] strategy = "round-robin"  -> RoundRobin(S, s)
    [] OTHER                     -> Rendezvous(S, rows, s)

SelectMember(strategy, rows, s, exclude, now) ==
  LET candidates == Candidates(rows, exclude)
      available  == candidates \cap AvailableMembers(rows, now)
      soonest    == Soonest(candidates, rows)
  IN  IF candidates = {} THEN [kind |-> "empty", who |-> NoOne, retryAfter |-> 0]
      ELSE IF available = {}
        THEN [kind |-> "all-cooling", who |-> soonest,
              retryAfter |-> RetryAfter(soonest, rows, now)]
        ELSE [kind |-> "selected", who |-> Pick(strategy, available, rows, s),
              retryAfter |-> 0]
=============================================================================

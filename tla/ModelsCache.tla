---------------------------- MODULE ModelsCache ----------------------------
(***************************************************************************)
(* The models of one account as a proxy process keeps them: an entry in a  *)
(* map, the snapshot in it and the one fetch that refreshes it, which      *)
(* every request that needs it joins.  An entry that is cleared leaves the *)
(* map; a fetch that was begun for it still ends, in the entry it had.     *)
(* Accounts have entries of their own, so that one account is modelled.    *)
(***************************************************************************)
EXTENDS Naturals

CONSTANTS
  Readers,     \* clients, each with one request at a time
  Ttl,         \* MODELS_CACHE_TTL_MS
  StaleMax,    \* MODELS_CACHE_STALE_MAX_AGE_MS
  Recheck,     \* MODELS_CACHE_NEGATIVE_RECHECK_MS
  MaxEntries,  \* bound on the entries there ever are
  MaxNow       \* bound on the clock

ASSUME CacheAssumption ==
  /\ {Ttl, StaleMax, Recheck, MaxEntries} \subseteq Nat /\ MaxNow \in Nat \ {0}
  /\ Recheck < Ttl /\ Ttl <= StaleMax

VARIABLES
  now,      \* the clock
  entries,  \* every entry there ever was, in the order of their creation
  made,     \* how many there were
  current,  \* the one in the map, 0: none
  cleared,  \* how often the map was cleared
  reader    \* each request

cacheVars == <<now, entries, made, current, cleared, reader>>

\* begun: how often the map had been cleared when the fetch was begun.
Snapshots == [fetchedAt : 0..MaxNow, begun : 0..MaxEntries, supports : BOOLEAN]
Nothing   == [fetchedAt |-> 0, begun |-> 0, supports |-> FALSE]
NoFetch   == [open |-> FALSE, begun |-> 0]
Away      == [at |-> "away", for |-> "list", entry |-> 0, old |-> Nothing, got |-> Nothing,
              since |-> 0, epoch |-> 0, stale |-> FALSE]

CacheTypeOK ==
  /\ now \in 1..MaxNow /\ cleared \in 0..MaxEntries
  /\ current \in 0..made /\ made \in 0..MaxEntries
  /\ entries \in [1..MaxEntries -> [snapshot : Snapshots,
                                    fetch : [open : BOOLEAN, begun : 0..MaxEntries]]]
  /\ reader \in [Readers ->
       [at : {"away", "waiting", "has", "refused"},
        for : {"list", "bypass", "path", "recheck"}, entry : 0..MaxEntries,
        old : Snapshots, got : Snapshots, since : 0..MaxNow, epoch : 0..MaxEntries,
        stale : BOOLEAN]]

CacheInit ==
  /\ now = 1 /\ made = 0 /\ current = 0 /\ cleared = 0
  /\ entries = [n \in 1..MaxEntries |-> [snapshot |-> Nothing, fetch |-> NoFetch]]
  /\ reader = [r \in Readers |-> Away]

-----------------------------------------------------------------------------

CacheTick ==
  /\ now < MaxNow
  /\ now' = now + 1
  /\ UNCHANGED <<entries, made, current, cleared, reader>>

Forced(purpose)      == purpose \in {"bypass", "recheck"}
AllowsStale(purpose) == purpose \in {"list", "path"}
Fresh(snapshot)      == snapshot.fetchedAt > 0 /\ snapshot.fetchedAt + Ttl > now
StillUsable(r)       == /\ reader[r].old.fetchedAt > 0
                        /\ reader[r].since - reader[r].old.fetchedAt <= StaleMax

Asked(at, purpose, n, epoch, old, got) ==
  [at |-> at, for |-> purpose, entry |-> n, old |-> old, got |-> got, since |-> now, epoch |-> epoch,
   stale |-> FALSE]

\* getModelsSnapshot: the entry of the map, made when there is none, answers at once or
\* refreshes itself, by the fetch that is under way if there is one.
Ask(r, purpose, epoch) ==
  LET n == IF current = 0 THEN made + 1 ELSE current
      s == entries[n].snapshot
  IN /\ n <= MaxEntries
     /\ current' = n
     /\ made' = IF current = 0 THEN n ELSE made
     /\ IF Fresh(s) /\ ~Forced(purpose)
        THEN /\ reader' = [reader EXCEPT ![r] = Asked("has", purpose, n, epoch, Nothing, s)]
             /\ UNCHANGED entries
        ELSE /\ reader' = [reader EXCEPT ![r] = Asked("waiting", purpose, n, epoch, s, Nothing)]
             /\ entries' = IF entries[n].fetch.open THEN entries
                           ELSE [entries EXCEPT ![n].fetch = [open |-> TRUE, begun |-> cleared]]
     /\ UNCHANGED <<now, cleared>>

Arrive(r, purpose) == reader[r].at = "away" /\ Ask(r, purpose, cleared)

FetchedAt == now

\* Mutant: the snapshot goes into the entry that is in the map now.
MutantTarget(n) == IF current = 0 THEN n ELSE current

\* The fetch keeps the entry it was begun for.
Target(n) == n

Waiting(n) == {r \in Readers : reader[r].at = "waiting" /\ reader[r].entry = n}

FetchSucceeds(n, supports) ==
  LET s == [fetchedAt |-> FetchedAt, begun |-> entries[n].fetch.begun, supports |-> supports]
  IN /\ entries[n].fetch.open
     /\ entries' = [[entries EXCEPT ![n].fetch = NoFetch] EXCEPT ![Target(n)].snapshot = s]
     /\ reader' = [r \in Readers |-> IF r \in Waiting(n)
                                     THEN [reader[r] EXCEPT !.at = "has", !.got = s, !.old = Nothing]
                                     ELSE reader[r]]
     /\ UNCHANGED <<now, made, current, cleared>>

\* denied: 401 or 403.  After any other failure the snapshot a request saw when it came
\* is used once more, if it is not too old.
FetchFails(n, denied) ==
  /\ entries[n].fetch.open
  /\ entries' = [entries EXCEPT ![n].fetch = NoFetch]
  /\ reader' = [r \in Readers |->
       IF r \notin Waiting(n) THEN reader[r]
       ELSE IF ~denied /\ AllowsStale(reader[r].for) /\ StillUsable(r)
       THEN [reader[r] EXCEPT !.at = "has", !.got = reader[r].old, !.stale = TRUE]
       ELSE Away]
  /\ UNCHANGED <<now, made, current, cleared>>

Serve(r) ==
  /\ reader[r].at = "has"
  /\ reader[r].for \in {"list", "bypass"} \/ reader[r].got.supports
  /\ reader' = [reader EXCEPT ![r] = Away]
  /\ UNCHANGED <<now, entries, made, current, cleared>>

TooOld(snapshot) == now - snapshot.fetchedAt > Recheck

Unsupported(r) ==
  reader[r].at = "has" /\ reader[r].for \in {"path", "recheck"} /\ ~reader[r].got.supports

\* A model that is not found is looked for once more, unless the list is quite new.
LookAgain(r) ==
  /\ Unsupported(r) /\ reader[r].for = "path" /\ TooOld(reader[r].got)
  /\ Ask(r, "recheck", reader[r].epoch)

Refuse(r) ==
  /\ Unsupported(r)
  /\ reader[r].for = "path" => ~TooOld(reader[r].got)
  /\ reader' = [reader EXCEPT ![r].at = "refused",
                              ![r].since = IF reader[r].for = "path" THEN now ELSE @]
  /\ UNCHANGED <<now, entries, made, current, cleared>>

Leave(r) ==
  /\ reader[r].at = "refused"
  /\ reader' = [reader EXCEPT ![r] = Away]
  /\ UNCHANGED <<now, entries, made, current, cleared>>

\* A token of the account was replaced.
ClearModelsCache ==
  /\ cleared + 1 < MaxEntries
  /\ current' = 0
  /\ cleared' = cleared + 1
  /\ UNCHANGED <<now, entries, made, reader>>

CacheNext ==
  \/ CacheTick \/ ClearModelsCache
  \/ \E r \in Readers :
       \/ \E purpose \in {"list", "bypass", "path"} : Arrive(r, purpose)
       \/ Serve(r) \/ Leave(r) \/ LookAgain(r) \/ Refuse(r)
  \/ \E n \in 1..made, b \in BOOLEAN : FetchSucceeds(n, b) \/ FetchFails(n, b)

CacheSpec == CacheInit /\ [][CacheNext]_cacheVars

-----------------------------------------------------------------------------
(* Properties. *)

\* A request that comes after the cache was cleared uses no list whose fetch was begun
\* before it, although that fetch may end later and others may still wait for it.
ClearedIsForgotten ==
  \A r \in Readers : reader[r].at \in {"has", "refused"} =>
    reader[r].got.begun >= reader[r].epoch

\* A list is as recent as promised: younger than its time to live when the request
\* came, or, after a failed refresh, than the six hours; one that bypasses the cache is
\* fetched after it came; and no model is refused on a list that was more than a minute
\* old when it was looked up.
AnswersAreRecent ==
  \A r \in Readers :
    /\ reader[r].at = "has" =>
         /\ Forced(reader[r].for) => reader[r].got.fetchedAt >= reader[r].since
         /\ reader[r].got.fetchedAt + StaleMax >= reader[r].since
         /\ ~reader[r].stale => reader[r].got.fetchedAt + Ttl > reader[r].since
    /\ reader[r].at = "refused" => reader[r].got.fetchedAt + Recheck >= reader[r].since

\* No answer is out of date in either way.
AnswersAreCurrent == ClearedIsForgotten /\ AnswersAreRecent
=============================================================================

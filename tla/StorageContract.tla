-------------------------- MODULE StorageContract --------------------------
(***************************************************************************)
(* What the storage of the proxy promises its callers: each operation on   *)
(* its tables happens at once.  The SQLite storage does just that, in one  *)
(* synchronous call.  A row is its table, the key it is found by and the   *)
(* rest of it; there is one pool.                                          *)
(***************************************************************************)
EXTENDS Integers, FiniteSets

CONSTANTS
  Accounts,   \* identities
  SessionKeys, \* session keys
  FailAfter,  \* failure_threshold
  MaxCount,   \* bound on consecutive_failures: it stays there
  Retained,   \* REQUEST_STATS_PER_ACCOUNT_LIMIT
  MaxStats    \* bound on the statistics ever recorded

ASSUME StorageAssumption ==
  /\ FailAfter \in Nat \ {0} /\ Retained \in Nat \ {0}
  /\ MaxCount \in Nat /\ FailAfter <= MaxCount /\ MaxStats \in Nat

VARIABLE rows

ThePool == "pool"

\* cooling: whether cooling_until is set.
MemberRows == [state : {"active", "cooling", "disabled"}, failures : 0..MaxCount, cooling : BOOLEAN]

AllRows ==
  ({"pools"} \X {ThePool} \X BOOLEAN) \cup ({"accounts"} \X Accounts \X {0})
    \cup ({"members"} \X Accounts \X MemberRows) \cup ({"sessions"} \X Accounts \X SessionKeys)
    \cup ({"stats"} \X Accounts \X (1..MaxStats))

\* The rows a statement with these keys finds in a table.
Found(table, keys) == {row \in rows : row[1] = table /\ row[2] \in keys}

ContractInit == rows = {}

-----------------------------------------------------------------------------

Upsert(table, key, data) == rows' = (rows \ Found(table, {key})) \cup {<<table, key, data>>}

\* enabled stands for all the settings of a pool.
CreatePool(enabled) == Upsert("pools", ThePool, enabled)
UpdatePoolRow(enabled) == Found("pools", {ThePool}) # {} /\ CreatePool(enabled)
DeletePoolRows == rows' = rows \ (Found("pools", {ThePool}) \cup Found("members", Accounts)
                                   \cup Found("sessions", Accounts))

\* createAccount and importCopilotOauthToken, as far as a row is there.
PutAccount(i) == rows' = rows \cup {<<"accounts", i, 0>>}
DeleteAccountRows(gone) == rows' = rows \ (Found("accounts", gone) \cup Found("stats", gone))

NewMember(state) == [state |-> state, failures |-> 0, cooling |-> FALSE]

AddPoolMember(i, state) ==
  \/ Found("members", {i}) = {} /\ Upsert("members", i, NewMember(state))
  \/ \E row \in Found("members", {i}) : Upsert("members", i, [row[3] EXCEPT !.state = state])

RemoveMemberRows(i) == rows' = rows \ (Found("members", {i}) \cup Found("sessions", {i}))

MarkSuccess(i) ==
  \E row \in Found("members", {i}) :
    row[3].state # "disabled" /\ Upsert("members", i, NewMember("active"))

Failed(member, force) ==
  LET failures == IF member.failures < MaxCount THEN member.failures + 1 ELSE MaxCount
      cools == force \/ failures >= FailAfter
  IN [state |-> IF cools THEN "cooling" ELSE member.state, failures |-> failures, cooling |-> cools]

MarkFailure(i, force) ==
  \E row \in Found("members", {i}) :
    row[3].state # "disabled" /\ Upsert("members", i, Failed(row[3], force))

BoundTo(key) == {row \in rows : row[1] = "sessions" /\ row[3] = key}

UpsertSessionAffinity(key, i) == rows' = (rows \ BoundTo(key)) \cup {<<"sessions", i, key>>}
ClearSessionAffinity(key)     == rows' = rows \ BoundTo(key)

InsertStat(i, n) == rows' = rows \cup {<<"stats", i, n>>}

\* Mutant: the rows that are kept are the oldest.
MutantNewer(row, other) == other[3] < row[3]

Newer(row, other) == other[3] > row[3]

\* All but the newest.
Stale(found) == {row \in found : Cardinality({other \in found : Newer(row, other)}) >= Retained}

PruneStats(i) == rows' = rows \ Stale(Found("stats", {i}))

PruneAllRequestStats == rows' = rows \ UNION {Stale(Found("stats", {i})) : i \in Accounts}

ContractNext ==
  \/ \E b \in BOOLEAN : CreatePool(b) \/ UpdatePoolRow(b)
  \/ DeletePoolRows \/ PruneAllRequestStats
  \/ \E i \in Accounts :
       \/ PutAccount(i) \/ RemoveMemberRows(i) \/ MarkSuccess(i) \/ PruneStats(i)
       \/ \E state \in {"active", "disabled"} : AddPoolMember(i, state)
       \/ \E force \in BOOLEAN : MarkFailure(i, force)
       \/ \E key \in SessionKeys : UpsertSessionAffinity(key, i)
       \/ \E n \in 1..MaxStats : InsertStat(i, n)
  \/ \E gone \in SUBSET Accounts : DeleteAccountRows(gone)
  \/ \E key \in SessionKeys : ClearSessionAffinity(key)

ContractSpec == ContractInit /\ [][ContractNext]_rows
=============================================================================

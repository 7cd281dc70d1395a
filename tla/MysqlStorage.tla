---------------------------- MODULE MysqlStorage ----------------------------
(***************************************************************************)
(* The MySQL storage.  An operation of several statements is a transaction *)
(* on a connection of its own: a locking statement waits for the ranges it *)
(* reads and keeps them locked to the end, and what it changes is seen     *)
(* when the transaction is committed.  The database is external: InnoDB at *)
(* REPEATABLE READ, whose locks on a range also keep inserts out of it.    *)
(* An operation of one statement is a step of the contract, which waits    *)
(* for those who hold what it changes.                                     *)
(***************************************************************************)
EXTENDS StorageContract, Sequences

CONSTANTS
  Clients,     \* callers, of any number of processes
  Connections  \* connectionLimit, of all the pools together

ASSUME MysqlAssumption == Connections \in Nat \ {0}

VARIABLES
  caller,    \* each caller and how far its operation is
  clock,     \* the last requested_at that was read
  recorded   \* history: the statistics recorded of an account since it was deleted last

mysqlVars == <<rows, caller, clock, recorded>>

\* gone, new: what the transaction deletes and writes.  stat: requested_at of a record.
NoCall == [op |-> "none", keys |-> {}, force |-> FALSE, step |-> 1, locks |-> {},
           gone |-> {}, new |-> {}, stat |-> 0]

\* Mutant: the members go before the sessions.
MutantProgram == [deleteAccount |-> <<"accounts", "stats", "accounts">>,
            deleteAccountsBySsoUser |-> <<"accounts", "stats", "accounts">>,
            removePoolMember |-> <<"members", "sessions">>,
            deletePool |-> <<"sessions", "members", "pools">>,
            markMemberFailure |-> <<"members", "members">>]

\* The tables the statements of a transaction go to.
Program == [deleteAccount |-> <<"accounts", "stats", "accounts">>,
            deleteAccountsBySsoUser |-> <<"accounts", "stats", "accounts">>,
            removePoolMember |-> <<"sessions", "members">>,
            deletePool |-> <<"sessions", "members", "pools">>,
            markMemberFailure |-> <<"members", "members">>]

Transactions == DOMAIN Program
InTransaction(c) == caller[c].op \in Transactions
Open == {c \in Clients : InTransaction(c)}

LockedByOthers(c) == UNION {caller[d].locks : d \in Clients \ {c}}
Unlocked(ranges) == \A c \in Clients : caller[c].locks \cap ranges = {}

MysqlTypeOK ==
  /\ rows \subseteq AllRows
  /\ clock \in 0..MaxStats
  /\ recorded \in [Accounts -> SUBSET (1..MaxStats)]
  /\ \A c \in Clients :
       /\ caller[c].op \in Transactions \cup {"none", "insert", "prune", "update"}
       /\ caller[c].step \in 1..4
       /\ caller[c].new \subseteq AllRows /\ caller[c].gone \subseteq AllRows
       /\ caller[c].stat \in 0..MaxStats

MysqlInit ==
  /\ ContractInit
  /\ caller = [c \in Clients |-> NoCall]
  /\ clock = 0
  /\ recorded = [i \in Accounts |-> {}]

-----------------------------------------------------------------------------
(* Transactions. *)

Call(c, op, keys) == [NoCall EXCEPT !.op = op, !.keys = keys]

Begin(c, op, keys, force) ==
  /\ caller[c].op = "none"
  /\ Cardinality(Open) < Connections
  /\ caller' = [caller EXCEPT ![c] = [Call(c, op, keys) EXCEPT !.force = force]]
  /\ UNCHANGED <<rows, clock, recorded>>

BeginOnAccounts(c) ==
  \/ \E i \in Accounts : Begin(c, "deleteAccount", {i}, FALSE)
  \/ \E S \in SUBSET Accounts : S # {} /\ Begin(c, "deleteAccountsBySsoUser", S, FALSE)

BeginOnPool(c) ==
  \/ \E i \in Accounts : Begin(c, "removePoolMember", {i}, FALSE)
  \/ Begin(c, "deletePool", Accounts, FALSE)
  \/ \E i \in Accounts, force \in BOOLEAN : Begin(c, "markMemberFailure", {i}, force)

Table(c) == Program[caller[c].op][caller[c].step]
KeysOf(c) == IF Table(c) = "pools" THEN {ThePool} ELSE caller[c].keys

\* Mutant: the row of a member is read without FOR UPDATE.
MutantRanges(c) == IF caller[c].op = "markMemberFailure" /\ caller[c].step = 1 THEN {}
                   ELSE {Table(c)} \X KeysOf(c)

\* LOWER(sso_user) is found in no index: all the accounts are locked.
Ranges(c) == IF caller[c].op = "deleteAccountsBySsoUser" /\ Table(c) = "accounts"
             THEN {"accounts"} \X Accounts ELSE {Table(c)} \X KeysOf(c)

CanLock(c) == Ranges(c) \cap LockedByOthers(c) = {}

\* The first statement that finds nothing to do ends the operation.
NothingToDo(c) ==
  /\ caller[c].step = 1
  /\ \/ caller[c].op = "deleteAccount" /\ Found("accounts", caller[c].keys) = {}
     \/ caller[c].op = "markMemberFailure"
          /\ \A row \in Found("members", caller[c].keys) : row[3].state = "disabled"

\* markMemberFailure computes the row it will write from the one it reads; a deletion of
\* accounts first finds those there are; everything else deletes what it finds.
Written(c) ==
  {<<"members", row[2], Failed(row[3], caller[c].force)>> : row \in Found("members", caller[c].keys)}

Done(c) ==
  LET found == Found(Table(c), KeysOf(c))
      mark  == caller[c].op = "markMemberFailure"
      first == caller[c].step = 1
      next  == [caller[c] EXCEPT !.step = @ + 1, !.locks = @ \cup Ranges(c)]
  IN CASE mark /\ first  -> [next EXCEPT !.new = Written(c)]
       [] mark /\ ~first -> [next EXCEPT !.gone = found, !.new = IF found = {} THEN {} ELSE @]
       [] ~mark /\ first /\ Table(c) = "accounts" -> [next EXCEPT !.keys = {row[2] : row \in found}]
       [] OTHER -> [next EXCEPT !.gone = @ \cup found]

Statement(c) ==
  /\ InTransaction(c) /\ caller[c].step <= Len(Program[caller[c].op])
  /\ CanLock(c)
  /\ caller' = [caller EXCEPT ![c] = IF NothingToDo(c) THEN NoCall ELSE Done(c)]
  /\ UNCHANGED <<rows, clock, recorded>>

Commit(c) ==
  /\ InTransaction(c) /\ caller[c].step > Len(Program[caller[c].op])
  /\ rows' = (rows \ caller[c].gone) \cup caller[c].new
  /\ recorded' = [i \in Accounts |->
       IF \E row \in caller[c].gone : row[1] = "accounts" /\ row[2] = i THEN {} ELSE recorded[i]]
  /\ caller' = [caller EXCEPT ![c] = NoCall]
  /\ UNCHANGED clock

\* A statement fails, or the process is gone: the transaction is rolled back.
Rollback(c) ==
  /\ caller[c].op # "none"
  /\ caller' = [caller EXCEPT ![c] = NoCall]
  /\ UNCHANGED <<rows, clock, recorded>>

-----------------------------------------------------------------------------
(* Operations of one statement, and those of several that are no transaction. *)

Idle(c) == caller[c].op = "none" /\ Cardinality(Open) < Connections

Alone(c, ranges, Operation) ==
  /\ Idle(c) /\ Unlocked(ranges)
  /\ Operation
  /\ UNCHANGED <<caller, clock, recorded>>

SessionRanges(key) == {<<"sessions", row[2]>> : row \in BoundTo(key)}

AloneOnAccounts(c) ==
  \/ Alone(c, {"stats"} \X Accounts, PruneAllRequestStats)
  \/ \E i \in Accounts : Alone(c, {<<"accounts", i>>}, PutAccount(i))

AloneOnPool(c) ==
  \/ \E b \in BOOLEAN : Alone(c, {<<"pools", ThePool>>}, CreatePool(b))
  \/ \E i \in Accounts :
       \/ Alone(c, {<<"members", i>>}, MarkSuccess(i))
       \/ \E state \in {"active", "disabled"} : Alone(c, {<<"members", i>>}, AddPoolMember(i, state))
       \/ \E key \in SessionKeys :
            Alone(c, {<<"sessions", i>>} \cup SessionRanges(key), UpsertSessionAffinity(key, i))
  \/ \E key \in SessionKeys : Alone(c, SessionRanges(key), ClearSessionAffinity(key))

\* updatePool reads the row and writes all of it; what is not given keeps the value read.
BeginUpdatePool(c) ==
  /\ Idle(c)
  /\ \E row \in Found("pools", {ThePool}), b \in BOOLEAN, given \in BOOLEAN :
       caller' = [caller EXCEPT ![c] =
         [Call(c, "update", {ThePool}) EXCEPT !.force = IF given THEN b ELSE row[3]]]
  /\ UNCHANGED <<rows, clock, recorded>>

UpdatePool(c) ==
  /\ caller[c].op = "update" /\ Unlocked({<<"pools", ThePool>>})
  /\ UpdatePoolRow(caller[c].force) \/ (Found("pools", {ThePool}) = {} /\ UNCHANGED rows)
  /\ caller' = [caller EXCEPT ![c] = NoCall]
  /\ UNCHANGED <<clock, recorded>>

\* recordRequestStat reads the time, inserts the row, which needs no account, and prunes.
BeginRecord(c) ==
  /\ Idle(c) /\ clock < MaxStats
  /\ clock' = clock + 1
  /\ \E i \in Accounts :
       caller' = [caller EXCEPT ![c] = [Call(c, "insert", {i}) EXCEPT !.stat = clock + 1]]
  /\ UNCHANGED <<rows, recorded>>

RecordRequestStat(c) ==
  \E i \in caller[c].keys :
    /\ caller[c].op = "insert" /\ Unlocked({<<"stats", i>>})
    /\ InsertStat(i, caller[c].stat)
    /\ recorded' = [recorded EXCEPT ![i] = @ \cup {caller[c].stat}]
    /\ caller' = [caller EXCEPT ![c].op = "prune"]
    /\ UNCHANGED clock

Prune(c) ==
  \E i \in caller[c].keys :
    /\ caller[c].op = "prune" /\ Unlocked({<<"stats", i>>})
    /\ PruneStats(i)
    /\ caller' = [caller EXCEPT ![c] = NoCall]
    /\ UNCHANGED <<clock, recorded>>

Proceed(c) == Statement(c) \/ Commit(c) \/ Rollback(c)

\* The operations on accounts and their statistics, and those on the pool, its members
\* and sessions, have no table in common.
AccountsNext == \E c \in Clients :
  Proceed(c) \/ BeginOnAccounts(c) \/ AloneOnAccounts(c) \/ BeginRecord(c) \/ RecordRequestStat(c) \/ Prune(c)
PoolNext == \E c \in Clients :
  Proceed(c) \/ BeginOnPool(c) \/ AloneOnPool(c) \/ BeginUpdatePool(c) \/ UpdatePool(c)

MysqlNext == AccountsNext \/ PoolNext

MysqlSpec == MysqlInit /\ [][MysqlNext]_mysqlVars

-----------------------------------------------------------------------------
(* Properties. *)

\* Whatever the callers interleave and whichever statement fails, the tables change as
\* the contract says, one operation after the other: the two storages mean the same.
ImplementsContract == ContractSpec

\* No record is pruned while it is among the newest of its account, although rows are
\* inserted out of the order of their times and pruned by others than their writers.
NewestAreKept ==
  \A i \in Accounts, n \in 1..MaxStats :
    n \in recorded[i] /\ <<"stats", i, n>> \notin rows =>
      Cardinality({m \in recorded[i] : m > n}) >= Retained

\* Of the transactions that are open one at least is not waiting for another.
SomeoneProceeds ==
  Open # {} => \E c \in Open : caller[c].step > Len(Program[caller[c].op]) \/ CanLock(c)
=============================================================================

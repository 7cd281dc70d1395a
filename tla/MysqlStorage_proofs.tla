------------------------ MODULE MysqlStorage_proofs ------------------------
(***************************************************************************)
(* Proofs about the MySQL storage, for any number of callers, connections, *)
(* accounts and session keys: its tables change as the contract says, one  *)
(* operation after the other; transactions do not wait for each other in a *)
(* circle; the newest statistics of an account are kept.                   *)
(***************************************************************************)
EXTENDS MysqlStorage, FiniteSetTheorems, TLAPS

(***************************************************************************)
(* What a transaction holds and has read.  After statement n it holds the  *)
(* ranges of the statements up to n, and what it will delete and write is  *)
(* what the tables still have there, since nobody else can change it.      *)
(***************************************************************************)
Tables == {"pools", "accounts", "members", "sessions", "stats"}
Keys   == Accounts \cup {ThePool}

AccountOps == {"deleteAccount", "deleteAccountsBySsoUser"}
RosterOps  == {"removePoolMember", "deletePool"}

Calls == [op : AccountOps \cup RosterOps \cup {"markMemberFailure", "none", "insert", "prune", "update"},
          keys : SUBSET Keys, force : BOOLEAN, step : 1..4, locks : SUBSET (Tables \X Keys),
          gone : SUBSET AllRows, new : SUBSET AllRows, stat : 0..MaxStats]

Past(q, n, keys) == IF q.step > n THEN keys ELSE {}

\* The keys of a table that a caller has locked, and those whose rows it deletes.
Held(q, table) ==
  CASE table = "sessions" /\ q.op \in RosterOps                -> Past(q, 1, q.keys)
    [] table = "members" /\ q.op \in RosterOps                 -> Past(q, 2, q.keys)
    [] table = "members" /\ q.op = "markMemberFailure"         -> Past(q, 1, q.keys)
    [] table = "pools" /\ q.op = "deletePool"                  -> Past(q, 3, {ThePool})
    [] table = "accounts" /\ q.op = "deleteAccount"            -> Past(q, 1, q.keys)
    [] table = "accounts" /\ q.op = "deleteAccountsBySsoUser"  -> Past(q, 1, Accounts)
    [] table = "stats" /\ q.op \in AccountOps                  -> Past(q, 2, q.keys)
    [] OTHER                                                   -> {}

Doomed(q, table) ==
  CASE table = "accounts" /\ q.op \in AccountOps       -> Past(q, 3, q.keys)
    [] table = "members" /\ q.op = "markMemberFailure" -> Past(q, 2, q.keys)
    [] OTHER                                           -> Held(q, table)

Member(r, q, row) == row \in r /\ row[1] = "members" /\ row[2] \in q.keys

Consistent(q, r) ==
  /\ \A table \in Tables, key \in Keys : <<table, key>> \in q.locks <=> key \in Held(q, table)
  /\ \A row \in AllRows : row \in q.gone <=> row \in r /\ row[2] \in Doomed(q, row[1])
  /\ ~(q.op = "markMemberFailure" /\ q.step > 1) => q.new = {}
  /\ q.op = "markMemberFailure" /\ q.step > 1 =>
       /\ \A row \in AllRows : row \in q.new <=>
            \E old \in AllRows : Member(r, q, old) /\ row = <<"members", old[2], Failed(old[3], q.force)>>
       /\ \E row \in AllRows : Member(r, q, row) /\ row[3].state # "disabled"
  /\ q.op \in AccountOps /\ q.step > 1 => \A i \in q.keys : <<"accounts", i, 0>> \in r

\* What a caller is given, and how far it can be.
Lengths(q) == IF q.op \in AccountOps \cup {"deletePool"} THEN 4
              ELSE IF q.op \in {"removePoolMember", "markMemberFailure"} THEN 3 ELSE 1

Sensible(q) ==
  /\ q.step \in 1..Lengths(q)
  /\ q.op \in AccountOps => q.keys \subseteq Accounts
  /\ q.op = "deletePool" => q.keys = Accounts
  /\ q.op \in {"deleteAccount", "removePoolMember", "markMemberFailure", "insert", "prune"} =>
       \E i \in Accounts : q.keys = {i}
  /\ q.op \in {"insert", "prune"} => q.stat \in 1..MaxStats

Apart(q, other) == q.locks \cap other.locks = {}

\* An account is at most one member of the pool.
OneRow(r) == \A row, other \in AllRows :
  row \in r /\ other \in r /\ row[1] = "members" /\ other[1] = "members" /\ row[2] = other[2] => row = other

Callers(f, r) ==
  /\ f \in [Clients -> Calls]
  /\ \A c \in Clients : Sensible(f[c]) /\ Consistent(f[c], r)
  /\ \A c, d \in Clients : c # d => Apart(f[c], f[d])

StorageInv == rows \subseteq AllRows /\ OneRow(rows) /\ clock \in 0..MaxStats /\ Callers(caller, rows)

-----------------------------------------------------------------------------
(* The transactions and their statements. *)

LEMMA Programs ==
  /\ Transactions = AccountOps \cup RosterOps \cup {"markMemberFailure"}
  /\ Program["deleteAccount"] = <<"accounts", "stats", "accounts">>
  /\ Program["deleteAccountsBySsoUser"] = <<"accounts", "stats", "accounts">>
  /\ Program["removePoolMember"] = <<"sessions", "members">>
  /\ Program["deletePool"] = <<"sessions", "members", "pools">>
  /\ Program["markMemberFailure"] = <<"members", "members">>
BY DEF Transactions, Program, AccountOps, RosterOps

LEMMA Row == ASSUME NEW row \in AllRows
  PROVE /\ row[1] \in Tables /\ row[2] \in Keys /\ <<row[1], row[2]>> \in Tables \X Keys
        /\ row = <<row[1], row[2], row[3]>>
        /\ row[1] # "pools" => row[2] \in Accounts
        /\ row[1] = "pools" => row[2] = ThePool /\ row[3] \in BOOLEAN
        /\ row[1] = "accounts" => row[3] = 0
        /\ row[1] = "members" => row[3] \in MemberRows
        /\ row[1] = "sessions" => row[3] \in SessionKeys
        /\ row[1] = "stats" => row[3] \in 1..MaxStats
BY DEF AllRows, Tables, Keys

LEMMA Rows ==
  /\ \A b \in BOOLEAN : <<"pools", ThePool, b>> \in AllRows
  /\ \A i \in Accounts : <<"accounts", i, 0>> \in AllRows
  /\ \A i \in Accounts, m \in MemberRows : <<"members", i, m>> \in AllRows
  /\ \A i \in Accounts, key \in SessionKeys : <<"sessions", i, key>> \in AllRows
  /\ \A i \in Accounts, n \in 1..MaxStats : <<"stats", i, n>> \in AllRows
BY DEF AllRows

LEMMA FailedIsMember == ASSUME NEW m \in MemberRows, NEW force \in BOOLEAN
  PROVE Failed(m, force) \in MemberRows
BY StorageAssumption DEF Failed, MemberRows

\* What a caller holds of each table, by operation.
LEMMA Holdings == ASSUME NEW q \in Calls
  PROVE /\ q.op \in AccountOps =>
             /\ Held(q, "accounts") = Past(q, 1, IF q.op = "deleteAccount" THEN q.keys ELSE Accounts)
             /\ Held(q, "stats") = Past(q, 2, q.keys)
             /\ Held(q, "pools") = {} /\ Held(q, "members") = {} /\ Held(q, "sessions") = {}
        /\ q.op \in RosterOps =>
             /\ Held(q, "sessions") = Past(q, 1, q.keys) /\ Held(q, "members") = Past(q, 2, q.keys)
             /\ Held(q, "pools") = IF q.op = "deletePool" THEN Past(q, 3, {ThePool}) ELSE {}
             /\ Held(q, "accounts") = {} /\ Held(q, "stats") = {}
        /\ q.op = "markMemberFailure" =>
             /\ Held(q, "members") = Past(q, 1, q.keys)
             /\ Held(q, "pools") = {} /\ Held(q, "accounts") = {}
             /\ Held(q, "sessions") = {} /\ Held(q, "stats") = {}
        /\ q.op \in {"none", "insert", "prune", "update"} => \A table \in Tables : Held(q, table) = {}
BY DEF Held, AccountOps, RosterOps, Tables, Calls

LEMMA Deletions == ASSUME NEW q \in Calls
  PROVE /\ q.op \in AccountOps =>
             /\ Doomed(q, "accounts") = Past(q, 3, q.keys) /\ Doomed(q, "stats") = Past(q, 2, q.keys)
             /\ Doomed(q, "pools") = {} /\ Doomed(q, "members") = {} /\ Doomed(q, "sessions") = {}
        /\ q.op \in RosterOps =>
             /\ Doomed(q, "sessions") = Past(q, 1, q.keys) /\ Doomed(q, "members") = Past(q, 2, q.keys)
             /\ Doomed(q, "pools") = IF q.op = "deletePool" THEN Past(q, 3, {ThePool}) ELSE {}
             /\ Doomed(q, "accounts") = {} /\ Doomed(q, "stats") = {}
        /\ q.op = "markMemberFailure" =>
             /\ Doomed(q, "members") = Past(q, 2, q.keys)
             /\ Doomed(q, "pools") = {} /\ Doomed(q, "accounts") = {}
             /\ Doomed(q, "sessions") = {} /\ Doomed(q, "stats") = {}
        /\ q.op \in {"none", "insert", "prune", "update"} => \A table \in Tables : Doomed(q, table) = {}
BY Holdings DEF Doomed, AccountOps, RosterOps, Tables, Calls

\* What is deleted is locked.
LEMMA DoomedIsHeld == ASSUME NEW q \in Calls, Sensible(q), NEW table \in Tables
  PROVE Doomed(q, table) \subseteq Held(q, table)
BY Holdings, Deletions DEF Tables, Sensible, Past, Calls, AccountOps, RosterOps

\* The tables of the rows a transaction goes to, statement by statement.
LEMMA Statements == ASSUME NEW c \in Clients, Callers(caller, rows), InTransaction(c)
  PROVE /\ Len(Program[caller[c].op]) = Lengths(caller[c]) - 1
        /\ caller[c].op \in AccountOps =>
             /\ caller[c].step \in {1, 3} => Table(c) = "accounts"
             /\ caller[c].step = 2 => Table(c) = "stats"
        /\ caller[c].op \in RosterOps =>
             /\ caller[c].step = 1 => Table(c) = "sessions"
             /\ caller[c].step = 2 => Table(c) = "members"
        /\ caller[c].op = "deletePool" /\ caller[c].step = 3 => Table(c) = "pools"
        /\ caller[c].op = "markMemberFailure" /\ caller[c].step \in {1, 2} => Table(c) = "members"
<1>1. caller[c] \in Calls /\ caller[c].op \in Transactions
  BY DEF Callers, InTransaction
<1>2. CASE caller[c].op \in AccountOps
  <2>1. Program[caller[c].op] = <<"accounts", "stats", "accounts">>
    BY <1>2, Programs DEF AccountOps
  <2>. QED BY <1>1, <1>2, <2>1 DEF Table, Lengths, AccountOps, RosterOps
<1>3. CASE caller[c].op = "removePoolMember"
  BY <1>1, <1>3, Programs DEF Table, Lengths, AccountOps, RosterOps
<1>4. CASE caller[c].op = "deletePool"
  BY <1>1, <1>4, Programs DEF Table, Lengths, AccountOps, RosterOps
<1>5. CASE caller[c].op = "markMemberFailure"
  BY <1>1, <1>5, Programs DEF Table, Lengths, AccountOps, RosterOps
<1>. QED BY <1>1, <1>2, <1>3, <1>4, <1>5, Programs DEF RosterOps

LEMMA RangesOfStatement ==
  ASSUME NEW c \in Clients, Callers(caller, rows), InTransaction(c),
         caller[c].step <= Len(Program[caller[c].op]), NEW table \in Tables, NEW key \in Keys
  PROVE /\ <<table, key>> \in Ranges(c) <=>
             /\ table = Table(c)
             /\ key \in IF caller[c].op = "deleteAccountsBySsoUser" /\ table = "accounts" THEN Accounts
                        ELSE IF table = "pools" THEN {ThePool} ELSE caller[c].keys
        /\ Ranges(c) \subseteq Tables \X Keys /\ Table(c) \in Tables
<1>1. caller[c] \in Calls /\ Sensible(caller[c]) /\ caller[c].op \in Transactions
  BY DEF Callers, InTransaction
<1>2. caller[c].step \in 1..4 /\ caller[c].step <= Lengths(caller[c]) - 1
  BY <1>1, Statements DEF Calls
<1>3. Table(c) \in Tables
  BY <1>1, <1>2, Statements, Programs DEF Tables, Lengths, AccountOps, RosterOps
<1>4. ThePool \in Keys /\ Accounts \subseteq Keys /\ caller[c].keys \subseteq Keys
  BY <1>1 DEF Keys, Calls
<1>. QED BY <1>3, <1>4 DEF Ranges, KeysOf

(***************************************************************************)
(* Frames: a caller's view stays true as long as the rows it has locked    *)
(* stay as they are.                                                       *)
(***************************************************************************)
Agree(r, s, locks) == \A row \in AllRows : <<row[1], row[2]>> \in locks => (row \in r <=> row \in s)

LEMMA ViewStays ==
  ASSUME NEW q \in Calls, NEW r, NEW s, Sensible(q), Consistent(q, r), Agree(r, s, q.locks)
  PROVE Consistent(q, s)
<1>1. \A row \in AllRows : row \in q.gone <=> row \in s /\ row[2] \in Doomed(q, row[1])
  <2>1. SUFFICES ASSUME NEW row \in AllRows, row[2] \in Doomed(q, row[1]) PROVE row \in r <=> row \in s
    BY DEF Consistent
  <2>2. row[1] \in Tables /\ row[2] \in Keys /\ row[2] \in Held(q, row[1])
    BY <2>1, Row, DoomedIsHeld
  <2>3. <<row[1], row[2]>> \in q.locks
    BY <2>2 DEF Consistent
  <2>. QED BY <2>3 DEF Agree
<1>2. ASSUME q.op = "markMemberFailure", q.step > 1
      PROVE \A row \in AllRows : Member(r, q, row) <=> Member(s, q, row)
  <2>1. Held(q, "members") = q.keys /\ "members" \in Tables
    BY <1>2, Holdings DEF Past, Tables
  <2>2. SUFFICES ASSUME NEW row \in AllRows, row[1] = "members", row[2] \in q.keys
                 PROVE row \in r <=> row \in s
    BY DEF Member
  <2>3. <<row[1], row[2]>> \in q.locks
    BY <2>1, <2>2, Row DEF Consistent
  <2>. QED BY <2>3 DEF Agree
<1>3. ASSUME q.op \in AccountOps, q.step > 1, NEW i \in q.keys
      PROVE <<"accounts", i, 0>> \in s
  <2>1. i \in Accounts /\ i \in Held(q, "accounts") /\ "accounts" \in Tables /\ i \in Keys
    BY <1>3, Holdings DEF Past, Tables, Keys, Sensible
  <2>2. <<"accounts", i>> \in q.locks /\ <<"accounts", i, 0>> \in AllRows
    BY <2>1, Rows DEF Consistent
  <2>3. <<"accounts", i, 0>> \in r
    BY <1>3 DEF Consistent
  <2>. QED BY <2>2, <2>3 DEF Agree
<1>4. ASSUME q.op = "markMemberFailure", q.step > 1
      PROVE /\ \A row \in AllRows : row \in q.new <=>
                 \E old \in AllRows : Member(s, q, old) /\ row = <<"members", old[2], Failed(old[3], q.force)>>
            /\ \E row \in AllRows : Member(s, q, row) /\ row[3].state # "disabled"
  BY <1>2, <1>4 DEF Consistent
<1>. QED BY <1>1, <1>3, <1>4 DEF Consistent

\* A step that changes no row anybody has locked.
LEMMA OutsideTheLocks ==
  ASSUME Callers(caller, rows), caller' = caller,
         \A c \in Clients : Agree(rows, rows', caller[c].locks)
  PROVE Callers(caller, rows)'
<1>1. \A c \in Clients : caller[c] \in Calls /\ Sensible(caller[c]) /\ Consistent(caller[c], rows)
  BY DEF Callers
<1>2. \A c \in Clients : Consistent(caller[c], rows')
  BY <1>1, ViewStays
<1>. QED BY <1>1, <1>2 DEF Callers

\* A step of one caller, which changes no row the others have locked.
LEMMA StepOfOne ==
  ASSUME Callers(caller, rows), NEW c \in Clients, NEW q \in Calls, caller' = [caller EXCEPT ![c] = q],
         Sensible(q), Consistent(q, rows'),
         \A d \in Clients \ {c} : Agree(rows, rows', caller[d].locks) /\ Apart(q, caller[d])
  PROVE Callers(caller, rows)'
<1>1. caller' \in [Clients -> Calls] /\ caller'[c] = q /\ \A d \in Clients \ {c} : caller'[d] = caller[d]
  BY DEF Callers
<1>2. \A d \in Clients : caller[d] \in Calls /\ Sensible(caller[d]) /\ Consistent(caller[d], rows)
  BY DEF Callers
<1>3. \A d \in Clients \ {c} : Consistent(caller[d], rows')
  BY <1>2, ViewStays
<1>4. \A d \in Clients : Sensible(caller'[d]) /\ Consistent(caller'[d], rows')
  BY <1>1, <1>2, <1>3
<1>5. ASSUME NEW d \in Clients, NEW e \in Clients, d # e PROVE Apart(caller'[d], caller'[e])
  <2>1. CASE d = c
    BY <1>1, <1>5, <2>1
  <2>2. CASE e = c
    BY <1>1, <1>5, <2>2 DEF Apart
  <2>3. CASE d # c /\ e # c
    BY <1>1, <1>5, <2>3 DEF Callers
  <2>. QED BY <2>1, <2>2, <2>3
<1>. QED BY <1>1, <1>4, <1>5 DEF Callers

-----------------------------------------------------------------------------
(* Steps that leave the tables alone. *)

LEMMA AnyAgree == ASSUME NEW r, NEW locks PROVE Agree(r, r, locks)
BY DEF Agree

\* A caller that has executed no statement yet.
LEMMA Fresh ==
  ASSUME NEW q \in Calls, NEW r, Sensible(q), q.step = 1, q.locks = {}, q.gone = {}, q.new = {}
  PROVE Consistent(q, r) /\ \A other \in Calls : Apart(q, other)
<1>1. \A table \in Tables : Held(q, table) = {}
  BY Holdings DEF Past, Tables, Calls
<1>2. \A table \in Tables : Doomed(q, table) = {}
  BY Deletions DEF Past, Tables, Calls
<1>3. \A row \in AllRows : row[2] \notin Doomed(q, row[1])
  BY <1>2, Row
<1>4. q.step \in 1..4 /\ ~(q.step > 1)
  BY DEF Calls
<1>5. Consistent(q, r)
  BY <1>1, <1>3, <1>4 DEF Consistent
<1>. QED BY <1>5 DEF Apart

LEMMA NoCallIsFresh ==
  /\ NoCall \in Calls /\ Sensible(NoCall) /\ NoCall.step = 1
  /\ NoCall.locks = {} /\ NoCall.gone = {} /\ NoCall.new = {}
BY StorageAssumption DEF NoCall, Calls, Sensible, Lengths, AccountOps, RosterOps

\* What a caller is when its operation starts.
Starts(q, op, keys, force, stat) ==
  /\ q \in Calls /\ q.op = op /\ q.keys = keys /\ q.force = force /\ q.stat = stat
  /\ q.step = 1 /\ q.locks = {} /\ q.gone = {} /\ q.new = {}

LEMMA Started ==
  ASSUME NEW c, NEW op \in AccountOps \cup RosterOps \cup {"markMemberFailure", "insert", "update"},
         NEW keys \in SUBSET Keys, NEW force \in BOOLEAN, NEW stat \in 0..MaxStats
  PROVE /\ Starts([Call(c, op, keys) EXCEPT !.force = force], op, keys, force, 0)
        /\ Starts([Call(c, op, keys) EXCEPT !.stat = stat], op, keys, FALSE, stat)
<1>1. op \in AccountOps \cup RosterOps \cup {"markMemberFailure", "none", "insert", "prune", "update"}
  OBVIOUS
<1>2. NoCall.force = FALSE /\ NoCall.stat = 0
  BY DEF NoCall
<1>3. Starts(Call(c, op, keys), op, keys, FALSE, 0)
  <2>1. Call(c, op, keys) = [NoCall EXCEPT !.op = op, !.keys = keys]
    BY DEF Call
  <2>. QED BY <1>1, <1>2, <2>1, NoCallIsFresh DEF Calls, Starts
<1>. DEFINE q == Call(c, op, keys)
<1>4. Starts(q, op, keys, FALSE, 0)
  BY <1>3
<1>. HIDE DEF q
<1>5. Starts([q EXCEPT !.force = force], op, keys, force, 0)
  BY <1>4 DEF Starts, Calls
<1>6. Starts([q EXCEPT !.stat = stat], op, keys, FALSE, stat)
  BY <1>4 DEF Starts, Calls
<1>. QED BY <1>5, <1>6 DEF q

\* A caller that starts, or is done: it has locked nothing.
LEMMA FreshStep ==
  ASSUME Callers(caller, rows), NEW c \in Clients, NEW q \in Calls, caller' = [caller EXCEPT ![c] = q],
         Sensible(q), q.step = 1, q.locks = {}, q.gone = {}, q.new = {},
         \A d \in Clients \ {c} : Agree(rows, rows', caller[d].locks)
  PROVE Callers(caller, rows)'
<1>1. Consistent(q, rows') /\ \A d \in Clients : Apart(q, caller[d])
  BY Fresh DEF Callers
<1>. QED BY <1>1, StepOfOne

LEMMA BeginSteady ==
  ASSUME StorageInv, NEW c \in Clients, BeginOnAccounts(c) \/ BeginOnPool(c)
  PROVE StorageInv' /\ UNCHANGED <<rows, clock, recorded>>
<1>1. PICK op \in AccountOps \cup RosterOps \cup {"markMemberFailure"}, keys \in SUBSET Accounts, force \in BOOLEAN :
        /\ Begin(c, op, keys, force)
        /\ op = "deletePool" => keys = Accounts
        /\ op \in {"deleteAccount", "removePoolMember", "markMemberFailure"} => \E i \in Accounts : keys = {i}
  <2>. DEFINE Fits(op, keys, force) ==
         /\ Begin(c, op, keys, force)
         /\ op = "deletePool" => keys = Accounts
         /\ op \in {"deleteAccount", "removePoolMember", "markMemberFailure"} => \E i \in Accounts : keys = {i}
  <2>1. /\ "deleteAccount" \in AccountOps /\ "deleteAccountsBySsoUser" \in AccountOps
        /\ "removePoolMember" \in RosterOps /\ "deletePool" \in RosterOps
    BY DEF AccountOps, RosterOps
  <2>2. /\ \A i \in Accounts : Begin(c, "deleteAccount", {i}, FALSE) => Fits("deleteAccount", {i}, FALSE)
        /\ \A S \in SUBSET Accounts :
             Begin(c, "deleteAccountsBySsoUser", S, FALSE) => Fits("deleteAccountsBySsoUser", S, FALSE)
        /\ \A i \in Accounts : Begin(c, "removePoolMember", {i}, FALSE) => Fits("removePoolMember", {i}, FALSE)
        /\ Begin(c, "deletePool", Accounts, FALSE) => Fits("deletePool", Accounts, FALSE)
        /\ \A i \in Accounts, f \in BOOLEAN :
             Begin(c, "markMemberFailure", {i}, f) => Fits("markMemberFailure", {i}, f)
    OBVIOUS
  <2>. HIDE DEF Fits
  <2>3. \A i \in Accounts : {i} \in SUBSET Accounts
    OBVIOUS
  <2>4. \E op \in AccountOps \cup RosterOps \cup {"markMemberFailure"}, keys \in SUBSET Accounts, force \in BOOLEAN :
          Fits(op, keys, force)
    BY <2>1, <2>2, <2>3 DEF BeginOnAccounts, BeginOnPool
  <2>. QED BY <2>4 DEF Fits
<1>. DEFINE q == [Call(c, op, keys) EXCEPT !.force = force]
<1>2. Starts(q, op, keys, force, 0)
  <2>1. keys \in SUBSET Keys /\ 0 \in 0..MaxStats
    BY StorageAssumption DEF Keys
  <2>. QED BY <2>1, Started
<1>3. caller' = [caller EXCEPT ![c] = q] /\ UNCHANGED <<rows, clock, recorded>>
  BY <1>1 DEF Begin
<1>. HIDE DEF q
<1>4. Sensible(q)
  BY <1>1, <1>2 DEF Starts, Sensible, Lengths, AccountOps, RosterOps
<1>5. Callers(caller, rows)'
  BY <1>2, <1>3, <1>4, FreshStep, AnyAgree DEF StorageInv, Starts
<1>. QED BY <1>3, <1>5 DEF StorageInv

LEMMA RollbackSteady ==
  ASSUME StorageInv, NEW c \in Clients, Rollback(c)
  PROVE StorageInv' /\ UNCHANGED <<rows, clock, recorded>>
<1>1. Callers(caller, rows)'
  BY FreshStep, NoCallIsFresh, AnyAgree DEF Rollback, StorageInv
<1>. QED BY <1>1 DEF StorageInv, Rollback

LEMMA BeginUpdateSteady ==
  ASSUME StorageInv, NEW c \in Clients, BeginUpdatePool(c)
  PROVE StorageInv' /\ UNCHANGED <<rows, clock, recorded>>
<1>1. PICK row \in Found("pools", {ThePool}), b \in BOOLEAN, given \in BOOLEAN :
        caller' = [caller EXCEPT ![c] = [Call(c, "update", {ThePool}) EXCEPT !.force = IF given THEN b ELSE row[3]]]
  BY DEF BeginUpdatePool
<1>. DEFINE value == IF given THEN b ELSE row[3]
            q == [Call(c, "update", {ThePool}) EXCEPT !.force = value]
<1>2. value \in BOOLEAN
  <2>1. row \in AllRows /\ row[1] = "pools"
    BY DEF StorageInv, Found
  <2>2. row[3] \in BOOLEAN
    BY <2>1, Row
  <2>. QED BY <2>2
<1>. HIDE DEF value
<1>3. Starts(q, "update", {ThePool}, value, 0)
  <2>1. {ThePool} \in SUBSET Keys /\ 0 \in 0..MaxStats
    BY StorageAssumption DEF Keys
  <2>. QED BY <1>2, <2>1, Started
<1>4. caller' = [caller EXCEPT ![c] = q]
  BY <1>1 DEF value
<1>. HIDE DEF q
<1>5. Sensible(q)
  BY <1>3 DEF Starts, Sensible, Lengths, AccountOps, RosterOps
<1>6. UNCHANGED <<rows, clock, recorded>>
  BY DEF BeginUpdatePool
<1>7. Callers(caller, rows)'
  BY <1>3, <1>4, <1>5, <1>6, FreshStep, AnyAgree DEF StorageInv, Starts
<1>. QED BY <1>6, <1>7 DEF StorageInv

LEMMA BeginRecordSteady ==
  ASSUME StorageInv, NEW c \in Clients, BeginRecord(c)
  PROVE StorageInv' /\ UNCHANGED <<rows, recorded>>
<1>1. PICK i \in Accounts : caller' = [caller EXCEPT ![c] = [Call(c, "insert", {i}) EXCEPT !.stat = clock + 1]]
  BY DEF BeginRecord
<1>2. clock + 1 \in 1..MaxStats /\ clock' = clock + 1 /\ UNCHANGED <<rows, recorded>>
  BY StorageAssumption DEF BeginRecord, StorageInv
<1>. DEFINE q == [Call(c, "insert", {i}) EXCEPT !.stat = clock + 1]
<1>3. Starts(q, "insert", {i}, FALSE, clock + 1)
  <2>1. {i} \in SUBSET Keys /\ clock + 1 \in 0..MaxStats
    BY <1>2, StorageAssumption DEF Keys
  <2>. QED BY <2>1, Started
<1>4. caller' = [caller EXCEPT ![c] = q]
  BY <1>1
<1>. HIDE DEF q
<1>5. Sensible(q)
  BY <1>2, <1>3 DEF Starts, Sensible, Lengths, AccountOps, RosterOps
<1>6. Callers(caller, rows)'
  BY <1>2, <1>3, <1>4, <1>5, FreshStep, AnyAgree DEF StorageInv, Starts
<1>. QED BY <1>2, <1>6, StorageAssumption DEF StorageInv

-----------------------------------------------------------------------------
(* A statement of a transaction. *)

\* What the statement finds.
Hits(c) == Found(Table(c), KeysOf(c))

\* The caller before and after a statement that found something to do.
Advances(c, q) ==
  /\ q \in Calls /\ q.op = caller[c].op /\ q.force = caller[c].force
  /\ q.step = caller[c].step + 1 /\ q.locks = caller[c].locks \cup Ranges(c)
  /\ q.keys = IF q.op \in AccountOps /\ caller[c].step = 1 THEN {row[2] : row \in Hits(c)} ELSE caller[c].keys
  /\ q.gone = IF q.op = "markMemberFailure" THEN (IF caller[c].step = 1 THEN caller[c].gone ELSE Hits(c))
              ELSE IF q.op \in AccountOps /\ caller[c].step = 1 THEN caller[c].gone
              ELSE caller[c].gone \cup Hits(c)
  /\ q.new = IF q.op = "markMemberFailure"
             THEN (IF caller[c].step = 1 THEN Written(c) ELSE IF Hits(c) = {} THEN {} ELSE caller[c].new)
             ELSE caller[c].new

LEMMA Halfway ==
  ASSUME StorageInv, NEW c \in Clients, InTransaction(c), caller[c].step <= Len(Program[caller[c].op])
  PROVE /\ caller[c] \in Calls /\ Sensible(caller[c]) /\ Consistent(caller[c], rows)
        /\ caller[c].op \in AccountOps \cup RosterOps \cup {"markMemberFailure"}
        /\ caller[c].step \in 1..3 /\ caller[c].step <= Lengths(caller[c]) - 1
        /\ Hits(c) \subseteq AllRows /\ Written(c) \subseteq AllRows
        /\ \A row \in Hits(c) : row[2] \in Keys
<1>1. caller[c] \in Calls /\ Sensible(caller[c]) /\ Consistent(caller[c], rows)
  BY DEF StorageInv, Callers
<1>2. caller[c].op \in AccountOps \cup RosterOps \cup {"markMemberFailure"}
  BY Programs DEF InTransaction
<1>3. Callers(caller, rows) /\ Len(Program[caller[c].op]) = Lengths(caller[c]) - 1
  BY Statements DEF StorageInv
<1>4. caller[c].step \in 1..3 /\ caller[c].step <= Lengths(caller[c]) - 1
  BY <1>1, <1>3 DEF Calls, Lengths
<1>5. Hits(c) \subseteq AllRows /\ \A row \in Hits(c) : row[2] \in Keys
  BY Row DEF Hits, Found, StorageInv
<1>6. ASSUME NEW row \in Found("members", caller[c].keys)
      PROVE <<"members", row[2], Failed(row[3], caller[c].force)>> \in AllRows
  <2>1. row \in AllRows /\ row[1] = "members"
    BY DEF Found, StorageInv
  <2>2. row[2] \in Accounts /\ row[3] \in MemberRows
    BY <2>1, Row
  <2>3. Failed(row[3], caller[c].force) \in MemberRows
    BY <1>1, <2>2, FailedIsMember DEF Calls
  <2>. QED BY <2>2, <2>3, Rows
<1>7. Written(c) \subseteq AllRows
  BY <1>6 DEF Written
<1>. QED BY <1>1, <1>2, <1>4, <1>5, <1>7

LEMMA DoneAdvances ==
  ASSUME StorageInv, NEW c \in Clients, InTransaction(c), caller[c].step <= Len(Program[caller[c].op])
  PROVE Advances(c, Done(c))
<1>1. Callers(caller, rows) /\ Ranges(c) \subseteq Tables \X Keys /\ Table(c) \in Tables
  <2>1. Callers(caller, rows) /\ "pools" \in Tables /\ ThePool \in Keys
    BY DEF StorageInv, Tables, Keys
  <2>. QED BY <2>1, RangesOfStatement
<1>2. caller[c].op \in AccountOps <=> Table(c) = "accounts" \/ Table(c) = "stats"
  BY <1>1, Halfway, Statements DEF AccountOps, RosterOps, Lengths
<1>3. caller[c].step = 1 => (caller[c].op \in AccountOps <=> Table(c) = "accounts")
  BY <1>1, Halfway, Statements DEF AccountOps, RosterOps
<1>. DEFINE next == [caller[c] EXCEPT !.step = @ + 1, !.locks = @ \cup Ranges(c)]
<1>4. /\ next \in Calls /\ next.op = caller[c].op /\ next.force = caller[c].force
      /\ next.step = caller[c].step + 1 /\ next.locks = caller[c].locks \cup Ranges(c)
      /\ next.keys = caller[c].keys /\ next.gone = caller[c].gone /\ next.new = caller[c].new
  <2>1. /\ caller[c] \in Calls /\ caller[c].step + 1 \in 1..4
        /\ caller[c].locks \cup Ranges(c) \in SUBSET (Tables \X Keys)
    BY <1>1, Halfway DEF Calls
  <2>. DEFINE step == caller[c].step + 1
              locks == caller[c].locks \cup Ranges(c)
  <2>2. next = [caller[c] EXCEPT !.step = step, !.locks = locks]
    OBVIOUS
  <2>. HIDE DEF step, locks, next
  <2>3. /\ next \in Calls /\ next.op = caller[c].op /\ next.force = caller[c].force
        /\ next.step = step /\ next.locks = locks
        /\ next.keys = caller[c].keys /\ next.gone = caller[c].gone /\ next.new = caller[c].new
    BY <2>1, <2>2 DEF Calls, step, locks
  <2>. QED BY <2>3 DEF step, locks
<1>5. caller[c].op \notin AccountOps \/ caller[c].op # "markMemberFailure"
  BY DEF AccountOps
<1>. DEFINE mark == caller[c].op = "markMemberFailure"
            first == caller[c].step = 1
<1>6. Done(c) = CASE mark /\ first  -> [next EXCEPT !.new = Written(c)]
       [] mark /\ ~first -> [next EXCEPT !.gone = Hits(c), !.new = IF Hits(c) = {} THEN {} ELSE @]
       [] ~mark /\ first /\ Table(c) = "accounts" -> [next EXCEPT !.keys = {row[2] : row \in Hits(c)}]
       [] OTHER -> [next EXCEPT !.gone = @ \cup Hits(c)]
  BY DEF Done, Hits
<1>. HIDE DEF next
<1>7. CASE mark /\ first
  <2>1. Done(c) = [next EXCEPT !.new = Written(c)]
    BY <1>6, <1>7
  <2>. QED BY <1>4, <1>5, <1>7, <2>1, Halfway DEF Advances, Calls
<1>8. CASE mark /\ ~first
  <2>1. Done(c) = [next EXCEPT !.gone = Hits(c), !.new = IF Hits(c) = {} THEN {} ELSE @]
    BY <1>6, <1>8
  <2>. QED BY <1>4, <1>5, <1>8, <2>1, Halfway DEF Advances, Calls
<1>9. CASE ~mark /\ first /\ Table(c) = "accounts"
  <2>1. Done(c) = [next EXCEPT !.keys = {row[2] : row \in Hits(c)}]
    BY <1>6, <1>9
  <2>. QED BY <1>3, <1>4, <1>5, <1>9, <2>1, Halfway DEF Advances, Calls
<1>10. CASE ~mark /\ ~(first /\ Table(c) = "accounts")
  <2>1. Done(c) = [next EXCEPT !.gone = @ \cup Hits(c)]
    BY <1>6, <1>10
  <2>. QED BY <1>3, <1>4, <1>10, <2>1, Halfway DEF Advances, Calls
<1>. QED BY <1>7, <1>8, <1>9, <1>10

\* What it has locked is the ranges of the statements that it has executed.
LEMMA LocksGrow ==
  ASSUME StorageInv, NEW c \in Clients, InTransaction(c), caller[c].step <= Len(Program[caller[c].op]),
         ~NothingToDo(c), NEW q, Advances(c, q), NEW table \in Tables, NEW key \in Keys
  PROVE <<table, key>> \in q.locks <=> key \in Held(q, table)
<1>1. /\ caller[c] \in Calls /\ Sensible(caller[c])
      /\ caller[c].step \in 1..3 /\ caller[c].step <= Lengths(caller[c]) - 1
      /\ <<table, key>> \in caller[c].locks <=> key \in Held(caller[c], table)
  BY Halfway DEF Consistent
<1>2. /\ <<table, key>> \in q.locks <=> key \in Held(caller[c], table) \/ <<table, key>> \in Ranges(c)
      /\ q.op = caller[c].op /\ q.step = caller[c].step + 1 /\ q \in Calls
      /\ caller[c].step > 1 => q.keys = caller[c].keys
      /\ q.op \notin AccountOps => q.keys = caller[c].keys
  BY <1>1 DEF Advances
<1>3. <<table, key>> \in Ranges(c) <=>
             /\ table = Table(c)
             /\ key \in IF caller[c].op = "deleteAccountsBySsoUser" /\ table = "accounts" THEN Accounts
                        ELSE IF table = "pools" THEN {ThePool} ELSE caller[c].keys
  BY RangesOfStatement DEF StorageInv
<1>4. CASE q.op \in AccountOps
  <2>1. CASE caller[c].step = 1
    <3>1. Table(c) = "accounts"
      BY <1>2, <1>4, <2>1, Statements DEF StorageInv
    <3>2. q.op = "deleteAccount" => {row[2] : row \in Hits(c)} = caller[c].keys
      <4>1. SUFFICES ASSUME q.op = "deleteAccount" PROVE {row[2] : row \in Hits(c)} = caller[c].keys
        OBVIOUS
      <4>2. Hits(c) = Found("accounts", caller[c].keys) /\ Hits(c) # {}
        BY <1>2, <2>1, <3>1, <4>1 DEF Hits, KeysOf, NothingToDo
      <4>3. PICK i \in Accounts : caller[c].keys = {i}
        BY <1>1, <1>2, <4>1 DEF Sensible
      <4>4. PICK row \in Hits(c) : TRUE
        BY <4>2
      <4>5. \A other \in Hits(c) : other[2] = i
        BY <4>2, <4>3 DEF Found
      <4>. QED BY <4>3, <4>4, <4>5
    <3>. QED BY <1>1, <1>2, <1>3, <1>4, <2>1, <3>1, <3>2, Holdings DEF Past, AccountOps, Tables, Advances
  <2>2. CASE caller[c].step = 2
    BY <1>1, <1>2, <1>3, <1>4, <2>2, Holdings, Statements DEF Past, AccountOps, Tables, StorageInv
  <2>3. CASE caller[c].step = 3
    BY <1>1, <1>2, <1>3, <1>4, <2>3, Holdings, Statements DEF Past, AccountOps, Tables, StorageInv
  <2>. QED BY <1>1, <2>1, <2>2, <2>3
<1>5. CASE q.op \in RosterOps
  BY <1>1, <1>2, <1>3, <1>5, Holdings, Statements DEF Past, AccountOps, RosterOps, Tables, StorageInv, Lengths
<1>6. CASE q.op = "markMemberFailure"
  <2>1. caller[c].step \in {1, 2} /\ Table(c) = "members"
    <3>1. caller[c].op = "markMemberFailure" /\ Callers(caller, rows)
      BY <1>2, <1>6 DEF StorageInv
    <3>2. Lengths(caller[c]) = 3
      BY <3>1 DEF Lengths, AccountOps
    <3>3. caller[c].step \in {1, 2}
      BY <1>1, <3>2
    <3>. QED BY <3>1, <3>3, Statements
  <2>2. q.keys = caller[c].keys
    BY <1>2, <1>6 DEF AccountOps
  <2>3. <<table, key>> \in Ranges(c) <=> table = "members" /\ key \in q.keys
    BY <1>2, <1>3, <1>6, <2>1, <2>2
  <2>4. Held(q, "members") = q.keys /\ \A t \in Tables \ {"members"} : Held(q, t) = {} /\ Held(caller[c], t) = {}
    <3>1. q.step > 1 /\ caller[c].op = "markMemberFailure"
      BY <1>2, <1>6, <2>1
    <3>2. Held(q, "members") = q.keys /\ \A t \in Tables \ {"members"} : Held(q, t) = {}
      BY <1>2, <1>6, <3>1, Holdings DEF Past, Tables
    <3>3. \A t \in Tables \ {"members"} : Held(caller[c], t) = {}
      BY <1>1, <3>1, Holdings DEF Tables
    <3>. QED BY <3>2, <3>3
  <2>5. Held(caller[c], "members") \subseteq q.keys
    BY <1>1, <1>2, <1>6, <2>2, Holdings DEF Past
  <2>. QED BY <1>2, <2>3, <2>4, <2>5
<1>. QED BY <1>2, <1>4, <1>5, <1>6, Halfway

\* What it will delete is what the tables have of the keys it has deleted.
LEMMA DeletionsGrow ==
  ASSUME StorageInv, NEW c \in Clients, InTransaction(c), caller[c].step <= Len(Program[caller[c].op]),
         NEW q, Advances(c, q), NEW row \in AllRows
  PROVE row \in q.gone <=> row \in rows /\ row[2] \in Doomed(q, row[1])
<1>1. /\ caller[c] \in Calls /\ Callers(caller, rows)
      /\ caller[c].step \in 1..3 /\ caller[c].step <= Lengths(caller[c]) - 1
      /\ row \in caller[c].gone <=> row \in rows /\ row[2] \in Doomed(caller[c], row[1])
  BY Halfway DEF Consistent, StorageInv
<1>2. /\ q \in Calls /\ q.op = caller[c].op /\ q.step = caller[c].step + 1
      /\ caller[c].step > 1 => q.keys = caller[c].keys
      /\ q.op \notin AccountOps => q.keys = caller[c].keys
  BY <1>1 DEF Advances
<1>3. row[1] \in Tables
  BY Row
<1>4. row \in Hits(c) <=> row \in rows /\ row[1] = Table(c)
                           /\ row[2] \in IF Table(c) = "pools" THEN {ThePool} ELSE caller[c].keys
  BY DEF Hits, Found, KeysOf
<1>5. CASE q.op \in AccountOps
  <2>1. q.op # "markMemberFailure" /\ caller[c].op \in AccountOps
    BY <1>2, <1>5 DEF AccountOps
  <2>2. CASE caller[c].step = 1
    <3>1. q.gone = caller[c].gone
      BY <1>5, <2>1, <2>2 DEF Advances
    <3>2. \A table \in Tables : Doomed(q, table) = {} /\ Doomed(caller[c], table) = {}
      BY <1>1, <1>2, <2>1, <2>2, Deletions DEF Past, Tables
    <3>. QED BY <1>1, <1>3, <3>1, <3>2
  <2>3. CASE caller[c].step = 2
    <3>1. q.gone = caller[c].gone \cup Hits(c) /\ q.keys = caller[c].keys /\ Table(c) = "stats"
      BY <1>1, <1>2, <2>1, <2>3, Statements DEF Advances
    <3>. QED BY <1>1, <1>2, <1>3, <1>4, <2>1, <2>3, <3>1, Deletions DEF Past, Tables
  <2>4. CASE caller[c].step = 3
    <3>1. q.gone = caller[c].gone \cup Hits(c) /\ q.keys = caller[c].keys /\ Table(c) = "accounts"
      BY <1>1, <1>2, <2>1, <2>4, Statements DEF Advances
    <3>. QED BY <1>1, <1>2, <1>3, <1>4, <2>1, <2>4, <3>1, Deletions DEF Past, Tables
  <2>. QED BY <1>1, <2>2, <2>3, <2>4
<1>6. CASE q.op \in RosterOps
  <2>1. q.op # "markMemberFailure" /\ q.op \notin AccountOps /\ caller[c].op \in RosterOps
    BY <1>2, <1>6 DEF AccountOps, RosterOps
  <2>2. q.gone = caller[c].gone \cup Hits(c) /\ q.keys = caller[c].keys
    BY <1>2, <2>1 DEF Advances
  <2>3. CASE caller[c].step = 1
    <3>1. Table(c) = "sessions"
      BY <1>1, <2>1, <2>3, Statements
    <3>. QED BY <1>1, <1>2, <1>3, <1>4, <2>1, <2>2, <2>3, <3>1, Deletions DEF Past, Tables
  <2>4. CASE caller[c].step = 2
    <3>1. Table(c) = "members"
      BY <1>1, <2>1, <2>4, Statements
    <3>. QED BY <1>1, <1>2, <1>3, <1>4, <2>1, <2>2, <2>4, <3>1, Deletions DEF Past, Tables
  <2>5. CASE caller[c].step = 3
    <3>1. Table(c) = "pools" /\ caller[c].op = "deletePool"
      BY <1>1, <2>1, <2>5, Statements DEF Lengths, RosterOps, AccountOps
    <3>. QED BY <1>1, <1>2, <1>3, <1>4, <2>1, <2>2, <2>5, <3>1, Deletions DEF Past, Tables
  <2>. QED BY <1>1, <2>3, <2>4, <2>5
<1>7. CASE q.op = "markMemberFailure"
  <2>1. caller[c].op = "markMemberFailure" /\ q.keys = caller[c].keys
    BY <1>2, <1>7 DEF AccountOps
  <2>2. Lengths(caller[c]) = 3
    BY <2>1 DEF Lengths, AccountOps
  <2>3. CASE caller[c].step = 1
    <3>1. q.gone = caller[c].gone
      BY <1>7, <2>3 DEF Advances
    <3>2. \A table \in Tables : Doomed(q, table) = {}
      BY <1>2, <1>7, <2>3, Deletions DEF Past, Tables
    <3>3. \A table \in Tables : Doomed(caller[c], table) = {}
      BY <1>1, <2>1, <2>3, Deletions DEF Past, Tables
    <3>. QED BY <1>1, <1>3, <3>1, <3>2, <3>3
  <2>4. CASE caller[c].step = 2
    <3>1. q.gone = Hits(c)
      BY <1>7, <2>4 DEF Advances
    <3>2. Table(c) = "members"
      BY <1>1, <2>1, <2>4, Statements
    <3>3. Doomed(q, "members") = q.keys /\ \A table \in Tables \ {"members"} : Doomed(q, table) = {}
      BY <1>2, <1>7, <2>4, Deletions DEF Past, Tables
    <3>. QED BY <1>3, <1>4, <2>1, <3>1, <3>2, <3>3
  <2>. QED BY <1>1, <2>2, <2>3, <2>4
<1>. QED BY <1>2, <1>5, <1>6, <1>7, Halfway

LEMMA ViewGrows ==
  ASSUME StorageInv, NEW c \in Clients, InTransaction(c), caller[c].step <= Len(Program[caller[c].op]),
         ~NothingToDo(c), NEW q, Advances(c, q)
  PROVE Sensible(q) /\ Consistent(q, rows)
<1>1. /\ caller[c] \in Calls /\ Sensible(caller[c]) /\ Consistent(caller[c], rows) /\ Callers(caller, rows)
      /\ caller[c].step \in 1..3 /\ caller[c].step <= Lengths(caller[c]) - 1
  BY Halfway DEF StorageInv
<1>2. /\ q \in Calls /\ q.op = caller[c].op /\ q.step = caller[c].step + 1 /\ q.force = caller[c].force
      /\ caller[c].step > 1 => q.keys = caller[c].keys
      /\ q.op \notin AccountOps => q.keys = caller[c].keys
  BY <1>1 DEF Advances
<1>3. ASSUME q.op \in AccountOps, caller[c].step = 1
      PROVE /\ q.keys = {row[2] : row \in Hits(c)}
            /\ Hits(c) = Found("accounts", caller[c].keys)
            /\ q.op = "deleteAccount" => Hits(c) # {}
  BY <1>1, <1>2, <1>3, Statements DEF Advances, Hits, KeysOf, NothingToDo
<1>4. ASSUME q.op \in AccountOps, NEW i \in q.keys
      PROVE <<"accounts", i, 0>> \in rows
  <2>1. CASE caller[c].step = 1
    <3>1. PICK row \in Hits(c) : row[2] = i
      BY <1>3, <1>4, <2>1
    <3>2. row \in rows /\ row \in AllRows /\ row[1] = "accounts"
      BY <1>3, <1>4, <2>1 DEF Found, StorageInv
    <3>3. row = <<"accounts", i, 0>>
      BY <3>1, <3>2, Row
    <3>. QED BY <3>2, <3>3
  <2>2. CASE caller[c].step > 1
    BY <1>1, <1>2, <1>4, <2>2 DEF Consistent
  <2>. QED BY <1>1, <2>1, <2>2
<1>5. ASSUME q.op \in AccountOps, caller[c].step = 1
      PROVE q.keys \subseteq caller[c].keys /\ (q.op = "deleteAccount" => q.keys # {})
  BY <1>3, <1>5 DEF Found
<1>6. Lengths(q) = Lengths(caller[c])
  BY <1>2 DEF Lengths
<1>7. Sensible(q)
  <2>1. q.step \in 1..Lengths(q)
    BY <1>1, <1>2, <1>6 DEF Calls, Lengths
  <2>2. q.op \in AccountOps => q.keys \subseteq caller[c].keys
    BY <1>1, <1>2, <1>5
  <2>3. q.op = "deleteAccount" => q.keys = caller[c].keys
    <3>1. SUFFICES ASSUME q.op = "deleteAccount", caller[c].step = 1 PROVE q.keys = caller[c].keys
      BY <1>1, <1>2
    <3>2. q.keys \subseteq caller[c].keys /\ q.keys # {}
      BY <1>5, <3>1 DEF AccountOps
    <3>3. PICK i \in Accounts : caller[c].keys = {i}
      BY <1>1, <1>2, <3>1 DEF Sensible
    <3>. QED BY <3>2, <3>3
  <2>4. q.op \notin {"insert", "prune"}
    BY <1>2, Halfway DEF AccountOps, RosterOps
  <2>. QED BY <1>1, <1>2, <2>1, <2>2, <2>3, <2>4 DEF Sensible, AccountOps
<1>8. ASSUME q.op = "markMemberFailure"
      PROVE /\ \A row \in AllRows : row \in q.new <=>
                 \E old \in AllRows : Member(rows, q, old) /\ row = <<"members", old[2], Failed(old[3], q.force)>>
            /\ \E row \in AllRows : Member(rows, q, row) /\ row[3].state # "disabled"
  <2>1. q.keys = caller[c].keys /\ caller[c].op = "markMemberFailure"
    BY <1>2, <1>8 DEF AccountOps
  <2>2. CASE caller[c].step = 1
    <3>1. q.new = Written(c)
      BY <1>8, <2>2 DEF Advances
    <3>2. \A row \in AllRows : Member(rows, q, row) <=> row \in Found("members", caller[c].keys)
      BY <2>1 DEF Member, Found
    <3>3. Found("members", caller[c].keys) \subseteq AllRows
      BY DEF Found, StorageInv
    <3>4. \A row \in AllRows : row \in q.new <=>
            \E old \in Found("members", caller[c].keys) : row = <<"members", old[2], Failed(old[3], q.force)>>
      BY <1>2, <3>1 DEF Written
    <3>5. \E row \in Found("members", caller[c].keys) : row[3].state # "disabled"
      BY <2>1, <2>2 DEF NothingToDo
    <3>. QED BY <3>2, <3>3, <3>4, <3>5
  <2>3. CASE caller[c].step > 1
    <3>1. \A row : Member(rows, q, row) <=> Member(rows, caller[c], row)
      BY <2>1 DEF Member
    <3>2. PICK row \in AllRows : Member(rows, caller[c], row) /\ row[3].state # "disabled"
      BY <1>1, <2>1, <2>3 DEF Consistent
    <3>3. Lengths(caller[c]) = 3
      BY <2>1 DEF Lengths, AccountOps
    <3>4. Table(c) = "members"
      BY <1>1, <2>1, <2>3, <3>3, Statements
    <3>5. row \in Hits(c)
      BY <3>2, <3>4 DEF Hits, Found, KeysOf, Member
    <3>6. q.new = caller[c].new
      BY <1>8, <2>3, <3>5 DEF Advances
    <3>7. \A other \in AllRows : other \in caller[c].new <=>
            \E old \in AllRows : Member(rows, caller[c], old) /\ other = <<"members", old[2], Failed(old[3], caller[c].force)>>
      BY <1>1, <2>1, <2>3 DEF Consistent
    <3>. QED BY <1>2, <3>1, <3>2, <3>6, <3>7
  <2>. QED BY <1>1, <2>2, <2>3
<1>9. q.op # "markMemberFailure" => q.new = {}
  BY <1>1, <1>2 DEF Advances, Consistent
<1>10. q.step > 1
  BY <1>1, <1>2
<1>. QED BY <1>4, <1>7, <1>8, <1>9, <1>10, LocksGrow, DeletionsGrow DEF Consistent

LEMMA StatementSteady ==
  ASSUME StorageInv, NEW c \in Clients, Statement(c)
  PROVE StorageInv' /\ UNCHANGED <<rows, clock, recorded>>
<1>1. UNCHANGED <<rows, clock, recorded>> /\ InTransaction(c) /\ caller[c].step <= Len(Program[caller[c].op])
  BY DEF Statement
<1>2. CASE NothingToDo(c)
  <2>1. caller' = [caller EXCEPT ![c] = NoCall]
    BY <1>2 DEF Statement
  <2>2. Callers(caller, rows)'
    BY <1>1, <2>1, FreshStep, NoCallIsFresh, AnyAgree DEF StorageInv
  <2>. QED BY <1>1, <2>2 DEF StorageInv
<1>3. CASE ~NothingToDo(c)
  <2>. DEFINE q == Done(c)
  <2>1. caller' = [caller EXCEPT ![c] = q] /\ Advances(c, q)
    BY <1>1, <1>3, DoneAdvances DEF Statement
  <2>. HIDE DEF q
  <2>2. Sensible(q) /\ Consistent(q, rows) /\ q \in Calls
    BY <1>1, <1>3, <2>1, ViewGrows DEF Advances
  <2>3. \A d \in Clients \ {c} : Apart(q, caller[d])
    <3>1. SUFFICES ASSUME NEW d \in Clients \ {c} PROVE Apart(q, caller[d])
      OBVIOUS
    <3>2. Apart(caller[c], caller[d]) /\ Ranges(c) \cap caller[d].locks = {}
      BY DEF StorageInv, Callers, Statement, CanLock, LockedByOthers
    <3>3. q.locks = caller[c].locks \cup Ranges(c)
      BY <2>1 DEF Advances
    <3>. QED BY <3>2, <3>3 DEF Apart
  <2>4. Callers(caller, rows)'
    BY <1>1, <2>1, <2>2, <2>3, StepOfOne, AnyAgree DEF StorageInv
  <2>. QED BY <1>1, <2>4 DEF StorageInv
<1>. QED BY <1>2, <1>3

-----------------------------------------------------------------------------
(* The operations of the contract. *)

LEMMA NewMemberIsMember == ASSUME NEW state \in {"active", "cooling", "disabled"}
  PROVE /\ NewMember(state) \in MemberRows
        /\ \A m \in MemberRows : [m EXCEPT !.state = state] \in MemberRows
BY StorageAssumption DEF NewMember, MemberRows

LEMMA UpsertKeeps ==
  ASSUME rows \subseteq AllRows, OneRow(rows), NEW table, NEW key, NEW data,
         <<table, key, data>> \in AllRows, Upsert(table, key, data)
  PROVE rows' \subseteq AllRows /\ OneRow(rows')
<1>1. rows' \subseteq AllRows
  BY DEF Upsert, Found
<1>2. ASSUME NEW row \in rows', NEW other \in rows', row[1] = "members", other[1] = "members", row[2] = other[2]
      PROVE row = other
  <2>. DEFINE new == <<table, key, data>>
  <2>1. rows' = (rows \ Found(table, {key})) \cup {new} /\ new[1] = table /\ new[2] = key
    BY DEF Upsert
  <2>. HIDE DEF new
  <2>2. \A old \in rows : old \in rows' /\ old # new => ~(old[1] = table /\ old[2] = key)
    BY <2>1 DEF Found
  <2>3. CASE row = new \/ other = new
    BY <1>2, <2>1, <2>2, <2>3
  <2>4. CASE row # new /\ other # new
    BY <1>1, <1>2, <2>1, <2>4 DEF OneRow
  <2>. QED BY <2>3, <2>4
<1>. QED BY <1>1, <1>2 DEF OneRow

\* Rows that are deleted, and rows of other tables that are added.
LEMMA ChangeKeeps ==
  ASSUME rows \subseteq AllRows, OneRow(rows), NEW gone, NEW new \in SUBSET AllRows,
         \A row \in new : row[1] # "members", rows' = (rows \ gone) \cup new
  PROVE rows' \subseteq AllRows /\ OneRow(rows')
BY DEF OneRow

LEMMA ContractKeeps ==
  ASSUME rows \subseteq AllRows, OneRow(rows), ContractNext
  PROVE rows' \subseteq AllRows /\ OneRow(rows')
<1>1. ASSUME NEW gone, rows' = rows \ gone PROVE rows' \subseteq AllRows /\ OneRow(rows')
  BY <1>1 DEF OneRow
<1>2. ASSUME NEW b \in BOOLEAN, CreatePool(b) PROVE rows' \subseteq AllRows /\ OneRow(rows')
  BY <1>2, Rows, UpsertKeeps DEF CreatePool
<1>3. ASSUME NEW i \in Accounts, PutAccount(i) PROVE rows' \subseteq AllRows /\ OneRow(rows')
  <2>1. rows' = (rows \ {}) \cup {<<"accounts", i, 0>>}
    BY <1>3 DEF PutAccount
  <2>2. {<<"accounts", i, 0>>} \in SUBSET AllRows /\ \A row \in {<<"accounts", i, 0>>} : row[1] # "members"
    BY Rows
  <2>. QED BY <2>1, <2>2, ChangeKeeps
<1>4. ASSUME NEW i \in Accounts, NEW m \in MemberRows, Upsert("members", i, m)
      PROVE rows' \subseteq AllRows /\ OneRow(rows')
  BY <1>4, Rows, UpsertKeeps
<1>5. ASSUME NEW i \in Accounts, NEW row \in Found("members", {i}) PROVE row[3] \in MemberRows
  BY Row DEF Found
<1>6. ASSUME NEW i \in Accounts, MarkSuccess(i) PROVE rows' \subseteq AllRows /\ OneRow(rows')
  BY <1>4, <1>6, NewMemberIsMember DEF MarkSuccess
<1>7. ASSUME NEW i \in Accounts, NEW force \in BOOLEAN, MarkFailure(i, force)
      PROVE rows' \subseteq AllRows /\ OneRow(rows')
  BY <1>4, <1>5, <1>7, FailedIsMember DEF MarkFailure
<1>8. ASSUME NEW i \in Accounts, NEW state \in {"active", "disabled"}, AddPoolMember(i, state)
      PROVE rows' \subseteq AllRows /\ OneRow(rows')
  <2>1. state \in {"active", "cooling", "disabled"}
    OBVIOUS
  <2>. QED BY <1>4, <1>5, <1>8, <2>1, NewMemberIsMember DEF AddPoolMember
<1>9. ASSUME NEW i \in Accounts, NEW key \in SessionKeys, UpsertSessionAffinity(key, i)
      PROVE rows' \subseteq AllRows /\ OneRow(rows')
  <2>1. rows' = (rows \ BoundTo(key)) \cup {<<"sessions", i, key>>}
    BY <1>9 DEF UpsertSessionAffinity
  <2>2. {<<"sessions", i, key>>} \in SUBSET AllRows /\ \A row \in {<<"sessions", i, key>>} : row[1] # "members"
    BY Rows
  <2>. QED BY <2>1, <2>2, ChangeKeeps
<1>10. ASSUME NEW i \in Accounts, NEW n \in 1..MaxStats, InsertStat(i, n)
       PROVE rows' \subseteq AllRows /\ OneRow(rows')
  <2>1. rows' = (rows \ {}) \cup {<<"stats", i, n>>}
    BY <1>10 DEF InsertStat
  <2>2. {<<"stats", i, n>>} \in SUBSET AllRows /\ \A row \in {<<"stats", i, n>>} : row[1] # "members"
    BY Rows
  <2>. QED BY <2>1, <2>2, ChangeKeeps
<1>11. ASSUME NEW b \in BOOLEAN, UpdatePoolRow(b) PROVE rows' \subseteq AllRows /\ OneRow(rows')
  BY <1>2, <1>11 DEF UpdatePoolRow
<1>12. ASSUME DeletePoolRows \/ PruneAllRequestStats PROVE rows' \subseteq AllRows /\ OneRow(rows')
  BY <1>1, <1>12 DEF DeletePoolRows, PruneAllRequestStats
<1>13. ASSUME NEW i \in Accounts, RemoveMemberRows(i) \/ PruneStats(i)
       PROVE rows' \subseteq AllRows /\ OneRow(rows')
  BY <1>1, <1>13 DEF RemoveMemberRows, PruneStats
<1>14. ASSUME NEW gone \in SUBSET Accounts, DeleteAccountRows(gone)
       PROVE rows' \subseteq AllRows /\ OneRow(rows')
  BY <1>1, <1>14 DEF DeleteAccountRows
<1>15. ASSUME NEW key \in SessionKeys, ClearSessionAffinity(key)
       PROVE rows' \subseteq AllRows /\ OneRow(rows')
  BY <1>1, <1>15 DEF ClearSessionAffinity
<1>. QED
  BY <1>2, <1>3, <1>6, <1>7, <1>8, <1>9, <1>10, <1>11, <1>12, <1>13, <1>14, <1>15 DEF ContractNext

-----------------------------------------------------------------------------
(* A transaction that commits is an operation of the contract. *)

LEMMA Committing ==
  ASSUME StorageInv, NEW c \in Clients, Commit(c)
  PROVE /\ caller[c] \in Calls /\ Sensible(caller[c]) /\ Consistent(caller[c], rows)
        /\ caller[c].op \in AccountOps \cup RosterOps \cup {"markMemberFailure"}
        /\ caller[c].step = Lengths(caller[c])
        /\ caller[c].op \in AccountOps \cup {"deletePool"} => caller[c].step = 4
        /\ caller[c].op \in {"removePoolMember", "markMemberFailure"} => caller[c].step = 3
<1>1. caller[c] \in Calls /\ Sensible(caller[c]) /\ Consistent(caller[c], rows) /\ Callers(caller, rows)
  BY DEF StorageInv, Callers
<1>2. caller[c].op \in AccountOps \cup RosterOps \cup {"markMemberFailure"}
  BY Programs DEF Commit, InTransaction
<1>3. caller[c].step > Lengths(caller[c]) - 1
  BY <1>1, Statements DEF Commit
<1>4. caller[c].step = Lengths(caller[c])
  BY <1>1, <1>3 DEF Sensible, Lengths
<1>. QED BY <1>1, <1>2, <1>4 DEF Lengths, AccountOps

LEMMA CommitOfAccounts ==
  ASSUME StorageInv, NEW c \in Clients, Commit(c), caller[c].op \in AccountOps
  PROVE DeleteAccountRows(caller[c].keys) /\ caller[c].keys \in SUBSET Accounts
<1>. DEFINE q == caller[c]
<1>1. q \in Calls /\ Sensible(q) /\ Consistent(q, rows) /\ q.step = 4 /\ q.op # "markMemberFailure"
  BY Committing DEF AccountOps
<1>2. /\ Doomed(q, "accounts") = q.keys /\ Doomed(q, "stats") = q.keys
      /\ Doomed(q, "pools") = {} /\ Doomed(q, "members") = {} /\ Doomed(q, "sessions") = {}
  BY <1>1, Deletions DEF Past
<1>3. q.new = {} /\ q.gone \subseteq AllRows /\ rows \subseteq AllRows /\ q.keys \in SUBSET Accounts
  BY <1>1 DEF Consistent, Sensible, Calls, StorageInv
<1>4. \A row \in AllRows : row \in q.gone <=> row \in rows /\ row[2] \in Doomed(q, row[1])
  BY <1>1 DEF Consistent
<1>5. q.gone = Found("accounts", q.keys) \cup Found("stats", q.keys)
  <2>1. \A row \in AllRows : row \in q.gone <=> row \in rows /\ row[1] \in {"accounts", "stats"} /\ row[2] \in q.keys
    BY <1>2, <1>4, Row DEF Tables
  <2>. QED BY <1>3, <2>1 DEF Found
<1>6. rows' = (rows \ q.gone) \cup q.new
  BY DEF Commit
<1>. QED BY <1>3, <1>5, <1>6 DEF DeleteAccountRows

LEMMA CommitOfRoster ==
  ASSUME StorageInv, NEW c \in Clients, Commit(c), caller[c].op \in RosterOps
  PROVE \/ DeletePoolRows
        \/ \E i \in Accounts : RemoveMemberRows(i)
<1>. DEFINE q == caller[c]
<1>1. q \in Calls /\ Sensible(q) /\ Consistent(q, rows) /\ q.op # "markMemberFailure"
  BY Committing DEF RosterOps
<1>2. /\ q.op = "deletePool" => q.step = 4
      /\ q.op = "removePoolMember" => q.step = 3
  BY Committing
<1>3. q.step > 2
  BY <1>2 DEF RosterOps
<1>4. /\ Doomed(q, "sessions") = q.keys /\ Doomed(q, "members") = q.keys
      /\ Doomed(q, "pools") = IF q.op = "deletePool" THEN {ThePool} ELSE {}
      /\ Doomed(q, "accounts") = {} /\ Doomed(q, "stats") = {}
  <2>1. /\ Doomed(q, "sessions") = Past(q, 1, q.keys) /\ Doomed(q, "members") = Past(q, 2, q.keys)
        /\ Doomed(q, "pools") = IF q.op = "deletePool" THEN Past(q, 3, {ThePool}) ELSE {}
        /\ Doomed(q, "accounts") = {} /\ Doomed(q, "stats") = {}
    BY <1>1, Deletions
  <2>2. Past(q, 1, q.keys) = q.keys /\ Past(q, 2, q.keys) = q.keys
    BY <1>1, <1>3 DEF Past, Calls
  <2>3. q.op = "deletePool" => Past(q, 3, {ThePool}) = {ThePool}
    BY <1>2 DEF Past
  <2>. QED BY <2>1, <2>2, <2>3
<1>5. q.new = {} /\ q.gone \subseteq AllRows /\ rows \subseteq AllRows
  BY <1>1 DEF Consistent, Calls, StorageInv
<1>6. \A row \in AllRows : row \in q.gone <=> row \in rows /\ row[2] \in Doomed(q, row[1])
  BY <1>1 DEF Consistent
<1>7. rows' = rows \ q.gone
  BY <1>5 DEF Commit
<1>8. \A row \in AllRows : row \in q.gone <=> row \in rows /\
        \/ row[1] \in {"sessions", "members"} /\ row[2] \in q.keys
        \/ q.op = "deletePool" /\ row[1] = "pools" /\ row[2] \in {ThePool}
  <2>1. SUFFICES ASSUME NEW row \in AllRows
                 PROVE row[2] \in Doomed(q, row[1]) <=>
                         \/ row[1] \in {"sessions", "members"} /\ row[2] \in q.keys
                         \/ q.op = "deletePool" /\ row[1] = "pools" /\ row[2] \in {ThePool}
    BY <1>6
  <2>2. row[1] \in Tables
    BY Row
  <2>3. CASE row[1] = "pools"
    BY <1>4, <2>3
  <2>4. CASE row[1] \in {"sessions", "members"}
    BY <1>4, <2>4
  <2>5. CASE row[1] \in {"accounts", "stats"}
    BY <1>4, <2>5
  <2>. QED BY <2>2, <2>3, <2>4, <2>5 DEF Tables
<1>9. CASE q.op = "deletePool"
  <2>1. q.keys = Accounts
    BY <1>1, <1>9 DEF Sensible
  <2>2. q.gone = Found("pools", {ThePool}) \cup Found("members", Accounts) \cup Found("sessions", Accounts)
    BY <1>5, <1>8, <1>9, <2>1 DEF Found
  <2>. QED BY <1>7, <2>2 DEF DeletePoolRows
<1>10. CASE q.op = "removePoolMember"
  <2>1. PICK i \in Accounts : q.keys = {i}
    BY <1>1, <1>10 DEF Sensible
  <2>2. q.gone = Found("members", {i}) \cup Found("sessions", {i})
    BY <1>5, <1>8, <1>10, <2>1 DEF Found
  <2>. QED BY <1>7, <2>2 DEF RemoveMemberRows
<1>. QED BY <1>9, <1>10 DEF RosterOps

LEMMA CommitOfFailure ==
  ASSUME StorageInv, NEW c \in Clients, Commit(c), caller[c].op = "markMemberFailure"
  PROVE \E i \in Accounts, force \in BOOLEAN : MarkFailure(i, force)
<1>. DEFINE q == caller[c]
<1>1. q \in Calls /\ Sensible(q) /\ Consistent(q, rows) /\ q.step = 3
  BY Committing
<1>2. PICK i \in Accounts : q.keys = {i}
  BY <1>1 DEF Sensible
<1>3. /\ Doomed(q, "members") = {i} /\ Doomed(q, "pools") = {} /\ Doomed(q, "accounts") = {}
      /\ Doomed(q, "sessions") = {} /\ Doomed(q, "stats") = {}
  BY <1>1, <1>2, Deletions DEF Past
<1>4. /\ q.gone \subseteq AllRows /\ q.new \subseteq AllRows /\ rows \subseteq AllRows /\ q.force \in BOOLEAN
      /\ OneRow(rows)
  BY <1>1 DEF Calls, StorageInv
<1>5. /\ \A row \in AllRows : row \in q.gone <=> row \in rows /\ row[2] \in Doomed(q, row[1])
      /\ \A row \in AllRows : row \in q.new <=>
           \E old \in AllRows : Member(rows, q, old) /\ row = <<"members", old[2], Failed(old[3], q.force)>>
  BY <1>1 DEF Consistent
<1>6. PICK old \in AllRows : Member(rows, q, old) /\ old[3].state # "disabled"
  BY <1>1 DEF Consistent
<1>7. old \in Found("members", {i}) /\ old[2] = i /\ old[3] \in MemberRows
  BY <1>2, <1>6, Row DEF Found, Member
<1>8. q.gone = Found("members", {i})
  <2>1. \A row \in AllRows : row \in q.gone <=> row \in rows /\ row[1] = "members" /\ row[2] \in {i}
    BY <1>3, <1>5, Row DEF Tables
  <2>. QED BY <1>4, <2>1 DEF Found
<1>9. q.new = {<<"members", i, Failed(old[3], q.force)>>}
  <2>1. \A other \in AllRows : Member(rows, q, other) => other = old
    BY <1>2, <1>4, <1>6 DEF Member, OneRow
  <2>2. <<"members", i, Failed(old[3], q.force)>> \in AllRows
    BY <1>4, <1>7, Rows, FailedIsMember
  <2>3. \A row \in AllRows : row \in q.new <=> row = <<"members", i, Failed(old[3], q.force)>>
    BY <1>5, <1>6, <1>7, <2>1
  <2>. QED BY <1>4, <2>2, <2>3
<1>10. rows' = (rows \ q.gone) \cup q.new
  BY DEF Commit
<1>11. Upsert("members", i, Failed(old[3], q.force))
  BY <1>8, <1>9, <1>10 DEF Upsert
<1>12. MarkFailure(i, q.force)
  BY <1>6, <1>7, <1>11 DEF MarkFailure
<1>. QED BY <1>4, <1>12

LEMMA CommitImplements == ASSUME StorageInv, NEW c \in Clients, Commit(c) PROVE ContractNext
<1>1. CASE caller[c].op \in AccountOps
  BY <1>1, CommitOfAccounts DEF ContractNext
<1>2. CASE caller[c].op \in RosterOps
  BY <1>2, CommitOfRoster DEF ContractNext
<1>3. CASE caller[c].op = "markMemberFailure"
  BY <1>3, CommitOfFailure DEF ContractNext
<1>. QED BY <1>1, <1>2, <1>3, Committing

LEMMA CommitSteady ==
  ASSUME StorageInv, NEW c \in Clients, Commit(c)
  PROVE StorageInv' /\ UNCHANGED clock
<1>. DEFINE q == caller[c]
<1>1. q \in Calls /\ Sensible(q) /\ Consistent(q, rows)
  BY Committing
<1>2. ASSUME NEW row \in AllRows, row \in q.gone \/ row \in q.new
      PROVE <<row[1], row[2]>> \in q.locks
  <2>1. row[1] \in Tables /\ row[2] \in Keys
    BY Row
  <2>2. row[2] \in Held(q, row[1])
    <3>1. CASE row \in q.gone
      BY <1>1, <2>1, <3>1, DoomedIsHeld DEF Consistent
    <3>2. CASE row \in q.new
      <4>1. q.op = "markMemberFailure" /\ q.step > 1
        BY <1>1, <3>2 DEF Consistent
      <4>2. row[1] = "members" /\ row[2] \in q.keys
        BY <1>1, <3>2, <4>1 DEF Consistent, Member
      <4>. QED BY <1>1, <4>1, <4>2, Holdings DEF Past
    <3>. QED BY <1>2, <3>1, <3>2
  <2>. QED BY <1>1, <2>1, <2>2 DEF Consistent
<1>3. rows' = (rows \ q.gone) \cup q.new /\ UNCHANGED clock /\ caller' = [caller EXCEPT ![c] = NoCall]
  BY DEF Commit
<1>4. ASSUME NEW d \in Clients \ {c} PROVE Agree(rows, rows', caller[d].locks)
  <2>1. Apart(q, caller[d])
    BY DEF StorageInv, Callers
  <2>. QED BY <1>2, <1>3, <2>1 DEF Agree, Apart
<1>. HIDE DEF q
<1>5. Callers(caller, rows)'
  BY <1>3, <1>4, FreshStep, NoCallIsFresh DEF StorageInv
<1>6. rows' \subseteq AllRows /\ OneRow(rows')
  BY ContractKeeps, CommitImplements DEF StorageInv
<1>. QED BY <1>3, <1>5, <1>6 DEF StorageInv

-----------------------------------------------------------------------------
(* Operations of one statement change only rows nobody has locked. *)

Only(ranges) == \A row \in AllRows : <<row[1], row[2]>> \notin ranges => (row \in rows <=> row \in rows')

LEMMA UnlockedAgree == ASSUME NEW ranges, Unlocked(ranges), Only(ranges)
  PROVE \A c \in Clients : Agree(rows, rows', caller[c].locks)
BY DEF Unlocked, Only, Agree

LEMMA UpsertOnly == ASSUME NEW table, NEW key, NEW data, Upsert(table, key, data)
  PROVE Only({<<table, key>>})
BY DEF Upsert, Only, Found

\* The operations of one statement, each with the ranges that it waits for.
LEMMA AloneIs ==
  ASSUME StorageInv, NEW c \in Clients, AloneOnAccounts(c) \/ AloneOnPool(c)
  PROVE /\ UNCHANGED <<caller, clock, recorded>> /\ ContractNext
        /\ \E ranges : Unlocked(ranges) /\ Only(ranges)
        /\ \/ PruneAllRequestStats
           \/ \A row \in AllRows : row[1] = "stats" => (row \in rows <=> row \in rows')
<1>. DEFINE Quiet == \A row \in AllRows : row[1] = "stats" => (row \in rows <=> row \in rows')
<1>1. ASSUME NEW ranges, NEW Operation, Alone(c, ranges, Operation)
      PROVE Unlocked(ranges) /\ Operation /\ UNCHANGED <<caller, clock, recorded>>
  BY <1>1 DEF Alone
<1>2. ASSUME NEW table, NEW key, NEW data, Upsert(table, key, data), table # "stats" PROVE Quiet
  BY <1>2 DEF Upsert, Found
<1>3. CASE Alone(c, {"stats"} \X Accounts, PruneAllRequestStats)
  <2>1. Unlocked({"stats"} \X Accounts) /\ PruneAllRequestStats /\ UNCHANGED <<caller, clock, recorded>>
    BY <1>3 DEF Alone
  <2>2. Only({"stats"} \X Accounts)
    BY <2>1 DEF Only, PruneAllRequestStats, Stale, Found
  <2>. QED BY <2>1, <2>2 DEF ContractNext
<1>4. ASSUME NEW i \in Accounts, Alone(c, {<<"accounts", i>>}, PutAccount(i))
      PROVE /\ UNCHANGED <<caller, clock, recorded>> /\ ContractNext
            /\ \E ranges : Unlocked(ranges) /\ Only(ranges)
            /\ Quiet
  <2>1. Unlocked({<<"accounts", i>>}) /\ PutAccount(i) /\ UNCHANGED <<caller, clock, recorded>>
    BY <1>4 DEF Alone
  <2>2. Only({<<"accounts", i>>}) /\ Quiet
    BY <2>1 DEF Only, PutAccount
  <2>. QED BY <2>1, <2>2 DEF ContractNext
<1>5. ASSUME NEW b \in BOOLEAN, Alone(c, {<<"pools", ThePool>>}, CreatePool(b))
      PROVE /\ UNCHANGED <<caller, clock, recorded>> /\ ContractNext
            /\ \E ranges : Unlocked(ranges) /\ Only(ranges)
            /\ Quiet
  <2>1. Unlocked({<<"pools", ThePool>>}) /\ CreatePool(b) /\ UNCHANGED <<caller, clock, recorded>>
    BY <1>5 DEF Alone
  <2>2. Only({<<"pools", ThePool>>}) /\ Quiet
    BY <1>2, <2>1, UpsertOnly DEF CreatePool
  <2>. QED BY <2>1, <2>2 DEF ContractNext
<1>6. ASSUME NEW i \in Accounts, Alone(c, {<<"members", i>>}, MarkSuccess(i))
      PROVE /\ UNCHANGED <<caller, clock, recorded>> /\ ContractNext
            /\ \E ranges : Unlocked(ranges) /\ Only(ranges)
            /\ Quiet
  <2>1. Unlocked({<<"members", i>>}) /\ MarkSuccess(i) /\ UNCHANGED <<caller, clock, recorded>>
    BY <1>6 DEF Alone
  <2>2. Only({<<"members", i>>}) /\ Quiet
    BY <1>2, <2>1, UpsertOnly DEF MarkSuccess
  <2>. QED BY <2>1, <2>2 DEF ContractNext
<1>7. ASSUME NEW i \in Accounts, NEW state \in {"active", "disabled"},
             Alone(c, {<<"members", i>>}, AddPoolMember(i, state))
      PROVE /\ UNCHANGED <<caller, clock, recorded>> /\ ContractNext
            /\ \E ranges : Unlocked(ranges) /\ Only(ranges)
            /\ Quiet
  <2>1. Unlocked({<<"members", i>>}) /\ AddPoolMember(i, state) /\ UNCHANGED <<caller, clock, recorded>>
    BY <1>7 DEF Alone
  <2>2. Only({<<"members", i>>}) /\ Quiet
    BY <1>2, <2>1, UpsertOnly DEF AddPoolMember
  <2>. QED BY <2>1, <2>2 DEF ContractNext
<1>8. ASSUME NEW i \in Accounts, NEW key \in SessionKeys,
             Alone(c, {<<"sessions", i>>} \cup SessionRanges(key), UpsertSessionAffinity(key, i))
      PROVE /\ UNCHANGED <<caller, clock, recorded>> /\ ContractNext
            /\ \E ranges : Unlocked(ranges) /\ Only(ranges)
            /\ Quiet
  <2>1. /\ Unlocked({<<"sessions", i>>} \cup SessionRanges(key)) /\ UpsertSessionAffinity(key, i)
        /\ UNCHANGED <<caller, clock, recorded>>
    BY <1>8 DEF Alone
  <2>2. Only({<<"sessions", i>>} \cup SessionRanges(key)) /\ Quiet
    BY <2>1 DEF UpsertSessionAffinity, BoundTo, SessionRanges, Only
  <2>. QED BY <2>1, <2>2 DEF ContractNext
<1>9. ASSUME NEW key \in SessionKeys, Alone(c, SessionRanges(key), ClearSessionAffinity(key))
      PROVE /\ UNCHANGED <<caller, clock, recorded>> /\ ContractNext
            /\ \E ranges : Unlocked(ranges) /\ Only(ranges)
            /\ Quiet
  <2>1. Unlocked(SessionRanges(key)) /\ ClearSessionAffinity(key) /\ UNCHANGED <<caller, clock, recorded>>
    BY <1>9 DEF Alone
  <2>2. Only(SessionRanges(key)) /\ Quiet
    BY <2>1 DEF ClearSessionAffinity, BoundTo, SessionRanges, Only
  <2>. QED BY <2>1, <2>2 DEF ContractNext
<1>. QED BY <1>3, <1>4, <1>5, <1>6, <1>7, <1>8, <1>9 DEF AloneOnAccounts, AloneOnPool

LEMMA AloneSteady ==
  ASSUME StorageInv, NEW c \in Clients, AloneOnAccounts(c) \/ AloneOnPool(c)
  PROVE StorageInv' /\ ContractNext
<1>1. PICK ranges : Unlocked(ranges) /\ Only(ranges)
  BY AloneIs
<1>2. UNCHANGED <<caller, clock, recorded>> /\ ContractNext
  BY AloneIs
<1>3. Callers(caller, rows)'
  BY <1>1, <1>2, UnlockedAgree, OutsideTheLocks DEF StorageInv
<1>4. rows' \subseteq AllRows /\ OneRow(rows')
  BY <1>2, ContractKeeps DEF StorageInv
<1>. QED BY <1>2, <1>3, <1>4 DEF StorageInv

\* A caller that is in no transaction holds nothing.
LEMMA HoldsNothing ==
  ASSUME StorageInv, NEW c \in Clients, caller[c].op \in {"none", "insert", "prune", "update"}
  PROVE /\ caller[c] \in Calls /\ Sensible(caller[c])
        /\ caller[c].step = 1 /\ caller[c].locks = {} /\ caller[c].gone = {} /\ caller[c].new = {}
<1>1. caller[c] \in Calls /\ Sensible(caller[c]) /\ Consistent(caller[c], rows)
  BY DEF StorageInv, Callers
<1>2. caller[c].op \notin AccountOps \cup RosterOps \cup {"markMemberFailure"}
  BY DEF AccountOps, RosterOps
<1>3. caller[c].step = 1
  BY <1>1, <1>2 DEF Sensible, Lengths, RosterOps
<1>4. \A table \in Tables : Held(caller[c], table) = {} /\ Doomed(caller[c], table) = {}
  BY <1>1, Holdings, Deletions
<1>5. \A range \in Tables \X Keys : range \notin caller[c].locks
  BY <1>1, <1>4 DEF Consistent
<1>6. caller[c].locks \subseteq Tables \X Keys /\ caller[c].gone \subseteq AllRows
  BY <1>1 DEF Calls
<1>7. \A row \in AllRows : row \notin caller[c].gone
  BY <1>1, <1>4, Row DEF Consistent
<1>8. caller[c].new = {}
  BY <1>1, <1>2 DEF Consistent
<1>. QED BY <1>1, <1>3, <1>5, <1>6, <1>7, <1>8

\* A step of one statement that ends, or goes on without a lock.
LEMMA SingleStep ==
  ASSUME StorageInv, NEW c \in Clients, NEW q \in Calls, caller' = [caller EXCEPT ![c] = q],
         Sensible(q), q.step = 1, q.locks = {}, q.gone = {}, q.new = {},
         NEW ranges, Unlocked(ranges), Only(ranges), UNCHANGED clock, ContractNext \/ UNCHANGED rows
  PROVE StorageInv'
<1>1. \A d \in Clients \ {c} : Agree(rows, rows', caller[d].locks)
  BY UnlockedAgree
<1>2. Callers(caller, rows)'
  BY <1>1, FreshStep DEF StorageInv
<1>3. rows' \subseteq AllRows /\ OneRow(rows')
  BY ContractKeeps DEF StorageInv
<1>. QED BY <1>2, <1>3 DEF StorageInv

LEMMA UpdateSteady ==
  ASSUME StorageInv, NEW c \in Clients, UpdatePool(c)
  PROVE /\ StorageInv' /\ UNCHANGED <<clock, recorded>>
        /\ ContractNext \/ UNCHANGED rows
        /\ \A row \in AllRows : row[1] = "stats" => (row \in rows <=> row \in rows')
<1>. DEFINE force == caller[c].force
<1>1. /\ UNCHANGED <<clock, recorded>> /\ Unlocked({<<"pools", ThePool>>})
      /\ UpdatePoolRow(force) \/ UNCHANGED rows
      /\ caller' = [caller EXCEPT ![c] = NoCall]
  BY DEF UpdatePool
<1>2. force \in BOOLEAN
  BY DEF StorageInv, Callers, Calls
<1>. HIDE DEF force
<1>3. Only({<<"pools", ThePool>>})
  BY <1>1, UpsertOnly DEF UpdatePoolRow, CreatePool, Only
<1>4. ContractNext \/ UNCHANGED rows
  BY <1>1, <1>2 DEF ContractNext
<1>5. StorageInv'
  BY <1>1, <1>3, <1>4, SingleStep, NoCallIsFresh
<1>6. \A row \in AllRows : row[1] = "stats" => <<row[1], row[2]>> \notin {<<"pools", ThePool>>}
  OBVIOUS
<1>. QED BY <1>1, <1>3, <1>4, <1>5, <1>6 DEF Only

LEMMA RecordSteady ==
  ASSUME StorageInv, NEW c \in Clients, RecordRequestStat(c)
  PROVE /\ StorageInv' /\ ContractNext
        /\ \E i \in Accounts, n \in 1..MaxStats :
             InsertStat(i, n) /\ recorded' = [recorded EXCEPT ![i] = @ \cup {n}]
<1>1. PICK i \in caller[c].keys :
        /\ caller[c].op = "insert" /\ Unlocked({<<"stats", i>>})
        /\ InsertStat(i, caller[c].stat)
        /\ recorded' = [recorded EXCEPT ![i] = @ \cup {caller[c].stat}]
        /\ caller' = [caller EXCEPT ![c].op = "prune"]
        /\ UNCHANGED clock
  BY DEF RecordRequestStat
<1>2. /\ caller[c] \in Calls /\ Sensible(caller[c])
      /\ caller[c].step = 1 /\ caller[c].locks = {} /\ caller[c].gone = {} /\ caller[c].new = {}
  BY <1>1, HoldsNothing
<1>3. i \in Accounts /\ caller[c].stat \in 1..MaxStats
  BY <1>1, <1>2 DEF Sensible
<1>. DEFINE q == [caller[c] EXCEPT !.op = "prune"]
<1>4. caller' = [caller EXCEPT ![c] = q]
  BY <1>1
<1>5. /\ q \in Calls /\ q.op = "prune" /\ q.keys = caller[c].keys /\ q.stat = caller[c].stat
      /\ q.step = 1 /\ q.locks = {} /\ q.gone = {} /\ q.new = {}
  BY <1>2 DEF Calls
<1>. HIDE DEF q
<1>6. Sensible(q)
  BY <1>1, <1>2, <1>5 DEF Sensible, Lengths, AccountOps, RosterOps
<1>7. Only({<<"stats", i>>})
  BY <1>1 DEF Only, InsertStat
<1>8. ContractNext
  BY <1>1, <1>3 DEF ContractNext
<1>9. StorageInv'
  BY <1>1, <1>4, <1>5, <1>6, <1>7, <1>8, SingleStep
<1>. QED BY <1>1, <1>3, <1>8, <1>9

LEMMA PruneSteady ==
  ASSUME StorageInv, NEW c \in Clients, Prune(c)
  PROVE /\ StorageInv' /\ ContractNext /\ UNCHANGED recorded
        /\ \E i \in Accounts : PruneStats(i)
<1>1. PICK i \in caller[c].keys :
        /\ caller[c].op = "prune" /\ Unlocked({<<"stats", i>>})
        /\ PruneStats(i)
        /\ caller' = [caller EXCEPT ![c] = NoCall]
        /\ UNCHANGED <<clock, recorded>>
  BY DEF Prune
<1>2. i \in Accounts
  BY <1>1, HoldsNothing DEF Sensible
<1>3. Only({<<"stats", i>>})
  BY <1>1 DEF Only, PruneStats, Stale, Found
<1>4. ContractNext
  BY <1>1, <1>2 DEF ContractNext
<1>5. StorageInv'
  BY <1>1, <1>3, <1>4, SingleStep, NoCallIsFresh
<1>. QED BY <1>1, <1>2, <1>4, <1>5

-----------------------------------------------------------------------------
(* The theorems. *)

LEMMA EveryStep == ASSUME StorageInv, MysqlNext
  PROVE StorageInv' /\ (ContractNext \/ UNCHANGED rows)
<1>1. PICK c \in Clients :
        \/ Proceed(c)
        \/ BeginOnAccounts(c) \/ BeginOnPool(c)
        \/ AloneOnAccounts(c) \/ AloneOnPool(c)
        \/ BeginRecord(c) \/ RecordRequestStat(c) \/ Prune(c)
        \/ BeginUpdatePool(c) \/ UpdatePool(c)
  BY DEF MysqlNext, AccountsNext, PoolNext
<1>2. CASE Proceed(c)
  BY <1>2, StatementSteady, CommitSteady, CommitImplements, RollbackSteady DEF Proceed
<1>3. CASE BeginOnAccounts(c) \/ BeginOnPool(c)
  BY <1>3, BeginSteady
<1>4. CASE AloneOnAccounts(c) \/ AloneOnPool(c)
  BY <1>4, AloneSteady
<1>5. CASE BeginRecord(c) \/ RecordRequestStat(c) \/ Prune(c)
  BY <1>5, BeginRecordSteady, RecordSteady, PruneSteady
<1>6. CASE BeginUpdatePool(c) \/ UpdatePool(c)
  BY <1>6, BeginUpdateSteady, UpdateSteady
<1>. QED BY <1>1, <1>2, <1>3, <1>4, <1>5, <1>6

LEMMA InitStorageInv == MysqlInit => StorageInv
<1>. SUFFICES ASSUME MysqlInit PROVE StorageInv
  OBVIOUS
<1>1. rows = {} /\ clock = 0 /\ caller = [c \in Clients |-> NoCall]
  BY DEF MysqlInit, ContractInit
<1>2. Consistent(NoCall, rows) /\ \A other \in Calls : Apart(NoCall, other)
  BY NoCallIsFresh, Fresh
<1>3. Callers(caller, rows)
  BY <1>1, <1>2, NoCallIsFresh DEF Callers
<1>. QED BY <1>1, <1>3, StorageAssumption DEF StorageInv, OneRow

LEMMA StutterStorageInv == ASSUME StorageInv, UNCHANGED mysqlVars PROVE StorageInv'
BY DEF StorageInv, Callers, mysqlVars

(***************************************************************************)
(* A transaction holds the ranges of the statements it has executed, no    *)
(* other transaction holds one of them, and what it is about to delete and *)
(* to write is still what the tables have: mysqlStorage.ts computes what   *)
(* it writes from what it has read FOR UPDATE.                             *)
(***************************************************************************)
THEOREM StorageInvariance == MysqlSpec => []StorageInv
<1>1. StorageInv /\ [MysqlNext]_mysqlVars => StorageInv'
  BY EveryStep, StutterStorageInv
<1>. QED BY <1>1, InitStorageInv, PTL DEF MysqlSpec

(***************************************************************************)
(* Whatever the callers interleave and whichever statement fails, the      *)
(* tables change as the contract says, one operation after the other: a    *)
(* transaction takes effect at its commit, as its operation would have at  *)
(* once.                                                                   *)
(***************************************************************************)
THEOREM StorageRefines == MysqlSpec => ImplementsContract
<1>1. MysqlInit => ContractInit
  BY DEF MysqlInit
<1>2. StorageInv /\ [MysqlNext]_mysqlVars => [ContractNext]_rows
  BY EveryStep DEF mysqlVars
<1>. QED BY <1>1, <1>2, StorageInvariance, PTL DEF MysqlSpec, ImplementsContract, ContractSpec

-----------------------------------------------------------------------------
(***************************************************************************)
(* Who can proceed.  The tables are locked in one order: sessions, then    *)
(* members, then the pool; accounts, then statistics.  Whoever is further  *)
(* in that order waits, if at all, for one that is further still.          *)
(***************************************************************************)
Proceeds(c) == caller[c].step > Len(Program[caller[c].op]) \/ CanLock(c)

LEMMA Facts ==
  ASSUME StorageInv, NEW c \in Clients
  PROVE /\ caller[c] \in Calls /\ Sensible(caller[c]) /\ caller[c].step \in 1..4
        /\ \A table \in Tables, key \in Keys : <<table, key>> \in caller[c].locks <=> key \in Held(caller[c], table)
BY DEF StorageInv, Callers, Consistent, Calls

\* Whoever cannot proceed waits for a range that another holds.
LEMMA WaitsFor ==
  ASSUME StorageInv, NEW c \in Open, ~Proceeds(c)
  PROVE /\ c \in Clients /\ InTransaction(c) /\ caller[c].step <= Lengths(caller[c]) - 1
        /\ \E key \in Keys, d \in Clients \ {c} :
             /\ <<Table(c), key>> \in Ranges(c)
             /\ key \in Held(caller[d], Table(c)) /\ key \notin Held(caller[c], Table(c))
<1>1. c \in Clients /\ InTransaction(c)
  BY DEF Open
<1>2. caller[c].step <= Lengths(caller[c]) - 1 /\ Callers(caller, rows)
  BY <1>1, Facts, Statements DEF Proceeds, StorageInv, Lengths
<1>3. "pools" \in Tables /\ ThePool \in Keys
  BY DEF Tables, Keys
<1>4. caller[c].step <= Len(Program[caller[c].op])
  BY <1>1, <1>2, Statements
<1>5. Table(c) \in Tables /\ Ranges(c) \subseteq Tables \X Keys
  BY <1>1, <1>2, <1>3, <1>4, RangesOfStatement
<1>6. PICK range \in Ranges(c), d \in Clients \ {c} : range \in caller[d].locks
  BY DEF Proceeds, CanLock, LockedByOthers
<1>7. PICK table \in Tables, key \in Keys : range = <<table, key>>
  BY <1>5, <1>6
<1>8. table = Table(c)
  BY <1>1, <1>2, <1>4, <1>6, <1>7, RangesOfStatement
<1>9. key \in Held(caller[d], table)
  BY <1>6, <1>7, Facts
<1>10. <<table, key>> \notin caller[c].locks
  BY <1>1, <1>6, <1>7, <1>2 DEF Callers, Apart
<1>11. key \notin Held(caller[c], table)
  BY <1>1, <1>10, Facts
<1>. QED BY <1>1, <1>2, <1>6, <1>7, <1>8, <1>9, <1>11

\* Whoever holds the pool has come to the end.
LEMMA PoolHolders ==
  ASSUME StorageInv, NEW d \in Clients, Held(caller[d], "pools") # {}
  PROVE d \in Open /\ Proceeds(d)
<1>1. caller[d].op = "deletePool" /\ caller[d].step > 3
  BY Facts, Holdings DEF Calls, Past, Tables, AccountOps, RosterOps
<1>2. d \in Open
  BY <1>1, Programs DEF Open, InTransaction, RosterOps
<1>3. Len(Program[caller[d].op]) = 3
  BY <1>1, Programs
<1>. QED BY <1>1, <1>2, <1>3, Facts DEF Proceeds

\* Whoever holds members, or has come as far, waits for the pool at most.
LEMMA MemberHolders ==
  ASSUME StorageInv, NEW d \in Open,
         \/ caller[d].op \in RosterOps /\ caller[d].step > 2
         \/ caller[d].op = "markMemberFailure" /\ caller[d].step > 1
  PROVE \E c \in Open : Proceeds(c)
<1>. SUFFICES ASSUME ~Proceeds(d) PROVE \E c \in Open : Proceeds(c)
  OBVIOUS
<1>1. /\ d \in Clients /\ InTransaction(d) /\ caller[d].step <= Lengths(caller[d]) - 1 /\ caller[d] \in Calls
      /\ caller[d].step \in 1..4 /\ Callers(caller, rows)
  BY WaitsFor, Facts DEF StorageInv
<1>2. PICK key \in Keys, e \in Clients \ {d} :
        /\ <<Table(d), key>> \in Ranges(d)
        /\ key \in Held(caller[e], Table(d)) /\ key \notin Held(caller[d], Table(d))
  BY WaitsFor
<1>3. CASE caller[d].op \in RosterOps
  <2>1. caller[d].op = "deletePool" /\ caller[d].step = 3
    BY <1>1, <1>3 DEF RosterOps, Lengths, AccountOps
  <2>2. Table(d) = "pools"
    BY <1>1, <2>1, Statements
  <2>. QED BY <1>2, <2>2, PoolHolders
<1>4. CASE caller[d].op = "markMemberFailure"
  <2>1. Lengths(caller[d]) = 3
    BY <1>4 DEF Lengths, AccountOps
  <2>2. caller[d].step = 2
    BY <1>1, <1>4, <2>1 DEF RosterOps
  <2>3. Table(d) = "members"
    BY <1>1, <1>4, <2>2, Statements
  <2>4. Held(caller[d], "members") = caller[d].keys
    BY <1>1, <1>4, <2>2, Holdings DEF Past
  <2>5. key \in caller[d].keys
    <3>1. "members" \in Tables /\ caller[d].step <= Len(Program[caller[d].op])
      BY <1>1, Statements DEF Tables
    <3>. QED BY <1>1, <1>2, <1>4, <2>3, <3>1, RangesOfStatement
  <2>. QED BY <1>2, <2>3, <2>4, <2>5
<1>. QED BY <1>3, <1>4

LEMMA HoldsMembers ==
  ASSUME StorageInv, NEW d \in Clients, Held(caller[d], "members") # {}
  PROVE \E c \in Open : Proceeds(c)
<1>1. \/ caller[d].op \in RosterOps /\ caller[d].step > 2
      \/ caller[d].op = "markMemberFailure" /\ caller[d].step > 1
  BY Facts, Holdings DEF Calls, Past, Tables
<1>2. d \in Open
  BY <1>1, Programs DEF Open, InTransaction
<1>. QED BY <1>1, <1>2, MemberHolders

\* Whoever has locked sessions waits for members, or the pool.
LEMMA SessionHolders ==
  ASSUME StorageInv, NEW d \in Open, caller[d].op \in RosterOps, caller[d].step > 1
  PROVE \E c \in Open : Proceeds(c)
<1>. SUFFICES ASSUME ~Proceeds(d), ~(caller[d].step > 2) PROVE \E c \in Open : Proceeds(c)
  BY MemberHolders
<1>1. d \in Clients /\ InTransaction(d) /\ caller[d].step = 2 /\ Callers(caller, rows)
  BY WaitsFor, Facts DEF StorageInv, Open
<1>2. Table(d) = "members"
  BY <1>1, Statements
<1>. QED BY <1>2, WaitsFor, HoldsMembers

LEMMA HoldsSessions ==
  ASSUME StorageInv, NEW d \in Clients, Held(caller[d], "sessions") # {}
  PROVE \E c \in Open : Proceeds(c)
<1>1. caller[d].op \in RosterOps /\ caller[d].step > 1
  BY Facts, Holdings DEF Calls, Past, Tables
<1>2. d \in Open
  BY <1>1, Programs DEF Open, InTransaction
<1>. QED BY <1>1, <1>2, SessionHolders

\* Whoever deletes accounts has locked them, and whoever waits has not: nobody waits
\* for the statistics of an account, or for the account again.
LEMMA AccountHolders ==
  ASSUME StorageInv, NEW d \in Open, caller[d].op \in AccountOps, caller[d].step > 1
  PROVE Proceeds(d)
<1>. SUFFICES ASSUME ~Proceeds(d) PROVE FALSE
  OBVIOUS
<1>1. /\ d \in Clients /\ InTransaction(d) /\ caller[d].step <= Lengths(caller[d]) - 1 /\ caller[d] \in Calls
      /\ caller[d].step \in 1..4 /\ Callers(caller, rows) /\ Sensible(caller[d])
  BY WaitsFor, Facts DEF StorageInv
<1>2. PICK key \in Keys, e \in Clients \ {d} :
        /\ <<Table(d), key>> \in Ranges(d)
        /\ key \in Held(caller[e], Table(d)) /\ key \notin Held(caller[d], Table(d))
  BY WaitsFor
<1>3. caller[d].step \in {2, 3} /\ caller[d].step <= Len(Program[caller[d].op])
  BY <1>1, Statements DEF Lengths
<1>4. caller[d].keys \subseteq Held(caller[d], "accounts") /\ caller[d].keys \subseteq Accounts
  BY <1>1, <1>3, Holdings DEF Past, Sensible
<1>5. CASE caller[d].step = 2
  <2>1. Table(d) = "stats" /\ "stats" \in Tables
    BY <1>1, <1>5, Statements DEF Tables
  <2>2. key \in caller[d].keys
    BY <1>1, <1>2, <1>3, <2>1, RangesOfStatement
  <2>3. /\ caller[e] \in Calls /\ Sensible(caller[e]) /\ key \in Held(caller[e], "stats")
        /\ caller[e].step \in 1..4
    BY <1>2, <2>1, Facts
  <2>4. caller[e].op \in AccountOps /\ caller[e].step > 2 /\ key \in caller[e].keys
    BY <2>3, Holdings DEF Past, Calls, Tables
  <2>5. key \in Held(caller[e], "accounts")
    BY <1>4, <2>2, <2>3, <2>4, Holdings DEF Past
  <2>6. "accounts" \in Tables
    BY DEF Tables
  <2>7. <<"accounts", key>> \in caller[d].locks /\ <<"accounts", key>> \in caller[e].locks
    BY <1>1, <1>4, <2>2, <2>5, <2>6, Facts
  <2>8. Apart(caller[d], caller[e])
    BY <1>1, <1>2 DEF Callers
  <2>. QED BY <2>7, <2>8 DEF Apart
<1>6. CASE caller[d].step = 3
  <2>1. Table(d) = "accounts" /\ "accounts" \in Tables
    BY <1>1, <1>6, Statements DEF Tables
  <2>2. key \in IF caller[d].op = "deleteAccountsBySsoUser" THEN Accounts ELSE caller[d].keys
    BY <1>1, <1>2, <1>3, <2>1, RangesOfStatement
  <2>3. Held(caller[d], "accounts") = IF caller[d].op = "deleteAccountsBySsoUser" THEN Accounts ELSE caller[d].keys
    BY <1>1, <1>6, Holdings DEF Past, AccountOps
  <2>. QED BY <1>2, <2>1, <2>2, <2>3
<1>. QED BY <1>3, <1>5, <1>6

LEMMA HoldsAccounts ==
  ASSUME StorageInv, NEW d \in Clients, Held(caller[d], "accounts") # {}
  PROVE \E c \in Open : Proceeds(c)
<1>1. caller[d].op \in AccountOps /\ caller[d].step > 1
  BY Facts, Holdings DEF Calls, Past, Tables
<1>2. d \in Open
  BY <1>1, Programs DEF Open, InTransaction
<1>. QED BY <1>1, <1>2, AccountHolders

LEMMA SomeoneDoes == StorageInv => SomeoneProceeds
<1>. SUFFICES ASSUME StorageInv, NEW c \in Open PROVE \E d \in Open : Proceeds(d)
  BY DEF SomeoneProceeds, Proceeds
<1>. SUFFICES ASSUME ~Proceeds(c) PROVE \E d \in Open : Proceeds(d)
  OBVIOUS
<1>1. /\ c \in Clients /\ InTransaction(c) /\ caller[c].step \in 1..4 /\ Callers(caller, rows)
      /\ caller[c].op \in AccountOps \cup RosterOps \cup {"markMemberFailure"}
  BY WaitsFor, Facts, Programs DEF StorageInv, InTransaction
<1>2. CASE caller[c].step > 1
  BY <1>1, <1>2, AccountHolders, SessionHolders, MemberHolders
<1>3. CASE caller[c].step = 1
  <2>1. PICK d \in Clients : Held(caller[d], Table(c)) # {}
    BY WaitsFor
  <2>2. CASE caller[c].op \in AccountOps
    BY <1>1, <1>3, <2>1, <2>2, Statements, HoldsAccounts
  <2>3. CASE caller[c].op \in RosterOps
    BY <1>1, <1>3, <2>1, <2>3, Statements, HoldsSessions
  <2>4. CASE caller[c].op = "markMemberFailure"
    BY <1>1, <1>3, <2>1, <2>4, Statements, HoldsMembers
  <2>. QED BY <1>1, <2>2, <2>3, <2>4
<1>. QED BY <1>1, <1>2, <1>3

(***************************************************************************)
(* Of the transactions that are open one at least is not waiting for       *)
(* another: they lock the tables in one order, and no deadlock of InnoDB   *)
(* has to end one of them.                                                 *)
(***************************************************************************)
THEOREM NoDeadlock == MysqlSpec => []SomeoneProceeds
BY StorageInvariance, SomeoneDoes, PTL

-----------------------------------------------------------------------------
(***************************************************************************)
(* The statistics.  A row that is pruned has as many newer rows as are     *)
(* kept, and all of these have been recorded; that it was recorded before  *)
(* or after them does not matter.                                          *)
(***************************************************************************)
Times == [Accounts -> SUBSET (1..MaxStats)]

RowsRecorded(r, times) == \A i \in Accounts, n \in 1..MaxStats :
  <<"stats", i, n>> \in r => n \in times[i]

Kept(r, times) ==
  \A i \in Accounts, n \in 1..MaxStats :
    n \in times[i] /\ <<"stats", i, n>> \notin r => Cardinality({m \in times[i] : m > n}) >= Retained

StatsInv == recorded \in Times /\ RowsRecorded(rows, recorded) /\ Kept(rows, recorded)

LEMMA StaleHasNewer ==
  ASSUME rows \subseteq AllRows, StatsInv, NEW i \in Accounts, NEW n \in 1..MaxStats,
         <<"stats", i, n>> \in Stale(Found("stats", {i}))
  PROVE Cardinality({m \in recorded[i] : m > n}) >= Retained
<1>. DEFINE row == <<"stats", i, n>>
            found == Found("stats", {i})
            rowsAbove == {other \in found : Newer(row, other)}
            above == {m \in recorded[i] : m > n}
<1>1. Cardinality(rowsAbove) >= Retained
  BY DEF Stale
<1>2. ASSUME NEW other \in rowsAbove
      PROVE other = <<"stats", i, other[3]>> /\ other[3] \in above
  <2>1. other \in AllRows /\ other \in rows /\ other[1] = "stats" /\ other[2] = i /\ other[3] > n
    BY DEF Found, Newer
  <2>2. other = <<"stats", i, other[3]>> /\ other[3] \in 1..MaxStats
    BY <2>1, Row
  <2>3. other[3] \in recorded[i]
    BY <2>1, <2>2 DEF StatsInv, RowsRecorded
  <2>. QED BY <2>1, <2>2, <2>3
<1>3. IsFiniteSet(above)
  <2>1. above \in SUBSET (1..MaxStats)
    BY DEF StatsInv, Times
  <2>2. IsFiniteSet(1..MaxStats)
    BY StorageAssumption, FS_Interval
  <2>. QED BY <2>1, <2>2, FS_Subset
<1>. DEFINE time == [other \in rowsAbove |-> other[3]]
<1>. HIDE DEF above, rowsAbove
<1>4. time \in Injection(rowsAbove, above)
  <2>1. \A x \in rowsAbove : time[x] = x[3]
    OBVIOUS
  <2>2. \A x, y \in rowsAbove : time[x] = time[y] => x = y
    BY <1>2, <2>1
  <2>3. time \in [rowsAbove -> above]
    BY <1>2
  <2>. QED BY <2>2, <2>3 DEF Injection, IsInjective
<1>5. Cardinality(rowsAbove) <= Cardinality(above) /\ IsFiniteSet(rowsAbove)
  BY <1>3, <1>4, FS_Injection
<1>6. Cardinality(rowsAbove) \in Nat /\ Cardinality(above) \in Nat
  BY <1>3, <1>5, FS_CardinalityType
<1>. QED BY <1>1, <1>5, <1>6, StorageAssumption DEF above

\* More records of an account keep no fewer newer than any of them.
LEMMA MoreAreNewer ==
  ASSUME NEW few \in SUBSET (1..MaxStats), NEW many \in SUBSET (1..MaxStats), few \subseteq many, NEW n \in 1..MaxStats,
         Cardinality({m \in few : m > n}) >= Retained
  PROVE Cardinality({m \in many : m > n}) >= Retained
<1>1. IsFiniteSet(1..MaxStats)
  BY StorageAssumption, FS_Interval
<1>2. {m \in many : m > n} \in SUBSET (1..MaxStats) /\ {m \in few : m > n} \in SUBSET {m \in many : m > n}
  OBVIOUS
<1>3. IsFiniteSet({m \in many : m > n})
  BY <1>1, <1>2, FS_Subset
<1>4. IsFiniteSet({m \in few : m > n}) /\ Cardinality({m \in few : m > n}) <= Cardinality({m \in many : m > n})
  BY <1>2, <1>3, FS_Subset
<1>5. Cardinality({m \in few : m > n}) \in Nat /\ Cardinality({m \in many : m > n}) \in Nat
  BY <1>3, <1>4, FS_CardinalityType
<1>. QED BY <1>4, <1>5, StorageAssumption

\* Rows that go as stale.
LEMMA PruningKeeps ==
  ASSUME rows \subseteq AllRows, StatsInv, UNCHANGED recorded, rows' \subseteq rows,
         \A i \in Accounts, n \in 1..MaxStats :
           <<"stats", i, n>> \in rows \ rows' => <<"stats", i, n>> \in Stale(Found("stats", {i}))
  PROVE StatsInv'
<1>1. RowsRecorded(rows', recorded)
  BY DEF StatsInv, RowsRecorded
<1>2. ASSUME NEW i \in Accounts, NEW n \in 1..MaxStats, n \in recorded[i], <<"stats", i, n>> \notin rows'
      PROVE Cardinality({m \in recorded[i] : m > n}) >= Retained
  BY <1>2, StaleHasNewer DEF StatsInv, Kept
<1>. QED BY <1>1, <1>2 DEF StatsInv, Kept

LEMMA PruneStatsKeeps ==
  ASSUME rows \subseteq AllRows, StatsInv, UNCHANGED recorded,
         PruneAllRequestStats \/ \E i \in Accounts : PruneStats(i)
  PROVE StatsInv'
<1>1. ASSUME NEW i \in Accounts, NEW j \in Accounts, NEW n, <<"stats", i, n>> \in Stale(Found("stats", {j}))
      PROVE i = j
  BY <1>1 DEF Stale, Found
<1>2. CASE PruneAllRequestStats
  <2>1. rows' = rows \ UNION {Stale(Found("stats", {i})) : i \in Accounts}
    BY <1>2 DEF PruneAllRequestStats
  <2>2. \A i \in Accounts, n \in 1..MaxStats :
           <<"stats", i, n>> \in rows \ rows' => <<"stats", i, n>> \in Stale(Found("stats", {i}))
    <3>1. SUFFICES ASSUME NEW i \in Accounts, NEW n \in 1..MaxStats, <<"stats", i, n>> \in rows \ rows'
                   PROVE <<"stats", i, n>> \in Stale(Found("stats", {i}))
      OBVIOUS
    <3>2. PICK j \in Accounts : <<"stats", i, n>> \in Stale(Found("stats", {j}))
      BY <2>1, <3>1
    <3>3. i = j
      BY <1>1, <3>2
    <3>. QED BY <3>2, <3>3
  <2>. QED BY <2>1, <2>2, PruningKeeps
<1>3. ASSUME NEW j \in Accounts, PruneStats(j) PROVE StatsInv'
  <2>1. rows' = rows \ Stale(Found("stats", {j}))
    BY <1>3 DEF PruneStats
  <2>2. \A i \in Accounts, n \in 1..MaxStats :
           <<"stats", i, n>> \in rows \ rows' => <<"stats", i, n>> \in Stale(Found("stats", {i}))
    BY <1>1, <2>1
  <2>. QED BY <2>1, <2>2, PruningKeeps
<1>. QED BY <1>2, <1>3

LEMMA QuietKeeps ==
  ASSUME StatsInv, UNCHANGED recorded,
         \A row \in AllRows : row[1] = "stats" => (row \in rows <=> row \in rows')
  PROVE StatsInv'
<1>1. \A i \in Accounts, n \in 1..MaxStats : <<"stats", i, n>> \in rows <=> <<"stats", i, n>> \in rows'
  BY Rows
<1>. QED BY <1>1 DEF StatsInv, RowsRecorded, Kept

LEMMA InsertKeeps ==
  ASSUME StatsInv, NEW j \in Accounts, NEW k \in 1..MaxStats,
         InsertStat(j, k), recorded' = [recorded EXCEPT ![j] = @ \cup {k}]
  PROVE StatsInv'
<1>1. rows' = rows \cup {<<"stats", j, k>>}
  BY DEF InsertStat
<1>2. /\ recorded \in Times /\ recorded' \in Times /\ recorded'[j] = recorded[j] \cup {k}
      /\ \A i \in Accounts : recorded[i] \subseteq recorded'[i] /\ (i # j => recorded'[i] = recorded[i])
      /\ \A i \in Accounts : recorded[i] \in SUBSET (1..MaxStats) /\ recorded'[i] \in SUBSET (1..MaxStats)
  BY DEF StatsInv, Times
<1>3. RowsRecorded(rows', recorded')
  BY <1>1, <1>2 DEF StatsInv, RowsRecorded
<1>4. ASSUME NEW i \in Accounts, NEW n \in 1..MaxStats, n \in recorded'[i], <<"stats", i, n>> \notin rows'
      PROVE Cardinality({m \in recorded'[i] : m > n}) >= Retained
  <2>1. n \in recorded[i] /\ <<"stats", i, n>> \notin rows
    BY <1>1, <1>2, <1>4
  <2>2. Cardinality({m \in recorded[i] : m > n}) >= Retained
    BY <2>1 DEF StatsInv, Kept
  <2>. DEFINE few == recorded[i]
              many == recorded'[i]
  <2>3. few \in SUBSET (1..MaxStats) /\ many \in SUBSET (1..MaxStats) /\ few \subseteq many
    BY <1>2
  <2>4. Cardinality({m \in few : m > n}) >= Retained
    BY <2>2
  <2>. HIDE DEF few, many
  <2>5. Cardinality({m \in many : m > n}) >= Retained
    BY <2>3, <2>4, MoreAreNewer
  <2>. QED BY <2>5 DEF many
<1>. QED BY <1>2, <1>3, <1>4 DEF StatsInv, Kept

\* With an account go all its statistics, and what was recorded of it.
LEMMA CommitKeeps ==
  ASSUME StorageInv, StatsInv, NEW c \in Clients, Commit(c)
  PROVE StatsInv'
<1>. DEFINE q == caller[c]
            forgotten(i) == \E row \in q.gone : row[1] = "accounts" /\ row[2] = i
<1>1. /\ rows' = (rows \ q.gone) \cup q.new
      /\ recorded' = [i \in Accounts |-> IF forgotten(i) THEN {} ELSE recorded[i]]
  BY DEF Commit
<1>2. /\ q \in Calls /\ Sensible(q) /\ Consistent(q, rows)
      /\ q.op \in AccountOps \cup RosterOps \cup {"markMemberFailure"}
      /\ q.op \in AccountOps => q.step = 4
  BY Committing
<1>3. \A row \in AllRows : row \in q.gone <=> row \in rows /\ row[2] \in Doomed(q, row[1])
  BY <1>2 DEF Consistent
<1>4. q.gone \subseteq AllRows
  BY <1>2 DEF Calls
<1>5. \A row \in q.new : row[1] = "members"
  <2>1. q.new \subseteq AllRows
    BY <1>2 DEF Calls
  <2>. QED BY <1>2, <2>1 DEF Consistent
<1>6. CASE q.op \in AccountOps
  <2>1. Doomed(q, "accounts") = q.keys /\ Doomed(q, "stats") = q.keys /\ q.keys \subseteq Accounts
    BY <1>2, <1>6, Deletions DEF Past, Sensible
  <2>2. \A i \in q.keys : <<"accounts", i, 0>> \in rows
    <3>1. q.op \in AccountOps /\ q.step > 1
      BY <1>2, <1>6
    <3>. QED BY <1>2, <3>1 DEF Consistent
  <2>3. \A i \in Accounts : forgotten(i) <=> i \in q.keys
    <3>1. SUFFICES ASSUME NEW i \in Accounts PROVE forgotten(i) <=> i \in q.keys
      OBVIOUS
    <3>2. forgotten(i) => i \in q.keys
      BY <1>3, <1>4, <2>1
    <3>3. ASSUME i \in q.keys PROVE forgotten(i)
      <4>1. <<"accounts", i, 0>> \in rows /\ <<"accounts", i, 0>> \in AllRows
        BY <2>2, <3>3, Rows
      <4>2. <<"accounts", i, 0>> \in q.gone
        BY <1>3, <2>1, <3>3, <4>1
      <4>. QED BY <4>2
    <3>. QED BY <3>2, <3>3
  <2>4. \A i \in Accounts, n \in 1..MaxStats :
          <<"stats", i, n>> \in rows' <=> <<"stats", i, n>> \in rows /\ i \notin q.keys
    BY <1>1, <1>3, <1>5, <2>1, Rows
  <2>. HIDE DEF forgotten
  <2>5. recorded' \in Times /\ \A i \in Accounts : recorded'[i] = IF i \in q.keys THEN {} ELSE recorded[i]
    BY <1>1, <2>3 DEF StatsInv, Times
  <2>6. RowsRecorded(rows', recorded') /\ Kept(rows', recorded')
    BY <2>4, <2>5 DEF StatsInv, RowsRecorded, Kept
  <2>. QED BY <2>5, <2>6 DEF StatsInv
<1>7. CASE q.op \notin AccountOps
  <2>1. Doomed(q, "accounts") = {} /\ Doomed(q, "stats") = {}
    BY <1>2, <1>7, Deletions
  <2>2. \A i \in Accounts : ~forgotten(i)
    BY <1>3, <1>4, <2>1
  <2>. HIDE DEF forgotten
  <2>3. recorded' = recorded
    BY <1>1, <2>2 DEF StatsInv, Times
  <2>4. \A row \in AllRows : row[1] = "stats" => (row \in rows <=> row \in rows')
    BY <1>1, <1>3, <1>5, <2>1
  <2>. QED BY <2>3, <2>4, QuietKeeps
<1>. QED BY <1>6, <1>7

LEMMA StatsStep == ASSUME StorageInv, StatsInv, MysqlNext PROVE StatsInv'
<1>1. PICK c \in Clients :
        \/ Statement(c) \/ Commit(c) \/ Rollback(c)
        \/ BeginOnAccounts(c) \/ BeginOnPool(c)
        \/ AloneOnAccounts(c) \/ AloneOnPool(c)
        \/ BeginRecord(c) \/ RecordRequestStat(c) \/ Prune(c)
        \/ BeginUpdatePool(c) \/ UpdatePool(c)
  BY DEF MysqlNext, AccountsNext, PoolNext, Proceed
<1>2. ASSUME UNCHANGED <<rows, recorded>> PROVE StatsInv'
  BY <1>2 DEF StatsInv
<1>3. CASE Statement(c) \/ Rollback(c) \/ BeginOnAccounts(c) \/ BeginOnPool(c) \/ BeginRecord(c) \/ BeginUpdatePool(c)
  BY <1>2, <1>3, StatementSteady, RollbackSteady, BeginSteady, BeginRecordSteady, BeginUpdateSteady
<1>4. CASE Commit(c)
  BY <1>4, CommitKeeps
<1>5. CASE AloneOnAccounts(c) \/ AloneOnPool(c)
  <2>1. /\ UNCHANGED recorded /\ rows \subseteq AllRows
        /\ \/ PruneAllRequestStats
           \/ \A row \in AllRows : row[1] = "stats" => (row \in rows <=> row \in rows')
    BY <1>5, AloneIs DEF StorageInv
  <2>. QED BY <2>1, PruneStatsKeeps, QuietKeeps
<1>6. CASE RecordRequestStat(c)
  BY <1>6, RecordSteady, InsertKeeps
<1>7. CASE Prune(c)
  BY <1>7, PruneSteady, PruneStatsKeeps DEF StorageInv
<1>8. CASE UpdatePool(c)
  BY <1>8, UpdateSteady, QuietKeeps
<1>. QED BY <1>1, <1>3, <1>4, <1>5, <1>6, <1>7, <1>8

LEMMA InitStatsInv == MysqlInit => StatsInv
BY DEF MysqlInit, ContractInit, StatsInv, Times, RowsRecorded, Kept

(***************************************************************************)
(* No record is pruned while it is among the newest of its account,        *)
(* although rows are inserted out of the order of their times and pruned   *)
(* by others than their writers.                                           *)
(***************************************************************************)
THEOREM NewestKept == MysqlSpec => []NewestAreKept
<1>1. StorageInv /\ StatsInv /\ [MysqlNext]_mysqlVars => StatsInv'
  BY StatsStep DEF StatsInv, mysqlVars
<1>2. StatsInv => NewestAreKept
  BY DEF StatsInv, Kept, NewestAreKept
<1>. QED BY <1>1, <1>2, InitStatsInv, StorageInvariance, PTL DEF MysqlSpec
=============================================================================

--------------------------- MODULE SsoUsers_proofs --------------------------
(***************************************************************************)
(* Proofs about the SSO users, for every number of users, handlers, plans  *)
(* and directory entries.  First the import plans, as operators on a table *)
(* of users; then types, and what every step does to plans and to users;   *)
(* at the end what deletions and syncs leave behind at GitHub.             *)
(***************************************************************************)
EXTENDS SsoUsers, FiniteSetTheorems, WellFoundedInduction, TLAPS

(***************************************************************************)
(* A non-empty bounded set of naturals has a greatest element.             *)
(***************************************************************************)
LEMMA GreatestOf ==
  ASSUME NEW n \in Nat, NEW S \in SUBSET (1..n), S # {}
  PROVE  \E m \in S : \A x \in S : x <= m
<1> DEFINE gaps == {n - x : x \in S}
<1>1. gaps \subseteq Nat /\ gaps # {}
  <2>1. \A x \in S : n - x \in Nat
    OBVIOUS
  <2>2. PICK y \in S : TRUE
    OBVIOUS
  <2>3. n - y \in gaps
    OBVIOUS
  <2> QED BY <2>1, <2>3
<1>2. \E g \in gaps : \A k \in gaps : ~(<<k, g>> \in OpToRel(<, Nat))
  BY <1>1, NatLessThanWellFounded, WFMin
<1>3. PICK g \in gaps : \A k \in gaps : ~(k < g)
  BY <1>1, <1>2 DEF OpToRel
<1>4. PICK m \in S : g = n - m
  OBVIOUS
<1>5. \A x \in S : x <= m
  <2> SUFFICES ASSUME NEW x \in S PROVE x <= m
    OBVIOUS
  <2>1. ~(n - x < n - m)
    BY <1>3, <1>4
  <2> QED BY <2>1
<1> QED BY <1>5

(***************************************************************************)
(* Tables.                                                                 *)
(***************************************************************************)
LEMMA UserTable ==
  ASSUME NEW us
  PROVE  us \in UserTables <=> (DOMAIN us \subseteq Users /\ us \in [DOMAIN us -> Row])
BY DEF UserTables

LEMMA PlanTable ==
  ASSUME NEW plan
  PROVE  plan \in PlanTables <=> (DOMAIN plan \subseteq Ids /\ plan \in [DOMAIN plan -> PlanRow])
BY DEF PlanTables

LEMMA Listing ==
  ASSUME NEW list
  PROVE  list \in Listings <=> (DOMAIN list \subseteq Ids /\ list \in [DOMAIN list -> Candidate])
BY DEF Listings

(***************************************************************************)
(* Whoever is found to hold an entry holds it, and somebody is found if    *)
(* anybody holds it.                                                       *)
(***************************************************************************)
LEMMA HolderHolds ==
  ASSUME NEW us \in UserTables, NEW i, NEW v \in DOMAIN us, us[v].id = i
  PROVE  Holder(us, i) \in {u \in DOMAIN us : us[u].id = i}
<1> DEFINE holders == {u \in DOMAIN us : us[u].id = i}
<1>1. holders \in SUBSET (1..NumUsers) /\ holders # {}
  BY UserTable DEF Users
<1>2. \E m \in holders : \A x \in holders : x <= m
  BY <1>1, GreatestOf, ImportAssumption
<1> QED BY <1>1, <1>2 DEF Holder

(***************************************************************************)
(* The preview of a listing is a plan.                                     *)
(***************************************************************************)
LEMMA BuildPlanType ==
  ASSUME NEW list \in Listings, NEW us, NEW differs
  PROVE  BuildPlan(list, us, differs) \in PlanTables
<1> DEFINE plan == BuildPlan(list, us, differs)
<1>1. DOMAIN plan = DOMAIN list /\ DOMAIN list \subseteq Ids
  BY Listing DEF BuildPlan
<1>2. ASSUME NEW i \in DOMAIN list PROVE plan[i] \in PlanRow
  <2>1. list[i] \in Candidate
    BY Listing
  <2>2. PlannedStatus(list, us, differs, i) \in PlanStatuses
    BY DEF PlannedStatus, PlanStatuses
  <2> QED BY <2>1, <2>2 DEF BuildPlan, PlanRow, Candidate
<1>3. plan \in [DOMAIN plan -> PlanRow]
  BY <1>1, <1>2 DEF BuildPlan
<1> QED BY <1>1, <1>3, PlanTable

(***************************************************************************)
(* Applying a plan.                                                        *)
(***************************************************************************)
LEMMA AppliedType ==
  ASSUME NEW us, NEW plan \in PlanTables, NEW bound
  PROVE  /\ Applied(us, plan, bound) \in PlanTables
         /\ Pending(Applied(us, plan, bound)) = {}
<1> DEFINE after == Applied(us, plan, bound)
<1>1. DOMAIN after = DOMAIN plan /\ DOMAIN plan \subseteq Ids
  BY PlanTable DEF Applied
<1>2. ASSUME NEW i \in DOMAIN plan
      PROVE  after[i] \in PlanRow /\ after[i].status \notin {"pending_create", "pending_update"}
  <2>1. plan[i] \in PlanRow
    BY PlanTable
  <2>2. Outcome(us, plan, bound, i) \in PlanStatuses \ {"pending_create", "pending_update"}
    BY <2>1 DEF Outcome, Pending, PlanStatuses, PlanRow
  <2>3. after[i] = [plan[i] EXCEPT !.status = Outcome(us, plan, bound, i)]
    BY DEF Applied
  <2> QED BY <2>1, <2>2, <2>3 DEF PlanRow
<1>3. after \in [DOMAIN after -> PlanRow]
  BY <1>1, <1>2 DEF Applied
<1> QED BY <1>1, <1>2, <1>3, PlanTable DEF Pending

\* What happens to the entries that are written.
LEMMA WrittenRows ==
  ASSUME NEW us \in UserTables, NEW plan \in PlanTables, NEW bound,
         NEW i \in Written(us, plan, bound)
  PROVE  /\ i \in Ids /\ i \in DOMAIN plan /\ plan[i] \in PlanRow
         /\ ~Conflict(us, plan[i].user, i)
         /\ i \in Creates(us, plan) <=> plan[i].user \notin DOMAIN us
         /\ i \in Creates(us, plan) => RoomFor(us, plan, bound, i)
<1>1. i \in Pending(plan) /\ i \in DOMAIN plan
  BY DEF Written, Pending
<1>2. i \in Ids /\ plan[i] \in PlanRow
  BY <1>1, PlanTable
<1>3. ~Stale(us, plan, i)
  BY <1>1 DEF Written, Outcome
<1>4. plan[i].status \in {"pending_create", "pending_update"}
  BY <1>1 DEF Pending
<1>5. i \in Creates(us, plan) <=> plan[i].status = "pending_create"
  BY <1>1, <1>3 DEF Creates, Fresh
<1>6. i \in Creates(us, plan) <=> plan[i].user \notin DOMAIN us
  BY <1>3, <1>4, <1>5 DEF Stale
<1>7. plan[i].status = "pending_create" => RoomFor(us, plan, bound, i)
  BY <1>1, <1>3 DEF Written, Outcome
<1> QED BY <1>1, <1>2, <1>3, <1>5, <1>6, <1>7 DEF Stale

\* The row of a user afterwards: the one of an entry that is written, or the old one.
LEMMA RowAfter ==
  ASSUME NEW us \in UserTables, NEW plan \in PlanTables, NEW bound,
         NEW u \in DOMAIN UsersAfter(us, plan, bound)
  PROVE  LET row == UsersAfter(us, plan, bound)[u]
         IN  \/ \E i \in Written(us, plan, bound) :
                  plan[i].user = u /\ row = [id |-> i, emu |-> plan[i].emu, seat |-> plan[i].seat]
             \/ u \in DOMAIN us /\ row = us[u]
<1> DEFINE written == Written(us, plan, bound)
           after   == UsersAfter(us, plan, bound)
<1>1. u \in DOMAIN us \cup {plan[i].user : i \in written}
  BY DEF UsersAfter
<1>2. CASE \E i \in written : plan[i].user = u
  <2> DEFINE j == CHOOSE i \in written : plan[i].user = u
  <2>1. j \in written /\ plan[j].user = u
    BY <1>2
  <2>2. after[u] = [id |-> j, emu |-> plan[j].emu, seat |-> plan[j].seat]
    BY <1>1, <1>2 DEF UsersAfter
  <2> QED BY <2>1, <2>2
<1>3. CASE ~\E i \in written : plan[i].user = u
  <2>1. u \in DOMAIN us
    BY <1>1, <1>3
  <2>2. after[u] = us[u]
    BY <1>1, <1>3 DEF UsersAfter
  <2> QED BY <2>1, <2>2
<1> QED BY <1>2, <1>3

LEMMA UsersAfterType ==
  ASSUME NEW us \in UserTables, NEW plan \in PlanTables, NEW bound
  PROVE  UsersAfter(us, plan, bound) \in UserTables
<1> DEFINE after == UsersAfter(us, plan, bound)
<1>1. DOMAIN us \subseteq Users /\ us \in [DOMAIN us -> Row]
  BY UserTable
<1>2. \A i \in Written(us, plan, bound) : plan[i].user \in Users
  BY WrittenRows DEF PlanRow
<1>3. DOMAIN after = DOMAIN us \cup {plan[i].user : i \in Written(us, plan, bound)}
  BY DEF UsersAfter
<1>4. ASSUME NEW u \in DOMAIN after PROVE after[u] \in Row
  <2>1. CASE u \in DOMAIN us /\ after[u] = us[u]
    BY <1>1, <2>1
  <2>2. CASE \E i \in Written(us, plan, bound) :
               plan[i].user = u /\ after[u] = [id |-> i, emu |-> plan[i].emu, seat |-> plan[i].seat]
    BY <2>2, WrittenRows DEF Row, PlanRow, EmuStatuses, SeatStatuses
  <2> QED BY <2>1, <2>2, RowAfter
<1>5. after \in [DOMAIN after -> Row]
  BY <1>4 DEF UsersAfter
<1> QED BY <1>1, <1>2, <1>3, <1>5, UserTable

(***************************************************************************)
(* A plan with no pending rows is left as it is, and leaves the users.     *)
(***************************************************************************)
LEMMA NothingPending ==
  ASSUME NEW us \in UserTables, NEW plan \in PlanTables, NEW bound, Pending(plan) = {}
  PROVE  Applied(us, plan, bound) = plan /\ UsersAfter(us, plan, bound) = us
<1>1. plan \in [DOMAIN plan -> PlanRow] /\ us \in [DOMAIN us -> Row]
  BY PlanTable, UserTable
<1>2. Applied(us, plan, bound) = plan
  <2>1. \A i \in DOMAIN plan : Outcome(us, plan, bound, i) = plan[i].status
    BY DEF Outcome
  <2>2. \A i \in DOMAIN plan : [plan[i] EXCEPT !.status = plan[i].status] = plan[i]
    BY <1>1 DEF PlanRow
  <2>3. \A i \in DOMAIN plan : Applied(us, plan, bound)[i] = plan[i]
    BY <2>1, <2>2 DEF Applied
  <2>4. Applied(us, plan, bound) = [i \in DOMAIN plan |-> Applied(us, plan, bound)[i]]
    BY DEF Applied
  <2>5. plan = [i \in DOMAIN plan |-> plan[i]]
    BY <1>1
  <2> QED BY <2>3, <2>4, <2>5
<1>3. UsersAfter(us, plan, bound) = us
  <2>1. Written(us, plan, bound) = {}
    BY DEF Written
  <2>2. UsersAfter(us, plan, bound) = [u \in DOMAIN us |-> us[u]]
    BY <2>1 DEF UsersAfter
  <2> QED BY <1>1, <2>2
<1> QED BY <1>2, <1>3

(***************************************************************************)
(* Applying a plan moves nobody, and binds nobody to the entry of another. *)
(***************************************************************************)
LEMMA KeepsBindings ==
  ASSUME NEW us \in UserTables, NEW plan \in PlanTables, NEW bound,
         NEW u \in DOMAIN UsersAfter(us, plan, bound)
  PROVE  LET after == UsersAfter(us, plan, bound)
         IN  /\ u \in DOMAIN us /\ us[u].id # NoId => after[u].id = us[u].id
             /\ (u \notin DOMAIN us \/ us[u].id # after[u].id) =>
                  \A v \in DOMAIN after \ {u} : after[v].id # after[u].id
<1> DEFINE written == Written(us, plan, bound)
           after == UsersAfter(us, plan, bound)
<1>1. \A v \in DOMAIN after :
        \/ \E i \in written : plan[i].user = v /\ after[v].id = i
        \/ v \in DOMAIN us /\ after[v] = us[v]
  BY RowAfter
<1>2. \A i \in written : ~Conflict(us, plan[i].user, i)
  BY WrittenRows
<1> HIDE DEF written, after
<1>3. ASSUME u \in DOMAIN us, us[u].id # NoId PROVE after[u].id = us[u].id
  BY <1>1, <1>2, <1>3 DEF after, Conflict
<1>4. ASSUME u \notin DOMAIN us \/ us[u].id # after[u].id,
             NEW v \in DOMAIN after \ {u}, after[v].id = after[u].id
      PROVE  FALSE
  <2>1. PICK i \in written : plan[i].user = u /\ after[u].id = i
    BY <1>1, <1>4 DEF after
  <2>2. v \in DOMAIN us /\ us[v].id = i
    BY <1>1, <1>4, <2>1
  <2>3. Holder(us, i) \in {w \in DOMAIN us : us[w].id = i}
    BY <2>2, HolderHolds
  <2>4. Holder(us, i) # NoUser
    BY <2>3, UserTable, ImportAssumption DEF Users, NoUser
  <2>5. Holder(us, i) = u
    BY <1>2, <2>1, <2>4 DEF Conflict
  <2> QED BY <1>4, <2>1, <2>3, <2>5
<1> QED BY <1>3, <1>4 DEF after

(***************************************************************************)
(* The users that applying a plan adds are as many as the limit has room.  *)
(***************************************************************************)
LEMMA RoomForAll ==
  ASSUME NEW us \in UserTables, NEW plan \in PlanTables, NEW bound \in Nat, bound # NoLimit,
         ~(DOMAIN UsersAfter(us, plan, bound) \subseteq DOMAIN us)
  PROVE  Cardinality(DOMAIN UsersAfter(us, plan, bound)) <= bound
<1> DEFINE before == DOMAIN us
           after == DOMAIN UsersAfter(us, plan, bound)
           created == {i \in Written(us, plan, bound) : plan[i].user \notin before}
           names == {plan[i].user : i \in created}
<1>1. after = before \cup names
  BY DEF UsersAfter
<1>2. created # {}
  BY <1>1
<1>3. created \subseteq Creates(us, plan) /\ created \in SUBSET (1..MaxIds)
  BY WrittenRows DEF Ids
<1>4. PICK m \in created : \A i \in created : i <= m
  BY <1>2, <1>3, GreatestOf, ImportAssumption
<1> DEFINE first == {j \in Creates(us, plan) : j < m}
<1>5. Cardinality(before) + Cardinality(first) < bound
  BY WrittenRows, <1>3, <1>4 DEF RoomFor, HasRoom
<1>6. created \subseteq first \cup {m}
  BY <1>3, <1>4
<1>7. IsFiniteSet(before) /\ IsFiniteSet(first)
  <2>1. before \subseteq 1..NumUsers
    BY UserTable DEF Users
  <2>2. first \subseteq 1..MaxIds
    BY PlanTable DEF Creates, Fresh, Pending, Ids
  <2>3. IsFiniteSet(1..NumUsers) /\ IsFiniteSet(1..MaxIds)
    BY FS_Interval, ImportAssumption
  <2> HIDE DEF before, first
  <2> QED BY <2>1, <2>2, <2>3, FS_Subset
<1> HIDE DEF before, after, created, first
<1>8. IsFiniteSet(created) /\ Cardinality(created) <= Cardinality(first) + 1
  <2>1. IsFiniteSet(first \cup {m}) /\ Cardinality(first \cup {m}) <= Cardinality(first) + 1
    <3>1. Cardinality(first) \in Nat
      BY <1>7, FS_CardinalityType
    <3>2. /\ IsFiniteSet(first \cup {m})
          /\ Cardinality(first \cup {m}) = IF m \in first THEN Cardinality(first)
                                            ELSE Cardinality(first) + 1
      BY <1>7, FS_AddElement
    <3> QED BY <3>1, <3>2
  <2>2. IsFiniteSet(created) /\ Cardinality(created) <= Cardinality(first \cup {m})
    BY <1>6, <2>1, FS_Subset
  <2> QED BY <1>7, <2>1, <2>2, FS_CardinalityType
<1>9. IsFiniteSet(names) /\ Cardinality(names) <= Cardinality(created)
  <2> DEFINE f == [i \in created |-> plan[i].user]
  <2>1. f \in Surjection(created, names)
    BY DEF Surjection
  <2> HIDE DEF f, names
  <2> QED BY <1>8, <2>1, FS_Surjection
<1>10. Cardinality(before \cup names) <= Cardinality(before) + Cardinality(names)
  <2> HIDE DEF names
  <2>1. Cardinality(before \cup names)
          = Cardinality(before) + Cardinality(names) - Cardinality(before \cap names)
    BY <1>7, <1>9, FS_Union
  <2>2. IsFiniteSet(before \cap names)
    BY <1>7, FS_Subset
  <2> QED BY <1>7, <1>9, <2>1, <2>2, FS_CardinalityType
<1>11. /\ Cardinality(before) \in Nat /\ Cardinality(first) \in Nat
       /\ Cardinality(created) \in Nat /\ Cardinality(names) \in Nat
       /\ Cardinality(before \cup names) \in Nat
  <2>1. IsFiniteSet(before \cup names)
    BY <1>7, <1>9, FS_Union
  <2> HIDE DEF names
  <2> QED BY <1>7, <1>8, <1>9, <2>1, FS_CardinalityType
<1> QED
  <2> HIDE DEF names
  <2>1. Cardinality(before \cup names) <= bound
    BY <1>5, <1>8, <1>9, <1>10, <1>11
  <2>2. after = before \cup names
    BY <1>1 
  <2> QED BY <2>1, <2>2 DEF after

\* A handler that works on a user has one, and one that applies a plan has one:
\* what TypeOK needs to be inductive.
Moves     == Steps \ {"apply"}
UserSteps == Moves \ {"idle", "done", "list", "list_seats", "plan"}
Task      == {r \in Handler : /\ (r.at \in UserSteps => r.user \in Users)
                              /\ (r.at = "apply" => r.plan \in Plans)}
Requests  == [Handlers -> Task]
Stored    == [status : {"planned", "applied"}, rows : PlanTables]

(***************************************************************************)
(* What handlers write.                                                    *)
(***************************************************************************)
LEMMA EmptyListing == <<>> \in Listings
<1>1. <<>> \in [{} -> Candidate]
  OBVIOUS
<1>2. DOMAIN <<>> = {}
  OBVIOUS
<1> QED BY <1>1, <1>2, Listing

LEMMA IdleType == Idle \in Task
<1>1. Idle \in Handler
  BY EmptyListing DEF Idle, Handler, Steps
<1>2. Idle.at \notin UserSteps /\ Idle.at # "apply"
  BY DEF Idle, UserSteps
<1> QED BY <1>1, <1>2 DEF Task

LEMMA HandlerSet ==
  ASSUME req \in Requests, NEW h, NEW next \in Task, req' = [req EXCEPT ![h] = next]
  PROVE  req' \in Requests
BY DEF Requests

LEMMA MoveType ==
  ASSUME req \in Requests, NEW h \in Handlers, NEW step \in Moves,
         step \in UserSteps => req[h].user \in Users
  PROVE  [req[h] EXCEPT !.at = step] \in Task
BY DEF Requests, Task, Handler, Moves

LEMMA GoType ==
  ASSUME req \in Requests, NEW h \in Handlers, NEW step \in Moves,
         step \in UserSteps => req[h].user \in Users, Go(h, step)
  PROVE  req' \in Requests
<1>1. [req[h] EXCEPT !.at = step] \in Task
  BY MoveType
<1>2. req' = [req EXCEPT ![h] = [req[h] EXCEPT !.at = step]]
  BY DEF Go
<1> QED BY <1>1, <1>2, HandlerSet

LEMMA FoundType ==
  ASSUME req \in Requests, NEW h \in Handlers, NEW step \in Moves, NEW found \in Ids \cup {NoId},
         step \in UserSteps => req[h].user \in Users
  PROVE  [req[h] EXCEPT !.at = step, !.found = found] \in Task
BY DEF Requests, Task, Handler, Moves

LEMMA FoundSet ==
  ASSUME req \in Requests, NEW h \in Handlers, NEW step \in Moves, NEW found \in Ids \cup {NoId},
         step \in UserSteps => req[h].user \in Users,
         req' = [req EXCEPT ![h].at = step, ![h].found = found]
  PROVE  req' \in Requests
<1>1. req' = [req EXCEPT ![h] = [req[h] EXCEPT !.at = step, !.found = found]]
  OBVIOUS
<1> QED BY <1>1, FoundType, HandlerSet

LEMMA StopType ==
  ASSUME req \in Requests, NEW h \in Handlers, Stop(h)
  PROVE  req' \in Requests
BY IdleType, HandlerSet DEF Stop

LEMMA EndType ==
  ASSUME req \in Requests, NEW h \in Handlers, End(h)
  PROVE  req' \in Requests
<1>1. CASE Stop(h)
  BY <1>1, StopType
<1>2. CASE req' = [req EXCEPT ![h].at = "done", ![h].found = NoId]
  <2>1. "done" \in Moves /\ "done" \notin UserSteps
    BY DEF Steps, Moves, UserSteps
  <2> QED BY <1>2, <2>1, FoundSet
<1> QED BY <1>1, <1>2 DEF End

LEMMA EndOrGoType ==
  ASSUME req \in Requests, NEW h \in Handlers, NEW next \in Moves,
         next \in UserSteps => req[h].user \in Users, EndOrGo(h, next)
  PROVE  req' \in Requests
BY StopType, EndType, GoType DEF EndOrGo

LEMMA AnsweredType ==
  ASSUME req \in Requests, NEW h \in Handlers, NEW next \in Task, Answered(h, next)
  PROVE  req' \in Requests
BY HandlerSet DEF Answered

LEMMA UpdateType ==
  ASSUME req \in Requests, users \in UserTables, NEW h \in Handlers, NEW row, NEW next \in Moves,
         next \in UserSteps => req[h].user \in Users,
         req[h].user \in DOMAIN users => row \in Row,
         Update(h, row, next)
  PROVE  users' \in UserTables /\ req' \in Requests
<1> DEFINE u == req[h].user
<1>1. CASE u \in DOMAIN users
  <2>1. users' = [users EXCEPT ![u] = row] /\ EndOrGo(h, next)
    BY <1>1 DEF Update
  <2>2. DOMAIN users' = DOMAIN users /\ users' \in [DOMAIN users -> Row]
    BY <1>1, <2>1, UserTable
  <2> QED BY <2>1, <2>2, UserTable, EndOrGoType
<1>2. CASE u \notin DOMAIN users
  BY <1>2, StopType DEF Update
<1> QED BY <1>1, <1>2

LEMMA OnUserType ==
  ASSUME users \in UserTables, NEW h \in Handlers, req[h].user \in DOMAIN users
  PROVE  OnUser(h) \in Row
BY UserTable DEF OnUser

(***************************************************************************)
(* What becomes of the directory.                                          *)
(***************************************************************************)
Directories == {d \in Seq(Entry) : Len(d) <= MaxIds}

LEMMA EntrySet ==
  ASSUME NEW d \in Directories, NEW i, NEW e, i \in DOMAIN d => e \in Entry
  PROVE  [d EXCEPT ![i] = e] \in Directories
<1> DEFINE t == [d EXCEPT ![i] = e]
<1>1. d \in [1..Len(d) -> Entry] /\ Len(d) \in Nat /\ Len(d) <= MaxIds
  BY DEF Directories
<1>2. t \in [1..Len(d) -> Entry]
  BY <1>1
<1>3. t \in Seq(Entry) /\ Len(t) = Len(d)
  BY <1>1, <1>2
<1> QED BY <1>1, <1>3 DEF Directories

LEMMA EntryId ==
  ASSUME dir \in Directories, NEW i \in DOMAIN dir
  PROVE  i \in Ids /\ dir[i] \in Entry
BY ImportAssumption DEF Directories, Ids

LEMMA EntryAdded ==
  ASSUME dir \in Directories, NEW n \in Names, NEW ours \in BOOLEAN, AddEntry(n, ours)
  PROVE  dir' \in Directories /\ Len(dir) + 1 \in Ids
<1> DEFINE e == [name |-> n, active |-> TRUE, live |-> TRUE, ours |-> ours]
<1>1. e \in Entry /\ dir' = Append(dir, e) /\ Len(dir) < MaxIds
  BY DEF Entry, AddEntry
<1>2. dir \in Seq(Entry) /\ Len(dir) \in Nat
  BY DEF Directories
<1>3. dir' \in Seq(Entry) /\ Len(dir') = Len(dir) + 1
  BY <1>1, <1>2
<1> QED BY <1>1, <1>2, <1>3, ImportAssumption DEF Directories, Ids

LEMMA Killed ==
  ASSUME dir \in Directories, NEW i, Kill(i)
  PROVE  dir' \in Directories
<1>1. dir' = [dir EXCEPT ![i] = [dir[i] EXCEPT !.live = FALSE, !.active = FALSE, !.ours = FALSE]]
  BY DEF Kill
<1>2. i \in DOMAIN dir =>
        [dir[i] EXCEPT !.live = FALSE, !.active = FALSE, !.ours = FALSE] \in Entry
  BY EntryId DEF Entry
<1> QED BY <1>1, <1>2, EntrySet

LEMMA NameOfUser ==
  ASSUME NEW u \in Users
  PROVE  Name(u) \in Names
BY SsoAssumption DEF Name, Names

LEMMA PutType ==
  ASSUME dir \in Directories, req \in Requests, NEW h \in Handlers, req[h].user \in Users,
         NEW i \in DOMAIN dir, Put(h, i)
  PROVE  dir' \in Directories /\ req' \in Requests
<1> DEFINE mine == Name(req[h].user)
           entry == [dir[i] EXCEPT !.name = mine, !.active = TRUE]
           next == [req[h] EXCEPT !.at = "bind", !.found = i]
<1>1. CASE Stop(h) /\ UNCHANGED dir
  BY <1>1, StopType
<1>2. CASE dir' = [dir EXCEPT ![i].name = mine, ![i].active = TRUE] /\ Answered(h, next)
  <2>1. dir' = [dir EXCEPT ![i] = entry]
    BY <1>2
  <2>2. entry \in Entry
    BY EntryId, NameOfUser DEF Entry
  <2>3. next \in Task
    <3>1. "bind" \in Moves
      BY DEF Steps, Moves
    <3> QED BY <3>1, EntryId, FoundType
  <2> HIDE DEF entry, next
  <2>4. dir' \in Directories
    BY <2>1, <2>2, EntrySet
  <2>5. req' \in Requests
    BY <1>2, <2>3, AnsweredType
  <2> QED BY <2>4, <2>5
<1> QED BY <1>1, <1>2 DEF Put

(***************************************************************************)
(* Every step keeps the types.                                             *)
(***************************************************************************)
IInv ==
  /\ users \in UserTables
  /\ limit \in Limits
  /\ plans \in [Plans -> {Unused} \cup Stored]
  /\ req \in Requests
  /\ dir \in Directories
  /\ seats \subseteq Users
  /\ quiet \in [Handlers -> BOOLEAN]
  /\ crowded \subseteq Users
  /\ ops \in 0..MaxOps /\ edits \in 0..MaxEdits

LEMMA IInvTypes == IInv => TypeOK
<1>1. req \in Requests => req \in [Handlers -> Handler]
  BY DEF Requests, Task
<1> QED BY <1>1 DEF IInv, TypeOK, Stored, Directories

\* The user of a handler that works on one.
LEMMA WorksOnUser ==
  ASSUME req \in Requests, NEW h \in Handlers, req[h].at \in UserSteps
  PROVE  req[h].user \in Users
<1>1. req[h] \in Task
  BY DEF Requests
<1> QED BY <1>1 DEF Task

LEMMA AnswerTypes ==
  ASSUME req \in Requests, NEW h \in Handlers
  PROVE  req[h].had \in Ids \cup {NoId} /\ req[h].found \in Ids \cup {NoId}
BY DEF Requests, Task, Handler, Moves

LEMMA SyncTypes ==
  ASSUME IInv, NEW h \in Handlers, Sync(h)
  PROVE  IInv'
<1>0. /\ {"replace", "create", "find", "adopt", "bind", "assign"} \subseteq UserSteps
      /\ UserSteps \subseteq Moves /\ "done" \in Moves \ UserSteps
  BY DEF UserSteps, Moves, Steps
<1> USE DEF IInv, local, remote, history
<1>1. CASE Replace(h)
  <2>1. At(h, "replace") /\ req[h].user \in Users
    BY <1>0, <1>1, WorksOnUser DEF Replace, At
  <2>2. CASE Live(req[h].had)
    <3>1. Put(h, req[h].had) /\ req[h].had \in DOMAIN dir
      BY <1>1, <2>2 DEF Replace, Live
    <3>2. dir' \in Directories /\ req' \in Requests
      BY <2>1, <3>1, PutType
    <3> QED BY <1>1, <3>2 DEF Replace
  <2>3. CASE ~Live(req[h].had)
    <3>1. req' \in Requests
      BY <1>0, <1>1, <2>1, <2>3, GoType DEF Replace
    <3> QED BY <1>1, <2>3, <3>1 DEF Replace
  <2> QED BY <2>2, <2>3
<1>2. CASE Create(h)
  <2>1. At(h, "create") /\ req[h].user \in Users
    BY <1>0, <1>2, WorksOnUser DEF Create, At
  <2>2. CASE Named(Name(req[h].user)) # {}
    <3>1. req' \in Requests
      BY <1>0, <1>2, <2>1, <2>2, GoType DEF Create
    <3> QED BY <1>2, <2>2, <3>1 DEF Create
  <2>3. CASE ~(Named(Name(req[h].user)) # {})
    <3>1. /\ AddEntry(Name(req[h].user), TRUE)
          /\ Answered(h, [req[h] EXCEPT !.at = "bind", !.found = Len(dir) + 1])
      BY <1>2, <2>3 DEF Create
    <3>2. dir' \in Directories /\ Len(dir) + 1 \in Ids
      BY <2>1, <3>1, NameOfUser, EntryAdded
    <3>3. [req[h] EXCEPT !.at = "bind", !.found = Len(dir) + 1] \in Task
      BY <1>0, <2>1, <3>2, FoundType
    <3>4. req' \in Requests
      BY <3>1, <3>3, AnsweredType
    <3> QED BY <1>2, <3>2, <3>4 DEF Create
  <2> QED BY <2>2, <2>3
<1>3. CASE Find(h)
  <2>1. At(h, "find") /\ req[h].user \in Users
    BY <1>0, <1>3, WorksOnUser DEF Find, At
  <2>2. CASE Stop(h)
    BY <1>3, <2>2, StopType DEF Find
  <2>3. CASE \E i \in Named(Name(req[h].user)) :
               req' = [req EXCEPT ![h].at = "adopt", ![h].found = i]
    <3>1. PICK i \in Named(Name(req[h].user)) :
                 req' = [req EXCEPT ![h].at = "adopt", ![h].found = i]
      BY <2>3
    <3>2. i \in Ids
      BY EntryId DEF Named
    <3>4. req' \in Requests
      BY <1>0, <2>1, <3>1, <3>2, FoundSet
    <3> QED BY <1>3, <3>4 DEF Find
  <2> QED BY <1>3, <2>2, <2>3 DEF Find
<1>4. CASE Adopt(h)
  <2>1. At(h, "adopt") /\ req[h].user \in Users
    BY <1>0, <1>4, WorksOnUser DEF Adopt, At
  <2>2. CASE Live(req[h].found)
    <3>1. Put(h, req[h].found) /\ req[h].found \in DOMAIN dir
      BY <1>4, <2>2 DEF Adopt, Live
    <3>2. dir' \in Directories /\ req' \in Requests
      BY <2>1, <3>1, PutType
    <3> QED BY <1>4, <3>2 DEF Adopt
  <2>3. CASE ~Live(req[h].found)
    <3>1. req' \in Requests
      BY <1>4, <2>3, StopType DEF Adopt
    <3> QED BY <1>4, <2>3, <3>1 DEF Adopt
  <2> QED BY <2>2, <2>3
<1>5. CASE Bind(h)
  <2> DEFINE row == [OnUser(h) EXCEPT !.id = req[h].found, !.emu = "active"]
             next == IF req[h].op = "sync_emu" THEN "done" ELSE "assign"
  <2>1. req[h].user \in Users
    BY <1>0, <1>5, WorksOnUser DEF Bind, At
  <2>2. req[h].user \in DOMAIN users => row \in Row
    BY OnUserType, AnswerTypes DEF Row, EmuStatuses
  <2>3. Update(h, row, next) /\ next \in Moves
    BY <1>0, <1>5 DEF Bind
  <2> HIDE DEF row, next
  <2>4. users' \in UserTables /\ req' \in Requests
    BY <2>1, <2>2, <2>3, UpdateType
  <2> QED BY <1>5, <2>4 DEF Bind
<1> QED BY <1>1, <1>2, <1>3, <1>4, <1>5 DEF Sync

LEMMA SuspensionTypes ==
  ASSUME IInv, NEW h \in Handlers, Suspension(h)
  PROVE  IInv'
<1>0. {"patch", "patched"} \subseteq UserSteps /\ UserSteps \subseteq Moves /\ "done" \in Moves \ UserSteps
  BY DEF UserSteps, Moves, Steps
<1> USE DEF IInv, local, remote, history
<1>1. CASE Suspend(h)
  <2>1. At(h, "patch") /\ req[h].user \in Users
    BY <1>0, <1>1, WorksOnUser DEF Suspend, At
  <2>2. CASE Live(req[h].had)
    <3> DEFINE i == req[h].had
               entry == [dir[i] EXCEPT !.active = FALSE]
               next == [req[h] EXCEPT !.at = "patched"]
    <3>1. dir' = [dir EXCEPT ![i] = entry] /\ Answered(h, next)
      BY <1>1, <2>2 DEF Suspend
    <3>2. i \in DOMAIN dir => entry \in Entry
      BY EntryId DEF Entry
    <3>3. next \in Task
      BY <1>0, <2>1, MoveType
    <3> HIDE DEF entry, next
    <3>4. dir' \in Directories
      BY <3>1, <3>2, EntrySet
    <3>5. req' \in Requests
      BY <3>1, <3>3, AnsweredType
    <3> QED BY <1>1, <3>4, <3>5 DEF Suspend
  <2>3. CASE ~Live(req[h].had)
    <3>1. req' \in Requests
      BY <1>1, <2>3, StopType DEF Suspend
    <3> QED BY <1>1, <2>3, <3>1 DEF Suspend
  <2> QED BY <2>2, <2>3
<1>2. CASE Suspended(h)
  <2> DEFINE row == [OnUser(h) EXCEPT !.id = req[h].had, !.emu = "suspended"]
  <2>1. req[h].user \in DOMAIN users => row \in Row
    BY OnUserType, AnswerTypes DEF Row, EmuStatuses
  <2>2. Update(h, row, "done")
    BY <1>2 DEF Suspended
  <2> HIDE DEF row
  <2>3. users' \in UserTables /\ req' \in Requests
    BY <1>0, <2>1, <2>2, UpdateType
  <2> QED BY <1>2, <2>3 DEF Suspended
<1> QED BY <1>1, <1>2 DEF Suspension

LEMMA SeatAnswerTypes ==
  ASSUME IInv, NEW h \in Handlers, NEW answer \in UserSteps, NEW seat \in SeatStatuses,
         NEW next \in Moves, SeatAnswer(h, answer, seat, next)
  PROVE  IInv'
<1> DEFINE row == [OnUser(h) EXCEPT !.seat = seat]
<1>1. req[h].user \in Users
  BY WorksOnUser DEF SeatAnswer, At, IInv
<1>2. req[h].user \in DOMAIN users => row \in Row
  BY OnUserType DEF Row, IInv
<1>3. Update(h, row, next)
  BY DEF SeatAnswer
<1> HIDE DEF row
<1>4. users' \in UserTables /\ req' \in Requests
  BY <1>1, <1>2, <1>3, UpdateType DEF IInv
<1> QED BY <1>4 DEF SeatAnswer, IInv, remote, history

LEMMA SeatTypes ==
  ASSUME IInv, NEW h \in Handlers, Seat(h)
  PROVE  IInv'
<1>0. /\ {"assign", "assigned", "assign_failed", "unseat", "unseated", "unseat_failed", "drop", "lookup"}
           \subseteq UserSteps
      /\ UserSteps \subseteq Moves /\ {"done", "idle"} \subseteq Moves
      /\ {"assigned", "assign_failed", "unassigned", "remove_failed"} \subseteq SeatStatuses
  BY DEF UserSteps, Moves, Steps, SeatStatuses
<1>1. CASE Assign(h)
  <2>1. req[h].user \in Users
    BY <1>0, <1>1, WorksOnUser DEF Assign, At, IInv
  <2>2. seats' \subseteq Users
    BY <1>1, <2>1 DEF Assign, IInv
  <2>3. Go(h, "assign_failed") \/ Go(h, "assigned")
    BY <1>1 DEF Assign
  <2>4. req' \in Requests
    BY <1>0, <2>1, <2>3, GoType DEF IInv
  <2> QED BY <1>1, <2>2, <2>4 DEF Assign, IInv, local, history
<1>2. CASE Unseat(h)
  <2>1. req[h].user \in Users
    BY <1>0, <1>2, WorksOnUser DEF Unseat, At, IInv
  <2>2. seats' \subseteq Users
    BY <1>2 DEF Unseat, IInv
  <2>3. Go(h, "unseat_failed") \/ Go(h, "unseated")
    BY <1>2 DEF Unseat
  <2>4. req' \in Requests
    BY <1>0, <2>1, <2>3, GoType DEF IInv
  <2> QED BY <1>2, <2>2, <2>4 DEF Unseat, IInv, local, history
<1>3. CASE Assigned(h)
  BY <1>0, <1>3, SeatAnswerTypes DEF Assigned
<1>4. CASE AssignFailed(h)
  BY <1>0, <1>4, SeatAnswerTypes DEF AssignFailed
<1>5. CASE Unseated(h)
  <2>1. AfterUnseat(req[h].op, req[h].had) \in Moves
    BY <1>0 DEF AfterUnseat
  <2> QED BY <1>0, <1>5, <2>1, SeatAnswerTypes DEF Unseated
<1>6. CASE UnseatFailed(h)
  BY <1>0, <1>6, SeatAnswerTypes DEF UnseatFailed
<1> QED BY <1>1, <1>2, <1>3, <1>4, <1>5, <1>6 DEF Seat

\* A deletion of an entry that goes on, or is repeated.
LEMMA KillTypes ==
  ASSUME IInv, NEW h \in Handlers, req[h].at \in UserSteps, NEW i, NEW next \in Moves,
         Kill(i), Answered(h, [req[h] EXCEPT !.at = next]), UNCHANGED <<local, seats, history>>
  PROVE  IInv'
<1>1. req[h].user \in Users
  BY WorksOnUser DEF IInv
<1>2. [req[h] EXCEPT !.at = next] \in Task
  BY <1>1, MoveType DEF IInv
<1>3. req' \in Requests
  BY <1>2, AnsweredType DEF IInv
<1>4. dir' \in Directories
  BY Killed DEF IInv
<1> QED BY <1>3, <1>4 DEF IInv, local, history

LEMMA DeleteTypes ==
  ASSUME IInv, NEW h \in Handlers, Delete(h)
  PROVE  IInv'
<1>0. /\ {"drop", "lookup", "drop_found", "unbind", "proxy", "erase"} \subseteq UserSteps
      /\ UserSteps \subseteq Moves /\ "done" \in Moves \ UserSteps
  BY DEF UserSteps, Moves, Steps
<1>a. AfterDrop(req[h].op) \in Moves
  BY <1>0 DEF AfterDrop
<1>1. CASE Drop(h)
  <2>1. req[h].at \in UserSteps
    BY <1>0, <1>1 DEF Drop, At
  <2> QED BY <1>0, <1>1, <2>1, KillTypes DEF Drop
<1>2. CASE Lookup(h)
  <2>1. req[h].user \in Users
    BY <1>0, <1>2, WorksOnUser DEF Lookup, At, IInv
  <2>2. CASE Go(h, AfterDrop(req[h].op))
    <3>1. req' \in Requests
      BY <1>a, <2>1, <2>2, GoType DEF IInv
    <3> QED BY <1>2, <3>1 DEF Lookup, IInv, local, remote, history
  <2>3. CASE \E i \in Named(Name(req[h].user)) :
               req' = [req EXCEPT ![h].at = "drop_found", ![h].found = i]
    <3>1. PICK i \in Named(Name(req[h].user)) :
                 req' = [req EXCEPT ![h].at = "drop_found", ![h].found = i]
      BY <2>3
    <3>2. i \in Ids
      BY EntryId DEF Named, IInv
    <3>3. req' \in Requests
      BY <1>0, <2>1, <3>1, <3>2, FoundSet DEF IInv
    <3> QED BY <1>2, <3>3 DEF Lookup, IInv, local, remote, history
  <2> QED BY <1>2, <2>2, <2>3 DEF Lookup
<1>3. CASE DropFound(h)
  <2>1. req[h].at \in UserSteps
    BY <1>0, <1>3 DEF DropFound, At
  <2> QED BY <1>a, <1>3, <2>1, KillTypes DEF DropFound
<1>4. CASE Unbind(h)
  <2> DEFINE row == [OnUser(h) EXCEPT !.id = NoId, !.emu = "not_synced"]
  <2>1. req[h].user \in DOMAIN users => row \in Row
    BY OnUserType DEF Row, EmuStatuses, IInv
  <2>2. Update(h, row, "done")
    BY <1>4 DEF Unbind
  <2> HIDE DEF row
  <2>3. users' \in UserTables /\ req' \in Requests
    BY <1>0, <2>1, <2>2, UpdateType DEF IInv
  <2> QED BY <1>4, <2>3 DEF Unbind, IInv, remote, history
<1>5. CASE ProxyDeletes(h)
  <2>1. req[h].user \in Users
    BY <1>0, <1>5, WorksOnUser DEF ProxyDeletes, At, IInv
  <2>2. req' \in Requests
    BY <1>0, <1>5, <2>1, GoType DEF ProxyDeletes, IInv
  <2> QED BY <1>5, <2>2 DEF ProxyDeletes, IInv, local, remote, history
<1>6. CASE Erase(h)
  <2>1. CASE req[h].user \in DOMAIN users
    <3> DEFINE kept == DOMAIN users \ {req[h].user}
    <3>1. users' = [v \in kept |-> users[v]] /\ End(h)
      BY <1>6, <2>1 DEF Erase
    <3>2. users' \in UserTables
      <4>1. DOMAIN users \subseteq Users /\ users \in [DOMAIN users -> Row]
        BY UserTable DEF IInv
      <4>2. DOMAIN users' = kept /\ users' \in [kept -> Row]
        BY <3>1, <4>1
      <4> QED BY <4>1, <4>2, UserTable
    <3>3. req' \in Requests
      BY <3>1, EndType DEF IInv
    <3> QED BY <1>6, <3>2, <3>3 DEF Erase, IInv, remote, history
  <2>2. CASE req[h].user \notin DOMAIN users
    <3>1. req' \in Requests
      BY <1>6, <2>2, StopType DEF Erase, IInv
    <3> QED BY <1>6, <2>2, <3>1 DEF Erase, IInv, remote, history
  <2> QED BY <2>1, <2>2
<1> QED BY <1>1, <1>2, <1>3, <1>4, <1>5, <1>6 DEF Delete

\* The listing grows into a plan.
LEMMA ListType ==
  ASSUME req \in Requests, dir \in Directories, NEW h \in Handlers, NEW found \in SUBSET DOMAIN dir
  PROVE  [i \in found |->
            [user |-> dir[i].name.user, emu |-> IF dir[i].active THEN "active" ELSE "suspended",
             seat |-> "unassigned"]] \in Listings
<1> DEFINE c(i) == [user |-> dir[i].name.user,
                    emu  |-> IF dir[i].active THEN "active" ELSE "suspended",
                    seat |-> "unassigned"]
           list == [i \in found |-> c(i)]
<1>1. \A i \in found : c(i) \in Candidate /\ i \in Ids
  BY EntryId DEF Entry, Names, Candidate
<1>2. DOMAIN list \subseteq Ids /\ list \in [DOMAIN list -> Candidate]
  BY <1>1
<1> QED BY <1>2, Listing

LEMMA SeatListType ==
  ASSUME NEW list \in Listings
  PROVE  [i \in DOMAIN list |->
            [list[i] EXCEPT !.seat = IF list[i].user \in seats THEN "assigned" ELSE "unassigned"]]
           \in Listings
<1> DEFINE c(i) == [list[i] EXCEPT !.seat = IF list[i].user \in seats THEN "assigned" ELSE "unassigned"]
           next == [i \in DOMAIN list |-> c(i)]
<1>1. \A i \in DOMAIN list : c(i) \in Candidate /\ i \in Ids
  BY Listing DEF Candidate
<1>2. DOMAIN next \subseteq Ids /\ next \in [DOMAIN next -> Candidate]
  BY <1>1
<1> QED BY <1>2, Listing

LEMMA ApplyTypes ==
  ASSUME IInv, NEW p \in Plans, Apply(p)
  PROVE  /\ users' \in UserTables
         /\ plans' \in [Plans -> {Unused} \cup Stored]
         /\ quiet' \in [Handlers -> BOOLEAN]
<1> DEFINE rows == plans[p].rows
           after == [status |-> "applied", rows |-> Applied(users, rows, limit)]
<1>1. rows \in PlanTables
  BY DEF IInv, Apply, Stored
<1>2. users' \in UserTables
  BY <1>1, UsersAfterType DEF IInv, Apply
<1>3. Applied(users, rows, limit) \in PlanTables
  BY <1>1, AppliedType
<1>4. after \in Stored
  BY <1>3 DEF Stored
<1>5. plans' = [plans EXCEPT ![p] = after]
  BY DEF Apply
<1> HIDE DEF rows, after
<1>6. plans' \in [Plans -> {Unused} \cup Stored]
  BY <1>4, <1>5 DEF IInv
<1>7. quiet' \in [Handlers -> BOOLEAN]
  BY DEF Apply
<1> QED BY <1>2, <1>6, <1>7

LEMMA ImportTypes ==
  ASSUME IInv, NEW h \in Handlers, Import(h)
  PROVE  IInv'
<1>0. {"plan", "list_seats"} \subseteq Moves \ UserSteps /\ "apply" \in Steps \ UserSteps
  BY DEF UserSteps, Moves, Steps
<1>1. CASE List(h)
  <2> DEFINE found == {i \in DOMAIN dir : Live(i) /\ req[h].target \in {Everyone, dir[i].name}}
             list == [i \in found |->
               [user |-> dir[i].name.user, emu |-> IF dir[i].active THEN "active" ELSE "suspended",
                seat |-> "unassigned"]]
             step == IF found = {} THEN "plan" ELSE "list_seats"
             next == [req[h] EXCEPT !.at = step, !.list = list]
  <2>1. list \in Listings
    BY ListType DEF IInv
  <2>2. step \in Moves \ UserSteps
    BY <1>0
  <2>3. req' = [req EXCEPT ![h] = next]
    BY <1>1 DEF List
  <2> HIDE DEF list, step
  <2>4. next \in Task
    BY <2>1, <2>2 DEF IInv, Requests, Task, Handler, Moves
  <2> HIDE DEF next
  <2>5. req' \in Requests
    BY <2>3, <2>4, HandlerSet DEF IInv
  <2> QED BY <1>1, <2>5 DEF List, IInv, local, remote, history
<1>2. CASE ListSeats(h)
  <2> DEFINE old == req[h].list
             list == [i \in DOMAIN old |->
               [old[i] EXCEPT !.seat = IF old[i].user \in seats THEN "assigned" ELSE "unassigned"]]
             next == [req[h] EXCEPT !.at = "plan", !.list = list]
  <2>1. old \in Listings
    BY DEF IInv, Requests, Task, Handler, Moves
  <2>2. list \in Listings
    BY <2>1, SeatListType
  <2>3. req' = [req EXCEPT ![h] = next]
    BY <1>2 DEF ListSeats
  <2> HIDE DEF list
  <2>4. next \in Task
    BY <1>0, <2>2 DEF IInv, Requests, Task, Handler, Moves
  <2> HIDE DEF next
  <2>5. req' \in Requests
    BY <2>3, <2>4, HandlerSet DEF IInv
  <2> QED BY <1>2, <2>5 DEF ListSeats, IInv, local, remote, history
<1>3. CASE StorePlan(h)
  <2>1. PICK p \in Plans, differs \in SUBSET DOMAIN req[h].list :
          /\ plans' = [plans EXCEPT ![p] = [status |-> "planned",
                                            rows |-> BuildPlan(req[h].list, users, differs)]]
          /\ \/ req' = [req EXCEPT ![h] = [Idle EXCEPT !.at = "apply", !.op = "import", !.plan = p]]
             \/ Stop(h)
    BY <1>3 DEF StorePlan
  <2> DEFINE new == [status |-> "planned", rows |-> BuildPlan(req[h].list, users, differs)]
             next == [Idle EXCEPT !.at = "apply", !.op = "import", !.plan = p]
  <2>2. req[h].list \in Listings
    BY DEF IInv, Requests, Task, Handler, Moves
  <2>3. new \in Stored
    BY <2>2, BuildPlanType DEF Stored
  <2>4. plans' = [plans EXCEPT ![p] = new]
    BY <2>1
  <2>5. next \in Task
    BY <1>0, IdleType DEF Task, Handler, ImportOps
  <2>6. req' = [req EXCEPT ![h] = next] \/ Stop(h)
    BY <2>1
  <2> HIDE DEF new, next
  <2>7. plans' \in [Plans -> {Unused} \cup Stored]
    BY <2>3, <2>4 DEF IInv
  <2>8. req' \in Requests
    BY <2>5, <2>6, HandlerSet, StopType DEF IInv
  <2> QED BY <1>3, <2>7, <2>8 DEF StorePlan, IInv, remote, history
<1>4. CASE ApplyOwn(h)
  <2>1. req' \in Requests
    BY <1>4, StopType DEF ApplyOwn, IInv
  <2>2. CASE plans[req[h].plan] = Unused
    BY <1>4, <2>1, <2>2 DEF ApplyOwn, IInv, remote
  <2>3. CASE plans[req[h].plan] # Unused
    <3>1. req[h].plan \in Plans
      BY <1>4, <1>0, <2>3 DEF ApplyOwn, IInv, Requests, Task, Handler, At
    <3>2. Apply(req[h].plan)
      BY <1>4, <2>3 DEF ApplyOwn
    <3>3. /\ users' \in UserTables
          /\ plans' \in [Plans -> {Unused} \cup Stored]
          /\ quiet' \in [Handlers -> BOOLEAN]
      BY <3>1, <3>2, ApplyTypes
    <3> QED BY <1>4, <2>1, <3>3 DEF ApplyOwn, IInv, remote
  <2> QED BY <2>2, <2>3
<1> QED BY <1>1, <1>2, <1>3, <1>4 DEF Import

LEMMA BeginTypes ==
  ASSUME IInv, NEW h \in Handlers, NEW next \in Task, Begin(h, next)
  PROVE  /\ req' \in Requests /\ quiet' \in [Handlers -> BOOLEAN]
         /\ crowded' \subseteq Users /\ ops' \in 0..MaxOps /\ edits' \in 0..MaxEdits
<1>1. req' \in Requests
  BY HandlerSet DEF Begin, IInv
<1>2. quiet' \in [Handlers -> BOOLEAN]
  BY DEF Begin
<1>3. crowded' \subseteq Users
  BY DEF Begin, IInv, Task, Handler
<1>4. ops' \in 0..MaxOps /\ edits' \in 0..MaxEdits
  BY SsoAssumption DEF Begin, IInv
<1> QED BY <1>1, <1>2, <1>3, <1>4

LEMMA StartTypes ==
  ASSUME IInv, NEW h \in Handlers, NEW op \in UserOps, NEW u \in Users, Start(h, op, u)
  PROVE  IInv'
<1> DEFINE id == users[u].id
           step == FirstStep(op, id)
           next == IF step = "idle" THEN Idle
                   ELSE [Idle EXCEPT !.at = step, !.op = op, !.user = u, !.had = id]
           seat == IF op = "assign_copilot" THEN "assign_failed" ELSE "unassigned"
<1>1. DOMAIN users \subseteq Users /\ users \in [DOMAIN users -> Row] /\ u \in DOMAIN users
  BY UserTable DEF IInv, Start
<1>2. step \in Moves
  BY DEF FirstStep, AfterUnseat, Moves, Steps, UserOps, Unseating, Syncs
<1>3. id \in Ids \cup {NoId}
  BY <1>1 DEF Row
<1> HIDE DEF step, id
<1>4. next \in Task
  <2>1. Idle \in Handler
    BY IdleType DEF Task
  <2>2. [Idle EXCEPT !.at = step, !.op = op, !.user = u, !.had = id] \in Handler
    BY <1>2, <1>3, <2>1 DEF Handler, Moves
  <2>3. [Idle EXCEPT !.at = step, !.op = op, !.user = u, !.had = id] \in Task
    <3> DEFINE other == [Idle EXCEPT !.at = step, !.op = op, !.user = u, !.had = id]
    <3>1. other.at = step /\ other.user = u
      BY DEF Idle
    <3> QED BY <1>2, <2>2, <3>1 DEF Task, Moves
  <2> QED BY <2>3, IdleType
<1>5. Begin(h, next)
  BY DEF Start, step, id
<1>6. users' \in UserTables
  <2>1. users' = users \/ users' = [users EXCEPT ![u] = [users[u] EXCEPT !.seat = seat]]
    BY DEF Start
  <2>2. [users[u] EXCEPT !.seat = seat] \in Row
    BY <1>1 DEF Row, SeatStatuses
  <2>3. DOMAIN users' = DOMAIN users /\ users' \in [DOMAIN users -> Row]
    BY <1>1, <2>1, <2>2
  <2> QED BY <1>1, <2>3, UserTable
<1> HIDE DEF next
<1>7. /\ req' \in Requests /\ quiet' \in [Handlers -> BOOLEAN]
      /\ crowded' \subseteq Users /\ ops' \in 0..MaxOps /\ edits' \in 0..MaxEdits
  BY <1>4, <1>5, BeginTypes
<1> QED BY <1>6, <1>7 DEF Start, IInv, remote

LEMMA StartImportTypes ==
  ASSUME IInv, NEW h \in Handlers, NEW op \in ImportOps, NEW n \in Names \cup {Everyone},
         StartImport(h, op, n)
  PROVE  IInv'
<1> DEFINE next == [Idle EXCEPT !.at = "list", !.op = op, !.target = n]
<1>1. next \in Task
  <2>1. "list" \in Moves \ UserSteps
    BY DEF UserSteps, Moves, Steps
  <2> QED BY <2>1, IdleType DEF Task, Handler, Moves
<1>2. Begin(h, next)
  BY DEF StartImport
<1> HIDE DEF next
<1>3. /\ req' \in Requests /\ quiet' \in [Handlers -> BOOLEAN]
      /\ crowded' \subseteq Users /\ ops' \in 0..MaxOps /\ edits' \in 0..MaxEdits
  BY <1>1, <1>2, BeginTypes
<1> QED BY <1>3 DEF StartImport, IInv, local, remote

LEMMA GiveUpTypes ==
  ASSUME IInv, NEW h \in Handlers, GiveUp(h)
  PROVE  IInv'
<1>1. req' \in Requests
  BY StopType DEF GiveUp, IInv
<1> QED BY <1>1 DEF GiveUp, IInv, local, remote, history

LEMMA EditTypes ==
  ASSUME IInv, Edit
  PROVE  edits' \in 0..MaxEdits
BY SsoAssumption DEF IInv, Edit

LEMMA OperatorTypes ==
  ASSUME IInv, Operator
  PROVE  IInv'
<1>1. ASSUME NEW p \in Plans, ApplyPlan(p) PROVE IInv'
  <2>1. edits' \in 0..MaxEdits
    BY <1>1, EditTypes DEF ApplyPlan
  <2>2. /\ users' \in UserTables
        /\ plans' \in [Plans -> {Unused} \cup Stored]
        /\ quiet' \in [Handlers -> BOOLEAN]
    BY <1>1, ApplyTypes DEF ApplyPlan
  <2> QED BY <1>1, <2>1, <2>2 DEF ApplyPlan, Edit, IInv, remote
<1>2. ASSUME NEW p \in Plans, DeletePlan(p) PROVE IInv'
  <2>1. edits' \in 0..MaxEdits
    BY <1>2, EditTypes DEF DeletePlan
  <2>2. plans' \in [Plans -> {Unused} \cup Stored]
    BY <1>2 DEF DeletePlan, IInv
  <2> QED BY <1>2, <2>1, <2>2 DEF DeletePlan, Edit, IInv, remote
<1>3. ASSUME NEW u \in Users, CreateUser(u) PROVE IInv'
  <2> DEFINE after == DOMAIN users \cup {u}
  <2>1. edits' \in 0..MaxEdits /\ quiet' \in [Handlers -> BOOLEAN]
    BY <1>3, EditTypes DEF CreateUser, Disturb
  <2>2. DOMAIN users \subseteq Users /\ users \in [DOMAIN users -> Row]
    BY UserTable DEF IInv
  <2>3. NewRow \in Row
    BY DEF NewRow, Row, EmuStatuses, SeatStatuses
  <2>4. users' = [v \in after |-> IF v = u THEN NewRow ELSE users[v]]
    BY <1>3 DEF CreateUser
  <2>5. DOMAIN users' = after /\ users' \in [after -> Row]
    BY <2>2, <2>3, <2>4
  <2>6. users' \in UserTables
    BY <2>2, <2>5, UserTable
  <2> QED BY <1>3, <2>1, <2>6 DEF CreateUser, Edit, IInv, remote
<1>4. ASSUME NEW l \in Limits, SetLimit(l) PROVE IInv'
  <2>1. edits' \in 0..MaxEdits
    BY <1>4, EditTypes DEF SetLimit
  <2> QED BY <1>4, <2>1 DEF SetLimit, Edit, IInv, remote
<1> QED BY <1>1, <1>2, <1>3, <1>4 DEF Operator

LEMMA AdministratorTypes ==
  ASSUME IInv, Administrator
  PROVE  IInv'
<1>1. ASSUME Administer, dir' \in Directories PROVE IInv'
  <2>1. edits' \in 0..MaxEdits /\ quiet' \in [Handlers -> BOOLEAN]
    BY <1>1, EditTypes DEF Administer, Disturb
  <2> QED BY <1>1, <2>1 DEF Administer, Edit, IInv, local
<1>2. ASSUME NEW n \in Names, AdminCreates(n) PROVE IInv'
  BY <1>1, <1>2, EntryAdded DEF AdminCreates, IInv
<1>3. ASSUME NEW i \in DOMAIN dir, AdminDeletes(i) PROVE IInv'
  BY <1>1, <1>3, Killed DEF AdminDeletes, IInv
<1>4. ASSUME NEW i \in DOMAIN dir, AdminSuspends(i) PROVE IInv'
  <2> DEFINE entry == [dir[i] EXCEPT !.active = ~@]
  <2>1. dir' = [dir EXCEPT ![i] = entry]
    BY <1>4 DEF AdminSuspends
  <2>2. entry \in Entry
    BY EntryId DEF IInv, Entry
  <2> HIDE DEF entry
  <2>3. dir' \in Directories
    BY <2>1, <2>2, EntrySet DEF IInv
  <2> QED BY <1>1, <1>4, <2>3 DEF AdminSuspends
<1>5. ASSUME NEW i \in DOMAIN dir, NEW n \in Names, AdminRenames(i, n) PROVE IInv'
  <2> DEFINE entry == [dir[i] EXCEPT !.name = n, !.ours = FALSE]
  <2>1. dir' = [dir EXCEPT ![i] = entry]
    BY <1>5 DEF AdminRenames
  <2>2. entry \in Entry
    BY EntryId DEF IInv, Entry
  <2> HIDE DEF entry
  <2>3. dir' \in Directories
    BY <2>1, <2>2, EntrySet DEF IInv
  <2> QED BY <1>1, <1>5, <2>3 DEF AdminRenames
<1> QED BY <1>2, <1>3, <1>4, <1>5 DEF Administrator

LEMMA InitTypes == Init => IInv
<1> SUFFICES ASSUME Init PROVE IInv
  OBVIOUS
<1>1. PICK known \in SUBSET Users, synced \in SUBSET Users, n \in 0..MaxIds :
        /\ synced \subseteq known /\ synced = 1..n
        /\ users = [u \in known |-> IF u \in synced THEN [NewRow EXCEPT !.id = u, !.emu = "active"]
                                                    ELSE NewRow]
        /\ dir = [i \in 1..n |-> [name |-> Name(i), active |-> TRUE, live |-> TRUE, ours |-> TRUE]]
  BY DEF Init
<1>a. n \in Nat /\ n <= MaxIds
  BY ImportAssumption
<1>2. users \in UserTables
  <2>1. synced \subseteq Ids
    <3>1. synced = 1..n
      BY <1>1
    <3> QED BY <3>1, <1>a, ImportAssumption DEF Ids
  <2>2. ASSUME NEW u \in known
        PROVE  (IF u \in synced THEN [NewRow EXCEPT !.id = u, !.emu = "active"] ELSE NewRow) \in Row
    BY <2>1 DEF NewRow, Row, EmuStatuses, SeatStatuses
  <2>3. DOMAIN users = known /\ users \in [known -> Row]
    BY <1>1, <2>2
  <2> QED BY <2>3, UserTable
<1>3. dir \in Directories
  <2>2. ASSUME NEW i \in 1..n
        PROVE  [name |-> Name(i), active |-> TRUE, live |-> TRUE, ours |-> TRUE] \in Entry
    BY <1>1, NameOfUser DEF Entry
  <2>3. dir \in [1..n -> Entry]
    BY <1>1, <2>2
  <2>4. dir \in Seq(Entry) /\ Len(dir) = n
    BY <1>a, <2>3
  <2> QED BY <1>a, <2>4 DEF Directories
<1>4. req \in Requests
  BY IdleType DEF Init, Requests
<1>5. ops \in 0..MaxOps /\ edits \in 0..MaxEdits
  <2>1. ops = 0 /\ edits = 0
    BY DEF Init
  <2> QED BY <2>1, SsoAssumption
<1> QED BY <1>2, <1>3, <1>4, <1>5 DEF Init, IInv

LEMMA StepTypes == IInv /\ [Next]_vars => IInv'
<1> SUFFICES ASSUME IInv, [Next]_vars PROVE IInv'
  OBVIOUS
<1>1. ASSUME NEW h \in Handlers, NEW op \in UserOps, NEW u \in Users, Start(h, op, u) PROVE IInv'
  BY <1>1, StartTypes
<1>2. ASSUME NEW h \in Handlers, NEW op \in ImportOps, NEW n \in Names \cup {Everyone},
             StartImport(h, op, n)
      PROVE  IInv'
  BY <1>2, StartImportTypes
<1>3. ASSUME NEW h \in Handlers, Continue(h) PROVE IInv'
  BY <1>3, SyncTypes, SuspensionTypes, SeatTypes, DeleteTypes, ImportTypes, GiveUpTypes DEF Continue
<1>4. CASE Operator
  BY <1>4, OperatorTypes
<1>5. CASE Administrator
  BY <1>5, AdministratorTypes
<1>6. CASE UNCHANGED vars
  BY <1>6 DEF IInv, vars, local, remote, history
<1> QED BY <1>1, <1>2, <1>3, <1>4, <1>5, <1>6 DEF Next

LEMMA Inductive == Spec => []IInv
BY InitTypes, StepTypes, PTL DEF Spec

\* Every state has its type: an answer, a plan or an entry that is used is one
\* there is, also where it was read before a request and is used after it.
THEOREM TypeCorrect == Spec => []TypeOK
BY Inductive, IInvTypes, PTL

(***************************************************************************)
(* Which steps touch plans, and which add users.                           *)
(***************************************************************************)
Stores(p) ==
  /\ plans[p] = Unused /\ UNCHANGED users
  /\ \E rows : plans' = [plans EXCEPT ![p] = [status |-> "planned", rows |-> rows]]

LEMMA OwnPlan ==
  ASSUME IInv, NEW h \in Handlers, ApplyOwn(h)
  PROVE  UNCHANGED <<users, plans>> \/ \E p \in Plans : Apply(p) /\ UNCHANGED limit
<1>1. CASE plans[req[h].plan] = Unused
  BY <1>1 DEF ApplyOwn
<1>2. CASE plans[req[h].plan] # Unused
  <2>1. req[h] \in Task /\ req[h].at = "apply"
    BY DEF IInv, Requests, ApplyOwn, At
  <2>2. req[h].plan \in Plans
    BY <2>1 DEF Task
  <2> QED BY <1>2, <2>2 DEF ApplyOwn
<1> QED BY <1>1, <1>2

LEMMA PlanSteps ==
  ASSUME IInv, [Next]_vars
  PROVE  \/ UNCHANGED plans
         \/ \E p \in Plans : Apply(p) /\ UNCHANGED limit
         \/ \E p \in Plans : Stores(p)
         \/ \E p \in Plans : plans' = [plans EXCEPT ![p] = Unused] /\ UNCHANGED users
<1>1. ASSUME NEW h \in Handlers, Continue(h)
      PROVE  \/ UNCHANGED plans
             \/ \E p \in Plans : Apply(p) /\ UNCHANGED limit
             \/ \E p \in Plans : Stores(p)
  <2>1. CASE Sync(h)
    BY <2>1 DEF Sync, Replace, Create, Find, Adopt, Bind, local
  <2>2. CASE Suspension(h) \/ Seat(h)
    BY <2>2 DEF Suspension, Suspend, Suspended, Seat, Assign, Unseat, Assigned, AssignFailed,
                Unseated, UnseatFailed, SeatAnswer, local
  <2>3. CASE Delete(h)
    BY <2>3 DEF Delete, Drop, Lookup, DropFound, Unbind, ProxyDeletes, Erase, local
  <2>4. CASE List(h) \/ ListSeats(h) \/ GiveUp(h)
    BY <2>4 DEF List, ListSeats, GiveUp, local
  <2>5. CASE StorePlan(h)
    BY <2>5 DEF StorePlan, Stores
  <2>6. CASE ApplyOwn(h)
    BY <2>6, OwnPlan
  <2> QED BY <1>1, <2>1, <2>2, <2>3, <2>4, <2>5, <2>6 DEF Continue, Import
<1>2. ASSUME Operator
      PROVE  \/ UNCHANGED plans
             \/ \E p \in Plans : Apply(p) /\ UNCHANGED limit
             \/ \E p \in Plans : plans' = [plans EXCEPT ![p] = Unused] /\ UNCHANGED users
  BY <1>2 DEF Operator, ApplyPlan, DeletePlan, CreateUser, SetLimit
<1>3. CASE Administrator
  BY <1>3 DEF Administrator, AdminCreates, AdminDeletes, AdminSuspends, AdminRenames, Administer, local
<1>4. ASSUME NEW h \in Handlers, NEW op \in UserOps, NEW u \in Users, Start(h, op, u)
      PROVE  UNCHANGED plans
  BY <1>4 DEF Start
<1>5. ASSUME NEW h \in Handlers, NEW op \in ImportOps, NEW n \in Names \cup {Everyone},
             StartImport(h, op, n)
      PROVE  UNCHANGED plans
  BY <1>5 DEF StartImport, local
<1>6. CASE UNCHANGED vars
  BY <1>6 DEF vars, local
<1> QED BY <1>1, <1>2, <1>3, <1>4, <1>5, <1>6 DEF Next

LEMMA UpdateAddsNobody ==
  ASSUME users \in UserTables, NEW h, NEW row, NEW next, Update(h, row, next)
  PROVE  DOMAIN users' = DOMAIN users
BY UserTable DEF Update

LEMMA AddingSteps ==
  ASSUME IInv, [Next]_vars
  PROVE  \/ DOMAIN users' \subseteq DOMAIN users
         \/ \E u \in Users : CreateUser(u)
         \/ \E p \in Plans : Apply(p) /\ UNCHANGED limit
<1>1. ASSUME NEW h \in Handlers, Continue(h)
      PROVE  \/ DOMAIN users' \subseteq DOMAIN users
             \/ UNCHANGED users
             \/ StorePlan(h) \/ ApplyOwn(h)
  <2>1. CASE Bind(h) \/ Suspended(h) \/ Assigned(h) \/ AssignFailed(h) \/ Unseated(h)
             \/ UnseatFailed(h) \/ Unbind(h)
    BY <2>1, UpdateAddsNobody
       DEF Bind, Suspended, Assigned, AssignFailed, Unseated, UnseatFailed, SeatAnswer, Unbind, IInv
  <2>2. CASE Replace(h) \/ Create(h) \/ Find(h) \/ Adopt(h) \/ Suspend(h)
    BY <2>2 DEF Replace, Create, Find, Adopt, Suspend, local
  <2>3. CASE Assign(h) \/ Unseat(h) \/ Drop(h) \/ Lookup(h) \/ DropFound(h) \/ ProxyDeletes(h)
    BY <2>3 DEF Assign, Unseat, Drop, Lookup, DropFound, ProxyDeletes, local
  <2>4. CASE Erase(h)
    BY <2>4 DEF Erase
  <2>5. CASE List(h) \/ ListSeats(h) \/ GiveUp(h)
    BY <2>5 DEF List, ListSeats, GiveUp, local
  <2> QED BY <1>1, <2>1, <2>2, <2>3, <2>4, <2>5
          DEF Continue, Sync, Suspension, Seat, Delete, Import
<1>2. ASSUME NEW h \in Handlers, NEW op \in UserOps, NEW u \in Users, Start(h, op, u)
      PROVE  DOMAIN users' \subseteq DOMAIN users
  BY <1>2, UserTable DEF Start, IInv
<1>3. ASSUME NEW h \in Handlers, NEW op \in ImportOps, NEW n \in Names \cup {Everyone},
             StartImport(h, op, n)
      PROVE  UNCHANGED users
  BY <1>3 DEF StartImport, local
<1>4. ASSUME NEW h \in Handlers, StorePlan(h) PROVE UNCHANGED users
  BY <1>4 DEF StorePlan
<1>5. ASSUME NEW h \in Handlers, ApplyOwn(h)
      PROVE  UNCHANGED users \/ \E p \in Plans : Apply(p) /\ UNCHANGED limit
  BY <1>5, OwnPlan
<1>6. ASSUME Operator
      PROVE  \/ UNCHANGED users
             \/ \E u \in Users : CreateUser(u)
             \/ \E p \in Plans : Apply(p) /\ UNCHANGED limit
  BY <1>6 DEF Operator, ApplyPlan, DeletePlan, SetLimit
<1>7. CASE Administrator
  BY <1>7 DEF Administrator, AdminCreates, AdminDeletes, AdminSuspends, AdminRenames, Administer, local
<1>8. CASE UNCHANGED vars
  BY <1>8 DEF vars, local
<1> QED BY <1>1, <1>2, <1>3, <1>4, <1>5, <1>6, <1>7, <1>8 DEF Next

(***************************************************************************)
(* A plan that was applied has no pending rows left.                       *)
(***************************************************************************)
Finished == \A p \in Plans : plans[p].status = "applied" => Pending(plans[p].rows) = {}

LEMMA StaysFinished == IInv /\ Finished /\ [Next]_vars => Finished'
<1> SUFFICES ASSUME IInv, Finished, [Next]_vars PROVE Finished'
  OBVIOUS
<1>1. plans \in [Plans -> {Unused} \cup Stored]
  BY DEF IInv
<1>2. CASE UNCHANGED plans
  BY <1>2 DEF Finished
<1>3. ASSUME NEW p \in Plans, Apply(p) PROVE Finished'
  <2> DEFINE rows == Applied(users, plans[p].rows, limit)
  <2>1. plans' = [plans EXCEPT ![p] = [status |-> "applied", rows |-> rows]]
    BY <1>3 DEF Apply
  <2>2. Pending(rows) = {}
    BY <1>1, <1>3, AppliedType DEF Apply, Stored
  <2> HIDE DEF rows
  <2> QED BY <1>1, <2>1, <2>2 DEF Finished
<1>4. ASSUME NEW p \in Plans, Stores(p) PROVE Finished'
  <2>1. PICK rows : plans' = [plans EXCEPT ![p] = [status |-> "planned", rows |-> rows]]
    BY <1>4 DEF Stores
  <2> QED BY <1>1, <2>1 DEF Finished
<1>5. ASSUME NEW p \in Plans, plans' = [plans EXCEPT ![p] = Unused] PROVE Finished'
  BY <1>1, <1>5 DEF Finished, Unused
<1> QED BY <1>2, <1>3, <1>4, <1>5, PlanSteps

LEMMA AlwaysFinished == Spec => []Finished
<1>1. Init => Finished
  <2>1. Init => plans = [p \in Plans |-> Unused]
    BY DEF Init
  <2> QED BY <2>1 DEF Finished, Unused
<1> QED BY <1>1, StaysFinished, Inductive, PTL DEF Spec

\* Applying a plan that was applied leaves it, and every user, as they are.
LEMMA AppliedAgain ==
  ASSUME IInv, Finished, NEW p \in Plans, plans[p].status = "applied", Apply(p)
  PROVE  users' = users /\ plans' = plans
<1> DEFINE rows == plans[p].rows
<1>1. plans[p] \in Stored
  BY DEF IInv, Apply
<1>2. rows \in PlanTables /\ plans[p] = [status |-> "applied", rows |-> rows]
  BY <1>1 DEF Stored
<1>3. Applied(users, rows, limit) = rows /\ UsersAfter(users, rows, limit) = users
  BY <1>2, NothingPending DEF IInv, Finished
<1> HIDE DEF rows
<1>4. /\ users' = UsersAfter(users, rows, limit)
      /\ plans' = [plans EXCEPT ![p] = [status |-> "applied", rows |-> Applied(users, rows, limit)]]
  BY DEF Apply, rows
<1> QED BY <1>2, <1>3, <1>4 DEF IInv

(***************************************************************************)
(* The action properties.                                                  *)
(***************************************************************************)
\* A plan is applied once, whatever the users went through in between
\* (applyEmuImportPlan, listPendingEmuImportPlanRows).
THEOREM AppliedOnce == Spec => PlanAppliesOnce
<1>1. ASSUME IInv, Finished, [Next]_vars, NEW p \in Plans, plans[p].status = "applied"
      PROVE  plans'[p] \in {Unused, plans[p]} /\ (ApplyPlan(p) => users' = users)
  <2>1. plans'[p] \in {Unused, plans[p]}
    <3>1. plans \in [Plans -> {Unused} \cup Stored]
      BY <1>1 DEF IInv
    <3>2. ASSUME NEW q \in Plans, Apply(q) PROVE plans'[p] = plans[p]
      <4>1. CASE q = p
        BY <1>1, <3>2, <4>1, AppliedAgain
      <4>2. CASE q # p
        BY <3>1, <3>2, <4>2 DEF Apply
      <4> QED BY <4>1, <4>2
    <3>3. ASSUME NEW q \in Plans, Stores(q) PROVE plans'[p] = plans[p]
      <4>1. q # p
        BY <1>1, <3>3 DEF Stores, Unused
      <4> QED BY <3>1, <3>3, <4>1 DEF Stores
    <3> QED BY <1>1, <3>1, <3>2, <3>3, PlanSteps
  <2>2. ApplyPlan(p) => users' = users
    BY <1>1, AppliedAgain DEF ApplyPlan
  <2> QED BY <2>1, <2>2
<1>2. IInv /\ Finished /\ [Next]_vars =>
        [\A p \in Plans : plans[p].status = "applied" =>
           plans'[p] \in {Unused, plans[p]} /\ (ApplyPlan(p) => users' = users)]_vars
  BY <1>1
<1> QED BY <1>2, Inductive, AlwaysFinished, PTL DEF Spec, PlanAppliesOnce

\* No import moves a user or shares an entry, whatever is planned and whenever it
\* is applied (staleConflictForRow, applyStoredEmuImportRow).
THEOREM BindingsKept == Spec => ImportKeepsBindings
<1>1. ASSUME IInv, [Next]_vars, \E p \in Plans : plans[p] # plans'[p], users' # users,
             NEW u \in DOMAIN users'
      PROVE  /\ u \in DOMAIN users /\ users[u].id # NoId => users'[u].id = users[u].id
             /\ (u \notin DOMAIN users \/ users[u].id # users'[u].id) =>
                  \A v \in DOMAIN users' \ {u} : users'[v].id # users'[u].id
  <2>1. PICK p \in Plans : Apply(p)
    BY <1>1, PlanSteps DEF Stores
  <2>2. plans[p].rows \in PlanTables
    BY <1>1, <2>1 DEF IInv, Apply, Stored
  <2>3. users' = UsersAfter(users, plans[p].rows, limit)
    BY <2>1 DEF Apply
  <2> QED BY <1>1, <2>2, <2>3, KeepsBindings DEF IInv
<1>2. IInv /\ [Next]_vars =>
        [(\E p \in Plans : plans[p] # plans'[p]) /\ users' # users =>
           \A u \in DOMAIN users' :
             /\ u \in DOMAIN users /\ users[u].id # NoId => users'[u].id = users[u].id
             /\ (u \notin DOMAIN users \/ users[u].id # users'[u].id) =>
                  \A v \in DOMAIN users' \ {u} : users'[v].id # users'[u].id]_vars
  BY <1>1
<1> QED BY <1>2, Inductive, PTL DEF Spec, ImportKeepsBindings

\* No step takes the users over the limit in force (ensureUserLimitAvailable).
THEOREM LimitRespected == Spec => CreationWithinLimit
<1>1. ASSUME IInv, [Next]_vars, Cardinality(DOMAIN users') > Cardinality(DOMAIN users)
      PROVE  limit = NoLimit \/ Cardinality(DOMAIN users') <= limit
  <2> SUFFICES ASSUME limit # NoLimit PROVE Cardinality(DOMAIN users') <= limit
    OBVIOUS
  <2>1. limit \in Nat
    BY <1>1, SsoAssumption DEF IInv
  <2>2. IsFiniteSet(DOMAIN users) /\ Cardinality(DOMAIN users) \in Nat
    <3>1. IsFiniteSet(1..NumUsers)
      BY FS_Interval, ImportAssumption
    <3>2. DOMAIN users \subseteq 1..NumUsers
      BY <1>1, UserTable DEF IInv, Users
    <3> QED BY <3>1, <3>2, FS_Subset, FS_CardinalityType
  <2>3. ~(DOMAIN users' \subseteq DOMAIN users)
    <3>1. ASSUME DOMAIN users' \subseteq DOMAIN users PROVE FALSE
      <4>1. /\ IsFiniteSet(DOMAIN users')
            /\ Cardinality(DOMAIN users') <= Cardinality(DOMAIN users)
        BY <2>2, <3>1, FS_Subset
      <4>2. Cardinality(DOMAIN users') \in Nat
        BY <4>1, FS_CardinalityType
      <4> QED BY <1>1, <2>2, <4>1, <4>2
    <3> QED BY <3>1
  <2>4. ASSUME NEW u \in Users, CreateUser(u) PROVE Cardinality(DOMAIN users') <= limit
    <3>1. DOMAIN users' = DOMAIN users \cup {u} /\ Cardinality(DOMAIN users) < limit
      BY <2>4 DEF CreateUser, HasRoom
    <3>2. Cardinality(DOMAIN users \cup {u})
            = IF u \in DOMAIN users THEN Cardinality(DOMAIN users) ELSE Cardinality(DOMAIN users) + 1
      BY <2>2, FS_AddElement
    <3> QED BY <2>1, <2>2, <3>1, <3>2
  <2>5. ASSUME NEW p \in Plans, Apply(p) PROVE Cardinality(DOMAIN users') <= limit
    <3>1. plans[p].rows \in PlanTables
      BY <1>1, <2>5 DEF IInv, Apply, Stored
    <3>2. users' = UsersAfter(users, plans[p].rows, limit)
      BY <2>5 DEF Apply
    <3> QED BY <1>1, <2>1, <2>3, <3>1, <3>2, RoomForAll DEF IInv
  <2> QED BY <1>1, <2>3, <2>4, <2>5, AddingSteps
<1>2. IInv /\ [Next]_vars =>
        [Cardinality(DOMAIN users') > Cardinality(DOMAIN users) =>
           limit = NoLimit \/ Cardinality(DOMAIN users') <= limit]_vars
  BY <1>1
<1> QED BY <1>2, Inductive, PTL DEF Spec, CreationWithinLimit
(***************************************************************************)
(* What deletions and syncs leave behind.  First the directory: a live     *)
(* name is unique, and an entry of ours is live.                           *)
(***************************************************************************)
Alive(d, i)   == i \in DOMAIN d /\ d[i].live
NamedIn(d, u) == {i \in DOMAIN d : d[i].live /\ d[i].name = Name(u)}
OursIn(d, u)  == {i \in DOMAIN d : d[i].ours /\ d[i].name = Name(u)}

DirectoryOK(d) ==
  /\ \A i, j \in DOMAIN d : d[i].live /\ d[j].live /\ d[i].name = d[j].name => i = j
  /\ \A i \in DOMAIN d : d[i].ours => d[i].live

\* The row of u is bound to the active entry of its name.
BoundIn(us, d, u) ==
  /\ u \in DOMAIN us /\ us[u].emu = "active"
  /\ us[u].id \in NamedIn(d, u) /\ d[us[u].id].active

\* Which operation a handler at a step can be in the middle of.
Program(q) ==
  /\ q.at \in {"replace", "create", "find", "adopt", "bind"} => q.op \in Syncs
  /\ q.at \in {"assign", "assigned", "assign_failed"} =>
       q.op \in {"assign_copilot", "sync_emu_and_seat"}
  /\ q.at \in {"unseat", "unseated", "unseat_failed"} => q.op \in Unseating
  /\ q.at \in {"drop", "lookup", "drop_found"} => q.op \in {"delete_emu", "delete_sso"}
  /\ q.at = "drop" => q.had # NoId
  /\ q.at = "unbind" => q.op = "delete_emu"
  /\ q.at \in {"proxy", "erase"} => q.op = "delete_sso"
  /\ q.at \in {"patch", "patched"} => q.op = "suspend_emu" /\ q.had # NoId
  /\ q.at \in {"list", "list_seats", "plan", "apply"} => q.user = NoUser
  /\ q.at = "bind" => q.found # NoId

\* What a handler beside which nothing happened has achieved so far.
DeletesFaithfully(q, us, d, ss) ==
  q.op = "delete_sso" =>
    /\ q.at \in {"unseated", "drop", "lookup", "drop_found", "proxy", "erase", "done"} =>
         (q.had # NoId => q.user \notin ss)
    /\ q.at \in {"lookup", "drop_found", "proxy", "erase", "done"} => ~Alive(d, q.had)
    /\ q.at = "drop_found" => NamedIn(d, q.user) \subseteq {q.found}
    /\ q.at \in {"proxy", "erase", "done"} => NamedIn(d, q.user) = {}
    /\ q.at = "done" => q.user \notin DOMAIN us

SyncsFaithfully(q, us, d, ss) ==
  q.op \in Syncs =>
    /\ q.at = "bind" => q.found \in NamedIn(d, q.user) /\ d[q.found].active
    /\ q.at \in {"assign", "assigned", "done"} => BoundIn(us, d, q.user)
    /\ q.op = "sync_emu_and_seat" =>
         /\ q.at \in {"assigned", "done"} => q.user \in ss
         /\ q.at = "done" => us[q.user].seat = "assigned"

\* What a handler that is the only one on its user has achieved so far, whatever
\* happens beside it.
Working(q, us, d, ss) ==
  /\ q.user \in DOMAIN us
  /\ q.at = "assign" => us[q.user].id # NoId
  /\ q.at \in {"unseated", "drop", "lookup", "drop_found", "unbind", "proxy", "erase"} =>
       q.user \notin ss
  /\ q.at = "drop_found" => OursIn(d, q.user) \subseteq {q.found}
  /\ q.at \in {"proxy", "erase"} => OursIn(d, q.user) = {}

\* What is left of a user that only one handler at a time has worked on.
Traceable(u, us, d, ss) ==
  /\ u \in ss => u \in DOMAIN us /\ us[u].id # NoId
  /\ OursIn(d, u) # {} => u \in DOMAIN us

Busy(q) == q.at \notin {"idle", "done"}

Alone ==
  \A h, k \in Handlers : h # k /\ quiet[h] => ~Busy(req[k])

Separate ==
  \A h, k \in Handlers :
    /\ Busy(req[h]) /\ Busy(req[k]) /\ req[h].user = req[k].user
    /\ req[h].user \in Users \ crowded
    => h = k

TraceInv ==
  /\ DirectoryOK(dir) /\ Alone /\ Separate
  /\ \A h \in Handlers :
       /\ Program(req[h])
       /\ quiet[h] => /\ DeletesFaithfully(req[h], users, dir, seats)
                      /\ SyncsFaithfully(req[h], users, dir, seats)
       /\ Busy(req[h]) /\ req[h].user \in Users \ crowded => Working(req[h], users, dir, seats)
  /\ \A u \in Users \ crowded : Traceable(u, users, dir, seats)

\* A step that is not the user's own leaves it its row, its binding, and takes
\* neither a seat nor an entry for it.
Spared(u) ==
  /\ u \in DOMAIN users =>
       u \in DOMAIN users' /\ (users[u].id # NoId => users'[u].id # NoId)
  /\ u \in seats' => u \in seats
  /\ OursIn(dir', u) \subseteq OursIn(dir, u)

LEMMA SparedWork ==
  ASSUME NEW q, Spared(q.user), Working(q, users, dir, seats)
  PROVE  Working(q, users', dir', seats')
BY DEF Spared, Working

LEMMA SparedTrace ==
  ASSUME NEW u, Spared(u), Traceable(u, users, dir, seats)
  PROVE  Traceable(u, users', dir', seats')
BY DEF Spared, Traceable

\* A step of a handler spares the users it does not work on, and what it has
\* to keep for its own user is all there is to show.
LEMMA HandlerStep ==
  ASSUME IInv, TraceInv, NEW h \in Handlers, Busy(req[h]), NEW q,
         req' = [req EXCEPT ![h] = q], UNCHANGED <<quiet, crowded>>,
         Busy(q) => q.user = req[h].user,
         Program(q), DirectoryOK(dir'),
         \A v \in Users : v # req[h].user => Spared(v),
         quiet[h] => /\ DeletesFaithfully(q, users', dir', seats')
                     /\ SyncsFaithfully(q, users', dir', seats'),
         req[h].user \in Users \ crowded =>
           /\ Traceable(req[h].user, users', dir', seats')
           /\ Busy(q) => Working(q, users', dir', seats')
  PROVE  TraceInv'
<1>1. req'[h] = q /\ \A k \in Handlers \ {h} : req'[k] = req[k]
  BY DEF IInv, Requests
<1>2. Alone'
  BY <1>1 DEF TraceInv, Alone
<1>3. Separate'
  BY <1>1 DEF TraceInv, Separate
<1>4. ASSUME NEW k \in Handlers
      PROVE  /\ Program(req'[k])
             /\ quiet'[k] => /\ DeletesFaithfully(req'[k], users', dir', seats')
                             /\ SyncsFaithfully(req'[k], users', dir', seats')
             /\ Busy(req'[k]) /\ req'[k].user \in Users \ crowded' =>
                  Working(req'[k], users', dir', seats')
  <2>1. CASE k = h
    BY <1>1, <2>1
  <2>2. CASE k # h
    <3>1. ~quiet'[k]
      BY <2>2 DEF TraceInv, Alone
    <3>2. ASSUME Busy(req[k]), req[k].user \in Users \ crowded
          PROVE  Working(req[k], users', dir', seats')
      <4>1. req[k].user # req[h].user
        BY <2>2, <3>2 DEF TraceInv, Separate
      <4>2. Working(req[k], users, dir, seats)
        BY <3>2 DEF TraceInv
      <4> QED BY <3>2, <4>1, <4>2, SparedWork
    <3> QED BY <1>1, <2>2, <3>1, <3>2 DEF TraceInv
  <2> QED BY <2>1, <2>2
<1>5. ASSUME NEW u \in Users \ crowded PROVE Traceable(u, users', dir', seats')
  BY SparedTrace DEF TraceInv
<1> QED BY <1>2, <1>3, <1>4, <1>5 DEF TraceInv

\* The own step of a handler that touches neither its user nor the directory.
LEMMA SteadyStep ==
  ASSUME IInv, TraceInv, NEW h \in Handlers, Busy(req[h]), NEW q,
         req' = [req EXCEPT ![h] = q], UNCHANGED <<users, dir, seats, quiet, crowded>>,
         Busy(q) => q.user = req[h].user, Program(q),
         quiet[h] => DeletesFaithfully(q, users, dir, seats) /\ SyncsFaithfully(q, users, dir, seats),
         req[h].user \in Users \ crowded => (Busy(q) => Working(q, users, dir, seats))
  PROVE  TraceInv'
<1>1. \A v \in Users : Spared(v)
  BY DEF Spared
<1>2. DirectoryOK(dir') /\ \A u \in Users \ crowded : Traceable(u, users', dir', seats')
  BY DEF TraceInv
<1> QED BY <1>1, <1>2, HandlerStep

LEMMA IdleIsHarmless ==
  /\ ~Busy(Idle) /\ Program(Idle) /\ Idle.user = NoUser
  /\ \A us, d, ss : DeletesFaithfully(Idle, us, d, ss) /\ SyncsFaithfully(Idle, us, d, ss)
BY DEF Idle, Busy, Program, DeletesFaithfully, SyncsFaithfully, Syncs

\* A handler that stops, whatever it leaves behind, leaves its user traceable.
LEMMA StopStep ==
  ASSUME IInv, TraceInv, NEW h \in Handlers, Busy(req[h]), Stop(h),
         UNCHANGED <<users, dir, seats, quiet, crowded>>
  PROVE  TraceInv'
BY SteadyStep, IdleIsHarmless DEF Stop

(***************************************************************************)
(* What the steps make of the directory.                                   *)
(***************************************************************************)
LEMMA KillEffect ==
  ASSUME dir \in Directories, DirectoryOK(dir), NEW i, Kill(i)
  PROVE  /\ DirectoryOK(dir')
         /\ \A u \in Users : /\ NamedIn(dir', u) = NamedIn(dir, u) \ {i}
                             /\ OursIn(dir', u) = OursIn(dir, u) \ {i}
         /\ \A j : Alive(dir', j) => Alive(dir, j) /\ j # i
<1> DEFINE e == [dir[i] EXCEPT !.live = FALSE, !.active = FALSE, !.ours = FALSE]
<1>1. dir' = [dir EXCEPT ![i] = e]
  BY DEF Kill
<1>2. DOMAIN dir' = DOMAIN dir /\ \A j \in DOMAIN dir \ {i} : dir'[j] = dir[j]
  BY <1>1 DEF Directories
<1>3. i \in DOMAIN dir => /\ dir'[i].live = FALSE /\ dir'[i].ours = FALSE
                          /\ dir'[i].name = dir[i].name
  BY <1>1, EntryId DEF Entry, Directories
<1>4. DirectoryOK(dir')
  BY <1>2, <1>3 DEF DirectoryOK
<1>5. ASSUME NEW u \in Users
      PROVE  /\ NamedIn(dir', u) = NamedIn(dir, u) \ {i}
             /\ OursIn(dir', u) = OursIn(dir, u) \ {i}
  BY <1>2, <1>3 DEF NamedIn, OursIn
<1>6. ASSUME NEW j, Alive(dir', j) PROVE Alive(dir, j) /\ j # i
  BY <1>2, <1>3, <1>6 DEF Alive
<1> QED BY <1>4, <1>5, <1>6

LEMMA AddEffect ==
  ASSUME dir \in Directories, DirectoryOK(dir), NEW n \in Names, NEW ours \in BOOLEAN,
         AddEntry(n, ours)
  PROVE  /\ DirectoryOK(dir') /\ Len(dir) + 1 \in DOMAIN dir' /\ dir'[Len(dir) + 1].active
         /\ \A u \in Users : Name(u) = n => Len(dir) + 1 \in NamedIn(dir', u)
         /\ \A u \in Users : Name(u) # n \/ ~ours => OursIn(dir', u) = OursIn(dir, u)
<1> DEFINE e == [name |-> n, active |-> TRUE, live |-> TRUE, ours |-> ours]
           k == Len(dir) + 1
<1>1. dir' = Append(dir, e) /\ Named(n) = {}
  BY DEF AddEntry
<1>2. dir \in Seq(Entry) /\ Len(dir) \in Nat /\ DOMAIN dir = 1..Len(dir)
  BY DEF Directories
<1>3. DOMAIN dir' = 1..k /\ dir'[k] = e /\ \A j \in DOMAIN dir : dir'[j] = dir[j]
  BY <1>1, <1>2
<1>4. DOMAIN dir' = DOMAIN dir \cup {k} /\ k \notin DOMAIN dir
  BY <1>2, <1>3
<1>5. e.name = n /\ e.active = TRUE /\ e.live = TRUE /\ e.ours = ours
  OBVIOUS
<1> HIDE DEF e, k
<1>6. \A j \in DOMAIN dir : ~(dir[j].live /\ dir[j].name = n)
  BY <1>1 DEF Named
<1>7. DirectoryOK(dir')
  BY <1>3, <1>4, <1>5, <1>6 DEF DirectoryOK
<1>8. ASSUME NEW u \in Users, Name(u) = n PROVE k \in NamedIn(dir', u)
  BY <1>3, <1>4, <1>5, <1>8 DEF NamedIn
<1>9. ASSUME NEW u \in Users, Name(u) # n \/ ~ours PROVE OursIn(dir', u) = OursIn(dir, u)
  BY <1>3, <1>4, <1>5, <1>9 DEF OursIn
<1> QED BY <1>3, <1>4, <1>5, <1>7, <1>8, <1>9 DEF k

LEMMA PutEffect ==
  ASSUME dir \in Directories, DirectoryOK(dir), NEW u \in Users, NEW i, Alive(dir, i),
         Named(Name(u)) \ {i} = {},
         dir' = [dir EXCEPT ![i].name = Name(u), ![i].active = TRUE]
  PROVE  /\ DirectoryOK(dir') /\ i \in NamedIn(dir', u) /\ dir'[i].active
         /\ \A v \in Users \ {u} : OursIn(dir', v) \subseteq OursIn(dir, v)
<1> DEFINE e == [dir[i] EXCEPT !.name = Name(u), !.active = TRUE]
<1>1. i \in DOMAIN dir /\ dir[i].live /\ dir[i] \in Entry
  BY EntryId DEF Alive
<1>2. dir' = [dir EXCEPT ![i] = e]
  OBVIOUS
<1>3. DOMAIN dir' = DOMAIN dir /\ dir'[i] = e /\ \A j \in DOMAIN dir \ {i} : dir'[j] = dir[j]
  BY <1>1, <1>2 DEF Directories
<1>4. e.name = Name(u) /\ e.active = TRUE /\ e.live = dir[i].live /\ e.ours = dir[i].ours
  BY <1>1 DEF Entry
<1> HIDE DEF e
<1>5. \A j \in DOMAIN dir \ {i} : ~(dir[j].live /\ dir[j].name = Name(u))
  BY DEF Named
<1>6. DirectoryOK(dir')
  BY <1>1, <1>3, <1>4, <1>5 DEF DirectoryOK
<1>7. i \in NamedIn(dir', u) /\ dir'[i].active
  BY <1>1, <1>3, <1>4 DEF NamedIn
<1>8. ASSUME NEW v \in Users \ {u} PROVE OursIn(dir', v) \subseteq OursIn(dir, v)
  <2>1. Name(v) # Name(u)
    BY DEF Name
  <2> QED BY <1>3, <1>4, <2>1 DEF OursIn
<1> QED BY <1>6, <1>7, <1>8

(***************************************************************************)
(* The steps of a handler.                                                 *)
(***************************************************************************)
ArrivedAt(q, h, step, found) ==
  /\ q.at = step /\ q.found = found
  /\ q.op = req[h].op /\ q.user = req[h].user /\ q.had = req[h].had

LEMMA Went ==
  ASSUME req \in Requests, NEW h \in Handlers, NEW step
  PROVE  ArrivedAt([req[h] EXCEPT !.at = step], h, step, req[h].found)
BY DEF Requests, Task, Handler, ArrivedAt

LEMMA Moved ==
  ASSUME req \in Requests, NEW h \in Handlers, NEW step, NEW found
  PROVE  ArrivedAt([req[h] EXCEPT !.at = step, !.found = found], h, step, found)
BY DEF Requests, Task, Handler, ArrivedAt

LEMMA Same ==
  ASSUME req \in Requests, NEW h \in Handlers
  PROVE  [req EXCEPT ![h] = req[h]] = req
BY DEF Requests

\* What the invariant says of a handler that is at some step.
LEMMA Knowing ==
  ASSUME IInv, TraceInv, NEW h \in Handlers
  PROVE  /\ req \in Requests /\ Program(req[h])
         /\ quiet[h] => /\ DeletesFaithfully(req[h], users, dir, seats)
                        /\ SyncsFaithfully(req[h], users, dir, seats)
         /\ Busy(req[h]) /\ req[h].user \in Users \ crowded =>
              /\ Working(req[h], users, dir, seats)
              /\ req[h].user \in DOMAIN users
         /\ req[h].user \in Users \ crowded => Traceable(req[h].user, users, dir, seats)
         /\ dir \in Directories /\ DirectoryOK(dir)
         /\ req[h].at \in UserSteps => req[h].user \in Users
BY WorksOnUser DEF IInv, TraceInv, Working

LEMMA PutStep ==
  ASSUME IInv, TraceInv, NEW h \in Handlers, req[h].at \in {"replace", "adopt"},
         NEW i, Live(i), Put(h, i), UNCHANGED <<users, seats, quiet, crowded>>
  PROVE  TraceInv'
<1> DEFINE u == req[h].user
           next == [req[h] EXCEPT !.at = "bind", !.found = i]
<1>1. Busy(req[h]) /\ req[h].op \in Syncs /\ u \in Users /\ Alive(dir, i)
  BY Knowing DEF Program, Busy, UserSteps, Moves, Steps, Live, Alive
<1>2. CASE Stop(h) /\ UNCHANGED dir
  BY <1>1, <1>2, StopStep
<1>3. CASE /\ dir' = [dir EXCEPT ![i].name = Name(u), ![i].active = TRUE] /\ Answered(h, next)
           /\ Named(Name(u)) \ {i} = {}
  <2>1. PICK q \in {next, req[h]} : req' = [req EXCEPT ![h] = q]
    BY <1>3, Knowing, Same DEF Answered
  <2>2. /\ q.op = req[h].op /\ q.user = u
        /\ q.at \in {"replace", "adopt", "bind"} /\ (q.at = "bind" => q.found = i)
    <3>1. ArrivedAt(next, h, "bind", i)
      BY Knowing, Moved
    <3> HIDE DEF next
    <3> QED BY <2>1, <3>1 DEF ArrivedAt
  <2>3. /\ DirectoryOK(dir') /\ i \in NamedIn(dir', u) /\ dir'[i].active
        /\ \A v \in Users \ {u} : OursIn(dir', v) \subseteq OursIn(dir, v)
    BY <1>1, <1>3, PutEffect, Knowing
  <2>4. \A v \in Users : v # u => Spared(v)
    BY <2>3 DEF Spared
  <2>5. i # NoId
    BY <1>1, EntryId, Knowing DEF Alive, Ids, NoId
  <2>6. Program(q)
    BY <1>1, <2>2, <2>5 DEF Program
  <2>7. DeletesFaithfully(q, users', dir', seats') /\ SyncsFaithfully(q, users', dir', seats')
    BY <1>1, <2>2, <2>3 DEF DeletesFaithfully, SyncsFaithfully, Syncs
  <2>8. u \in Users \ crowded =>
          Traceable(u, users', dir', seats') /\ Working(q, users', dir', seats')
    BY <1>1, <2>2, Knowing DEF Traceable, Working
  <2> HIDE DEF next, u
  <2> QED BY <1>1, <2>1, <2>2, <2>3, <2>4, <2>6, <2>7, <2>8, HandlerStep DEF u
<1> QED BY <1>2, <1>3 DEF Put

\* A handler goes on to a step for which it has done what it had to.
LEMMA GoStep ==
  ASSUME IInv, TraceInv, NEW h \in Handlers, Busy(req[h]), NEW q,
         req' = [req EXCEPT ![h] = q], NEW step, NEW found, ArrivedAt(q, h, step, found),
         step \in {"create", "find", "adopt"} => req[h].op \in Syncs,
         step \in {"create", "find", "adopt"},
         UNCHANGED <<users, dir, seats, quiet, crowded>>
  PROVE  TraceInv'
<1>1. q.at = step /\ q.user = req[h].user /\ q.op \in Syncs
  BY DEF ArrivedAt
<1>2. Program(q)
  BY <1>1 DEF Program
<1>3. DeletesFaithfully(q, users, dir, seats) /\ SyncsFaithfully(q, users, dir, seats)
  BY <1>1 DEF DeletesFaithfully, SyncsFaithfully, Syncs
<1>4. req[h].user \in Users \ crowded => Working(q, users, dir, seats)
  BY <1>1, Knowing DEF Working
<1> QED BY <1>1, <1>2, <1>3, <1>4, SteadyStep

LEMMA TraceReplace ==
  ASSUME IInv, TraceInv, NEW h \in Handlers, Replace(h)
  PROVE  TraceInv'
<1>1. req[h].at = "replace" /\ Busy(req[h]) /\ req[h].op \in Syncs
  BY Knowing DEF Replace, At, Busy, Program
<1>2. UNCHANGED <<users, seats, quiet, crowded>>
  BY DEF Replace, local, history
<1>3. CASE Live(req[h].had)
  BY <1>1, <1>2, <1>3, PutStep DEF Replace
<1>4. CASE ~Live(req[h].had)
  <2>1. Go(h, "create") /\ UNCHANGED dir
    BY <1>4 DEF Replace
  <2>2. /\ req' = [req EXCEPT ![h] = [req[h] EXCEPT !.at = "create"]]
        /\ ArrivedAt([req[h] EXCEPT !.at = "create"], h, "create", req[h].found)
    BY <2>1, Knowing, Went DEF Go
  <2> QED BY <1>1, <1>2, <2>1, <2>2, GoStep
<1> QED BY <1>3, <1>4

LEMMA TraceFindAdopt ==
  ASSUME IInv, TraceInv, NEW h \in Handlers, Find(h) \/ Adopt(h)
  PROVE  TraceInv'
<1>1. req[h].at \in {"find", "adopt"} /\ Busy(req[h]) /\ req[h].op \in Syncs
  BY Knowing DEF Find, Adopt, At, Busy, Program
<1>2. UNCHANGED <<users, seats, quiet, crowded>>
  BY DEF Find, Adopt, local, remote, history
<1>3. CASE Find(h)
  <2>1. UNCHANGED dir
    BY <1>3 DEF Find, remote
  <2>2. CASE Stop(h)
    BY <1>1, <1>2, <2>1, <2>2, StopStep
  <2>3. ASSUME NEW i, req' = [req EXCEPT ![h].at = "adopt", ![h].found = i] PROVE TraceInv'
    <3>1. /\ req' = [req EXCEPT ![h] = [req[h] EXCEPT !.at = "adopt", !.found = i]]
          /\ ArrivedAt([req[h] EXCEPT !.at = "adopt", !.found = i], h, "adopt", i)
      BY <2>3, Knowing, Moved
    <3> QED BY <1>1, <1>2, <2>1, <3>1, GoStep
  <2> QED BY <1>3, <2>2, <2>3 DEF Find
<1>4. CASE Adopt(h)
  <2>1. CASE Live(req[h].found)
    BY <1>1, <1>2, <1>4, <2>1, PutStep DEF Adopt, At
  <2>2. CASE ~Live(req[h].found)
    BY <1>1, <1>2, <1>4, <2>2, StopStep DEF Adopt
  <2> QED BY <2>1, <2>2
<1> QED BY <1>3, <1>4

LEMMA TraceCreate ==
  ASSUME IInv, TraceInv, NEW h \in Handlers, Create(h)
  PROVE  TraceInv'
<1> DEFINE u == req[h].user
           k == Len(dir) + 1
           next == [req[h] EXCEPT !.at = "bind", !.found = k]
<1>1. req[h].at = "create" /\ Busy(req[h]) /\ req[h].op \in Syncs /\ u \in Users
  BY Knowing DEF Create, At, Busy, Program, UserSteps, Moves, Steps
<1>2. UNCHANGED <<users, seats, quiet, crowded>>
  BY DEF Create, local, history
<1>3. CASE Named(Name(u)) # {}
  <2>1. Go(h, "find") /\ UNCHANGED dir
    BY <1>3 DEF Create
  <2>2. /\ req' = [req EXCEPT ![h] = [req[h] EXCEPT !.at = "find"]]
        /\ ArrivedAt([req[h] EXCEPT !.at = "find"], h, "find", req[h].found)
    BY <2>1, Knowing, Went DEF Go
  <2> QED BY <1>1, <1>2, <2>1, <2>2, GoStep
<1>4. CASE Named(Name(u)) = {}
  <2>0. AddEntry(Name(u), TRUE) /\ Answered(h, next)
    BY <1>4 DEF Create
  <2>1. PICK q \in {next, req[h]} : req' = [req EXCEPT ![h] = q]
    BY <2>0, Knowing, Same DEF Answered
  <2>2. /\ q.op = req[h].op /\ q.user = u
        /\ q.at \in {"create", "bind"} /\ (q.at = "bind" => q.found = k)
    <3>1. ArrivedAt(next, h, "bind", k)
      BY Knowing, Moved
    <3> HIDE DEF next
    <3> QED BY <1>1, <2>1, <3>1 DEF ArrivedAt
  <2>3. /\ DirectoryOK(dir') /\ k \in NamedIn(dir', u) /\ dir'[k].active
        /\ \A v \in Users : Name(v) # Name(u) => OursIn(dir', v) = OursIn(dir, v)
    BY <1>1, <2>0, NameOfUser, AddEffect, Knowing
  <2>4. \A v \in Users : v # u => Spared(v)
    BY <1>2, <2>3 DEF Spared, Name
  <2>5. k # NoId
    BY Knowing DEF Directories, NoId
  <2>6. Program(q)
    BY <1>1, <2>2, <2>5 DEF Program
  <2>7. DeletesFaithfully(q, users', dir', seats') /\ SyncsFaithfully(q, users', dir', seats')
    BY <1>1, <2>2, <2>3 DEF DeletesFaithfully, SyncsFaithfully, Syncs
  <2>8. u \in Users \ crowded =>
          Traceable(u, users', dir', seats') /\ Working(q, users', dir', seats')
    BY <1>1, <1>2, <2>2, Knowing DEF Traceable, Working
  <2> HIDE DEF next, u, k
  <2> QED BY <1>1, <1>2, <2>1, <2>2, <2>3, <2>4, <2>6, <2>7, <2>8, HandlerStep DEF u
<1> QED BY <1>3, <1>4

\* A handler that has written the row of its user.
Reached(q, h, step) ==
  q.at = step /\ q.op = req[h].op /\ q.user = req[h].user /\ q.had = req[h].had

LEMMA UpdateStep ==
  ASSUME IInv, TraceInv, NEW h \in Handlers, Busy(req[h]), req[h].user \in Users,
         NEW row, NEW next, Update(h, row, next), UNCHANGED <<dir, seats, quiet, crowded>>,
         req[h].user \in DOMAIN users /\ row.id = NoId /\ req[h].user \in seats =>
           req[h].user \in crowded,
         \A q : Reached(q, h, next) /\ next # "idle" /\ req[h].user \in DOMAIN users =>
           /\ Program(q)
           /\ quiet[h] => /\ DeletesFaithfully(q, [users EXCEPT ![req[h].user] = row], dir, seats)
                          /\ SyncsFaithfully(q, [users EXCEPT ![req[h].user] = row], dir, seats)
           /\ req[h].user \in Users \ crowded /\ Busy(q) =>
                Working(q, [users EXCEPT ![req[h].user] = row], dir, seats)
  PROVE  TraceInv'
<1> DEFINE u == req[h].user
           us == [users EXCEPT ![u] = row]
<1>1. CASE u \notin DOMAIN users
  BY <1>1, StopStep DEF Update
<1>2. CASE u \in DOMAIN users
  <2>1. users' = us /\ EndOrGo(h, next)
    BY <1>2 DEF Update
  <2>2. PICK q : /\ req' = [req EXCEPT ![h] = q]
                 /\ q = Idle \/ (next # "idle" /\ Reached(q, h, next))
    <3>1. CASE Stop(h)
      BY <3>1 DEF Stop
    <3>2. CASE next = "done" /\ req' = [req EXCEPT ![h].at = "done", ![h].found = NoId]
      <4>1. /\ req' = [req EXCEPT ![h] = [req[h] EXCEPT !.at = "done", !.found = NoId]]
            /\ ArrivedAt([req[h] EXCEPT !.at = "done", !.found = NoId], h, "done", NoId)
        BY <3>2, Knowing, Moved
      <4> QED BY <3>2, <4>1 DEF ArrivedAt, Reached
    <3>3. CASE next # "idle" /\ Go(h, next)
      <4>1. /\ req' = [req EXCEPT ![h] = [req[h] EXCEPT !.at = next]]
            /\ ArrivedAt([req[h] EXCEPT !.at = next], h, next, req[h].found)
        BY <3>3, Knowing, Went DEF Go
      <4> QED BY <3>3, <4>1 DEF ArrivedAt, Reached
    <3> QED BY <2>1, <3>1, <3>2, <3>3 DEF EndOrGo, End
  <2>3. DOMAIN us = DOMAIN users /\ us[u] = row /\ \A v \in DOMAIN users \ {u} : us[v] = users[v]
    BY <1>2, UserTable DEF IInv
  <2>4. \A v \in Users : v # u => Spared(v)
    BY <2>1, <2>3 DEF Spared
  <2>5. u \in Users \ crowded => Traceable(u, users', dir', seats')
    BY <1>2, <2>1, <2>3, Knowing DEF Traceable
  <2>6. /\ Program(q) /\ (Busy(q) => q.user = u)
        /\ quiet[h] => DeletesFaithfully(q, us, dir, seats) /\ SyncsFaithfully(q, us, dir, seats)
        /\ u \in Users \ crowded /\ Busy(q) => Working(q, us, dir, seats)
    <3>1. CASE q = Idle
      BY <3>1, IdleIsHarmless
    <3>2. CASE next # "idle" /\ Reached(q, h, next)
      BY <1>2, <3>2 DEF Reached
    <3> QED BY <2>2, <3>1, <3>2
  <2>7. DirectoryOK(dir')
    BY Knowing
  <2> HIDE DEF us, u
  <2> QED BY <2>1, <2>2, <2>4, <2>5, <2>6, <2>7, HandlerStep DEF u
<1> QED BY <1>1, <1>2

LEMMA RowWritten ==
  ASSUME IInv, NEW u \in DOMAIN users, NEW row
  PROVE  /\ [users EXCEPT ![u] = row][u] = row
         /\ DOMAIN [users EXCEPT ![u] = row] = DOMAIN users
BY UserTable DEF IInv

LEMMA TraceBind ==
  ASSUME IInv, TraceInv, NEW h \in Handlers, Bind(h)
  PROVE  TraceInv'
<1> DEFINE u == req[h].user
           row == [OnUser(h) EXCEPT !.id = req[h].found, !.emu = "active"]
           next == IF req[h].op = "sync_emu" THEN "done" ELSE "assign"
           us == [users EXCEPT ![u] = row]
<1>1. /\ req[h].at = "bind" /\ Busy(req[h]) /\ req[h].op \in Syncs /\ u \in Users
      /\ req[h].found # NoId
  BY Knowing DEF Bind, At, Busy, Program, UserSteps, Moves, Steps
<1>2. Update(h, row, next) /\ UNCHANGED <<dir, seats, quiet, crowded>>
  BY DEF Bind, remote, history
<1>3. u \in DOMAIN users => /\ row.id = req[h].found /\ row.emu = "active"
                            /\ us[u] = row /\ DOMAIN us = DOMAIN users
  BY OnUserType, RowWritten DEF IInv, Row
<1>4. ASSUME NEW q, Reached(q, h, next), u \in DOMAIN users
      PROVE  /\ Program(q)
             /\ quiet[h] => DeletesFaithfully(q, us, dir, seats) /\ SyncsFaithfully(q, us, dir, seats)
             /\ u \in Users \ crowded /\ Busy(q) => Working(q, us, dir, seats)
  <2>1. q.user = u /\ q.op = req[h].op /\ q.at = next /\ q.op \in Syncs
    BY <1>1, <1>4 DEF Reached
  <2>2. Program(q)
    BY <2>1 DEF Program, Syncs
  <2>3. quiet[h] => BoundIn(us, dir, u)
    BY <1>1, <1>3, <1>4, Knowing DEF SyncsFaithfully, BoundIn
  <2>4. quiet[h] => DeletesFaithfully(q, us, dir, seats) /\ SyncsFaithfully(q, us, dir, seats)
    BY <2>1, <2>3 DEF DeletesFaithfully, SyncsFaithfully, Syncs
  <2>5. Working(q, us, dir, seats)
    BY <1>1, <1>3, <1>4, <2>1 DEF Working
  <2> QED BY <2>2, <2>4, <2>5
<1>5. u \in DOMAIN users => row.id # NoId
  BY <1>1, <1>3
<1> HIDE DEF row, next
<1> QED BY <1>1, <1>2, <1>4, <1>5, UpdateStep

LEMMA TraceSuspended ==
  ASSUME IInv, TraceInv, NEW h \in Handlers, Suspended(h)
  PROVE  TraceInv'
<1> DEFINE u == req[h].user
           row == [OnUser(h) EXCEPT !.id = req[h].had, !.emu = "suspended"]
           us == [users EXCEPT ![u] = row]
<1>1. /\ req[h].at = "patched" /\ Busy(req[h]) /\ req[h].op = "suspend_emu" /\ u \in Users
      /\ req[h].had # NoId
  BY Knowing DEF Suspended, At, Busy, Program, UserSteps, Moves, Steps
<1>2. Update(h, row, "done") /\ UNCHANGED <<dir, seats, quiet, crowded>>
  BY DEF Suspended, remote, history
<1>3. u \in DOMAIN users => row.id # NoId
  BY <1>1, OnUserType DEF IInv, Row
<1>4. ASSUME NEW q, Reached(q, h, "done")
      PROVE  /\ Program(q) /\ ~Busy(q)
             /\ DeletesFaithfully(q, us, dir, seats) /\ SyncsFaithfully(q, us, dir, seats)
  BY <1>1, <1>4 DEF Reached, Program, Busy, DeletesFaithfully, SyncsFaithfully, Syncs
<1> HIDE DEF row
<1> QED BY <1>1, <1>2, <1>3, <1>4, UpdateStep

LEMMA TraceSuspend ==
  ASSUME IInv, TraceInv, NEW h \in Handlers, Suspend(h)
  PROVE  TraceInv'
<1> DEFINE i == req[h].had
           u == req[h].user
           next == [req[h] EXCEPT !.at = "patched"]
           e == [dir[i] EXCEPT !.active = FALSE]
<1>1. req[h].at = "patch" /\ Busy(req[h]) /\ req[h].op = "suspend_emu" /\ u \in Users /\ i # NoId
  BY Knowing DEF Suspend, At, Busy, Program, UserSteps, Moves, Steps
<1>2. UNCHANGED <<users, seats, quiet, crowded>>
  BY DEF Suspend, local, history
<1>3. CASE ~Live(i)
  BY <1>1, <1>2, <1>3, StopStep DEF Suspend
<1>4. CASE Live(i)
  <2>0. dir' = [dir EXCEPT ![i] = e] /\ Answered(h, next)
    BY <1>4 DEF Suspend
  <2>1. PICK q \in {next, req[h]} : req' = [req EXCEPT ![h] = q]
    BY <2>0, Knowing, Same DEF Answered
  <2>2. q.op = "suspend_emu" /\ q.user = u /\ q.at \in {"patch", "patched"} /\ q.had # NoId
    <3>1. ArrivedAt(next, h, "patched", req[h].found)
      BY Knowing, Went
    <3> HIDE DEF next
    <3> QED BY <1>1, <2>1, <3>1 DEF ArrivedAt
  <2>3. /\ DOMAIN dir' = DOMAIN dir
        /\ \A j \in DOMAIN dir : /\ dir'[j].name = dir[j].name /\ dir'[j].live = dir[j].live
                                /\ dir'[j].ours = dir[j].ours
    <3>1. dir \in Directories /\ i \in DOMAIN dir
      BY <1>4, Knowing DEF Live
    <3>2. e.name = dir[i].name /\ e.live = dir[i].live /\ e.ours = dir[i].ours
      BY <3>1, EntryId DEF Entry
    <3> HIDE DEF e
    <3> QED BY <2>0, <3>1, <3>2 DEF Directories
  <2>4. DirectoryOK(dir') /\ \A v \in Users : Spared(v)
    BY <1>2, <2>3, Knowing DEF DirectoryOK, Spared, OursIn
  <2>5. Program(q) /\ DeletesFaithfully(q, users', dir', seats') /\ SyncsFaithfully(q, users', dir', seats')
    BY <2>2 DEF Program, DeletesFaithfully, SyncsFaithfully, Syncs
  <2>6. u \in Users \ crowded =>
          Traceable(u, users', dir', seats') /\ Working(q, users', dir', seats')
    <3>1. u \in Users \ crowded => Traceable(u, users', dir', seats')
      BY <2>4, Knowing, SparedTrace
    <3>2. u \in Users \ crowded => Working(q, users', dir', seats')
      BY <1>1, <1>2, <2>2, Knowing DEF Working
    <3> QED BY <3>1, <3>2
  <2> HIDE DEF next, u
  <2> QED BY <1>1, <1>2, <2>1, <2>2, <2>4, <2>5, <2>6, HandlerStep DEF u
<1> QED BY <1>3, <1>4

LEMMA TraceSync ==
  ASSUME IInv, TraceInv, NEW h \in Handlers, Sync(h) \/ Suspension(h)
  PROVE  TraceInv'
BY TraceReplace, TraceCreate, TraceFindAdopt, TraceBind, TraceSuspend, TraceSuspended
   DEF Sync, Suspension

LEMMA TraceAssign ==
  ASSUME IInv, TraceInv, NEW h \in Handlers, Assign(h)
  PROVE  TraceInv'
<1> DEFINE u == req[h].user
<1>1. /\ req[h].at = "assign" /\ Busy(req[h]) /\ u \in Users
      /\ req[h].op \in {"assign_copilot", "sync_emu_and_seat"}
  BY Knowing DEF Assign, At, Busy, Program, UserSteps, Moves, Steps
<1>2. UNCHANGED <<users, dir, quiet, crowded>>
  BY DEF Assign, local, history
<1>3. PICK step \in {"assigned", "assign_failed"} :
        /\ Go(h, step)
        /\ seats' = seats \/ seats' = seats \cup {u}
        /\ step = "assigned" => u \in seats'
  BY DEF Assign
<1> DEFINE q == [req[h] EXCEPT !.at = step]
<1>4. /\ req' = [req EXCEPT ![h] = q]
      /\ q.at = step /\ q.op = req[h].op /\ q.user = u
  BY <1>3, Knowing, Went DEF Go, ArrivedAt
<1>5. \A v \in Users : v # u => Spared(v)
  BY <1>2, <1>3 DEF Spared
<1> HIDE DEF q
<1>6. Program(q)
  BY <1>1, <1>4 DEF Program
<1>7. quiet[h] => DeletesFaithfully(q, users, dir, seats') /\ SyncsFaithfully(q, users, dir, seats')
  BY <1>1, <1>3, <1>4, Knowing DEF DeletesFaithfully, SyncsFaithfully, Syncs
<1>8. u \in Users \ crowded => Traceable(u, users, dir, seats') /\ Working(q, users, dir, seats')
  BY <1>1, <1>3, <1>4, Knowing DEF Traceable, Working
<1>9. DirectoryOK(dir')
  BY <1>2, Knowing
<1> QED BY <1>1, <1>2, <1>4, <1>5, <1>6, <1>7, <1>8, <1>9, HandlerStep

LEMMA TraceUnseat ==
  ASSUME IInv, TraceInv, NEW h \in Handlers, Unseat(h)
  PROVE  TraceInv'
<1> DEFINE u == req[h].user
<1>1. req[h].at = "unseat" /\ Busy(req[h]) /\ u \in Users /\ req[h].op \in Unseating
  BY Knowing DEF Unseat, At, Busy, Program, UserSteps, Moves, Steps
<1>2. UNCHANGED <<users, dir, quiet, crowded>>
  BY DEF Unseat, local, history
<1>3. PICK step \in {"unseated", "unseat_failed"} :
        /\ Go(h, step)
        /\ seats' = seats \/ seats' = seats \ {u}
        /\ step = "unseated" => u \notin seats'
  BY DEF Unseat
<1> DEFINE q == [req[h] EXCEPT !.at = step]
<1>4. /\ req' = [req EXCEPT ![h] = q]
      /\ q.at = step /\ q.op = req[h].op /\ q.user = u
  BY <1>3, Knowing, Went DEF Go, ArrivedAt
<1>5. \A v \in Users : Spared(v)
  BY <1>2, <1>3 DEF Spared
<1> HIDE DEF q
<1>6. Program(q)
  BY <1>1, <1>4 DEF Program
<1>7. DeletesFaithfully(q, users, dir, seats') /\ SyncsFaithfully(q, users, dir, seats')
  BY <1>1, <1>3, <1>4 DEF DeletesFaithfully, SyncsFaithfully, Syncs, Unseating
<1>8. u \in Users \ crowded => Traceable(u, users, dir, seats') /\ Working(q, users, dir, seats')
  BY <1>1, <1>3, <1>4, Knowing DEF Traceable, Working
<1>9. DirectoryOK(dir')
  BY <1>2, Knowing
<1> QED BY <1>1, <1>2, <1>4, <1>5, <1>6, <1>7, <1>8, <1>9, HandlerStep

\* The answer about a seat changes the row, and neither its id nor its status.
LEMMA TraceSeatAnswer ==
  ASSUME IInv, TraceInv, NEW h \in Handlers, NEW answer, NEW seat, NEW next,
         SeatAnswer(h, answer, seat, next),
         \/ answer = "assigned" /\ seat = "assigned" /\ next = "done"
         \/ answer = "assign_failed" /\ next = "idle"
         \/ answer = "unseated" /\ next = AfterUnseat(req[h].op, req[h].had)
         \/ answer = "unseat_failed" /\ next = "idle"
  PROVE  TraceInv'
<1> DEFINE u == req[h].user
           row == [OnUser(h) EXCEPT !.seat = seat]
           us == [users EXCEPT ![u] = row]
<1>1. req[h].at = answer /\ Busy(req[h]) /\ u \in Users
  BY Knowing DEF SeatAnswer, At, Busy, UserSteps, Moves, Steps
<1>2. Update(h, row, next) /\ UNCHANGED <<dir, seats, quiet, crowded>>
  BY DEF SeatAnswer, remote, history
<1>3. u \in DOMAIN users =>
        /\ row.id = users[u].id /\ row.emu = users[u].emu /\ row.seat = seat
        /\ us[u] = row /\ DOMAIN us = DOMAIN users
  BY OnUserType, RowWritten DEF IInv, Row, OnUser
<1>4. ASSUME u \in DOMAIN users, row.id = NoId, u \in seats PROVE u \in crowded
  BY <1>1, <1>3, <1>4, Knowing DEF Traceable
<1>5. ASSUME NEW q, Reached(q, h, next), next # "idle", u \in DOMAIN users
      PROVE  /\ Program(q)
             /\ quiet[h] => DeletesFaithfully(q, us, dir, seats) /\ SyncsFaithfully(q, us, dir, seats)
             /\ u \in Users \ crowded /\ Busy(q) => Working(q, us, dir, seats)
  <2>1. q.user = u /\ q.op = req[h].op /\ q.at = next /\ q.had = req[h].had
    BY <1>5 DEF Reached
  <2>2. CASE answer = "assigned" /\ seat = "assigned" /\ next = "done"
    <3>1. q.op \in {"assign_copilot", "sync_emu_and_seat"}
      BY <1>1, <2>1, <2>2, Knowing DEF Program
    <3>2. quiet[h] /\ q.op \in Syncs => BoundIn(us, dir, u) /\ u \in seats
      BY <1>1, <1>3, <1>5, <2>1, <2>2, <3>1, Knowing DEF SyncsFaithfully, BoundIn, Syncs
    <3>3. Program(q) /\ ~Busy(q)
      BY <2>1, <2>2 DEF Program, Busy
    <3>4. quiet[h] => DeletesFaithfully(q, us, dir, seats) /\ SyncsFaithfully(q, us, dir, seats)
      BY <1>3, <1>5, <2>1, <2>2, <3>1, <3>2 DEF DeletesFaithfully, SyncsFaithfully
    <3> QED BY <3>3, <3>4
  <2>3. CASE answer = "unseated" /\ next = AfterUnseat(req[h].op, req[h].had)
    <3>1. /\ q.op \in Unseating
          /\ q.at = "done" => q.op = "remove_copilot"
          /\ q.at \in {"done", "drop", "lookup"}
          /\ q.at = "drop" => q.had # NoId
          /\ q.at = "lookup" => q.had = NoId
          /\ q.at # "done" => q.op \in {"delete_emu", "delete_sso"}
      BY <1>1, <2>1, <2>3, Knowing DEF Program, AfterUnseat, Unseating
    <3>2. Program(q)
      BY <3>1 DEF Program
    <3>3. ~Alive(dir, NoId)
      BY Knowing DEF Alive, NoId, Directories
    <3>4. quiet[h] => DeletesFaithfully(q, us, dir, seats)
      BY <1>1, <2>1, <2>3, <3>1, <3>3, Knowing DEF DeletesFaithfully
    <3>5. SyncsFaithfully(q, us, dir, seats)
      BY <3>1 DEF SyncsFaithfully, Syncs, Unseating
    <3>6. u \in Users \ crowded => Working(q, us, dir, seats)
      BY <1>1, <1>3, <1>5, <2>1, <2>3, <3>1, Knowing DEF Working
    <3> QED BY <3>2, <3>4, <3>5, <3>6
  <2> QED BY <1>5, <2>2, <2>3
<1> HIDE DEF row
<1> QED BY <1>1, <1>2, <1>4, <1>5, UpdateStep

LEMMA TraceSeat ==
  ASSUME IInv, TraceInv, NEW h \in Handlers, Seat(h)
  PROVE  TraceInv'
<1>1. CASE Assign(h) \/ Unseat(h)
  BY <1>1, TraceAssign, TraceUnseat
<1>2. CASE Assigned(h) \/ AssignFailed(h) \/ Unseated(h) \/ UnseatFailed(h)
  BY <1>2, TraceSeatAnswer DEF Assigned, AssignFailed, Unseated, UnseatFailed
<1> QED BY <1>1, <1>2 DEF Seat

LEMMA TraceDrop ==
  ASSUME IInv, TraceInv, NEW h \in Handlers, Drop(h) \/ DropFound(h)
  PROVE  TraceInv'
<1> DEFINE u == req[h].user
<1>1. /\ req[h].at \in {"drop", "drop_found"} /\ Busy(req[h]) /\ u \in Users
      /\ req[h].op \in {"delete_emu", "delete_sso"}
  BY Knowing DEF Drop, DropFound, At, Busy, Program, UserSteps, Moves, Steps
<1>2. UNCHANGED <<users, seats, quiet, crowded>>
  BY DEF Drop, DropFound, local, history
<1>3. PICK i, step :
        /\ Kill(i) /\ Answered(h, [req[h] EXCEPT !.at = step])
        /\ req[h].at = "drop" => i = req[h].had /\ step = "lookup"
        /\ req[h].at = "drop_found" => i = req[h].found /\ step = AfterDrop(req[h].op)
  BY DEF Drop, DropFound, At
<1> DEFINE next == [req[h] EXCEPT !.at = step]
<1>4. PICK q \in {next, req[h]} : req' = [req EXCEPT ![h] = q]
  BY <1>3, Knowing, Same DEF Answered
<1>5. /\ q.op = req[h].op /\ q.user = u /\ q.had = req[h].had /\ q.found = req[h].found
      /\ q.at = req[h].at \/ q.at = step
  <2>1. ArrivedAt(next, h, step, req[h].found)
    BY Knowing, Went
  <2> HIDE DEF next
  <2> QED BY <1>4, <2>1 DEF ArrivedAt
<1>6. /\ DirectoryOK(dir')
      /\ \A v \in Users : /\ NamedIn(dir', v) = NamedIn(dir, v) \ {i}
                          /\ OursIn(dir', v) = OursIn(dir, v) \ {i}
      /\ \A j : Alive(dir', j) => Alive(dir, j) /\ j # i
  BY <1>3, KillEffect, Knowing
<1>7. \A v \in Users : Spared(v)
  BY <1>2, <1>6 DEF Spared
<1>8. \/ q.at = req[h].at
      \/ req[h].at = "drop" /\ q.at = "lookup"
      \/ req[h].at = "drop_found" /\ q.at = "unbind" /\ q.op = "delete_emu"
      \/ req[h].at = "drop_found" /\ q.at = "proxy" /\ q.op = "delete_sso"
  BY <1>1, <1>3, <1>5 DEF AfterDrop
<1>9. Program(q)
  BY <1>1, <1>5, <1>8, Knowing DEF Program
<1>10. quiet[h] => DeletesFaithfully(q, users', dir', seats')
  BY <1>1, <1>2, <1>3, <1>5, <1>6, <1>8, Knowing DEF DeletesFaithfully
<1>11. SyncsFaithfully(q, users', dir', seats')
  BY <1>1, <1>5 DEF SyncsFaithfully, Syncs
<1>12. u \in Users \ crowded => Traceable(u, users', dir', seats')
  BY <1>7, Knowing, SparedTrace
<1>13. u \in Users \ crowded => Working(q, users', dir', seats')
  BY <1>1, <1>2, <1>3, <1>5, <1>6, <1>8, Knowing DEF Working
<1> HIDE DEF next, u
<1> QED BY <1>1, <1>2, <1>4, <1>5, <1>6, <1>7, <1>9, <1>10, <1>11, <1>12, <1>13, HandlerStep DEF u

LEMMA TraceLookup ==
  ASSUME IInv, TraceInv, NEW h \in Handlers, Lookup(h) \/ ProxyDeletes(h)
  PROVE  TraceInv'
<1> DEFINE u == req[h].user
<1>1. /\ req[h].at \in {"lookup", "proxy"} /\ Busy(req[h]) /\ u \in Users
      /\ req[h].op \in {"delete_emu", "delete_sso"}
      /\ req[h].at = "proxy" => req[h].op = "delete_sso"
  BY Knowing DEF Lookup, ProxyDeletes, At, Busy, Program, UserSteps, Moves, Steps
<1>2. UNCHANGED <<users, dir, seats, quiet, crowded>>
  BY DEF Lookup, ProxyDeletes, local, remote, history
<1>3. PICK q, step, found :
        /\ req' = [req EXCEPT ![h] = q] /\ ArrivedAt(q, h, step, found)
        /\ \/ req[h].at = "proxy" /\ step = "erase"
           \/ /\ req[h].at = "lookup" /\ NamedIn(dir, u) = {} /\ step = AfterDrop(req[h].op)
           \/ /\ req[h].at = "lookup" /\ step = "drop_found"
              /\ found \in NamedIn(dir, u)
  <2>1. CASE ProxyDeletes(h)
    BY <2>1, Knowing, Went DEF ProxyDeletes, Go, At
  <2>2. CASE Lookup(h) /\ NamedIn(dir, u) = {}
    <3>1. Go(h, AfterDrop(req[h].op)) /\ req[h].at = "lookup"
      BY <2>2 DEF Lookup, Named, NamedIn, At
    <3> QED BY <2>2, <3>1, Knowing, Went DEF Go
  <2>3. CASE Lookup(h) /\ NamedIn(dir, u) # {}
    <3>1. /\ req[h].at = "lookup"
          /\ \E i \in NamedIn(dir, u) : req' = [req EXCEPT ![h].at = "drop_found", ![h].found = i]
      BY <2>3 DEF Lookup, Named, NamedIn, At
    <3>2. PICK i \in NamedIn(dir, u) :
            req' = [req EXCEPT ![h] = [req[h] EXCEPT !.at = "drop_found", !.found = i]]
      BY <3>1
    <3> QED BY <3>1, <3>2, Knowing, Moved
  <2> QED BY <2>1, <2>2, <2>3
<1>4. q.at = step /\ q.found = found /\ q.op = req[h].op /\ q.user = u /\ q.had = req[h].had
  BY <1>3 DEF ArrivedAt
<1>5. OursIn(dir, u) \subseteq NamedIn(dir, u)
  BY Knowing DEF DirectoryOK, OursIn, NamedIn
<1>6. \A i \in NamedIn(dir, u) : NamedIn(dir, u) \subseteq {i}
  BY Knowing DEF DirectoryOK, NamedIn
<1>7. Program(q)
  BY <1>1, <1>3, <1>4 DEF Program, AfterDrop
<1>8. quiet[h] => DeletesFaithfully(q, users, dir, seats)
  BY <1>1, <1>3, <1>4, <1>6, Knowing DEF DeletesFaithfully, AfterDrop
<1>9. SyncsFaithfully(q, users, dir, seats)
  BY <1>1, <1>4 DEF SyncsFaithfully, Syncs
<1>10. u \in Users \ crowded => Working(q, users, dir, seats)
  BY <1>1, <1>3, <1>4, <1>5, <1>6, Knowing DEF Working, AfterDrop
<1> QED BY <1>1, <1>2, <1>3, <1>4, <1>7, <1>8, <1>9, <1>10, SteadyStep

LEMMA TraceUnbind ==
  ASSUME IInv, TraceInv, NEW h \in Handlers, Unbind(h)
  PROVE  TraceInv'
<1> DEFINE u == req[h].user
           row == [OnUser(h) EXCEPT !.id = NoId, !.emu = "not_synced"]
           us == [users EXCEPT ![u] = row]
<1>1. req[h].at = "unbind" /\ Busy(req[h]) /\ req[h].op = "delete_emu" /\ u \in Users
  BY Knowing DEF Unbind, At, Busy, Program, UserSteps, Moves, Steps
<1>2. Update(h, row, "done") /\ UNCHANGED <<dir, seats, quiet, crowded>>
  BY DEF Unbind, remote, history
<1>3. u \in seats => u \in crowded
  BY <1>1, Knowing DEF Working
<1>4. ASSUME NEW q, Reached(q, h, "done")
      PROVE  /\ Program(q) /\ ~Busy(q)
             /\ DeletesFaithfully(q, us, dir, seats) /\ SyncsFaithfully(q, us, dir, seats)
  BY <1>1, <1>4 DEF Reached, Program, Busy, DeletesFaithfully, SyncsFaithfully, Syncs
<1> HIDE DEF row
<1> QED BY <1>1, <1>2, <1>3, <1>4, UpdateStep

LEMMA TraceErase ==
  ASSUME IInv, TraceInv, NEW h \in Handlers, Erase(h)
  PROVE  TraceInv'
<1> DEFINE u == req[h].user
<1>1. req[h].at = "erase" /\ Busy(req[h]) /\ req[h].op = "delete_sso" /\ u \in Users
  BY Knowing DEF Erase, At, Busy, Program, UserSteps, Moves, Steps
<1>2. UNCHANGED <<dir, seats, quiet, crowded>>
  BY DEF Erase, remote, history
<1>3. CASE u \notin DOMAIN users
  BY <1>1, <1>2, <1>3, StopStep DEF Erase
<1>4. CASE u \in DOMAIN users
  <2>1. users' = [v \in DOMAIN users \ {u} |-> users[v]] /\ End(h)
    BY <1>4 DEF Erase
  <2>2. PICK q : /\ req' = [req EXCEPT ![h] = q]
                 /\ q = Idle \/ ArrivedAt(q, h, "done", NoId)
    <3>1. CASE Stop(h)
      BY <3>1 DEF Stop
    <3>2. CASE req' = [req EXCEPT ![h].at = "done", ![h].found = NoId]
      <4>1. /\ req' = [req EXCEPT ![h] = [req[h] EXCEPT !.at = "done", !.found = NoId]]
            /\ ArrivedAt([req[h] EXCEPT !.at = "done", !.found = NoId], h, "done", NoId)
        BY <3>2, Knowing, Moved
      <4> QED BY <4>1
    <3> QED BY <2>1, <3>1, <3>2 DEF End
  <2>3. \A v \in Users : v # u => Spared(v)
    BY <1>2, <2>1 DEF Spared
  <2>4. u \in Users \ crowded => Traceable(u, users', dir', seats')
    BY <1>1, <1>2, Knowing DEF Working, Traceable
  <2>5. /\ Program(q) /\ ~Busy(q)
        /\ quiet[h] => /\ DeletesFaithfully(q, users', dir', seats')
                       /\ SyncsFaithfully(q, users', dir', seats')
    <3>1. CASE q = Idle
      BY <3>1, IdleIsHarmless
    <3>2. CASE ArrivedAt(q, h, "done", NoId)
      <4>1. q.at = "done" /\ q.op = "delete_sso" /\ q.user = u /\ q.had = req[h].had
        BY <1>1, <3>2 DEF ArrivedAt
      <4>2. u \notin DOMAIN users'
        BY <2>1
      <4>3. quiet[h] => DeletesFaithfully(q, users', dir', seats')
        BY <1>1, <1>2, <4>1, <4>2, Knowing DEF DeletesFaithfully
      <4> QED BY <4>1, <4>3 DEF Program, Busy, SyncsFaithfully, Syncs
    <3> QED BY <2>2, <3>1, <3>2
  <2>6. DirectoryOK(dir')
    BY <1>2, Knowing
  <2> HIDE DEF u
  <2> QED BY <1>1, <1>2, <2>2, <2>3, <2>4, <2>5, <2>6, HandlerStep DEF u
<1> QED BY <1>3, <1>4

LEMMA TraceDelete ==
  ASSUME IInv, TraceInv, NEW h \in Handlers, Delete(h)
  PROVE  TraceInv'
BY TraceDrop, TraceLookup, TraceUnbind, TraceErase DEF Delete

LEMMA TraceGiveUp ==
  ASSUME IInv, TraceInv, NEW h \in Handlers, GiveUp(h)
  PROVE  TraceInv'
<1>1. Busy(req[h]) /\ UNCHANGED <<users, dir, seats, quiet, crowded>>
  BY DEF GiveUp, Busy, local, remote, history
<1> QED BY <1>1, StopStep DEF GiveUp

(***************************************************************************)
(* Whatever else happens breaks every handler's quiet, and spares all.     *)
(***************************************************************************)
LEMMA OutsideStep ==
  ASSUME IInv, TraceInv, \A h \in Handlers : ~quiet'[h], UNCHANGED crowded,
         \A h \in Handlers : req'[h] = req[h] \/ req'[h] = Idle,
         DirectoryOK(dir'), \A v \in Users : Spared(v)
  PROVE  TraceInv'
<1>1. Alone'
  BY DEF Alone
<1>2. Separate'
  BY IdleIsHarmless DEF TraceInv, Separate
<1>3. ASSUME NEW h \in Handlers
      PROVE  /\ Program(req'[h])
             /\ Busy(req'[h]) /\ req'[h].user \in Users \ crowded' =>
                  Working(req'[h], users', dir', seats')
  BY IdleIsHarmless, SparedWork DEF TraceInv
<1>4. ASSUME NEW u \in Users \ crowded PROVE Traceable(u, users', dir', seats')
  BY SparedTrace DEF TraceInv
<1> QED BY <1>1, <1>2, <1>3, <1>4 DEF TraceInv

\* Applying a plan takes no user away, and leaves every binding.
LEMMA ApplySpares ==
  ASSUME IInv, NEW p \in Plans, Apply(p), UNCHANGED <<dir, seats>>
  PROVE  \A v \in Users : Spared(v)
<1>1. plans[p].rows \in PlanTables /\ users' = UsersAfter(users, plans[p].rows, limit)
  BY DEF IInv, Apply, Stored
<1>2. users' \in UserTables /\ DOMAIN users \subseteq DOMAIN users'
  <2>1. users' \in UserTables
    BY ApplyTypes
  <2>2. DOMAIN users \subseteq DOMAIN users'
    BY <1>1 DEF UsersAfter
  <2> QED BY <2>1, <2>2
<1>3. ASSUME NEW u \in DOMAIN users, users[u].id # NoId PROVE users'[u].id # NoId
  BY <1>1, <1>2, <1>3, KeepsBindings DEF IInv
<1> QED BY <1>2, <1>3 DEF Spared

LEMMA TraceImport ==
  ASSUME IInv, TraceInv, NEW h \in Handlers, Import(h)
  PROVE  TraceInv'
<1>1. /\ req[h].at \in {"list", "list_seats", "plan", "apply"} /\ Busy(req[h])
      /\ req[h].user = NoUser
  BY Knowing DEF Import, List, ListSeats, StorePlan, ApplyOwn, At, Busy, Program
<1>2. ASSUME NEW q, req' = [req EXCEPT ![h] = q], UNCHANGED <<users, dir, seats, quiet, crowded>>,
             q.user = NoUser, q.at \in {"list", "list_seats", "plan", "apply"}
      PROVE  TraceInv'
  <2>1. Program(q)
    BY <1>2 DEF Program
  <2>2. DeletesFaithfully(q, users, dir, seats) /\ SyncsFaithfully(q, users, dir, seats)
    BY <1>2 DEF DeletesFaithfully, SyncsFaithfully
  <2>3. req[h].user \notin Users
    BY <1>1, ImportAssumption DEF Users, NoUser
  <2> QED BY <1>1, <1>2, <2>1, <2>2, <2>3, SteadyStep
<1>3. CASE List(h)
  <2>1. PICK step, list : /\ step \in {"list", "list_seats", "plan", "apply"}
                          /\ req' = [req EXCEPT ![h].at = step, ![h].list = list]
    BY <1>3 DEF List
  <2> DEFINE q == [req[h] EXCEPT !.at = step, !.list = list]
  <2>2. req' = [req EXCEPT ![h] = q]
    BY <2>1
  <2>3. q.user = NoUser /\ q.at = step
    BY <1>1, Knowing DEF Requests, Task, Handler
  <2>4. UNCHANGED <<users, dir, seats, quiet, crowded>>
    BY <1>3 DEF List, local, remote, history
  <2> HIDE DEF q
  <2> QED BY <1>2, <2>1, <2>2, <2>3, <2>4
<1>4. CASE ListSeats(h)
  <2>1. PICK list : req' = [req EXCEPT ![h].at = "plan", ![h].list = list]
    BY <1>4 DEF ListSeats
  <2> DEFINE q == [req[h] EXCEPT !.at = "plan", !.list = list]
  <2>2. req' = [req EXCEPT ![h] = q]
    BY <2>1
  <2>3. q.user = NoUser /\ q.at = "plan"
    BY <1>1, Knowing DEF Requests, Task, Handler
  <2>4. UNCHANGED <<users, dir, seats, quiet, crowded>>
    BY <1>4 DEF ListSeats, local, remote, history
  <2> HIDE DEF q
  <2> QED BY <1>2, <2>2, <2>3, <2>4
<1>5. CASE StorePlan(h)
  <2>1. UNCHANGED <<users, dir, seats, quiet, crowded>>
    BY <1>5 DEF StorePlan, remote, history
  <2>2. CASE Stop(h)
    BY <1>1, <2>1, <2>2, StopStep
  <2>3. ASSUME NEW p, req' = [req EXCEPT ![h] = [Idle EXCEPT !.at = "apply", !.op = "import", !.plan = p]]
        PROVE  TraceInv'
    <3> DEFINE q == [Idle EXCEPT !.at = "apply", !.op = "import", !.plan = p]
    <3>1. q.user = NoUser /\ q.at = "apply"
      BY DEF Idle
    <3> HIDE DEF q
    <3> QED BY <1>2, <2>1, <2>3, <3>1 DEF q
  <2> QED BY <1>5, <2>2, <2>3 DEF StorePlan
<1>6. CASE ApplyOwn(h)
  <2>1. Stop(h) /\ UNCHANGED <<dir, seats, crowded>>
    BY <1>6 DEF ApplyOwn, remote
  <2>2. CASE UNCHANGED <<users, plans, quiet>>
    BY <1>1, <2>1, <2>2, StopStep
  <2>3. CASE plans[req[h].plan] # Unused /\ Apply(req[h].plan)
    <3>1. req[h].plan \in Plans
      <4>1. req[h] \in Task /\ req[h].at = "apply"
        BY <1>6 DEF IInv, Requests, ApplyOwn, At
      <4> QED BY <4>1 DEF Task
    <3>2. \A v \in Users : Spared(v)
      BY <2>1, <2>3, <3>1, ApplySpares
    <3>3. \A k \in Handlers : ~quiet'[k]
      BY <2>3 DEF Apply
    <3>4. \A k \in Handlers : req'[k] = req[k] \/ req'[k] = Idle
      BY <2>1, Knowing DEF Stop, Requests
    <3>5. DirectoryOK(dir')
      BY <2>1, Knowing
    <3> QED BY <2>1, <3>2, <3>3, <3>4, <3>5, OutsideStep
  <2> QED BY <1>6, <2>2, <2>3 DEF ApplyOwn
<1> QED BY <1>3, <1>4, <1>5, <1>6 DEF Import

\* Everything TraceInv speaks of stays as it is.
LEMMA NothingTraced ==
  ASSUME TraceInv, UNCHANGED <<users, req, dir, seats, quiet, crowded>>
  PROVE  TraceInv'
BY DEF TraceInv, Alone, Separate

LEMMA TraceOperator ==
  ASSUME IInv, TraceInv, Operator
  PROVE  TraceInv'
<1>1. ASSUME NEW p \in Plans, ApplyPlan(p) PROVE TraceInv'
  <2>1. Apply(p) /\ UNCHANGED <<req, dir, seats, crowded>>
    BY <1>1 DEF ApplyPlan, Edit, remote
  <2>2. \A h \in Handlers : ~quiet'[h]
    BY <2>1 DEF Apply
  <2> QED BY <2>1, <2>2, ApplySpares, Knowing, OutsideStep DEF TraceInv
<1>2. ASSUME NEW p \in Plans, DeletePlan(p) PROVE TraceInv'
  BY <1>2, NothingTraced DEF DeletePlan, Edit, remote
<1>3. ASSUME NEW u \in Users, CreateUser(u) PROVE TraceInv'
  <2>1. /\ UNCHANGED <<req, dir, seats, crowded>> /\ u \notin DOMAIN users
        /\ users' = [v \in DOMAIN users \cup {u} |-> IF v = u THEN NewRow ELSE users[v]]
        /\ \A h \in Handlers : ~quiet'[h]
    BY <1>3 DEF CreateUser, Edit, Disturb, remote
  <2>2. \A v \in Users : Spared(v)
    BY <2>1 DEF Spared
  <2> QED BY <2>1, <2>2, OutsideStep DEF TraceInv
<1>4. ASSUME NEW l \in Limits, SetLimit(l) PROVE TraceInv'
  BY <1>4, NothingTraced DEF SetLimit, Edit, remote
<1> QED BY <1>1, <1>2, <1>3, <1>4 DEF Operator

LEMMA TraceAdministrator ==
  ASSUME IInv, TraceInv, Administrator
  PROVE  TraceInv'
<1>1. ASSUME Administer, DirectoryOK(dir'), \A u \in Users : OursIn(dir', u) \subseteq OursIn(dir, u)
      PROVE  TraceInv'
  <2>1. UNCHANGED <<users, req, seats, crowded>> /\ \A h \in Handlers : ~quiet'[h]
    BY <1>1 DEF Administer, Edit, Disturb, local
  <2>2. \A u \in Users : Spared(u)
    BY <1>1, <2>1 DEF Spared
  <2> QED BY <1>1, <2>1, <2>2, OutsideStep
<1>2. dir \in Directories /\ DirectoryOK(dir)
  BY DEF IInv, TraceInv
<1>3. ASSUME NEW n \in Names, AdminCreates(n) PROVE TraceInv'
  BY <1>1, <1>2, <1>3, AddEffect DEF AdminCreates
<1>4. ASSUME NEW i \in DOMAIN dir, AdminDeletes(i) PROVE TraceInv'
  <2>1. Administer /\ Kill(i)
    BY <1>4 DEF AdminDeletes
  <2>2. DirectoryOK(dir') /\ \A u \in Users : OursIn(dir', u) \subseteq OursIn(dir, u)
    BY <1>2, <2>1, KillEffect
  <2> QED BY <1>1, <2>1, <2>2
<1>5. ASSUME NEW i \in DOMAIN dir, AdminSuspends(i) PROVE TraceInv'
  <2> DEFINE e == [dir[i] EXCEPT !.active = ~@]
  <2>1. e.name = dir[i].name /\ e.live = dir[i].live /\ e.ours = dir[i].ours
    BY <1>2, EntryId DEF Entry
  <2>2. Administer /\ dir' = [dir EXCEPT ![i] = e]
    BY <1>5 DEF AdminSuspends
  <2> HIDE DEF e
  <2>3. /\ DOMAIN dir' = DOMAIN dir
        /\ \A j \in DOMAIN dir : /\ dir'[j].name = dir[j].name /\ dir'[j].live = dir[j].live
                                /\ dir'[j].ours = dir[j].ours
    BY <1>2, <2>1, <2>2 DEF Directories
  <2>4. DirectoryOK(dir') /\ \A u \in Users : OursIn(dir', u) \subseteq OursIn(dir, u)
    BY <1>2, <2>3 DEF DirectoryOK, OursIn
  <2> QED BY <1>1, <2>2, <2>4
<1>6. ASSUME NEW i \in DOMAIN dir, NEW n \in Names, AdminRenames(i, n) PROVE TraceInv'
  <2> DEFINE e == [dir[i] EXCEPT !.name = n, !.ours = FALSE]
  <2>1. e.name = n /\ e.live = dir[i].live /\ e.ours = FALSE
    BY <1>2, EntryId DEF Entry
  <2>2. Administer /\ dir' = [dir EXCEPT ![i] = e] /\ Named(n) = {} /\ Live(i)
    BY <1>6 DEF AdminRenames
  <2> HIDE DEF e
  <2>3. /\ DOMAIN dir' = DOMAIN dir /\ dir'[i] = e
        /\ \A j \in DOMAIN dir \ {i} : dir'[j] = dir[j]
    BY <1>2, <2>2 DEF Directories
  <2>4. \A j \in DOMAIN dir : ~(dir[j].live /\ dir[j].name = n)
    BY <2>2 DEF Named
  <2>5. DirectoryOK(dir') /\ \A u \in Users : OursIn(dir', u) \subseteq OursIn(dir, u)
    BY <1>2, <2>1, <2>3, <2>4 DEF DirectoryOK, OursIn
  <2> QED BY <1>1, <2>2, <2>5
<1> QED BY <1>3, <1>4, <1>5, <1>6 DEF Administrator

\* A handler starts: it is quiet if all the others rest, and its user is crowded
\* if another handler works on it.
LEMMA BeginStep ==
  ASSUME IInv, TraceInv, NEW h \in Handlers, NEW q, Begin(h, q), UNCHANGED <<dir, seats>>,
         \A v \in Users : Spared(v), Program(q),
         DeletesFaithfully(q, users', dir', seats'), SyncsFaithfully(q, users', dir', seats'),
         Busy(q) /\ q.user \in Users \ crowded' => Working(q, users', dir', seats')
  PROVE  TraceInv'
<1>1. req'[h] = q /\ \A k \in Handlers \ {h} : req'[k] = req[k]
  BY DEF IInv, Requests, Begin
<1>2. \A k \in Handlers : quiet'[k] => k = h /\ \A j \in Handlers \ {h} : ~Busy(req[j])
  BY DEF Begin, Resting, Busy
<1>3. /\ crowded \subseteq crowded'
      /\ \A j \in Handlers \ {h} : Busy(req[j]) /\ req[j].user = q.user /\ q.user # NoUser =>
           q.user \in crowded'
  BY DEF Begin, Resting, Busy
<1>4. NoUser \notin Users
  BY ImportAssumption DEF Users, NoUser
<1>5. Alone'
  BY <1>1, <1>2 DEF Alone
<1>6. Separate'
  BY <1>1, <1>3, <1>4 DEF TraceInv, Separate
<1>7. ASSUME NEW k \in Handlers
      PROVE  /\ Program(req'[k])
             /\ quiet'[k] => /\ DeletesFaithfully(req'[k], users', dir', seats')
                             /\ SyncsFaithfully(req'[k], users', dir', seats')
             /\ Busy(req'[k]) /\ req'[k].user \in Users \ crowded' =>
                  Working(req'[k], users', dir', seats')
  <2>1. CASE k = h
    BY <1>1, <2>1
  <2>2. CASE k # h
    BY <1>1, <1>2, <1>3, <2>2, SparedWork DEF TraceInv
  <2> QED BY <2>1, <2>2
<1>8. ASSUME NEW u \in Users \ crowded' PROVE Traceable(u, users', dir', seats')
  BY <1>3, SparedTrace DEF TraceInv
<1>9. DirectoryOK(dir')
  BY DEF TraceInv
<1> QED BY <1>5, <1>6, <1>7, <1>8, <1>9 DEF TraceInv

LEMMA TraceStart ==
  ASSUME IInv, TraceInv, NEW h \in Handlers, NEW op \in UserOps, NEW u \in Users, Start(h, op, u)
  PROVE  TraceInv'
<1> DEFINE id == users[u].id
           step == FirstStep(op, id)
           q == IF step = "idle" THEN Idle
                ELSE [Idle EXCEPT !.at = step, !.op = op, !.user = u, !.had = id]
           seat == IF op = "assign_copilot" THEN "assign_failed" ELSE "unassigned"
<1>1. Begin(h, q) /\ UNCHANGED <<dir, seats>> /\ u \in DOMAIN users
  BY DEF Start, remote
<1>2. DOMAIN users \subseteq Users /\ users \in [DOMAIN users -> Row]
  BY UserTable DEF IInv
<1>3. /\ DOMAIN users' = DOMAIN users
      /\ \A v \in DOMAIN users : users'[v].id = users[v].id
  <2>1. users' = users \/ users' = [users EXCEPT ![u] = [users[u] EXCEPT !.seat = seat]]
    BY DEF Start
  <2>2. [users[u] EXCEPT !.seat = seat].id = users[u].id
    BY <1>1, <1>2 DEF Row
  <2> QED BY <1>1, <1>2, <2>1, <2>2
<1>4. \A v \in Users : Spared(v)
  BY <1>1, <1>3 DEF Spared
<1>5. \/ q = Idle
      \/ q.at = step /\ q.op = op /\ q.user = u /\ q.had = id
  BY DEF Idle
<1>6. /\ step = "replace" \/ step = "create" => op \in Syncs
      /\ step = "patch" => op = "suspend_emu" /\ id # NoId
      /\ step = "assign" => op = "assign_copilot" /\ id # NoId
      /\ step = "unseat" => op \in Unseating
      /\ step = "lookup" => op \in {"delete_emu", "delete_sso"} /\ id = NoId
      /\ step = "done" => op = "remove_copilot"
      /\ step \in {"replace", "create", "patch", "assign", "unseat", "lookup", "done", "idle"}
  <2>1. op = "suspend_emu" => id # NoId
    BY DEF Start
  <2> HIDE DEF id
  <2> QED BY <2>1 DEF FirstStep, AfterUnseat, UserOps, Syncs, Unseating
<1> HIDE DEF q, step, id
<1>7. Program(q)
  BY <1>5, <1>6, IdleIsHarmless DEF Program
<1>8. DeletesFaithfully(q, users', dir', seats')
  <2>1. ~Alive(dir', NoId)
    BY <1>1, Knowing DEF Alive, NoId, Directories
  <2> QED BY <1>5, <1>6, <2>1, IdleIsHarmless DEF DeletesFaithfully
<1>9. SyncsFaithfully(q, users', dir', seats')
  BY <1>5, <1>6, IdleIsHarmless DEF SyncsFaithfully, Syncs
<1>10. ASSUME Busy(q), q.user \in Users \ crowded' PROVE Working(q, users', dir', seats')
  <2>1. q.at = step /\ q.user = u /\ u \notin crowded
    BY <1>1, <1>5, <1>10, IdleIsHarmless DEF Begin
  <2>2. id = NoId => u \notin seats
    BY <2>1 DEF TraceInv, Traceable, id
  <2>3. users'[u].id = id
    BY <1>1, <1>3 DEF id
  <2> QED BY <1>1, <1>3, <1>6, <2>1, <2>2, <2>3 DEF Working
<1> QED BY <1>1, <1>4, <1>7, <1>8, <1>9, <1>10, BeginStep

LEMMA TraceStartImport ==
  ASSUME IInv, TraceInv, NEW h \in Handlers, NEW op \in ImportOps, NEW n \in Names \cup {Everyone},
         StartImport(h, op, n)
  PROVE  TraceInv'
<1> DEFINE q == [Idle EXCEPT !.at = "list", !.op = op, !.target = n]
<1>1. Begin(h, q) /\ UNCHANGED <<users, dir, seats>>
  BY DEF StartImport, local, remote
<1>2. q.at = "list" /\ q.user = NoUser
  BY DEF Idle
<1> HIDE DEF q
<1>3. /\ Program(q) /\ DeletesFaithfully(q, users', dir', seats')
      /\ SyncsFaithfully(q, users', dir', seats')
  BY <1>2 DEF Program, DeletesFaithfully, SyncsFaithfully
<1>4. q.user \notin Users
  BY <1>2, ImportAssumption DEF Users, NoUser
<1>5. \A v \in Users : Spared(v)
  BY <1>1 DEF Spared
<1> QED BY <1>1, <1>3, <1>4, <1>5, BeginStep

LEMMA TraceInit == Init => TraceInv
<1> SUFFICES ASSUME Init PROVE TraceInv
  OBVIOUS
<1>1. PICK known \in SUBSET Users, synced \in SUBSET Users, n \in 0..MaxIds :
        /\ synced \subseteq known /\ synced = 1..n
        /\ users = [u \in known |-> IF u \in synced THEN [NewRow EXCEPT !.id = u, !.emu = "active"]
                                                    ELSE NewRow]
        /\ dir = [i \in 1..n |-> [name |-> Name(i), active |-> TRUE, live |-> TRUE, ours |-> TRUE]]
  BY DEF Init
<1>2. DOMAIN dir = 1..n /\ \A i \in 1..n : dir[i].live /\ dir[i].name = Name(i)
  BY <1>1
<1>3. DirectoryOK(dir)
  <2>1. \A i, j \in 1..n : Name(i) = Name(j) => i = j
    BY DEF Name
  <2> QED BY <1>2, <2>1 DEF DirectoryOK
<1>4. /\ \A h \in Handlers : req[h] = Idle /\ ~quiet[h]
      /\ seats = {}
  BY DEF Init
<1>5. Alone /\ Separate
  BY <1>4, IdleIsHarmless DEF Alone, Separate
<1>6. ASSUME NEW u \in Users PROVE Traceable(u, users, dir, seats)
  <2>1. ASSUME NEW i \in OursIn(dir, u) PROVE u \in DOMAIN users
    <3>1. i \in 1..n /\ Name(i) = Name(u)
      BY <1>2 DEF OursIn
    <3>2. u \in known
      BY <1>1, <3>1 DEF Name
    <3> QED BY <1>1, <3>2
  <2> QED BY <1>4, <2>1 DEF Traceable
<1> QED BY <1>3, <1>4, <1>5, <1>6, IdleIsHarmless DEF TraceInv

LEMMA TraceStep == IInv /\ TraceInv /\ [Next]_vars => TraceInv'
<1> SUFFICES ASSUME IInv, TraceInv, [Next]_vars PROVE TraceInv'
  OBVIOUS
<1>1. ASSUME NEW h \in Handlers, NEW op \in UserOps, NEW u \in Users, Start(h, op, u) PROVE TraceInv'
  BY <1>1, TraceStart
<1>2. ASSUME NEW h \in Handlers, NEW op \in ImportOps, NEW n \in Names \cup {Everyone},
             StartImport(h, op, n)
      PROVE  TraceInv'
  BY <1>2, TraceStartImport
<1>3. ASSUME NEW h \in Handlers, Continue(h) PROVE TraceInv'
  BY <1>3, TraceSync, TraceSeat, TraceDelete, TraceImport, TraceGiveUp DEF Continue
<1>4. CASE Operator
  BY <1>4, TraceOperator
<1>5. CASE Administrator
  BY <1>5, TraceAdministrator
<1>6. CASE UNCHANGED vars
  BY <1>6, NothingTraced DEF vars, local, remote, history
<1> QED BY <1>1, <1>2, <1>3, <1>4, <1>5, <1>6 DEF Next

\* What every handler has achieved at the step it is at, alone or not, and what
\* a user leaves behind (userService's handlers, scimClient, copilotSeatService).
THEOREM TraceInvariance == Spec => []TraceInv
BY TraceInit, TraceStep, Inductive, PTL DEF Spec

\* A deletion with nothing beside it leaves no entry and no seat, whatever failed
\* or was repeated before (deleteSsoUser, deleteProvisionedUser).
THEOREM DeletedCompletely == Spec => []DeleteIsComplete
<1>1. IInv /\ TraceInv => DeleteIsComplete
  <2> SUFFICES ASSUME IInv, TraceInv, NEW h \in Handlers, Completed(h, "delete_sso")
               PROVE  LET u == req[h].user
                      IN  /\ u \notin DOMAIN users
                          /\ Named(Name(u)) = {} /\ ~Live(req[h].had)
                          /\ req[h].had # NoId => u \notin seats
    BY DEF DeleteIsComplete
  <2>1. req[h].at = "done" /\ req[h].op = "delete_sso" /\ quiet[h]
    BY DEF Completed
  <2>2. DeletesFaithfully(req[h], users, dir, seats)
    BY <2>1, Knowing
  <2> QED BY <2>1, <2>2 DEF DeletesFaithfully, NamedIn, Named, Alive, Live
<1> QED BY <1>1, Inductive, TraceInvariance, PTL

\* A sync with nothing beside it binds the row to the one live, active entry of
\* the user's name (syncUser, upsertProvisionedUser).
THEOREM SyncedFaithfully == Spec => []SyncIsFaithful
<1>1. IInv /\ TraceInv => SyncIsFaithful
  <2> SUFFICES ASSUME IInv, TraceInv, NEW h \in Handlers, NEW op \in Syncs, Completed(h, op)
               PROVE  LET row == users[req[h].user]
                      IN  /\ Named(Name(req[h].user)) = {row.id}
                          /\ row.emu = "active" /\ dir[row.id].active
                          /\ op = "sync_emu_and_seat" =>
                               row.seat = "assigned" /\ req[h].user \in seats
    BY DEF SyncIsFaithful
  <2>1. req[h].at = "done" /\ req[h].op = op /\ quiet[h]
    BY DEF Completed
  <2>2. SyncsFaithfully(req[h], users, dir, seats) /\ DirectoryOK(dir)
    BY <2>1, Knowing
  <2>3. BoundIn(users, dir, req[h].user)
    BY <2>1, <2>2 DEF SyncsFaithfully
  <2>4. Named(Name(req[h].user)) = {users[req[h].user].id}
    BY <2>2, <2>3 DEF BoundIn, NamedIn, Named, DirectoryOK
  <2> QED BY <2>1, <2>2, <2>3, <2>4 DEF SyncsFaithfully, BoundIn
<1> QED BY <1>1, Inductive, TraceInvariance, PTL

\* Nothing this service created for a user outlives the row that says so, unless
\* two handlers worked on the user at once (deleteSsoUser's order of steps).
THEOREM NobodyOrphaned == Spec => []NothingOrphaned
<1>1. TraceInv => NothingOrphaned
  BY DEF TraceInv, Traceable, OursIn, NothingOrphaned
<1> QED BY <1>1, TraceInvariance, PTL
=============================================================================

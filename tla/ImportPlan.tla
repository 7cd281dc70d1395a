----------------------------- MODULE ImportPlan -----------------------------
(***************************************************************************)
(* Import plans of the SSO service: how a listing of GitHub's directory is *)
(* compared with the local users (the preview), and how a stored plan is   *)
(* applied to local users that may have changed since.                     *)
(*                                                                         *)
(* Local users are numbers, in the order of their names; `users' is the    *)
(* table sso_users, a function from the users there are.  The GitHub login *)
(* follows from the name, and is in a row when the directory id is.        *)
(***************************************************************************)
EXTENDS Naturals, FiniteSets

CONSTANTS
  NumUsers,  \* how many local user names there are
  MaxIds     \* bound: how many entries the directory ever has

ASSUME ImportAssumption == NumUsers \in Nat /\ MaxIds \in Nat

Users   == 1..NumUsers
Ids     == 1..MaxIds
NoId    == 0
NoUser  == 0
NoLimit == 0

EmuStatuses  == {"not_synced", "active", "suspended"}
SeatStatuses == {"unknown", "assigned", "unassigned", "assign_failed", "remove_failed"}
PlanStatuses == {"pending_create", "pending_update", "created", "updated", "skipped",
                 "conflict", "failed"}

Row == [id : Ids \cup {NoId}, emu : EmuStatuses, seat : SeatStatuses]
Candidate == [user : Users, emu : {"active", "suspended"}, seat : {"assigned", "unassigned"}]
PlanRow == [user : Users, emu : {"active", "suspended"}, seat : {"assigned", "unassigned"},
            status : PlanStatuses]

UserTables == UNION {[S -> Row] : S \in SUBSET Users}
PlanTables == UNION {[S -> PlanRow] : S \in SUBSET Ids}
Listings   == UNION {[S -> Candidate] : S \in SUBSET Ids}

(***************************************************************************)
(* Local users against the directory.                                      *)
(***************************************************************************)
\* localByScimId, filled in the order of the names: the last one stays.
Holder(users, i) ==
  LET holders == {u \in DOMAIN users : users[u].id = i}
  IN  IF holders = {} THEN NoUser ELSE CHOOSE u \in holders : \A v \in holders : v <= u

Conflict(users, u, i) ==
  \/ Holder(users, i) \notin {NoUser, u}
  \/ u \in DOMAIN users /\ users[u].id \notin {NoId, i}

Duplicate(list, i) == \E j \in DOMAIN list \ {i} : list[j].user = list[i].user

Aligned(row, c, i) == row = [id |-> i, emu |-> c.emu, seat |-> c.seat]

\* The preview.  `differs' are the entries whose email is not that of the row.
PlannedStatus(list, users, differs, i) ==
  LET c == list[i]
  IN  IF Duplicate(list, i) \/ Conflict(users, c.user, i) THEN "conflict"
      ELSE IF c.user \notin DOMAIN users THEN "pending_create"
      ELSE IF Aligned(users[c.user], c, i) /\ i \notin differs THEN "skipped"
      ELSE "pending_update"

BuildPlan(list, users, differs) ==
  [i \in DOMAIN list |->
     [user |-> list[i].user, emu |-> list[i].emu, seat |-> list[i].seat,
      status |-> PlannedStatus(list, users, differs, i)]]

(***************************************************************************)
(* Applying a plan: rows in their order, in one transaction.  The conflict *)
(* test reads the users as they were when the transaction began; the limit *)
(* counts the users created before.                                        *)
(***************************************************************************)
Pending(plan) == {i \in DOMAIN plan : plan[i].status \in {"pending_create", "pending_update"}}

\* Mutant: only what the preview promised to create or update is looked at again.
MutantStale(users, plan, i) ==
  IF plan[i].status = "pending_create" THEN plan[i].user \in DOMAIN users
                                       ELSE plan[i].user \notin DOMAIN users

Stale(users, plan, i) ==
  \/ Conflict(users, plan[i].user, i)
  \/ plan[i].status = "pending_create" /\ plan[i].user \in DOMAIN users
  \/ plan[i].status = "pending_update" /\ plan[i].user \notin DOMAIN users

Fresh(users, plan) == {i \in Pending(plan) : ~Stale(users, plan, i)}
Creates(users, plan) == {i \in Fresh(users, plan) : plan[i].status = "pending_create"}

HasRoom(count, limit) == limit = NoLimit \/ count < limit

\* Mutant: every row of the plan is held against the users there were at first.
MutantRoomFor(users, plan, limit, i) == HasRoom(Cardinality(DOMAIN users), limit)

RoomFor(users, plan, limit, i) ==
  HasRoom(Cardinality(DOMAIN users) + Cardinality({j \in Creates(users, plan) : j < i}), limit)

Outcome(users, plan, limit, i) ==
  IF i \notin Pending(plan) THEN plan[i].status
  ELSE IF Stale(users, plan, i) THEN "conflict"
  ELSE IF plan[i].status = "pending_update" THEN "updated"
  ELSE IF RoomFor(users, plan, limit, i) THEN "created"
  ELSE "failed"

\* Mutant: only a row that is not written is marked.
MutantApplied(users, plan, limit) ==
  [i \in DOMAIN plan |->
     IF Outcome(users, plan, limit, i) \in {"created", "updated"} THEN plan[i]
     ELSE [plan[i] EXCEPT !.status = Outcome(users, plan, limit, i)]]

Applied(users, plan, limit) ==
  [i \in DOMAIN plan |-> [plan[i] EXCEPT !.status = Outcome(users, plan, limit, i)]]

\* The entries whose user is written.
Written(users, plan, limit) ==
  {i \in Pending(plan) : Outcome(users, plan, limit, i) \in {"created", "updated"}}

UsersAfter(users, plan, limit) ==
  LET written == Written(users, plan, limit)
  IN  [u \in DOMAIN users \cup {plan[i].user : i \in written} |->
         IF \E i \in written : plan[i].user = u
           THEN LET i == CHOOSE i \in written : plan[i].user = u
                IN  [id |-> i, emu |-> plan[i].emu, seat |-> plan[i].seat]
           ELSE users[u]]
=============================================================================

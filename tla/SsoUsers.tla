------------------------------ MODULE SsoUsers ------------------------------
(***************************************************************************)
(* The SSO service's users, GitHub's directory (SCIM) and its Copilot      *)
(* seats.                                                                  *)
(*                                                                         *)
(* A handler reads its user once and then awaits one request after the     *)
(* other; what it writes in between, it writes to whatever row there is by *)
(* then.  The database is synchronous, so a handler is interrupted only at *)
(* a request.  `at' says which request a handler has under way, or which   *)
(* answer it has to act upon.  A directory request may fail, and its       *)
(* answer may be lost after it took effect: it is then repeated.  A seat   *)
(* request is made once.                                                   *)
(*                                                                         *)
(* An entry of the directory is named by its id, its place in `dir'.  Its  *)
(* userName is a local user and a variant of that user's name: variant 0   *)
(* is the name itself, the others differ from it in what the import strips *)
(* from a userName, such as its mail domain.                               *)
(***************************************************************************)
EXTENDS ImportPlan, Sequences

CONSTANTS
  Variants,   \* how many variants a name has beside itself
  Handlers,   \* the request handlers
  NumPlans,   \* bound: how many plans are stored at once
  Limits,     \* the values maxSsoUsers may be given
  MaxOps,     \* bound: how many handlers start
  MaxEdits    \* bound: what else operators and GitHub's administrators do

ASSUME SsoAssumption ==
  /\ Variants \in Nat /\ NumPlans \in Nat /\ MaxOps \in Nat /\ MaxEdits \in Nat
  /\ Limits \subseteq Nat /\ Limits # {}

VARIABLES
  users,    \* sso_users
  limit,    \* maxSsoUsers
  plans,    \* sso_emu_import_plans and their rows
  req,      \* the handlers
  dir,      \* the directory
  seats,    \* the users whose login has a Copilot seat
  \* history
  quiet,    \* the handlers beside which nothing has happened since they started
  crowded,  \* the users that two handlers have worked on at once
  ops, edits

local   == <<users, limit, plans>>
remote  == <<dir, seats>>
history == <<quiet, crowded, ops, edits>>
vars    == <<local, req, remote, history>>

Names == [user : Users, variant : 0..Variants]
Name(u) == [user |-> u, variant |-> 0]
Everyone == [user |-> NoUser, variant |-> 0]  \* a plan for the whole directory

Syncs     == {"sync_emu", "sync_emu_and_seat"}
Unseating == {"remove_copilot", "delete_emu", "delete_sso"}
UserOps   == Syncs \cup Unseating \cup {"suspend_emu", "assign_copilot"}
ImportOps == {"preview", "import"}

Steps == {"idle", "done", "replace", "create", "find", "adopt", "bind", "assign", "assigned",
          "assign_failed", "unseat", "unseated", "unseat_failed", "drop", "lookup", "drop_found",
          "unbind", "proxy", "erase", "patch", "patched", "list", "list_seats", "plan", "apply"}

Plans   == 1..NumPlans
NoPlan  == 0
Unused  == [status |-> "none", rows |-> <<>>]

Handler == [at : Steps, op : UserOps \cup ImportOps \cup {"none"}, user : Users \cup {NoUser},
            had : Ids \cup {NoId},     \* user.ghScimId, as it was read
            found : Ids \cup {NoId},   \* the id the directory answered
            target : Names \cup {Everyone},
            list : Listings,
            plan : Plans \cup {NoPlan}]
Idle == [at |-> "idle", op |-> "none", user |-> NoUser, had |-> NoId, found |-> NoId,
         target |-> Everyone, list |-> <<>>, plan |-> NoPlan]

Entry == [name : Names, active : BOOLEAN, live : BOOLEAN,
          ours : BOOLEAN]  \* created by this service, and left so by GitHub's administrators

TypeOK ==
  /\ users \in UserTables
  /\ limit \in Limits
  /\ plans \in [Plans -> {Unused} \cup [status : {"planned", "applied"}, rows : PlanTables]]
  /\ req \in [Handlers -> Handler]
  /\ dir \in Seq(Entry) /\ Len(dir) <= MaxIds
  /\ seats \subseteq Users
  /\ quiet \in [Handlers -> BOOLEAN]
  /\ crowded \subseteq Users
  /\ ops \in 0..MaxOps /\ edits \in 0..MaxEdits

(***************************************************************************)
(* The directory.                                                          *)
(***************************************************************************)
Live(i)  == i \in DOMAIN dir /\ dir[i].live
Named(n) == {i \in DOMAIN dir : dir[i].live /\ dir[i].name = n}

AddEntry(n, ours) ==
  /\ Len(dir) < MaxIds /\ Named(n) = {}
  /\ dir' = Append(dir, [name |-> n, active |-> TRUE, live |-> TRUE, ours |-> ours])

(***************************************************************************)
(* A handler.                                                              *)
(***************************************************************************)
Resting(h) == req[h].at \in {"idle", "done"}
At(h, step) == req[h].at = step
Go(h, step) == req' = [req EXCEPT ![h].at = step]
Stop(h) == req' = [req EXCEPT ![h] = Idle]

\* A handler that has ended is remembered if a property speaks of it.
Remembered(h) == quiet[h] /\ req[h].op \in Syncs \cup {"delete_sso"}
End(h) ==
  IF Remembered(h) THEN req' = [req EXCEPT ![h].at = "done", ![h].found = NoId] ELSE Stop(h)
EndOrGo(h, next) ==
  CASE next = "idle" -> Stop(h) [] next = "done" -> End(h) [] OTHER -> Go(h, next)

\* The answer arrives, or it is lost and the request repeated.
Answered(h, next) == req' = [req EXCEPT ![h] = next] \/ UNCHANGED req

\* UPDATE changes nothing where there is no row, and reading it back throws.
Update(h, row, next) ==
  LET u == req[h].user
  IN  IF u \in DOMAIN users
        THEN users' = [users EXCEPT ![u] = row] /\ EndOrGo(h, next)
        ELSE UNCHANGED users /\ Stop(h)

OnUser(h) == users[req[h].user]

(***************************************************************************)
(* Handlers of one user.  In a batch each user is such a handler.          *)
(***************************************************************************)
Begin(h, next) ==
  /\ Resting(h) /\ ops < MaxOps /\ ops' = ops + 1
  /\ req' = [req EXCEPT ![h] = next]
  /\ quiet' = [k \in Handlers |-> k = h /\ \A j \in Handlers \ {h} : Resting(j)]
  /\ crowded' = IF \E j \in Handlers \ {h} : ~Resting(j) /\ req[j].user = next.user
                  THEN crowded \cup ({next.user} \ {NoUser}) ELSE crowded
  /\ UNCHANGED edits

AfterUnseat(op, id) ==
  IF op = "remove_copilot" THEN "done" ELSE IF id # NoId THEN "drop" ELSE "lookup"

FirstStep(op, id) ==
  CASE op \in Syncs -> IF id # NoId THEN "replace" ELSE "create"
    [] op = "suspend_emu" -> "patch"
    [] op = "assign_copilot" -> IF id # NoId THEN "assign" ELSE "idle"
    [] op \in Unseating -> IF id # NoId THEN "unseat" ELSE AfterUnseat(op, id)

\* Without a login the seat is recorded at once: as removed, or as not assigned.
Start(h, op, u) ==
  /\ u \in DOMAIN users
  /\ op = "suspend_emu" => users[u].id # NoId
  /\ LET id == users[u].id
         step == FirstStep(op, id)
     IN  /\ Begin(h, IF step = "idle" THEN Idle
                     ELSE [Idle EXCEPT !.at = step, !.op = op, !.user = u, !.had = id])
         /\ users' = IF id # NoId \/ op \in Syncs THEN users
                     ELSE [users EXCEPT ![u].seat =
                             IF op = "assign_copilot" THEN "assign_failed" ELSE "unassigned"]
  /\ UNCHANGED <<limit, plans, remote>>

\* Mutant: a deletion goes on when the directory does not answer.
MutantGiveUp(h) ==
  /\ req[h].at \in {"replace", "create", "find", "adopt", "patch", "drop", "lookup", "drop_found",
                    "proxy", "list", "list_seats"}
  /\ IF req[h].op = "delete_sso" /\ req[h].at # "proxy" THEN Go(h, "proxy") ELSE Stop(h)
  /\ UNCHANGED <<local, remote, history>>

\* A request fails, after its last repetition.
GiveUp(h) ==
  /\ req[h].at \in {"replace", "create", "find", "adopt", "patch", "drop", "lookup", "drop_found",
                    "proxy", "list", "list_seats"}
  /\ Stop(h)
  /\ UNCHANGED <<local, remote, history>>

\* PUT of an entry: it takes the user's own name, and is active.
Put(h, i) ==
  LET mine == Name(req[h].user)
  IN  IF Named(mine) \ {i} # {} THEN Stop(h) /\ UNCHANGED dir
      ELSE /\ dir' = [dir EXCEPT ![i].name = mine, ![i].active = TRUE]
           /\ Answered(h, [req[h] EXCEPT !.at = "bind", !.found = i])

\* Mutant: an entry that is gone counts as updated.
MutantReplace(h) ==
  /\ At(h, "replace")
  /\ IF Live(req[h].had) THEN Put(h, req[h].had)
     ELSE req' = [req EXCEPT ![h].at = "bind", ![h].found = req[h].had] /\ UNCHANGED dir
  /\ UNCHANGED <<local, seats, history>>

Replace(h) ==
  /\ At(h, "replace")
  /\ IF Live(req[h].had) THEN Put(h, req[h].had) ELSE Go(h, "create") /\ UNCHANGED dir
  /\ UNCHANGED <<local, seats, history>>

Create(h) ==
  /\ At(h, "create")
  /\ IF Named(Name(req[h].user)) # {} THEN Go(h, "find") /\ UNCHANGED dir
     ELSE /\ AddEntry(Name(req[h].user), TRUE)
          /\ Answered(h, [req[h] EXCEPT !.at = "bind", !.found = Len(dir) + 1])
  /\ UNCHANGED <<local, seats, history>>

Find(h) ==
  /\ At(h, "find")
  /\ IF Named(Name(req[h].user)) = {} THEN Stop(h)
     ELSE \E i \in Named(Name(req[h].user)) :
            req' = [req EXCEPT ![h].at = "adopt", ![h].found = i]
  /\ UNCHANGED <<local, remote, history>>

Adopt(h) ==
  /\ At(h, "adopt")
  /\ IF Live(req[h].found) THEN Put(h, req[h].found) ELSE Stop(h) /\ UNCHANGED dir
  /\ UNCHANGED <<local, seats, history>>

Bind(h) ==
  /\ At(h, "bind")
  /\ Update(h, [OnUser(h) EXCEPT !.id = req[h].found, !.emu = "active"],
            IF req[h].op = "sync_emu" THEN "done" ELSE "assign")
  /\ UNCHANGED <<limit, plans, remote, history>>

Suspend(h) ==
  /\ At(h, "patch")
  /\ IF Live(req[h].had)
       THEN /\ dir' = [dir EXCEPT ![req[h].had].active = FALSE]
            /\ Answered(h, [req[h] EXCEPT !.at = "patched"])
       ELSE Stop(h) /\ UNCHANGED dir
  /\ UNCHANGED <<local, seats, history>>

Suspended(h) ==
  /\ At(h, "patched")
  /\ Update(h, [OnUser(h) EXCEPT !.id = req[h].had, !.emu = "suspended"], "done")
  /\ UNCHANGED <<limit, plans, remote, history>>

\* Seats: GitHub gives one to a login that exists.
Assign(h) ==
  LET u == req[h].user
  IN  /\ At(h, "assign")
      /\ \/ Go(h, "assign_failed") /\ UNCHANGED seats
         \/ /\ \E i \in DOMAIN dir : Live(i) /\ dir[i].name.user = u
            /\ seats' = seats \cup {u}
            /\ Go(h, "assigned") \/ Go(h, "assign_failed")
      /\ UNCHANGED <<local, dir, history>>

\* One that has none is answered 422, which counts as removed.
Unseat(h) ==
  /\ At(h, "unseat")
  /\ \/ Go(h, "unseat_failed") /\ UNCHANGED seats
     \/ /\ seats' = seats \ {req[h].user}
        /\ Go(h, "unseated") \/ Go(h, "unseat_failed")
  /\ UNCHANGED <<local, dir, history>>

SeatAnswer(h, answer, seat, next) ==
  /\ At(h, answer)
  /\ Update(h, [OnUser(h) EXCEPT !.seat = seat], next)
  /\ UNCHANGED <<limit, plans, remote, history>>

Assigned(h)     == SeatAnswer(h, "assigned", "assigned", "done")
AssignFailed(h) == SeatAnswer(h, "assign_failed", "assign_failed", "idle")
Unseated(h)     == SeatAnswer(h, "unseated", "unassigned", AfterUnseat(req[h].op, req[h].had))

UnseatFailed(h) == SeatAnswer(h, "unseat_failed", "remove_failed", "idle")

\* deleteProvisionedUser: by id, and then whatever has the user's name.
AfterDrop(op) == IF op = "delete_emu" THEN "unbind" ELSE "proxy"
Kill(i) == dir' = [dir EXCEPT ![i].live = FALSE, ![i].active = FALSE, ![i].ours = FALSE]

\* Mutant: an entry deleted by its id is the only one.
MutantDrop(h) ==
  /\ At(h, "drop")
  /\ Kill(req[h].had)
  /\ Answered(h, [req[h] EXCEPT !.at = AfterDrop(req[h].op)])
  /\ UNCHANGED <<local, seats, history>>

Drop(h) ==
  /\ At(h, "drop")
  /\ Kill(req[h].had)
  /\ Answered(h, [req[h] EXCEPT !.at = "lookup"])
  /\ UNCHANGED <<local, seats, history>>

Lookup(h) ==
  /\ At(h, "lookup")
  /\ IF Named(Name(req[h].user)) = {} THEN Go(h, AfterDrop(req[h].op))
     ELSE \E i \in Named(Name(req[h].user)) :
            req' = [req EXCEPT ![h].at = "drop_found", ![h].found = i]
  /\ UNCHANGED <<local, remote, history>>

DropFound(h) ==
  /\ At(h, "drop_found")
  /\ Kill(req[h].found)
  /\ Answered(h, [req[h] EXCEPT !.at = AfterDrop(req[h].op)])
  /\ UNCHANGED <<local, seats, history>>

Unbind(h) ==
  /\ At(h, "unbind")
  /\ Update(h, [OnUser(h) EXCEPT !.id = NoId, !.emu = "not_synced"], "done")
  /\ UNCHANGED <<limit, plans, remote, history>>

\* The proxy deletes the user's accounts, and then the row goes.
ProxyDeletes(h) ==
  /\ At(h, "proxy")
  /\ Go(h, "erase")
  /\ UNCHANGED <<local, remote, history>>

Erase(h) ==
  LET u == req[h].user
  IN  /\ At(h, "erase")
      /\ IF u \in DOMAIN users
           THEN users' = [v \in DOMAIN users \ {u} |-> users[v]] /\ End(h)
           ELSE UNCHANGED users /\ Stop(h)
      /\ UNCHANGED <<limit, plans, remote, history>>

(***************************************************************************)
(* Import plans.                                                           *)
(***************************************************************************)
StartImport(h, op, target) ==
  /\ Begin(h, [Idle EXCEPT !.at = "list", !.op = op, !.target = target])
  /\ UNCHANGED <<local, remote>>

List(h) ==
  LET found == {i \in DOMAIN dir : Live(i) /\ req[h].target \in {Everyone, dir[i].name}}
  IN  /\ At(h, "list")
      /\ req' = [req EXCEPT
           ![h].at = IF found = {} THEN "plan" ELSE "list_seats",
           ![h].list = [i \in found |->
             [user |-> dir[i].name.user, emu |-> IF dir[i].active THEN "active" ELSE "suspended",
              seat |-> "unassigned"]]]
      /\ UNCHANGED <<local, remote, history>>

ListSeats(h) ==
  /\ At(h, "list_seats")
  /\ req' = [req EXCEPT
       ![h].at = "plan",
       ![h].list = [i \in DOMAIN @ |->
         [@[i] EXCEPT !.seat = IF req[h].list[i].user \in seats THEN "assigned" ELSE "unassigned"]]]
  /\ UNCHANGED <<local, remote, history>>

StorePlan(h) ==
  /\ At(h, "plan")
  /\ \E p \in Plans, differs \in SUBSET DOMAIN req[h].list :
       /\ plans[p] = Unused /\ \A k \in Handlers : req[k].plan # p  \* ids are never used again
       /\ plans' = [plans EXCEPT ![p] = [status |-> "planned",
                                         rows |-> BuildPlan(req[h].list, users, differs)]]
       /\ IF req[h].op = "import" THEN req' = [req EXCEPT ![h] = [Idle EXCEPT !.at = "apply", !.op = "import", !.plan = p]]
                                  ELSE Stop(h)
  /\ UNCHANGED <<users, limit, remote, history>>

Apply(p) ==
  /\ plans[p] # Unused
  /\ users' = UsersAfter(users, plans[p].rows, limit)
  /\ plans' = [plans EXCEPT ![p] = [status |-> "applied",
                                    rows |-> Applied(users, plans[p].rows, limit)]]
  /\ quiet' = [h \in Handlers |-> FALSE]

\* importEmuUsers goes on to apply the plan it has made, unless that is gone.
ApplyOwn(h) ==
  /\ At(h, "apply")
  /\ Stop(h)
  /\ IF plans[req[h].plan] = Unused THEN UNCHANGED <<users, plans, quiet>> ELSE Apply(req[h].plan)
  /\ UNCHANGED <<limit, remote, crowded, ops, edits>>

(***************************************************************************)
(* What operators and GitHub's administrators do at once.                  *)
(***************************************************************************)
Edit == edits < MaxEdits /\ edits' = edits + 1 /\ UNCHANGED <<req, crowded, ops>>
Disturb == quiet' = [h \in Handlers |-> FALSE]

ApplyPlan(p) == Edit /\ Apply(p) /\ UNCHANGED <<limit, remote>>

DeletePlan(p) ==
  /\ Edit /\ plans[p] # Unused
  /\ plans' = [plans EXCEPT ![p] = Unused]
  /\ UNCHANGED <<users, limit, remote, quiet>>

NewRow == [id |-> NoId, emu |-> "not_synced", seat |-> "unknown"]

\* ensureUser, createSsoUser and each row of a CSV import
CreateUser(u) ==
  /\ Edit /\ Disturb
  /\ u \notin DOMAIN users /\ HasRoom(Cardinality(DOMAIN users), limit)
  /\ users' = [v \in DOMAIN users \cup {u} |->
                 IF v = u THEN NewRow ELSE users[v]]
  /\ UNCHANGED <<limit, plans, remote>>

\* Mutant: a limit below the number of users is raised to it.
MutantSetLimit(l) ==
  /\ Edit /\ l # limit
  /\ limit' = IF l # NoLimit /\ l < Cardinality(DOMAIN users) THEN Cardinality(DOMAIN users) ELSE l
  /\ UNCHANGED <<users, plans, remote, quiet>>

SetLimit(l) ==
  /\ Edit /\ l # limit
  /\ limit' = l
  /\ UNCHANGED <<users, plans, remote, quiet>>

Administer == Edit /\ Disturb /\ UNCHANGED <<local, seats>>

AdminCreates(n)    == Administer /\ AddEntry(n, FALSE)
AdminDeletes(i)    == Administer /\ Live(i) /\ Kill(i)
AdminSuspends(i)   == Administer /\ Live(i) /\ dir' = [dir EXCEPT ![i].active = ~@]
AdminRenames(i, n) ==
  /\ Administer /\ Live(i) /\ Named(n) = {}
  /\ dir' = [dir EXCEPT ![i].name = n, ![i].ours = FALSE]

(***************************************************************************)
(* The specification.                                                      *)
(***************************************************************************)
\* Users that were created, or created and synced, before anything else happens.
Init ==
  /\ \E known \in SUBSET Users, synced \in SUBSET Users, n \in 0..MaxIds :
       /\ synced \subseteq known /\ synced = 1..n
       /\ users = [u \in known |-> IF u \in synced THEN [NewRow EXCEPT !.id = u, !.emu = "active"]
                                                   ELSE NewRow]
       /\ dir = [i \in 1..n |-> [name |-> Name(i), active |-> TRUE, live |-> TRUE, ours |-> TRUE]]
  /\ limit \in Limits
  /\ plans = [p \in Plans |-> Unused]
  /\ req = [h \in Handlers |-> Idle]
  /\ seats = {}
  /\ quiet = [h \in Handlers |-> FALSE]
  /\ crowded = {} /\ ops = 0 /\ edits = 0

Sync(h)    == Replace(h) \/ Create(h) \/ Find(h) \/ Adopt(h) \/ Bind(h)
Suspension(h) == Suspend(h) \/ Suspended(h)
Seat(h)    == Assign(h) \/ Unseat(h) \/ Assigned(h) \/ AssignFailed(h) \/ Unseated(h) \/ UnseatFailed(h)
Delete(h)  == Drop(h) \/ Lookup(h) \/ DropFound(h) \/ Unbind(h) \/ ProxyDeletes(h) \/ Erase(h)
Import(h)  == List(h) \/ ListSeats(h) \/ StorePlan(h) \/ ApplyOwn(h)
Continue(h) == Sync(h) \/ Suspension(h) \/ Seat(h) \/ Delete(h) \/ Import(h) \/ GiveUp(h)

Operator ==
  \/ \E p \in Plans : ApplyPlan(p) \/ DeletePlan(p)
  \/ \E u \in Users : CreateUser(u)
  \/ \E l \in Limits : SetLimit(l)

Administrator ==
  \/ \E n \in Names : AdminCreates(n)
  \/ \E i \in DOMAIN dir : AdminDeletes(i) \/ AdminSuspends(i)
  \/ \E i \in DOMAIN dir, n \in Names : AdminRenames(i, n)

Next ==
  \/ \E h \in Handlers, op \in UserOps, u \in Users : Start(h, op, u)
  \/ \E h \in Handlers, op \in ImportOps, n \in Names \cup {Everyone} : StartImport(h, op, n)
  \/ \E h \in Handlers : Continue(h)
  \/ Operator
  \/ Administrator

Spec == Init /\ [][Next]_vars

(***************************************************************************)
(* Properties.                                                             *)
(***************************************************************************)
Completed(h, op) == req[h].at = "done" /\ req[h].op = op /\ quiet[h]

\* A user that was deleted with nothing beside it has left nothing: no entry in
\* the directory under its name or the id it was bound to, and no seat of the
\* login it had, whatever failed or lost requests came before (deleteSsoUser).
DeleteIsComplete ==
  \A h \in Handlers : Completed(h, "delete_sso") =>
    LET u == req[h].user
    IN  /\ u \notin DOMAIN users
        /\ Named(Name(u)) = {} /\ ~Live(req[h].had)
        /\ req[h].had # NoId => u \notin seats

\* A sync that completed with nothing beside it leaves the row bound to the one
\* live, active entry of the user's name, also when the entry it was bound to is
\* gone, or an earlier attempt created one and did not learn of it (syncUser).
SyncIsFaithful ==
  \A h \in Handlers, op \in Syncs : Completed(h, op) =>
    LET row == users[req[h].user]
    IN  /\ Named(Name(req[h].user)) = {row.id}
        /\ row.emu = "active" /\ dir[row.id].active
        /\ op = "sync_emu_and_seat" => row.seat = "assigned" /\ req[h].user \in seats

\* What this service created for a user is never left without the row that says
\* so, unless two handlers worked on the user at once: every deletion that fails
\* halfway can be repeated, because the row is the last to go.
NothingOrphaned ==
  \A u \in Users \ (crowded \cup DOMAIN users) :
    /\ u \notin seats
    /\ \A i \in DOMAIN dir : dir[i].ours => dir[i].name # Name(u)

\* Applying a plan never moves a user from one entry to another, and never binds
\* a user to an entry that another user is bound to, whatever the users and the
\* directory went through since the preview (staleConflictForRow).
ImportKeepsBindings ==
  [][(\E p \in Plans : plans[p] # plans'[p]) /\ users' # users =>
       \A u \in DOMAIN users' :
         /\ u \in DOMAIN users /\ users[u].id # NoId => users'[u].id = users[u].id
         /\ (u \notin DOMAIN users \/ users[u].id # users'[u].id) =>
              \A v \in DOMAIN users' \ {u} : users'[v].id # users'[u].id]_vars

\* A plan is applied once: what it has come to is final, and applying it again
\* writes no user, whatever became of them since (listPendingEmuImportPlanRows).
PlanAppliesOnce ==
  [][\A p \in Plans : plans[p].status = "applied" =>
       plans'[p] \in {Unused, plans[p]} /\ (ApplyPlan(p) => users' = users)]_vars

\* Users are added up to the limit in force, by an import as well as one by one;
\* a lower limit removes nobody.
CreationWithinLimit ==
  [][Cardinality(DOMAIN users') > Cardinality(DOMAIN users) =>
       limit = NoLimit \/ Cardinality(DOMAIN users') <= limit]_vars
=============================================================================

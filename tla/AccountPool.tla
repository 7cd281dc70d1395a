----------------------------- MODULE AccountPool ----------------------------
(***************************************************************************)
(* One account pool of the proxy: its settings, its members, the session   *)
(* bindings, the accounts behind the members, the requests that are being  *)
(* served through it and the operator who edits it.                        *)
(*                                                                         *)
(* A request handler runs from one await to the next without a break, so   *)
(* one action is what a handler does between two awaits: any other handler *)
(* may run in between.  The handlers are those of proxy/src/routes/        *)
(* compatible.ts, with copilot/copilotAuthManager.ts, pool/poolResolver.ts *)
(* and the storage they call; the operator's are those of routes/          *)
(* poolApi.ts.  Storage calls succeed.                                     *)
(***************************************************************************)
EXTENDS PoolSelector

CONSTANTS
  PoolName,    \* the pool's id, the name clients send as their identity
  Requests,    \* the requests clients may send, each once
  Routes,      \* the routes they may use, of "forward", "count" and "models"
  Settings,    \* the settings the operator may give the pool
  Weights,     \* the weights the operator may give a member
  Roster,      \* the members when the exploration starts
  MaxClock,    \* bound: the last tick
  MaxEdits     \* bound: how many operations the operator starts

NoPool == [strategy |-> "none", ttl |-> 0, cooldown |-> 0, threshold |-> 0, enabled |-> FALSE]

PoolSettings == [strategy : Strategies, ttl : Nat \ {0}, cooldown : Nat \ {0},
                 threshold : Nat \ {0}, enabled : BOOLEAN]

ASSUME PoolAssumption ==
  /\ PoolName \notin Identities
  /\ Routes \subseteq {"forward", "count", "models"}
  /\ Settings \subseteq PoolSettings
  /\ Weights \subseteq Nat \ {0}
  /\ Roster \subseteq Identities
  /\ MaxClock \in Nat /\ MaxEdits \in Nat

VARIABLES
  clock,     \* the current time, in ticks; it starts at 1, 0 being NoTime
  pool,      \* the row of proxy_pools, NoPool when there is none
  members,   \* the rows of proxy_pool_members, by identity
  affinity,  \* the rows of proxy_session_affinity, by session
  accounts,  \* the rows of proxy_accounts, by name
  req,       \* the handler of every request
  op,        \* the operator's handler that has started and not ended
  edits,     \* how many operations the operator has started
  seen,      \* history: members usable at some moment of a request so far
  steady     \* history: members usable at every moment of a request so far

store == <<pool, members, affinity, accounts>>
vars  == <<clock, pool, members, affinity, accounts, req, op, edits, seen, steady>>

(***************************************************************************)
(* The types.  A token is the pair of the account it was issued to and a   *)
(* number; accounts[n].token is the number of the last token issued to n,  *)
(* which the row holds while the status is not "expired" or "absent".      *)
(***************************************************************************)
Names    == Identities \cup {PoolName}
Statuses == {"absent", "refreshing", "valid", "expired"}
Account  == [status : Statuses, token : Nat]
Binding  == [who : Identities, expires : Nat]
NoToken  == <<NoOne, 0>>
Token(n) == <<n, accounts[n].token>>

Plan   == [kind : {"selected", "all-cooling", "empty"},
           who : Identities \cup {NoOne}, retryAfter : Nat]
NoPlan == [kind |-> "empty", who |-> NoOne, retryAfter |-> 0]

Resolving == {"list", "lookup", "renew", "clear", "bind"}
Serving   == {"auth", "check", "retire", "note", "mark", "send", "reject", "report"}
UpstreamAnswers == {"ok", "unauthorized", "rate-limited", "error", "unsupported"}
CheckFailures   == {"unauthorized", "rate-limited", "error", "bad-model"}
Refusals == {"empty", "all-cooling"}
Answers  == UpstreamAnswers \cup CheckFailures \cup Refusals
              \cup {"none", "not-ready", "initializing", "unreachable"}

Request == [pc      : {"idle", "done"} \cup Resolving \cup Serving,
            route   : Routes \cup {"none"},
            session : Sessions \cup {NoOne},
            since   : Nat,                       \* when findPool answered
            pool    : PoolSettings \cup {NoPool},  \* the pool as last read
            avail   : SUBSET Identities,         \* usable in the listing
            plan    : Plan,                      \* selectMember on the listing
            who     : Names \cup {NoOne},        \* the account that serves
            tok     : (Names \cup {NoOne}) \X Nat,
            answer  : Answers]

NewRequest == [pc |-> "idle", route |-> "none", session |-> NoOne, since |-> 0,
               pool |-> NoPool, avail |-> {}, plan |-> NoPlan, who |-> NoOne,
               tok |-> NoToken, answer |-> "none"]

Handler == [pc : {"idle", "account", "insert", "reinsert", "reset"},
            who : Identities \cup {NoOne}, weight : Nat \ {0},
            state : {"active", "disabled"}]
NoHandler == [pc |-> "idle", who |-> NoOne, weight |-> 1, state |-> "active"]

TypeOK ==
  /\ clock \in Nat \ {0}
  /\ pool \in PoolSettings \cup {NoPool}
  /\ DOMAIN members \subseteq Identities
  /\ members \in [DOMAIN members -> Row]
  /\ DOMAIN affinity \subseteq Sessions
  /\ affinity \in [DOMAIN affinity -> Binding]
  /\ accounts \in [Names -> Account]
  /\ req \in [Requests -> Request]
  /\ op \in Handler
  /\ edits \in Nat
  /\ seen \in [Requests -> SUBSET Identities]
  /\ steady \in [Requests -> SUBSET Identities]

(***************************************************************************)
(* The storage operations, as functions of the rows they rewrite.          *)
(***************************************************************************)
DefaultWeight == 1

UpsertMember(rows, m, weight, state) ==
  [i \in DOMAIN rows \cup {m} |->
     IF i # m THEN rows[i]
     ELSE IF m \in DOMAIN rows
       THEN [rows[m] EXCEPT !.weight = weight, !.state = state]
       ELSE [weight |-> weight, state |-> state, coolingUntil |-> NoTime,
             failures |-> 0, lastUsedAt |-> NoTime]]

Live(rows, m) == m \in DOMAIN rows /\ rows[m].state # "disabled"

\* Mutant: the update forgets its "state != 'disabled'".
MutantMarkMemberSuccess(rows, m, now) ==
  IF m \in DOMAIN rows
    THEN [rows EXCEPT ![m] = [@ EXCEPT !.failures = 0, !.state = "active",
                                       !.coolingUntil = NoTime, !.lastUsedAt = now]]
    ELSE rows

MarkMemberSuccess(rows, m, now) ==
  IF Live(rows, m)
    THEN [rows EXCEPT ![m] = [@ EXCEPT !.failures = 0, !.state = "active",
                                       !.coolingUntil = NoTime, !.lastUsedAt = now]]
    ELSE rows

MarkMemberFailure(rows, m, settings, forceCooldown, now) ==
  LET failures   == rows[m].failures + 1
      shouldCool == forceCooldown \/ failures >= settings.threshold
      state      == IF shouldCool THEN "cooling" ELSE rows[m].state
      until      == IF shouldCool THEN now + settings.cooldown * Second ELSE NoTime
  IN  IF Live(rows, m)
        THEN [rows EXCEPT ![m] = [rows[m] EXCEPT !.failures = failures, !.state = state,
                                                 !.coolingUntil = until]]
        ELSE rows

UpsertBinding(rows, s, m, ttl, now) ==
  [x \in DOMAIN rows \cup {s} |->
     IF x = s THEN [who |-> m, expires |-> now + ttl * Second] ELSE rows[x]]

DropSession(rows, s)  == [x \in DOMAIN rows \ {s} |-> rows[x]]
DropBindings(rows, m) == [x \in {y \in DOMAIN rows : rows[y].who # m} |-> rows[x]]
PruneBindings(rows, now) == [x \in {y \in DOMAIN rows : rows[y].expires > now} |-> rows[x]]

\* Mutant: the update forgets to compare the token with the one rejected.
MutantRetireToken(rows, n, tok) ==
  IF rows[n].status = "valid" THEN [rows EXCEPT ![n].status = "expired"] ELSE rows

RetireToken(rows, n, tok) ==
  IF rows[n].status = "valid" /\ <<n, rows[n].token>> = tok
    THEN [rows EXCEPT ![n].status = "expired"]
    ELSE rows

(***************************************************************************)
(* A request handler: findPool, resolvePoolMember, getAuthForAccount.      *)
(***************************************************************************)
FindPool == IF pool.enabled THEN pool ELSE NoPool

At(r, pc) == req[r].pc = pc
Become(r, q) == req' = [req EXCEPT ![r] = q]

Finish(q, answer) ==
  [pc |-> "done", route |-> q.route, session |-> q.session, since |-> 0,
   pool |-> NoPool, avail |-> {}, plan |-> NoPlan, who |-> q.who, tok |-> q.tok,
   answer |-> answer]
Resolve(q, who) ==
  [pc |-> "auth", route |-> q.route, session |-> q.session, since |-> 0,
   pool |-> q.pool, avail |-> {}, plan |-> NoPlan, who |-> who, tok |-> q.tok,
   answer |-> q.answer]

\* The end of resolvePoolMember, from the selection on.
Decide(q) ==
  IF q.plan.kind # "selected" THEN Finish(q, q.plan.kind)
  ELSE IF q.pool.strategy = "sticky-affinity" THEN [q EXCEPT !.pc = "bind"]
  ELSE Resolve(q, q.plan.who)

Arrive(r) ==
  /\ At(r, "idle")
  /\ \E s \in Sessions, route \in Routes :
       LET q == [pc |-> "list", route |-> route, session |-> s, since |-> clock,
                 pool |-> FindPool, avail |-> {}, plan |-> NoPlan, who |-> NoOne,
                 tok |-> NoToken, answer |-> "none"]
       IN  Become(r, IF FindPool = NoPool THEN Resolve(q, PoolName) ELSE q)
  /\ UNCHANGED <<store, clock, op, edits>>

\* The handler took "now" at some moment after findPool answered and before
\* the listing came back.
ListMembers(r) ==
  /\ At(r, "list")
  /\ \E now \in req[r].since .. clock :
       LET plan == SelectMember(req[r].pool.strategy, members, req[r].session, {}, now)
           q    == [req[r] EXCEPT !.avail = AvailableMembers(members, now), !.plan = plan]
       IN  Become(r, IF DOMAIN members = {} THEN Finish(q, "empty")
                     ELSE IF q.pool.strategy = "sticky-affinity"
                       THEN [q EXCEPT !.pc = "lookup"]
                     ELSE Decide(q))
  /\ UNCHANGED <<store, clock, op, edits>>

LiveBinding(s) == s \in DOMAIN affinity /\ affinity[s].expires > clock

\* Mutant: the binding is followed without asking whether its member is usable.
MutantLookupAffinity(r) ==
  /\ At(r, "lookup")
  /\ LET s == req[r].session
     IN  Become(r, IF ~LiveBinding(s) THEN Decide(req[r])
                   ELSE [req[r] EXCEPT !.pc = "renew", !.who = affinity[s].who])
  /\ UNCHANGED <<store, clock, op, edits>>

LookupAffinity(r) ==
  /\ At(r, "lookup")
  /\ LET s == req[r].session
     IN  Become(r, IF ~LiveBinding(s) THEN Decide(req[r])
                   ELSE IF affinity[s].who \in req[r].avail
                     THEN [req[r] EXCEPT !.pc = "renew", !.who = affinity[s].who]
                   ELSE [req[r] EXCEPT !.pc = "clear"])
  /\ UNCHANGED <<store, clock, op, edits>>

Renew(r) ==
  /\ At(r, "renew")
  /\ affinity' = UpsertBinding(affinity, req[r].session, req[r].who, req[r].pool.ttl, clock)
  /\ Become(r, Resolve(req[r], req[r].who))
  /\ UNCHANGED <<pool, members, accounts, clock, op, edits>>

ClearAffinity(r) ==
  /\ At(r, "clear")
  /\ affinity' = DropSession(affinity, req[r].session)
  /\ Become(r, Decide(req[r]))
  /\ UNCHANGED <<pool, members, accounts, clock, op, edits>>

Bind(r) ==
  /\ At(r, "bind")
  /\ affinity' = UpsertBinding(affinity, req[r].session, req[r].plan.who,
                               req[r].pool.ttl, clock)
  /\ Become(r, Resolve(req[r], req[r].plan.who))
  /\ UNCHANGED <<pool, members, accounts, clock, op, edits>>

\* An account that is absent is provisioned in the background, which
\* BeginAuthorization stands for; this request is turned away.
GetAuth(r) ==
  /\ At(r, "auth")
  /\ LET n == req[r].who
     IN  Become(r, IF accounts[n].status = "valid"
                     THEN [req[r] EXCEPT !.pc = "check", !.tok = Token(n)]
                   ELSE Finish(req[r], IF accounts[n].status \in {"absent", "refreshing"}
                                         THEN "initializing" ELSE "not-ready"))
  /\ UNCHANGED <<store, clock, op, edits>>

(***************************************************************************)
(* A request handler: the model check, the upstream call and what is       *)
(* reported about them.  The pool's handler does not try another member.   *)
(***************************************************************************)
AfterCheckFailure(q) ==
  IF q.route = "models" \/ q.pool = NoPool THEN Finish(q, q.answer)
  ELSE [q EXCEPT !.pc = "note"]

AfterAnswer(q) ==
  IF (q.route = "count" /\ q.answer = "unsupported") \/ q.pool = NoPool
    THEN Finish(q, q.answer)
    ELSE [q EXCEPT !.pc = "report"]

ModelAccepted(r) ==
  /\ At(r, "check")
  /\ Become(r, IF req[r].route = "models" THEN Finish(req[r], "ok")
               ELSE [req[r] EXCEPT !.pc = "send"])
  /\ UNCHANGED <<store, clock, op, edits>>

\* The model list could not be had, or it does not have the model.
ModelRejected(r) ==
  /\ At(r, "check")
  /\ \E e \in CheckFailures :
       /\ e = "bad-model" => req[r].route # "models"
       /\ LET q == [req[r] EXCEPT !.answer = e]
          IN  Become(r, IF e = "unauthorized" THEN [q EXCEPT !.pc = "retire"]
                        ELSE AfterCheckFailure(q))
  /\ UNCHANGED <<store, clock, op, edits>>

Retire(r) ==
  /\ At(r, "retire")
  /\ accounts' = RetireToken(accounts, req[r].who, req[r].tok)
  /\ Become(r, AfterCheckFailure(req[r]))
  /\ UNCHANGED <<pool, members, affinity, clock, op, edits>>

NotePoolFailure(r) ==
  /\ At(r, "note")
  /\ Become(r, IF FindPool = NoPool THEN Finish(req[r], req[r].answer)
               ELSE [req[r] EXCEPT !.pc = "mark", !.pool = FindPool])
  /\ UNCHANGED <<store, clock, op, edits>>

ReportMemberFailure(r) ==
  /\ At(r, "mark")
  /\ members' = MarkMemberFailure(members, req[r].who, req[r].pool,
                                  req[r].answer = "rate-limited", clock)
  /\ Become(r, Finish(req[r], req[r].answer))
  /\ UNCHANGED <<pool, affinity, accounts, clock, op, edits>>

Unreachable(r) ==
  /\ At(r, "send")
  /\ Become(r, Finish(req[r], "unreachable"))
  /\ UNCHANGED <<store, clock, op, edits>>

UpstreamAnswer(r) ==
  /\ At(r, "send")
  /\ \E a \in UpstreamAnswers :
       LET q == [req[r] EXCEPT !.answer = a]
       IN  Become(r, IF a = "unauthorized" THEN [q EXCEPT !.pc = "reject"]
                     ELSE AfterAnswer(q))
  /\ UNCHANGED <<store, clock, op, edits>>

\* forwardAuthenticated invalidates the name the client sent, not the member.
RejectClientName(r) ==
  /\ At(r, "reject")
  /\ accounts' = RetireToken(accounts, PoolName, req[r].tok)
  /\ Become(r, AfterAnswer(req[r]))
  /\ UNCHANGED <<pool, members, affinity, clock, op, edits>>

ReportMemberSuccess(r) ==
  /\ At(r, "report")
  /\ members' = MarkMemberSuccess(members, req[r].who, clock)
  /\ Become(r, Finish(req[r], req[r].answer))
  /\ UNCHANGED <<pool, affinity, accounts, clock, op, edits>>

Handle(r) ==
  \/ Arrive(r) \/ ListMembers(r) \/ LookupAffinity(r) \/ Renew(r)
  \/ ClearAffinity(r) \/ Bind(r) \/ GetAuth(r) \/ ModelAccepted(r)
  \/ ModelRejected(r) \/ Retire(r) \/ NotePoolFailure(r)
  \/ ReportMemberFailure(r) \/ Unreachable(r) \/ UpstreamAnswer(r)
  \/ RejectClientName(r) \/ ReportMemberSuccess(r)

(***************************************************************************)
(* The operator.  One handler of several steps is under way at a time; the *)
(* single-step ones may run in the middle of it.                           *)
(***************************************************************************)
Edit == edits < MaxEdits /\ edits' = edits + 1

\* POST /pools: the row may exist already, and is then overwritten.
CreatePool ==
  /\ Edit /\ accounts[PoolName].status = "absent"
  /\ pool' \in Settings
  /\ UNCHANGED <<members, affinity, accounts, clock, req, op>>

\* Mutant: a lifetime of zero is accepted.
MutantUpdatePool ==
  /\ Edit /\ pool # NoPool
  /\ pool' \in {[settings EXCEPT !.ttl = 0] : settings \in Settings}
  /\ UNCHANGED <<members, affinity, accounts, clock, req, op>>

UpdatePool ==
  /\ Edit /\ pool # NoPool
  /\ pool' \in Settings
  /\ UNCHANGED <<members, affinity, accounts, clock, req, op>>

DeletePool ==
  /\ Edit /\ pool # NoPool
  /\ pool' = NoPool
  /\ members' = [m \in {} |-> 0]
  /\ affinity' = [s \in {} |-> 0]
  /\ UNCHANGED <<accounts, clock, req, op>>

\* POST members: the pool is looked up, then the account, then the row is
\* written; neither look-up is repeated.
AddMember ==
  /\ Edit /\ op.pc = "idle" /\ pool # NoPool
  /\ \E m \in Identities, w \in Weights, state \in {"active", "disabled"} :
       op' = [pc |-> "account", who |-> m, weight |-> w, state |-> state]
  /\ UNCHANGED <<store, clock, req>>

CheckAccount ==
  /\ op.pc = "account"
  /\ op' = IF accounts[op.who].status = "absent" THEN NoHandler
           ELSE [op EXCEPT !.pc = "insert"]
  /\ UNCHANGED <<store, clock, req, edits>>

InsertMember ==
  /\ op.pc = "insert"
  /\ members' = UpsertMember(members, op.who, op.weight, op.state)
  /\ op' = NoHandler
  /\ UNCHANGED <<pool, affinity, accounts, clock, req, edits>>

RemoveMember ==
  /\ Edit
  /\ \E m \in Identities :
       /\ members' = [i \in DOMAIN members \ {m} |-> members[i]]
       /\ affinity' = DropBindings(affinity, m)
  /\ UNCHANGED <<pool, accounts, clock, req, op>>

\* POST resume: the listing is read, then the row is written as for an added
\* member, then it is reset as after a success.
Resume ==
  /\ Edit /\ op.pc = "idle"
  /\ \E m \in DOMAIN members :
       op' = [pc |-> "reinsert", who |-> m, weight |-> DefaultWeight, state |-> "active"]
  /\ UNCHANGED <<store, clock, req>>

Reinsert ==
  /\ op.pc = "reinsert"
  /\ members' = UpsertMember(members, op.who, op.weight, op.state)
  /\ op' = [op EXCEPT !.pc = "reset"]
  /\ UNCHANGED <<pool, affinity, accounts, clock, req, edits>>

ResetMember ==
  /\ op.pc = "reset"
  /\ members' = MarkMemberSuccess(members, op.who, clock)
  /\ op' = NoHandler
  /\ UNCHANGED <<pool, affinity, accounts, clock, req, edits>>

PruneSessions ==
  /\ Edit
  /\ affinity' = PruneBindings(affinity, clock)
  /\ UNCHANGED <<pool, members, accounts, clock, req, op>>

\* A login or an import gives an account a new token.
Authorize ==
  /\ Edit
  /\ \E n \in Names :
       accounts' = [accounts EXCEPT ![n] = [status |-> "valid", token |-> @.token + 1]]
  /\ UNCHANGED <<pool, members, affinity, clock, req, op>>

\* A reauthorization starts, or a new account is provisioned.
BeginAuthorization ==
  /\ Edit
  /\ \E n \in Names : accounts' = [accounts EXCEPT ![n].status = "refreshing"]
  /\ UNCHANGED <<pool, members, affinity, clock, req, op>>

\* The account goes; its memberships and its bindings stay.
DeleteAccount ==
  /\ Edit
  /\ \E n \in Names :
       /\ accounts[n].status # "absent"
       /\ accounts' = [accounts EXCEPT ![n].status = "absent"]
  /\ UNCHANGED <<pool, members, affinity, clock, req, op>>

Operate ==
  \/ CreatePool \/ UpdatePool \/ DeletePool
  \/ AddMember \/ CheckAccount \/ InsertMember \/ RemoveMember
  \/ Resume \/ Reinsert \/ ResetMember \/ PruneSessions
  \/ Authorize \/ BeginAuthorization \/ DeleteAccount

Tick ==
  /\ clock < MaxClock
  /\ clock' = clock + 1
  /\ UNCHANGED <<store, req, op, edits>>

(***************************************************************************)
(* The history: which members were usable while a request was resolved.    *)
(***************************************************************************)
Usable == {m \in DOMAIN members :
             /\ members[m].state # "disabled"
             /\ members[m].state = "cooling" => members[m].coolingUntil <= clock}

Watch ==
  /\ seen' = [r \in Requests |->
       IF req'[r].pc \notin Resolving \cup {"auth"} THEN {}
       ELSE IF req[r].pc = "idle" THEN Usable'
       ELSE seen[r] \cup Usable']
  /\ steady' = [r \in Requests |->
       IF req[r].pc = "done" THEN steady[r]
       ELSE IF req'[r].pc \notin Resolving \cup {"done"} THEN {}
       ELSE IF req[r].pc = "idle" THEN Usable'
       ELSE steady[r] \cap Usable']

Init ==
  /\ clock = 1
  /\ pool \in Settings
  /\ \E w \in [Roster -> Weights] :
       members = [m \in Roster |-> [weight |-> w[m], state |-> "active",
                    coolingUntil |-> NoTime, failures |-> 0, lastUsedAt |-> NoTime]]
  /\ affinity = [s \in {} |-> 0]
  /\ accounts = [n \in Names |-> [status |-> IF n = PoolName THEN "absent" ELSE "valid",
                                  token  |-> IF n = PoolName THEN 0 ELSE 1]]
  /\ req = [r \in Requests |-> NewRequest]
  /\ op = NoHandler
  /\ edits = 0
  /\ seen = [r \in Requests |-> {}]
  /\ steady = [r \in Requests |-> {}]

Next == ((\E r \in Requests : Handle(r)) \/ Operate \/ Tick) /\ Watch

Spec == Init /\ [][Next]_vars
(***************************************************************************)
(* What the pool promises.                                                 *)
(***************************************************************************)

\* A pooled request is only ever handed a member that was in the pool, not
\* disabled and not cooling, at some moment since the request found the pool:
\* a stale or dangling session binding never serves (poolResolver.ts).
ServesOnlyUsable ==
  \A r \in Requests : At(r, "auth") /\ req[r].pool # NoPool => req[r].who \in seen[r]

\* A request is refused, "empty" or "all-cooling", only if no member was
\* usable all the time the request was being resolved, whatever requests and
\* operators did meanwhile, cooldowns ending at that very moment included.
NoFalseRefusal ==
  \A r \in Requests : At(r, "done") /\ req[r].answer \in Refusals => steady[r] = {}

\* While every candidate is cooling, the wait a client is told is enough for
\* the named member to be usable again, and one second less is not enough
\* for any member (PoolAllCoolingError's retryAfterSeconds).
RetryAfterIsTight ==
  \A strategy \in Strategies, s \in Sessions :
    LET out == SelectMember(strategy, members, s, {}, clock)
    IN  out.kind = "all-cooling" =>
          /\ out.who \in AvailableMembers(members, clock + out.retryAfter * Second)
          /\ AvailableMembers(members, clock + (out.retryAfter - 1) * Second) = {}

\* Requests, whenever their reports arrive, leave the operator's decisions
\* alone: they bring no removed member back, drop none, change no weight, and
\* neither enable nor disable a member.
RequestsRespectRoster ==
  [][req' # req =>
       /\ DOMAIN members' = DOMAIN members
       /\ \A m \in DOMAIN members :
            /\ members'[m].weight = members[m].weight
            /\ members'[m].state = "disabled" <=> members[m].state = "disabled"]_vars

Chosen(s) == Rendezvous(Usable, members, s)

\* Rendezvous hashing remaps as little as it can: when one member joins,
\* leaves, cools, recovers or is reweighted, a session is moved only away from
\* that member or to it (poolSelector.ts:14).
MinimalRemap ==
  [][\A m \in Identities, s \in Sessions :
       LET others == Identities \ {m}
       IN  /\ Usable # {} /\ Usable' # {}
           /\ Usable \cap others = Usable' \cap others
           /\ \A i \in Usable \cap others : members'[i].weight = members[i].weight
           => Chosen(s)' = Chosen(s) \/ m \in {Chosen(s), Chosen(s)'}]_vars

\* A token is marked expired only by a request that was answered 401 while it
\* held that very token; a late answer to an older token, or to another
\* account's, never costs an account the token it has now.
OnlyRejectedTokenRetired ==
  [][\A n \in Names :
       accounts[n].status # "expired" /\ accounts'[n].status = "expired" =>
         \E r \in Requests : req[r].answer = "unauthorized" /\ req[r].tok = Token(n)]_vars

(***************************************************************************)
(* What the repository says of the pool and the code does not do.          *)
(***************************************************************************)

\* "cooling: ... recovers by itself once coolingUntil has passed"
\* (poolTypes.ts:31): a failure report never ends a cooldown that is running.
FailureKeepsCooldown ==
  [][\A m \in DOMAIN members :
       (\E r \in Requests : At(r, "mark") /\ At(r, "done")')
         /\ m \notin Usable => m \notin Usable']_vars

\* "401 handling must use this value" (copilotAuth.ts:7): when a request that
\* was answered 401 has ended, the account no longer holds that token as valid.
RejectedTokenRetired ==
  \A r \in Requests :
    At(r, "done") /\ req[r].answer = "unauthorized" =>
      ~(accounts[req[r].who].status = "valid" /\ Token(req[r].who) = req[r].tok)
=============================================================================

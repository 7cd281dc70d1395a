------------------------------ MODULE LoginQueue -----------------------------
(***************************************************************************)
(* The Copilot authorization of accounts: the proxy starts one, the login  *)
(* service queues a task for it, a job runs the task in a browser and the  *)
(* token goes back to the proxy.                                           *)
(*                                                                         *)
(* Two processes and the network between them.  A handler of the proxy or  *)
(* of the login service runs without a break between two awaits; drain()   *)
(* runs to its end before anything else happens in the login service.  A   *)
(* request between them may be lost, may be answered too late for its      *)
(* sender, and may arrive after its sender has given up; none is repeated. *)
(* The login service may crash, and starts again with an empty memory.     *)
(*                                                                         *)
(* An authorization is a number, the oauthAttemptId; one request creates   *)
(* at most one task for it, so the number also names the task.  A token is *)
(* named by the authorization it came from.                                *)
(***************************************************************************)
EXTENDS Naturals, Sequences, FiniteSets

CONSTANTS
  Identities,      \* the accounts
  MaxAttempts,     \* bound: how many authorizations start
  MaxCommands,     \* bound: how many commands its operator gives
  MaxReplacements, \* bound: how many tokens are imported, rejected or deleted
  MaxCrashes,      \* bound: how often the login service crashes
  MaxUpsets,       \* bound: how many replacements and crashes together
  Limits           \* the concurrency limits the operator may set

ASSUME LoginAssumption ==
  /\ Identities # {}
  /\ MaxAttempts \in Nat /\ MaxCommands \in Nat
  /\ MaxReplacements \in Nat /\ MaxCrashes \in Nat /\ MaxUpsets \in Nat
  /\ Limits \subseteq 1..20 /\ Limits # {}

Attempts == 1..MaxAttempts
MaxJobs  == MaxAttempts + MaxCommands  \* a queue entry starts one job at most
NoAttempt == 0
Imported  == MaxAttempts + 1           \* in the place of an authorization: a token
                                       \* that an operator imported

VARIABLES
  \* the proxy
  issued,     \* how many authorizations have started
  owner,      \* the account each of them is for
  account,    \* the rows of proxy_accounts
  caller,     \* the handler that waits for POST /api/tasks
  \* the login service
  task,       \* the status in the rows of login_tasks, by authorization
  queue,      \* LoginQueue.pending
  active,     \* LoginQueue.active
  cancelled,  \* LoginQueue.cancelled
  draining,   \* drain() is running
  job,        \* the executions of runLoginTask, in the order they started
  limit,      \* the concurrency limit
  up,         \* the process is running
  \* the network: reports that arrive after their sender has given up
  late,
  \* history
  wanted,     \* tasks last enqueued or retried, and not cancelled since
  commands, replacements, crashes

proxy   == <<issued, owner, account, caller>>
service == <<task, queue, active, cancelled, draining, job, limit, up>>
counts  == <<commands, replacements, crashes>>
vars    == <<proxy, service, late, wanted, counts>>

AccountStatuses == {"absent", "missing", "refreshing", "valid", "failed", "expired"}
TaskStatuses == {"unsent", "sent", "pending", "running", "success", "failed", "cancelled", "deleted"}
JobSteps == {"authorizing", "saving", "saved", "refused", "reporting", "ending", "ended"}
Account == [status : AccountStatuses, attempt : {NoAttempt} \cup Attempts,
            token : {NoAttempt, Imported} \cup Attempts]

TypeOK ==
  /\ issued \in 0..MaxAttempts
  /\ owner \in [Attempts -> Identities]
  /\ account \in [Identities -> Account]
  /\ caller \in [Attempts -> {"idle", "waiting", "done"}]
  /\ task \in [Attempts -> TaskStatuses]
  /\ queue \in Seq(Attempts)
  /\ active \subseteq Attempts /\ cancelled \subseteq Attempts
  /\ job \in Seq([task : Attempts, at : JobSteps])
  /\ limit \in Limits /\ up \in BOOLEAN /\ draining \in BOOLEAN
  /\ late \subseteq [report : {"token", "failure"}, attempt : Attempts]
  /\ wanted \subseteq Attempts

(***************************************************************************)
(* The proxy's account rows.                                               *)
(***************************************************************************)
Row(status, attempt, token) == [status |-> status, attempt |-> attempt, token |-> token]

Accepts(n) == account[owner[n]].status # "absent" /\ account[owner[n]].attempt = n

\* Mutant: the token is saved whichever authorization the account waits for.
MutantSaveToken(n) ==
  IF account[owner[n]].status # "absent"
    THEN [account EXCEPT ![owner[n]] = Row("valid", NoAttempt, n)] ELSE account

SaveToken(n) ==
  IF Accepts(n) THEN [account EXCEPT ![owner[n]] = Row("valid", NoAttempt, n)] ELSE account

\* Mutant: the failure is recorded whichever authorization the account waits for.
MutantFailAttempt(n) ==
  IF account[owner[n]].status # "absent"
    THEN [account EXCEPT ![owner[n]].status = "failed"] ELSE account

FailAttempt(n) ==
  IF Accepts(n) THEN [account EXCEPT ![owner[n]].status = "failed"] ELSE account

(***************************************************************************)
(* The proxy starts an authorization and asks for a task.                  *)
(***************************************************************************)
Start(i, row) ==
  /\ issued < MaxAttempts
  /\ issued' = issued + 1
  /\ owner' = [owner EXCEPT ![issued'] = i]
  /\ account' = [account EXCEPT ![i] = row]
  /\ caller' = [caller EXCEPT ![issued'] = "waiting"]
  /\ task' = [task EXCEPT ![issued'] = "sent"]
  /\ UNCHANGED <<queue, active, cancelled, draining, job, limit, up, late, wanted, counts>>

\* triggerOauthRefresh
Reauthorize(i) ==
  /\ account[i].status # "absent"
  /\ Start(i, Row("refreshing", issued + 1, account[i].token))

\* initializeEnsuredIdentity: createAccount leaves a row that has appeared
\* meanwhile its status and its attempt.
Provision(i) ==
  Start(i, IF account[i].status = "absent" THEN Row("refreshing", issued + 1, NoAttempt)
           ELSE account[i])

CallerAnswered(n) ==
  /\ caller[n] = "waiting" /\ task[n] \notin {"unsent", "sent"}
  /\ caller' = [caller EXCEPT ![n] = "done"]
  /\ UNCHANGED <<issued, owner, account, service, late, wanted, counts>>

\* The request failed, or timed out and may still arrive.
CallerFails(n) ==
  /\ caller[n] = "waiting"
  /\ caller' = [caller EXCEPT ![n] = "done"]
  /\ account' = FailAttempt(n)
  /\ UNCHANGED <<issued, owner, service, late, wanted, counts>>

(***************************************************************************)
(* What else happens to the account: a token is imported, a valid one is   *)
(* rejected upstream, the account is deleted.                              *)
(***************************************************************************)
Replace(i, row) ==
  /\ replacements < MaxReplacements /\ replacements + crashes < MaxUpsets
  /\ replacements' = replacements + 1
  /\ account' = [account EXCEPT ![i] = row]
  /\ UNCHANGED <<issued, owner, caller, service, late, wanted, commands, crashes>>

ImportToken(i) == Replace(i, Row("valid", NoAttempt, Imported))

Invalidate(i) == account[i].status = "valid" /\ Replace(i, Row("expired", NoAttempt, NoAttempt))

DeleteAccount(i) == account[i].status # "absent" /\ Replace(i, Row("absent", NoAttempt, NoAttempt))

(***************************************************************************)
(* The login service.                                                      *)
(***************************************************************************)
Ready == up /\ ~draining

QueueTask(n, status, next) ==
  /\ task' = [task EXCEPT ![n] = status]
  /\ queue' = next
  /\ UNCHANGED <<proxy, active, job, limit, up, late>>

\* POST /api/tasks
Enqueue(n) ==
  /\ Ready /\ task[n] = "sent"
  /\ QueueTask(n, "pending", Append(queue, n))
  /\ draining' = TRUE
  /\ wanted' = wanted \cup {n}
  /\ UNCHANGED <<cancelled, counts>>

Command == Ready /\ commands < MaxCommands /\ commands' = commands + 1
Known(n) == task[n] \notin {"unsent", "sent", "deleted"}

\* POST /api/tasks/:id/retry: any task there is a row for.
Retry(n) ==
  /\ Command /\ Known(n)
  /\ QueueTask(n, task[n], Append(queue, n))
  /\ draining' = TRUE
  /\ wanted' = wanted \cup {n}
  /\ UNCHANGED <<cancelled, replacements, crashes>>

WithoutFirst(s, n) ==
  LET first == CHOOSE k \in DOMAIN s : s[k] = n /\ \A j \in 1 .. k - 1 : s[j] # n
  IN  IF \E k \in DOMAIN s : s[k] = n
        THEN SubSeq(s, 1, first - 1) \o SubSeq(s, first + 1, Len(s)) ELSE s

\* POST /api/tasks/:id/cancel: a task that has ended keeps its status.
Cancel(n) ==
  /\ Command /\ Known(n)
  /\ cancelled' = cancelled \cup {n}
  /\ QueueTask(n, IF task[n] \in {"success", "failed"} THEN task[n] ELSE "cancelled",
               WithoutFirst(queue, n))
  /\ wanted' = wanted \ {n}
  /\ UNCHANGED <<draining, replacements, crashes>>

\* DELETE /api/tasks/:id
DeleteTask(n) ==
  /\ Command /\ task[n] \in {"success", "failed", "cancelled"}
  /\ QueueTask(n, "deleted", queue)
  /\ UNCHANGED <<cancelled, draining, wanted, replacements, crashes>>

\* Mutant: a changed limit is saved and the queue is not looked at.
MutantUpdateLimit ==
  /\ Command
  /\ limit' \in Limits
  /\ UNCHANGED <<draining, proxy, task, queue, active, cancelled, job, up, late, wanted,
                 replacements, crashes>>

UpdateLimit ==
  /\ Command
  /\ limit' \in Limits
  /\ draining' = TRUE
  /\ UNCHANGED <<proxy, task, queue, active, cancelled, job, up, late, wanted,
                 replacements, crashes>>

\* One round of drain(): a task that is gone or cancelled is passed over, any
\* other is marked running and its job starts.
Startable(n) == task[n] # "deleted" /\ n \notin cancelled
MoreToDrain  == Cardinality(active) < limit /\ queue # <<>>

DrainOne ==
  /\ up /\ draining /\ MoreToDrain
  /\ LET n == Head(queue)
     IN  /\ queue' = Tail(queue)
         /\ IF ~Startable(n) THEN UNCHANGED <<task, active, job>>
            ELSE /\ active' = active \cup {n}
                 /\ task' = [task EXCEPT ![n] = "running"]
                 /\ job' = Append(job, [task |-> n, at |-> "authorizing"])
  /\ UNCHANGED <<proxy, cancelled, draining, limit, up, late, wanted, counts>>

DrainEnds ==
  /\ up /\ draining /\ ~MoreToDrain
  /\ draining' = FALSE
  /\ UNCHANGED <<proxy, task, queue, active, cancelled, job, limit, up, late, wanted, counts>>

(***************************************************************************)
(* A job: runLoginTask, and what drain() hangs on its end.                 *)
(***************************************************************************)
JobAt(j, step) == up /\ j \in DOMAIN job /\ job[j].at = step
Go(j, step) == job' = [job EXCEPT ![j].at = step]
Mark(n, status) == task' = [task EXCEPT ![n] = IF @ = "deleted" THEN @ ELSE status]

\* The browser and GitHub's device flow, which end one way or the other.
Authorized(j) ==
  /\ Ready /\ JobAt(j, "authorizing")
  /\ Go(j, "saving")
  /\ UNCHANGED <<proxy, task, queue, active, cancelled, draining, limit, up, late, wanted, counts>>

NotAuthorized(j) ==
  /\ Ready /\ JobAt(j, "authorizing")
  /\ Go(j, "refused")
  /\ UNCHANGED <<proxy, task, queue, active, cancelled, draining, limit, up, late, wanted, counts>>

\* PUT copilot-oauth-token reaches the proxy, and the answer comes back or not.
ProxySaves(j) ==
  /\ JobAt(j, "saving")
  /\ account' = SaveToken(job[j].task)
  /\ \E answer \in {"saved", "refused"} :
       /\ answer = "saved" => Accepts(job[j].task)
       /\ Go(j, answer)
  /\ UNCHANGED <<issued, owner, caller, task, queue, active, cancelled, draining, limit, up, late,
                 wanted, counts>>

SaveTimesOut(j) ==
  /\ Ready /\ JobAt(j, "saving")
  /\ Go(j, "refused")
  /\ late' = late \cup {[report |-> "token", attempt |-> job[j].task]}
  /\ UNCHANGED <<proxy, task, queue, active, cancelled, draining, limit, up, wanted, counts>>

MarkSuccess(j) ==
  /\ Ready /\ JobAt(j, "saved")
  /\ Mark(job[j].task, "success")
  /\ Go(j, "ending")
  /\ UNCHANGED <<proxy, queue, active, cancelled, draining, limit, up, late, wanted, counts>>

MarkFailed(j) ==
  /\ Ready /\ JobAt(j, "refused")
  /\ Mark(job[j].task, "failed")
  /\ Go(j, "reporting")
  /\ UNCHANGED <<proxy, queue, active, cancelled, draining, limit, up, late, wanted, counts>>

\* POST mark-copilot-oauth-failed reaches the proxy; its answer changes nothing.
ProxyFails(j) ==
  /\ JobAt(j, "reporting")
  /\ account' = FailAttempt(job[j].task)
  /\ Go(j, "ending")
  /\ UNCHANGED <<issued, owner, caller, task, queue, active, cancelled, draining, limit, up, late,
                 wanted, counts>>

ReportTimesOut(j) ==
  /\ Ready /\ JobAt(j, "reporting")
  /\ Go(j, "ending")
  /\ late' = late \cup {[report |-> "failure", attempt |-> job[j].task]}
  /\ UNCHANGED <<proxy, task, queue, active, cancelled, draining, limit, up, wanted, counts>>

\* Mutant: the slot of a task is given back only if the task has not been cancelled.
MutantFinish(j) ==
  /\ Ready /\ JobAt(j, "ending")
  /\ Go(j, "ended")
  /\ active' = active \ ({job[j].task} \ cancelled)
  /\ draining' = TRUE
  /\ UNCHANGED <<proxy, task, queue, cancelled, limit, up, late, wanted, counts>>

Finish(j) ==
  /\ Ready /\ JobAt(j, "ending")
  /\ Go(j, "ended")
  /\ active' = active \ {job[j].task}
  /\ draining' = TRUE
  /\ UNCHANGED <<proxy, task, queue, cancelled, limit, up, late, wanted, counts>>

\* A report that was given up arrives after all.
LateReport ==
  \E m \in late :
    /\ late' = late \ {m}
    /\ account' = IF m.report = "token" THEN SaveToken(m.attempt) ELSE FailAttempt(m.attempt)
    /\ UNCHANGED <<issued, owner, caller, service, wanted, counts>>

(***************************************************************************)
(* The login service crashes and starts again.                             *)
(***************************************************************************)
UnderWay == {j \in DOMAIN job : job[j].at # "ended"}
InFlight == {[report |-> IF job[j].at = "saving" THEN "token" ELSE "failure",
              attempt |-> job[j].task] : j \in {k \in UnderWay : job[k].at \in {"saving", "reporting"}}}

Crash ==
  /\ up /\ crashes < MaxCrashes /\ replacements + crashes < MaxUpsets
  /\ crashes' = crashes + 1
  /\ up' = FALSE /\ draining' = FALSE
  /\ queue' = <<>> /\ active' = {} /\ cancelled' = {}
  /\ job' = [j \in DOMAIN job |-> [job[j] EXCEPT !.at = "ended"]]
  /\ late' = late \cup InFlight
  /\ wanted' = {}
  /\ UNCHANGED <<proxy, task, limit, commands, replacements>>

\* Mutant: the tasks that were queued are not told from those that ended.
MutantRestart ==
  /\ ~up /\ up' = TRUE
  /\ task' = [n \in Attempts |-> IF task[n] = "running" THEN "failed" ELSE task[n]]
  /\ UNCHANGED <<proxy, queue, active, cancelled, draining, job, limit, late, wanted, counts>>

Restart ==
  /\ ~up /\ up' = TRUE
  /\ task' = [n \in Attempts |-> IF task[n] \in {"pending", "running"} THEN "failed" ELSE task[n]]
  /\ UNCHANGED <<proxy, queue, active, cancelled, draining, job, limit, late, wanted, counts>>

(***************************************************************************)
(* The specification.  A job's steps end: the browser and the device flow  *)
(* have time limits, a request is given up after 30 seconds, and a         *)
(* continuation that is due runs.  No fairness is asked of operators, of   *)
(* the proxy's callers or of the network.                                  *)
(***************************************************************************)
JobStep(j) ==
  \/ Authorized(j) \/ NotAuthorized(j) \/ ProxySaves(j) \/ SaveTimesOut(j)
  \/ MarkSuccess(j) \/ MarkFailed(j) \/ ProxyFails(j) \/ ReportTimesOut(j) \/ Finish(j)

Drain == DrainOne \/ DrainEnds

Init ==
  /\ issued = 0 /\ owner = [n \in Attempts |-> CHOOSE i \in Identities : TRUE]
  /\ account = [i \in Identities |-> Row("absent", NoAttempt, NoAttempt)]
  /\ caller = [n \in Attempts |-> "idle"]
  /\ task = [n \in Attempts |-> "unsent"]
  /\ queue = <<>> /\ active = {} /\ cancelled = {} /\ job = <<>>
  /\ limit \in Limits /\ up = TRUE /\ draining = FALSE
  /\ late = {} /\ wanted = {}
  /\ commands = 0 /\ replacements = 0 /\ crashes = 0

Next ==
  \/ \E i \in Identities :
       Reauthorize(i) \/ Provision(i) \/ ImportToken(i) \/ Invalidate(i) \/ DeleteAccount(i)
  \/ \E n \in Attempts :
       \/ CallerAnswered(n) \/ CallerFails(n)
       \/ Enqueue(n) \/ Retry(n) \/ Cancel(n) \/ DeleteTask(n)
  \/ UpdateLimit \/ Drain
  \/ \E j \in 1..MaxJobs : JobStep(j)
  \/ LateReport \/ Crash \/ Restart

Fairness == WF_vars(Drain) /\ \A j \in 1..MaxJobs : WF_vars(JobStep(j))

Spec == Init /\ [][Next]_vars /\ Fairness

(***************************************************************************)
(* What the authorization of accounts promises.                            *)
(***************************************************************************)
Promise == INSTANCE OAuthAttempts WITH
  last       <- issued,
  awaited    <- [i \in Identities |-> account[i].attempt],
  credential <- [i \in Identities |-> IF account[i].status = "valid"
                                        THEN account[i].token ELSE NoAttempt]

\* Whatever is retried, cancelled, lost, late or restarted, only the newest
\* authorization of an account gives it a token, once: an old task that comes
\* late does not overwrite a new token (internalApi.ts, saveCopilotOauthToken).
KeepsPromise == Promise!Spec

\* A report of failure never takes a usable token from an account, not even
\* the report of a job whose token arrived after it had given up waiting, or of
\* a second job of the same task.
FailureSparesToken ==
  [][\A i \in Identities :
       account[i].status = "valid" => account'[i].status # "failed"]_vars

\* No task is left behind: while the service runs and drain() does not, a task
\* whose row says pending is in the queue, and waits only because as many
\* tasks as the limit allows are active.
NothingStranded ==
  Ready => \A n \in Attempts : task[n] = "pending" =>
    /\ \E k \in DOMAIN queue : queue[k] = n
    /\ Cardinality(active) >= limit

\* No slot is lost: an active task has a job that is under way and will give
\* its slot back; and no row says running that no job is running.
SlotsAreHeld ==
  up => /\ active \subseteq {job[j].task : j \in UnderWay}
        /\ \A n \in Attempts : task[n] = "running" => \E j \in UnderWay : job[j].task = n

\* A task that is queued is started, cancelled or ended by a crash, however
\* the tasks before it fare: none is pending for ever.
QueuedIsServed == \A n \in Attempts : []<>(up => task[n] # "pending")

(***************************************************************************)
(* What the repository says of the login service and the code does not do. *)
(***************************************************************************)

\* "the concurrency limit of each login process" (login/README.md:122): with a
\* limit nobody changes, no more jobs than that are under way.
WithinLimit == Cardinality(UnderWay) <= limit

\* "retry: queue the task again" (login/README.md:157): a task that was retried
\* after it was last cancelled is not passed over by drain().
RetriedIsStarted ==
  [][draining /\ up' /\ queue # <<>> /\ queue' = Tail(queue) /\ Head(queue) \in wanted
       /\ Known(Head(queue)) => job' # job]_vars

\* "a failure in the login service is reported with markCopilotOauthFailed"
\* (codebase-overview.md:364): an account does not go on waiting for a task
\* that has failed, unless the report is still to come or the task to be tried
\* again.
FailureIsReported ==
  \A n \in Attempts :
    up /\ task[n] = "failed" /\ account[owner[n]] = Row("refreshing", n, account[owner[n]].token) =>
      \/ \E j \in UnderWay : job[j].task = n
      \/ \E k \in DOMAIN queue : queue[k] = n
      \/ \E m \in late : m.attempt = n
=============================================================================

--------------------------- MODULE IdentityLease ---------------------------
(***************************************************************************)
(* An identity no account is known of is initialized by the proxy that     *)
(* holds its lease, a row of proxy_identity_initializations.  The pods     *)
(* share the row; within a pod a request joins the initialization that is  *)
(* under way.  Times are relative: how long ago something was, up to the   *)
(* length of a lease.                                                      *)
(***************************************************************************)
EXTENDS Naturals, Integers

CONSTANTS
  Requests,     \* requests for the identity; one that began to initialize goes on by itself
  Pods,         \* proxy processes
  Drivers,      \* subset of {"sqlite", "mysql"}
  Lease,        \* IDENTITY_INIT_LEASE_SECONDS
  MaxFailures,  \* bound on the steps that fail
  MaxPodCrashes \* bound on the pods that crash

ASSUME LeaseAssumption ==
  /\ Lease \in Nat \ {0} /\ MaxFailures \in Nat /\ MaxPodCrashes \in Nat
  /\ Drivers \subseteq {"sqlite", "mysql"} /\ Drivers # {}
  /\ Requests \cap {"dead", "nobody"} = {}

VARIABLES
  driver,        \* which storage it is
  row,           \* the row of the identity
  initializing,  \* of each pod: the request whose initialization the others join
  request,       \* each request
  status,        \* the status of its account
  completed,     \* how many initializations got as far as a login task, up to 2
  failures,      \* how many steps have failed
  podCrashes     \* how many pods have crashed

leaseVars == <<driver, row, initializing, request, status, completed, failures, podCrashes>>

Dead   == "dead"   \* the claim of a request that went down with its pod
Nobody == "nobody"
NoPod  == "no pod"

\* left: until lease_expires_at, -1 when it has passed before the last tick.
NoClaim == [claim |-> Nobody, left |-> 0]

\* age: since the request read the clock for its claim; created: the account is of its
\* attempt.
Resting == [at |-> "away", pod |-> NoPod, age |-> 0,
             claimed |-> FALSE, created |-> FALSE]

Stages == {"ensure", "sync", "create", "task"}
Places == {"away", "asked", "claim", "renew", "release"} \cup Stages

Initializers == {r \in Requests : request[r].claimed}

LeaseTypeOK ==
  /\ driver \in Drivers
  /\ row \in [claim : Requests \cup {Dead, Nobody}, left : -1..Lease]
  /\ initializing \in [Pods -> Requests \cup {Nobody}]
  /\ request \in [Requests -> [at : Places, pod : Pods \cup {NoPod}, age : 0..Lease,
                              claimed : BOOLEAN, created : BOOLEAN]]
  /\ status \in {"none", "refreshing", "failed"}
  /\ completed \in 0..2
  /\ failures \in 0..MaxFailures /\ podCrashes \in 0..MaxPodCrashes

LeaseInit ==
  /\ driver \in Drivers /\ row = NoClaim /\ status = "none"
  /\ initializing = [p \in Pods |-> Nobody]
  /\ request = [r \in Requests |-> Resting]
  /\ completed = 0 /\ failures = 0 /\ podCrashes = 0

-----------------------------------------------------------------------------

Claiming == {r \in Requests : request[r].at \in {"claim", "renew"}}

\* A claim is carried out, with its retries, within a tick of its reading of the clock.
LeaseTick ==
  /\ \A r \in Claiming : request[r].age = 0
  /\ row' = IF row.claim # Nobody /\ row.left >= 0 THEN [row EXCEPT !.left = @ - 1] ELSE row
  /\ request' = [r \in Requests |->
       IF r \in Claiming \cup Initializers /\ request[r].age < Lease
       THEN [request[r] EXCEPT !.age = @ + 1] ELSE request[r]]
  /\ UNCHANGED <<driver, initializing, status, completed, failures, podCrashes>>

Moves(r, place) == request' = [request EXCEPT ![r].at = place]
Rests(r)        == request' = [request EXCEPT ![r] = Resting]

\* getAccount finds nothing; otherwise the request is served or told to wait.
GetAuth(r, p) ==
  /\ request[r].at = "away" /\ status = "none"
  /\ request' = [request EXCEPT ![r].at = "asked", ![r].pod = p]
  /\ UNCHANGED <<driver, row, initializing, status, completed, failures, podCrashes>>

\* Joined: the answer comes with that of the initialization under way.
BeginIdentityInitialization(r) ==
  /\ request[r].at = "asked"
  /\ IF initializing[request[r].pod] # Nobody THEN Rests(r) ELSE Moves(r, "claim")
  /\ UNCHANGED <<driver, row, initializing, status, completed, failures, podCrashes>>

\* Mutant: a lease that is still running is taken over.
MutantExpired(r) == row.left <= Lease

\* lease_expires_at <= now, by the clock the request read.
Expired(r) == row.left + request[r].age <= 0

\* The lease runs from the reading of the clock.
Term(r) == Lease - request[r].age

\* The claim is the request's, and its initialization begins in the same pod.
Claimed(r) ==
  /\ row' = [claim |-> r, left |-> Term(r)]
  /\ request' = [request EXCEPT ![r].at = "ensure", ![r].claimed = TRUE]
  /\ initializing' = [initializing EXCEPT ![request[r].pod] = r]
  /\ UNCHANGED <<driver, status, completed, failures, podCrashes>>

NotClaimed(r) ==
  /\ Rests(r)
  /\ UNCHANGED <<driver, row, initializing, status, completed, failures, podCrashes>>

\* SQLite inserts or takes over in one statement, MySQL in two.
ClaimIdentityInitialization(r) ==
  /\ request[r].at = "claim"
  /\ IF row.claim = Nobody \/ (driver = "sqlite" /\ Expired(r)) THEN Claimed(r)
     ELSE IF driver = "sqlite" THEN NotClaimed(r)
     ELSE /\ Moves(r, "renew")
          /\ UNCHANGED <<driver, row, initializing, status, completed, failures, podCrashes>>

RenewExpired(r) ==
  /\ request[r].at = "renew"
  /\ IF row.claim # Nobody /\ Expired(r) THEN Claimed(r) ELSE NotClaimed(r)

\* The storage fails: MySQL tries both statements again after a deadlock or a lock
\* timeout, with the old reading of the clock.
ClaimFails(r) ==
  /\ r \in Claiming /\ failures < MaxFailures
  /\ failures' = failures + 1
  /\ Rests(r) \/ (driver = "mysql" /\ Moves(r, "claim"))
  /\ UNCHANGED <<driver, row, initializing, status, completed, podCrashes>>

\* ensureSsoUser and syncEmuUser of the SSO service.
EnsureSsoUser(r) ==
  /\ request[r].at = "ensure" /\ Moves(r, "sync")
  /\ UNCHANGED <<driver, row, initializing, status, completed, failures, podCrashes>>

SyncEmuUser(r) ==
  /\ request[r].at = "sync" /\ Moves(r, "create")
  /\ UNCHANGED <<driver, row, initializing, status, completed, failures, podCrashes>>

\* An account that exists keeps its status and its attempt.  SSO gives the password only
\* of some users: without it the authorization fails at once.
CreateAccount(r, password) ==
  /\ request[r].at = "create"
  /\ status' = IF status # "none" THEN status
                ELSE IF password THEN "refreshing" ELSE "failed"
  /\ request' = [request EXCEPT ![r].at = IF password THEN "task" ELSE "release",
                                ![r].created = status = "none"]
  /\ UNCHANGED <<driver, row, initializing, completed, failures, podCrashes>>

CreateLoginTask(r) ==
  /\ request[r].at = "task" /\ Moves(r, "release")
  /\ completed' = IF completed < 2 THEN completed + 1 ELSE completed
  /\ UNCHANGED <<driver, row, initializing, status, failures, podCrashes>>

\* Any of the requests fails; the authorization fails with the task.
Fails(r) ==
  /\ request[r].at \in Stages /\ failures < MaxFailures
  /\ failures' = failures + 1
  /\ Moves(r, "release")
  /\ status' = IF request[r].created THEN "failed" ELSE status
  /\ UNCHANGED <<driver, row, initializing, completed, podCrashes>>

\* DELETE ... WHERE identity = ? AND claim_id = ?
Released(r) == IF row.claim = r THEN NoClaim ELSE row

\* Mutant: the pod keeps the initialization that is over.
MutantForgets(r) == initializing

Forgets(r) == [p \in Pods |-> IF initializing[p] = r THEN Nobody ELSE initializing[p]]

ReleaseIdentityInitialization(r) ==
  /\ request[r].at = "release"
  /\ row' = Released(r)
  /\ initializing' = Forgets(r)
  /\ Rests(r)
  /\ UNCHANGED <<driver, status, completed, failures, podCrashes>>

\* A claim whose release fails is nobody's any more.
ReleaseFails(r) ==
  /\ request[r].at = "release" /\ failures < MaxFailures
  /\ failures' = failures + 1
  /\ row' = IF row.claim = r THEN [row EXCEPT !.claim = Dead] ELSE row
  /\ initializing' = Forgets(r)
  /\ Rests(r)
  /\ UNCHANGED <<driver, status, completed, podCrashes>>

LeaseCrash(p) ==
  /\ podCrashes < MaxPodCrashes
  /\ podCrashes' = podCrashes + 1
  /\ initializing' = [initializing EXCEPT ![p] = Nobody]
  /\ request' = [r \in Requests |-> IF request[r].pod = p THEN Resting ELSE request[r]]
  /\ row' = IF row.claim \in {r \in Requests : request[r].pod = p}
            THEN [row EXCEPT !.claim = Dead] ELSE row
  /\ UNCHANGED <<driver, status, completed, failures>>

Advance(r) ==
  \/ BeginIdentityInitialization(r) \/ ClaimIdentityInitialization(r) \/ RenewExpired(r)
  \/ EnsureSsoUser(r) \/ SyncEmuUser(r) \/ CreateLoginTask(r)
  \/ \E password \in BOOLEAN : CreateAccount(r, password)
  \/ ReleaseIdentityInitialization(r)

AnyArrives == \E r \in Requests, p \in Pods : GetAuth(r, p)

LeaseNext ==
  \/ LeaseTick \/ AnyArrives \/ \E p \in Pods : LeaseCrash(p)
  \/ \E r \in Requests : Advance(r) \/ ClaimFails(r) \/ Fails(r) \/ ReleaseFails(r)

LeaseSpec == LeaseInit /\ [][LeaseNext]_leaseVars

\* Time passes, requests keep coming, and every step is taken that is not in vain.
LeaseFairness ==
  /\ WF_leaseVars(LeaseTick) /\ WF_leaseVars(AnyArrives)
  /\ \A r \in Requests : WF_leaseVars(Advance(r))

-----------------------------------------------------------------------------
(* Properties. *)

\* Two initializations are under way at once only when the lease of one of them is over,
\* whatever crashes, and whoever releases late.
LeaseExcludes ==
  \A q, r \in Initializers : q # r => request[q].age = Lease \/ request[r].age = Lease

Initialized == status # "none"

\* An identity that is asked for is initialized in the end, although requests of the
\* initialization fail, pods crash and their leases have to be waited for.
EventuallyInitialized == []<>Initialized

\* What the documents say of the pods: the side effects are not carried out twice.
InitializedOnce == completed < 2
=============================================================================

------------------------- MODULE LoginQueue_proofs --------------------------
(***************************************************************************)
(* The authorization of accounts, for any number of accounts, of           *)
(* authorizations, of commands and of crashes: the queue of the login      *)
(* service loses no task and no slot, and whatever comes late, twice or    *)
(* not at all, an account gets its token from the authorization it waits   *)
(* for.                                                                    *)
(***************************************************************************)
EXTENDS LoginQueue, FiniteSetTheorems, SequenceTheorems, WellFoundedInduction, TLAPS

\* An account with a token that can be used waits for no authorization.
ValidAwaitsNothing ==
  \A i \in Identities : account[i].status = "valid" => account[i].attempt = NoAttempt

\* The steps of a job after which its task is still marked.
Unmarked == {"authorizing", "saving", "saved", "refused"}

\* A task whose row says running has a job that will mark it.
RunningIsExecuted ==
  \A n \in Attempts : task[n] = "running" =>
    \E j \in DOMAIN job : job[j].task = n /\ job[j].at \in Unmarked

\* An active task has a job that will give its slot back.
ActiveIsExecuted ==
  \A n \in active : \E j \in DOMAIN job : job[j].task = n /\ job[j].at # "ended"

Holds(s, n) == \E k \in DOMAIN s : s[k] = n
Queued(n)   == Holds(queue, n)

\* A pending task is in the queue, and drain() will not pass it over.
PendingIsQueued ==
  \A n \in Attempts : task[n] = "pending" => n \notin cancelled /\ Queued(n)

\* Only a task there was a row for is ever cancelled.
CancelledIsKnown ==
  \A n \in cancelled : task[n] \notin {"unsent", "sent"}

\* drain() ends only when nothing waits or every slot is taken.
DrainedWell ==
  ~draining => \A n \in Attempts : task[n] = "pending" => Cardinality(active) >= limit

\* What is queued or executed was asked for by an authorization that has started.
Issued == 1 .. issued

AllAreIssued ==
  /\ queue \in Seq(Issued)
  /\ \A j \in DOMAIN job : job[j].task \in Issued
  /\ \A n \in Attempts : task[n] # "unsent" => n \in Issued

QueueIInv ==
  /\ TypeOK /\ ValidAwaitsNothing /\ AllAreIssued /\ CancelledIsKnown
  /\ up => RunningIsExecuted /\ ActiveIsExecuted /\ PendingIsQueued /\ DrainedWell
  /\ ~up => active = {}

AJob == [task : Attempts, at : JobSteps]

-----------------------------------------------------------------------------
(* The rows, the queue and the jobs keep their types. *)

LEMMA AttemptNames == NoAttempt \notin Attempts /\ Imported \notin Attempts /\ Imported # NoAttempt
  BY LoginAssumption DEF Attempts, NoAttempt, Imported

LEMMA RowType ==
  ASSUME NEW status \in AccountStatuses, NEW n \in {NoAttempt} \cup Attempts,
         NEW token \in {NoAttempt, Imported} \cup Attempts
  PROVE  Row(status, n, token) \in Account
  BY DEF Row, Account

LEMMA SaveTokenType ==
  ASSUME TypeOK, NEW n \in Attempts
  PROVE  SaveToken(n) \in [Identities -> Account]
  <1>1. Row("valid", NoAttempt, n) \in Account
    BY RowType DEF AccountStatuses
  <1>2. owner[n] \in Identities
    BY DEF TypeOK
  <1> QED
    BY <1>1, <1>2 DEF SaveToken, TypeOK

LEMMA FailAttemptType ==
  ASSUME TypeOK, NEW n \in Attempts
  PROVE  FailAttempt(n) \in [Identities -> Account]
  <1>1. owner[n] \in Identities /\ account \in [Identities -> Account]
    BY DEF TypeOK
  <1>2. [account[owner[n]] EXCEPT !.status = "failed"] \in Account
    BY <1>1 DEF Account, AccountStatuses
  <1> QED
    BY <1>1, <1>2 DEF FailAttempt

\* What is left of a sequence without the first n: all that is not n, and nothing new.
LEMMA WithoutFirstKeeps ==
  ASSUME NEW S, NEW s \in Seq(S), NEW n \in S
  PROVE  /\ WithoutFirst(s, n) \in Seq(S)
         /\ \A m \in S : m # n /\ Holds(s, m) => Holds(WithoutFirst(s, n), m)
  <1>1. CASE ~\E k \in DOMAIN s : s[k] = n
    BY <1>1 DEF WithoutFirst, Holds
  <1>2. CASE \E k \in DOMAIN s : s[k] = n
    <2> DEFINE first == CHOOSE k \in DOMAIN s : s[k] = n /\ \A j \in 1 .. k - 1 : s[j] # n
               a == SubSeq(s, 1, first - 1)
               b == SubSeq(s, first + 1, Len(s))
    <2>1. DOMAIN s = 1 .. Len(s) /\ Len(s) \in Nat /\ \A k \in 1 .. Len(s) : s[k] \in S
      BY LenProperties
    <2>2. \E k \in DOMAIN s : s[k] = n /\ \A j \in 1 .. k - 1 : s[j] # n
      <3> DEFINE found == {k \in DOMAIN s : s[k] = n}
      <3>1. found \in SUBSET Nat /\ found # {}
        BY <1>2, <2>1
      <3>2. \E k \in found : \A j \in found : ~(<<j, k>> \in OpToRel(<, Nat))
        <4> HIDE DEF found
        <4> QED
          BY <3>1, NatLessThanWellFounded, WFMin
      <3>3. PICK k \in found : \A j \in found : ~(j < k)
        BY <3>1, <3>2 DEF OpToRel
      <3>4. k \in 1 .. Len(s) /\ s[k] = n
        BY <2>1
      <3>5. ASSUME NEW j \in 1 .. k - 1 PROVE s[j] # n
        BY <3>3, <3>4, <2>1
      <3> QED
        BY <3>4, <3>5, <2>1
    <2>3. first \in DOMAIN s /\ s[first] = n
      BY <2>2
    <2>4. WithoutFirst(s, n) = a \o b
      BY <1>2 DEF WithoutFirst
    <2> HIDE DEF first
    <2>5. a \in Seq(S) /\ Len(a) = first - 1 /\ \A i \in 1 .. first - 1 : a[i] = s[i]
      BY <2>1, <2>3, SubSeqProperties
    <2>6. /\ b \in Seq(S) /\ Len(b) = Len(s) - first
          /\ \A i \in 1 .. Len(s) - first : b[i] = s[first + i]
      BY <2>1, <2>3, SubSeqProperties
    <2> HIDE DEF a, b
    <2>7. /\ a \o b \in Seq(S) /\ Len(a \o b) = Len(s) - 1
          /\ \A i \in 1 .. Len(s) - 1 :
               (a \o b)[i] = IF i <= first - 1 THEN a[i] ELSE b[i - (first - 1)]
      <3>1. /\ a \o b \in Seq(S) /\ Len(a \o b) = Len(a) + Len(b)
            /\ \A i \in 1 .. Len(a) + Len(b) :
                 (a \o b)[i] = IF i <= Len(a) THEN a[i] ELSE b[i - Len(a)]
        BY <2>5, <2>6, ConcatProperties
      <3>2. Len(a) + Len(b) = Len(s) - 1
        BY <2>5, <2>6, <2>1, <2>3
      <3> QED
        BY <3>1, <3>2, <2>5
    <2>8. ASSUME NEW m \in S, m # n, NEW k \in DOMAIN s, s[k] = m
          PROVE  \E i \in DOMAIN (a \o b) : (a \o b)[i] = m
      <3>1. DOMAIN (a \o b) = 1 .. Len(s) - 1
        BY <2>7, LenProperties
      <3>2. CASE k < first
        <4>1. k \in 1 .. Len(s) - 1 /\ k <= first - 1
          BY <3>2, <2>1, <2>3
        <4> QED
          BY <4>1, <3>1, <2>5, <2>7, <2>8, <2>1, <2>3
      <3>3. CASE k > first
        <4>1. k - 1 \in 1 .. Len(s) - 1 /\ ~(k - 1 <= first - 1)
                /\ (k - 1) - (first - 1) \in 1 .. Len(s) - first
          BY <3>3, <2>1, <2>3
        <4>2. b[(k - 1) - (first - 1)] = s[k]
          BY <4>1, <2>6, <2>1, <2>3
        <4> QED
          BY <4>1, <4>2, <3>1, <2>7, <2>8
      <3> QED
        BY <3>2, <3>3, <2>8, <2>3, <2>1
    <2> QED
      BY <2>4, <2>7, <2>8 DEF Holds
  <1> QED
    BY <1>1, <1>2
\* A job that goes on to its next step is still the job of its task, and the others stay.
LEMMA GoKeeps ==
  ASSUME TypeOK, NEW j \in DOMAIN job, NEW step \in JobSteps, Go(j, step)
  PROVE  /\ job' \in Seq(AJob) /\ DOMAIN job' = DOMAIN job
         /\ job'[j].task = job[j].task /\ job'[j].at = step
         /\ \A k \in DOMAIN job : k # j => job'[k] = job[k]
         /\ job[j].task \in Attempts
  <1>1. job \in Seq(AJob) /\ DOMAIN job = 1 .. Len(job) /\ j \in 1 .. Len(job)
    BY LenProperties DEF TypeOK, AJob
  <1>2. job[j] \in AJob
    BY <1>1, ElementOfSeq
  <1>3. [job[j] EXCEPT !.at = step] \in AJob
    BY <1>2 DEF AJob
  <1>4. job' = [job EXCEPT ![j] = [job[j] EXCEPT !.at = step]]
    BY DEF Go
  <1>5. job' \in Seq(AJob) /\ Len(job') = Len(job)
    BY <1>1, <1>3, <1>4, ExceptSeq
  <1>6. DOMAIN job' = DOMAIN job
    BY <1>4
  <1> QED
    BY <1>1, <1>2, <1>3, <1>4, <1>5, <1>6 DEF AJob

LEMMA AppendJobKeeps ==
  ASSUME TypeOK, NEW n \in Attempts, job' = Append(job, [task |-> n, at |-> "authorizing"])
  PROVE  /\ job' \in Seq(AJob)
         /\ \A k \in DOMAIN job : k \in DOMAIN job' /\ job'[k] = job[k]
         /\ \E k \in DOMAIN job' : job'[k].task = n /\ job'[k].at = "authorizing"
  <1>1. job \in Seq(AJob) /\ DOMAIN job = 1 .. Len(job) /\ Len(job) \in Nat
    BY LenProperties DEF TypeOK, AJob
  <1>2. [task |-> n, at |-> "authorizing"] \in AJob
    BY DEF AJob, JobSteps
  <1>3. /\ job' \in Seq(AJob) /\ Len(job') = Len(job) + 1
        /\ \A k \in 1 .. Len(job) : job'[k] = job[k]
        /\ job'[Len(job) + 1] = [task |-> n, at |-> "authorizing"]
    BY <1>1, <1>2, AppendProperties
  <1>4. DOMAIN job' = 1 .. Len(job) + 1
    BY <1>3, LenProperties
  <1> QED
    BY <1>1, <1>3, <1>4

LEMMA CrashedJobsType ==
  ASSUME TypeOK, job' = [j \in DOMAIN job |-> [job[j] EXCEPT !.at = "ended"]]
  PROVE  job' \in Seq(AJob)
  <1>1. job \in Seq(AJob) /\ DOMAIN job = 1 .. Len(job) /\ Len(job) \in Nat
    BY LenProperties DEF TypeOK, AJob
  <1>2. \A j \in 1 .. Len(job) : [job[j] EXCEPT !.at = "ended"] \in AJob
    <2> SUFFICES ASSUME NEW j \in 1 .. Len(job)
                 PROVE  [job[j] EXCEPT !.at = "ended"] \in AJob
      OBVIOUS
    <2>1. job[j] \in AJob
      BY <1>1, ElementOfSeq
    <2> QED
      BY <2>1 DEF AJob, JobSteps
  <1>3. job' \in [1 .. Len(job) -> AJob]
    BY <1>1, <1>2
  <1> QED
    BY <1>1, <1>3

LEMMA MarkType ==
  ASSUME TypeOK, NEW n \in Attempts, NEW status \in TaskStatuses, Mark(n, status)
  PROVE  task' \in [Attempts -> TaskStatuses]
  BY DEF TypeOK, Mark

LEMMA InFlightType ==
  ASSUME TypeOK
  PROVE  InFlight \subseteq [report : {"token", "failure"}, attempt : Attempts]
  <1>1. job \in Seq(AJob) /\ DOMAIN job = 1 .. Len(job)
    BY LenProperties DEF TypeOK, AJob
  <1>2. \A j \in DOMAIN job : job[j].task \in Attempts
    <2> SUFFICES ASSUME NEW j \in 1 .. Len(job) PROVE job[j].task \in Attempts
      BY <1>1
    <2>1. job[j] \in AJob
      BY <1>1, ElementOfSeq
    <2> QED
      BY <2>1 DEF AJob
  <1> QED
    BY <1>2 DEF InFlight, UnderWay

LEMMA HeadOfQueue ==
  ASSUME TypeOK, queue # <<>>
  PROVE  /\ Head(queue) \in Attempts /\ Tail(queue) \in Seq(Attempts)
         /\ \A m : m # Head(queue) /\ Queued(m) => Holds(Tail(queue), m)
  <1>1. queue \in Seq(Attempts) /\ DOMAIN queue = 1 .. Len(queue) /\ Len(queue) \in Nat
    BY LenProperties DEF TypeOK
  <1>2. /\ Head(queue) \in Attempts /\ Tail(queue) \in Seq(Attempts)
        /\ Len(Tail(queue)) = Len(queue) - 1
        /\ \A i \in 1 .. Len(Tail(queue)) : Tail(queue)[i] = queue[i + 1]
    BY <1>1, HeadTailProperties
  <1>3. Head(queue) = queue[1]
    BY <1>1
  <1>4. ASSUME NEW m, m # Head(queue), NEW k \in DOMAIN queue, queue[k] = m
        PROVE  \E i \in DOMAIN Tail(queue) : Tail(queue)[i] = m
    <2>1. DOMAIN Tail(queue) = 1 .. Len(queue) - 1
      BY <1>2, LenProperties
    <2>2. k - 1 \in 1 .. Len(queue) - 1 /\ (k - 1) + 1 = k
      BY <1>1, <1>3, <1>4
    <2>3. Tail(queue)[k - 1] = m
      BY <2>2, <1>2, <1>4
    <2> QED
      BY <2>1, <2>2, <2>3
  <1> QED
    BY <1>2, <1>4 DEF Queued, Holds

LEMMA AppendQueueKeeps ==
  ASSUME TypeOK, NEW n \in Attempts
  PROVE  /\ Append(queue, n) \in Seq(Attempts)
         /\ \A m \in Attempts : (m = n \/ Queued(m)) => Holds(Append(queue, n), m)
  <1>1. queue \in Seq(Attempts) /\ DOMAIN queue = 1 .. Len(queue) /\ Len(queue) \in Nat
    BY LenProperties DEF TypeOK
  <1>2. /\ Append(queue, n) \in Seq(Attempts) /\ Len(Append(queue, n)) = Len(queue) + 1
        /\ \A i \in 1 .. Len(queue) : Append(queue, n)[i] = queue[i]
        /\ Append(queue, n)[Len(queue) + 1] = n
    BY <1>1, AppendProperties
  <1>3. DOMAIN Append(queue, n) = 1 .. Len(queue) + 1
    BY <1>2, LenProperties
  <1> QED
    BY <1>1, <1>2, <1>3 DEF Queued, Holds

-----------------------------------------------------------------------------
(* The account rows. *)

LEMMA SaveTokenKeeps ==
  ASSUME TypeOK, ValidAwaitsNothing, NEW n \in Attempts, account' = SaveToken(n)
  PROVE  account' \in [Identities -> Account] /\ ValidAwaitsNothing'
  <1>1. account' \in [Identities -> Account]
    BY SaveTokenType
  <1>2. owner[n] \in Identities /\ account \in [Identities -> Account]
    BY DEF TypeOK
  <1>3. ValidAwaitsNothing'
    BY <1>2 DEF ValidAwaitsNothing, SaveToken, Row
  <1> QED
    BY <1>1, <1>3

LEMMA FailAttemptKeeps ==
  ASSUME TypeOK, ValidAwaitsNothing, NEW n \in Attempts, account' = FailAttempt(n)
  PROVE  account' \in [Identities -> Account] /\ ValidAwaitsNothing'
  <1>1. account' \in [Identities -> Account]
    BY FailAttemptType
  <1>2. owner[n] \in Identities /\ account \in [Identities -> Account]
    BY DEF TypeOK
  <1>3. \A i \in Identities : account'[i].status = "valid" => account'[i] = account[i]
    <2> SUFFICES ASSUME NEW i \in Identities, account'[i].status = "valid"
                 PROVE  account'[i] = account[i]
      OBVIOUS
    <2>1. CASE Accepts(n) /\ i = owner[n]
      <3>1. account'[i] = [account[i] EXCEPT !.status = "failed"] /\ account[i] \in Account
        BY <2>1, <1>2 DEF FailAttempt
      <3> QED
        BY <3>1 DEF Account
    <2> QED
      BY <2>1, <1>2 DEF FailAttempt
  <1>4. ValidAwaitsNothing'
    BY <1>3 DEF ValidAwaitsNothing
  <1> QED
    BY <1>1, <1>4

LEMMA NewRowKeeps ==
  ASSUME TypeOK, ValidAwaitsNothing, NEW i \in Identities, NEW row \in Account,
         row.status = "valid" => row.attempt = NoAttempt,
         account' = [account EXCEPT ![i] = row]
  PROVE  account' \in [Identities -> Account] /\ ValidAwaitsNothing'
  BY DEF TypeOK, ValidAwaitsNothing

\* A step of the proxy or of the network that the login service does not see.
LEMMA ServiceUnchanged ==
  ASSUME QueueIInv, UNCHANGED <<issued, owner, service, wanted>>,
         account' \in [Identities -> Account], ValidAwaitsNothing',
         caller' \in [Attempts -> {"idle", "waiting", "done"}], late' \subseteq late
  PROVE  QueueIInv'
  <1>1. TypeOK'
    BY DEF QueueIInv, TypeOK, service
  <1>2. (AllAreIssued /\ CancelledIsKnown)'
    BY DEF QueueIInv, AllAreIssued, CancelledIsKnown, Issued, service
  <1>3. (up => RunningIsExecuted /\ ActiveIsExecuted /\ PendingIsQueued /\ DrainedWell)'
    BY DEF QueueIInv, RunningIsExecuted, ActiveIsExecuted, PendingIsQueued, DrainedWell, Queued, service
  <1>4. (~up => active = {})'
    BY DEF QueueIInv, service
  <1> QED
    BY <1>1, <1>2, <1>3, <1>4 DEF QueueIInv

LEMMA StartKeeps ==
  ASSUME QueueIInv, NEW i \in Identities, NEW row \in Account,
         row.status = "valid" => row.attempt = NoAttempt, Start(i, row)
  PROVE  QueueIInv'
  <1> DEFINE n == issued + 1
  <1>1. /\ n \in Attempts /\ issued' = n /\ task' = [task EXCEPT ![n] = "sent"]
        /\ TypeOK /\ MaxAttempts \in Nat
    BY LoginAssumption DEF QueueIInv, TypeOK, Start, Attempts
  <1>2. account' \in [Identities -> Account] /\ ValidAwaitsNothing'
    BY NewRowKeeps DEF QueueIInv, Start
  <1>3. TypeOK'
    <2>1. issued' \in 0 .. MaxAttempts /\ task' \in [Attempts -> TaskStatuses]
      BY <1>1 DEF TypeOK, TaskStatuses, Attempts
    <2>2. owner' \in [Attempts -> Identities]
            /\ caller' \in [Attempts -> {"idle", "waiting", "done"}]
      BY <1>1 DEF TypeOK, Start
    <2> QED
      BY <1>2, <2>1, <2>2, <1>1 DEF TypeOK, Start
  <1>4. task[n] = "unsent"
    BY <1>1 DEF QueueIInv, AllAreIssued, Issued, TypeOK
  <1>5. \A m \in Attempts : m # n => task'[m] = task[m]
    BY <1>1 DEF TypeOK
  <1>6. task'[n] = "sent"
    BY <1>1 DEF TypeOK
  <1>7. AllAreIssued'
    <2>1. Issued \subseteq Issued' /\ n \in Issued'
      BY <1>1 DEF Issued, TypeOK
    <2>2. queue' \in Seq(Issued')
      BY <2>1, SeqMonotonic DEF QueueIInv, AllAreIssued, Start
    <2> QED
      BY <2>1, <2>2, <1>5 DEF QueueIInv, AllAreIssued, Start
  <1>8. CancelledIsKnown'
    BY <1>4, <1>5, <1>1 DEF QueueIInv, CancelledIsKnown, Start, TypeOK
  <1>9. (up => RunningIsExecuted /\ ActiveIsExecuted /\ PendingIsQueued /\ DrainedWell)'
    BY <1>5, <1>6 DEF QueueIInv, RunningIsExecuted, ActiveIsExecuted, PendingIsQueued, DrainedWell,
                      Queued, Start
  <1> QED
    BY <1>2, <1>3, <1>7, <1>8, <1>9 DEF QueueIInv, Start

LEMMA ProxySteps ==
  ASSUME QueueIInv, NEW i \in Identities,
         Reauthorize(i) \/ Provision(i) \/ ImportToken(i) \/ Invalidate(i) \/ DeleteAccount(i)
  PROVE  QueueIInv'
  <1>1. TypeOK /\ account[i] \in Account
    BY DEF QueueIInv, TypeOK
  <1>2. account[i].token \in {NoAttempt, Imported} \cup Attempts
    BY <1>1 DEF Account
  <1>3. issued < MaxAttempts => issued + 1 \in {NoAttempt} \cup Attempts
    BY <1>1, LoginAssumption DEF TypeOK, Attempts
  <1>4. CASE Reauthorize(i)
    <2>1. Row("refreshing", issued + 1, account[i].token) \in Account
      BY <1>2, <1>3, <1>4, RowType DEF Reauthorize, Start, AccountStatuses
    <2>2. Row("refreshing", issued + 1, account[i].token).status # "valid"
      BY DEF Row
    <2> QED
      BY <2>1, <2>2, <1>4, StartKeeps DEF Reauthorize
  <1>5. CASE Provision(i) /\ account[i].status = "absent"
    <2>1. Row("refreshing", issued + 1, NoAttempt) \in Account
      BY <1>3, <1>5, RowType DEF Provision, Start, AccountStatuses
    <2>2. Row("refreshing", issued + 1, NoAttempt).status # "valid"
      BY DEF Row
    <2> QED
      BY <2>1, <2>2, <1>5, StartKeeps DEF Provision
  <1>6. CASE Provision(i) /\ account[i].status # "absent"
    BY <1>1, <1>6, StartKeeps DEF Provision, QueueIInv, ValidAwaitsNothing
  <1>7. ASSUME NEW row \in Account, row.status = "valid" => row.attempt = NoAttempt,
               Replace(i, row)
        PROVE  QueueIInv'
    <2>1. account' \in [Identities -> Account] /\ ValidAwaitsNothing'
      BY <1>7, NewRowKeeps DEF QueueIInv, Replace
    <2>2. caller' \in [Attempts -> {"idle", "waiting", "done"}]
      BY <1>7, <1>1 DEF Replace, TypeOK
    <2> QED
      BY <2>1, <2>2, <1>7, ServiceUnchanged DEF Replace
  <1>8. Row("valid", NoAttempt, Imported) \in Account /\ Row("expired", NoAttempt, NoAttempt) \in Account
          /\ Row("absent", NoAttempt, NoAttempt) \in Account
    BY RowType DEF AccountStatuses
  <1>9. /\ Row("valid", NoAttempt, Imported).attempt = NoAttempt
        /\ Row("expired", NoAttempt, NoAttempt).attempt = NoAttempt
        /\ Row("absent", NoAttempt, NoAttempt).attempt = NoAttempt
    BY DEF Row
  <1> QED
    BY <1>4, <1>5, <1>6, <1>7, <1>8, <1>9 DEF ImportToken, Invalidate, DeleteAccount

LEMMA CallerSteps ==
  ASSUME QueueIInv, NEW n \in Attempts, CallerAnswered(n) \/ CallerFails(n)
  PROVE  QueueIInv'
  <1>1. TypeOK /\ ValidAwaitsNothing
    BY DEF QueueIInv
  <1>2. caller' \in [Attempts -> {"idle", "waiting", "done"}]
    BY <1>1 DEF TypeOK, CallerAnswered, CallerFails
  <1>3. CASE CallerAnswered(n)
    <2>1. account' \in [Identities -> Account] /\ ValidAwaitsNothing'
      BY <1>1, <1>3 DEF CallerAnswered, TypeOK, ValidAwaitsNothing
    <2> QED
      BY <1>2, <1>3, <2>1, ServiceUnchanged DEF CallerAnswered
  <1>4. CASE CallerFails(n)
    BY <1>1, <1>2, <1>4, FailAttemptKeeps, ServiceUnchanged DEF CallerFails
  <1> QED
    BY <1>3, <1>4

LEMMA LateReportKeeps == QueueIInv /\ LateReport => QueueIInv'
  <1> SUFFICES ASSUME QueueIInv, LateReport PROVE QueueIInv'
    OBVIOUS
  <1>1. TypeOK /\ ValidAwaitsNothing
    BY DEF QueueIInv
  <1>2. PICK m \in late :
          /\ late' = late \ {m}
          /\ account' = IF m.report = "token" THEN SaveToken(m.attempt) ELSE FailAttempt(m.attempt)
          /\ UNCHANGED <<issued, owner, caller, service, wanted, counts>>
    BY DEF LateReport
  <1>3. m.attempt \in Attempts
    BY <1>1 DEF TypeOK
  <1>4. account' \in [Identities -> Account] /\ ValidAwaitsNothing'
    BY <1>1, <1>2, <1>3, SaveTokenKeeps, FailAttemptKeeps
  <1>5. caller' \in [Attempts -> {"idle", "waiting", "done"}] /\ late' \subseteq late
    BY <1>1, <1>2 DEF TypeOK
  <1> QED
    BY <1>2, <1>4, <1>5, ServiceUnchanged

-----------------------------------------------------------------------------
(* The handlers of the login service. *)

\* A handler that gives one task a status other than running, and a queue in which the
\* other tasks still are: what is executed stays executed, what is pending stays queued.
LEMMA TaskQueued ==
  ASSUME QueueIInv, Ready, NEW n \in Issued, n \in Attempts,
         NEW status \in TaskStatuses \ {"unsent", "sent"},
         NEW next \in Seq(Issued), QueueTask(n, status, next),
         status = "running" => task[n] = "running",
         \A m \in Attempts : m # n /\ Queued(m) => Holds(next, m),
         status = "pending" => n \notin cancelled' /\ Holds(next, n),
         draining' \in BOOLEAN, wanted' \subseteq Attempts,
         cancelled' \in {cancelled, cancelled \cup {n}},
         status = "pending" => draining'
  PROVE  QueueIInv'
  <1>1. TypeOK /\ up /\ ~draining /\ RunningIsExecuted /\ ActiveIsExecuted /\ PendingIsQueued
          /\ DrainedWell
    BY DEF QueueIInv, Ready
  <1>2. /\ task' = [task EXCEPT ![n] = status] /\ queue' = next
        /\ UNCHANGED <<issued, owner, account, caller, active, job, limit, up, late>>
    BY DEF QueueTask, proxy
  <1>3. task'[n] = status /\ \A m \in Attempts : m # n => task'[m] = task[m]
    BY <1>1, <1>2 DEF TypeOK
  <1>4. TypeOK'
    <2>1. Issued \subseteq Attempts
      BY <1>1, LoginAssumption DEF Issued, Attempts, TypeOK
    <2>2. queue' \in Seq(Attempts)
      BY <1>2, <2>1, SeqMonotonic
    <2>3. task' \in [Attempts -> TaskStatuses] /\ cancelled' \subseteq Attempts
      BY <1>1, <1>2 DEF TypeOK
    <2> QED
      BY <1>1, <1>2, <2>2, <2>3 DEF TypeOK
  <1>5. ValidAwaitsNothing'
    BY <1>2 DEF QueueIInv, ValidAwaitsNothing
  <1>6. AllAreIssued'
    BY <1>2, <1>3 DEF QueueIInv, AllAreIssued, Issued
  <1>7. CancelledIsKnown'
    BY <1>1, <1>3 DEF QueueIInv, CancelledIsKnown, TypeOK
  <1>8. RunningIsExecuted' /\ ActiveIsExecuted'
    BY <1>1, <1>2, <1>3 DEF RunningIsExecuted, ActiveIsExecuted
  <1>9. PendingIsQueued'
    <2> SUFFICES ASSUME NEW m \in Attempts, task'[m] = "pending"
                 PROVE  m \notin cancelled' /\ Holds(next, m)
      BY <1>2 DEF PendingIsQueued, Queued
    <2>1. CASE m = n
      BY <2>1, <1>3
    <2>2. CASE m # n
      BY <2>2, <1>1, <1>3 DEF PendingIsQueued
    <2> QED
      BY <2>1, <2>2
  <1>10. DrainedWell'
    <2> SUFFICES ASSUME ~draining', NEW m \in Attempts, task'[m] = "pending"
                 PROVE  Cardinality(active) >= limit
      BY <1>2 DEF DrainedWell
    <2>1. task[m] = "pending"
      BY <1>3
    <2> QED
      BY <1>1, <2>1 DEF DrainedWell
  <1> QED
    BY <1>1, <1>2, <1>4, <1>5, <1>6, <1>7, <1>8, <1>9, <1>10 DEF QueueIInv

LEMMA KnownIsIssued ==
  ASSUME QueueIInv, NEW n \in Attempts, task[n] # "unsent"
  PROVE  n \in Issued /\ task[n] \in TaskStatuses
  BY DEF QueueIInv, AllAreIssued, TypeOK

LEMMA AppendedQueue ==
  ASSUME QueueIInv, NEW n \in Attempts, n \in Issued
  PROVE  /\ Append(queue, n) \in Seq(Issued)
         /\ \A m \in Attempts : (m = n \/ Queued(m)) => Holds(Append(queue, n), m)
  <1>1. Append(queue, n) \in Seq(Issued)
    BY AppendProperties DEF QueueIInv, AllAreIssued
  <1> QED
    BY <1>1, AppendQueueKeeps DEF QueueIInv, Queued

LEMMA EnqueueKeeps ==
  ASSUME QueueIInv, NEW n \in Attempts, Enqueue(n)
  PROVE  QueueIInv'
  <1>1. n \in Issued
    BY KnownIsIssued DEF Enqueue
  <1>2. n \notin cancelled
    BY DEF QueueIInv, CancelledIsKnown, Enqueue
  <1> DEFINE next == Append(queue, n)
  <1>3. /\ Ready /\ QueueTask(n, "pending", next) /\ draining' /\ draining' \in BOOLEAN
        /\ wanted' \subseteq Attempts /\ cancelled' = cancelled
    BY DEF QueueIInv, TypeOK, Enqueue
  <1>4. /\ next \in Seq(Issued) /\ Holds(next, n)
        /\ \A m \in Attempts : m # n /\ Queued(m) => Holds(next, m)
    BY <1>1, AppendedQueue
  <1>5. "pending" \in TaskStatuses \ {"unsent", "sent"}
    BY DEF TaskStatuses
  <1> HIDE DEF next
  <1> QED
    BY <1>1, <1>2, <1>3, <1>4, <1>5, TaskQueued

LEMMA RetryKeeps ==
  ASSUME QueueIInv, NEW n \in Attempts, Retry(n)
  PROVE  QueueIInv'
  <1>1. n \in Issued /\ task[n] \in TaskStatuses \ {"unsent", "sent"}
    BY KnownIsIssued DEF Retry, Known
  <1>2. task[n] = "pending" => n \notin cancelled
    BY DEF QueueIInv, PendingIsQueued, Retry, Command, Ready
  <1> DEFINE next == Append(queue, n)
  <1>3. /\ Ready /\ QueueTask(n, task[n], next) /\ draining' /\ draining' \in BOOLEAN
        /\ wanted' \subseteq Attempts /\ cancelled' = cancelled
    BY DEF QueueIInv, TypeOK, Retry, Command
  <1>4. /\ next \in Seq(Issued) /\ Holds(next, n)
        /\ \A m \in Attempts : m # n /\ Queued(m) => Holds(next, m)
    BY <1>1, AppendedQueue
  <1> HIDE DEF next
  <1> QED
    BY <1>1, <1>2, <1>3, <1>4, TaskQueued

LEMMA CancelKeeps ==
  ASSUME QueueIInv, NEW n \in Attempts, Cancel(n)
  PROVE  QueueIInv'
  <1> DEFINE status == IF task[n] \in {"success", "failed"} THEN task[n] ELSE "cancelled"
             next == WithoutFirst(queue, n)
  <1>1. n \in Issued /\ Ready /\ QueueTask(n, status, next)
    BY KnownIsIssued DEF Cancel, Known, Command
  <1>2. /\ status \in TaskStatuses \ {"unsent", "sent"}
        /\ status # "running" /\ status # "pending"
    BY DEF TaskStatuses
  <1>3. next \in Seq(Issued) /\ \A m \in Attempts : m # n /\ Queued(m) => Holds(next, m)
    <2>1. queue \in Seq(Issued)
      BY DEF QueueIInv, AllAreIssued
    <2>2. /\ WithoutFirst(queue, n) \in Seq(Issued)
          /\ \A m \in Issued : m # n /\ Queued(m) => Holds(WithoutFirst(queue, n), m)
      BY <1>1, <2>1, WithoutFirstKeeps DEF Queued
    <2>3. ASSUME NEW m \in Attempts, Queued(m) PROVE m \in Issued
      BY <2>1, <2>3, LenProperties DEF Queued, Holds
    <2> QED
      BY <2>2, <2>3
  <1>4. wanted' \subseteq Attempts /\ draining' = draining /\ draining \in BOOLEAN
          /\ cancelled' = cancelled \cup {n}
    BY DEF QueueIInv, TypeOK, Cancel
  <1> HIDE DEF status, next
  <1> QED
    BY <1>1, <1>2, <1>3, <1>4, TaskQueued

LEMMA DeleteTaskKeeps ==
  ASSUME QueueIInv, NEW n \in Attempts, DeleteTask(n)
  PROVE  QueueIInv'
  <1>1. n \in Issued /\ Ready
    BY KnownIsIssued DEF DeleteTask, Command
  <1>2. queue \in Seq(Issued) /\ wanted' \subseteq Attempts /\ draining' = draining /\ draining \in BOOLEAN
    BY DEF QueueIInv, AllAreIssued, TypeOK, DeleteTask
  <1> QED
    BY <1>1, <1>2, TaskQueued DEF DeleteTask, TaskStatuses, Queued

LEMMA UpdateLimitKeeps == QueueIInv /\ UpdateLimit => QueueIInv'
  <1> SUFFICES ASSUME QueueIInv, UpdateLimit PROVE QueueIInv'
    OBVIOUS
  <1>1. TypeOK'
    BY DEF QueueIInv, TypeOK, UpdateLimit, proxy
  <1>2. (ValidAwaitsNothing /\ AllAreIssued /\ CancelledIsKnown)'
    BY DEF QueueIInv, ValidAwaitsNothing, AllAreIssued, Issued, CancelledIsKnown, UpdateLimit, proxy
  <1>3. (up => RunningIsExecuted /\ ActiveIsExecuted /\ PendingIsQueued /\ DrainedWell)'
    BY DEF QueueIInv, RunningIsExecuted, ActiveIsExecuted, PendingIsQueued, DrainedWell, Queued, UpdateLimit
  <1> QED
    BY <1>1, <1>2, <1>3 DEF QueueIInv, UpdateLimit

-----------------------------------------------------------------------------
(* drain() *)

LEMMA FiniteActive ==
  ASSUME TypeOK
  PROVE  IsFiniteSet(active) /\ Cardinality(active) \in Nat
  <1>1. IsFiniteSet(Attempts)
    BY LoginAssumption, FS_Interval DEF Attempts
  <1>2. IsFiniteSet(active)
    BY <1>1, FS_Subset DEF TypeOK
  <1> QED
    BY <1>2, FS_CardinalityType

LEMMA DrainEndsKeeps == QueueIInv /\ DrainEnds => QueueIInv'
  <1> SUFFICES ASSUME QueueIInv, DrainEnds PROVE QueueIInv'
    OBVIOUS
  <1>1. TypeOK'
    BY DEF QueueIInv, TypeOK, DrainEnds, proxy
  <1>2. (ValidAwaitsNothing /\ AllAreIssued /\ CancelledIsKnown)'
    BY DEF QueueIInv, ValidAwaitsNothing, AllAreIssued, Issued, CancelledIsKnown, DrainEnds, proxy
  <1>3. (RunningIsExecuted /\ ActiveIsExecuted /\ PendingIsQueued)'
    BY DEF QueueIInv, RunningIsExecuted, ActiveIsExecuted, PendingIsQueued, Queued, DrainEnds
  <1>4. DrainedWell'
    <2> SUFFICES ASSUME NEW n \in Attempts, task[n] = "pending"
                 PROVE  Cardinality(active) >= limit
      BY DEF DrainedWell, DrainEnds
    <2>1. Queued(n)
      BY DEF QueueIInv, PendingIsQueued, DrainEnds
    <2>2. queue # <<>>
      BY <2>1 DEF Queued, Holds
    <2>3. ~(Cardinality(active) < limit)
      BY <2>2 DEF DrainEnds, MoreToDrain
    <2>4. Cardinality(active) \in Nat /\ limit \in Nat
      BY FiniteActive, LoginAssumption DEF QueueIInv, TypeOK
    <2> QED
      BY <2>3, <2>4
  <1> QED
    BY <1>1, <1>2, <1>3, <1>4 DEF QueueIInv, DrainEnds

LEMMA DrainOneKeeps == QueueIInv /\ DrainOne => QueueIInv'
  <1> SUFFICES ASSUME QueueIInv, DrainOne PROVE QueueIInv'
    OBVIOUS
  <1> DEFINE n == Head(queue)
  <1>1. TypeOK /\ up /\ draining /\ queue # <<>> /\ queue' = Tail(queue)
          /\ UNCHANGED <<issued, owner, account, caller, cancelled, draining, limit, up, late, wanted>>
          /\ RunningIsExecuted /\ ActiveIsExecuted /\ PendingIsQueued
    BY DEF QueueIInv, DrainOne, MoreToDrain, proxy
  <1>2. n \in Attempts /\ Tail(queue) \in Seq(Attempts)
          /\ \A m \in Attempts : m # n /\ Queued(m) => Queued(m)'
    BY <1>1, HeadOfQueue DEF Queued
  <1>3. n \in Issued /\ queue' \in Seq(Issued') /\ Issued' = Issued
    BY <1>1, HeadTailProperties DEF QueueIInv, AllAreIssued, Issued
  <1>4. ValidAwaitsNothing'
    BY <1>1 DEF QueueIInv, ValidAwaitsNothing
  <1>5. DrainedWell'
    BY <1>1 DEF DrainedWell
  <1>6. CASE ~Startable(n)
    <2>1. UNCHANGED <<task, active, job>>
      BY <1>6 DEF DrainOne
    <2>2. TypeOK'
      BY <1>1, <1>2, <2>1 DEF TypeOK
    <2>3. AllAreIssued' /\ CancelledIsKnown' /\ RunningIsExecuted' /\ ActiveIsExecuted'
      BY <1>1, <1>3, <2>1 DEF QueueIInv, AllAreIssued, CancelledIsKnown, RunningIsExecuted,
                               ActiveIsExecuted
    <2>4. PendingIsQueued'
      <3> SUFFICES ASSUME NEW m \in Attempts, task[m] = "pending"
                   PROVE  m \notin cancelled /\ Queued(m)'
        BY <1>1, <2>1 DEF PendingIsQueued
      <3>1. m \notin cancelled /\ Queued(m)
        BY <1>1 DEF PendingIsQueued
      <3>2. m # n
        BY <3>1, <1>6 DEF Startable
      <3> QED
        BY <3>1, <3>2, <1>2
    <2> QED
      BY <1>1, <1>4, <1>5, <2>2, <2>3, <2>4 DEF QueueIInv
  <1>7. CASE Startable(n)
    <2>1. /\ active' = active \cup {n} /\ task' = [task EXCEPT ![n] = "running"]
          /\ job' = Append(job, [task |-> n, at |-> "authorizing"])
      BY <1>7 DEF DrainOne
    <2>2. /\ job' \in Seq(AJob)
          /\ \A k \in DOMAIN job : k \in DOMAIN job' /\ job'[k] = job[k]
          /\ \E k \in DOMAIN job' : job'[k].task = n /\ job'[k].at = "authorizing"
      BY <1>1, <1>2, <2>1, AppendJobKeeps
    <2>3. task'[n] = "running" /\ \A m \in Attempts : m # n => task'[m] = task[m]
      BY <1>1, <1>2, <2>1 DEF TypeOK
    <2>4. TypeOK'
      <3>1. task' \in [Attempts -> TaskStatuses] /\ active' \subseteq Attempts
        BY <1>1, <1>2, <2>1 DEF TypeOK, TaskStatuses
      <3> QED
        BY <1>1, <1>2, <2>2, <3>1 DEF TypeOK, AJob
    <2>5. AllAreIssued'
      <3>1. job \in Seq(AJob)
        BY <1>1 DEF TypeOK, AJob
      <3>2. /\ DOMAIN job = 1 .. Len(job) /\ DOMAIN job' = 1 .. Len(job) + 1
            /\ job'[Len(job) + 1] = [task |-> n, at |-> "authorizing"]
        <4>1. [task |-> n, at |-> "authorizing"] \in AJob
          BY <1>2 DEF AJob, JobSteps
        <4> QED
          BY <2>1, <3>1, <4>1, AppendProperties, LenProperties
      <3>3. \A k \in DOMAIN job' : job'[k].task \in Issued
        <4> SUFFICES ASSUME NEW k \in DOMAIN job' PROVE job'[k].task \in Issued
          OBVIOUS
        <4>1. k \in DOMAIN job \/ k = Len(job) + 1
          BY <3>1, <3>2, LenProperties
        <4> QED
          BY <4>1, <2>2, <3>2, <1>3 DEF QueueIInv, AllAreIssued
      <3> QED
        BY <1>3, <2>3, <3>3 DEF QueueIInv, AllAreIssued
    <2>6. CancelledIsKnown'
      BY <1>1, <2>3 DEF QueueIInv, CancelledIsKnown, TypeOK
    <2>7. RunningIsExecuted'
      <3> SUFFICES ASSUME NEW m \in Attempts, task'[m] = "running"
                   PROVE  \E j \in DOMAIN job' : job'[j].task = m /\ job'[j].at \in Unmarked
        BY DEF RunningIsExecuted
      <3>1. CASE m = n
        BY <3>1, <2>2 DEF Unmarked
      <3>2. CASE m # n
        BY <3>2, <1>1, <2>2, <2>3 DEF RunningIsExecuted
      <3> QED
        BY <3>1, <3>2
    <2>8. ActiveIsExecuted'
      <3> SUFFICES ASSUME NEW m \in active'
                   PROVE  \E j \in DOMAIN job' : job'[j].task = m /\ job'[j].at # "ended"
        BY DEF ActiveIsExecuted
      <3>1. CASE m = n
        BY <3>1, <2>2
      <3>2. CASE m \in active
        BY <3>2, <1>1, <2>2 DEF ActiveIsExecuted
      <3> QED
        BY <3>1, <3>2, <2>1
    <2>9. PendingIsQueued'
      BY <1>1, <1>2, <2>3 DEF PendingIsQueued
    <2> QED
      BY <1>1, <1>4, <1>5, <2>4, <2>5, <2>6, <2>7, <2>8, <2>9 DEF QueueIInv
  <1> QED
    BY <1>6, <1>7

-----------------------------------------------------------------------------
(* The jobs. *)

Reports == [report : {"token", "failure"}, attempt : Attempts]

\* A step of a job that neither marks its task nor ends the job.
LEMMA JobGoesOn ==
  ASSUME QueueIInv, up, NEW j \in DOMAIN job, NEW step \in JobSteps \ {"ended"}, Go(j, step),
         step \in Unmarked \/ job[j].at \notin Unmarked,
         account' \in [Identities -> Account], ValidAwaitsNothing', late' \subseteq Reports,
         UNCHANGED <<issued, owner, caller, task, queue, active, cancelled, draining, limit, up, wanted>>
  PROVE  QueueIInv'
  <1>1. TypeOK /\ RunningIsExecuted /\ ActiveIsExecuted /\ PendingIsQueued /\ DrainedWell
    BY DEF QueueIInv
  <1>2. /\ job' \in Seq(AJob) /\ DOMAIN job' = DOMAIN job
        /\ job'[j].task = job[j].task /\ job'[j].at = step
        /\ \A k \in DOMAIN job : k # j => job'[k] = job[k]
    BY <1>1, GoKeeps
  <1>3. TypeOK'
    BY <1>1, <1>2 DEF TypeOK, AJob, Reports
  <1>4. AllAreIssued' /\ CancelledIsKnown'
    <2>1. \A k \in DOMAIN job' : job'[k].task \in Issued
      BY <1>2 DEF QueueIInv, AllAreIssued
    <2> QED
      BY <2>1 DEF QueueIInv, AllAreIssued, Issued, CancelledIsKnown
  <1>5. RunningIsExecuted'
    BY <1>1, <1>2 DEF RunningIsExecuted
  <1>6. ActiveIsExecuted'
    BY <1>1, <1>2 DEF ActiveIsExecuted
  <1>7. PendingIsQueued' /\ DrainedWell'
    BY <1>1 DEF PendingIsQueued, Queued, DrainedWell
  <1> QED
    BY <1>3, <1>4, <1>5, <1>6, <1>7 DEF QueueIInv

\* The task of a job that marks it is not running any more.
LEMMA JobMarks ==
  ASSUME QueueIInv, Ready, NEW j \in DOMAIN job, NEW step \in JobSteps \ {"ended"}, Go(j, step),
         NEW status \in {"success", "failed"}, Mark(job[j].task, status),
         UNCHANGED <<proxy, queue, active, cancelled, draining, limit, up, late, wanted>>
  PROVE  QueueIInv'
  <1> DEFINE n == job[j].task
  <1>1. TypeOK /\ up /\ RunningIsExecuted /\ ActiveIsExecuted /\ PendingIsQueued /\ DrainedWell
    BY DEF QueueIInv, Ready
  <1>2. /\ job' \in Seq(AJob) /\ DOMAIN job' = DOMAIN job
        /\ job'[j].task = n /\ job'[j].at = step /\ n \in Attempts
        /\ \A k \in DOMAIN job : k # j => job'[k] = job[k]
    BY <1>1, GoKeeps
  <1>3. /\ task' \in [Attempts -> TaskStatuses]
        /\ task'[n] \in {"success", "failed", "deleted"}
        /\ \A m \in Attempts : m # n => task'[m] = task[m]
    BY <1>1, <1>2 DEF TypeOK, Mark, TaskStatuses
  <1>4. TypeOK'
    BY <1>1, <1>2, <1>3 DEF TypeOK, AJob, proxy
  <1>5. AllAreIssued' /\ CancelledIsKnown' /\ ValidAwaitsNothing'
    <2>1. \A k \in DOMAIN job' : job'[k].task \in Issued
      BY <1>2 DEF QueueIInv, AllAreIssued
    <2>2. \A m \in Attempts : task'[m] # "unsent" => m \in Issued
      BY <1>2, <1>3 DEF QueueIInv, AllAreIssued
    <2>3. CancelledIsKnown'
      BY <1>1, <1>3 DEF QueueIInv, CancelledIsKnown, TypeOK
    <2> QED
      BY <2>1, <2>2, <2>3 DEF QueueIInv, AllAreIssued, Issued, ValidAwaitsNothing, proxy
  <1>6. RunningIsExecuted'
    <2> SUFFICES ASSUME NEW m \in Attempts, task'[m] = "running"
                 PROVE  \E k \in DOMAIN job' : job'[k].task = m /\ job'[k].at \in Unmarked
      BY DEF RunningIsExecuted
    <2>1. m # n /\ task[m] = "running"
      BY <1>3
    <2>2. PICK k \in DOMAIN job : job[k].task = m /\ job[k].at \in Unmarked
      BY <1>1, <2>1 DEF RunningIsExecuted
    <2> QED
      BY <1>2, <2>1, <2>2
  <1>7. ActiveIsExecuted'
    BY <1>1, <1>2 DEF ActiveIsExecuted
  <1>8. PendingIsQueued' /\ DrainedWell'
    BY <1>1, <1>3 DEF PendingIsQueued, Queued, DrainedWell
  <1> QED
    BY <1>1, <1>4, <1>5, <1>6, <1>7, <1>8 DEF QueueIInv

LEMMA FinishKeeps ==
  ASSUME QueueIInv, NEW j, Finish(j)
  PROVE  QueueIInv'
  <1> DEFINE n == job[j].task
  <1>1. /\ TypeOK /\ up /\ RunningIsExecuted /\ ActiveIsExecuted /\ PendingIsQueued
        /\ j \in DOMAIN job /\ job[j].at = "ending" /\ Go(j, "ended")
    BY DEF QueueIInv, Finish, Ready, JobAt
  <1>2. /\ active' = active \ {n} /\ draining'
        /\ draining' \in BOOLEAN
        /\ UNCHANGED <<proxy, task, queue, cancelled, limit, up, late, wanted>>
    BY DEF Finish
  <1>3. /\ job' \in Seq(AJob) /\ DOMAIN job' = DOMAIN job
        /\ job'[j].task = n /\ job'[j].at = "ended"
        /\ \A k \in DOMAIN job : k # j => job'[k] = job[k]
    BY <1>1, GoKeeps DEF JobSteps
  <1>4. TypeOK'
    <2>1. active' \subseteq Attempts
      BY <1>1, <1>2 DEF TypeOK
    <2> QED
      BY <1>1, <1>2, <1>3, <2>1 DEF TypeOK, AJob, proxy
  <1>5. AllAreIssued' /\ CancelledIsKnown' /\ ValidAwaitsNothing'
    <2>1. \A k \in DOMAIN job' : job'[k].task \in Issued
      BY <1>3 DEF QueueIInv, AllAreIssued
    <2> QED
      BY <1>2, <2>1 DEF QueueIInv, AllAreIssued, Issued, CancelledIsKnown, ValidAwaitsNothing, proxy
  <1>6. RunningIsExecuted'
    BY <1>1, <1>2, <1>3 DEF RunningIsExecuted, Unmarked
  <1>7. ActiveIsExecuted'
    <2> SUFFICES ASSUME NEW m \in active'
                 PROVE  \E k \in DOMAIN job' : job'[k].task = m /\ job'[k].at # "ended"
      BY DEF ActiveIsExecuted
    <2>1. m # n /\ m \in active
      BY <1>2
    <2>2. PICK k \in DOMAIN job : job[k].task = m /\ job[k].at # "ended"
      BY <1>1, <2>1 DEF ActiveIsExecuted
    <2> QED
      BY <1>3, <2>1, <2>2
  <1>8. PendingIsQueued' /\ DrainedWell'
    BY <1>1, <1>2 DEF PendingIsQueued, Queued, DrainedWell
  <1> QED
    BY <1>1, <1>2, <1>4, <1>5, <1>6, <1>7, <1>8 DEF QueueIInv

LEMMA JobStepKeeps ==
  ASSUME QueueIInv, NEW j, JobStep(j)
  PROVE  QueueIInv'
  <1>1. TypeOK /\ ValidAwaitsNothing /\ account \in [Identities -> Account] /\ late \subseteq Reports
    BY DEF QueueIInv, TypeOK, Reports
  <1>2. j \in DOMAIN job => job[j].task \in Attempts
    <2>1. job \in Seq(AJob)
      BY <1>1 DEF TypeOK, AJob
    <2>2. j \in DOMAIN job => job[j] \in AJob
      BY <2>1, ElementOfSeq, LenProperties
    <2> QED
      BY <2>2 DEF AJob
  <1>3. CASE Authorized(j) \/ NotAuthorized(j)
    <2>1. PICK step \in {"saving", "refused"} : Go(j, step)
      BY <1>3 DEF Authorized, NotAuthorized
    <2>2. /\ up /\ j \in DOMAIN job /\ ValidAwaitsNothing' /\ account' = account /\ late' = late
          /\ UNCHANGED <<issued, owner, caller, task, queue, active, cancelled, draining, limit, up, wanted>>
      BY <1>1, <1>3 DEF Authorized, NotAuthorized, Ready, JobAt, proxy, ValidAwaitsNothing
    <2> QED
      BY <1>1, <2>1, <2>2, JobGoesOn DEF JobSteps, Unmarked
  <1>4. CASE ProxySaves(j)
    <2>1. PICK step \in {"saved", "refused"} : Go(j, step)
      BY <1>4 DEF ProxySaves
    <2>2. /\ up /\ j \in DOMAIN job /\ late' = late /\ account' = SaveToken(job[j].task)
          /\ UNCHANGED <<issued, owner, caller, task, queue, active, cancelled, draining, limit, up, wanted>>
      BY <1>4 DEF ProxySaves, JobAt
    <2>3. account' \in [Identities -> Account] /\ ValidAwaitsNothing'
      BY <1>1, <1>2, <2>2, SaveTokenKeeps
    <2> QED
      BY <1>1, <2>1, <2>2, <2>3, JobGoesOn DEF JobSteps, Unmarked
  <1>5. CASE SaveTimesOut(j)
    <2>1. /\ up /\ j \in DOMAIN job /\ ValidAwaitsNothing' /\ account' = account /\ Go(j, "refused")
          /\ UNCHANGED <<issued, owner, caller, task, queue, active, cancelled, draining, limit, up, wanted>>
      BY <1>1, <1>5 DEF SaveTimesOut, Ready, JobAt, proxy, ValidAwaitsNothing
    <2>2. late' \subseteq Reports
      BY <1>1, <1>2, <1>5, <2>1 DEF SaveTimesOut, Reports
    <2> QED
      BY <1>1, <2>1, <2>2, JobGoesOn DEF JobSteps, Unmarked
  <1>6. CASE MarkSuccess(j)
    BY <1>6, JobMarks DEF MarkSuccess, JobAt, JobSteps
  <1>7. CASE MarkFailed(j)
    BY <1>7, JobMarks DEF MarkFailed, JobAt, JobSteps
  <1>8. CASE ProxyFails(j)
    <2>1. /\ up /\ j \in DOMAIN job /\ late' = late /\ account' = FailAttempt(job[j].task)
          /\ Go(j, "ending") /\ job[j].at \notin Unmarked
          /\ UNCHANGED <<issued, owner, caller, task, queue, active, cancelled, draining, limit, up, wanted>>
      BY <1>8 DEF ProxyFails, JobAt, Unmarked
    <2>2. account' \in [Identities -> Account] /\ ValidAwaitsNothing'
      BY <1>1, <1>2, <2>1, FailAttemptKeeps
    <2> QED
      BY <1>1, <2>1, <2>2, JobGoesOn DEF JobSteps
  <1>9. CASE ReportTimesOut(j)
    <2>1. /\ up /\ j \in DOMAIN job /\ ValidAwaitsNothing' /\ account' = account /\ Go(j, "ending")
          /\ job[j].at \notin Unmarked
          /\ UNCHANGED <<issued, owner, caller, task, queue, active, cancelled, draining, limit, up, wanted>>
      BY <1>1, <1>9 DEF ReportTimesOut, Ready, JobAt, Unmarked, proxy, ValidAwaitsNothing
    <2>2. late' \subseteq Reports
      BY <1>1, <1>2, <1>9, <2>1 DEF ReportTimesOut, Reports
    <2> QED
      BY <1>1, <2>1, <2>2, JobGoesOn DEF JobSteps
  <1> QED
    BY <1>3, <1>4, <1>5, <1>6, <1>7, <1>8, <1>9, FinishKeeps DEF JobStep

-----------------------------------------------------------------------------
(* A crash, and the start after it. *)

LEMMA CrashKeeps == QueueIInv /\ Crash => QueueIInv'
  <1> SUFFICES ASSUME QueueIInv, Crash PROVE QueueIInv'
    OBVIOUS
  <1>1. TypeOK
    BY DEF QueueIInv
  <1>2. job' \in Seq(AJob) /\ DOMAIN job' = DOMAIN job
          /\ \A j \in DOMAIN job : job'[j].task = job[j].task
    <2>1. job' = [j \in DOMAIN job |-> [job[j] EXCEPT !.at = "ended"]]
      BY DEF Crash
    <2>2. job \in Seq(AJob)
      BY <1>1 DEF TypeOK, AJob
    <2>3. \A j \in DOMAIN job : job[j] \in AJob
      BY <2>2, ElementOfSeq, LenProperties
    <2> QED
      BY <1>1, <2>1, <2>3, CrashedJobsType DEF AJob
  <1>3. /\ up' = FALSE /\ draining' = FALSE /\ queue' = <<>> /\ active' = {} /\ cancelled' = {}
        /\ late' = late \cup InFlight /\ wanted' = {}
        /\ UNCHANGED <<issued, owner, account, caller, task, limit>>
    BY DEF Crash, proxy
  <1>4. TypeOK'
    <2>1. late' \subseteq [report : {"token", "failure"}, attempt : Attempts]
      BY <1>1, <1>3, InFlightType DEF TypeOK
    <2>2. queue' \in Seq(Attempts)
      BY <1>3, EmptySeq
    <2> QED
      BY <1>1, <1>2, <1>3, <2>1, <2>2 DEF TypeOK, AJob
  <1>5. AllAreIssued'
    <2>1. queue' \in Seq(Issued')
      BY <1>3, EmptySeq
    <2> QED
      BY <2>1, <1>2, <1>3 DEF QueueIInv, AllAreIssued, Issued
  <1>6. ValidAwaitsNothing' /\ CancelledIsKnown'
    BY <1>3 DEF QueueIInv, ValidAwaitsNothing, CancelledIsKnown
  <1> QED
    BY <1>3, <1>4, <1>5, <1>6 DEF QueueIInv

LEMMA RestartKeeps == QueueIInv /\ Restart => QueueIInv'
  <1> SUFFICES ASSUME QueueIInv, Restart PROVE QueueIInv'
    OBVIOUS
  <1>1. /\ TypeOK /\ active = {}
        /\ task' = [n \in Attempts |-> IF task[n] \in {"pending", "running"} THEN "failed" ELSE task[n]]
        /\ UNCHANGED <<issued, owner, account, caller, queue, active, cancelled, draining, job, limit,
                       late, wanted>>
        /\ up' = TRUE
    BY DEF QueueIInv, Restart, proxy
  <1>2. TypeOK'
    <2>1. task' \in [Attempts -> TaskStatuses]
      BY <1>1 DEF TypeOK, TaskStatuses
    <2>2. up' \in BOOLEAN
      BY <1>1
    <2> QED
      BY <1>1, <2>1, <2>2 DEF TypeOK
  <1>3. \A n \in Attempts : task'[n] \notin {"pending", "running"}
                              /\ (task'[n] \in {"unsent", "sent"} => task'[n] = task[n])
                              /\ (task[n] = "unsent" => task'[n] = "unsent")
    BY <1>1
  <1>4. AllAreIssued' /\ CancelledIsKnown' /\ ValidAwaitsNothing'
    <2>1. AllAreIssued'
      BY <1>1, <1>3 DEF QueueIInv, AllAreIssued, Issued
    <2>2. CancelledIsKnown'
      BY <1>1, <1>3 DEF QueueIInv, CancelledIsKnown, TypeOK
    <2>3. ValidAwaitsNothing'
      BY <1>1 DEF QueueIInv, ValidAwaitsNothing
    <2> QED
      BY <2>1, <2>2, <2>3
  <1>5. RunningIsExecuted' /\ PendingIsQueued' /\ DrainedWell'
    BY <1>3 DEF RunningIsExecuted, PendingIsQueued, DrainedWell
  <1>6. ActiveIsExecuted'
    BY <1>1 DEF ActiveIsExecuted
  <1> QED
    BY <1>1, <1>2, <1>4, <1>5, <1>6 DEF QueueIInv

-----------------------------------------------------------------------------
(* The invariant. *)

LEMMA InitHolds == Init => QueueIInv
  <1> SUFFICES ASSUME Init PROVE QueueIInv
    OBVIOUS
  <1>1. \A n \in Attempts : task[n] = "unsent"
    BY DEF Init
  <1>2. \A i \in Identities : account[i] = Row("absent", NoAttempt, NoAttempt)
    BY DEF Init
  <1>3. /\ issued = 0 /\ queue = <<>> /\ active = {} /\ cancelled = {} /\ job = <<>>
        /\ limit \in Limits /\ up = TRUE /\ draining = FALSE /\ late = {} /\ wanted = {}
    BY DEF Init
  <1>4. TypeOK
    <2>1. Row("absent", NoAttempt, NoAttempt) \in Account
      BY RowType DEF AccountStatuses
    <2>2. account \in [Identities -> Account]
      BY <2>1 DEF Init
    <2>3. (CHOOSE i \in Identities : TRUE) \in Identities
      BY LoginAssumption
    <2>4. owner \in [Attempts -> Identities]
      BY <2>3 DEF Init
    <2>5. /\ task \in [Attempts -> TaskStatuses]
          /\ caller \in [Attempts -> {"idle", "waiting", "done"}]
      BY DEF Init, TaskStatuses
    <2>6. queue \in Seq(Attempts) /\ job \in Seq([task : Attempts, at : JobSteps])
      BY <1>3, EmptySeq
    <2>7. issued \in 0 .. MaxAttempts
      BY <1>3, LoginAssumption
    <2>8. up \in BOOLEAN /\ draining \in BOOLEAN
      BY <1>3
    <2> QED
      BY <1>3, <2>2, <2>4, <2>5, <2>6, <2>7, <2>8 DEF TypeOK
  <1>5. ValidAwaitsNothing
    BY <1>2 DEF ValidAwaitsNothing, Row
  <1>6. AllAreIssued
    <2>1. queue \in Seq(Issued)
      BY <1>3, EmptySeq
    <2> QED
      BY <1>1, <1>3, <2>1 DEF AllAreIssued
  <1>7. CancelledIsKnown /\ RunningIsExecuted /\ ActiveIsExecuted /\ PendingIsQueued /\ DrainedWell
    BY <1>1, <1>3 DEF CancelledIsKnown, RunningIsExecuted, ActiveIsExecuted, PendingIsQueued, DrainedWell
  <1> QED
    BY <1>3, <1>4, <1>5, <1>6, <1>7 DEF QueueIInv

LEMMA StutterKeeps == QueueIInv /\ UNCHANGED vars => QueueIInv'
  <1> SUFFICES ASSUME QueueIInv, UNCHANGED vars PROVE QueueIInv'
    OBVIOUS
  <1>1. UNCHANGED <<issued, owner, service, wanted>> /\ account' = account
          /\ caller' = caller /\ late' = late
    BY DEF vars, proxy
  <1>2. ValidAwaitsNothing'
    BY <1>1 DEF QueueIInv, ValidAwaitsNothing
  <1> QED
    BY <1>1, <1>2, ServiceUnchanged DEF QueueIInv, TypeOK

LEMMA NextKeeps == QueueIInv /\ [Next]_vars => QueueIInv'
  <1>1. ASSUME QueueIInv, Next PROVE QueueIInv'
    <2>1. CASE \E i \in Identities :
                 Reauthorize(i) \/ Provision(i) \/ ImportToken(i) \/ Invalidate(i) \/ DeleteAccount(i)
      BY <1>1, <2>1, ProxySteps
    <2>2. CASE \E n \in Attempts : CallerAnswered(n) \/ CallerFails(n)
      BY <1>1, <2>2, CallerSteps
    <2>3. CASE \E n \in Attempts : Enqueue(n) \/ Retry(n) \/ Cancel(n) \/ DeleteTask(n)
      BY <1>1, <2>3, EnqueueKeeps, RetryKeeps, CancelKeeps, DeleteTaskKeeps
    <2>4. CASE UpdateLimit \/ Drain
      BY <1>1, <2>4, UpdateLimitKeeps, DrainOneKeeps, DrainEndsKeeps DEF Drain
    <2>5. CASE \E j \in 1 .. MaxJobs : JobStep(j)
      BY <1>1, <2>5, JobStepKeeps
    <2>6. CASE LateReport \/ Crash \/ Restart
      BY <1>1, <2>6, LateReportKeeps, CrashKeeps, RestartKeeps
    <2> QED
      BY <1>1, <2>1, <2>2, <2>3, <2>4, <2>5, <2>6 DEF Next
  <1> QED
    BY <1>1, StutterKeeps

\* In every state the queue, the slots and the rows fit each other as QueueIInv says.
THEOREM QueueInvariance == Spec => []QueueIInv
  BY InitHolds, NextKeeps, PTL DEF Spec

\* No task is left behind by drain(): what is pending is queued, and waits only while every
\* slot is taken, whatever is cancelled, retried, deleted or restarted.
THEOREM NothingIsStranded == Spec => []NothingStranded
  <1>1. QueueIInv => NothingStranded
    <2> SUFFICES ASSUME QueueIInv, Ready, NEW n \in Attempts, task[n] = "pending"
                 PROVE  (\E k \in DOMAIN queue : queue[k] = n) /\ Cardinality(active) >= limit
      BY DEF NothingStranded
    <2>1. PendingIsQueued /\ DrainedWell /\ ~draining
      BY DEF QueueIInv, Ready
    <2> QED
      BY <2>1 DEF PendingIsQueued, DrainedWell, Queued, Holds
  <1> QED
    BY <1>1, QueueInvariance, PTL

\* No slot is lost, and no row says running for a task that no job runs.
THEOREM NoSlotIsLost == Spec => []SlotsAreHeld
  <1>1. QueueIInv => SlotsAreHeld
    <2> SUFFICES ASSUME QueueIInv, up PROVE SlotsAreHeld
      BY DEF SlotsAreHeld
    <2>1. RunningIsExecuted /\ ActiveIsExecuted
      BY DEF QueueIInv
    <2>2. active \subseteq {job[j].task : j \in UnderWay}
      BY <2>1 DEF ActiveIsExecuted, UnderWay
    <2>3. \A n \in Attempts : task[n] = "running" => \E j \in UnderWay : job[j].task = n
      BY <2>1 DEF RunningIsExecuted, UnderWay, Unmarked
    <2> QED
      BY <2>2, <2>3 DEF SlotsAreHeld
  <1> QED
    BY <1>1, QueueInvariance, PTL

-----------------------------------------------------------------------------
(* What a step does to the account rows. *)

NewRow(i, row) == account' = [account EXCEPT ![i] = row]

Replaced(i) ==
  \E row \in {Row("valid", NoAttempt, Imported), Row("expired", NoAttempt, NoAttempt),
              Row("absent", NoAttempt, NoAttempt)} : NewRow(i, row)

\* An authorization starts, for an account that waits for it or in vain; or a row is
\* replaced, or a report of an authorization arrives, or the rows stay as they are.
AccountStep ==
  \/ /\ issued' = issued + 1
     /\ \/ \E i \in Identities, token \in {NoAttempt, Imported} \cup Attempts :
             NewRow(i, Row("refreshing", issued + 1, token))
        \/ account' = account
  \/ /\ issued' = issued
     /\ \/ \E i \in Identities : Replaced(i)
        \/ \E n \in Attempts : account' \in {SaveToken(n), FailAttempt(n)}
        \/ account' = account

LEMMA EveryAccountStep == QueueIInv /\ [Next]_vars => AccountStep
  <1> SUFFICES ASSUME QueueIInv, [Next]_vars PROVE AccountStep
    OBVIOUS
  <1>1. /\ account \in [Identities -> Account] /\ late \subseteq Reports /\ job \in Seq(AJob)
        /\ \A i \in Identities : account[i] = [account EXCEPT ![i] = account[i]][i]
    BY DEF QueueIInv, TypeOK, Reports, AJob
  <1>2. \A j \in DOMAIN job : job[j].task \in Attempts
    <2>1. \A j \in DOMAIN job : job[j] \in AJob
      BY <1>1, ElementOfSeq, LenProperties
    <2> QED
      BY <2>1 DEF AJob
  <1>3. ASSUME NEW i \in Identities, Reauthorize(i) PROVE AccountStep
    <2>1. account[i].token \in {NoAttempt, Imported} \cup Attempts
      BY <1>1 DEF Account
    <2>2. issued' = issued + 1 /\ NewRow(i, Row("refreshing", issued + 1, account[i].token))
      BY <1>3 DEF Reauthorize, Start, NewRow
    <2> QED
      BY <2>1, <2>2 DEF AccountStep
  <1>4. ASSUME NEW i \in Identities, Provision(i) PROVE AccountStep
    <2>1. issued' = issued + 1
      BY <1>4 DEF Provision, Start
    <2>2. CASE account[i].status = "absent"
      <3>1. NewRow(i, Row("refreshing", issued + 1, NoAttempt))
        BY <1>4, <2>2 DEF Provision, Start, NewRow
      <3> QED
        BY <2>1, <3>1 DEF AccountStep
    <2>3. CASE account[i].status # "absent"
      <3>1. account' = [account EXCEPT ![i] = account[i]]
        BY <1>4, <2>3 DEF Provision, Start
      <3>2. account' = account
        BY <1>1, <3>1
      <3> QED
        BY <2>1, <3>2 DEF AccountStep
    <2> QED
      BY <2>2, <2>3
  <1>5. ASSUME NEW i \in Identities, ImportToken(i) \/ Invalidate(i) \/ DeleteAccount(i)
        PROVE  AccountStep
    BY <1>5 DEF ImportToken, Invalidate, DeleteAccount, Replace, AccountStep, Replaced, NewRow
  <1>6. ASSUME NEW n \in Attempts, CallerAnswered(n) \/ CallerFails(n) PROVE AccountStep
    BY <1>6 DEF CallerAnswered, CallerFails, AccountStep
  <1>7. ASSUME NEW n \in Attempts, Enqueue(n) \/ Retry(n) \/ Cancel(n) \/ DeleteTask(n)
        PROVE  AccountStep
    BY <1>7 DEF Enqueue, Retry, Cancel, DeleteTask, QueueTask, proxy, AccountStep
  <1>8. UpdateLimit \/ Drain => AccountStep
    BY DEF UpdateLimit, Drain, DrainOne, DrainEnds, proxy, AccountStep
  <1>9. ASSUME NEW j, ProxySaves(j) \/ ProxyFails(j) PROVE AccountStep
    BY <1>2, <1>9 DEF ProxySaves, ProxyFails, JobAt, AccountStep
  <1>10. ASSUME NEW j, \/ Authorized(j) \/ NotAuthorized(j) \/ SaveTimesOut(j) \/ MarkSuccess(j)
                       \/ MarkFailed(j) \/ ReportTimesOut(j) \/ Finish(j)
         PROVE  AccountStep
    BY <1>10 DEF Authorized, NotAuthorized, SaveTimesOut, MarkSuccess, MarkFailed, ReportTimesOut, Finish,
                 proxy, AccountStep
  <1>11. LateReport => AccountStep
    BY <1>1 DEF LateReport, Reports, AccountStep
  <1>12. Crash \/ Restart \/ UNCHANGED vars => AccountStep
    BY DEF Crash, Restart, vars, proxy, AccountStep
  <1> QED
    BY <1>3, <1>4, <1>5, <1>6, <1>7, <1>8, <1>9, <1>10, <1>11, <1>12 DEF Next, JobStep

\* A report of failure never takes a usable token from an account: it is for an account
\* that waits, and one with a token does not.
THEOREM FailureSpares == Spec => FailureSparesToken
  <1>1. QueueIInv /\ [Next]_vars =>
          [\A i \in Identities : account[i].status = "valid" => account'[i].status # "failed"]_vars
    <2> SUFFICES ASSUME QueueIInv, AccountStep, NEW i \in Identities,
                        account[i].status = "valid", account'[i].status = "failed"
                 PROVE  FALSE
      BY EveryAccountStep
    <2>1. account \in [Identities -> Account] /\ owner \in [Attempts -> Identities]
            /\ account[i].attempt = NoAttempt /\ NoAttempt \notin Attempts
      BY AttemptNames DEF QueueIInv, TypeOK, ValidAwaitsNothing
    <2>2. ASSUME NEW k \in Identities, NEW row, NewRow(k, row), row.status # "failed" PROVE FALSE
      BY <2>1, <2>2 DEF NewRow
    <2>3. ASSUME NEW n \in Attempts, account' = SaveToken(n) PROVE FALSE
      <3>1. Row("valid", NoAttempt, n).status # "failed"
        BY DEF Row
      <3> QED
        BY <2>1, <2>3, <3>1 DEF SaveToken
    <2>4. ASSUME NEW n \in Attempts, account' = FailAttempt(n) PROVE FALSE
      BY <2>1, <2>4 DEF FailAttempt, Accepts
    <2>5. \A k \in Identities : ~Replaced(k)
      BY <2>2 DEF Replaced, Row
    <2>6. \A k \in Identities : \A token : ~NewRow(k, Row("refreshing", issued + 1, token))
      BY <2>2 DEF Row
    <2> QED
      BY <2>3, <2>4, <2>5, <2>6 DEF AccountStep
  <1> QED
    BY <1>1, QueueInvariance, PTL DEF Spec, FailureSparesToken

-----------------------------------------------------------------------------
(* The authorization of accounts keeps its promise. *)

Awaited    == [i \in Identities |-> account[i].attempt]
Credential == [i \in Identities |-> IF account[i].status = "valid" THEN account[i].token ELSE NoAttempt]

\* What a new row means to the promise.
LEMMA NewRowMeans ==
  ASSUME account \in [Identities -> Account], NEW i \in Identities,
         NEW status, NEW n, NEW token, NewRow(i, Row(status, n, token))
  PROVE  /\ Awaited' = [Awaited EXCEPT ![i] = n]
         /\ Credential' = [Credential EXCEPT ![i] = IF status = "valid" THEN token ELSE NoAttempt]
  <1>1. /\ account'[i] = Row(status, n, token)
        /\ \A k \in Identities : k # i => account'[k] = account[k]
    BY DEF NewRow
  <1>2. /\ account'[i].status = status /\ account'[i].attempt = n /\ account'[i].token = token
    BY <1>1 DEF Row
  <1> QED
    BY <1>1, <1>2 DEF Awaited, Credential

LEMMA SavedTokenMeans ==
  ASSUME QueueIInv, NEW n \in Attempts, account' = SaveToken(n), account' # account
  PROVE  /\ owner[n] \in Identities /\ Awaited[owner[n]] = n /\ n # NoAttempt
         /\ Awaited' = [Awaited EXCEPT ![owner[n]] = NoAttempt]
         /\ Credential' = [Credential EXCEPT ![owner[n]] = n]
  <1>1. account \in [Identities -> Account] /\ owner[n] \in Identities /\ n # NoAttempt
    BY AttemptNames DEF QueueIInv, TypeOK
  <1>2. Accepts(n) /\ NewRow(owner[n], Row("valid", NoAttempt, n))
    BY DEF SaveToken, NewRow
  <1> QED
    BY <1>1, <1>2, NewRowMeans DEF Accepts, Awaited

LEMMA FailedAttemptMeans ==
  ASSUME QueueIInv, NEW n \in Attempts, account' = FailAttempt(n)
  PROVE  Awaited' = Awaited /\ Credential' = Credential
  <1>1. account \in [Identities -> Account] /\ owner[n] \in Identities /\ n # NoAttempt
    BY AttemptNames DEF QueueIInv, TypeOK
  <1>2. CASE ~Accepts(n)
    BY <1>2 DEF FailAttempt, Awaited, Credential
  <1>3. CASE Accepts(n)
    <2>1. /\ account'[owner[n]] = [account[owner[n]] EXCEPT !.status = "failed"]
          /\ \A k \in Identities : k # owner[n] => account'[k] = account[k]
      BY <1>1, <1>3 DEF FailAttempt
    <2>2. /\ account'[owner[n]].attempt = account[owner[n]].attempt
          /\ account'[owner[n]].status = "failed"
      BY <1>1, <2>1 DEF Account
    <2>3. account[owner[n]].status # "valid"
      BY <1>1, <1>3 DEF QueueIInv, ValidAwaitsNothing, Accepts
    <2> QED
      BY <2>1, <2>2, <2>3 DEF Awaited, Credential
  <1> QED
    BY <1>2, <1>3

LEMMA PromiseInit == Init => Promise!Init
  <1> SUFFICES ASSUME Init PROVE Promise!Init
    OBVIOUS
  <1>1. issued = 0 /\ \A i \in Identities : account[i] = Row("absent", NoAttempt, NoAttempt)
    BY DEF Init
  <1> QED
    BY <1>1 DEF Promise!Init, Row, NoAttempt

LEMMA PromiseStep == QueueIInv /\ [Next]_vars => [Promise!Next]_(Promise!attempts)
  <1> SUFFICES ASSUME QueueIInv, AccountStep PROVE [Promise!Next]_(Promise!attempts)
    BY EveryAccountStep
  <1>1. account \in [Identities -> Account] /\ owner \in [Attempts -> Identities]
    BY DEF QueueIInv, TypeOK
  <1>2. account' = account => Awaited' = Awaited /\ Credential' = Credential
    BY DEF Awaited, Credential
  <1>3. CASE issued' = issued + 1 /\ account' = account
    BY <1>2, <1>3 DEF Promise!Next, Promise!StartInVain, Awaited, Credential
  <1>4. ASSUME NEW i \in Identities, NEW token, issued' = issued + 1,
               NewRow(i, Row("refreshing", issued + 1, token))
        PROVE  Promise!Next
    <2>1. /\ Awaited' = [Awaited EXCEPT ![i] = issued']
          /\ Credential' = [Credential EXCEPT ![i] = 0]
      BY <1>1, <1>4, NewRowMeans DEF NoAttempt
    <2> QED
      BY <1>4, <2>1 DEF Promise!Next, Promise!Start, Promise!Assign, Awaited, Credential
  <1>5. ASSUME NEW i \in Identities, issued' = issued, Replaced(i)
        PROVE  Promise!Next
    <2>1. CASE NewRow(i, Row("valid", NoAttempt, Imported))
      <3>1. /\ Awaited' = [Awaited EXCEPT ![i] = 0]
            /\ Credential' = [Credential EXCEPT ![i] = Imported]
        BY <1>1, <2>1, NewRowMeans DEF NoAttempt
      <3> QED
        BY <1>5, <3>1 DEF Promise!Next, Promise!Import, Promise!Assign, Awaited, Credential
    <2>2. CASE \E status \in {"expired", "absent"} : NewRow(i, Row(status, NoAttempt, NoAttempt))
      <3>1. /\ Awaited' = [Awaited EXCEPT ![i] = 0]
            /\ Credential' = [Credential EXCEPT ![i] = 0]
        BY <1>1, <2>2, NewRowMeans DEF NoAttempt
      <3> QED
        BY <1>5, <3>1 DEF Promise!Next, Promise!Withdraw, Promise!Assign, Awaited, Credential
    <2> QED
      BY <1>5, <2>1, <2>2 DEF Replaced
  <1>6. ASSUME NEW n \in Attempts, issued' = issued, account' = SaveToken(n), account' # account
        PROVE  Promise!Next
    <2>1. /\ owner[n] \in Identities /\ Awaited[owner[n]] # 0
          /\ Awaited' = [Awaited EXCEPT ![owner[n]] = 0]
          /\ Credential' = [Credential EXCEPT ![owner[n]] = Awaited[owner[n]]]
      BY <1>6, SavedTokenMeans DEF NoAttempt
    <2> QED
      BY <1>6, <2>1 DEF Promise!Next, Promise!Grant, Promise!Assign, Awaited, Credential
  <1>7. ASSUME issued' = issued, Awaited' = Awaited, Credential' = Credential
        PROVE  UNCHANGED Promise!attempts
    BY <1>7 DEF Promise!attempts, Awaited, Credential
  <1> QED
    BY <1>2, <1>3, <1>4, <1>5, <1>6, <1>7, FailedAttemptMeans DEF AccountStep

\* Whatever is retried, cancelled, lost, late or restarted, the login service and the proxy
\* together implement OAuthAttempts: only the authorization an account waits for gives it a
\* token, once.
THEOREM PromiseKept == Spec => KeepsPromise
  <1>1. Init => Promise!Init
    BY PromiseInit
  <1>2. QueueIInv /\ [Next]_vars => [Promise!Next]_(Promise!attempts)
    BY PromiseStep
  <1> QED
    BY <1>1, <1>2, QueueInvariance, PTL DEF Spec, KeepsPromise, Promise!Spec
=============================================================================

# A verification of the GHCP pool gateway

The gateway serves GitHub Copilot to many clients through accounts it provisions itself. This directory holds TLA+ models of
its services, the TLC runs that check them on small instances, and proofs, checked by TLAPS, of what holds for every instance.
Paths below are relative to the repository.

## 1. The system

| Part | State | Operations | Talks to |
| --- | --- | --- | --- |
| Proxy: request serving (`src/proxy/src/routes/compatible.ts`, `copilot/copilotAuthManager.ts`) | one handler per request | resolve the name, pick a member, check the model, forward, report | storage, Copilot, login, SSO |
| Proxy: account pools (`pool/`, `routes/poolApi.ts`) | `proxy_pools`, `proxy_pool_members`, `proxy_session_affinity` | create, update, delete; add, remove, resume; bind, renew, prune; mark success and failure | serving, operators |
| Proxy: accounts (`db/sqliteStorage.ts`, `db/mysqlStorage.ts`, `routes/adminApi.ts`, `routes/internalApi.ts`) | `proxy_accounts`: token, status, attempt id | begin, save, fail, import, invalidate, delete | login, operators, SSO |
| Proxy: initialization of unknown names (`copilotAuthManager.ts`) | a lease per name, a map of the process | claim, provision, release | SSO, login |
| Proxy: models cache (`copilot/copilotClient.ts`) | a snapshot per account and its refresh | list, refresh, join, clear | Copilot |
| Proxy: compatibility (`routes/claudeCodeCompat.ts`, `requestIntent.ts`, `compatible.ts`) | a body on its way in, an answer on its way out | repair a request, name its initiator, pass an answer on, count it | Copilot, statistics |
| Proxy: diagnostics (`diagnostics/`) | files by instance and a clear marker, a queue of promises | append, rotate, list, clear | the file system |
| Login: queue (`src/login/src/tasks/`, `db/tasksRepo.ts`) | `login_tasks`; pending, active and cancelled in memory | enqueue, retry, cancel, delete, drain, run, recover | proxy, the device flow |
| Login: device flow and browser (`auth/`) | one run: a code, a page, a token | request a code, lead the browser through the logins, poll | GitHub, the identity provider |
| SSO (`src/sso/src`) | users, import plans, events, settings | ensure, create, sync, suspend, delete, import, batch, seats | SCIM and seat APIs, proxy |
| Settings of login and SSO, and their cards in the console | one versioned row, a cached snapshot; a draft per card | read, update at a version, edit, reload | the queue, SSO limits |
| Rest of the console, SAML, budget, mock GitHub, LiteLLM hook, migration | none of their own that others depend on | | |

How they interact. A client names an account or a pool. For a pool the proxy lists the members, follows or makes a session
binding, and serves with the member's token; what happens upstream comes back as a report on the member and, on a 401, on the
token. An account gets its token from the login service: the proxy stores an attempt id and posts a task, the login service runs
it in a browser, and puts the token, or the failure, back with the attempt id. The SSO service owns the users; the proxy asks it
to ensure a user and to give it a seat before it starts an authorization.

What is hard. Every storage call is an `await` (and a real round trip with MySQL), so request handlers interleave at each of
them and act on rows they read earlier; reports arrive in any order; operators edit what requests use. Requests between services
are given up after 30 seconds and not repeated, but may still take effect. The login queue lives in memory beside a database.
Several proxy pods share tables, a lease and a directory of logs. An answer arrives in pieces that end anywhere, and a browser may
be shown any page.

What makes each part correct:

* pools: only a usable member serves; nobody is refused while a member is usable; cooldowns, bindings and the operator's settings
  survive whatever requests report; a session moves only when it has to; the wait a client is told is right;
* accounts: only the newest authorization gives a token; only a rejected token is retired; a failure report never costs a token;
* login queue: the limit holds; no task and no slot is lost, across limits, cancellations and crashes; every queued task is served;
* SSO users: a deletion that says it is complete is, a sync that says it is done is, and what fails halfway can be repeated; an
  import neither moves a user nor shares an entry nor passes the limit, however long ago it was previewed;
* lease: an identity is initialized by one pod at a time, and in the end by some pod;
* MySQL storage: concurrent transactions mean what the contract says of single operations, and never all wait for one another;
* models cache: no answer is older than promised, or from before a clear that the request came after;
* diagnostics: the newest records are kept, a read misses none of them, what was cleared stays cleared;
* settings: a save changes nothing its operator did not touch, and the copy a service uses is the stored one;
* compatibility: what is sent is acceptable and says what was said; what comes back is passed on and counted exactly once;
* device flow: every run ends, leaves no browser behind, polls no faster than it may, and succeeds on a site that behaves.

## 2. Plan

1. `PoolSelector`, `AccountPool`: selection and serving, with their proofs. *Done.*
2. `OAuthAttempts`, `LoginQueue`: the abstract promise of authorizations, and the two services that implement it. *Done.*
3. `ImportPlan`, `SsoUsers`: local rows, the remote directory and its seats, import plans, partial failure. *Done.*
4. `IdentityLease`, `ModelsCache`, `RuntimeSettings`: claims that expire while work is under way, a refresh that is joined and
   cleared, optimistic versions. *Done, with their proofs.*
5. `StorageContract`, `MysqlStorage`: what the tables promise, and the transactions that implement it. `ErrorLog`: the files of
   several instances. *Done.*
6. `DeviceLogin`, the flow that ends either way in `LoginQueue`; `ClaudeCompat` and `ResponseStream`, what goes through the
   compatible routes. *Done.*
7. Proofs of `LoginQueue` and its refinement, `MysqlStorage` and its refinement, the directory of `SsoUsers`, `DeviceLogin`, the
   wait of a refusal, the counting of requests and their parameters. *Done.*
8. Proofs of `ErrorLog`, whose files are described by what they contain, so that the provers can follow them; of what a stream
   delivers and counts; and that a repaired request is one the API takes, and says all that the given one says, whatever
   its conversation. *Done.*
9. Left: a property for each of the hazards that have none.

## 3. The modules

**`PoolSelector`** is `pool/poolSelector.ts` as operators on a roster, a function from member identities to rows. The database's
order by identity (`ListOrder`) and the one of `localeCompare` (`LocaleOrder`) are different constants, because round-robin sorts
by the second and ties go by the first. The two uses of SHA-256 are constants: `Base[s][m]` stands for the unweighted score
`-1/ln(h)`, which weights multiply, and `Bucket[s]` for the 32-bit number round-robin reduces. Scores are naturals, so equal scores,
which the code breaks by position, do occur.

**`AccountPool`** is one pool with everything that touches it. State and code:

| variable | code |
| --- | --- |
| `pool`, `members`, `affinity`, `accounts` | the four tables, as functions from their keys |
| `clock` | `Date.now()`, in ticks; `Second` ticks are a second |
| `req[r]` | the local variables of a request handler, and the await it is at |
| `op` | the operator's handler that is between two of its awaits |
| `edits` | bound on operations |
| `seen`, `steady` | history, read by properties only |

A handler goes `list` (listPoolMembers, then the choice), `lookup` (getSessionAffinity), `renew` / `clear` / `bind` (the writes),
`auth` (getAccount), `check` (the models check), `send`, then `retire` / `reject` (invalidate), `note` (findPool again), `mark`
(markMemberFailure) and `report` (markMemberSuccess). One action is the code between two awaits. `resolvePoolMember` takes its
`now` at some point between two awaits and uses it after the listing: `ListMembers` lets it be any value since the request found
the pool. The operator's multi-step operations (add a member, resume one) keep their gaps; one of them is under way at a time, and
the single-step ones run inside it. `token` counts the tokens an account was ever issued, so that a late 401 can be told from one
for the present token.

**`OAuthAttempts`** says what authorizing an account promises: attempts are numbered as they start; an account waits for at most
one; only that one can give it a credential, once; anything else takes a credential away or replaces it by an import.

**`LoginQueue`** has the proxy's account rows, the login service and the network between them. `queue`, `active`, `cancelled` are
the fields of the class; `draining` says that `drain()` has been called and has not returned, during which nothing else in that
process runs; `task` is the status column; `job` the executions of `runLoginTask`, which go `authorizing`, `saving`, `saved` or
`refused`, `reporting`, `ending`, `ended`. `caller` is the proxy handler that waits for `POST /api/tasks`. A request that is given
up may be lost or arrive later (`late`, or a task that is still `sent`); a crash leaves requests that were in flight in `late`.
An attempt is a number, and a task has the number of the attempt it was created for. `Promise` instantiates `OAuthAttempts`
with a refinement mapping: an account awaits the attempt in its row, and its credential is its token while its status is valid.

**`ImportPlan`** is the comparison of a directory listing with the local users (`buildEmuImportPlan`) and the application of a plan
(`applyEmuImportPlan`, `staleConflictForRow`, `applyEmuImportRow`), as operators on the table of users, a plan and the limit. The
loop over the rows is one expression: the conflict test reads the maps made before the loop and no two pending rows have one user,
so a row depends on the ones before it only through the number of users they created (`RoomFor`). The email a row would get is not
modelled; whether it differs, which makes a row pending instead of skipped, is the set `differs`, chosen freely.

**`SsoUsers`** has the SSO service between GitHub's directory and its Copilot seats:

| variable | code |
| --- | --- |
| `users`, `limit`, `plans` | `sso_users`, `maxSsoUsers`, `sso_emu_import_plans` with their rows |
| `req[h]` | a handler: the request it has under way (`at`), the `ghScimId` it read at first (`had`), the id it was answered (`found`) |
| `dir`, `seats` | GitHub: entries by id, live or deleted, and the logins that have a seat |
| `quiet`, `crowded` | history: the handlers nothing happened beside, and the users two handlers worked on at once |
| `ops`, `edits` | bounds |

The database calls are synchronous, so a handler is one action from answer to answer: `sync` goes `replace`, `create`, `find`,
`adopt`, `bind` (`syncUser`), a deletion `unseat`, `drop`, `lookup`, `drop_found`, then `unbind` or `proxy` and `erase`; seats
have an action for each outcome, which is what is written down. `scimFetch` repeats a request that failed, so a request that took
effect may be sent again (`Answered`) or be given up (`GiveUp`); a seat request is made once, and may have taken effect when it
fails. A userName that differs from the local name only in what `ssoUserFromScimUser` strips is a `variant` of it: two entries may
stand for one user. Operators and GitHub's administrators act at any moment.

**`IdentityLease`** is `beginIdentityInitialization` in several pods, for one identity. `row` is the row of
`proxy_identity_initializations`, `initializing` the map of each pod, `request[r]` a request and, once its claim is granted, the
initialization that goes on by itself. The claim is one statement with SQLite and two with MySQL (`claim`, `renew`), tried again with
the clock reading it began with. Times are relative: `left` is how long the row's lease runs yet, `age` how long ago a request read
the clock, so that no clock is bounded. Any step of an initialization may fail, the release too, and a pod may crash at any of them.

**`ModelsCache`** is the cache of one account: `entries` are the objects the map ever held, `current` the one in it, so that a fetch that
outlives a clear still writes to the entry it was begun for. A request asks, waits, has a list, and may look again or be refused; the
failure of a fetch gives those who wait the list they saw when they came, if it is not too old. What a list supports is one bit.

**`RuntimeSettings`** has the row, the copy of the process and the cards of the console: `card[c]` is what the component holds (the row it
was filled from, the draft, and, as history, what was edited), `wire[c]` its request or the answer. Both services are modelled; they
differ in the order of validation and version check and in normalisation. Any message may be lost, before or after it is obeyed.

**`ErrorLog`** is `ErrorDiagnosticsStore` in one pod or several. One action is one file operation: an append goes `size`, `drop oldest`, `move`
(once per file), `write`; a read goes `cutoff`, `scan` (a file at a time); a clear goes `stamp`, `rename marker`, `unlink`, or `swap`,
`sweep` where a pod has its directory to itself. `waiting` is the promise queue. A crash may leave a torn block, cut before or
after a line's end. What a file shows is the set of the records that can be read in it, since an answer is sorted at its end; `done` is how
many files of each directory a read has been through. `past`, `floor` and `raced` are history.

**`StorageContract`** is what the storage of the proxy promises: each operation on its tables happens at once, which the SQLite storage does
in one synchronous call. **`MysqlStorage`** is the other one: an operation of several statements goes statement by statement, with the
ranges it locks and the deletions and rows it will commit. A row's key is the account, so that a range is a table and an account; the
pool is one. InnoDB is external. `ImplementsContract` is the refinement; `rows` is the same variable in both, since what a transaction
writes is not seen before it commits.

**`DeviceLogin`** is a run of `deviceFlow.ts` and `HeadlessPlaywrightAuthStrategy.ts`. `pc` is where the code is, `page` where the browser
is; a step looks for its controls on the page, clicks or throws. An `orderly` site shows what belongs to its pages and moves as
GitHub and the two providers do; `any` site shows or hides anything and moves by itself. Time counts only while the token is polled for.

**`ClaudeCompat`** is `preprocessClaudeCodeMessagesBody` as a composition of its nine repairs, on bodies whose texts are known by what the
pipeline looks for in them, with the beta header and the initiator. `Prepare` is the first request of a conversation; `NextTurn` the one after
it, in which the client, who never sees what was sent, sends its own conversation again and what was said since, perhaps on another day
(`Redated`: a text that is the date is another text then, not in what a tool answered, which is past).
**`ResponseStream`** is the way of one request through `compatible.ts`, from the body's check to the record of its statistics; the answer
is a sequence of symbols that is read in pieces of any length, `pending` is the buffer of what is not yet an event. Before it is forwarded
it looks at the models list once (`models`) or twice (`recheck`), where a refresh may fail for it, which `diagnostics.models` counts;
`diagnostics.forward` counts what is diagnosed of the request itself. A buffer is split symbol
by symbol (`Grown`): an event is over at the first empty line, which is what the code's search from the left finds. An end of line is
one symbol, whether it is `\n` or `\r\n`. What the two modules select from a sequence they select with `FlattenSeq`, which the provers can expand.

`MCAccountPool`, `MCLoginQueue` and `MCSsoUsers` give the constants values. `MCStores` and `MCServices` are sums: each of their behaviours is of
one part, which the variable `part` names, while the other parts rest in an initial state; a property of one part is checked on all
its behaviours, and one run answers for parts that share nothing. The modules named `_proofs` hold the theorems: `AccountPool_proofs`
also those about `PoolSelector`, `SsoUsers_proofs` those about `ImportPlan`, `Stores_proofs` those about `RuntimeSettings` and
`ModelsCache`, `DeviceLogin_proofs` those about `IdentityLease`, `Requests_proofs` those about `ResponseStream` and `ClaudeCompat`; those of
`LoginQueue`, `MysqlStorage` and `ErrorLog` are about one module each.

## 4. The runs

| run | instance | shows |
| --- | --- | --- |
| `PoolServing` | 2 members, 1 session, 2 requests on all routes, 4 pool settings, 1 operator operation, 2 ticks | who serves, who is refused, what reports may change |
| `PoolRoster` | 3 identities, weights 1 and 2, 2 sessions, 1 request, 1 operation, 3 half-second ticks | minimal remapping, tight retry-after |
| `LoginQueue` | 1 account, 2 attempts, 1 command, 1 import, rejection, deletion or crash, limits 1 and 2 | refinement of the promise, slots, stranded tasks |
| `SsoUsers` | 2 users, 2 entries, 1 variant, 2 handlers that start twice in all, 2 interventions, 1 plan, limits none and 1 | what deletions, syncs and imports leave behind |
| `Stores` | settings: 2 cards, 2 fields, 3 versions; log: 2 pods, 3 files of one block, 4 records, 2 reads, clears or crashes, 2 times; tables: 2 accounts, 1 session key, 2 callers, 2 connections, 2 statistics of which 1 is kept; cache: 2 requests, 2 entries, 4 times | what each store keeps |
| `Services` | login: 1 account, 2 attempts, 1 command, 1 crash, limit 1; lease: 2 requests, 2 pods, 2 failures, 1 crash, both storages; device: both sites and providers; the bodies and answers listed in `MCServices` | what the services do, and must do in the end |
| `FailureKeepsCooldown`, `RejectedTokenRetired` | 2 members, 2 requests, no operator | what the documents say and the code does not do |
| `LoginLimit`, `LoginRetry`, `LoginRestart` | 1 account, 1 or 2 attempts | the same for the login service |
| `InitOnce` | 2 requests, 2 pods, no failure | the same for the initialization of identities |

The properties that hold:

* `ServesOnlyUsable`: a pooled request is handed only a member that was usable at some moment since the request found the pool.
  "Usable now" would be false: the listing is older than the use. A binding never overrides this.
* `NoFalseRefusal`: a refusal means that no member was usable at every moment of the resolution.
* `RetryAfterIsTight`: after the wait the named member is usable; a second less is too early for every member.
* `RequestsRespectRoster`, `OnlyRejectedTokenRetired`: late reports and late 401s do not undo an operator's decision or a new login.
* `MinimalRemap`: rendezvous hashing, for every step of the whole pool and not for a pair of lists.
* `KeepsPromise`: the refinement of `OAuthAttempts`. `FailureSparesToken`: no failure report, late or doubled, costs a valid token.
* `NothingStranded`, `SlotsAreHeld`, `QueuedIsServed`: the queue loses no task and no slot. The first two hold
  across a crash; `Services` has these two again (`StateIsSound`) beside `QueuedIsServed`.
* `DeleteIsComplete`: a user deleted with nothing beside it leaves no entry, by id or by name, and no seat. `SyncIsFaithful`: a sync
  done with nothing beside it leaves one entry of that name, and the row bound to it, also after an attempt whose answer was lost.
  Both say nothing of a handler that something happened beside: the code promises nothing there, and reads its user once.
* `NothingOrphaned`: unless two handlers work on one user at once, nothing this service made at GitHub outlives its row.
* `ImportKeepsBindings`, `PlanAppliesOnce`, `CreationWithinLimit`: a stale plan moves nobody, shares no entry, is applied once and
  stays within the limit.
* `ImplementsContract`: whatever transactions interleave and fail, the tables change as by one operation of the contract after another; it
  holds because a failure reads its member `FOR UPDATE`. `SomeoneProceeds`: of the open transactions one is not waiting, because they take
  their tables in one order. `NewestAreKept`: no statistic is pruned while it is among the newest of its account.
* `NoLostUpdate`: a card sends all the settings with the version it was filled from, and changes none its operator left alone.
* `KeepsNewest`: what an instance keeps and did not clear is the newest it wrote, each record once and none missing in between, at every
  moment of a rotation and after any crash; without a crash, as many as all files but one hold. `NothingMissed`: a read
  may show a record twice while files move, and misses none. `ClearedStaysCleared`: in every instance, unless two clears overlap.
* `AnswersAreCurrent`: a request uses no list begun before a clear it came after, and none older than the time to live, the six hours
  after a failure, or the minute before a refusal.
* `LeaseExcludes`: two initializations are under way only when the lease of one is over. `IdentityIsInitialized`: the identity
  gets its account in the end, whatever failed or crashed on the way.
* `FlowIsSound`: no browser is left behind or open while polling, GitHub is never polled faster than it asked, and on an orderly site a
  run without a fault ends with a token. `EveryLoginEnds`: on any site.
* `RequestIsSound`: all that the repairs are for holds at once of what is sent. `NothingSaidIsLost`: there are as many words and
  summaries as before, and tool uses, results and valid thinking survive in their order.
* `PrefixKept`: what was sent of a conversation is sent again at its next turn, so that what the upstream has cached is still the beginning,
  though each message is repaired anew and some repairs look at the message after it. Two things are excepted, where the code does not
  keep it: the turn that the proxy adds after an assistant's message, which the next request does not have; and a system message at the
  end that was sent as one, if the next turn puts something else than an assistant's message after it, for it may not stand there
  (`claudeCodeCompat.ts:424`) and is sent as a user's from then on. No document promises more. It is a property of the messages; parameters,
  tools and the system prompt are the client's, which may change them.
* `DeliveredExactly`, `UsageIsWhole`, `CountedOnce`: wherever an answer is cut into pieces, and wherever it breaks off, the client gets it as it
  was sent without `[DONE]`, its usage is that of the whole answer, and the request is counted once, as a success only if it went out whole; its
  failure upstream is diagnosed exactly once. A request may have further diagnostics, of the models list: one if it went on with an old
  list whose refresh failed, two if both looks failed, and then it was not forwarded.

The disagreements, each with a run that ends in a counterexample:

* `FailureKeepsCooldown`: an ordinary failure reported after a 429 erases the cooldown, since the column is set to NULL.
* `RejectedTokenRetired`: on a pooled request the 401 of a forward is recorded against the pool's name, so the token stays valid.
* `WithinLimit`: a running task that is retried runs twice and takes one slot. (The console offers a retry for failed tasks only;
  the API does not ask.)
* `RetriedIsStarted`: a task cancelled once is never started again by a retry.
* `FailureIsReported`: after a restart the account keeps waiting for a task that has been failed. It can be retried or reauthorized by
  hand, which is why this is a disagreement of document and code.
* `InitializedOnce`: a request looks the account up before it claims the identity, and not again: it may claim after another has initialized
  and released it, and initialize it a second time. The account keeps its row; SSO, seats and login are asked again.

Bounds. Every action and every branch of the next-state relations is taken in a passing run. Two requests are enough for one to
report while another holds an older listing; one operator operation is enough to change the roster, the pool or a token between
any two steps of both; two ticks let a cooldown start and end. Longer histories are covered by the proofs of section 6, which hold
for any number of requests, members, sessions, edits and ticks. Two attempts are enough for an old one to race a new one; a
retried task gives a third job, and a second job of the same task; one crash reaches every moment of both. In `SsoUsers` the second
handler meets whatever the first left half done, one intervention makes a plan stale and another applies it; the initial states are
those with nobody synced, or with one user, who is synced, and a limit only where there is nobody; three users at one entry, and longer histories, are left to the proofs. `PoolServing` and `SsoUsers` use symmetry of the requests and the
handlers, `Stores` of its cards, callers and readers, none of which any property names, and check no liveness.

In `Stores` the third version lets a card of the first meet two saves of others; a wrong value is written only before the first save, when
every verdict on it can be met. Three files are the least in which a rotation has a middle, and the fourth record drops the first;
it is made at the first time and with at most one read, clear or crash before it (`FewRecords`). Two transactions and two accounts give
every order of two statements on the same and on other rows. A clock of four lets a list be fresh, stale, just usable and too old.
In `Services` two failures and a crash let either pod lose its lease at any step; a device code of 12 seconds is polled two
or three times before it expires; the bodies are all conversations of up to three of twelve messages, for a model that takes system messages
and one that does not, each of which goes on by any of four turns, on the same or on another day, up to five messages (`MaxMessages`), so that a
last message of every kind meets what may come after it; one message with every combination of parameters, and one under a system prompt that
is a summary; the answers are all series of up to three of four
events, three that lack an end, some with runs of empty lines (`Spaced`), and every kind of short body.

Deadlock is not checked: bounded operators, requests that are sent once and a bounded clock let each instance come to rest.

## 5. Fairness

Only `Services` checks liveness, and each part of it has its own fairness (`Of(name, A)`: `A` in behaviours of that part).
*Login*: `Drain`, code that runs to its end without waiting, and each step of a job: the device flow ends (`EveryLoginEnds`), a request
ends at its 30 seconds, and a continuation of a settled promise runs. *Lease*: time passes, requests keep coming (a client that is
answered 202 asks again), and the steps of an initialization end, each of them being a request with a timeout or a statement; not its
failures and not a crash. *Device*: `Browse \/ Ask`, the code's own steps, since every wait for a page or a control has a timeout
and every poll is an HTTP request; nothing is asked of the site. No fairness is asked of clients, operators, callers, late messages,
crashes or restarts.

## 6. The proofs

*Assumptions*: identities are finite (and, for the login queue, there are some), the two orders are injective, scores and weights are
positive naturals, `NoOne` is not an identity, `PoolName` is not an identity; a device code is valid for some time; every request has its
fields, its numbers are naturals and its conversation, and every turn that is added to it, is a sequence of messages of blocks; an answer is a sequence of symbols; there is an instance of the proxy; the bounds are arbitrary naturals, those on versions,
on the clocks of the cache and of the error log, and on its files and their size, positive. Each is a named `ASSUME` of the module that declares the constants. A bound limits what a model does, never what a theorem
says: it holds for every value.

### Account pools: `AccountPool_proofs`

A finite non-empty set of members has one that a strategy prefers (by the library's theorems on
finite sets, through maxima of sets of naturals), hence `SelectMemberCorrect`; `RendezvousMinimalRemap` compares the
highest scorers of two sets that differ in one member. `RetryAfterTight` takes from `SelectMemberCorrect` that the member named is the one
that recovers first, and from `CeilDivTight` that rounding up to seconds adds less than one.

`Spec => []IInv` is `Invariance`. The properties are not inductive: `ServesOnlyUsable` speaks of a request at `auth`, and
what makes it true is what was read several awaits earlier. `IInv` is

* `TypeOK` and `OperatorOK`: the operator's handler names an identity and a weight it may use;
* `HandlerOK` for every handler: the member its plan has selected, or whose binding it is about to renew, is one of those its listing
  found usable (`avail`), and it asks to retire a token only after a 401;
* `HistoryOK`: those members, and the ones usable now, are among the members seen usable since the request found the pool; and a member
  that has been usable all the while is either active or was cooling until a moment before the request found the pool, because a
  cooldown that was set since is still running. That is what makes the selection see it, whichever `now` it is made at.

The action properties follow from `IInv` and one lemma per storage operation; `RetryAfterHolds` from `TypeOK` and `RetryAfterTight`.

### Authorizations: `LoginQueue_proofs`

`QueueIInv` is `TypeOK`, and

* of the accounts, `ValidAwaitsNothing`: a usable token means that no attempt is awaited, so that a report about any attempt finds
  nobody. `AllAreIssued`: what is awaited, under way or late has been issued, so that a new attempt is really new;
* of the queue, while the service is up: a task that says running has a job that will still write it (`RunningIsExecuted`), an active one has
  a job that will still give its slot back (`ActiveIsExecuted`), a pending one is in the queue and not among those that `drain()` passes over
  (`PendingIsQueued`), and outside of `drain()` a task is pending only when the limit is reached (`DrainedWell`). A crash breaks all
  this, and the recovery restores it. Only tasks with a row are ever cancelled (`CancelledIsKnown`), so that no new one is passed over.

`NothingStranded` and `SlotsAreHeld` are what that says to an outsider. `FailureSparesToken` follows from `ValidAwaitsNothing` alone. For
`KeepsPromise` every step is put into a class by what it does to the accounts (`AccountStep`: an authorization starts, a row is replaced, a
token is saved, a failure is noted, or nothing changes), and each class is a step of `OAuthAttempts` under the mapping, or changes
nothing it sees. Why a late save cannot give a second credential is in the class of saves: it takes effect only on a row that still
awaits that attempt, and then the row awaits none.

### SSO users: `SsoUsers_proofs`

About any plan and any users: whoever is found to hold an entry holds it (`HolderHolds`: a greatest element of
a set of users), so a row that is written had no conflict, and `KeepsBindings` follows. `RoomForAll` bounds the users after an import:
the last row that creates a user had room after all that create one before it. A plan that was applied has no pending row
(`AppliedType`) and then changes nothing (`NothingPending`). The action properties of `SsoUsers` follow by what
each kind of step may do to plans (`PlanSteps`) and to the users there are (`AddingSteps`); `PlanAppliesOnce` needs the invariant
`Finished`. The constants are arbitrary naturals, and limits any set of them.

What is left at GitHub needs `TraceInv`, because a deletion is right at its end only if each answer on the way was understood:

* `DirectoryOK`: no two live entries have one name, and an entry this service made is live;
* `Alone`: nobody works beside a handler that is still called quiet; `Separate`: users whom two handlers worked on at once are called crowded;
* `Program`: at which steps a handler of each operation can be, and which fields it has there;
* `DeletesFaithfully`, `SyncsFaithfully`: what a quiet handler has achieved so far: after `unseat` there is no seat, after `drop` no entry
  with the id that was read, after `drop_found` none with the name; a sync at `bind` names the live entry of its user;
* `Working`, `Traceable`: a user who is not crowded and has a seat, or an entry this service made, has his row; the handler that works on him
  has found it there, and will erase it only when nothing is left.

`DeletedCompletely`, `SyncedFaithfully` and `NobodyOrphaned` are its consequences.

### MySQL: `MysqlStorage_proofs`

`StorageInv`: a transaction holds the ranges of the statements it has executed, nobody else holds one of them, and so what it is going to delete
and write is still what the tables have. Hence a commit is the contract's operation on the present tables, and every other step a stutter
(`StorageRefines`). `NoDeadlock` needs that every operation takes its tables in one order (sessions, members, pool; accounts, statistics):
who waits for a table has a holder of it, and of those who hold, one has all it needs of what the others could hold
(`AccountHolders`, `MemberHolders`, `SessionHolders`). `NewestKept` has its own invariant `StatsInv`: a row in the table was
recorded, and a record without a row has as many newer ones as are kept.

### Stores: `Stores_proofs`

`NoUpdateLost` and `SnapshotStored`: a version stands for one content. Whatever row a card or a message has
seen is an earlier one or the present one (`Seen`), what a card did not edit is what it loaded (`CardOK`), and so a request that is
still current changes nothing that was not touched (`PatchOK`). A save raises the version, which makes all the rest earlier.

`AnswersCurrent`: what is in the map's entry was begun since the last clear (`EntryOK`), though an older fetch
may still end elsewhere; and a request waits for a fetch, or may fall back on a list, no older than its own arrival (`ReaderOK`).

### The error log: `ErrorLog_proofs`

`LogInv` holds after every file operation of any instance, and after a stop between any two of them. Of each instance it says

* `Rotation`, beside the type: which files are there at each step of a rotation, so that a move never meets a file in its way;
* `Ordered`: a record in a higher file, or earlier in one, is older; what waits to be written is younger than all that was written;
  and whatever was written after something that is kept is kept. A rotation keeps this because it drops the highest file only, and
  moves the highest of the others first;
* `StillToRead`: what a read is to find, and has not found, lies in a file that it did not read yet. A file that moves up while
  a read goes on moves to where it will be read, or was read before;
* `ReadsShown` and, unless clears overlap, `ClearsAlone`: a read shows nothing that the marker it saw hides; what an instance does not remember
  having written is hidden; and a clear under way has a time no earlier than the marker and than all its own records;
* unless an instance stopped, `Packed`: the files are full up to the one that is written, or that is missing while the others move;
* `Distinct`: no record is of two instances, so that what a read saw in one directory does not turn up in another.

`NewestIsKept` takes the order from `Ordered` and the number from `Packed`: as many records are kept as there are places in the full files, each in
another place (`ManyKept`, an injection of the places into the records). `NothingIsMissed` is `StillToRead` when all files are read, and `ClearsLast`
is `ReadsShown` with `ClearsAlone`. TLC checked `LogInv` on two instances and on blocks of two before it was proved.

### The lease: also in `DeviceLogin_proofs`

`LeaseExcludes` for any number of pods, requests, failures and crashes. Its inductive invariant is `Holding`: a
request that initializes and whose lease runs has its claim in the row, which runs out exactly when the request believes. A claim
is granted only when the row is free or its lease over, and that is when no other request can still believe in one. The only
assumption on names is that no request is called like one of the two claims that are nobody's.

### Device flow: `DeviceLogin_proofs`

`DeviceInv` is the type, `Tidy` (a browser is open only while the code drives it), `Polls` (how long is waited before GitHub is asked), and, on an
orderly site and without a fault, `OnTheWay`: on which page the browser is at each step, by the part of the login it is in
(`AtGitHub`, `AtProvider`, `BackAtGitHub`), and what has been reached (`AllWell`). The delicate part is that the code is entered between the two logins, so that
coming back from the provider leads to one page or to another.

### Requests: `Requests_proofs`

`RequestsCountedOnce`: until a request ends nothing is recorded in the statistics (`CountInv`), and a stream that broke is recorded before its
error is thrown and caught, where it must not be recorded again. `CountInv` also says how many failures of the models list may have been diagnosed
at each phase, none at `begin` and one at most after a look; the second look falls back on no list, so that whoever has two is refused.

*The answer.* `StreamInv` says of a request under way (`OnItsWay`) that the buffer, the usage and what the client has are those of all that was read, as
if it had come in one piece; and of one that is over (`Finished`) what it wrote and recorded, by the way it ended. A piece keeps it by three
lemmas. `SplitInPieces`: to split a text and then its rest with more text is to split both together, because a rest holds no empty line
(`RestIsOpen`). `ForwardedInTurn` and `CollectedInTurn`: what two series of events give is what the first gives and then the second.
`Delivered` follows, since what is forwarded of a beginning is a beginning of what is forwarded (`PassedOnIsWanted`); `UsageOfTheWhole` needs also
that merging usages one after the other keeps of each key the last that is not absent (`CollectedIsLast`).

*The request.* `ParametersFit`: what one repair makes right (`Fits`) the later ones keep, for every budget and
every number of tokens; this is what the order of the repairs is for, the cap on a budget coming after all that set one.
`RequestsAreSound` adds the conversation. Each of the repairs makes messages of messages (`StepsTalk`); dropping the empty ones leaves only messages
that hold something (`BoundaryStripped`); rewriting leaves a system message only after a user's and before an assistant's, where the role before it is the
one that was rewritten already (`RolesInTurn`, `SystemPlaced`); and a last message of the assistant gets one after it, which is no system message
and comes before none (`TrailingFixed`). That the added one counts as the agent's is `ContinuationIs`.

*What is said.* The two halves of `NothingSaidIsLost` are proved as one. Both compare what a function of the blocks makes of all the blocks of
a conversation, one after the other (`Translated`): `Counted` makes a one of each text that says something, beside a result or in it, and
`Typed` the type of each use, result and valid thinking. What the two have in common is `Weighs`: they make nothing of the texts the repairs
look for, and nothing of an invalid thinking; a mark changes nothing; and a text, whose place among others they do not tell, is as good in a
result as beside it. For every such function each repair keeps what is said (`MergedSaysAll`, `DateSaysNothing`, `InvalidThinkingSaysNothing`,
`BoundarySaysNothing`, `DroppedSaysNothing`, `SystemSaysAll`, `TrailingSaysNothing`), and so all of them do (`PreparedSaysTheSame`).
`SayingIsKept` follows, since `Said` has as many texts as `Counted` makes ones (`SaidIsCounted`) and `Made` the types that `Typed`
makes (`MadeIsTyped`). Such a function makes the same of a block and of the block without the date (`Weighs` asks this of it).

*The next turn.* `SentIsSentAgain`: all repairs but two work on each message alone, or drop it, so that what they make of a conversation and a turn is
what they make of the one and then of the other (`LeftMakes`), and they make the same of a message and of the message with another
date (`MessageRedated`). The rewriting of system messages looks at the role before, which is the same in both, and at the role after, which
differs only for the last message; there a system message either was a user's already, or is the exception. What is added after an
assistant's message is what `SentOf` takes away. The invariant it needs (`CompatInv`) is that what is prepared is `Preprocess(given)`, of a
conversation of the type.

*Induction.* The library states induction with an operator as parameter, which the provers cannot instantiate. `Induction` states it for a set of numbers, from the
library's `NatLessThanWellFounded`: a set of naturals that holds zero and, with every number, the next one, holds all. `Recursion` derives from it that a
function defined by recursion exists and takes the values its definition says, and `SeqInduction` is the form for sequences that grow at their end. With
these, `FlattenSeq`, `Split`, `Collected` and the roles of `RewriteMidConversationSystem` are each proved to take one step at a time.

### What is only model-checked, and why

* `StoresTypeOK` and `StateIsSound` are sums over the parts of `MCStores` and `MCServices`; their parts are proved where the lists above do not
  except them.
* `QueuedIsServed`, `IdentityIsInitialized`, `EveryLoginEnds`: liveness under fairness is out of the prover's reach.

## 7. Not modelled, and why

* Failing storage calls: `reportMemberSuccess` and `reportMemberFailure` swallow them, others end the request with a 500.
* The status `failed` in `AccountPool`: the request path treats it as `expired`; `LoginQueue` has it.
* The session key, a pure function of one request: a session is an element of a set. Statistics as the console sums them up.
* `shouldTranslateWebSearchError`: an optimized request with a web search is refused before it is forwarded, so that its answer is never
  looked at. Cache control scopes and `context_management`: they touch nothing that the models of bodies have.
* Provisioning of a pool's name that is not a pool: `AccountPool` ends such a request as initializing.
* Reports of one attempt that are late twice are one element of `late`: the second changes nothing the first has not.
* MySQL reads outside of transactions, which see committed rows; the lease's table, which `IdentityLease` has; deadlocks the server may find
  although the model shows none, which end as a rolled back transaction.
* The diagnostics' redaction and format, and directories that cannot be written. A block that lacks only its last end of line counts as torn, although
  the parser reads it; blocks are of one size.
* Of a body: a date inside a longer text, which is the words without it; a date in a string that is a message's whole content, which neither
  the code strips (it looks at `text` only) nor the client writes anew here; the system prompt but for its summary (`compact`), and the texts
  in a tool's input, which the code searches for dates like all others and nothing else looks at; a result's content that is a string and not a list
  of texts. The models are one of each family: others have one of these profiles, or one that differs in its efforts or in the betas that
  are stripped, which no repair combines with anything.
* Of an answer: cuts within `\r\n` or within a character, since `TextDecoder` and the buffer hold such a half back as they do half an event.
* A `browser.close()` that rejects, which ends the run as an error where the browser is most likely gone already.
* Two gaps in which nothing can happen that would come out differently: between the look for an account of a pool's name and the pool's row
  (`poolApi.ts:53`), where only an account of that name would matter, and the model creates none; and between the row of a new
  account and the failure of its attempt for want of a password (`copilotAuthManager.ts:160`), where what comes between either replaces
  the attempt, so that the failure finds nobody, or does not touch it.
* SAML, budget, the console's server, its pages beyond the settings cards, CSV parsing, mock, hook and migration: I/O without state that other
  parts depend on, or one script on a stopped gateway. Playwright's selectors: a page has a control or not.
* SSO users: emails, roles and passwords; a batch's limit on concurrency, which bounds work and not outcomes; the pages of a listing,
  which is one answer, as is the second listing that an import of one target falls back on; a target that matches by login or external id; a directory request that takes effect after it was given up;
  more than one SSO process. The proxy's deletion of accounts is a step without an effect here, and so is an absent proxy.

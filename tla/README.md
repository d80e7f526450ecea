# WebApiDotnet in TLA+

A verification project for the two programs of this repository: `src/webapi`, a REST API with its own token
authority, and `src/WebApp`, an MVC front end that calls it. The TLA+ modules model the parts whose correctness
depends on the order of things: requests that overlap between two awaits, copies of state that go stale,
crashes between two transactions, answers that are lost. TLC checks small instances; TLAPS proves the central
theorems for every value of the constants.

Run from this directory:

    tlc -workers 2 -config RefreshTokens_overlap.cfg MCRefreshTokens.tla
    tlapm RefreshTokensProofs.tla

## 1. The system

### How the parts interact

A browser talks to `WebApp`. Its `ShirtsController` calls the API through `WebApiExecuter`, which keeps a JSON web
token and a refresh token in the ASP.NET session and renews them at the API's `AuthorityController`. The
API is a set of controllers with filters; each request has its own `ApplicationDbContext` (EF Core over SQLite), so
requests share nothing in memory: they meet in the tables `RefreshTokens`, `Shirts`, `Users` and
`Applications`. An `await` on the database is a point where any other request may run. `Program` migrates and seeds
the database before it serves. The front end, in contrast, shares memory: two semaphores and the session store.

### Inventory

| component | state | operations | what is hard | what makes it correct |
|---|---|---|---|---|
| Token service: `AuthorityController`, `Authenticator`, `RefreshTokenService`, `RefreshToken` | table `RefreshTokens` | `POST auth` (issue), `auth/refresh` (exchange), `auth/revoke` | check, revocation and creation are separate round trips; both revocations write a row read earlier; faults between two transactions | a token has one line of descent, for one client; revoked stays revoked; a new token is nobody's before it is answered; only a fault, or an exchange that names no client, strands a client |
| API client: `WebApiExecuter` | session store, request copies of it, `_apiCallLock`, `_authLock` | `InvokeGet/Post/Put/Delete`, `GetValidTokenAsync` and below | a permit is held while waiting for a lock; many exits; each request sees its own copy of the session; the expiry is computed on arrival; the authority works on for a caller who has timed out | permits are conserved; nobody waits for ever; no call with a dead token; one token is renewed into one; a renewal is not overwritten by a spent token |
| Shirts API: `ShirtsController` V1/V2 and its filters | table `Shirts`, `HttpContext.Items` | create, update, delete, get | the filter queries, the action writes; EF writes only changed columns | no duplicates but by overlap; nobody writes another shirt than the one it loaded unless a POST named its id; a vanished shirt is no 500 unless a POST brought its id back |
| Users and seeding: `UserService`, `UserRepository`, `UserAuthController`, `DbSeeder`, `Program` | tables `Users`, `Applications` | register, login, seed at start | check and INSERT are two statements; a crash inside the seeding | unique names; a serving process is seeded; a drawn secret is not lost |
| Background queue: `BackgroundTaskQueue`, `QueuedHostedService` | a channel in memory | enqueue, the reader's loop | a task throws; the host stops | nothing lost, overtaken or run twice; the reader survives |
| Applications: `ApplicationService`, `AppRepository`, `FallbackAppProvider` | table `Applications` | register an application, look one up | nothing: one INSERT, one query | not modelled, see section 7 |
| Authorization: `JwtTokenAuthFilterAttribute`, `RequiredClaimAttribute`, `JwtService` | none | scopes to claims to a decision | nothing: a pure function of one request | not modelled, see section 7 |
| Cache, background jobs, hashing, middleware, pages | Redis, Hangfire, none | forwarding and rendering | - | not modelled, see section 7 |

`PROJECT.json` lists the hazards of this code at their lines, with the properties that would catch each going wrong.

## 2. The modules

`TokenLifecycle` is the abstract specification of refresh tokens. `RefreshTokens` implements it. `WebApiExecuter`,
`ShirtStore`, `Accounts` and `TaskQueue` each model one component. `TokenFlow` composes `WebApiExecuter` with
`RefreshTokens`, and implements the former. A module `MCx` extends `x` with the symmetry sets and constant definitions
TLC needs; `xProofs` extends `x` with its theorems.

In every module a request is a slot `w` in `Workers` (or `Requests`): `pc` names the await the request is suspended
at, the other fields of `req[w]` hold the locals that live across it. A slot is used by one request after another.
Variables marked *history* in the comments are read by properties only, never by a guard. An operator that a
comment calls "a mutant" is a plausible wrong version of the definition after it and is used by no specification.

### TokenLifecycle
Three functions of a token: `status`, `owner`, `parent`. `Issue`, `Revoke`, and `Derive(p, t)`, which needs `p`
revoked and gives `t` the owner of `p`; at most `MaxSuccessors` tokens derive from one.

### RefreshTokens
| in the module | in the code |
|---|---|
| `table` | the `RefreshTokens` table; `revokedBy` keeps which address was recorded: the peer's or the forwarded one |
| `AcceptIssue`, `Authenticated`, `BadCredentials` | `GetToken`, `AuthenticateAsync`; the expiry of an issue is computed before the access token is built, that of an exchange after |
| `AcceptRefresh`, `Lookup`, `LookupRefused`, `SaveOld` | `RefreshAccessTokenAsync`: query, filtered on the client id unless that is blank (`OfClient`), test, set three columns, save |
| `ReadApp`, `AppMissing` | the application row for the claims, and the `ArgumentException` without one: a 500, after the revocation was saved |
| `Insert` | `CreateRefreshTokenAsync` |
| `AcceptRevoke`, `Find`, `FindNothing`, `SaveRevoked` | `RevokeAsync`; `RevokeRefreshTokenAsync` returns true whatever it returned |
| `Reply`, `LoseReply` | the answer arrives, or the caller has timed out |
| `DatabaseError`, `Crash` | an exception out of EF (500), the process ends: only the table is left |

A client presents any token that was ever answered to anyone (`known`), or a string that was never issued (`Unknown`):
tokens are 64 random bytes, so a token nobody has seen is not guessed and none is drawn twice. It names any client id
(`ClientIds`): that of a registered application (`Clients`), one of no application (`Stranger`), or a blank one
(`Blank`), which `RefreshRequest` lets through. `GetRefreshTokenAsync` filters on the client only when there is one, so a
blank id finds the token of any client; its exchange is revoked and saved, finds no application and ends in a 500.
`stranded` (history) keeps which tokens were lost that way ("blank") and which through a fault ("fault").
`RevokedRow` keeps `RevokedAt` at the instant the row was *checked*, as the code sets it before the save.

### WebApiExecuter
`store` is the session as last committed, `req[r].copy` the request's own. ASP.NET loads a session once per
request, at its first access, and writes all of it back when the request ends, if it was modified: `Prepare`
loads, `Commit` writes. A unit of time is 30 seconds, the value of `TokenExpiryBufferSeconds` and of the
`HttpClient` timeouts. A token records `accessExpiresAt`, which the front end computes when the answer arrives,
and `server`, when the API really stops accepting it. `AcquireApi`/`AcquireAuth` are the two `WaitAsync`;
`ReleaseApi`/`ReleaseAuth` the two `finally` blocks. `DeleteShirt` calls the API again after a
`WebApiException`; the field `second` is that call. The authority and the API are external: a renewal
succeeds, is refused or gets no answer, and a failed one may have spent the refresh token all the same.

### TokenFlow
The renewals of `WebApiExecuter` as HTTP calls that `RefreshTokens` serves. Both are instances, with their own
variables (`work` is the `req` of the authority) and one clock; two variables of `WebApiExecuter` become expressions:
`issued` is `Len(answered)`, the tokens the front end was given in order, and `live` is `Unexchanged`, those of them
that no other one of them was derived from.

| in the module | in the code |
|---|---|
| `SendRefresh`, `SendCredentials` | `PostAsJsonAsync` in `TryRefreshTokenAsync` and `AuthenticateClientCredentialsAsync` reaches a free slot of the authority; `call[r]` is that slot |
| `Serve`, `ServeFails`, `AuthorityRestarts` | the authority works on the call, whether anybody waits for it or not |
| `Granted`, `Refused` | the answer arrives in time and is stored, or is an error status |
| `NoAnswer`, `Unheard` | an exception or the timeout of the `HttpClient`: the front end goes on, the slot's answer is heard by nobody |
| `Alone`, `GiveUp`, `Commit`, `Begin`, `ExpireSession`, `FrontEndRestarts` | what the front end does without the authority |

`Granted` takes from the slot what `WebApiExecuter` leaves open: when the token was issued (`IssuedAt`) and which
tokens it was exchanged for. The front end presents only what it was given, revokes nothing, and its own credentials
are not refused; it names its own client id, which is registered, so `AppMissing` cannot happen here.
A call that is given up counts as a fault of the authority from then on (`FaultsLeft`), as its answer
is going to be lost. `Broken` marks a call whose authority has crashed.

### ShirtStore
A creation is `Check` (the filter's query) and `Insert` (`SaveChanges`); an update `Find`, then `Update`, which writes
the columns that differ from the entity as it was loaded, `UpdateNothing`, or `UpdateFails` followed by `Recover` (the
exception filter); a deletion `Find` and `Delete`. The key is AUTOINCREMENT (`seq` is `sqlite_sequence`), except that
a POST may carry an id of its own. `births` (history) tells apart rows that had the same id, and `named` (history)
says that the last of them got it from a POST. Brand and color are one column, price is left out, and size 0 stands
for null, which the duplicate query equates with nothing.

### Accounts
`phase` is where `Program` is: migrate, the two seeding steps statement by statement, serving. `Register` is
`RegisterUserDetailedAsync`, one action per query. The unique index on `Username` is the guard of `Insert`;
`InsertFails` is the `DbUpdateException` otherwise. `Crash` restarts from `migrate` with the tables as they are.
`known` says that somebody can know the secret of the default client: it was configured, or drawn and logged. `cutOff`
(history) says that a crash came between the INSERT of the client and the log of its secret.

### TaskQueue
The channel, the reader's loop, cancellation and restart. The pair is written but not registered in `Program`
(lines 281-282 are commented out): the module describes the classes as they would run.

## 3. The runs

| run | question | bounds |
|---|---|---|
| `tokens_overlap` | everything the token service keeps when requests overlap; what the handlers rely on at each await; the refinement of `TokenLifecycle` | 2 slots, 3 tokens, 3 client ids (1 application, unregistered, blank), 2 instants, lifetime 1, 1 fault |
| `tokens_serial` | single use, lasting revocation, the record of the first revocation, the line of descent with two clients, and that every request ends | 1 slot, 3 tokens, 4 client ids (2 applications, unregistered, blank), 3 instants, lifetime 1, 1 fault |
| `tokens_unknown` | expected violation: an unknown token is refused | 2 slots |
| `executer_overlap` | permits are conserved and never waited for in a circle, no retry runs for ever, calls are sent with live tokens, the second check of the token never succeeds | 3 requests on 2 permits, 1 session, 2 tokens, one `DeleteShirt` at a time, 3 instants |
| `executer_finished` | no request waits for a permit or the lock for ever | 3 requests on 2 permits, 1 session, 1 token, one `DeleteShirt` at a time, the clock stands |
| `executer_retries` | expected violation: failed renewals in a row are bounded by the maximum of retries | 2 requests, 2 retries |
| `tokenflow_overlap` | front end and authority together: the composition implements `WebApiExecuter`; one token is renewed into one; what a request brings back is not spent | 2 requests of 1 session, 2 slots, 3 tokens, 2 instants, 1 fault on either side, 1 retry, one `DeleteShirt` at a time |
| `shirts_overlap` | duplicates, stale entities, vanished shirts, partial updates; what the actions rely on after each await | 2 slots, ids -1, 1 and 2, each inserted at most twice; POST may carry -1 or 1 |
| `shirts_sizes` | expected violation: every stored shirt is correctly sized | 2 slots, sizes 6 and 8 |
| `accounts_seeded` | seeding through crashes, uniqueness, the inductive invariant, and that the server comes up | 2 slots, 3 names and emails, 2 crashes, no configured secret |
| `accounts_emails` | expected violation: emails are unique | 2 slots, no crash |
| `queue_order` | order, single execution, survival of the reader | 3 tasks |

**Why these bounds are enough to matter.** Two overlapping slots are what every race of this code needs (they are all
of the form "A checks, B checks, A writes, B writes"). Three tokens allow a token, its successor and a rival
successor, or a chain of two exchanges; two instants with a lifetime of one let a token expire between any two steps.
One fault at each possible place covers every partial failure; two crashes interrupt the seeding and its repetition.
Two permits for three requests make a request wait for a permit while another waits for the lock with a permit in its
hands. In `tokens_overlap` one application is enough: `Stranger` is the other client id a request may name, and which
of several clients a row belongs to is told apart in `tokens_serial`, where a token of each can be presented with the
id of the other, with none, or with a blank one. `executer_finished` asks for the most waiting: its expiry buffer is
as long as the lifetime of an access token, so that every request takes the lock and renews, and a session with a
token goes from the refused refresh to the credentials. A request that finds a valid token has fewer steps and waits
for less; those are in `executer_overlap`, together with the clock. The property of `executer_finished` is
`AnyFinished`, of one request: requests are interchangeable (nothing but `\E r \in Requests` speaks of them, and
fairness is the same for each), so what is true of one is true of all, and TLC checks one temporal formula in the
place of three. `tokens_serial` and `executer_finished` use no symmetry because they check liveness; the symmetric
runs check invariants and step properties only. `executer_overlap` has `MaxTokenRefreshRetries = 1` so that giving up
is reached within few renewals; the number itself plays a role in `executer_retries` only, which has 2. Its `VIEW`
leaves out what nothing reads any more: `failures` always, `sentAt` outside the three steps that follow a sending, the
copy of a request that commits nothing. `tokenflow_overlap` has two requests because the lock lets one renew at a
time: one renews and one brings back an older copy; and two slots because a call that was given up occupies one while
the next is served by the other. Three tokens are a first one, its successor that nobody heard of, and the one the
credentials give instead. Its `VIEW` makes one state of those that differ in `failures`, `stranded`, who exchanged a
token and when, and the recorded time and address of a revocation: no guard and no property of the run reads them.
Where a bound refuses a step the code would take, it refuses it at the *acceptance* of a request (`TokenLeft`,
`IdLeft`), so no accepted request is stuck by a bound; the clock stops at `MaxTime`, but nothing waits for the clock.
The one exception is `Renewed`, which needs `issued < MaxTokens`: a renewal beyond it can only fail, a behaviour the
authority may show anyway; in `TokenFlow` it is an exchange that is not accepted, which the front end sees as a
timeout.

### What the runs show

*Holds under every interleaving*: a successor belongs to its parent's client, was asked for before the parent expired,
and its parent is revoked (`LineageSound`); a token has at most one successor per overlapping request
(`SuccessorsBoundedByOverlap`), and exactly at most one when requests do not overlap (`SingleUse`); no request touches
a token before it was answered (`SecretUntilAnswered`); a success answer is true when sent (`AnswersHold`); a client
whose token an exchange has revoked is given a successor unless a database error, a lost answer or a crash struck in
between, or the exchange named no client (`StrandedOnlyByFaultOrBlank`); permits never leak (`PermitsConserved`);
while a request is in progress some request can go on without anybody else, although permits are held while waiting
(`SomebodyGoesOn`); every step of a request brings it nearer to its end, the credentials after a refused refresh and
the second call of `DeleteShirt` included (`EveryStepIsNearer`), and reaches it (`AnyFinished`); a call is never sent
with an access token that has run out (`LiveWhenSent`); the check of the token inside the lock never succeeds
(`DoubleCheckNeverPasses`), which is why no action returns a token from there. Duplicates come from creations that
overlap or from an update (`DuplicatesOnlyByOverlap`). An update or a deletion writes the shirt its filter loaded, or
one that a POST with that very id has put in its place in the meantime; ids the database draws are never used again
(`WritesWhatItLoaded`). An update whose shirt has vanished is answered with a 404, or with a 204 if it would have
changed nothing; a 500 means that a POST has brought the id back (`VanishedIsNotAnError`). The secret a seeder drew is
unknown to everybody exactly while it is about to be logged, and for good if a crash struck just then
(`SecretLostIffCutOff`).

*Holds of front end and authority together*: the authority enforces single use of a token only on requests that do not
overlap, but `_authLock` and the timeout keep the front end from ever being *given* two tokens for one
(`AnsweredOnce`), although an exchange it gave up may go on beside the next. A request that has renewed brings back a
token that is not revoked, whatever the other requests of its session commit in the meantime; one that tried and
failed may bring back a spent one (`RenewedIsUnspent`), which the credentials then replace at the next renewal. The
authority `WebApiExecuter` assumes is the one the API has (`ExecuterView`).

*Holds only without overlap*: `SingleUse`, `RevocationSticks`, `RevocationRecordedOnce`. With two slots TLC breaks
each of them: the check and the UPDATE are separate, and the UPDATE does not look at what it overwrites. The overlap
that breaks them has a name each time, and without it the property is a theorem (section 5):

| holds while | what holds | what breaks it |
|---|---|---|
| `UsedApart`: no two requests are past the check of the same token | `SingleUse`, `RevocationSticks`, `RevocationRecordedOnce` | overlap, as above |
| `SessionsApart`: no two requests of a session are in progress | `FailuresBounded` | run `executer_retries` |
| `UpdatesApart`: no two updates of a shirt, nor an update and a creation of its id, are between query and write | `SizesCorrect` | run `shirts_sizes` |
| `InsertsApart`: no two registrations are past the check of the same email | `EmailsUnique` | run `accounts_emails` |

### Disagreements between the code and what it says

Each is a run that TLC refutes and an entry of `findings` in `PROJECT.json`.

* `tokens_unknown`: `AuthorityController` declares a 400 for a token that is not found or already revoked (line 117),
  but `RevokeRefreshTokenAsync` returns true in every case.
* `executer_retries`: the maximum of retries (lines 10 and 160) is counted in a session whose copies overwrite each other.
* `shirts_sizes`: two correctly sized updates, mixed column by column, leave a shirt the sizing rule forbids.
* `accounts_emails`: "Email is already in use." (line 67) is a check without an index behind it.

Five smaller observations. A POST to `auth/refresh` with a blank client id and any valid token revokes that token
(`Authenticator.cs`, line 183) and then fails for want of an application (line 188): the client keeps a token that is
spent and gets no other. Both exits of `Provided` that excuse a missing successor are reached in `tokens_overlap`. The
"double-check inside lock" of `WebApiExecuter` (line 150) reads the copy of the session its own request loaded before
it waited, so it never sees the renewal of another request: `DoubleCheckNeverPasses` holds, and the requests that
queued up each renew in turn. An exchange revokes the old token itself, contrary to the header note of
`Authenticator.cs` (line 6), and records the peer's address where `RevokeAsync` records the forwarded one
(`RevokedRow` with "remote" and "forwarded"). A POST may create a shirt with a negative id, which
`Shirt_ValidateShirtIdFilter` (line 29) then keeps out of reach of get, update and delete. Overlapping creations, or
an update, make the duplicate shirts `Shirt_ValidateCreateShirtFilter` (line 47) refuses.

## 4. Fairness

* `RefreshTokens`: weak fairness of `Serve(w)`. A continuation that is ready is run by the thread pool; nothing in the
  service waits for another request. No fairness for arrivals, faults or the clock.
* `WebApiExecuter`: weak fairness of `Proceed(r)`, because both HTTP clients have a timeout of 30 seconds, so every
  call ends. Strong fairness of `Acquire(r)`, the two acquisitions of a request: `SemaphoreSlim` hands permits to its
  asynchronous waiters in the order in which they came, so a waiter is not passed over for ever; weak fairness would
  not express that, as the permit is taken again and again.
* `TokenFlow`: none; its properties are of safety.
* `Accounts`: weak fairness of `Boot`: the main program runs on. Crashes are bounded, so it comes up in the end.
* `TaskQueue`: weak fairness of `Loop \/ Dequeue \/ Execute`. This assumes that each task ends: the service gives a task
  no timeout, and one that never ended would block the queue.

## 5. What is proved

Six modules of theorems, checked by TLAPS. The constants are arbitrary: any set of clients, any
*finite* sets of tokens, slots and requests, any lifetimes and bounds.

**Refresh tokens.** From `TokensAssumption` (null and the unknown string are no tokens), `ClientsAssumption` (the
blank id and the unregistered one are of no application), `FiniteAssumption` and `BoundsAssumption` (a lifetime is
positive).

* `TypeCorrect`: `Spec => []TypeOK`.
* `Inductive`: `Spec => []IInv`, and from it `Awaits`, `Lineage`, `Secrecy`, `Answers`.
* `BoundedByOverlap`: at most `Cardinality(Workers)` successors.
* `Refines`: `Spec => Lifecycle`, the refinement of `TokenLifecycle`.

None of the safety properties is inductive alone. That a parent stays revoked and keeps its client needs that the row
an exchange has checked keeps both while it waits (`ExchangeSound`), which needs that nobody writes those columns of a
stored row; of the client `ExchangeSound` says what the query does, nothing for a blank id, and it is the lookup of
the application that makes it the row's own before the insertion (`LocalsSound`: at "insert" the client is
registered). For the same reason `TypeCorrect` follows from `Inductive` and not the other way round; that the exchange
inserts for the right slot only once needs that a slot mid-exchange has not yet exchanged that token (`SlotsSound`);
that a revocation cannot hit an unanswered token needs that requests only hold tokens that were answered
(`LocalsSound`, `KnownStored`); that the answer is still true when it is sent needs that the issued token is in one
request's hands (`HandsSound`). `AwaitsSound` is the conjunction of these five, `IInv` adds the properties themselves,
and `tokens_overlap` checks every conjunct of it with TLC too. The bound on successors follows by counting: distinct
successors of a token have distinct slots (`SlotsSound`), an injection into `Workers`. The refinement has one case per
action: `SaveOld` and `SaveRevoked` are `Revoke` of an active token or a stutter of a revoked one, `Insert` is `Issue`
or `Derive`, all others stutter; the guard of `Derive` uses that the inserting slot is in no successor yet.

* `NobodyStranded`: `Spec => []StrandedOnlyByFaultOrBlank`. An exchange that has revoked its token stays in one slot until
  it is answered, and what it answers is a successor of that token (`HandsSound`); only `Fail`, `Crash` and `AppMissing`
  take it away, and `AppMissing` only if the client id is blank, since a row's client is registered (`ExchangeSound`).
* `SingleUseApart`, `RecordedOnceApart` and `LogoutApart`: `Spec /\ []UsedApart` implies `[]SingleUse`,
  `RevocationRecordedOnce` and `[]RevocationSticks`, for any number of slots. `UsedApart` restricts the behaviours and not
  the constants: requests for different tokens may overlap as they like, and so may the queries of requests for the same
  one. The invariant is `ApartSound`: the row a request has checked is still active when it saves, an exchange
  has revoked its token itself, and it is the first of that token. It is inductive because the only other writer of a
  row would be past the check of its token too.
* `SerialIsApart`: with a single slot all three hold of every behaviour, which is what `tokens_serial` checks.

**The API client.** From `RequestsAssumption`, `ConstantsAssumption` and `TimesAssumption` (the HTTP timeout is no longer
than the expiry buffer and shorter than the lifetime of a token; 30 s, 30 s and minutes in the code).

* `TypeCorrect`; `PermitsNeverLeak`: `Spec => []PermitsConserved`; `BufferCoversTransit`: `Spec => []LiveWhenSent`;
  `DoubleCheckIsUseless`: `Spec => []DoubleCheckNeverPasses`.

* `NoDeadlock`: `Spec => []SomebodyGoesOn`; `NoRetryForEver`: `Spec => EveryStepIsNearer`;
* `FailuresBoundedApart`: `Spec /\ []SessionsApart => []FailuresBounded`.

`NoDeadlock` and `NoRetryForEver` are the part of `AnyFinished` that does not need fairness. What `CanGoOn` names are
guards, written out, as the prover has no `ENABLED`. The argument counts permits (`PermitsConserved`): whoever waits
for a permit waits for a holder of one, who is either able to go on or waits for the lock; whoever waits for the lock
waits for its one holder, who waits for nothing but an HTTP call with a timeout (`LockMoves`); it also needs that the
second check of the token fails (`ExpiredCopies`), or `decide` would have no step. `StepsLeft` is the measure: it is
at most 15 (`FifteenSteps`) and no step of a request but its first leaves it where it was. Together with fairness they
give `AnyFinished`, a conclusion that only TLC draws. `FailuresBoundedApart` says that the overlap of `executer_retries`
is all that is wrong with the count: the count in the session is never behind the failures, in the store while no
request has loaded it and in the copy of the one that has (`FailuresSound`).

`BufferCoversTransit` rests on an invariant about every copy of a token, in a session, in a request or committed: its
real expiry is at most `HttpTimeout` before the one the front end computed. That is what the buffer is for, and the
theorem says that a buffer of at least the timeout is enough, for any lifetime.

**Front end and authority.** From `FrontAssumption` and `ServiceAssumption`, which imply the assumptions of both
components. The components' theorems are reused: `TokenFlowProofs` instantiates their proof modules, shows once that
the two instances of a module say the same, and cites their step lemmas.

* `Inductive`: `Spec => []IInv`, and from it `Links` (`LinksSound`) and `OneForOne` (`AnsweredOnce`);
* `Implements`: `Spec => ExecuterView`, and `ServesTokens`: `Spec => Authority!Spec`: the composition implements each
  side;
* `Descends`: `Spec => Authority!Lifecycle`: tokens live as `TokenLifecycle` says, those of abandoned calls included;
* `CallsLive`: `Spec => []Executer!LiveWhenSent`, `FrontGoesOn`: `Spec => []Executer!SomebodyGoesOn`, and
  `FrontEnds`: `Spec => Executer!EveryStepIsNearer`, with the authority of this repository instead of an assumed one;
* `RenewedStaysUnspent`: `Spec => []RenewedIsUnspent`.

`IInv` says that each side keeps what it keeps alone and that calls are sound: a slot that serves `r` works on what
`r` waits for, the token it exchanges has no *answered* successor, and it computes the expiry between the sending of
the call and its answer. That another exchange cannot be answered in between is where `_authLock` comes in: one permit
(`PermitsConserved`) means one request renewing (`OneRenewal`), hence one call (`OneCall`). That an exchange which was
given up does no harm is `LineageSound` of the authority: a token that passes the check has no successor, as its
parent would be revoked. `GrantedUnhindered` shows that an answer is never blocked by the `live` of `Renewed`: what it
requires is what appending to `answered` does. `RenewedIsUnspent` is not inductive: the proof adds that the token of a
request that has renewed and not yet committed is in nobody else's copy, in no session and under no exchange
(`FreshSound`).

**Accounts.** From `NamesAssumption`, `WorkersAssumption` (the seeder is no request slot) and `BoundsAssumption`.

* `Inductive`: `Spec => []IInv`, and from it `TypeCorrect`, `Seeded`, `NamesStayUnique`, `EmailsByOverlap`;
  `SecretKept` (`SecretLostIffCutOff`) by an induction of its own.
* `EmailsUniqueApart`: `Spec /\ []InsertsApart => []EmailsUnique`. An email that was free at the check is free at the
  INSERT, and the seeder, which does not look at emails, inserts before anybody else (`EmailsSound`).

`IInv` adds to the properties that no registration is in progress before the process serves, that the admin's name is
the seeder's alone in every phase (`BootSound`: hence nobody can have registered it when the seeder inserts), and
that a slot past a check has no user of its own that voids it (`SlotsSound`): another slot may have inserted the name,
which is when the index answers, or the email, which is how two users come to share one.

**Shirts.** From the assumptions of `ShirtStore` on its finite sets and `NoShirt`.

* `TypeCorrect` and `Awaits` (by one induction), `WritesLoaded`, `Vanished`, `Duplicates`, `Whole`.

`AwaitsSound` is the invariant: the entity a slot has loaded is a shirt whose id was given out; the row is the one
that was loaded (`births`), or gone, or a POST has named the id since, because a key the database draws is above
`sqlite_sequence` and so above every id that was ever used; and a creation past its check has no equal shirt of its
own in the table. `Vanished` adds that an id that was named and used twice stays so (`VanishedSound`). `Whole` is an
action property: what is written are the columns that differ from the entity, so a row still equal to it becomes what
was sent.

* `SizesCorrectApart`: `Spec /\ []UpdatesApart => []SizesCorrect`: the row an update writes is the one it loaded, or gone
  (`MixSound`), so it ends as the body that was sent. Deletions, and creations of other ids, may overlap with it.

**The queue.** `TypeCorrect` and `Ordered` (`Spec => []InOrder`) for every set of tasks: what has been taken, followed by
what waits, is what was accepted, in its order, until the process ends.

## 6. What is model-checked only

The four liveness properties (`Answered`, `AnyFinished`, `ComesUp`, `EveryTaskStarts`): the prover does not handle
liveness under fairness. Of `AnyFinished` the two safety halves are proved (`NoDeadlock`, `NoRetryForEver`); that they
add up to it is a step from `CanGoOn` to `ENABLED` and a descent under fairness, and left to TLC. Every other property
of a passing run is a theorem. The four disagreements above need no proof: TLC shows a behaviour of each; for three of
them a theorem says that the overlap named in section 3 is their only cause. The fourth, `tokens_unknown`, needs no
overlap.

## 7. What is not modelled

* The contents of access tokens, their signature and validation; `ValidateRefreshTokenAsync`, which nothing calls and
  which changes nothing.
* Authorization: `JwtTokenAuthFilterAttribute`, `RequiredClaimAttribute` and `JwtService` map a request to a decision.
  They keep no state and there is nothing else in the repository their result could be compared with; a model would
  say the code a second time.
* Applications: a registration is one INSERT of freshly drawn ids and a lookup is one query, with a list in memory to
  fall back on; no step of anybody can come between. `RefreshTokens` takes the answer of the lookup as given.
* A change of the API's signing key: the API then refuses tokens the front end takes for valid, and the front end sends
  them until their computed expiry (`EnsureSuccessStatusCode`, line 108, does not remove one after a 401).
  `LiveWhenSent` is about expiry only.
* `wwwroot/js/site.js` of the front end holds four lines of comment and no code.
* Database errors other than constraint violations in `ShirtStore` and `Accounts`; they end a request with a 500 and
  no write.
* Listings, echo endpoints, login: they read and change nothing.
* `CacheService` and the background jobs forward to Redis and Hangfire; hashing is the framework's; error
  handling middleware, rate limits, metrics and health checks are configuration; the pages are rendering.
* `DbInitializer`, the in-memory shirts of `WebApp` and `RegisterUserAsync` have no caller.
* A start in Production does not seed; `Accounts` describes Development and Staging, where `Program` does.
* A POST whose id exceeds what the database generates next (overflow of the rowid).

## 8. Plan

Every module of the plan is written: `TokenLifecycle`, `RefreshTokens`, `WebApiExecuter`, `TokenFlow`, `ShirtStore`,
`Accounts` and `TaskQueue`, with a module of theorems for each but the first, whose refinement is proved in
`RefreshTokensProofs`. What could be added:

1. the measure `EveryStepIsNearer` is for `WebApiExecuter` for the requests of the other modules, and for `Boot`;
2. a run of `TokenFlow` with two sessions; the theorems cover it;
3. a `TokenFlow` whose front end restarts with a session store that survives, should the in-memory cache be replaced;
4. an abstract specification of the table of users (a set with unique names) that `Accounts` implements.

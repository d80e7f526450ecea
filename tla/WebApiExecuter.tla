---------------------------- MODULE WebApiExecuter ----------------------------
(***************************************************************************)
(* The front end's client of the REST API: WebApiExecuter as ShirtsController *)
(* of WebApp uses it, over ASP.NET sessions.                               *)
(*                                                                         *)
(* A request first takes one of the permits of _apiCallLock, loads its own *)
(* copy of the session, and calls the API if the access token in it is     *)
(* valid.  Otherwise it takes _authLock, still holding the permit, renews  *)
(* the token with the refresh token or with the client credentials, and    *)
(* calls.  The session middleware loads a session once per request and     *)
(* writes it back at the end of the request, whole, if it was modified:    *)
(* what a request sees and changes is its copy.                            *)
(*                                                                         *)
(* The authority and the shirts API are external: they answer, refuse, or  *)
(* fail.  A unit of time is the 30 s of HttpTimeout.                       *)
(*                                                                         *)
(* Bounds: Requests, MaxTime, MaxTokens and MaxDeletes.                    *)
(***************************************************************************)
EXTENDS Integers, FiniteSets

CONSTANTS Sessions,
          Requests,                  \* the requests in progress at once
          MaxApiConcurrency,
          MaxTokenRefreshRetries,
          TokenExpiryBuffer,         \* TokenExpiryBufferSeconds
          HttpTimeout,               \* HttpClient.Timeout of both clients
          AccessTtl, RefreshTtl,     \* what the authority grants
          MaxTime,                   \* bound on the clock
          MaxTokens,                 \* bound on the tokens issued
          MaxDeletes                 \* bound on the DeleteShirts in progress

ASSUME RequestsAssumption == IsFiniteSet(Requests)
ASSUME ConstantsAssumption ==
  /\ MaxApiConcurrency \in Nat \ {0}
  /\ MaxTokenRefreshRetries \in Nat \ {0}
  /\ TokenExpiryBuffer \in Nat /\ HttpTimeout \in Nat
  /\ AccessTtl \in Nat /\ RefreshTtl \in Nat
  /\ MaxTime \in Nat /\ MaxTokens \in Nat /\ MaxDeletes \in Nat
(* 30 s and 30 s in the code; a fresh access token outlives its transport. *)
ASSUME TimesAssumption == /\ HttpTimeout <= TokenExpiryBuffer
                          /\ HttpTimeout < AccessTtl

VARIABLES store,     \* store[s] : the session as last committed
          pc,        \* pc[r]    : what request r does next
          req,       \* req[r]   : its locals and its copy of the session
          apiFree,   \* _apiCallLock.CurrentCount
          authFree,  \* _authLock.CurrentCount
          now,       \* DateTime.UtcNow
          issued,    \* tokens issued so far; the next one is issued + 1
          live,      \* the refresh tokens the authority still accepts
          failures   \* history: failed renewals of s in a row

vars == <<store, pc, req, apiFree, authFree, now, issued, live, failures>>

-----------------------------------------------------------------------------
(* JwtToken; id 0 is null.  server is when the API stops accepting the     *)
(* access token; the front end only knows accessExpiresAt, which it        *)
(* computes when the answer arrives.                                       *)
JwtToken == [id : Nat, accessExpiresAt : Nat, refreshExpiresAt : Nat, server : Nat]
NoToken == [id |-> 0, accessExpiresAt |-> 0, refreshExpiresAt |-> 0, server |-> 0]

(* The two session keys: the token and TokenRefreshRetryCount (absent is 0) *)
Session == [token : JwtToken, retries : Nat]
EmptySession == [token |-> NoToken, retries |-> 0]

Steps == {"idle", "waitApi", "prepare", "waitAuth", "decide", "refreshing",
          "authenticating", "calling", "commit"}

(* copy is the request's session, usable once loaded; second: in the second *)
(* call DeleteShirt makes after a WebApiException.                         *)
Request == [session : Sessions, delete : BOOLEAN, second : BOOLEAN,
            loaded : BOOLEAN, copy : Session, modified : BOOLEAN, sentAt : Nat]

HoldsApi == {"prepare", "waitAuth", "decide", "refreshing", "authenticating",
             "calling"}
HoldsAuth == {"decide", "refreshing", "authenticating"}

TypeOK == /\ store \in [Sessions -> Session]
          /\ pc \in [Requests -> Steps]
          /\ req \in [Requests -> Request]
          /\ apiFree \in Nat /\ authFree \in Nat
          /\ now \in Nat /\ issued \in Nat
          /\ live \subseteq Nat
          /\ failures \in [Sessions -> Nat]

NewRequest(s, d) == [session |-> s, delete |-> d, second |-> FALSE,
                     loaded |-> FALSE, copy |-> EmptySession,
                     modified |-> FALSE, sentAt |-> 0]

Init == /\ store = [s \in Sessions |-> EmptySession]
        /\ pc = [r \in Requests |-> "idle"]
        /\ \E s \in Sessions : req = [r \in Requests |-> NewRequest(s, FALSE)]
        /\ apiFree = MaxApiConcurrency
        /\ authFree = 1
        /\ now = 0
        /\ issued = 0
        /\ live = {}
        /\ failures = [s \in Sessions |-> 0]

-----------------------------------------------------------------------------
(* (A mutant: no buffer.) *)
IsTokenValidUnbuffered(token) == token.accessExpiresAt > now
IsTokenValid(token) == token.accessExpiresAt > now + TokenExpiryBuffer

(* Begin a request of session s; d: it is DeleteShirt. *)
Begin(r, s, d) ==
  /\ pc[r] = "idle"
  /\ d => Cardinality({q \in Requests : req[q].delete}) < MaxDeletes
  /\ pc' = [pc EXCEPT ![r] = "waitApi"]
  /\ req' = [req EXCEPT ![r] = NewRequest(s, d)]
  /\ UNCHANGED <<store, apiFree, authFree, now, issued, live, failures>>

AcquireApi(r) ==
  /\ pc[r] = "waitApi" /\ apiFree > 0
  /\ apiFree' = apiFree - 1
  /\ pc' = [pc EXCEPT ![r] = "prepare"]
  /\ UNCHANGED <<store, req, authFree, now, issued, live, failures>>

(* GetValidTokenAsync up to the lock: the first access loads the session.  *)
(* (A mutant: the token is checked inside the lock only.)                  *)
SessionOf(r) == IF req[r].loaded THEN req[r].copy ELSE store[req[r].session]

PrepareUnchecked(r) ==
  /\ pc[r] = "prepare"
  /\ req' = [req EXCEPT ![r] = [@ EXCEPT !.loaded = TRUE, !.copy = SessionOf(r),
                                         !.sentAt = now]]
  /\ pc' = [pc EXCEPT ![r] = "waitAuth"]
  /\ UNCHANGED <<store, apiFree, authFree, now, issued, live, failures>>

Prepare(r) ==
  /\ pc[r] = "prepare"
  /\ req' = [req EXCEPT ![r] = [@ EXCEPT !.loaded = TRUE, !.copy = SessionOf(r),
                                         !.sentAt = now]]
  /\ pc' = [pc EXCEPT ![r] = IF IsTokenValid(SessionOf(r).token)
                             THEN "calling" ELSE "waitAuth"]
  /\ UNCHANGED <<store, apiFree, authFree, now, issued, live, failures>>

(* (A mutant: Release without Wait.) *)
AcquireAuthAtOnce(r) ==
  /\ pc[r] = "waitAuth"
  /\ authFree' = authFree - 1
  /\ pc' = [pc EXCEPT ![r] = "decide"]
  /\ UNCHANGED <<store, req, apiFree, now, issued, live, failures>>

AcquireAuth(r) ==
  /\ pc[r] = "waitAuth" /\ authFree > 0
  /\ authFree' = authFree - 1
  /\ pc' = [pc EXCEPT ![r] = "decide"]
  /\ UNCHANGED <<store, req, apiFree, now, issued, live, failures>>

(* How a call of the executer ends for the request, whose locals are now q: *)
(* a WebApiException is answered by DeleteShirt with a second call and by  *)
(* the other actions with a page; any other exception ends the request.    *)
EndWith(r, q) == /\ pc' = [pc EXCEPT ![r] = "commit"]
                 /\ req' = [req EXCEPT ![r] = q]

WebApiException(r, q) ==
  IF q.delete /\ ~q.second
  THEN /\ pc' = [pc EXCEPT ![r] = "waitApi"]
       /\ req' = [req EXCEPT ![r] = [q EXCEPT !.second = TRUE]]
  ELSE EndWith(r, q)

(* The two finally blocks. *)
ReleaseApi == apiFree' = apiFree + 1
ReleaseAuth == authFree' = authFree + 1

WithCopy(r, token, retries) ==
  [req[r] EXCEPT !.copy = [token |-> token, retries |-> retries],
                 !.modified = TRUE, !.sentAt = now]

(* Inside the lock the token is checked again, in the request's own copy;   *)
(* DoubleCheckNeverPasses says why no action returns with it from here.    *)
(* "Exceeded maximum token refresh retries": the count starts again.       *)
GiveUp(r) ==
  /\ pc[r] = "decide"
  /\ ~IsTokenValid(req[r].copy.token)
  /\ req[r].copy.retries >= MaxTokenRefreshRetries
  /\ WebApiException(r, WithCopy(r, req[r].copy.token, 0))
  /\ ReleaseApi /\ ReleaseAuth
  /\ failures' = [failures EXCEPT ![req[r].session] = 0]
  /\ UNCHANGED <<store, now, issued, live>>

(* The attempt is counted, then the refresh token is tried if there is one *)
(* that has not expired, else the client credentials.                      *)
StartRenewal(r) ==
  /\ pc[r] = "decide"
  /\ ~IsTokenValid(req[r].copy.token)
  /\ req[r].copy.retries < MaxTokenRefreshRetries
  /\ req' = [req EXCEPT ![r] =
               WithCopy(r, req[r].copy.token, req[r].copy.retries + 1)]
  /\ pc' = [pc EXCEPT ![r] = IF /\ req[r].copy.token.id # 0
                                /\ req[r].copy.token.refreshExpiresAt > now
                             THEN "refreshing" ELSE "authenticating"]
  /\ UNCHANGED <<store, apiFree, authFree, now, issued, live, failures>>

-----------------------------------------------------------------------------
InTime(r) == now - req[r].sentAt <= HttpTimeout

(* A token the authority issued at the instant at, stored on arrival.      *)
FreshToken(at) == [id |-> issued + 1, accessExpiresAt |-> now + AccessTtl,
                   refreshExpiresAt |-> now + RefreshTtl,
                   server |-> at + AccessTtl]

(* A good answer of the authority, with a token it issued at the instant at *)
(* in exchange for spent: SetString, Remove of the count, return.          *)
Renewed(r, at, spent) ==
  /\ InTime(r) /\ issued < MaxTokens
  /\ req' = [req EXCEPT ![r] = WithCopy(r, FreshToken(at), 0)]
  /\ pc' = [pc EXCEPT ![r] = "calling"]
  /\ issued' = issued + 1
  /\ live' = (live \ spent) \cup {issued + 1}
  /\ failures' = [failures EXCEPT ![req[r].session] = 0]
  /\ ReleaseAuth
  /\ UNCHANGED <<store, apiFree, now>>

(* TryRefreshTokenAsync: the authority exchanges a live token once. *)
Refreshed(r) ==
  /\ pc[r] = "refreshing"
  /\ req[r].copy.token.id \in live
  /\ \E at \in req[r].sentAt .. now : Renewed(r, at, {req[r].copy.token.id})

(* Any other outcome is null: a refusal, a lost answer, a timeout.  The     *)
(* authority may have spent the token all the same.  (A mutant: it is tried *)
(* again.)                                                                 *)
RefreshFailedAgain(r) ==
  /\ pc[r] = "refreshing"
  /\ req' = [req EXCEPT ![r] = [@ EXCEPT !.sentAt = now]]
  /\ UNCHANGED <<store, pc, apiFree, authFree, now, issued, live, failures>>

RefreshFailed(r) ==
  /\ pc[r] = "refreshing"
  /\ live' \in {live, live \ {req[r].copy.token.id}}
  /\ pc' = [pc EXCEPT ![r] = "authenticating"]
  /\ req' = [req EXCEPT ![r] = [@ EXCEPT !.sentAt = now]]
  /\ UNCHANGED <<store, apiFree, authFree, now, issued, failures>>

(* AuthenticateClientCredentialsAsync *)
Authenticated(r) ==
  /\ pc[r] = "authenticating"
  /\ \E at \in req[r].sentAt .. now : Renewed(r, at, {})

(* The history counts no further than the first failure too many. *)
CountFailure(s) ==
  failures' = [failures EXCEPT ![s] = IF @ > MaxTokenRefreshRetries THEN @ ELSE @ + 1]

(* Refused: a WebApiException.                                             *)
AuthenticationRefused(r) ==
  /\ pc[r] = "authenticating"
  /\ WebApiException(r, req[r])
  /\ CountFailure(req[r].session)
  /\ ReleaseApi /\ ReleaseAuth
  /\ UNCHANGED <<store, now, issued, live>>

(* No answer: HttpRequestException or TaskCanceledException.  (A mutant:    *)
(* the lock is not in a finally block.)                                    *)
AuthenticationFailedLocked(r) ==
  /\ pc[r] = "authenticating"
  /\ EndWith(r, req[r])
  /\ CountFailure(req[r].session)
  /\ ReleaseApi
  /\ UNCHANGED <<store, authFree, now, issued, live>>

AuthenticationFailed(r) ==
  /\ pc[r] = "authenticating"
  /\ EndWith(r, req[r])
  /\ CountFailure(req[r].session)
  /\ ReleaseApi /\ ReleaseAuth
  /\ UNCHANGED <<store, now, issued, live>>

-----------------------------------------------------------------------------
(* The call itself: a page, an error status, or no answer. *)
CallEnds(r) ==
  /\ pc[r] = "calling"
  /\ WebApiException(r, req[r]) \/ EndWith(r, req[r])
  /\ ReleaseApi
  /\ UNCHANGED <<store, authFree, now, issued, live, failures>>

(* SessionMiddleware: the whole copy is written if it was modified.        *)
Commit(r) ==
  /\ pc[r] = "commit"
  /\ store' = IF req[r].modified
              THEN [store EXCEPT ![req[r].session] = req[r].copy] ELSE store
  /\ pc' = [pc EXCEPT ![r] = "idle"]
  /\ req' = [req EXCEPT ![r] = NewRequest(req[r].session, FALSE)]
  /\ UNCHANGED <<apiFree, authFree, now, issued, live, failures>>

(* IdleTimeout: nobody has used the session for 30 minutes. *)
ExpireSession(s) ==
  /\ \A r \in Requests : pc[r] # "idle" => req[r].session # s
  /\ store[s] # EmptySession
  /\ store' = [store EXCEPT ![s] = EmptySession]
  /\ failures' = [failures EXCEPT ![s] = 0]
  /\ UNCHANGED <<pc, req, apiFree, authFree, now, issued, live>>

(* The process stops and starts: its memory holds the sessions.            *)
Restart ==
  /\ store' = [s \in Sessions |-> EmptySession]
  /\ pc' = [r \in Requests |-> "idle"]
  /\ req' = [r \in Requests |-> NewRequest(req[r].session, FALSE)]
  /\ apiFree' = MaxApiConcurrency
  /\ authFree' = 1
  /\ failures' = [s \in Sessions |-> 0]
  /\ UNCHANGED <<now, issued, live>>

Tick == /\ now < MaxTime
        /\ now' = now + 1
        /\ UNCHANGED <<store, pc, req, apiFree, authFree, issued, live, failures>>

Arrive(r) == \E s \in Sessions, d \in BOOLEAN : Begin(r, s, d)

(* What happens without waiting for a lock: an HTTP call ends at the latest *)
(* with its timeout.                                                       *)
Proceed(r) == \/ Prepare(r) \/ GiveUp(r) \/ StartRenewal(r)
              \/ Refreshed(r) \/ RefreshFailed(r)
              \/ Authenticated(r) \/ AuthenticationRefused(r)
              \/ AuthenticationFailed(r)
              \/ CallEnds(r) \/ Commit(r)

(* What waits for a semaphore. *)
Acquire(r) == AcquireApi(r) \/ AcquireAuth(r)

Next == \/ \E r \in Requests : Arrive(r) \/ Proceed(r) \/ Acquire(r)
        \/ \E s \in Sessions : ExpireSession(s)
        \/ Restart
        \/ Tick

Spec == Init /\ [][Next]_vars

(* SemaphoreSlim releases its asynchronous waiters in the order they came,  *)
(* so a waiter is not passed over for ever: strong fairness, of the one    *)
(* semaphore a request waits for.                                          *)
FairSpec == /\ Spec
            /\ \A r \in Requests : WF_vars(Proceed(r)) /\ SF_vars(Acquire(r))

-----------------------------------------------------------------------------
Holding(steps) == {r \in Requests : pc[r] \in steps}

(* Every path out of InvokeXxx and GetValidTokenAsync gives back what it     *)
(* took: a permit is free or held by one request (the finally blocks).     *)
PermitsConserved ==
  /\ apiFree + Cardinality(Holding(HoldsApi)) = MaxApiConcurrency
  /\ authFree + Cardinality(Holding(HoldsAuth)) = 1

(* The API still accepts the access token of a call at the instant it is    *)
(* sent, although the front end computes the expiry when the answer of the *)
(* authority arrives, up to HttpTimeout after the token was issued:        *)
(* TokenExpiryBufferSeconds covers it.                                     *)
LiveWhenSent ==
  \A r \in Requests : pc[r] = "calling" =>
                        req[r].copy.token.server > req[r].sentAt

(* WebApiExecuter.cs, lines 10 and 160: a session has at most                *)
(* MaxTokenRefreshRetries renewals fail in a row before one is given up.   *)
FailuresBounded == \A s \in Sessions : failures[s] <= MaxTokenRefreshRetries

(* The requests of a session do not overlap. *)
SessionsApart ==
  \A q, r \in Requests : q # r /\ pc[q] # "idle" /\ pc[r] # "idle"
                          => req[q].session # req[r].session

(* The check inside the lock cannot succeed: the copy a request reads again  *)
(* is the one it found expired before it waited, whatever was committed    *)
(* meanwhile.                                                              *)
DoubleCheckNeverPasses ==
  \A r \in Requests : pc[r] = "decide" => ~IsTokenValid(req[r].copy.token)

(* Requests wait for permits and for the lock with permits in their hands,   *)
(* but never in a circle: while one is in progress, one can go on          *)
(* without anybody else.                                                   *)
CanGoOn(r) == \/ pc[r] \in {"prepare", "refreshing", "authenticating", "calling", "commit"}
              \/ pc[r] = "decide" /\ ~IsTokenValid(req[r].copy.token)
              \/ pc[r] = "waitApi" /\ apiFree > 0
              \/ pc[r] = "waitAuth" /\ authFree > 0

SomebodyGoesOn ==
  (\E r \in Requests : pc[r] # "idle") => \E r \in Requests : CanGoOn(r)

(* No retry runs for ever: whatever happens to a request, the second call of *)
(* DeleteShirt and the credentials after a refused refresh included, brings *)
(* it nearer to its end, in 15 steps at most.                              *)
StepsAhead == [idle |-> 0, commit |-> 1, calling |-> 2, authenticating |-> 3,
               refreshing |-> 4, decide |-> 5, waitAuth |-> 6, prepare |-> 7,
               waitApi |-> 8]
StepsLeft(r) ==
  StepsAhead[pc[r]] + IF req[r].delete /\ ~req[r].second THEN 7 ELSE 0

EveryStepIsNearer ==
  [][\A r \in Requests :
       pc[r] # "idle" /\ (pc'[r] # pc[r] \/ req'[r] # req[r])
         => StepsLeft(r)' < StepsLeft(r)]_vars

(* Every request is answered: nobody waits for a permit for ever while others *)
(* come and go, although a permit is held while waiting for the lock.      *)
Answered(r) == pc[r] # "idle" ~> pc[r] = "idle"

Finished == \A r \in Requests : Answered(r)
=============================================================================

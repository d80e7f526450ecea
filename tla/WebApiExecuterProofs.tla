------------------------ MODULE WebApiExecuterProofs ------------------------
(* What TLAPS proves of WebApiExecuter, for every value of its constants. *)
EXTENDS WebApiExecuter, FiniteSetTheorems, TLAPS

(* Assigning one local of a request keeps it well formed. *)
LEMMA AssignTypeOK ==
  ASSUME NEW q \in Request
  PROVE  /\ [q EXCEPT !.second = TRUE] \in Request
         /\ [q EXCEPT !.loaded = TRUE] \in Request
         /\ [q EXCEPT !.modified = TRUE] \in Request
         /\ \A x \in Session : [q EXCEPT !.copy = x] \in Request
         /\ \A x \in Nat : [q EXCEPT !.sentAt = x] \in Request
<1>1. [q EXCEPT !.second = TRUE] \in Request
  BY DEF Request
<1>2. [q EXCEPT !.loaded = TRUE] \in Request
  BY DEF Request
<1>3. [q EXCEPT !.modified = TRUE] \in Request
  BY DEF Request
<1>4. ASSUME NEW x \in Session PROVE [q EXCEPT !.copy = x] \in Request
  BY DEF Request
<1>5. ASSUME NEW x \in Nat PROVE [q EXCEPT !.sentAt = x] \in Request
  BY DEF Request
<1> QED
  BY <1>1, <1>2, <1>3, <1>4, <1>5

LEMMA NewTypeOK ==
  /\ EmptySession \in Session
  /\ \A s \in Sessions, d \in BOOLEAN : NewRequest(s, d) \in Request
  BY DEF EmptySession, NoToken, Session, JwtToken, NewRequest, Request

LEMMA InitTypeOK == Init => TypeOK
<1> SUFFICES ASSUME Init PROVE TypeOK
  OBVIOUS
<1>1. req \in [Requests -> Request]
  BY NewTypeOK DEF Init
<1>2. store \in [Sessions -> Session]
  BY NewTypeOK DEF Init
<1>3. pc \in [Requests -> Steps] /\ failures \in [Sessions -> Nat]
  BY DEF Init, Steps
<1> QED
  BY <1>1, <1>2, <1>3, ConstantsAssumption DEF Init, TypeOK

LEMMA WithCopyTypeOK ==
  ASSUME TypeOK, NEW r \in Requests, NEW token \in JwtToken, NEW retries \in Nat
  PROVE  WithCopy(r, token, retries) \in Request
<1>1. [token |-> token, retries |-> retries] \in Session
  BY DEF Session
<1>2. req[r] \in Request /\ now \in Nat
  BY DEF TypeOK
<1>3. [req[r] EXCEPT !.copy = [token |-> token, retries |-> retries],
                     !.modified = TRUE] \in Request
  BY <1>1, <1>2, AssignTypeOK
<1> QED
  BY <1>2, <1>3, AssignTypeOK DEF WithCopy

(* Both ways a call can end are steps of the request with its new locals.   *)
LEMMA EndTypeOK ==
  ASSUME TypeOK, NEW r \in Requests, NEW q \in Request,
         WebApiException(r, q) \/ EndWith(r, q)
  PROVE  pc' \in [Requests -> Steps] /\ req' \in [Requests -> Request]
  BY AssignTypeOK DEF WebApiException, EndWith, TypeOK, Steps

LEMMA RenewedTypeOK ==
  ASSUME TypeOK, NEW r \in Requests, NEW at \in req[r].sentAt .. now, NEW spent,
         Renewed(r, at, spent)
  PROVE  TypeOK'
<1>1. req[r] \in Request /\ now \in Nat /\ issued \in Nat
  BY DEF TypeOK
<1>2. req[r].sentAt \in Nat /\ req[r].session \in Sessions
  BY <1>1 DEF Request
<1>3. req' = [req EXCEPT ![r] = WithCopy(r, FreshToken(at), 0)]
  BY DEF Renewed
<1>4. FreshToken(at) \in JwtToken
  BY <1>1, <1>2, ConstantsAssumption DEF FreshToken, JwtToken
<1>5. WithCopy(r, FreshToken(at), 0) \in Request
  BY <1>4, WithCopyTypeOK
<1>6. req' \in [Requests -> Request]
  BY <1>3, <1>5 DEF TypeOK
<1>7. pc' \in [Requests -> Steps] /\ failures' \in [Sessions -> Nat]
  BY DEF Renewed, TypeOK, Steps
<1>8. issued' \in Nat /\ authFree' \in Nat
  BY DEF Renewed, ReleaseAuth, TypeOK
<1>9. live' = (live \ spent) \cup {issued + 1} /\ live \subseteq Nat
  BY DEF Renewed, TypeOK
<1>10. live' \subseteq Nat
  <2>1. issued + 1 \in Nat
    BY <1>1
  <2> QED
    BY <1>9, <2>1, Zenon
<1> QED
  BY <1>6, <1>7, <1>8, <1>10 DEF TypeOK, Renewed

LEMMA ProceedTypeOK ==
  ASSUME TypeOK, NEW r \in Requests, Proceed(r)
  PROVE  TypeOK'
<1>1. /\ req[r] \in Request /\ now \in Nat /\ apiFree + 1 \in Nat
      /\ authFree + 1 \in Nat
  BY DEF TypeOK
<1>2. /\ req[r].copy \in Session /\ req[r].session \in Sessions
      /\ req[r].copy.token \in JwtToken /\ req[r].copy.retries \in Nat
  BY <1>1 DEF Request, Session
<1>3. CASE Prepare(r)
  <2>1. SessionOf(r) \in Session
    BY <1>1, <1>2 DEF SessionOf, TypeOK
  <2>2. [req[r] EXCEPT !.loaded = TRUE, !.copy = SessionOf(r)] \in Request
    BY <1>1, <2>1, AssignTypeOK
  <2>3. [req[r] EXCEPT !.loaded = TRUE, !.copy = SessionOf(r), !.sentAt = now]
          \in Request
    BY <1>1, <2>2, AssignTypeOK
  <2> QED
    BY <1>3, <2>3 DEF Prepare, TypeOK, Steps
<1>5. CASE GiveUp(r)
  <2>1. WithCopy(r, req[r].copy.token, 0) \in Request
    BY <1>2, WithCopyTypeOK
  <2>2. pc' \in [Requests -> Steps] /\ req' \in [Requests -> Request]
    BY <1>5, <2>1, EndTypeOK DEF GiveUp
  <2> QED
    BY <1>1, <1>5, <2>2 DEF GiveUp, ReleaseApi, ReleaseAuth, TypeOK
<1>6. CASE StartRenewal(r)
  <2>1. WithCopy(r, req[r].copy.token, req[r].copy.retries + 1) \in Request
    BY <1>2, WithCopyTypeOK
  <2> QED
    BY <1>6, <2>1 DEF StartRenewal, TypeOK, Steps
<1>7. CASE Refreshed(r) \/ Authenticated(r)
  BY <1>7, RenewedTypeOK DEF Refreshed, Authenticated
<1>8. CASE RefreshFailed(r)
  <2>1. [req[r] EXCEPT !.sentAt = now] \in Request
    BY <1>1, AssignTypeOK
  <2> QED
    BY <1>8, <2>1 DEF RefreshFailed, TypeOK, Steps
<1>9. CASE AuthenticationRefused(r) \/ AuthenticationFailed(r)
  <2>1. pc' \in [Requests -> Steps] /\ req' \in [Requests -> Request]
    BY <1>1, <1>9, EndTypeOK DEF AuthenticationRefused, AuthenticationFailed
  <2>2. failures' \in [Sessions -> Nat]
    BY <1>9 DEF AuthenticationRefused, AuthenticationFailed, CountFailure, TypeOK
  <2> QED
    BY <1>1, <1>9, <2>1, <2>2
       DEF AuthenticationRefused, AuthenticationFailed, ReleaseApi, ReleaseAuth, TypeOK
<1>10. CASE CallEnds(r)
  <2>1. pc' \in [Requests -> Steps] /\ req' \in [Requests -> Request]
    BY <1>1, <1>10, EndTypeOK DEF CallEnds
  <2> QED
    BY <1>1, <1>10, <2>1 DEF CallEnds, ReleaseApi, TypeOK
<1>11. CASE Commit(r)
  BY <1>1, <1>2, <1>11, NewTypeOK DEF Commit, TypeOK, Steps
<1> QED
  BY <1>3, <1>5, <1>6, <1>7, <1>8, <1>9, <1>10, <1>11, Zenon DEF Proceed

LEMMA NextTypeOK == TypeOK /\ [Next]_vars => TypeOK'
<1> SUFFICES ASSUME TypeOK, [Next]_vars PROVE TypeOK'
  OBVIOUS
<1>1. ASSUME NEW r \in Requests, Arrive(r) PROVE TypeOK'
  BY <1>1, NewTypeOK DEF Arrive, Begin, TypeOK, Steps
<1>2. ASSUME NEW r \in Requests, AcquireApi(r) PROVE TypeOK'
  BY <1>2 DEF AcquireApi, TypeOK, Steps
<1>3. ASSUME NEW r \in Requests, AcquireAuth(r) PROVE TypeOK'
  BY <1>3 DEF AcquireAuth, TypeOK, Steps
<1>4. ASSUME NEW s \in Sessions, ExpireSession(s) PROVE TypeOK'
  BY <1>4, NewTypeOK DEF ExpireSession, TypeOK
<1>5. CASE Restart
  <2>1. \A r \in Requests : req[r].session \in Sessions
    BY DEF TypeOK, Request
  <2> QED
    BY <1>5, <2>1, NewTypeOK, ConstantsAssumption DEF Restart, TypeOK, Steps
<1>6. CASE Tick
  BY <1>6 DEF Tick, TypeOK
<1>7. CASE UNCHANGED vars
  BY <1>7 DEF vars, TypeOK
<1> QED
  BY <1>1, <1>2, <1>3, <1>4, <1>5, <1>6, <1>7, ProceedTypeOK DEF Next, Acquire

(* The sessions, the requests and the permits keep their types. *)
THEOREM TypeCorrect == Spec => []TypeOK
  BY InitTypeOK, NextTypeOK, PTL DEF Spec

-----------------------------------------------------------------------------
(* What every token in a session is worth: the front end overestimates the  *)
(* life of an access token by at most the time its answer travelled.       *)
Honest(token) == token.accessExpiresAt <= token.server + HttpTimeout

Expiries == /\ TypeOK
            /\ \A s \in Sessions : Honest(store[s].token)
            /\ \A r \in Requests : Honest(req[r].copy.token)
            /\ LiveWhenSent

LEMMA NewHonest ==
  /\ Honest(EmptySession.token)
  /\ \A s, d : Honest(NewRequest(s, d).copy.token)
  BY ConstantsAssumption DEF Honest, EmptySession, NewRequest, NoToken

(* A token that passes IsTokenValid is still accepted by the API. *)
LEMMA ValidIsLive ==
  ASSUME NEW token \in JwtToken, Honest(token), now \in Nat, IsTokenValid(token)
  PROVE  token.server > now
  BY ConstantsAssumption, TimesAssumption DEF Honest, IsTokenValid, JwtToken

LEMMA InitExpiries == Init => Expiries
<1> SUFFICES ASSUME Init PROVE Expiries
  OBVIOUS
<1>1. \A r \in Requests : pc[r] = "idle" /\ Honest(req[r].copy.token)
  BY NewHonest DEF Init
<1>2. \A s \in Sessions : Honest(store[s].token)
  BY NewHonest DEF Init
<1> QED
  BY <1>1, <1>2, InitTypeOK DEF Expiries, LiveWhenSent

(* A step that changes one request, not into "calling", and keeps its token. *)
LEMMA KeepExpiries ==
  ASSUME Expiries, TypeOK', NEW r \in Requests,
         \A v \in Requests : v # r => pc'[v] = pc[v] /\ req'[v] = req[v],
         pc'[r] # "calling",
         Honest(req'[r].copy.token),
         \A s \in Sessions : Honest(store'[s].token)
  PROVE  Expiries'
<1>1. \A v \in Requests : Honest(req'[v].copy.token)
  BY DEF Expiries
<1>2. LiveWhenSent'
  BY DEF Expiries, LiveWhenSent
<1>3. \A token : Honest(token)' <=> Honest(token)
  BY DEF Honest
<1> QED
  BY <1>1, <1>2 DEF Expiries, Honest

LEMMA EndFacts ==
  ASSUME TypeOK, NEW r \in Requests, NEW q \in Request,
         WebApiException(r, q) \/ EndWith(r, q)
  PROVE  /\ \A v \in Requests : v # r => pc'[v] = pc[v] /\ req'[v] = req[v]
         /\ pc'[r] \in {"waitApi", "commit"}
         /\ req'[r].copy = q.copy
<1>1. [q EXCEPT !.second = TRUE].copy = q.copy
  BY DEF Request
<1> QED
  BY <1>1 DEF WebApiException, EndWith, TypeOK

LEMMA WithCopyFacts ==
  ASSUME TypeOK, NEW r \in Requests, NEW token, NEW retries
  PROVE  /\ WithCopy(r, token, retries).copy.token = token
         /\ WithCopy(r, token, retries).sentAt = now
  BY DEF WithCopy, TypeOK, Request

LEMMA ProceedExpiries ==
  ASSUME Expiries, TypeOK', NEW r \in Requests, Proceed(r)
  PROVE  Expiries'
<1>1. /\ TypeOK /\ req[r] \in Request /\ now \in Nat
      /\ req[r].copy \in Session /\ req[r].copy.token \in JwtToken
      /\ req[r].sentAt \in Nat /\ req[r].session \in Sessions
      /\ Honest(req[r].copy.token)
      /\ \A s \in Sessions : Honest(store[s].token)
  BY DEF Expiries, TypeOK, Request, Session
(* The steps into "calling": the token is honest, and live at sentAt.       *)
<1>2. ASSUME \A v \in Requests : v # r => pc'[v] = pc[v] /\ req'[v] = req[v],
             UNCHANGED store,
             Honest(req'[r].copy.token),
             req'[r].copy.token.server > req'[r].sentAt
      PROVE  Expiries'
  BY <1>2 DEF Expiries, Honest, LiveWhenSent
<1>3. CASE Prepare(r)
  <2>1. /\ SessionOf(r) \in Session /\ SessionOf(r).token \in JwtToken
        /\ Honest(SessionOf(r).token)
    BY <1>1 DEF SessionOf, TypeOK, Session
  <2>2. /\ \A v \in Requests : v # r => pc'[v] = pc[v] /\ req'[v] = req[v]
        /\ req'[r].copy = SessionOf(r) /\ req'[r].sentAt = now
        /\ pc'[r] = IF IsTokenValid(SessionOf(r).token) THEN "calling" ELSE "waitAuth"
        /\ UNCHANGED store
    BY <1>1, <1>3 DEF Prepare, TypeOK, Request
  <2>3. CASE IsTokenValid(SessionOf(r).token)
    BY <1>1, <1>2, <2>1, <2>2, <2>3, ValidIsLive
  <2>4. CASE ~IsTokenValid(SessionOf(r).token)
    BY <1>1, <2>1, <2>2, <2>4, KeepExpiries
  <2> QED
    BY <2>3, <2>4
<1>5. CASE GiveUp(r)
  <2>1. WithCopy(r, req[r].copy.token, 0) \in Request
    BY <1>1, WithCopyTypeOK
  <2>2. /\ \A v \in Requests : v # r => pc'[v] = pc[v] /\ req'[v] = req[v]
        /\ pc'[r] \in {"waitApi", "commit"}
        /\ req'[r].copy = WithCopy(r, req[r].copy.token, 0).copy
    BY <1>1, <1>5, <2>1, EndFacts DEF GiveUp
  <2>3. UNCHANGED store
    BY <1>5 DEF GiveUp
  <2> QED
    BY <1>1, <2>2, <2>3, WithCopyFacts, KeepExpiries
<1>6. CASE StartRenewal(r)
  <2>1. /\ \A v \in Requests : v # r => pc'[v] = pc[v] /\ req'[v] = req[v]
        /\ pc'[r] \in {"refreshing", "authenticating"}
        /\ req'[r] = WithCopy(r, req[r].copy.token, req[r].copy.retries + 1)
        /\ UNCHANGED store
    BY <1>1, <1>6 DEF StartRenewal, TypeOK
  <2> QED
    BY <1>1, <2>1, WithCopyFacts, KeepExpiries
<1>7. CASE Refreshed(r) \/ Authenticated(r)
  <2>1. PICK at \in req[r].sentAt .. now, spent \in {{}, {req[r].copy.token.id}} :
          Renewed(r, at, spent)
    BY <1>7 DEF Refreshed, Authenticated
  <2>2. req' = [req EXCEPT ![r] = WithCopy(r, FreshToken(at), 0)]
    BY <2>1 DEF Renewed
  <2>3. now - req[r].sentAt <= HttpTimeout
    BY <2>1 DEF Renewed, InTime
  <2>4. FreshToken(at).server > now /\ Honest(FreshToken(at))
    BY <1>1, <2>3, ConstantsAssumption, TimesAssumption DEF FreshToken, Honest
  <2>5. /\ \A v \in Requests : v # r => pc'[v] = pc[v] /\ req'[v] = req[v]
        /\ req'[r].copy.token = FreshToken(at) /\ req'[r].sentAt = now
    BY <1>1, <2>1, <2>2, WithCopyFacts DEF Renewed, TypeOK
  <2>6. UNCHANGED store
    BY <2>1 DEF Renewed
  <2> QED
    BY <1>2, <2>4, <2>5, <2>6
<1>8. CASE RefreshFailed(r)
  <2>1. /\ \A v \in Requests : v # r => pc'[v] = pc[v] /\ req'[v] = req[v]
        /\ pc'[r] = "authenticating" /\ req'[r].copy = req[r].copy
        /\ UNCHANGED store
    BY <1>1, <1>8 DEF RefreshFailed, TypeOK, Request
  <2> QED
    BY <1>1, <2>1, KeepExpiries
<1>9. CASE AuthenticationRefused(r) \/ AuthenticationFailed(r) \/ CallEnds(r)
  <2>1. WebApiException(r, req[r]) \/ EndWith(r, req[r])
    BY <1>9 DEF AuthenticationRefused, AuthenticationFailed, CallEnds
  <2>2. UNCHANGED store
    BY <1>9 DEF AuthenticationRefused, AuthenticationFailed, CallEnds
  <2>3. /\ \A v \in Requests : v # r => pc'[v] = pc[v] /\ req'[v] = req[v]
        /\ pc'[r] \in {"waitApi", "commit"} /\ req'[r].copy = req[r].copy
    BY <1>1, <2>1, EndFacts
  <2> QED
    BY <1>1, <2>2, <2>3, KeepExpiries
<1>10. CASE Commit(r)
  <2>1. /\ \A v \in Requests : v # r => pc'[v] = pc[v] /\ req'[v] = req[v]
        /\ pc'[r] = "idle" /\ req'[r] = NewRequest(req[r].session, FALSE)
    BY <1>1, <1>10 DEF Commit, TypeOK
  <2>2. \A s \in Sessions : Honest(store'[s].token)
    BY <1>1, <1>10 DEF Commit, TypeOK
  <2> QED
    BY <2>1, <2>2, NewHonest, KeepExpiries
<1> QED
  BY <1>3, <1>5, <1>6, <1>7, <1>8, <1>9, <1>10, Zenon DEF Proceed

LEMMA NextExpiries == Expiries /\ [Next]_vars => Expiries'
<1> SUFFICES ASSUME Expiries, [Next]_vars PROVE Expiries'
  OBVIOUS
<1>0. TypeOK'
  BY NextTypeOK DEF Expiries
<1>1. ASSUME NEW r \in Requests, Arrive(r) PROVE Expiries'
  <2>1. PICK s \in Sessions, d \in BOOLEAN : Begin(r, s, d)
    BY <1>1 DEF Arrive
  <2>2. /\ \A v \in Requests : v # r => pc'[v] = pc[v] /\ req'[v] = req[v]
        /\ pc'[r] = "waitApi" /\ req'[r] = NewRequest(s, d) /\ UNCHANGED store
    BY <2>1 DEF Begin, Expiries, TypeOK
  <2> QED
    BY <1>0, <2>2, NewHonest, KeepExpiries DEF Expiries
<1>2. ASSUME NEW r \in Requests, AcquireApi(r) \/ AcquireAuth(r) PROVE Expiries'
  <2>1. /\ \A v \in Requests : v # r => pc'[v] = pc[v] /\ req'[v] = req[v]
        /\ pc'[r] \in {"prepare", "decide"} /\ req'[r] = req[r] /\ UNCHANGED store
    BY <1>2 DEF AcquireApi, AcquireAuth, Expiries, TypeOK
  <2> QED
    BY <1>0, <2>1, KeepExpiries DEF Expiries
<1>3. ASSUME NEW s \in Sessions, ExpireSession(s) PROVE Expiries'
  <2>1. \A u \in Sessions : Honest(store'[u].token)
    BY <1>3, NewHonest DEF ExpireSession, Expiries, TypeOK
  <2> QED
    BY <1>0, <1>3, <2>1 DEF ExpireSession, Expiries, Honest, LiveWhenSent
<1>4. CASE Restart
  <2>1. /\ \A s \in Sessions : store'[s] = EmptySession
        /\ \A r \in Requests : /\ pc'[r] = "idle"
                               /\ req'[r] = NewRequest(req[r].session, FALSE)
    BY <1>4 DEF Restart
  <2>2. \A r \in Requests : Honest(req'[r].copy.token)
    BY <2>1, NewHonest
  <2> QED
    BY <1>0, <2>1, <2>2, NewHonest DEF Expiries, Honest, LiveWhenSent
<1>5. CASE Tick \/ UNCHANGED vars
  BY <1>0, <1>5 DEF Tick, vars, Expiries, Honest, LiveWhenSent
<1> QED
  BY <1>0, <1>1, <1>2, <1>3, <1>4, <1>5, ProceedExpiries DEF Next, Acquire

(* The 30 s buffer is enough: an access token is live when it is sent, since *)
(* the answer that brought it travelled no longer than the HTTP timeout.   *)
THEOREM BufferCoversTransit == Spec => []LiveWhenSent
<1>1. Expiries => LiveWhenSent
  BY DEF Expiries
<1> QED
  BY <1>1, InitExpiries, NextExpiries, PTL DEF Spec

-----------------------------------------------------------------------------
(* What one request's step does to the number of requests at some steps. *)
LEMMA HoldingStep ==
  ASSUME NEW CONSTANT r \in Requests, NEW CONSTANT steps,
         \A v \in Requests : v # r => pc'[v] = pc[v]
  PROVE  /\ Cardinality(Holding(steps)) \in Nat
         /\ pc[r] \in steps /\ pc'[r] \in steps
              => Cardinality(Holding(steps))' = Cardinality(Holding(steps))
         /\ pc[r] \notin steps /\ pc'[r] \notin steps
              => Cardinality(Holding(steps))' = Cardinality(Holding(steps))
         /\ pc[r] \notin steps /\ pc'[r] \in steps
              => Cardinality(Holding(steps))' = Cardinality(Holding(steps)) + 1
         /\ pc[r] \in steps /\ pc'[r] \notin steps
              => Cardinality(Holding(steps))' = Cardinality(Holding(steps)) - 1
<1>1. IsFiniteSet(Holding(steps)) /\ Cardinality(Holding(steps)) \in Nat
  BY RequestsAssumption, FS_Subset, FS_CardinalityType DEF Holding
<1>2. CASE pc[r] \in steps <=> pc'[r] \in steps
  <2>1. Holding(steps)' = Holding(steps)
    BY <1>2 DEF Holding
  <2> QED
    BY <1>1, <1>2, <2>1
<1>3. CASE pc[r] \notin steps /\ pc'[r] \in steps
  <2>1. Holding(steps)' = Holding(steps) \cup {r} /\ r \notin Holding(steps)
    BY <1>3 DEF Holding
  <2> QED
    BY <1>1, <1>3, <2>1, FS_AddElement
<1>4. CASE pc[r] \in steps /\ pc'[r] \notin steps
  <2>1. Holding(steps)' = Holding(steps) \ {r} /\ r \in Holding(steps)
    BY <1>4 DEF Holding
  <2> QED
    BY <1>1, <1>4, <2>1, FS_RemoveElement
<1> QED
  BY <1>2, <1>3, <1>4

Permits == TypeOK /\ PermitsConserved

(* Nobody holds a permit, and all are free. *)
LEMMA NobodyHolds ==
  ASSUME \A r \in Requests : pc[r] = "idle", apiFree = MaxApiConcurrency, authFree = 1
  PROVE  PermitsConserved
<1>1. Holding(HoldsApi) = {} /\ Holding(HoldsAuth) = {}
  BY DEF Holding, HoldsApi, HoldsAuth
<1> QED
  BY <1>1, FS_EmptySet, ConstantsAssumption DEF PermitsConserved

LEMMA ProceedPermits ==
  ASSUME Permits, TypeOK', NEW r \in Requests, Proceed(r)
  PROVE  PermitsConserved'
<1>1. TypeOK /\ req[r] \in Request /\ apiFree \in Nat /\ authFree \in Nat
  BY DEF Permits, TypeOK
<1> USE DEF Permits, PermitsConserved, HoldsApi, HoldsAuth
(* The permit and the lock are kept or given back with the step.           *)
<1>2. ASSUME \A v \in Requests : v # r => pc'[v] = pc[v],
             pc[r] \in HoldsApi \ HoldsAuth, pc'[r] \in HoldsApi \ HoldsAuth,
             UNCHANGED <<apiFree, authFree>>
      PROVE  PermitsConserved'
  BY <1>1, <1>2, HoldingStep
<1>3. ASSUME \A v \in Requests : v # r => pc'[v] = pc[v],
             pc[r] \in HoldsAuth, pc'[r] \in HoldsAuth,
             UNCHANGED <<apiFree, authFree>>
      PROVE  PermitsConserved'
  BY <1>1, <1>3, HoldingStep
<1>4. ASSUME \A v \in Requests : v # r => pc'[v] = pc[v],
             pc[r] \in HoldsAuth, pc'[r] = "calling",
             authFree' = authFree + 1, UNCHANGED apiFree
      PROVE  PermitsConserved'
  BY <1>1, <1>4, HoldingStep
<1>5. ASSUME \A v \in Requests : v # r => pc'[v] = pc[v],
             pc[r] \in HoldsAuth, pc'[r] \in {"waitApi", "commit"},
             authFree' = authFree + 1, apiFree' = apiFree + 1
      PROVE  PermitsConserved'
  BY <1>1, <1>5, HoldingStep
<1>6. ASSUME \A v \in Requests : v # r => pc'[v] = pc[v],
             pc[r] = "calling", pc'[r] \in {"waitApi", "commit"},
             UNCHANGED authFree, apiFree' = apiFree + 1
      PROVE  PermitsConserved'
  BY <1>1, <1>6, HoldingStep
<1>7. ASSUME \A v \in Requests : v # r => pc'[v] = pc[v],
             pc[r] = "commit", pc'[r] = "idle", UNCHANGED <<apiFree, authFree>>
      PROVE  PermitsConserved'
  BY <1>1, <1>7, HoldingStep
<1>8. CASE Prepare(r)
  BY <1>1, <1>2, <1>8 DEF Prepare, TypeOK
<1>9. CASE StartRenewal(r) \/ RefreshFailed(r)
  BY <1>1, <1>3, <1>9 DEF StartRenewal, RefreshFailed, TypeOK
<1>11. CASE Refreshed(r) \/ Authenticated(r)
  BY <1>1, <1>4, <1>11 DEF Refreshed, Authenticated, Renewed, ReleaseAuth, TypeOK
<1>12. CASE GiveUp(r)
  <2>1. WithCopy(r, req[r].copy.token, 0) \in Request
    BY <1>1, WithCopyTypeOK DEF Request, Session
  <2> QED
    BY <1>1, <1>5, <1>12, <2>1, EndFacts DEF GiveUp, ReleaseApi, ReleaseAuth
<1>13. CASE AuthenticationRefused(r) \/ AuthenticationFailed(r)
  BY <1>1, <1>5, <1>13, EndFacts
     DEF AuthenticationRefused, AuthenticationFailed, ReleaseApi, ReleaseAuth
<1>14. CASE CallEnds(r)
  BY <1>1, <1>6, <1>14, EndFacts DEF CallEnds, ReleaseApi
<1>15. CASE Commit(r)
  BY <1>1, <1>7, <1>15 DEF Commit, TypeOK
<1> QED
  BY <1>8, <1>9, <1>11, <1>12, <1>13, <1>14, <1>15, Zenon DEF Proceed

LEMMA NextPermits == Permits /\ [Next]_vars => Permits'
<1> SUFFICES ASSUME Permits, [Next]_vars PROVE PermitsConserved'
  BY NextTypeOK DEF Permits
<1>0. TypeOK /\ TypeOK' /\ apiFree \in Nat /\ authFree \in Nat
  BY NextTypeOK DEF Permits, TypeOK
<1> USE DEF Permits, PermitsConserved, HoldsApi, HoldsAuth
<1>1. ASSUME NEW r \in Requests, Arrive(r) PROVE PermitsConserved'
  <2>1. /\ \A v \in Requests : v # r => pc'[v] = pc[v]
        /\ pc[r] = "idle" /\ pc'[r] = "waitApi" /\ UNCHANGED <<apiFree, authFree>>
    BY <1>0, <1>1 DEF Arrive, Begin, TypeOK
  <2> QED
    BY <1>0, <2>1, HoldingStep
<1>2. ASSUME NEW r \in Requests, AcquireApi(r) PROVE PermitsConserved'
  <2>1. /\ \A v \in Requests : v # r => pc'[v] = pc[v]
        /\ pc[r] = "waitApi" /\ pc'[r] = "prepare"
        /\ apiFree' = apiFree - 1 /\ UNCHANGED authFree
    BY <1>0, <1>2 DEF AcquireApi, TypeOK
  <2> QED
    BY <1>0, <2>1, HoldingStep
<1>3. ASSUME NEW r \in Requests, AcquireAuth(r) PROVE PermitsConserved'
  <2>1. /\ \A v \in Requests : v # r => pc'[v] = pc[v]
        /\ pc[r] = "waitAuth" /\ pc'[r] = "decide"
        /\ authFree' = authFree - 1 /\ UNCHANGED apiFree
    BY <1>0, <1>3 DEF AcquireAuth, TypeOK
  <2> QED
    BY <1>0, <2>1, HoldingStep
<1>4. CASE Restart
  <2>1. /\ \A r \in Requests : pc'[r] = "idle"
        /\ apiFree' = MaxApiConcurrency /\ authFree' = 1
    BY <1>4 DEF Restart
  <2>2. Holding(HoldsApi)' = {} /\ Holding(HoldsAuth)' = {}
    BY <2>1 DEF Holding
  <2> QED
    BY <2>1, <2>2, FS_EmptySet, ConstantsAssumption
<1>5. ASSUME UNCHANGED <<pc, apiFree, authFree>> PROVE PermitsConserved'
  BY <1>5 DEF Holding
<1>6. CASE (\E s \in Sessions : ExpireSession(s)) \/ Tick \/ UNCHANGED vars
  BY <1>5, <1>6 DEF ExpireSession, Tick, vars
<1> QED
  BY <1>0, <1>1, <1>2, <1>3, <1>4, <1>6, ProceedPermits DEF Next, Acquire

(* Whatever fails, each permit is free or held by exactly one request: the   *)
(* semaphores are never over-released and never leak.                      *)
THEOREM PermitsNeverLeak == Spec => []PermitsConserved
<1>1. Init => Permits
  BY InitTypeOK, NobodyHolds DEF Init, Permits
<1>2. Permits => PermitsConserved
  BY DEF Permits
<1> QED
  BY <1>1, <1>2, NextPermits, PTL DEF Spec

-----------------------------------------------------------------------------
(* Once a request has found its copy of the token expired, it stays expired *)
(* as long as the request waits for the lock and until it renews.          *)
ExpiredCopies ==
  /\ TypeOK
  /\ \A r \in Requests : pc[r] \in {"waitAuth", "decide"} =>
                            ~IsTokenValid(req[r].copy.token)

LEMMA NextExpiredCopies == ExpiredCopies /\ [Next]_vars => ExpiredCopies'
<1> SUFFICES ASSUME ExpiredCopies, [Next]_vars,
                    NEW v \in Requests, pc'[v] \in {"waitAuth", "decide"}
             PROVE  ~IsTokenValid(req[v].copy.token)'
  BY NextTypeOK DEF ExpiredCopies
<1>1. TypeOK /\ TypeOK' /\ now \in Nat /\ now' \in Nat
  BY NextTypeOK DEF ExpiredCopies, TypeOK
<1>2. /\ req[v] \in Request /\ req[v].copy \in Session
      /\ req[v].copy.token \in JwtToken
  BY <1>1 DEF TypeOK, Request, Session
(* The request waited already, and neither it nor the clock went back.      *)
<1>3. ASSUME pc[v] \in {"waitAuth", "decide"}, req'[v] = req[v], now' >= now
      PROVE  ~IsTokenValid(req[v].copy.token)'
  <2>1. ~IsTokenValid(req[v].copy.token)
    BY <1>3 DEF ExpiredCopies
  <2> DEFINE token == req[v].copy.token
  <2>2. token \in JwtToken /\ token' = token
    BY <1>2, <1>3
  <2>3. ~(token.accessExpiresAt > now' + TokenExpiryBuffer)
    BY <1>1, <1>3, <2>1, <2>2, ConstantsAssumption DEF IsTokenValid, JwtToken
  <2> QED
    BY <2>2, <2>3 DEF IsTokenValid
<1>4. ASSUME NEW r \in Requests, Arrive(r) PROVE ~IsTokenValid(req[v].copy.token)'
  <2>1. v # r /\ pc'[v] = pc[v] /\ req'[v] = req[v] /\ now' = now
    BY <1>1, <1>4 DEF Arrive, Begin, TypeOK
  <2> QED
    BY <1>1, <1>3, <2>1
<1>5. ASSUME NEW r \in Requests, AcquireApi(r) \/ AcquireAuth(r)
      PROVE  ~IsTokenValid(req[v].copy.token)'
  <2>1. req'[v] = req[v] /\ now' = now
    BY <1>5 DEF AcquireApi, AcquireAuth
  <2>2. pc[v] \in {"waitAuth", "decide"}
    BY <1>1, <1>5 DEF AcquireApi, AcquireAuth, TypeOK
  <2> QED
    BY <1>1, <1>3, <2>1, <2>2
<1>6. ASSUME NEW r \in Requests, Proceed(r) PROVE ~IsTokenValid(req[v].copy.token)'
  <2>1. now' = now
    BY <1>6 DEF Proceed, Prepare, GiveUp, StartRenewal, Refreshed, Renewed,
                RefreshFailed, Authenticated, AuthenticationRefused,
                AuthenticationFailed, CallEnds, Commit
  <2>2. CASE Prepare(r) /\ v = r
    <3>1. req'[v].copy = SessionOf(r)
      BY <1>1, <1>2, <2>2 DEF Prepare, TypeOK, Request
    <3>2. ~IsTokenValid(SessionOf(r).token)
      BY <1>1, <2>2 DEF Prepare, TypeOK
    <3> QED
      BY <2>1, <3>1, <3>2 DEF IsTokenValid
  <2>3. CASE v # r
    <3>1. pc'[v] = pc[v] /\ req'[v] = req[v]
      BY <1>1, <1>6, <2>3
         DEF Proceed, Prepare, GiveUp, StartRenewal, Refreshed, Renewed,
             RefreshFailed, Authenticated, AuthenticationRefused,
             AuthenticationFailed, CallEnds, Commit, WebApiException, EndWith, TypeOK
    <3> QED
      BY <1>1, <1>3, <2>1, <3>1
  <2>4. CASE v = r /\ ~Prepare(r)
    <3>1. pc'[r] \notin {"waitAuth", "decide"}
      BY <1>1, <1>6, <2>4
         DEF Proceed, GiveUp, StartRenewal, Refreshed, Renewed, RefreshFailed,
             Authenticated, AuthenticationRefused, AuthenticationFailed,
             CallEnds, Commit, WebApiException, EndWith, TypeOK
    <3> QED
      BY <2>4, <3>1
  <2> QED
    BY <2>2, <2>3, <2>4
<1>7. CASE Restart
  BY <1>1, <1>7 DEF Restart, TypeOK
<1>8. CASE (\E s \in Sessions : ExpireSession(s)) \/ Tick \/ UNCHANGED vars
  <2>1. pc'[v] = pc[v] /\ req'[v] = req[v] /\ now' >= now
    BY <1>1, <1>8 DEF ExpireSession, Tick, vars
  <2> QED
    BY <1>3, <2>1
<1> QED
  BY <1>4, <1>5, <1>6, <1>7, <1>8 DEF Next, Acquire

(* The double check of GetValidTokenAsync is dead code, for any number of    *)
(* requests and sessions.                                                  *)
THEOREM DoubleCheckIsUseless == Spec => []DoubleCheckNeverPasses
<1>1. Init => ExpiredCopies
  BY InitTypeOK DEF Init, ExpiredCopies
<1>2. ExpiredCopies => DoubleCheckNeverPasses
  BY DEF ExpiredCopies, DoubleCheckNeverPasses
<1> QED
  BY <1>1, <1>2, NextExpiredCopies, PTL DEF Spec

-----------------------------------------------------------------------------
(* A permit that is not free is in somebody's hands, and so is the lock; the *)
(* one who holds the lock waits for nothing but answers with a timeout.    *)
LEMMA LockMoves ==
  ASSUME Permits, ExpiredCopies, NEW q \in Requests, pc[q] = "waitAuth"
  PROVE  \E r \in Requests : CanGoOn(r)
<1>1. CASE authFree > 0
  BY <1>1 DEF CanGoOn
<1>2. CASE ~(authFree > 0)
  <2>1. Cardinality(Holding(HoldsAuth)) # 0
    BY <1>2 DEF Permits, PermitsConserved, TypeOK
  <2>2. Holding(HoldsAuth) # {}
    BY <2>1, FS_EmptySet
  <2>3. PICK r \in Requests : pc[r] \in {"decide", "refreshing", "authenticating"}
    BY <2>2 DEF Holding, HoldsAuth
  <2>4. CanGoOn(r)
    BY <2>3 DEF CanGoOn, ExpiredCopies
  <2> QED
    BY <2>4
<1> QED
  BY <1>1, <1>2

(* Requests wait in two places, one of them with a permit in their hands,   *)
(* and never for each other (the SemaphoreSlims of WebApiExecuter): while  *)
(* one is in progress, one of them can go on alone.                        *)
THEOREM NoDeadlock == Spec => []SomebodyGoesOn
<1>1. Permits /\ ExpiredCopies => SomebodyGoesOn
  <2> SUFFICES ASSUME Permits, ExpiredCopies, NEW q \in Requests, pc[q] # "idle"
               PROVE  \E r \in Requests : CanGoOn(r)
    BY DEF SomebodyGoesOn
  <2>1. pc[q] \in Steps
    BY DEF Permits, TypeOK
  <2>2. CASE pc[q] = "waitAuth"
    BY <2>2, LockMoves
  <2>3. CASE pc[q] = "waitApi"
    <3>1. CASE apiFree > 0
      BY <2>3, <3>1 DEF CanGoOn
    <3>2. CASE ~(apiFree > 0)
      <4>1. Cardinality(Holding(HoldsApi)) # 0
        BY <3>2, ConstantsAssumption DEF Permits, PermitsConserved, TypeOK
      <4>2. Holding(HoldsApi) # {}
        BY <4>1, FS_EmptySet
      <4>3. PICK r \in Requests : pc[r] \in HoldsApi
        BY <4>2 DEF Holding
      <4>4. pc[r] = "waitAuth" \/ CanGoOn(r)
        BY <4>3 DEF HoldsApi, CanGoOn, ExpiredCopies
      <4> QED
        BY <4>4, LockMoves
    <3> QED
      BY <3>1, <3>2
  <2>4. CASE pc[q] \notin {"waitApi", "waitAuth"}
    <3>1. CanGoOn(q)
      BY <2>1, <2>4 DEF Steps, CanGoOn, ExpiredCopies
    <3> QED
      BY <3>1
  <2> QED
    BY <2>2, <2>3, <2>4
<1>2. Init => Permits /\ ExpiredCopies
  BY InitTypeOK, NobodyHolds DEF Init, Permits, ExpiredCopies
<1> QED
  BY <1>1, <1>2, NextPermits, NextExpiredCopies, PTL DEF Spec

-----------------------------------------------------------------------------
LEMMA Ahead ==
  /\ StepsAhead["idle"] = 0 /\ StepsAhead["commit"] = 1 /\ StepsAhead["calling"] = 2
  /\ StepsAhead["authenticating"] = 3 /\ StepsAhead["refreshing"] = 4
  /\ StepsAhead["decide"] = 5 /\ StepsAhead["waitAuth"] = 6
  /\ StepsAhead["prepare"] = 7 /\ StepsAhead["waitApi"] = 8
  BY DEF StepsAhead

(* A step of the request towards its end, with the same call. *)
LEMMA Nearer ==
  ASSUME NEW r \in Requests,
         req'[r].delete = req[r].delete, req'[r].second = req[r].second,
         StepsAhead[pc[r]] \in Nat, StepsAhead[pc'[r]] \in Nat,
         StepsAhead[pc'[r]] < StepsAhead[pc[r]]
  PROVE  StepsLeft(r)' < StepsLeft(r)
<1>1. CASE req[r].delete /\ ~req[r].second
  BY <1>1 DEF StepsLeft
<1>2. CASE ~(req[r].delete /\ ~req[r].second)
  BY <1>2 DEF StepsLeft
<1> QED
  BY <1>1, <1>2

(* A WebApiException of DeleteShirt starts the call again, but only once. *)
LEMMA EndIsNearer ==
  ASSUME TypeOK, NEW r \in Requests, NEW q \in Request,
         q.delete = req[r].delete, q.second = req[r].second,
         pc[r] \in {"decide", "authenticating", "calling"},
         WebApiException(r, q) \/ EndWith(r, q)
  PROVE  StepsLeft(r)' < StepsLeft(r)
<1>1. StepsAhead[pc[r]] \in {2, 3, 5}
  BY Ahead
<1>2. CASE EndWith(r, q)
  <2>1. pc'[r] = "commit" /\ req'[r] = q
    BY <1>2 DEF EndWith, TypeOK
  <2> QED
    BY <1>1, <2>1, Ahead, Nearer
<1>3. CASE q.delete /\ ~q.second /\ ~EndWith(r, q)
  <2>1. pc'[r] = "waitApi" /\ req'[r] = [q EXCEPT !.second = TRUE]
    BY <1>3 DEF WebApiException, TypeOK
  <2>2. StepsLeft(r)' = 8
    <3>1. req'[r].second
      BY <2>1 DEF Request
    <3> QED
      BY <2>1, <3>1, Ahead DEF StepsLeft
  <2>3. StepsLeft(r) = StepsAhead[pc[r]] + 7
    BY <1>3 DEF StepsLeft
  <2> QED
    BY <1>1, <2>2, <2>3
<1> QED
  BY <1>2, <1>3 DEF WebApiException

LEMMA ProceedIsNearer ==
  ASSUME TypeOK, NEW r \in Requests, Proceed(r)
  PROVE  StepsLeft(r)' < StepsLeft(r)
<1>1. /\ req[r] \in Request /\ req \in [Requests -> Request]
      /\ pc \in [Requests -> Steps]
  BY DEF TypeOK
<1>2. CASE Prepare(r)
  <2>1. /\ req'[r].delete = req[r].delete /\ req'[r].second = req[r].second
        /\ pc[r] = "prepare" /\ pc'[r] \in {"calling", "waitAuth"}
    BY <1>1, <1>2 DEF Prepare, Request
  <2> QED
    BY <2>1, Ahead, Nearer
<1>3. CASE StartRenewal(r)
  <2>1. /\ req'[r].delete = req[r].delete /\ req'[r].second = req[r].second
        /\ pc[r] = "decide" /\ pc'[r] \in {"refreshing", "authenticating"}
    BY <1>1, <1>3 DEF StartRenewal, WithCopy, Request
  <2> QED
    BY <2>1, Ahead, Nearer
<1>4. CASE Refreshed(r) \/ Authenticated(r)
  <2>1. PICK at \in req[r].sentAt .. now, spent \in {{}, {req[r].copy.token.id}} :
          Renewed(r, at, spent)
    BY <1>4 DEF Refreshed, Authenticated
  <2>2. pc[r] \in {"refreshing", "authenticating"} /\ pc'[r] = "calling"
    BY <1>1, <1>4, <2>1 DEF Refreshed, Authenticated, Renewed
  <2>3. req'[r].delete = req[r].delete /\ req'[r].second = req[r].second
    BY <1>1, <2>1 DEF Renewed, WithCopy, Request
  <2> QED
    BY <2>2, <2>3, Ahead, Nearer
<1>5. CASE RefreshFailed(r)
  <2>1. /\ req'[r].delete = req[r].delete /\ req'[r].second = req[r].second
        /\ pc[r] = "refreshing" /\ pc'[r] = "authenticating"
    BY <1>1, <1>5 DEF RefreshFailed, Request
  <2> QED
    BY <2>1, Ahead, Nearer
<1>6. CASE GiveUp(r)
  <2> DEFINE q == WithCopy(r, req[r].copy.token, 0)
  <2>1. q \in Request
    BY <1>1, WithCopyTypeOK DEF Request, Session
  <2>2. q.delete = req[r].delete /\ q.second = req[r].second
    BY <1>1 DEF WithCopy, Request
  <2>3. pc[r] = "decide" /\ WebApiException(r, q)
    BY <1>6 DEF GiveUp
  <2> HIDE DEF q
  <2> QED
    BY <2>1, <2>2, <2>3, EndIsNearer
<1>7. CASE AuthenticationRefused(r) \/ AuthenticationFailed(r) \/ CallEnds(r)
  <2>1. /\ pc[r] \in {"authenticating", "calling"}
        /\ WebApiException(r, req[r]) \/ EndWith(r, req[r])
    BY <1>7 DEF AuthenticationRefused, AuthenticationFailed, CallEnds
  <2> QED
    BY <1>1, <2>1, EndIsNearer
<1>8. CASE Commit(r)
  <2>1. pc'[r] = "idle" /\ ~req'[r].delete /\ pc[r] = "commit"
    BY <1>1, <1>8 DEF Commit, NewRequest
  <2>2. StepsLeft(r)' = 0 /\ StepsLeft(r) \in {1, 8}
    BY <2>1, Ahead DEF StepsLeft
  <2> QED
    BY <2>2
<1> QED
  BY <1>2, <1>3, <1>4, <1>5, <1>6, <1>7, <1>8, Zenon DEF Proceed

(* Nothing a request does or suffers brings it back: whatever the authority  *)
(* and the API answer, and in whatever order the requests take their turns,*)
(* it ends after at most 15 steps of its own.                              *)
THEOREM NoRetryForEver == Spec => EveryStepIsNearer
<1>1. ASSUME TypeOK, [Next]_vars, NEW r \in Requests, pc[r] # "idle",
             pc'[r] # pc[r] \/ req'[r] # req[r]
      PROVE  StepsLeft(r)' < StepsLeft(r)
  <2>1. /\ pc \in [Requests -> Steps] /\ req \in [Requests -> Request]
        /\ req[r] \in Request
    BY <1>1 DEF TypeOK
  <2>2. ASSUME NEW v \in Requests, Arrive(v) PROVE FALSE
    BY <1>1, <2>1, <2>2 DEF Arrive, Begin
  <2>3. ASSUME NEW v \in Requests, AcquireApi(v) PROVE StepsLeft(r)' < StepsLeft(r)
    <3>1. v = r /\ pc[r] = "waitApi" /\ pc'[r] = "prepare" /\ req'[r] = req[r]
      BY <1>1, <2>1, <2>3 DEF AcquireApi
    <3> QED
      BY <3>1, Ahead, Nearer
  <2>4. ASSUME NEW v \in Requests, AcquireAuth(v) PROVE StepsLeft(r)' < StepsLeft(r)
    <3>1. v = r /\ pc[r] = "waitAuth" /\ pc'[r] = "decide" /\ req'[r] = req[r]
      BY <1>1, <2>1, <2>4 DEF AcquireAuth
    <3> QED
      BY <3>1, Ahead, Nearer
  <2>5. ASSUME NEW v \in Requests, Proceed(v) PROVE StepsLeft(r)' < StepsLeft(r)
    <3>1. CASE v = r
      BY <1>1, <2>5, <3>1, ProceedIsNearer
    <3>2. CASE v # r
      <4>1. pc'[r] = pc[r] /\ req'[r] = req[r]
        BY <1>1, <2>1, <2>5, <3>2
           DEF Proceed, Prepare, GiveUp, StartRenewal, Refreshed, Renewed,
               RefreshFailed, Authenticated, AuthenticationRefused,
               AuthenticationFailed, CallEnds, Commit, WebApiException, EndWith
      <4> QED
        BY <1>1, <4>1
    <3> QED
      BY <3>1, <3>2
  <2>6. CASE Restart
    <3>1. pc'[r] = "idle" /\ ~req'[r].delete
      BY <2>6 DEF Restart, NewRequest
    <3>2. StepsAhead[pc[r]] \in 1..8
      BY <1>1, <2>1, Ahead DEF Steps
    <3>3. StepsLeft(r)' = 0 /\ StepsLeft(r) > 0
      BY <3>1, <3>2, Ahead DEF StepsLeft
    <3> QED
      BY <3>3
  <2>7. CASE (\E s \in Sessions : ExpireSession(s)) \/ Tick \/ UNCHANGED vars
    BY <1>1, <2>7 DEF ExpireSession, Tick, vars
  <2> QED
    BY <1>1, <2>2, <2>3, <2>4, <2>5, <2>6, <2>7 DEF Next, Acquire
<1>2. TypeOK /\ [Next]_vars =>
        [\A r \in Requests : pc[r] # "idle" /\ (pc'[r] # pc[r] \/ req'[r] # req[r])
                               => StepsLeft(r)' < StepsLeft(r)]_vars
  BY <1>1
<1> QED
  BY <1>2, TypeCorrect, PTL DEF Spec, EveryStepIsNearer

LEMMA FifteenSteps ==
  ASSUME TypeOK, NEW r \in Requests
  PROVE  StepsLeft(r) \in 0..15
<1>1. StepsAhead[pc[r]] \in 0..8
  BY Ahead DEF TypeOK, Steps
<1> QED
  BY <1>1 DEF StepsLeft

-----------------------------------------------------------------------------
(* Requests of one session that do not overlap: the count in the session is  *)
(* never behind the failures, in the store as long as no request has loaded *)
(* it, else in the copy of the one that has.                               *)
Loaded(s) == \E r \in Requests : req[r].loaded /\ req[r].session = s

CountSound(r) ==
  IF req[r].loaded
  THEN /\ pc[r] # "idle"
       /\ req[r].copy.retries <= MaxTokenRefreshRetries
       /\ failures[req[r].session] <= req[r].copy.retries
       /\ pc[r] \in {"refreshing", "authenticating"} =>
            failures[req[r].session] < req[r].copy.retries
       /\ req[r].modified \/ req[r].copy = store[req[r].session]
  ELSE pc[r] \in {"idle", "waitApi", "prepare"}

FailuresSound ==
  /\ \A s \in Sessions :
       /\ store[s].retries <= MaxTokenRefreshRetries
       /\ Loaded(s) \/ failures[s] <= store[s].retries
  /\ \A r \in Requests : CountSound(r)

(* A failure is counted before it happens.                                  *)
LEMMA CountedFirst == TypeOK /\ FailuresSound => FailuresBounded
<1> SUFFICES ASSUME TypeOK, FailuresSound, NEW s \in Sessions
             PROVE  failures[s] <= MaxTokenRefreshRetries
  BY DEF FailuresBounded
<1>1. /\ failures[s] \in Nat /\ store[s].retries \in Nat
      /\ \A r \in Requests : req[r].copy.retries \in Nat
  BY DEF TypeOK, Request, Session
<1>2. CASE Loaded(s)
  <2>1. PICK r \in Requests : req[r].loaded /\ req[r].session = s
    BY <1>2 DEF Loaded
  <2>2. /\ failures[s] <= req[r].copy.retries
        /\ req[r].copy.retries <= MaxTokenRefreshRetries
    BY <2>1 DEF FailuresSound, CountSound
  <2> QED
    BY <1>1, <2>2, ConstantsAssumption
<1>3. CASE ~Loaded(s)
  <2>1. failures[s] <= store[s].retries /\ store[s].retries <= MaxTokenRefreshRetries
    BY <1>3 DEF FailuresSound
  <2> QED
    BY <1>1, <2>1, ConstantsAssumption
<1> QED
  BY <1>2, <1>3

(* The other requests of the session are idle, and have not loaded it.       *)
LEMMA OthersAreIdle ==
  ASSUME SessionsApart, FailuresSound, NEW r \in Requests, pc[r] # "idle",
         NEW v \in Requests, v # r, req[v].loaded
  PROVE  req[v].session # req[r].session
  BY DEF SessionsApart, FailuresSound, CountSound

(* A step of one request in progress, on its own session. *)
LEMMA OneRequestCounts ==
  ASSUME SessionsApart, FailuresSound, NEW r \in Requests, pc[r] # "idle",
         NEW s \in Sessions, s = req[r].session, req'[r].session = s,
         \A v \in Requests : v # r => pc'[v] = pc[v] /\ req'[v] = req[v],
         \A u \in Sessions : u # s => store'[u] = store[u] /\ failures'[u] = failures[u],
         store'[s].retries <= MaxTokenRefreshRetries,
         req'[r].loaded \/ failures'[s] <= store'[s].retries,
         CountSound(r)',
         \A v \in Requests : req[v].session \in Sessions
  PROVE  FailuresSound'
<1>1. ASSUME NEW v \in Requests PROVE CountSound(v)'
  <2>1. CASE v # r /\ req[v].loaded
    <3>1. req[v].session # s /\ CountSound(v)
      BY <2>1, OthersAreIdle DEF FailuresSound
    <3>2. /\ store'[req[v].session] = store[req[v].session]
          /\ failures'[req[v].session] = failures[req[v].session]
      BY <3>1
    <3> QED
      BY <2>1, <3>1, <3>2 DEF CountSound
  <2>2. CASE v # r /\ ~req[v].loaded
    BY <2>2 DEF FailuresSound, CountSound
  <2> QED
    BY <2>1, <2>2
<1>2. ASSUME NEW u \in Sessions
      PROVE  /\ store'[u].retries <= MaxTokenRefreshRetries
             /\ Loaded(u)' \/ failures'[u] <= store'[u].retries
  <2>1. CASE u = s
    BY <2>1 DEF Loaded
  <2>2. CASE u # s
    <3>1. Loaded(u) => Loaded(u)'
      BY <2>2 DEF Loaded
    <3> QED
      BY <2>2, <3>1 DEF FailuresSound
  <2> QED
    BY <2>1, <2>2
<1> QED
  BY <1>1, <1>2 DEF FailuresSound

(* What the ends of a call leave alone. *)
LEMMA EndKeeps ==
  ASSUME TypeOK, NEW r \in Requests, NEW q \in Request,
         WebApiException(r, q) \/ EndWith(r, q)
  PROVE  /\ req'[r].session = q.session /\ req'[r].loaded = q.loaded
         /\ req'[r].modified = q.modified
<1>1. [q EXCEPT !.second = TRUE].session = q.session
  BY DEF Request
<1>2. [q EXCEPT !.second = TRUE].loaded = q.loaded
  BY DEF Request
<1>3. [q EXCEPT !.second = TRUE].modified = q.modified
  BY DEF Request
<1> QED
  BY <1>1, <1>2, <1>3 DEF WebApiException, EndWith, TypeOK

LEMMA ProceedCounts ==
  ASSUME TypeOK, TypeOK', SessionsApart, FailuresSound, NEW r \in Requests, Proceed(r)
  PROVE  FailuresSound'
<1> DEFINE s == req[r].session
<1>1. /\ req[r] \in Request /\ s \in Sessions /\ failures[s] \in Nat
      /\ req[r].copy.retries \in Nat /\ store[s].retries \in Nat
      /\ MaxTokenRefreshRetries \in Nat /\ MaxTokenRefreshRetries > 0
      /\ \A v \in Requests : req[v].session \in Sessions
  BY ConstantsAssumption DEF TypeOK, Request, Session
<1>2. /\ CountSound(r) /\ store[s].retries <= MaxTokenRefreshRetries
      /\ Loaded(s) \/ failures[s] <= store[s].retries
  BY <1>1 DEF FailuresSound
<1>3. pc[r] # "idle"
  BY DEF Proceed, Prepare, GiveUp, StartRenewal, Refreshed, RefreshFailed, Authenticated,
         AuthenticationRefused, AuthenticationFailed, CallEnds, Commit
(* The steps that leave the store alone, and are after Prepare.             *)
<1>4. ASSUME \A v \in Requests : v # r => pc'[v] = pc[v] /\ req'[v] = req[v],
             UNCHANGED store,
             \A u \in Sessions : u # s => failures'[u] = failures[u],
             req'[r].session = s, req'[r].loaded, pc'[r] # "idle",
             req'[r].copy.retries <= MaxTokenRefreshRetries,
             failures'[s] <= req'[r].copy.retries,
             pc'[r] \in {"refreshing", "authenticating"} =>
               failures'[s] < req'[r].copy.retries,
             req'[r].modified \/ req'[r].copy = store[s]
      PROVE  FailuresSound'
  <2>1. CountSound(r)'
    BY <1>1, <1>4 DEF CountSound
  <2> HIDE DEF s
  <2>2. s = req[r].session
    BY DEF s
  <2> QED
    BY <1>1, <1>2, <1>3, <1>4, <2>1, <2>2, OneRequestCounts
<1>5. CASE Prepare(r)
  <2>1. /\ SessionOf(r).retries <= MaxTokenRefreshRetries
        /\ failures[s] <= SessionOf(r).retries
        /\ req[r].modified \/ SessionOf(r) = store[s]
    <3>1. CASE req[r].loaded
      BY <1>2, <3>1 DEF SessionOf, CountSound
    <3>2. CASE ~req[r].loaded
      <4>1. ~Loaded(s)
        BY <1>3, <3>2, OthersAreIdle DEF Loaded
      <4> QED
        BY <1>2, <3>2, <4>1 DEF SessionOf
    <3> QED
      BY <3>1, <3>2
  <2>2. /\ \A v \in Requests : v # r => pc'[v] = pc[v] /\ req'[v] = req[v]
        /\ pc'[r] \in {"calling", "waitAuth"} /\ UNCHANGED <<store, failures>>
    BY <1>5 DEF Prepare, TypeOK
  <2>3. /\ req'[r].session = s /\ req'[r].loaded /\ req'[r].copy = SessionOf(r)
        /\ req'[r].modified = req[r].modified
    BY <1>1, <1>5 DEF Prepare, TypeOK, Request
  <2>4. req'[r].modified \/ req'[r].copy = store[s]
    BY <2>1, <2>3, Zenon
  <2>5. /\ req'[r].copy.retries <= MaxTokenRefreshRetries
        /\ failures'[s] = failures[s] /\ failures[s] <= req'[r].copy.retries
    BY <2>1, <2>2, <2>3, Zenon
  <2> QED
    BY <1>4, <2>2, <2>3, <2>4, <2>5
<1>6. CASE StartRenewal(r)
  <2>1. req' = [req EXCEPT ![r] =
                  WithCopy(r, req[r].copy.token, req[r].copy.retries + 1)]
    BY <1>6 DEF StartRenewal
  <2>2. /\ \A v \in Requests : v # r => pc'[v] = pc[v] /\ req'[v] = req[v]
        /\ pc[r] = "decide" /\ pc'[r] \in {"refreshing", "authenticating"}
        /\ req[r].copy.retries < MaxTokenRefreshRetries
        /\ UNCHANGED <<store, failures>>
    BY <1>6 DEF StartRenewal, TypeOK
  <2>3. /\ req'[r].session = s /\ req'[r].loaded = req[r].loaded /\ req'[r].modified
        /\ req'[r].copy.retries = req[r].copy.retries + 1
    BY <1>1, <2>1 DEF WithCopy, TypeOK, Request
  <2>4. req[r].loaded /\ failures[s] <= req[r].copy.retries
    BY <1>2, <2>2 DEF CountSound
  <2> QED
    BY <1>1, <1>4, <2>2, <2>3, <2>4
<1>7. CASE Refreshed(r) \/ Authenticated(r)
  <2>1. PICK at \in req[r].sentAt .. now, spent \in {{}, {req[r].copy.token.id}} :
          Renewed(r, at, spent)
    BY <1>7 DEF Refreshed, Authenticated
  <2>2. /\ req' = [req EXCEPT ![r] = WithCopy(r, FreshToken(at), 0)]
        /\ failures' = [failures EXCEPT ![s] = 0] /\ UNCHANGED store
    BY <2>1 DEF Renewed
  <2>3. /\ \A v \in Requests : v # r => pc'[v] = pc[v] /\ req'[v] = req[v]
        /\ pc[r] \in {"refreshing", "authenticating"} /\ pc'[r] = "calling"
    BY <1>7, <2>1, <2>2 DEF Refreshed, Authenticated, Renewed, TypeOK
  <2>4. /\ req'[r].session = s /\ req'[r].loaded = req[r].loaded /\ req'[r].modified
        /\ req'[r].copy.retries = 0
    BY <1>1, <2>2 DEF WithCopy, TypeOK, Request
  <2>5. failures'[s] = 0 /\ \A u \in Sessions : u # s => failures'[u] = failures[u]
    BY <1>1, <2>2 DEF TypeOK
  <2>6. req[r].loaded
    BY <1>2, <2>3 DEF CountSound
  <2>7. req'[r].loaded
    BY <2>4, <2>6, Zenon
  <2> QED
    BY <1>1, <1>4, <2>2, <2>3, <2>4, <2>5, <2>7
<1>8. CASE RefreshFailed(r)
  <2>1. /\ \A v \in Requests : v # r => pc'[v] = pc[v] /\ req'[v] = req[v]
        /\ pc[r] = "refreshing" /\ pc'[r] = "authenticating"
        /\ UNCHANGED <<store, failures>>
    BY <1>8 DEF RefreshFailed, TypeOK
  <2>2. /\ req'[r].session = s /\ req'[r].loaded = req[r].loaded
        /\ req'[r].copy = req[r].copy /\ req'[r].modified = req[r].modified
    BY <1>1, <1>8 DEF RefreshFailed, TypeOK, Request
  <2>3. /\ req[r].loaded /\ failures[s] <= req[r].copy.retries
        /\ failures[s] < req[r].copy.retries
        /\ req[r].copy.retries <= MaxTokenRefreshRetries
        /\ req[r].modified \/ req[r].copy = store[s]
    BY <1>2, <2>1 DEF CountSound
  <2>4. /\ req'[r].loaded
        /\ req'[r].modified \/ req'[r].copy = store[s]
        /\ failures'[s] = failures[s]
    BY <2>1, <2>2, <2>3
  <2> QED
    BY <1>4, <2>1, <2>2, <2>3, <2>4
<1>9. CASE GiveUp(r)
  <2> DEFINE q == WithCopy(r, req[r].copy.token, 0)
  <2>1. q \in Request
    BY <1>1, WithCopyTypeOK DEF Request, Session
  <2>2. /\ q.session = s /\ q.loaded = req[r].loaded /\ q.modified /\ q.copy.retries = 0
    BY <1>1 DEF WithCopy, Request
  <2>3. /\ pc[r] = "decide" /\ WebApiException(r, q) /\ UNCHANGED store
        /\ failures' = [failures EXCEPT ![s] = 0]
    BY <1>9 DEF GiveUp
  <2> HIDE DEF q
  <2>4. /\ \A v \in Requests : v # r => pc'[v] = pc[v] /\ req'[v] = req[v]
        /\ pc'[r] \in {"waitApi", "commit"} /\ req'[r].copy = q.copy
        /\ req'[r].session = q.session /\ req'[r].loaded = q.loaded
        /\ req'[r].modified = q.modified
    BY <2>1, <2>3, EndFacts, EndKeeps
  <2>5. failures'[s] = 0 /\ \A u \in Sessions : u # s => failures'[u] = failures[u]
    BY <1>1, <2>3 DEF TypeOK
  <2>6. req[r].loaded
    BY <1>2, <2>3 DEF CountSound
  <2>7. /\ req'[r].loaded /\ req'[r].modified /\ req'[r].copy.retries = 0
        /\ req'[r].session = s
    BY <2>2, <2>4, <2>6, Zenon
  <2> QED
    BY <1>1, <1>4, <2>3, <2>4, <2>5, <2>7
<1>10. CASE AuthenticationRefused(r) \/ AuthenticationFailed(r) \/ CallEnds(r)
  <2>1. /\ WebApiException(r, req[r]) \/ EndWith(r, req[r])
        /\ UNCHANGED store /\ pc[r] \in {"authenticating", "calling"}
    BY <1>10 DEF AuthenticationRefused, AuthenticationFailed, CallEnds
  <2>2. /\ \A v \in Requests : v # r => pc'[v] = pc[v] /\ req'[v] = req[v]
        /\ pc'[r] \in {"waitApi", "commit"} /\ req'[r].copy = req[r].copy
        /\ req'[r].session = s /\ req'[r].loaded = req[r].loaded
        /\ req'[r].modified = req[r].modified
    BY <1>1, <2>1, EndFacts, EndKeeps
  <2>3. \A u \in Sessions : u # s => failures'[u] = failures[u]
    BY <1>1, <1>10
       DEF AuthenticationRefused, AuthenticationFailed, CallEnds, CountFailure, TypeOK
  <2>4. /\ req[r].loaded /\ failures[s] <= req[r].copy.retries
        /\ req[r].copy.retries <= MaxTokenRefreshRetries
        /\ pc[r] = "authenticating" => failures[s] < req[r].copy.retries
        /\ req[r].modified \/ req[r].copy = store[s]
    BY <1>2, <2>1 DEF CountSound
  <2>5. failures'[s] <= req[r].copy.retries
    <3>1. CASE CallEnds(r)
      BY <2>4, <3>1 DEF CallEnds
    <3>2. CASE AuthenticationRefused(r) \/ AuthenticationFailed(r)
      <4>1. pc[r] = "authenticating" /\ CountFailure(s)
        BY <3>2 DEF AuthenticationRefused, AuthenticationFailed
      <4>2. failures'[s] <= failures[s] + 1
        BY <1>1, <4>1 DEF CountFailure, TypeOK
      <4>3. failures'[s] \in Nat
        BY <1>1 DEF TypeOK
      <4> QED
        BY <1>1, <2>4, <4>1, <4>2, <4>3
    <3> QED
      BY <1>10, <3>1, <3>2
  <2> QED
    BY <1>4, <2>1, <2>2, <2>3, <2>4, <2>5
<1>11. CASE Commit(r)
  <2>1. /\ \A v \in Requests : v # r => pc'[v] = pc[v] /\ req'[v] = req[v]
        /\ pc[r] = "commit" /\ pc'[r] = "idle" /\ UNCHANGED failures
        /\ req'[r].session = s /\ ~req'[r].loaded
    BY <1>11 DEF Commit, NewRequest, TypeOK
  <2>2. store' = IF req[r].modified THEN [store EXCEPT ![s] = req[r].copy] ELSE store
    BY <1>11 DEF Commit
  <2>3. /\ \A u \in Sessions : u # s => store'[u] = store[u]
        /\ req[r].modified => store'[s] = req[r].copy
        /\ ~req[r].modified => store'[s] = store[s]
    BY <1>1, <2>2 DEF TypeOK
  <2>4. /\ req[r].copy.retries <= MaxTokenRefreshRetries
        /\ failures[s] <= req[r].copy.retries
        /\ req[r].modified \/ req[r].copy = store[s]
    BY <1>2, <2>1 DEF CountSound
  <2>5. store'[s] = req[r].copy /\ CountSound(r)'
    BY <2>1, <2>3, <2>4 DEF CountSound
  <2>6. s = req[r].session
    OBVIOUS
  <2> HIDE DEF s
  <2> QED
    BY <1>1, <1>3, <2>1, <2>3, <2>4, <2>5, <2>6, OneRequestCounts
<1> QED
  BY <1>5, <1>6, <1>7, <1>8, <1>9, <1>10, <1>11, Zenon DEF Proceed

LEMMA NextCounts ==
  ASSUME TypeOK, SessionsApart, FailuresSound, [Next]_vars
  PROVE  FailuresSound'
<1>1. TypeOK'
  BY NextTypeOK
<1>2. /\ \A v \in Requests : req[v].session \in Sessions /\ CountSound(v)
      /\ pc \in [Requests -> Steps] /\ req \in [Requests -> Request]
      /\ \A s \in Sessions : store[s].retries <= MaxTokenRefreshRetries
  BY DEF TypeOK, Request, FailuresSound
<1>3. ASSUME NEW r \in Requests, Arrive(r) PROVE FailuresSound'
  <2>1. PICK s \in Sessions, d \in BOOLEAN : Begin(r, s, d)
    BY <1>3 DEF Arrive
  <2>2. /\ \A v \in Requests : v # r => pc'[v] = pc[v] /\ req'[v] = req[v]
        /\ pc'[r] = "waitApi" /\ ~req'[r].loaded /\ ~req[r].loaded
        /\ UNCHANGED <<store, failures>>
    BY <1>2, <2>1 DEF Begin, NewRequest, CountSound
  <2>3. \A v \in Requests : CountSound(v)'
    BY <1>2, <2>2 DEF CountSound
  <2>4. \A u \in Sessions : Loaded(u) => Loaded(u)'
    BY <2>2 DEF Loaded
  <2> QED
    BY <2>2, <2>3, <2>4 DEF FailuresSound
<1>4. ASSUME NEW r \in Requests, AcquireApi(r) \/ AcquireAuth(r) PROVE FailuresSound'
  <2>1. /\ \A v \in Requests : v # r => pc'[v] = pc[v]
        /\ UNCHANGED <<req, store, failures>>
        /\ \/ pc[r] = "waitApi" /\ pc'[r] = "prepare"
           \/ pc[r] = "waitAuth" /\ pc'[r] = "decide"
    BY <1>2, <1>4 DEF AcquireApi, AcquireAuth
  <2>2. \A v \in Requests : CountSound(v)'
    BY <1>2, <2>1 DEF CountSound
  <2>3. \A u \in Sessions : Loaded(u) <=> Loaded(u)'
    BY <2>1 DEF Loaded
  <2> QED
    BY <2>1, <2>2, <2>3 DEF FailuresSound
<1>5. ASSUME NEW s \in Sessions, ExpireSession(s) PROVE FailuresSound'
  <2>1. /\ \A u \in Sessions : u # s => store'[u] = store[u] /\ failures'[u] = failures[u]
        /\ store'[s].retries = 0 /\ failures'[s] = 0 /\ UNCHANGED <<pc, req>>
        /\ \A r \in Requests : req[r].loaded => req[r].session # s
    BY <1>2, <1>5 DEF ExpireSession, EmptySession, CountSound, TypeOK
  <2>2. \A v \in Requests : CountSound(v)'
    BY <1>2, <2>1 DEF CountSound
  <2>3. \A u \in Sessions : Loaded(u) <=> Loaded(u)'
    BY <2>1 DEF Loaded
  <2> QED
    BY <1>2, <2>1, <2>2, <2>3, ConstantsAssumption DEF FailuresSound
<1>6. CASE Restart
  <2>1. /\ \A r \in Requests : pc'[r] = "idle" /\ ~req'[r].loaded
        /\ \A s \in Sessions : store'[s].retries = 0 /\ failures'[s] = 0
    BY <1>6 DEF Restart, NewRequest, EmptySession
  <2> QED
    BY <2>1, ConstantsAssumption DEF FailuresSound, CountSound
<1>7. CASE Tick \/ UNCHANGED vars
  BY <1>7 DEF Tick, vars, FailuresSound, CountSound, Loaded
<1> QED
  BY <1>1, <1>3, <1>4, <1>5, <1>6, <1>7, ProceedCounts DEF Next, Acquire

(* A session whose requests do not overlap fails no more than                *)
(* MaxTokenRefreshRetries renewals in a row (GetValidTokenAsync), through  *)
(* the second calls of DeleteShirt, expiries and restarts: only requests   *)
(* that overlap, each with its copy of the count, break the bound.         *)
THEOREM FailuresBoundedApart == Spec /\ []SessionsApart => []FailuresBounded
<1>1. Init => FailuresSound
  BY ConstantsAssumption
     DEF Init, FailuresSound, CountSound, Loaded, NewRequest, EmptySession
<1>2. TypeOK /\ SessionsApart /\ FailuresSound /\ [Next]_vars => FailuresSound'
  BY NextCounts
<1> QED
  BY <1>1, <1>2, CountedFirst, TypeCorrect, PTL DEF Spec
=============================================================================

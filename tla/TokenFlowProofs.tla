--------------------------- MODULE TokenFlowProofs ---------------------------
(* What TLAPS proves of TokenFlow, for every value of its constants.         *)
(* The theorems of the two components are used through instances of their  *)
(* proof modules.                                                          *)
EXTENDS TokenFlow, FiniteSetTheorems, SequenceTheorems, TLAPS

Front == INSTANCE WebApiExecuterProofs WITH issued <- Len(answered),
                                            live <- Unexchanged,
                                            MaxTokens <- Cardinality(Tokens),
                                            MaxDeletes <- 1

Service == INSTANCE RefreshTokensProofs WITH req <- work, Clients <- {Client}

-----------------------------------------------------------------------------
(* The assumptions of both hold of the constants of TokenFlow. *)
LEMMA FrontAssumptions ==
  Front!RequestsAssumption /\ Front!ConstantsAssumption /\ Front!TimesAssumption
<1>1. Cardinality(Tokens) \in Nat
  BY ServiceAssumption, FS_CardinalityType
<1>2. Front!IsFiniteSet(Requests) <=> IsFiniteSet(Requests)
  BY DEF Front!IsFiniteSet, IsFiniteSet
<1> QED
  BY <1>1, <1>2, FrontAssumption, ServiceAssumption
     DEF Front!RequestsAssumption, Front!ConstantsAssumption, Front!TimesAssumption

LEMMA ServiceAssumptions ==
  /\ Service!TokensAssumption /\ Service!ClientsAssumption
  /\ Service!FiniteAssumption /\ Service!BoundsAssumption
<1>1. ASSUME NEW S PROVE Service!IsFiniteSet(S) <=> IsFiniteSet(S)
  BY DEF Service!IsFiniteSet, IsFiniteSet
<1> QED
  BY <1>1, ServiceAssumption
     DEF Service!TokensAssumption, Service!ClientsAssumption,
         Service!FiniteAssumption, Service!BoundsAssumption

(* The instances of a module and of its proof module say the same. *)
LEMMA FrontTypes == Executer!TypeOK <=> Front!TypeOK
  BY DEF Front!TypeOK, Executer!TypeOK, Front!Session, Executer!Session,
         Front!JwtToken, Executer!JwtToken, Front!Request, Executer!Request,
         Front!Steps, Executer!Steps

LEMMA FrontPermits == Executer!PermitsConserved <=> Front!PermitsConserved
<1>1. ASSUME NEW S PROVE Executer!Cardinality(S) = Front!Cardinality(S)
  BY DEF Executer!Cardinality, Front!Cardinality
<1>2. ASSUME NEW S PROVE Executer!Holding(S) = Front!Holding(S)
  BY DEF Executer!Holding, Front!Holding
<1>3. Executer!HoldsApi = Front!HoldsApi /\ Executer!HoldsAuth = Front!HoldsAuth
  BY DEF Executer!HoldsApi, Front!HoldsApi, Executer!HoldsAuth, Front!HoldsAuth
<1> QED
  BY <1>1, <1>2, <1>3, Zenon DEF Executer!PermitsConserved, Front!PermitsConserved

LEMMA FrontVars == Executer!vars = Front!vars
  BY DEF Executer!vars, Front!vars

LEMMA FrontProceed ==
  ASSUME NEW r \in Requests PROVE Executer!Proceed(r) => Front!Proceed(r)
  BY DEF Front!Proceed, Executer!Proceed, Front!Prepare, Executer!Prepare,
         Front!GiveUp, Executer!GiveUp, Front!StartRenewal, Executer!StartRenewal,
         Front!Refreshed, Executer!Refreshed, Front!RefreshFailed, Executer!RefreshFailed,
         Front!Authenticated, Executer!Authenticated,
         Front!AuthenticationRefused, Executer!AuthenticationRefused,
         Front!AuthenticationFailed, Executer!AuthenticationFailed,
         Front!CallEnds, Executer!CallEnds, Front!Commit, Executer!Commit,
         Front!Renewed, Executer!Renewed, Front!CountFailure, Executer!CountFailure,
         Front!WebApiException, Executer!WebApiException, Front!EndWith, Executer!EndWith,
         Front!ReleaseApi, Executer!ReleaseApi, Front!ReleaseAuth, Executer!ReleaseAuth,
         Front!WithCopy, Executer!WithCopy, Front!SessionOf, Executer!SessionOf,
         Front!IsTokenValid, Executer!IsTokenValid, Front!FreshToken, Executer!FreshToken,
         Front!InTime, Executer!InTime, Front!NewRequest, Executer!NewRequest,
         Front!EmptySession, Executer!EmptySession, Front!NoToken, Executer!NoToken

LEMMA FrontNext == Executer!Next => Front!Next
<1> USE DEF Front!NewRequest, Executer!NewRequest, Front!EmptySession,
            Executer!EmptySession, Front!NoToken, Executer!NoToken
<1>1. ASSUME NEW r \in Requests PROVE Executer!Arrive(r) => Front!Arrive(r)
  <2>1. ASSUME NEW S PROVE Executer!Cardinality(S) = Front!Cardinality(S)
    BY DEF Executer!Cardinality, Front!Cardinality
  <2> QED
    BY <2>1 DEF Executer!Arrive, Front!Arrive, Executer!Begin, Front!Begin
<1>2. ASSUME NEW r \in Requests
      PROVE  /\ Executer!AcquireApi(r) => Front!AcquireApi(r)
             /\ Executer!AcquireAuth(r) => Front!AcquireAuth(r)
  BY DEF Executer!AcquireApi, Front!AcquireApi, Executer!AcquireAuth, Front!AcquireAuth
<1>3. ASSUME NEW s \in Sessions PROVE Executer!ExpireSession(s) => Front!ExpireSession(s)
  BY DEF Executer!ExpireSession, Front!ExpireSession
<1>4. Executer!Restart => Front!Restart
  BY DEF Executer!Restart, Front!Restart
<1>5. Executer!Tick => Front!Tick
  BY DEF Executer!Tick, Front!Tick
<1> QED
  BY <1>1, <1>2, <1>3, <1>4, <1>5, FrontProceed, Zenon DEF Executer!Next, Front!Next,
         Executer!Acquire, Front!Acquire

LEMMA FrontInit == Executer!Init => Front!Init
  BY DEF Executer!Init, Front!Init, Front!NewRequest, Executer!NewRequest,
         Front!EmptySession, Executer!EmptySession, Front!NoToken, Executer!NoToken

LEMMA ServiceVars == Authority!vars = Service!vars
  BY DEF Authority!vars, Service!vars

LEMMA ServiceTypes == Authority!TypeOK <=> Service!TypeOK
  BY DEF Authority!TypeOK, Service!TypeOK, Authority!Row, Service!Row,
         Authority!Request, Service!Request, Authority!Steps, Service!Steps,
         Authority!ClientIds, Service!ClientIds, Authority!Origin, Service!Origin

LEMMA ServiceStored == \A t : Authority!Stored(t) <=> Service!Stored(t)
  BY DEF Authority!Stored, Service!Stored

LEMMA ServiceRevoked == \A t : Authority!IsRevoked(t) <=> Service!IsRevoked(t)
  BY ServiceStored, Zenon DEF Authority!IsRevoked, Service!IsRevoked

LEMMA ServiceExchangeable ==
  \A t, c : Authority!Exchangeable(t, c) <=> Service!Exchangeable(t, c)
  BY ServiceStored, ServiceRevoked, Zenon
     DEF Authority!Exchangeable, Service!Exchangeable,
         Authority!OfClient, Service!OfClient,
         Authority!IsExpired, Service!IsExpired

LEMMA ServiceExchanging == \A w : Authority!Exchanging(w) <=> Service!Exchanging(w)
  BY DEF Authority!Exchanging, Service!Exchanging

LEMMA ServiceInvariant == Authority!IInv <=> Service!IInv
<1>1. Authority!KnownStored <=> Service!KnownStored
  BY ServiceStored, ServiceRevoked, Zenon DEF Authority!KnownStored, Service!KnownStored
<1>2. Authority!LocalsSound <=> Service!LocalsSound
  BY DEF Authority!LocalsSound, Service!LocalsSound,
         Authority!ClientIds, Service!ClientIds
<1>3. Authority!ExchangeSound <=> Service!ExchangeSound
  BY ServiceStored, ServiceRevoked, ServiceExchanging, Zenon
     DEF Authority!ExchangeSound, Service!ExchangeSound,
         Authority!OfClient, Service!OfClient
<1>4. Authority!HandsSound <=> Service!HandsSound
  BY ServiceStored, ServiceRevoked, Zenon DEF Authority!HandsSound, Service!HandsSound
<1>5. Authority!SlotsSound <=> Service!SlotsSound
  BY ServiceStored, ServiceRevoked, ServiceExchanging, Zenon DEF Authority!SlotsSound, Service!SlotsSound
<1>6. Authority!LineageSound <=> Service!LineageSound
  BY ServiceStored, ServiceRevoked, Zenon DEF Authority!LineageSound, Service!LineageSound
<1>7. Authority!SecretUntilAnswered <=> Service!SecretUntilAnswered
  BY ServiceStored, ServiceRevoked, Zenon DEF Authority!SecretUntilAnswered, Service!SecretUntilAnswered
<1>8. Authority!AnswersHold <=> Service!AnswersHold
  BY ServiceStored, ServiceRevoked, Zenon DEF Authority!AnswersHold, Service!AnswersHold
<1> QED
  BY <1>1, <1>2, <1>3, <1>4, <1>5, <1>6, <1>7, <1>8, ServiceTypes
     DEF Authority!IInv, Service!IInv, Authority!AwaitsSound, Service!AwaitsSound

LEMMA ServiceInit == Authority!Init => Service!Init
  BY DEF Authority!Init, Service!Init, Authority!AbsentRow, Service!AbsentRow,
         Authority!Idle, Service!Idle, Authority!NoOrigin, Service!NoOrigin

LEMMA ServiceTokenLeft == Authority!TokenLeft <=> Service!TokenLeft
<1>1. ASSUME NEW S PROVE Authority!Cardinality(S) = Service!Cardinality(S)
  BY DEF Authority!Cardinality, Service!Cardinality
<1>2. Authority!Drawing = Service!Drawing
  BY DEF Authority!Drawing, Service!Drawing
<1>3. {t \in Tokens : Authority!Stored(t)} = {t \in Tokens : Service!Stored(t)}
  BY ServiceStored, Zenon
<1> QED
  BY <1>1, <1>2, <1>3, Zenon DEF Authority!TokenLeft, Service!TokenLeft

LEMMA ServiceNext == Authority!Next => Service!Next
<1> USE DEF Authority!Idle, Service!Idle
<1>1. ASSUME NEW w \in Workers PROVE Authority!Arrive(w) => Service!Arrive(w)
  <2>1. ASSUME NEW f, NEW o, NEW c, NEW t
        PROVE  Authority!Accept(w, f, o, c, t) => Service!Accept(w, f, o, c, t)
    BY DEF Authority!Accept, Service!Accept
  <2> QED
    BY <2>1, ServiceTokenLeft, Zenon
       DEF Authority!Arrive, Service!Arrive, Authority!AcceptIssue, Service!AcceptIssue,
           Authority!AcceptRefresh, Service!AcceptRefresh,
           Authority!AcceptRevoke, Service!AcceptRevoke,
           Authority!ClientIds, Service!ClientIds
<1>2. ASSUME NEW w \in Workers PROVE Authority!Serve(w) => Service!Serve(w)
    BY ServiceStored, ServiceRevoked, ServiceExchangeable, Zenon
       DEF Authority!Serve, Service!Serve, Authority!Refuse, Service!Refuse,
           Authority!RevokedRow, Service!RevokedRow,
           Authority!AbsentRow, Service!AbsentRow,
           Authority!Authenticated, Service!Authenticated,
           Authority!BadCredentials, Service!BadCredentials,
           Authority!Lookup, Service!Lookup, Authority!LookupRefused, Service!LookupRefused,
           Authority!SaveOld, Service!SaveOld, Authority!ReadApp, Service!ReadApp,
           Authority!AppMissing, Service!AppMissing,
           Authority!Insert, Service!Insert, Authority!Find, Service!Find,
           Authority!FindNothing, Service!FindNothing,
           Authority!SaveRevoked, Service!SaveRevoked, Authority!Reply, Service!Reply
<1>3. ASSUME NEW ws PROVE Authority!Strand(ws) => Service!Strand(ws)
  BY DEF Authority!Strand, Service!Strand, Authority!MidExchange, Service!MidExchange
<1>4. ASSUME NEW w \in Workers PROVE Authority!Fail(w) => Service!Fail(w)
  BY <1>3
     DEF Authority!Fail, Service!Fail, Authority!DatabaseError, Service!DatabaseError,
         Authority!LoseReply, Service!LoseReply, Authority!Refuse, Service!Refuse
<1>5. Authority!Crash => Service!Crash
  BY <1>3 DEF Authority!Crash, Service!Crash
<1>6. Authority!Tick => Service!Tick
  BY DEF Authority!Tick, Service!Tick
<1> QED
  BY <1>1, <1>2, <1>4, <1>5, <1>6, Zenon DEF Authority!Next, Service!Next

-----------------------------------------------------------------------------
(* What the proofs below need of the types. *)
LEMMA Typed ==
  ASSUME IInv
  PROVE  /\ answered \in Seq(Tokens) /\ Len(answered) \in Nat
         /\ call \in [Requests -> Workers \cup {None, Broken}]
         /\ work \in [Workers -> Authority!Request]
         /\ known \subseteq Tokens /\ now \in Nat
         /\ \A r \in Requests : /\ req[r] \in Executer!Request
                                /\ req[r].copy.token.id \in Nat
                                /\ req[r].sentAt \in Nat
  BY LenProperties
     DEF IInv, LinksSound, TypeOK, Authority!IInv, Authority!TypeOK, Executer!TypeOK,
         Executer!Request, Executer!Session, Executer!JwtToken

(* _authLock admits one request to the authority. *)
LEMMA OneRenewal ==
  ASSUME IInv, NEW r \in Requests, NEW v \in Requests, Renewing(r), Renewing(v)
  PROVE  r = v
<1> DEFINE H == Executer!Holding(Executer!HoldsAuth)
<1>1. ASSUME NEW S PROVE Executer!Cardinality(S) = Cardinality(S)
  BY DEF Executer!Cardinality, Cardinality
<1>2. IsFiniteSet(H)
  BY FrontAssumption, FS_Subset DEF Executer!Holding
<1>3. r \in H /\ v \in H
  BY DEF Renewing, Executer!Holding, Executer!HoldsAuth
<1>4. authFree \in Nat /\ authFree + Cardinality(H) = 1
  BY <1>1, Zenon DEF IInv, Executer!TypeOK, Executer!PermitsConserved
<1>5. Cardinality(H) \in Nat /\ (Cardinality(H) = 0 \/ Cardinality(H) = 1)
  <2>1. Cardinality(H) \in Nat
    BY <1>2, FS_CardinalityType
  <2> QED
    BY <1>4, <2>1
<1> QED
  BY <1>2, <1>3, <1>5, FS_EmptySet, FS_Singleton

(* So at most one call is under way. *)
LEMMA OneCall ==
  ASSUME IInv, NEW r \in Requests, Renewing(r)
  PROVE  \A v \in Requests : v # r => call[v] = None
  BY OneRenewal DEF IInv, LinksSound

(* The locals after WithCopy, and what else a failed renewal leaves alone. *)
LEMMA WithCopyFacts ==
  ASSUME IInv, NEW r \in Requests, NEW token \in Executer!JwtToken, NEW retries \in Nat
  PROVE  /\ Executer!WithCopy(r, token, retries) \in Executer!Request
         /\ Executer!WithCopy(r, token, retries).copy.token = token
         /\ Executer!WithCopy(r, token, retries).sentAt = now
         /\ Executer!WithCopy(r, token, retries).loaded = req[r].loaded
<1>1. [token |-> token, retries |-> retries] \in Executer!Session
  BY DEF Executer!Session
<1> DEFINE S == Executer!Session
<1> HIDE DEF S
<1>2. req[r] \in Executer!Request /\ now \in Nat
  BY Typed
<1>3. \A c \in S, m \in Nat :
        [req[r] EXCEPT !.copy = c, !.modified = TRUE, !.sentAt = m] \in Executer!Request
  BY <1>2 DEF Executer!Request, S
<1>4. Executer!WithCopy(r, token, retries) \in Executer!Request
  BY <1>1, <1>2, <1>3, Zenon DEF S, Executer!WithCopy
<1>5. /\ Executer!WithCopy(r, token, retries).copy.token = token
      /\ Executer!WithCopy(r, token, retries).sentAt = now
      /\ Executer!WithCopy(r, token, retries).loaded = req[r].loaded
  BY <1>2 DEF Executer!WithCopy, Executer!Request
<1> QED
  BY <1>4, <1>5

LEMMA FailedMoves ==
  ASSUME IInv, NEW r \in Requests, Refused(r) \/ NoAnswer(r)
  PROVE  /\ \A v \in Requests : v # r => req'[v] = req[v] /\ pc'[v] = pc[v]
         /\ req'[r].copy = req[r].copy /\ pc'[r] # "refreshing"
         /\ req'[r].sentAt \in {now, req[r].sentAt}
<1>1. /\ req \in [Requests -> Executer!Request] /\ pc \in [Requests -> Executer!Steps]
      /\ req[r] \in Executer!Request
  BY DEF IInv, Executer!TypeOK
<1>2. CASE Executer!RefreshFailed(r)
  BY <1>1, <1>2 DEF Executer!RefreshFailed, Executer!Request
<1>3. CASE Executer!AuthenticationRefused(r)
  BY <1>1, <1>3 DEF Executer!AuthenticationRefused, Executer!WebApiException,
                    Executer!EndWith, Executer!Request
<1>4. CASE Executer!AuthenticationFailed(r)
  BY <1>1, <1>4 DEF Executer!AuthenticationFailed, Executer!EndWith, Executer!Request
<1> QED
  BY <1>2, <1>3, <1>4, Zenon DEF Refused, NoAnswer

(* A token that is written into the table was not answered before. *)
LEMMA UnexchangedKept ==
  ASSUME IInv, answered' = answered,
         \A t \in known : Authority!Stored(t) => origin'[t] = origin[t]
  PROVE  Unexchanged' = Unexchanged /\ Len(answered)' = Len(answered)
<1>1. \A i \in 1 .. Len(answered) : origin'[answered[i]] = origin[answered[i]]
  BY DEF IInv, LinksSound, TokensSound, Authority!IInv, Authority!AwaitsSound,
         Authority!KnownStored
<1> QED
  BY <1>1 DEF Unexchanged

LEMMA ServeFacts ==
  ASSUME IInv, NEW w \in Workers, Serve(w) \/ ServeFails(w) \/ Unheard(w)
  PROVE  /\ UNCHANGED <<executerVars, linkVars, now, known>>
         /\ \A v \in Workers : v # w => work'[v] = work[v]
         /\ \A t \in known : Authority!Stored(t) => origin'[t] = origin[t]
         /\ [Authority!Next]_(Authority!vars)
<1>1. UNCHANGED <<executerVars, linkVars>>
  BY DEF Serve, ServeFails, Unheard
<1>2. /\ UNCHANGED <<now, known>>
      /\ \A v \in Workers : v # w => work'[v] = work[v]
  BY Typed
     DEF Serve, ServeFails, Unheard, Authority!Authenticated, Authority!Lookup,
         Authority!LookupRefused, Authority!SaveOld, Authority!ReadApp,
         Authority!Insert, Authority!DatabaseError, Authority!LoseReply, Authority!Refuse
<1>3. \A t \in known : Authority!Stored(t) => origin'[t] = origin[t]
  BY Typed
     DEF Serve, ServeFails, Unheard, Authority!Authenticated, Authority!Lookup,
         Authority!LookupRefused, Authority!SaveOld, Authority!ReadApp, Authority!Stored,
         Authority!Insert, Authority!DatabaseError, Authority!LoseReply,
         IInv, Authority!IInv, Authority!TypeOK
<1>4. Authority!Next
  BY Zenon DEF Serve, ServeFails, Unheard, Authority!Next, Authority!Serve, Authority!Fail
<1> QED
  BY <1>1, <1>2, <1>3, <1>4

(* The authority takes a step of RefreshTokens, or none. *)
LEMMA ServiceStep == IInv /\ [Next]_vars => [Authority!Next]_(Authority!vars)
<1> SUFFICES ASSUME IInv, [Next]_vars PROVE [Authority!Next]_(Authority!vars)
  OBVIOUS
<1>1. ASSUME NEW r \in Requests, NEW w \in Workers, SendRefresh(r, w)
      PROVE  Authority!Next
  <2>1. Presented(r) \in known
    BY <1>1, Typed DEF SendRefresh, Presented, IInv, LinksSound, TokensSound
  <2>2. Authority!Arrive(w)
    BY <1>1, <2>1, Zenon DEF SendRefresh, Authority!Arrive, Authority!ClientIds
  <2> QED
    BY <2>2, Zenon DEF Authority!Next
<1>2. ASSUME NEW r \in Requests, NEW w \in Workers, SendCredentials(r, w)
      PROVE  Authority!Next
  BY <1>2, Zenon DEF SendCredentials, Authority!Arrive, Authority!ClientIds, Authority!Next
<1>3. ASSUME NEW r \in Requests, Granted(r) \/ Refused(r)
      PROVE  Authority!Next
  BY <1>3, Zenon DEF Granted, Refused, Authority!Serve, Authority!Next
<1>4. ASSUME NEW r \in Requests, NoAnswer(r) \/ Alone(r) \/ GiveUp(r) \/ Commit(r)
      PROVE  UNCHANGED Authority!vars
  BY <1>4 DEF NoAnswer, Alone, GiveUp, Commit, authorityVars, Authority!vars,
              Executer!RefreshFailed, Executer!AuthenticationFailed,
              Executer!AcquireApi, Executer!Prepare, Executer!AcquireAuth,
              Executer!StartRenewal, Executer!CallEnds, Executer!GiveUp, Executer!Commit
<1>5. ASSUME NEW r \in Requests, NEW s \in Sessions, NEW d \in BOOLEAN, Begin(r, s, d)
      PROVE  UNCHANGED Authority!vars
  BY <1>5 DEF Begin, Executer!Begin, authorityVars, Authority!vars
<1>6. ASSUME NEW s \in Sessions, ExpireSession(s) PROVE UNCHANGED Authority!vars
  BY <1>6 DEF ExpireSession, Executer!ExpireSession, authorityVars, Authority!vars
<1>7. FrontEndRestarts => UNCHANGED Authority!vars
  BY DEF FrontEndRestarts, Executer!Restart, authorityVars, Authority!vars
<1>8. AuthorityRestarts => Authority!Next
  BY Zenon DEF AuthorityRestarts, Authority!Next
<1>9. Tick => Authority!Next
  <2>1. Tick => Authority!Tick
    BY DEF Tick, Executer!Tick, Authority!Tick, authorityVars
  <2> QED
    BY <2>1, Zenon DEF Authority!Next
<1>10. UNCHANGED vars => UNCHANGED Authority!vars
  BY DEF vars, authorityVars, Authority!vars
<1> QED
  BY <1>1, <1>2, <1>3, <1>4, <1>5, <1>6, <1>7, <1>8, <1>9, <1>10, ServeFacts, Zenon
     DEF Next

LEMMA NextService == IInv /\ [Next]_vars => Authority!IInv'
<1> SUFFICES ASSUME IInv, [Next]_vars PROVE Authority!IInv'
  OBVIOUS
<1>1. [Service!Next]_(Service!vars)
  <2>1. UNCHANGED Authority!vars => UNCHANGED Service!vars
    BY DEF Authority!vars, Service!vars
  <2> QED
    BY <2>1, ServiceStep, ServiceNext
<1>2. Service!IInv
  BY ServiceInvariant DEF IInv
<1>3. Service!IInv'
  BY <1>1, <1>2, ServiceAssumptions, Service!NextIInv
<1> QED
  BY <1>3, ServiceInvariant, PTL

-----------------------------------------------------------------------------
(* A good answer is for what its request asked, and brings a new token. *)
LEMMA GrantedFacts ==
  ASSUME IInv, NEW r \in Requests, Granted(r)
  PROVE  /\ call[r] \in Workers /\ Renewing(r)
         /\ work[call[r]].issued \in Tokens \ known
         /\ known' = known \cup {work[call[r]].issued}
         /\ origin' = origin
         /\ origin[work[call[r]].issued].parent = work[call[r]].token
         /\ IssuedAt(call[r]) \in req[r].sentAt .. now
         /\ pc[r] = "refreshing" =>
              /\ work[call[r]].token = Presented(r)
              /\ req[r].copy.token.id \in Unexchanged
              /\ Exchanged(call[r]) = {req[r].copy.token.id}
         /\ pc[r] = "authenticating" =>
              work[call[r]].token = None /\ Exchanged(call[r]) = {}
<1> DEFINE w == call[r]
<1>1. /\ w \in Workers /\ Renewing(r) /\ work[w].status = 200 /\ work[w].pc = "reply"
      /\ known' = known \cup ({work[w].issued} \ {None}) /\ origin' = origin
  BY DEF Granted, Authority!Reply
<1>2. CallSound(r, w) /\ Succeeding(w)
  BY <1>1 DEF IInv, LinksSound, Succeeding
<1>3. work[w].op \in {"issue", "refresh"} /\ work[w] \in Authority!Request
  BY <1>1, <1>2, Typed DEF CallSound
<1>4. /\ work[w].issued # None
      /\ work[w].issued \notin known
      /\ origin[work[w].issued].parent = work[w].token
  BY <1>1, <1>3 DEF IInv, Authority!IInv, Authority!AwaitsSound, Authority!HandsSound
<1>5. work[w].issued \in Tokens \ known /\ known' = known \cup {work[w].issued}
  BY <1>1, <1>3, <1>4 DEF Authority!Request
<1>6. IssuedAt(w) \in req[r].sentAt .. now
  BY <1>2, Zenon DEF CallSound, Dated
<1>7. \A i \in 1 .. Len(answered) :
        /\ answered[i] \in known
        /\ \A j \in 1 .. Len(answered) : answered[i] = answered[j] => i = j
  BY DEF IInv, LinksSound, TokensSound
<1>8. ASSUME pc[r] = "refreshing"
      PROVE  /\ work[w].token = Presented(r)
             /\ req[r].copy.token.id \in Unexchanged
             /\ Exchanged(w) = {req[r].copy.token.id}
  <2>1. work[w].token = Presented(r) /\ req[r].copy.token.id \in Unexchanged
    BY <1>2, <1>8, Zenon DEF CallSound
  <2>2. req[r].copy.token.id \in 1 .. Len(answered)
    BY <2>1 DEF Unexchanged
  <2> QED
    BY <1>7, <2>1, <2>2 DEF Exchanged, Presented
<1>9. ASSUME pc[r] = "authenticating"
      PROVE  work[w].token = None /\ Exchanged(w) = {}
  <2>1. work[w].op = "issue"
    BY <1>2, <1>9 DEF CallSound
  <2>2. work[w].token = None
    BY <1>1, <2>1 DEF IInv, Authority!IInv, Authority!AwaitsSound, Authority!LocalsSound
  <2> QED
    BY <1>7, <2>2, Typed, ServiceAssumption DEF Exchanged
<1> QED
  BY <1>1, <1>4, <1>5, <1>6, <1>8, <1>9

(* An answer is never kept from the front end by what Renewed says of live: *)
(* it is what the answer does to the tokens that are not exchanged.        *)
LEMMA GrantedUnhindered ==
  ASSUME IInv, NEW w \in Workers, work[w].pc = "reply", work[w].status = 200,
         work[w].op \in {"issue", "refresh"},
         answered' = Append(answered, work[w].issued), origin' = origin
  PROVE  Unexchanged' = (Unexchanged \ Exchanged(w)) \cup {Len(answered) + 1}
<1> DEFINE t == work[w].issued
           n == Len(answered)
<1>1. /\ t # None /\ t \notin known /\ Authority!Stored(t)
      /\ origin[t].parent = work[w].token
  BY DEF IInv, Authority!IInv, Authority!AwaitsSound, Authority!HandsSound
<1>2. t \in Tokens
  BY <1>1 DEF Authority!Stored
<1>3. /\ Len(answered') = n + 1 /\ n \in Nat /\ answered'[n + 1] = t
      /\ \A i \in 1 .. n : answered'[i] = answered[i]
  BY <1>2, Typed, AppendProperties
<1>4. \A i \in 1 .. n + 1 : i \in 1 .. n \/ i = n + 1
  BY <1>3
<1>5. ASSUME NEW j \in 1 .. n + 1 PROVE origin[answered'[j]].parent # t
  <2>1. Authority!Stored(answered'[j]) /\ answered'[j] \in Tokens
    BY <1>1, <1>2, <1>3, <1>4, Typed
       DEF IInv, LinksSound, TokensSound, Authority!IInv, Authority!AwaitsSound,
           Authority!KnownStored
  <2>2. origin[answered'[j]].parent = t => t \in known
    BY <1>1, <2>1 DEF IInv, Authority!IInv, Authority!AwaitsSound, Authority!SlotsSound
  <2> QED
    BY <1>1, <2>2
<1>6. \A i \in 1 .. n : i \in Unexchanged' <=> i \in Unexchanged /\ i \notin Exchanged(w)
  BY <1>1, <1>3, <1>4 DEF Unexchanged, Exchanged
<1>7. n + 1 \in Unexchanged'
  BY <1>3, <1>5 DEF Unexchanged
<1>8. Unexchanged' \subseteq 1 .. n + 1 /\ Unexchanged \subseteq 1 .. n
  BY <1>3 DEF Unexchanged
<1>9. n + 1 \notin Exchanged(w) /\ n + 1 \notin 1 .. n
  BY <1>3 DEF Exchanged
<1> DEFINE U == Unexchanged
           E == Exchanged(w)
<1>10. ASSUME NEW V, V \subseteq 1 .. n + 1, n + 1 \in V,
              \A i \in 1 .. n : i \in V <=> i \in U /\ i \notin E
       PROVE  V = (U \ E) \cup {n + 1}
  <2>1. n + 1 \in 1 .. n + 1 /\ \A i \in 1 .. n : i \in 1 .. n + 1
    BY <1>3
  <2>2. ASSUME NEW i PROVE i \in V <=> ((i \in U /\ i \notin E) \/ i = n + 1)
    <3>1. CASE i \in 1 .. n
      BY <1>9, <1>10, <3>1
    <3>2. CASE i = n + 1
      BY <1>10, <3>2, Zenon
    <3>3. CASE i \notin 1 .. n + 1
      <4>1. i \notin V
        BY <1>10, <3>3, Zenon
      <4>2. i \notin U
        <5>1. Unexchanged \subseteq 1 .. n
          BY <1>8
        <5> QED
          BY <2>1, <3>3, <5>1, Zenon
      <4>3. i # n + 1
        BY <1>3, <3>3
      <4> QED
        BY <4>1, <4>2, <4>3, Zenon
    <3> QED
      BY <1>4, <3>1, <3>2, <3>3, Zenon
  <2> QED
    BY <2>2
<1> QED
  BY <1>6, <1>7, <1>8, <1>10

(* The front end takes a step of WebApiExecuter, or none. *)
LEMMA FrontStep == IInv /\ [Next]_vars => [Executer!Next]_(Executer!vars)
<1> SUFFICES ASSUME IInv, [Next]_vars PROVE [Executer!Next]_(Executer!vars)
  OBVIOUS
<1>1. ASSUME UNCHANGED <<executerVars, answered, now>>, UNCHANGED Unexchanged
      PROVE  UNCHANGED Executer!vars
  BY <1>1 DEF executerVars, Executer!vars
<1>2. ASSUME UNCHANGED <<answered, origin>> PROVE UNCHANGED Unexchanged
  BY <1>2, UnexchangedKept
<1>3. ASSUME NEW r \in Requests, NEW w \in Workers, SendRefresh(r, w) \/ SendCredentials(r, w)
      PROVE  UNCHANGED Executer!vars
  <2>1. UNCHANGED <<executerVars, answered, origin, now>>
    BY <1>3 DEF SendRefresh, SendCredentials, Authority!AcceptRefresh,
                Authority!AcceptIssue, Authority!Accept
  <2> QED
    BY <1>1, <1>2, <2>1
<1>4. ASSUME NEW r \in Requests, Granted(r) PROVE Executer!Next
  <2>1. /\ IssuedAt(call[r]) \in req[r].sentAt .. now
        /\ Executer!Renewed(r, IssuedAt(call[r]), Exchanged(call[r]))
    BY <1>4, GrantedFacts DEF Granted
  <2>2. CASE pc[r] = "refreshing"
    <3>1. Executer!Refreshed(r)
      BY <1>4, <2>1, <2>2, GrantedFacts, Zenon DEF Executer!Refreshed
    <3> QED
      BY <3>1, Zenon DEF Executer!Next, Executer!Proceed
  <2>3. CASE pc[r] = "authenticating"
    <3>1. Executer!Authenticated(r)
      BY <1>4, <2>1, <2>3, GrantedFacts, Zenon DEF Executer!Authenticated
    <3> QED
      BY <3>1, Zenon DEF Executer!Next, Executer!Proceed
  <2> QED
    BY <2>2, <2>3, <1>4 DEF Granted, Renewing
<1>5. ASSUME NEW r \in Requests, Refused(r) \/ NoAnswer(r) PROVE Executer!Next
  BY <1>5, Zenon DEF Refused, NoAnswer, Executer!Next, Executer!Proceed
<1>6. ASSUME NEW r \in Requests, Alone(r) \/ GiveUp(r) \/ Commit(r) PROVE Executer!Next
  BY <1>6, Zenon DEF Alone, GiveUp, Commit, Executer!Next, Executer!Acquire, Executer!Proceed
<1>7. ASSUME NEW w \in Workers, Serve(w) \/ ServeFails(w) \/ Unheard(w)
      PROVE  UNCHANGED Executer!vars
  <2>1. UNCHANGED <<executerVars, answered, now>> /\ UNCHANGED Unexchanged
    BY <1>7, ServeFacts, UnexchangedKept DEF linkVars
  <2> QED
    BY <1>1, <2>1
<1>8. ASSUME NEW r \in Requests, NEW s \in Sessions, NEW d \in BOOLEAN, Begin(r, s, d)
      PROVE  Executer!Next
  BY <1>8, Zenon DEF Begin, Executer!Next, Executer!Arrive
<1>9. ASSUME NEW s \in Sessions, ExpireSession(s) PROVE Executer!Next
  BY <1>9, Zenon DEF ExpireSession, Executer!Next
<1>10. ASSUME AuthorityRestarts PROVE UNCHANGED Executer!vars
  <2>1. UNCHANGED <<executerVars, answered, origin, now>>
    BY <1>10 DEF AuthorityRestarts, Authority!Crash
  <2> QED
    BY <1>1, <1>2, <2>1
<1>11. FrontEndRestarts \/ Tick => Executer!Next
  BY Zenon DEF FrontEndRestarts, Tick, Executer!Next
<1>12. ASSUME UNCHANGED vars PROVE UNCHANGED Executer!vars
  BY <1>1, <1>2, <1>12 DEF vars, linkVars, authorityVars
<1> QED
  BY <1>3, <1>4, <1>5, <1>6, <1>7, <1>8, <1>9, <1>10, <1>11, <1>12, Zenon DEF Next

LEMMA NextFront ==
  IInv /\ [Next]_vars => Executer!TypeOK' /\ Executer!PermitsConserved'
<1> SUFFICES ASSUME IInv, [Next]_vars
             PROVE  Executer!TypeOK' /\ Executer!PermitsConserved'
  OBVIOUS
<1>1. [Front!Next]_(Front!vars)
  <2>1. UNCHANGED Executer!vars => UNCHANGED Front!vars
    BY DEF Executer!vars, Front!vars
  <2> QED
    BY <2>1, FrontStep, FrontNext
<1>2. Front!Permits
  BY FrontTypes, FrontPermits DEF IInv, Front!Permits
<1>3. Front!Permits'
  BY <1>1, <1>2, FrontAssumptions, Front!NextPermits
<1>4. Front!TypeOK' /\ Front!PermitsConserved'
  BY <1>3 DEF Front!Permits
<1> QED
  BY <1>4, FrontTypes, FrontPermits, PTL

-----------------------------------------------------------------------------
(* Served answers only: nobody is given anything. *)
LEMMA AnsweredKept ==
  ASSUME IInv, answered' = answered,
         \A t \in known : Authority!Stored(t) => origin'[t] = origin[t]
  PROVE  AnsweredOnce'
<1>1. \A i \in 1 .. Len(answered) : origin'[answered[i]] = origin[answered[i]]
  BY DEF IInv, LinksSound, TokensSound, Authority!IInv, Authority!AwaitsSound,
         Authority!KnownStored
<1> QED
  BY <1>1 DEF AnsweredOnce, IInv

(* A step of request r that is not a call of the authority. *)
LEMMA LinksKept ==
  ASSUME IInv, NEW r \in Requests, call[r] = None,
         UNCHANGED <<table, work, known, origin, answered, call, now>>,
         unrenewed' \subseteq Requests,
         \A v \in Requests : v # r => pc'[v] = pc[v] /\ req'[v] = req[v],
         req'[r].copy.token.id <= Len(answered),
         pc'[r] = "refreshing" => req'[r].copy.token.id # 0,
         req'[r].sentAt <= now,
         \A s \in Sessions : store'[s].token.id <= Len(answered)
  PROVE  LinksSound' /\ AnsweredOnce'
<1>1. Unexchanged' = Unexchanged
  BY UnexchangedKept
<1>2. TypeOK' /\ TokensSound'
  BY DEF IInv, LinksSound, TypeOK, TokensSound
<1>3. ASSUME NEW v \in Requests, call'[v] # None
      PROVE  Renewing(v)' /\ (call'[v] \in Workers => CallSound(v, call[v])')
  <2>1. /\ v # r /\ Renewing(v)
        /\ call[v] \in Workers => CallSound(v, call[v])
    BY <1>3 DEF IInv, LinksSound
  <2>2. pc'[v] = pc[v] /\ req'[v] = req[v]
    BY <2>1
  <2>3. call[v] \in Workers => CallSound(v, call[v])'
    BY <1>1, <2>1, <2>2
       DEF CallSound, Dated, Succeeding, IssuedAt, Presented, Authority!Exchanging
  <2> QED
    BY <2>1, <2>2, <2>3 DEF Renewing
<1>4. ASSUME NEW v \in Requests
      PROVE  /\ (call[v] # None => Renewing(v))'
             /\ (call[v] \in Workers => CallSound(v, call[v]))'
  BY <1>3, ServiceAssumption
<1>5. LinksSound'
  BY <1>2, <1>4, Zenon DEF LinksSound
<1> QED
  BY <1>5, AnsweredKept

LEMMA RefuseFacts ==
  ASSUME IInv, NEW w \in Workers, NEW code \in {401, 500}, Authority!Refuse(w, code)
  PROVE  work'[w].pc = "reply" /\ work'[w].status = code /\ work'[w].op = work[w].op
  BY Typed DEF Authority!Refuse, Authority!Idle, Authority!Request

(* The slots serve on: what is true of a call stays true. *)
LEMMA CallServed ==
  ASSUME IInv, NEW w \in Workers, Serve(w) \/ ServeFails(w),
         NEW r \in Requests, call[r] = w
  PROVE  CallSound(r, w)'
<1> DEFINE id == req[r].copy.token.id
<1>1. /\ pc' = pc /\ req' = req /\ answered' = answered /\ now' = now
      /\ Unexchanged' = Unexchanged
  BY ServeFacts, UnexchangedKept DEF executerVars, linkVars
<1>2. CallSound(r, w) /\ Renewing(r)
  BY ServiceAssumption DEF IInv, LinksSound
<1>3. /\ work[w] \in Authority!Request /\ now \in Nat /\ RefreshTtl \in Nat
      /\ req[r].sentAt \in Nat /\ req[r].sentAt <= now /\ work[w].expiresAt \in Nat
  BY Typed, ServiceAssumption DEF IInv, LinksSound, TokensSound, Authority!Request
<1>4. work'[w].op = work[w].op
  <2>1. CASE Authority!Authenticated(w)
    BY <2>1, Typed DEF Authority!Request, Authority!Authenticated
  <2>2. CASE Authority!Lookup(w)
    BY <2>2, Typed DEF Authority!Request, Authority!Lookup
  <2>5. CASE Authority!SaveOld(w)
    BY <2>5, Typed DEF Authority!Request, Authority!SaveOld
  <2>6. CASE Authority!ReadApp(w)
    BY <2>6, Typed DEF Authority!Request, Authority!ReadApp
  <2>7. ASSUME NEW t \in Tokens, Authority!Insert(w, t) PROVE work'[w].op = work[w].op
    BY <2>7, Typed DEF Authority!Request, Authority!Insert
  <2>3. CASE Authority!LookupRefused(w)
    BY <2>3, RefuseFacts DEF Authority!LookupRefused
  <2>4. CASE Authority!DatabaseError(w)
    BY <2>4, RefuseFacts DEF Authority!DatabaseError
  <2> QED
    BY <2>1, <2>2, <2>3, <2>4, <2>5, <2>6, <2>7, Zenon DEF Serve, ServeFails
<1>5. /\ work[w].pc \in {"lookup", "saveOld"} => work[w].op = "refresh"
      /\ work[w].pc = "authenticate" => work[w].op = "issue"
  BY DEF IInv, Authority!IInv, Authority!AwaitsSound, Authority!LocalsSound
<1> SUFFICES
      /\ pc[r] = "refreshing" =>
           /\ (work[w].pc = "lookup" \/ Authority!Exchanging(w) \/ Succeeding(w))'
                => work'[w].token = Presented(r)
           /\ (Authority!Exchanging(w) \/ Succeeding(w))' => id \in Unexchanged
      /\ Dated(w)' => work'[w].expiresAt - RefreshTtl \in req[r].sentAt .. now
  BY <1>1, <1>2, <1>4 DEF CallSound, IssuedAt, Presented
<1> USE DEF Dated, Succeeding, Authority!Exchanging
<1>6. CASE Authority!Authenticated(w)
  <2>1. /\ work'[w].pc = "readApp" /\ work'[w].expiresAt = now + RefreshTtl
        /\ work[w].op = "issue"
    BY <1>5, <1>6, Typed DEF Authority!Authenticated, Authority!Request
  <2>2. pc[r] # "refreshing"
    BY <1>2, <2>1 DEF CallSound
  <2> QED
    BY <1>3, <2>1, <2>2
<1>7. CASE Authority!Lookup(w)
  <2>1. /\ work[w].pc = "lookup" /\ work'[w].pc = "saveOld"
        /\ work'[w].token = work[w].token
        /\ work[w].op = "refresh"
        /\ Authority!Exchangeable(work[w].token, work[w].client)
    BY <1>5, <1>7, Typed DEF Authority!Lookup, Authority!Request
  <2>2. pc[r] = "refreshing" /\ work[w].token = Presented(r)
    BY <1>2, <2>1 DEF CallSound
  <2>3. id \in 1 .. Len(answered)
    BY <2>2, Typed DEF IInv, LinksSound, TokensSound
  <2>4. ASSUME NEW j \in 1 .. Len(answered), origin[answered[j]].parent = answered[id]
        PROVE  FALSE
    <3>1. Authority!Stored(answered[j]) /\ answered[j] \in Tokens /\ answered[id] # None
      BY <2>3, Typed, ServiceAssumption
         DEF IInv, LinksSound, TokensSound, Authority!IInv, Authority!AwaitsSound,
             Authority!KnownStored
    <3>2. Authority!IsRevoked(answered[id])
      BY <2>4, <3>1 DEF IInv, Authority!IInv, Authority!LineageSound
    <3> QED
      BY <2>1, <2>2, <3>2 DEF Authority!Exchangeable, Presented
  <2>5. id \in Unexchanged
    BY <2>3, <2>4 DEF Unexchanged
  <2> QED
    BY <2>1, <2>2, <2>5
<1>8. CASE \/ Authority!LookupRefused(w) \/ Authority!DatabaseError(w)
  <2>1. work'[w].pc = "reply" /\ work'[w].status # 200
    BY <1>8, RefuseFacts DEF Authority!LookupRefused, Authority!DatabaseError
  <2> QED
    BY <2>1
<1>9. CASE Authority!SaveOld(w)
  <2>1. /\ work[w].pc = "saveOld" /\ work'[w].pc = "readApp"
        /\ work'[w].token = work[w].token /\ work[w].op = "refresh"
    BY <1>5, <1>9, Typed DEF Authority!SaveOld, Authority!Request
  <2> QED
    BY <1>2, <1>4, <2>1 DEF CallSound
<1>10. CASE Authority!ReadApp(w)
  <2>1. /\ work[w].pc = "readApp" /\ work'[w].pc = "insert"
        /\ work'[w].token = work[w].token
        /\ work'[w].expiresAt = IF work[w].op = "refresh" THEN now + RefreshTtl
                                ELSE work[w].expiresAt
    BY <1>10, Typed DEF Authority!ReadApp, Authority!Request
  <2>2. work[w].op = "refresh" \/ work[w].op = "issue"
    BY <1>2 DEF CallSound
  <2>3. work[w].op = "issue" => work[w].expiresAt - RefreshTtl \in req[r].sentAt .. now
    BY <1>2, <2>1 DEF CallSound, IssuedAt
  <2>4. work'[w].expiresAt - RefreshTtl \in req[r].sentAt .. now
    BY <1>3, <2>1, <2>2, <2>3
  <2>5. pc[r] = "refreshing" => work[w].op = "refresh"
    BY <1>2 DEF CallSound
  <2> QED
    BY <1>2, <1>4, <2>1, <2>4, <2>5 DEF CallSound
<1>11. ASSUME NEW t \in Tokens, Authority!Insert(w, t)
       PROVE  /\ pc[r] = "refreshing" =>
                   work'[w].token = Presented(r) /\ id \in Unexchanged
              /\ work'[w].expiresAt - RefreshTtl \in req[r].sentAt .. now
  <2>1. /\ work[w].pc = "insert" /\ work'[w].token = work[w].token
        /\ work'[w].expiresAt = work[w].expiresAt
    BY <1>11, Typed DEF Authority!Insert, Authority!Request
  <2>2. pc[r] = "refreshing" => work[w].op = "refresh"
    BY <1>2 DEF CallSound
  <2> QED
    BY <1>2, <2>1, <2>2 DEF CallSound, IssuedAt
<1> QED
  BY <1>6, <1>7, <1>8, <1>9, <1>10, <1>11, Zenon DEF Serve, ServeFails

-----------------------------------------------------------------------------
(* Nothing else is under way when no call is: what is left of LinksSound. *)
LEMMA NoCalls ==
  ASSUME TypeOK', TokensSound', \A v \in Requests : call'[v] \in {None, Broken},
         \A v \in Requests : call'[v] = Broken => Renewing(v)'
  PROVE  LinksSound'
<1>1. ASSUME NEW v \in Requests
      PROVE  /\ (call[v] # None => Renewing(v))'
             /\ (call[v] \in Workers => CallSound(v, call[v]))'
  BY ServiceAssumption
<1> QED
  BY <1>1, Zenon DEF LinksSound

LEMMA SendStep ==
  ASSUME IInv, NEW r \in Requests, NEW w \in Workers,
         SendRefresh(r, w) \/ SendCredentials(r, w)
  PROVE  LinksSound' /\ AnsweredOnce'
<1>1. /\ Renewing(r) /\ call[r] = None
      /\ UNCHANGED <<pc, req, store, now, answered, unrenewed, known, origin>>
      /\ call' = [call EXCEPT ![r] = w]
  BY DEF SendRefresh, SendCredentials, Renewing, executerVars, Authority!AcceptRefresh,
         Authority!AcceptIssue, Authority!Accept
<1>2. \/ /\ pc[r] = "refreshing" /\ work'[w].pc = "lookup"
         /\ work'[w].op = "refresh" /\ work'[w].token = Presented(r)
      \/ /\ pc[r] = "authenticating" /\ work'[w].pc = "authenticate"
         /\ work'[w].op = "issue"
  <2>1. ASSUME NEW f, NEW o, NEW t, Authority!Accept(w, f, o, Client, t)
        PROVE  work'[w].pc = f /\ work'[w].op = o /\ work'[w].token = t
    BY <2>1, Typed DEF Authority!Accept, Authority!Idle
  <2> QED
    BY <2>1, Zenon DEF SendRefresh, SendCredentials, Authority!AcceptRefresh,
                       Authority!AcceptIssue
<1>3. TypeOK' /\ TokensSound'
  BY <1>1 DEF IInv, LinksSound, TypeOK, TokensSound
<1>4. CallSound(r, w)'
  BY <1>1, <1>2
     DEF CallSound, Dated, Succeeding, IssuedAt, Presented, Authority!Exchanging
<1>5. call'[r] = w /\ \A v \in Requests : v # r => call'[v] = None
  BY <1>1, OneCall, Typed
<1>6. ASSUME NEW v \in Requests
      PROVE  /\ (call[v] # None => Renewing(v))'
             /\ (call[v] \in Workers => CallSound(v, call[v]))'
  <2>1. CASE v = r
    BY <1>1, <1>4, <1>5, <2>1 DEF Renewing
  <2>2. CASE v # r
    BY <1>5, <2>2, ServiceAssumption
  <2> QED
    BY <2>1, <2>2
<1>7. LinksSound'
  BY <1>3, <1>6, Zenon DEF LinksSound
<1> QED
  BY <1>1, <1>7, AnsweredKept

LEMMA GrantedStep ==
  ASSUME IInv, NEW r \in Requests, Granted(r)
  PROVE  LinksSound' /\ AnsweredOnce'
<1> DEFINE t == work[call[r]].issued
           n == Len(answered)
<1>1. /\ answered' = Append(answered, t)
      /\ call' = [call EXCEPT ![r] = None] /\ unrenewed' = unrenewed \ {r}
      /\ store' = store /\ now' = now
      /\ pc' = [pc EXCEPT ![r] = "calling"]
      /\ req' = [req EXCEPT ![r] =
                   Executer!WithCopy(r, Executer!FreshToken(IssuedAt(call[r])), 0)]
  BY DEF Granted, Executer!Renewed
<1>2. t \in Tokens /\ t \notin known /\ known' = known \cup {t} /\ Renewing(r)
  BY GrantedFacts
<1>3. /\ answered' \in Seq(Tokens) /\ Len(answered') = n + 1 /\ n \in Nat
      /\ \A i \in 1 .. n : answered'[i] = answered[i]
      /\ answered'[n + 1] = t
  BY <1>1, <1>2, Typed, AppendProperties
<1>4. /\ req'[r].copy.token.id = n + 1 /\ req'[r].sentAt = now
      /\ \A v \in Requests : v # r => req'[v] = req[v] /\ pc'[v] = pc[v]
      /\ pc'[r] # "refreshing"
  <2>1. req[r] \in Executer!Request
    BY Typed
  <2>2. /\ Executer!WithCopy(r, Executer!FreshToken(IssuedAt(call[r])), 0).copy.token.id
             = n + 1
        /\ Executer!WithCopy(r, Executer!FreshToken(IssuedAt(call[r])), 0).sentAt = now
    BY <2>1 DEF Executer!WithCopy, Executer!FreshToken, Executer!Request
  <2>3. req \in [Requests -> Executer!Request] /\ pc \in [Requests -> Executer!Steps]
    BY DEF IInv, Executer!TypeOK
  <2> QED
    BY <1>1, <2>2, <2>3
<1>5. TypeOK'
  BY <1>1, <1>3, Typed DEF TypeOK, IInv, LinksSound
<1>6. TokensSound'
  <2>1. ASSUME NEW i \in 1 .. n + 1
        PROVE  /\ answered'[i] \in known'
               /\ \A j \in 1 .. n + 1 : answered'[i] = answered'[j] => i = j
    <3>1. \A k \in 1 .. n : answered'[k] \in known
      BY <1>3 DEF IInv, LinksSound, TokensSound
    <3>2. \A k \in 1 .. n + 1 : k \in 1 .. n \/ k = n + 1
      BY <1>3
    <3>3. \A k, j \in 1 .. n : answered'[k] = answered'[j] => k = j
      BY <1>3 DEF IInv, LinksSound, TokensSound
    <3> QED
      BY <1>2, <1>3, <3>1, <3>2, <3>3
  <2>2. \A s \in Sessions : store'[s].token.id <= n + 1
    <3>1. \A s \in Sessions : store[s].token.id \in Nat /\ store[s].token.id <= n
      BY DEF IInv, LinksSound, TokensSound, Executer!TypeOK, Executer!Session,
             Executer!JwtToken
    <3> QED
      BY <1>1, <1>3, <3>1
  <2>3. ASSUME NEW v \in Requests
        PROVE  /\ req'[v].copy.token.id <= n + 1
               /\ pc'[v] = "refreshing" => req'[v].copy.token.id # 0
               /\ req'[v].sentAt <= now
    <3>1. /\ req[v].copy.token.id <= n
          /\ pc[v] = "refreshing" => req[v].copy.token.id # 0
          /\ req[v].sentAt <= now
      BY DEF IInv, LinksSound, TokensSound
    <3>2. req[v].copy.token.id \in Nat /\ now \in Nat
      BY Typed
    <3> QED
      BY <1>3, <1>4, <3>1, <3>2
  <2> QED
    BY <1>1, <1>3, <2>1, <2>2, <2>3 DEF TokensSound
<1>7. \A v \in Requests : call'[v] = None
  BY <1>1, <1>2, OneCall, Typed
<1>8. LinksSound'
  BY <1>5, <1>6, <1>7, NoCalls, ServiceAssumption
<1>9. AnsweredOnce'
  <2>1. origin' = origin
    BY GrantedFacts
  <2>2. ASSUME NEW i \in 1 .. n, origin[answered[i]].parent = origin[t].parent,
               origin[t].parent # None
        PROVE  FALSE
    <3>1. origin[t].parent = work[call[r]].token
      BY GrantedFacts
    <3>2. pc[r] = "refreshing"
      BY <2>2, <3>1, GrantedFacts DEF Renewing
    <3>3. /\ origin[t].parent = answered[req[r].copy.token.id]
          /\ req[r].copy.token.id \in Unexchanged
      BY <3>1, <3>2, GrantedFacts DEF Presented
    <3> QED
      BY <2>2, <3>3 DEF Unexchanged
  <2>3. ASSUME NEW i \in 1 .. n + 1, NEW j \in 1 .. n + 1,
               origin[answered'[i]].parent = origin[answered'[j]].parent,
               origin[answered'[i]].parent # None
        PROVE  i = j
    <3>1. \A k \in 1 .. n + 1 : k \in 1 .. n \/ k = n + 1
      BY <1>3
    <3>2. i \in 1 .. n /\ j \in 1 .. n => i = j
      BY <1>3, <2>3 DEF IInv, AnsweredOnce
    <3> QED
      BY <1>3, <2>2, <2>3, <3>1, <3>2
  <2> QED
    BY <1>3, <2>1, <2>3 DEF AnsweredOnce
<1> QED
  BY <1>8, <1>9

(* The front end has no call under way any more. *)
LEMMA CallsOver ==
  ASSUME IInv, UNCHANGED <<answered, store, now, known, origin>>,
         unrenewed' \subseteq Requests,
         call' \in [Requests -> {None}],
         \A v \in Requests : /\ req'[v].copy.token.id <= Len(answered)
                             /\ pc'[v] = "refreshing" => req'[v].copy.token.id # 0
                             /\ req'[v].sentAt <= now
  PROVE  LinksSound' /\ AnsweredOnce'
<1>1. TypeOK' /\ TokensSound'
  BY ServiceAssumption DEF IInv, LinksSound, TypeOK, TokensSound
<1>2. LinksSound'
  BY <1>1, NoCalls, ServiceAssumption
<1> QED
  BY <1>2, AnsweredKept

(* The call fails, one way or the other: the request goes on with the       *)
(* token it has.                                                           *)
LEMMA FailedStep ==
  ASSUME IInv, NEW r \in Requests, Refused(r) \/ NoAnswer(r)
  PROVE  LinksSound' /\ AnsweredOnce'
<1>1. /\ Renewing(r) /\ UNCHANGED <<answered, store, now, origin>>
      /\ call' = [call EXCEPT ![r] = None]
      /\ unrenewed' \in {unrenewed \cup {r}, unrenewed}
  BY DEF Refused, NoAnswer, HangUp, Authority!Reply, authorityVars,
         Executer!RefreshFailed, Executer!AuthenticationRefused,
         Executer!AuthenticationFailed
<1>2. known' = known
  <2>1. CASE NoAnswer(r)
    BY <2>1 DEF NoAnswer, authorityVars
  <2>2. CASE Refused(r)
    <3>1. /\ call[r] \in Workers /\ work[call[r]].status # 200
          /\ known' = known \cup ({work[call[r]].issued} \ {None})
      BY <2>2 DEF Refused, Authority!Reply
    <3>2. work[call[r]].issued = None
      BY <3>1 DEF IInv, Authority!IInv, Authority!AwaitsSound, Authority!HandsSound
    <3> QED
      BY <3>1, <3>2
  <2> QED
    BY <2>1, <2>2
<1>3. call' \in [Requests -> {None}]
  BY <1>1, OneCall, Typed
<1>4. /\ \A v \in Requests : v # r => req'[v] = req[v] /\ pc'[v] = pc[v]
      /\ req'[r].copy = req[r].copy /\ pc'[r] # "refreshing"
      /\ req'[r].sentAt \in {now, req[r].sentAt}
  BY FailedMoves
<1>5. \A v \in Requests : /\ req[v].copy.token.id <= Len(answered)
                          /\ pc[v] = "refreshing" => req[v].copy.token.id # 0
                          /\ req[v].sentAt <= now
  BY DEF IInv, LinksSound, TokensSound
<1>6. \A v \in Requests : /\ req'[v].copy.token.id <= Len(answered)
                          /\ pc'[v] = "refreshing" => req'[v].copy.token.id # 0
                          /\ req'[v].sentAt <= now
  BY <1>4, <1>5, Typed
<1>7. unrenewed' \subseteq Requests
  BY <1>1 DEF IInv, LinksSound, TypeOK
<1> QED
  BY <1>1, <1>2, <1>3, <1>6, <1>7, CallsOver

LEMMA ServedStep ==
  ASSUME IInv, NEW w \in Workers, Serve(w) \/ ServeFails(w) \/ Unheard(w)
  PROVE  LinksSound' /\ AnsweredOnce'
<1>1. /\ UNCHANGED <<executerVars, linkVars, now, known>>
      /\ \A v \in Workers : v # w => work'[v] = work[v]
      /\ \A t \in known : Authority!Stored(t) => origin'[t] = origin[t]
  BY ServeFacts
<1>2. Unexchanged' = Unexchanged
  BY <1>1, UnexchangedKept DEF linkVars
<1>3. TypeOK' /\ TokensSound'
  BY <1>1 DEF IInv, LinksSound, TypeOK, TokensSound, executerVars, linkVars
<1>4. ASSUME NEW v \in Requests
      PROVE  /\ (call[v] # None => Renewing(v))'
             /\ (call[v] \in Workers => CallSound(v, call[v]))'
  <2>1. /\ call[v] # None => Renewing(v)
        /\ call[v] \in Workers => CallSound(v, call[v])
    BY DEF IInv, LinksSound
  <2>2. CASE call[v] = w
    <3>1. Serve(w) \/ ServeFails(w)
      BY <2>2, ServiceAssumption DEF Unheard, Abandoned
    <3>2. CallSound(v, w)'
      BY <2>2, <3>1, CallServed
    <3> QED
      BY <1>1, <2>1, <2>2, <3>2 DEF Renewing, executerVars, linkVars
  <2>3. CASE call[v] # w
    BY <1>1, <1>2, <2>1, <2>3
       DEF CallSound, Dated, Succeeding, IssuedAt, Presented, Authority!Exchanging,
           Renewing, executerVars, linkVars
  <2> QED
    BY <2>2, <2>3
<1>5. LinksSound'
  BY <1>3, <1>4, Zenon DEF LinksSound
<1> QED
  BY <1>1, <1>5, AnsweredKept DEF linkVars

(* What the front end does without the authority. *)
LEMMA AloneStep ==
  ASSUME IInv, NEW r \in Requests,
         \/ Alone(r) \/ GiveUp(r) \/ Commit(r)
         \/ \E s \in Sessions, d \in BOOLEAN : Begin(r, s, d)
  PROVE  LinksSound' /\ AnsweredOnce'
<1> DEFINE n == Len(answered)
<1>1. /\ UNCHANGED <<table, work, known, origin, answered, call>>
      /\ unrenewed' \in {unrenewed, unrenewed \cup {r}, unrenewed \ {r}}
  BY DEF Alone, GiveUp, Commit, Begin, authorityVars, linkVars
<1>2. /\ req \in [Requests -> Executer!Request] /\ pc \in [Requests -> Executer!Steps]
      /\ req[r] \in Executer!Request /\ now \in Nat /\ n \in Nat
  BY Typed DEF IInv, Executer!TypeOK
<1>3. /\ req[r].copy.token.id <= n /\ req[r].sentAt <= now
      /\ pc[r] = "refreshing" => req[r].copy.token.id # 0
      /\ \A s \in Sessions : store[s].token.id <= n
      /\ call[r] # None => Renewing(r)
  BY DEF IInv, LinksSound, TokensSound
<1> DEFINE Result ==
      /\ call[r] = None
      /\ now' = now
      /\ \A v \in Requests : v # r => pc'[v] = pc[v] /\ req'[v] = req[v]
      /\ req'[r].copy.token.id <= n
      /\ pc'[r] = "refreshing" => req'[r].copy.token.id # 0
      /\ req'[r].sentAt <= now
      /\ \A s \in Sessions : store'[s].token.id <= n
<1> USE DEF Renewing
<1>4. ASSUME NEW s \in Sessions, NEW d \in BOOLEAN, Begin(r, s, d) PROVE Result
  BY <1>2, <1>3, <1>4
     DEF Begin, Executer!Begin, Executer!NewRequest, Executer!EmptySession, Executer!NoToken
<1>5. ASSUME Executer!AcquireApi(r) \/ Executer!AcquireAuth(r) PROVE Result
  BY <1>2, <1>3, <1>5 DEF Executer!AcquireApi, Executer!AcquireAuth
<1>6. ASSUME Executer!Prepare(r) PROVE Result
  <2>1. Executer!SessionOf(r).token.id <= n
    BY <1>2, <1>3 DEF Executer!SessionOf, Executer!Request
  <2>2. /\ req'[r].copy = Executer!SessionOf(r) /\ req'[r].sentAt = now
        /\ pc'[r] # "refreshing" /\ call[r] = None
    BY <1>2, <1>3, <1>6 DEF Executer!Prepare, Executer!Request
  <2> QED
    BY <1>2, <1>3, <1>6, <2>1, <2>2 DEF Executer!Prepare
<1>7. ASSUME Executer!StartRenewal(r) PROVE Result
  <2>1. /\ req'[r].copy.token = req[r].copy.token /\ req'[r].sentAt = now
        /\ call[r] = None
    BY <1>2, <1>3, <1>7 DEF Executer!StartRenewal, Executer!WithCopy, Executer!Request
  <2>2. pc'[r] = "refreshing" => req[r].copy.token.id # 0
    BY <1>2, <1>7 DEF Executer!StartRenewal
  <2> QED
    BY <1>2, <1>3, <1>7, <2>1, <2>2 DEF Executer!StartRenewal
<1>8. ASSUME Executer!GiveUp(r) PROVE Result
  <2>1. /\ req'[r].copy.token = req[r].copy.token /\ req'[r].sentAt = now
        /\ call[r] = None /\ pc'[r] # "refreshing"
    <3> DEFINE q == Executer!WithCopy(r, req[r].copy.token, 0)
    <3>1. /\ q.copy.token = req[r].copy.token /\ q.sentAt = now
          /\ q \in Executer!Request
      <4>1. req[r].copy.token \in Executer!JwtToken
        BY <1>2 DEF Executer!Request, Executer!Session
      <4> QED
        BY <4>1, WithCopyFacts
    <3>2. pc[r] = "decide" /\ Executer!WebApiException(r, q)
      BY <1>8 DEF Executer!GiveUp
    <3> HIDE DEF q
    <3> QED
      BY <1>2, <1>3, <3>1, <3>2
         DEF Executer!WebApiException, Executer!EndWith, Executer!Request
  <2> QED
    BY <1>2, <1>3, <1>8, <2>1
       DEF Executer!GiveUp, Executer!WebApiException, Executer!EndWith
<1>9. ASSUME Executer!CallEnds(r) PROVE Result
  <2>1. /\ req'[r].copy = req[r].copy /\ req'[r].sentAt = req[r].sentAt
        /\ call[r] = None /\ pc'[r] # "refreshing"
    BY <1>2, <1>3, <1>9
       DEF Executer!CallEnds, Executer!WebApiException, Executer!EndWith, Executer!Request
  <2> QED
    BY <1>2, <1>3, <1>9, <2>1
       DEF Executer!CallEnds, Executer!WebApiException, Executer!EndWith
<1>10. ASSUME Executer!Commit(r) PROVE Result
  <2>1. /\ req'[r].copy.token.id = 0 /\ req'[r].sentAt = 0
        /\ call[r] = None /\ pc'[r] # "refreshing"
    BY <1>2, <1>3, <1>10
       DEF Executer!Commit, Executer!NewRequest, Executer!EmptySession, Executer!NoToken
  <2>2. store \in [Sessions -> Executer!Session]
    BY DEF IInv, Executer!TypeOK
  <2>3. \A s \in Sessions : store'[s] = store[s] \/ store'[s] = req[r].copy
    BY <1>10, <2>2 DEF Executer!Commit
  <2>4. \A s \in Sessions : store'[s].token.id <= n
    BY <1>3, <2>3
  <2>5. \A v \in Requests : v # r => pc'[v] = pc[v] /\ req'[v] = req[v]
    BY <1>2, <1>10 DEF Executer!Commit
  <2>6. now' = now
    BY <1>10 DEF Executer!Commit
  <2> QED
    BY <1>2, <2>1, <2>4, <2>5, <2>6
<1>11. Result
  BY <1>4, <1>5, <1>6, <1>7, <1>8, <1>9, <1>10, Zenon DEF Alone, GiveUp, Commit
<1>12. unrenewed' \subseteq Requests
  BY <1>1 DEF IInv, LinksSound, TypeOK
<1> QED
  BY <1>1, <1>11, <1>12, LinksKept

(* A step that only passes the time, forgets a session or does nothing. *)
LEMMA IdleStep ==
  ASSUME IInv, UNCHANGED <<pc, req, authorityVars, linkVars>>,
         now' \in Nat, now <= now',
         \A s \in Sessions : store'[s].token.id <= Len(answered)
  PROVE  LinksSound' /\ AnsweredOnce'
<1>1. Unexchanged' = Unexchanged
  BY UnexchangedKept DEF authorityVars, linkVars
<1>2. \A v \in Requests : req[v].sentAt \in Nat /\ req[v].sentAt <= now /\ now \in Nat
  BY Typed DEF IInv, LinksSound, TokensSound
<1>3. \A v \in Requests : req[v].sentAt <= now'
  BY <1>2
<1>4. TypeOK' /\ TokensSound'
  BY <1>3 DEF IInv, LinksSound, TypeOK, TokensSound, authorityVars, linkVars
<1>5. ASSUME NEW v \in Requests
      PROVE  /\ (call[v] # None => Renewing(v))'
             /\ (call[v] \in Workers => CallSound(v, call[v]))'
  <2>1. /\ call[v] # None => Renewing(v)
        /\ call[v] \in Workers => CallSound(v, call[v])
    BY DEF IInv, LinksSound
  <2>2. \A x : x \in req[v].sentAt .. now => x \in req[v].sentAt .. now'
    BY <1>2
  <2> QED
    BY <1>1, <2>1, <2>2
       DEF CallSound, Dated, Succeeding, IssuedAt, Presented, Authority!Exchanging,
           Renewing, authorityVars, linkVars
<1>6. LinksSound'
  BY <1>4, <1>5, Zenon DEF LinksSound
<1> QED
  BY <1>6, AnsweredKept DEF authorityVars, linkVars

LEMMA RestartStep ==
  ASSUME IInv, AuthorityRestarts \/ FrontEndRestarts
  PROVE  LinksSound' /\ AnsweredOnce'
<1>1. CASE FrontEndRestarts
  <2>1. /\ UNCHANGED <<answered, now, known, origin>>
        /\ unrenewed' = {} /\ call' \in [Requests -> {None}]
        /\ \A s \in Sessions : store'[s].token.id = 0
        /\ \A v \in Requests : /\ pc'[v] = "idle" /\ req'[v].copy.token.id = 0
                               /\ req'[v].sentAt = 0
    BY <1>1 DEF FrontEndRestarts, Executer!Restart, Executer!NewRequest,
                Executer!EmptySession, Executer!NoToken, authorityVars
  <2>2. TypeOK' /\ TokensSound'
    BY <2>1, Typed, ServiceAssumption DEF IInv, LinksSound, TypeOK, TokensSound
  <2>3. LinksSound'
    BY <2>1, <2>2, NoCalls, ServiceAssumption
  <2> QED
    BY <2>1, <2>3, AnsweredKept
<1>2. CASE AuthorityRestarts
  <2>1. /\ UNCHANGED <<pc, req, store, now, known, origin, answered, unrenewed>>
        /\ call' = [v \in Requests |-> IF call[v] \in Workers THEN Broken ELSE call[v]]
    BY <1>2 DEF AuthorityRestarts, Authority!Crash, executerVars
  <2>2. TypeOK' /\ TokensSound'
    BY <2>1 DEF IInv, LinksSound, TypeOK, TokensSound
  <2>3. \A v \in Requests : /\ call'[v] \in {None, Broken}
                            /\ call'[v] = Broken => Renewing(v)'
    BY <2>1, Typed, ServiceAssumption DEF IInv, LinksSound, Renewing
  <2>4. LinksSound'
    BY <2>2, <2>3, NoCalls
  <2> QED
    BY <2>1, <2>4, AnsweredKept
<1> QED
  BY <1>1, <1>2

LEMMA NextLinks == IInv /\ [Next]_vars => LinksSound' /\ AnsweredOnce'
<1> SUFFICES ASSUME IInv, [Next]_vars PROVE LinksSound' /\ AnsweredOnce'
  OBVIOUS
<1>1. /\ store \in [Sessions -> Executer!Session] /\ now \in Nat /\ Len(answered) \in Nat
      /\ \A s \in Sessions : store[s].token.id <= Len(answered)
  BY Typed DEF IInv, LinksSound, TokensSound, Executer!TypeOK
<1>2. ASSUME NEW s \in Sessions, ExpireSession(s) PROVE LinksSound' /\ AnsweredOnce'
  <2>1. /\ UNCHANGED <<pc, req, authorityVars, linkVars, now>>
        /\ \A v \in Sessions : store'[v].token.id <= Len(answered)
    BY <1>1, <1>2 DEF ExpireSession, Executer!ExpireSession, Executer!EmptySession,
                      Executer!NoToken
  <2> QED
    BY <1>1, <2>1, IdleStep
<1>3. ASSUME Tick PROVE LinksSound' /\ AnsweredOnce'
  <2>1. UNCHANGED <<pc, req, authorityVars, linkVars, store>> /\ now' = now + 1
    BY <1>3 DEF Tick, Executer!Tick
  <2> QED
    BY <1>1, <2>1, IdleStep
<1>4. ASSUME UNCHANGED vars PROVE LinksSound' /\ AnsweredOnce'
  <2>1. UNCHANGED <<pc, req, authorityVars, linkVars, store, now>>
    BY <1>4 DEF vars, executerVars
  <2> QED
    BY <1>1, <2>1, IdleStep
<1> QED
  BY <1>2, <1>3, <1>4, SendStep, GrantedStep, FailedStep, AloneStep, ServedStep,
     RestartStep, Zenon DEF Next

-----------------------------------------------------------------------------
LEMMA InitIInv == Init => IInv
<1> SUFFICES ASSUME Init PROVE IInv
  OBVIOUS
<1>1. Authority!IInv
  BY ServiceInit, ServiceInvariant, ServiceAssumptions, Service!InitIInv DEF Init
<1>2. Executer!TypeOK /\ Executer!PermitsConserved
  <2>1. Front!Init
    BY FrontInit DEF Init
  <2>2. Front!TypeOK
    BY <2>1, FrontAssumptions, Front!InitTypeOK
  <2>3. Front!PermitsConserved
    BY <2>1, FrontAssumptions, Front!NobodyHolds DEF Front!Init
  <2> QED
    BY <2>2, <2>3, FrontTypes, FrontPermits
<1>3. /\ answered = <<>> /\ Len(answered) = 0 /\ answered \in Seq(Tokens)
      /\ \A r \in Requests : /\ pc[r] = "idle" /\ req[r].copy.token.id = 0
                             /\ req[r].sentAt = 0 /\ call[r] = None
      /\ \A s \in Sessions : store[s].token.id = 0
      /\ now = 0
  BY EmptySeq DEF Init, Executer!Init, Executer!NewRequest, Executer!EmptySession,
                  Executer!NoToken
<1>4. TypeOK
  BY <1>3 DEF Init, TypeOK
<1>5. TokensSound /\ AnsweredOnce
  BY <1>3 DEF TokensSound, AnsweredOnce
<1>6. LinksSound
  BY <1>3, <1>4, <1>5, ServiceAssumption DEF LinksSound
<1> QED
  BY <1>1, <1>2, <1>5, <1>6 DEF IInv

LEMMA NextIInv == IInv /\ [Next]_vars => IInv'
  BY NextService, NextFront, NextLinks DEF IInv

(* The invariant of the composition: each side keeps what it keeps alone,   *)
(* and the calls under way mean the same on both (WebApiExecuter's         *)
(* renewals, served by Authenticator and RefreshTokenService).             *)
THEOREM Inductive == Spec => []IInv
  BY InitIInv, NextIInv, PTL DEF Spec

(* A slot of the authority serves what its caller waits for, and no answer   *)
(* is taken for another one's, whatever was given up before.               *)
THEOREM Links == Spec => []LinksSound
<1>1. IInv => LinksSound
  BY DEF IInv
<1> QED
  BY <1>1, Inductive, PTL

(* The front end is never given two tokens for one, for any number of        *)
(* requests, tokens, slots and faults.                                     *)
THEOREM OneForOne == Spec => []AnsweredOnce
<1>1. IInv => AnsweredOnce
  BY DEF IInv
<1> QED
  BY <1>1, Inductive, PTL

(* The front end and the authority together implement WebApiExecuter: the    *)
(* authority it assumes is the one RefreshTokens is.                       *)
THEOREM Implements == Spec => ExecuterView
<1>1. Init => Executer!Init
  BY DEF Init
<1>2. IInv /\ [Next]_vars => [Executer!Next]_(Executer!vars)
  BY FrontStep
<1> QED
  BY <1>1, <1>2, Inductive, PTL DEF Spec, ExecuterView, Executer!Spec

-----------------------------------------------------------------------------
(* A token that a request was given and has not committed yet is in nobody   *)
(* else's hands: not in a session, not in another request's copy, and not  *)
(* under exchange.                                                         *)
Fresh(r) == /\ r \notin unrenewed
            /\ req[r].modified
            /\ ~Renewing(r)

Unshared(r) ==
  /\ req[r].copy.token.id \in 1 .. Len(answered)
  /\ \A s \in Sessions : store[s].token.id # req[r].copy.token.id
  /\ \A v \in Requests : v # r => req[v].copy.token.id # req[r].copy.token.id
  /\ ~Authority!IsRevoked(Presented(r))
  /\ \A w \in Workers : work[w].token # Presented(r)

FreshSound == \A r \in Requests : Fresh(r) => Unshared(r)

(* The session is loaded before it is read or modified. *)
Unloaded == {"idle", "waitApi", "prepare"}
LoadedSound ==
  \A r \in Requests : req[r].modified \/ pc[r] \notin Unloaded => req[r].loaded

FreshIInv == IInv /\ LoadedSound /\ FreshSound

LEMMA NextLoaded == IInv /\ LoadedSound /\ [Next]_vars => LoadedSound'
<1> SUFFICES ASSUME IInv, LoadedSound, [Next]_vars PROVE LoadedSound'
  OBVIOUS
<1> DEFINE Loaded(r) == req[r].modified \/ pc[r] \notin Unloaded => req[r].loaded
<1>1. /\ req \in [Requests -> Executer!Request] /\ pc \in [Requests -> Executer!Steps]
      /\ \A r \in Requests : Loaded(r)
  BY DEF IInv, Executer!TypeOK, LoadedSound
<1> USE DEF Unloaded
<1>2. ASSUME NEW r \in Requests,
             \A v \in Requests : v # r => pc'[v] = pc[v] /\ req'[v] = req[v],
             Loaded(r)'
      PROVE  LoadedSound'
  BY <1>1, <1>2 DEF LoadedSound
<1>3. ASSUME UNCHANGED <<pc, req>> PROVE LoadedSound'
  BY <1>1, <1>3 DEF LoadedSound
<1>4. ASSUME NEW r \in Requests, Executer!Arrive(r) PROVE LoadedSound'
  BY <1>1, <1>2, <1>4 DEF Executer!Arrive, Executer!Begin, Executer!NewRequest
<1>5. ASSUME NEW r \in Requests, Executer!AcquireApi(r) \/ Executer!AcquireAuth(r)
      PROVE  LoadedSound'
  BY <1>1, <1>2, <1>5 DEF Executer!AcquireApi, Executer!AcquireAuth
<1>6. ASSUME NEW r \in Requests, Executer!Prepare(r) PROVE LoadedSound'
  BY <1>1, <1>2, <1>6 DEF Executer!Prepare, Executer!Request
<1>7. ASSUME NEW r \in Requests, pc[r] \notin Unloaded,
             \A v \in Requests : v # r => pc'[v] = pc[v] /\ req'[v] = req[v],
             req'[r].loaded = req[r].loaded
      PROVE  LoadedSound'
  BY <1>1, <1>2, <1>7
<1>8. ASSUME NEW r \in Requests, NEW q, q.loaded = req[r].loaded, q \in Executer!Request,
             pc[r] \notin Unloaded,
             Executer!WebApiException(r, q) \/ Executer!EndWith(r, q)
      PROVE  LoadedSound'
  BY <1>1, <1>7, <1>8
     DEF Executer!WebApiException, Executer!EndWith, Executer!Request
<1>9. ASSUME NEW r \in Requests, NEW token \in Executer!JwtToken, NEW retries \in Nat
      PROVE  /\ Executer!WithCopy(r, token, retries) \in Executer!Request
             /\ Executer!WithCopy(r, token, retries).loaded = req[r].loaded
  BY WithCopyFacts
<1>10. ASSUME NEW r \in Requests
       PROVE  req[r].copy.token \in Executer!JwtToken /\ req[r].copy.retries + 1 \in Nat
  BY <1>1 DEF Executer!Request, Executer!Session
<1>11. ASSUME NEW r \in Requests, Executer!GiveUp(r) PROVE LoadedSound'
  BY <1>8, <1>9, <1>10, <1>11 DEF Executer!GiveUp
<1>12. ASSUME NEW r \in Requests, Executer!StartRenewal(r) PROVE LoadedSound'
  <2> DEFINE q == Executer!WithCopy(r, req[r].copy.token, req[r].copy.retries + 1)
  <2>1. q.loaded = req[r].loaded
    BY <1>9, <1>10
  <2> HIDE DEF q
  <2>2. req' = [req EXCEPT ![r] = q]
    BY <1>12 DEF Executer!StartRenewal, q
  <2> QED
    BY <1>1, <1>7, <1>12, <2>1, <2>2 DEF Executer!StartRenewal
<1>13. ASSUME NEW r \in Requests, NEW at, NEW spent, Renewing(r),
              Executer!Renewed(r, at, spent)
       PROVE  LoadedSound'
  <2> DEFINE q == Executer!WithCopy(r, Executer!FreshToken(at), 0)
  <2>1. q.loaded = req[r].loaded
    BY <1>1 DEF Executer!WithCopy, Executer!Request
  <2> HIDE DEF q
  <2>2. req' = [req EXCEPT ![r] = q] /\ pc' = [pc EXCEPT ![r] = "calling"]
    BY <1>13 DEF Executer!Renewed, q
  <2> QED
    BY <1>1, <1>7, <1>13, <2>1, <2>2 DEF Renewing
<1>14. ASSUME NEW r \in Requests, Executer!Refreshed(r) \/ Executer!Authenticated(r)
       PROVE  LoadedSound'
  <2>1. Renewing(r) /\ \E at, spent : Executer!Renewed(r, at, spent)
    BY <1>14, Zenon DEF Executer!Refreshed, Executer!Authenticated, Renewing
  <2> QED
    BY <1>13, <2>1, Zenon
<1>15. ASSUME NEW r \in Requests, Executer!RefreshFailed(r) PROVE LoadedSound'
  BY <1>1, <1>7, <1>15 DEF Executer!RefreshFailed, Executer!Request
<1>16. ASSUME NEW r \in Requests,
              \/ Executer!AuthenticationRefused(r) \/ Executer!AuthenticationFailed(r)
              \/ Executer!CallEnds(r)
       PROVE  LoadedSound'
  BY <1>1, <1>8, <1>16
     DEF Executer!AuthenticationRefused, Executer!AuthenticationFailed, Executer!CallEnds
<1>17. ASSUME NEW r \in Requests, Executer!Commit(r) PROVE LoadedSound'
  BY <1>1, <1>2, <1>17 DEF Executer!Commit, Executer!NewRequest
<1>18. ASSUME Executer!Restart PROVE LoadedSound'
  BY <1>18 DEF Executer!Restart, Executer!NewRequest, LoadedSound
<1>19. ASSUME NEW s \in Sessions, Executer!ExpireSession(s) PROVE LoadedSound'
  BY <1>3, <1>19 DEF Executer!ExpireSession
<1>20. Executer!Tick \/ UNCHANGED Executer!vars => UNCHANGED <<pc, req>>
  BY DEF Executer!Tick, Executer!vars
<1> QED
  BY <1>3, <1>4, <1>5, <1>6, <1>11, <1>12, <1>14, <1>15, <1>16, <1>17, <1>18, <1>19,
     <1>20, FrontStep, Zenon DEF Executer!Next, Executer!Acquire, Executer!Proceed

(* Facts about the request a fresh token belongs to. *)
LEMMA FreshFacts ==
  ASSUME FreshIInv, NEW r \in Requests, Fresh(r)
  PROVE  /\ IInv /\ Unshared(r) /\ Presented(r) \in Tokens /\ Presented(r) \in known
         /\ req[r].copy.token.id \in 1 .. Len(answered)
         /\ req[r].copy.token.id # 0
         /\ \A i \in 1 .. Len(answered) :
              i # req[r].copy.token.id => answered[i] # Presented(r)
<1>1. IInv /\ Unshared(r)
  BY DEF FreshIInv, FreshSound
<1>2. req[r].copy.token.id \in 1 .. Len(answered)
  BY <1>1 DEF Unshared
<1> QED
  BY <1>1, <1>2, Typed DEF IInv, LinksSound, TokensSound, Presented

(* What must not happen to a fresh token while its request goes on. *)
LEMMA UnsharedKept ==
  ASSUME FreshIInv, NEW r \in Requests, Fresh(r), answered' = answered,
         req'[r].copy.token = req[r].copy.token,
         \A s \in Sessions : store'[s].token.id # req[r].copy.token.id,
         \A v \in Requests : v # r => req'[v].copy.token.id # req[r].copy.token.id,
         Authority!IsRevoked(Presented(r))' => Authority!IsRevoked(Presented(r)),
         \A w \in Workers : work'[w].token # Presented(r)
  PROVE  Unshared(r)'
<1>1. Presented(r)' = Presented(r)
  BY DEF Presented
<1> QED
  BY <1>1, FreshFacts DEF Unshared

(* A step that is not the authority's: the table and the work are the same. *)
LEMMA UnsharedAside ==
  ASSUME FreshIInv, NEW r \in Requests, Fresh(r),
         UNCHANGED <<answered, table>>,
         \A w \in Workers : work'[w].token \in {work[w].token, None},
         req'[r].copy.token = req[r].copy.token,
         \A s \in Sessions : store'[s].token.id # req[r].copy.token.id,
         \A v \in Requests : v # r => req'[v].copy.token.id # req[r].copy.token.id
  PROVE  Unshared(r)'
<1>1. Presented(r)' = Presented(r)
  BY DEF Presented
<1>2. Authority!IsRevoked(Presented(r))' => Authority!IsRevoked(Presented(r))
  BY <1>1 DEF Authority!IsRevoked, Authority!Stored
<1>3. \A w \in Workers : work'[w].token # Presented(r)
  BY FreshFacts, ServiceAssumption DEF Unshared
<1> QED
  BY <1>2, <1>3, UnsharedKept

(* A slot of the authority touches the token it exchanges, and no other. *)
LEMMA UnsharedServed ==
  ASSUME FreshIInv, NEW w \in Workers, Serve(w) \/ ServeFails(w) \/ Unheard(w),
         NEW r \in Requests, Fresh(r)'
  PROVE  Unshared(r)'
<1>0. IInv
  BY DEF FreshIInv
<1>1. /\ UNCHANGED <<pc, req, store, answered, unrenewed, known>>
      /\ \A v \in Workers : v # w => work'[v] = work[v]
  BY <1>0, ServeFacts DEF executerVars, linkVars
<1>2. Fresh(r)
  BY <1>1 DEF Fresh, Renewing
<1>3. Unshared(r) /\ Presented(r) \in Tokens
  BY <1>2, FreshFacts
<1>4. work[w] \in Authority!Request
  BY <1>0, Typed
<1>5. ASSUME NEW code, Authority!Refuse(w, code) PROVE work'[w].token = None
  BY <1>0, <1>5, Typed DEF Authority!Refuse, Authority!Idle
<1>6. work'[w].token \in {work[w].token, None}
  <2>1. CASE Authority!Authenticated(w)
    BY <1>0, <1>4, <2>1, Typed DEF Authority!Request, Authority!Authenticated
  <2>2. CASE Authority!Lookup(w)
    BY <1>0, <1>4, <2>2, Typed DEF Authority!Request, Authority!Lookup
  <2>3. CASE Authority!SaveOld(w)
    BY <1>0, <1>4, <2>3, Typed DEF Authority!Request, Authority!SaveOld
  <2>4. CASE Authority!ReadApp(w)
    BY <1>0, <1>4, <2>4, Typed DEF Authority!Request, Authority!ReadApp
  <2>5. ASSUME NEW t \in Tokens, Authority!Insert(w, t)
        PROVE  work'[w].token = work[w].token
    BY <1>0, <1>4, <2>5, Typed DEF Authority!Request, Authority!Insert
  <2>6. CASE Authority!LookupRefused(w) \/ Authority!DatabaseError(w)
    BY <1>5, <2>6 DEF Authority!LookupRefused, Authority!DatabaseError
  <2>7. CASE Authority!LoseReply(w)
    BY <1>0, <2>7, Typed DEF Authority!LoseReply, Authority!Idle
  <2> QED
    BY <2>1, <2>2, <2>3, <2>4, <2>5, <2>6, <2>7, Zenon DEF Serve, ServeFails, Unheard
<1>7. Authority!IsRevoked(Presented(r))' => Authority!IsRevoked(Presented(r))
  <2> DEFINE P == Presented(r)
  <2>1. P' = P
    BY <1>1 DEF Presented
  <2>2. table \in [Tokens -> Authority!Row]
    BY <1>0 DEF IInv, Authority!IInv, Authority!TypeOK
  <2>3. P \in Tokens /\ P # work[w].token
    BY <1>3 DEF Unshared
  <2>4. table'[P].status = table[P].status \/ table'[P].status # "revoked"
    <3>1. CASE Authority!SaveOld(w)
      BY <2>2, <2>3, <3>1 DEF Authority!SaveOld
    <3>2. ASSUME NEW t \in Tokens, Authority!Insert(w, t)
          PROVE  table'[P].status = table[P].status \/ table'[P].status # "revoked"
      BY <2>2, <2>3, <3>2 DEF Authority!Insert, Authority!AbsentRow
    <3>3. CASE table' = table
      BY <3>3
    <3> QED
      BY <3>1, <3>2, <3>3
         DEF Serve, ServeFails, Unheard, Authority!Authenticated, Authority!Lookup,
             Authority!LookupRefused, Authority!ReadApp, Authority!DatabaseError,
             Authority!LoseReply
  <2> HIDE DEF P
  <2>5. Authority!IsRevoked(P)' => Authority!IsRevoked(P)
    BY <2>1, <2>3, <2>4 DEF Authority!IsRevoked, Authority!Stored
  <2> QED
    BY <2>5 DEF P
<1>8. \A v \in Workers : work'[v].token # Presented(r)
  BY <1>1, <1>3, <1>6, ServiceAssumption DEF Unshared
<1> QED
  BY <1>1, <1>2, <1>3, <1>7, <1>8, UnsharedKept DEF Unshared

LEMMA UnsharedSent ==
  ASSUME FreshIInv, NEW v \in Requests, NEW w \in Workers,
         SendRefresh(v, w) \/ SendCredentials(v, w),
         NEW r \in Requests, Fresh(r)'
  PROVE  Unshared(r)'
<1>1. /\ Renewing(v)
      /\ UNCHANGED <<pc, req, store, answered, unrenewed, table>>
  BY DEF SendRefresh, SendCredentials, Renewing, executerVars, Authority!AcceptRefresh,
         Authority!AcceptIssue, Authority!Accept
<1>2. Fresh(r) /\ r # v
  BY <1>1 DEF Fresh, Renewing
<1>3. /\ IInv /\ Unshared(r) /\ Presented(r) \in Tokens
      /\ \A i \in 1 .. Len(answered) :
           i # req[r].copy.token.id => answered[i] # Presented(r)
  BY <1>2, FreshFacts
<1>4. work'[w].token = None \/ work'[w].token # Presented(r)
  <2>1. ASSUME NEW f, NEW o, NEW t, Authority!Accept(w, f, o, Client, t)
        PROVE  work'[w].token = t
    BY <1>3, <2>1, Typed DEF Authority!Accept, Authority!Idle
  <2>2. CASE SendCredentials(v, w)
    BY <2>1, <2>2 DEF SendCredentials, Authority!AcceptIssue
  <2>3. CASE SendRefresh(v, w)
    <3>1. work'[w].token = Presented(v) /\ pc[v] = "refreshing"
      BY <2>1, <2>3 DEF SendRefresh, Authority!AcceptRefresh
    <3>2. req[v].copy.token.id \in 1 .. Len(answered)
      BY <1>3, <3>1, Typed DEF IInv, LinksSound, TokensSound
    <3>3. req[v].copy.token.id # req[r].copy.token.id
      BY <1>2, <1>3 DEF Unshared
    <3>4. Presented(v) # Presented(r)
      <4>1. answered[req[v].copy.token.id] # Presented(r)
        BY <1>3, <3>2, <3>3
      <4> QED
        BY <4>1 DEF Presented
    <3> QED
      BY <3>1, <3>4
  <2> QED
    BY <2>2, <2>3
<1>5. \A u \in Workers : u # w => work'[u] = work[u]
  BY <1>3, Typed DEF SendRefresh, SendCredentials, Authority!AcceptRefresh,
                     Authority!AcceptIssue, Authority!Accept
<1>6. \A u \in Workers : work'[u].token # Presented(r)
  BY <1>3, <1>4, <1>5, ServiceAssumption DEF Unshared
<1>7. Authority!IsRevoked(Presented(r))' => Authority!IsRevoked(Presented(r))
  BY <1>1 DEF Authority!IsRevoked, Authority!Stored, Presented
<1> QED
  BY <1>1, <1>2, <1>3, <1>6, <1>7, UnsharedKept DEF Unshared

(* The new token is nobody else's, and not an older one of another request. *)
LEMMA UnsharedGranted ==
  ASSUME FreshIInv, NEW v \in Requests, Granted(v), NEW r \in Requests, Fresh(r)'
  PROVE  Unshared(r)'
<1> DEFINE t == work[call[v]].issued
           n == Len(answered)
<1>0. IInv
  BY DEF FreshIInv
<1>1. /\ answered' = Append(answered, t) /\ store' = store /\ table' = table
      /\ unrenewed' = unrenewed \ {v}
      /\ pc' = [pc EXCEPT ![v] = "calling"]
      /\ req' = [req EXCEPT ![v] =
                   Executer!WithCopy(v, Executer!FreshToken(IssuedAt(call[v])), 0)]
      /\ work' = [work EXCEPT ![call[v]] = Authority!Idle]
  BY DEF Granted, Executer!Renewed, Authority!Reply
<1>2. t \in Tokens /\ t \notin known /\ Renewing(v) /\ call[v] \in Workers
  BY <1>0, GrantedFacts
<1>3. /\ Len(answered') = n + 1 /\ n \in Nat
      /\ \A i \in 1 .. n : answered'[i] = answered[i]
      /\ answered'[n + 1] = t
  BY <1>0, <1>1, <1>2, Typed, AppendProperties
<1>4. /\ req'[v].copy.token.id = n + 1
      /\ \A u \in Requests : u # v => req'[u] = req[u] /\ pc'[u] = pc[u]
  <2>1. req[v] \in Executer!Request
    BY <1>0, Typed
  <2>2. Executer!WithCopy(v, Executer!FreshToken(IssuedAt(call[v])), 0).copy.token.id = n + 1
    BY <2>1 DEF Executer!WithCopy, Executer!FreshToken, Executer!Request
  <2>3. req \in [Requests -> Executer!Request] /\ pc \in [Requests -> Executer!Steps]
    BY <1>0 DEF IInv, Executer!TypeOK
  <2> QED
    BY <1>1, <2>2, <2>3
<1>5. \A u \in Workers : work'[u].token \in {work[u].token, None}
  BY <1>0, <1>1, Typed DEF Authority!Idle
<1>6. /\ \A s \in Sessions : store[s].token.id \in Nat /\ store[s].token.id <= n
      /\ \A u \in Requests : req[u].copy.token.id \in Nat /\ req[u].copy.token.id <= n
  BY <1>0 DEF IInv, LinksSound, TokensSound, Executer!TypeOK, Executer!Request,
              Executer!Session, Executer!JwtToken
<1>7. CASE r = v
  <2>1. Presented(r)' = t
    BY <1>3, <1>4, <1>7 DEF Presented
  <2>2. \A u \in Workers : work'[u].token # t
    <3>1. \A u \in Workers : work[u].token \in known \cup {Unknown, None}
      BY <1>0 DEF IInv, Authority!IInv, Authority!AwaitsSound, Authority!LocalsSound
    <3> QED
      BY <1>2, <1>5, <3>1, ServiceAssumption
  <2>3. table'[t].status # "revoked"
    BY <1>0, <1>1, <1>2
       DEF IInv, Authority!IInv, Authority!SecretUntilAnswered, Authority!Stored
  <2>4. ~Authority!IsRevoked(Presented(r))'
    BY <2>1, <2>3 DEF Authority!IsRevoked
  <2>5. /\ \A s \in Sessions : store'[s].token.id # n + 1
        /\ \A u \in Requests : u # r => req'[u].copy.token.id # n + 1
    BY <1>1, <1>3, <1>4, <1>6, <1>7
  <2> QED
    BY <1>3, <1>4, <1>7, <2>1, <2>2, <2>4, <2>5 DEF Unshared
<1>8. CASE r # v
  <2>1. Fresh(r)
    BY <1>1, <1>4, <1>8 DEF Fresh, Renewing
  <2>2. Unshared(r) /\ Presented(r) \in Tokens
    BY <2>1, FreshFacts
  <2>3. Presented(r)' = Presented(r)
    BY <1>3, <1>4, <1>8, <2>2 DEF Presented, Unshared
  <2>4. Authority!IsRevoked(Presented(r))' => Authority!IsRevoked(Presented(r))
    BY <1>1, <2>3 DEF Authority!IsRevoked, Authority!Stored
  <2>5. \A u \in Workers : work'[u].token # Presented(r)
    BY <1>5, <2>2, ServiceAssumption DEF Unshared
  <2>6. /\ req'[r].copy.token.id \in 1 .. n + 1
        /\ \A s \in Sessions : store'[s].token.id # req'[r].copy.token.id
        /\ \A u \in Requests : u # r => req'[u].copy.token.id # req'[r].copy.token.id
    BY <1>1, <1>3, <1>4, <1>6, <1>8, <2>2 DEF Unshared
  <2> QED
    BY <1>3, <2>2, <2>3, <2>4, <2>5, <2>6 DEF Unshared
<1> QED
  BY <1>7, <1>8

(* A request that failed to renew has nothing fresh, and the others keep theirs. *)
LEMMA UnsharedFailed ==
  ASSUME FreshIInv, NEW v \in Requests, Refused(v) \/ NoAnswer(v),
         NEW r \in Requests, Fresh(r)'
  PROVE  Unshared(r)'
<1>0. IInv
  BY DEF FreshIInv
<1>1. /\ Renewing(v) /\ UNCHANGED <<answered, store, table>>
      /\ unrenewed' = IF pc[v] = "authenticating" THEN unrenewed \cup {v} ELSE unrenewed
      /\ pc[v] = "refreshing" => pc' = [pc EXCEPT ![v] = "authenticating"]
  BY DEF Refused, NoAnswer, Authority!Reply, authorityVars,
         Executer!RefreshFailed, Executer!AuthenticationRefused,
         Executer!AuthenticationFailed
<1>2. /\ req \in [Requests -> Executer!Request] /\ pc \in [Requests -> Executer!Steps]
  BY <1>0 DEF IInv, Executer!TypeOK
<1>3. r # v
  BY <1>1, <1>2 DEF Fresh, Renewing
<1>4. /\ \A u \in Requests : u # v => req'[u] = req[u] /\ pc'[u] = pc[u]
      /\ req'[v].copy = req[v].copy
  BY <1>0, FailedMoves
<1>5. Fresh(r)
  BY <1>1, <1>3, <1>4 DEF Fresh, Renewing
<1>6. \A u \in Workers : work'[u].token \in {work[u].token, None}
  BY <1>0, Typed DEF Refused, NoAnswer, Authority!Reply, authorityVars, Authority!Idle
<1> QED
  BY <1>1, <1>3, <1>4, <1>5, <1>6, FreshFacts, UnsharedAside DEF Unshared

(* What a request does without the authority moves tokens between its copy   *)
(* and its session only.                                                   *)
LEMMA UnsharedAlone ==
  ASSUME FreshIInv, NEW v \in Requests,
         \/ Alone(v) \/ GiveUp(v) \/ Commit(v)
         \/ \E s \in Sessions, d \in BOOLEAN : Begin(v, s, d),
         NEW r \in Requests, Fresh(r)'
  PROVE  Unshared(r)'
<1>0. IInv /\ LoadedSound
  BY DEF FreshIInv
<1>1. /\ UNCHANGED <<answered, table, work>>
      /\ unrenewed' \in {unrenewed, unrenewed \cup {v}, unrenewed \ {v}}
  BY DEF Alone, GiveUp, Commit, Begin, authorityVars, linkVars
<1>2. /\ req \in [Requests -> Executer!Request] /\ pc \in [Requests -> Executer!Steps]
      /\ store \in [Sessions -> Executer!Session] /\ req[v] \in Executer!Request
  BY <1>0 DEF IInv, Executer!TypeOK
<1> DEFINE Own ==
      /\ r = v => Fresh(r) /\ req'[v].copy.token = req[v].copy.token
      /\ \/ req'[v].copy.token.id \in {0, req[v].copy.token.id}
         \/ \E s \in Sessions : req'[v].copy = store[s]
      /\ \A s \in Sessions : \/ store'[s] = store[s]
                             \/ v # r /\ store'[s] = req[v].copy
      /\ \A u \in Requests : u # v => req'[u] = req[u] /\ pc'[u] = pc[u]
<1>3. ASSUME NEW s \in Sessions, NEW d \in BOOLEAN, Begin(v, s, d) PROVE Own
  <2>1. /\ req' = [req EXCEPT ![v] = Executer!NewRequest(s, d)] /\ store' = store
        /\ pc' = [pc EXCEPT ![v] = "waitApi"]
    BY <1>3 DEF Begin, Executer!Begin
  <2>2. req'[v].copy.token.id = 0 /\ req'[v].modified = FALSE
    BY <1>2, <2>1 DEF Executer!NewRequest, Executer!EmptySession, Executer!NoToken
  <2>3. r # v
    BY <2>2 DEF Fresh
  <2> QED
    BY <1>2, <2>1, <2>2, <2>3
<1>4. ASSUME Executer!AcquireApi(v) \/ Executer!AcquireAuth(v),
             unrenewed' = unrenewed
      PROVE  Own
  <2>1. /\ req' = req /\ store' = store /\ ~Renewing(v)
        /\ \A u \in Requests : u # v => pc'[u] = pc[u]
    BY <1>2, <1>4 DEF Executer!AcquireApi, Executer!AcquireAuth, Renewing
  <2> QED
    BY <1>4, <2>1 DEF Fresh
<1>5. ASSUME Executer!Prepare(v), unrenewed' = unrenewed PROVE Own
  <2>1. /\ req'[v].copy = Executer!SessionOf(v) /\ req'[v].modified = req[v].modified
        /\ store' = store /\ ~Renewing(v)
        /\ \A u \in Requests : u # v => req'[u] = req[u] /\ pc'[u] = pc[u]
    BY <1>2, <1>5 DEF Executer!Prepare, Executer!Request, Renewing
  <2>2. r = v => Fresh(r) /\ req[v].loaded
    BY <1>0, <1>5, <2>1 DEF Fresh, LoadedSound
  <2>3. req[v].session \in Sessions
    BY <1>2 DEF Executer!Request
  <2> QED
    BY <2>1, <2>2, <2>3 DEF Executer!SessionOf
<1>6. ASSUME Executer!StartRenewal(v) PROVE Own
  <2>1. /\ req'[v].copy.token = req[v].copy.token /\ store' = store
    BY <1>2, <1>6 DEF Executer!StartRenewal, Executer!WithCopy, Executer!Request
  <2>2. pc'[v] \in {"refreshing", "authenticating"}
    BY <1>2, <1>6 DEF Executer!StartRenewal
  <2>3. r # v
    BY <2>2 DEF Fresh, Renewing
  <2> QED
    BY <1>2, <1>6, <2>1, <2>3 DEF Executer!StartRenewal
<1>7. ASSUME GiveUp(v) PROVE Own
  <2>1. r # v
    BY <1>7 DEF GiveUp, Fresh
  <2>2. Executer!GiveUp(v)
    BY <1>7 DEF GiveUp
  <2> DEFINE q == Executer!WithCopy(v, req[v].copy.token, 0)
  <2>3. q.copy.token = req[v].copy.token /\ q \in Executer!Request
    <3>1. req[v].copy.token \in Executer!JwtToken
      BY <1>2 DEF Executer!Request, Executer!Session
    <3> QED
      BY <1>0, <3>1, WithCopyFacts
  <2>4. Executer!WebApiException(v, q) /\ store' = store
    BY <2>2 DEF Executer!GiveUp
  <2> HIDE DEF q
  <2> QED
    BY <1>2, <2>1, <2>3, <2>4
       DEF Executer!WebApiException, Executer!EndWith, Executer!Request
<1>8. ASSUME Executer!CallEnds(v), unrenewed' = unrenewed PROVE Own
  <2>1. /\ req'[v].copy = req[v].copy /\ req'[v].modified = req[v].modified
        /\ store' = store /\ ~Renewing(v)
        /\ \A u \in Requests : u # v => req'[u] = req[u] /\ pc'[u] = pc[u]
    BY <1>2, <1>8
       DEF Executer!CallEnds, Executer!WebApiException, Executer!EndWith,
           Executer!Request, Renewing
  <2> QED
    BY <1>8, <2>1 DEF Fresh
<1>9. ASSUME Executer!Commit(v) PROVE Own
  <2>1. req'[v].copy.token.id = 0 /\ req'[v].modified = FALSE
    BY <1>2, <1>9
       DEF Executer!Commit, Executer!NewRequest, Executer!EmptySession, Executer!NoToken
  <2>2. r # v
    BY <2>1 DEF Fresh
  <2>3. \A s \in Sessions : store'[s] = store[s] \/ store'[s] = req[v].copy
    BY <1>2, <1>9 DEF Executer!Commit
  <2>4. \A u \in Requests : u # v => req'[u] = req[u] /\ pc'[u] = pc[u]
    BY <1>2, <1>9 DEF Executer!Commit
  <2> QED
    BY <2>1, <2>2, <2>3, <2>4
<1>10. Own
  <2>1. Alone(v) => unrenewed' = unrenewed
    BY DEF Alone, linkVars
  <2> QED
    BY <1>3, <1>4, <1>5, <1>6, <1>7, <1>8, <1>9, <2>1, Zenon DEF Alone, Commit
<1>11. Fresh(r)
  BY <1>1, <1>10 DEF Fresh, Renewing
<1>12. Unshared(r) /\ req[r].copy.token.id # 0
  BY <1>11, FreshFacts
<1>13. /\ req'[r].copy.token = req[r].copy.token
       /\ \A s \in Sessions : store'[s].token.id # req[r].copy.token.id
       /\ \A u \in Requests : u # r => req'[u].copy.token.id # req[r].copy.token.id
  BY <1>10, <1>12 DEF Unshared
<1> QED
  BY <1>1, <1>11, <1>13, UnsharedAside

LEMMA UnsharedIdle ==
  ASSUME FreshIInv, UNCHANGED <<pc, req, authorityVars, linkVars>>,
         \A s \in Sessions : store'[s] = store[s] \/ store'[s].token.id = 0,
         NEW r \in Requests, Fresh(r)'
  PROVE  Unshared(r)'
<1>1. Fresh(r)
  BY DEF Fresh, Renewing, linkVars
<1>2. Unshared(r) /\ req[r].copy.token.id # 0
  BY <1>1, FreshFacts
<1> QED
  BY <1>1, <1>2, UnsharedAside DEF Unshared, authorityVars, linkVars

LEMMA UnsharedRestart ==
  ASSUME FreshIInv, AuthorityRestarts \/ FrontEndRestarts, NEW r \in Requests, Fresh(r)'
  PROVE  Unshared(r)'
<1>1. CASE FrontEndRestarts
  <2>1. req'[r].modified = FALSE
    BY <1>1 DEF FrontEndRestarts, Executer!Restart, Executer!NewRequest
  <2> QED
    BY <2>1 DEF Fresh
<1>2. CASE AuthorityRestarts
  <2>1. /\ UNCHANGED <<pc, req, store, answered, unrenewed, table>>
        /\ \A w \in Workers : work'[w].token = None
    BY <1>2 DEF AuthorityRestarts, Authority!Crash, Authority!Idle, executerVars
  <2>2. Fresh(r)
    BY <2>1 DEF Fresh, Renewing
  <2> QED
    BY <2>1, <2>2, FreshFacts, UnsharedAside DEF Unshared
<1> QED
  BY <1>1, <1>2

LEMMA NextFresh == FreshIInv /\ [Next]_vars => FreshIInv'
<1> SUFFICES ASSUME FreshIInv, [Next]_vars PROVE FreshIInv'
  OBVIOUS
<1>1. IInv' /\ LoadedSound'
  BY NextIInv, NextLoaded DEF FreshIInv
<1>2. ASSUME NEW r \in Requests, Fresh(r)' PROVE Unshared(r)'
  <2>1. store \in [Sessions -> Executer!Session]
    BY DEF FreshIInv, IInv, Executer!TypeOK
  <2>2. ASSUME NEW s \in Sessions, ExpireSession(s) PROVE Unshared(r)'
    <3>1. /\ UNCHANGED <<pc, req, authorityVars, linkVars>>
          /\ \A u \in Sessions : store'[u] = store[u] \/ store'[u].token.id = 0
      BY <2>1, <2>2 DEF ExpireSession, Executer!ExpireSession, Executer!EmptySession,
                        Executer!NoToken
    <3> QED
      BY <1>2, <3>1, UnsharedIdle
  <2>3. ASSUME Tick \/ UNCHANGED vars PROVE Unshared(r)'
    <3>1. UNCHANGED <<pc, req, store, authorityVars, linkVars>>
      BY <2>3 DEF Tick, Executer!Tick, vars, executerVars
    <3> QED
      BY <1>2, <3>1, UnsharedIdle
  <2> QED
    BY <1>2, <2>2, <2>3, UnsharedSent, UnsharedGranted, UnsharedFailed, UnsharedAlone,
       UnsharedServed, UnsharedRestart, Zenon DEF Next
<1>3. FreshSound'
  BY <1>2, Zenon DEF FreshSound
<1> QED
  BY <1>1, <1>3 DEF FreshIInv

(* What a request brings back after a renewal is a refresh token the         *)
(* authority accepts, whatever the requests that overlap do to the session *)
(* (SaveTokenToSession and the commit of the copy).                        *)
THEOREM RenewedStaysUnspent == Spec => []RenewedIsUnspent
<1>1. Init => FreshIInv
  <2> SUFFICES ASSUME Init PROVE FreshIInv
    OBVIOUS
  <2>1. \A r \in Requests : pc[r] = "idle" /\ req[r].modified = FALSE
    BY DEF Init, Executer!Init, Executer!NewRequest
  <2> QED
    BY <2>1, InitIInv DEF FreshIInv, LoadedSound, Unloaded, FreshSound, Fresh
<1>2. FreshIInv => RenewedIsUnspent
  BY DEF FreshIInv, FreshSound, Fresh, Unshared, Renewing, RenewedIsUnspent
<1> QED
  BY <1>1, <1>2, NextFresh, PTL DEF Spec

(* The authority of the composition is the one of RefreshTokens, and keeps   *)
(* what is proved of it.                                                   *)
THEOREM ServesTokens == Spec => Authority!Spec
<1>1. Init => Authority!Init
  BY DEF Init
<1>2. IInv /\ [Next]_vars => [Authority!Next]_(Authority!vars)
  BY ServiceStep
<1> QED
  BY <1>1, <1>2, Inductive, PTL DEF Spec, Authority!Spec

(* What is proved of the components alone holds of them together.            *)
LEMMA FrontSpec == Spec => Front!Spec
<1>1. Init => Front!Init
  BY FrontInit DEF Init
<1>2. IInv /\ [Next]_vars => [Front!Next]_(Front!vars)
  <2> SUFFICES ASSUME IInv, [Next]_vars PROVE [Front!Next]_(Front!vars)
    OBVIOUS
  <2>1. UNCHANGED Executer!vars => UNCHANGED Front!vars
    BY DEF Executer!vars, Front!vars
  <2> QED
    BY <2>1, FrontStep, FrontNext
<1> QED
  BY <1>1, <1>2, Inductive, PTL DEF Spec, Front!Spec

LEMMA ServiceSpec == Spec => Service!Spec
<1>1. Init => Service!Init
  BY ServiceInit DEF Init
<1>2. IInv /\ [Next]_vars => [Service!Next]_(Service!vars)
  <2> SUFFICES ASSUME IInv, [Next]_vars PROVE [Service!Next]_(Service!vars)
    OBVIOUS
  <2>1. UNCHANGED Authority!vars => UNCHANGED Service!vars
    BY DEF Authority!vars, Service!vars
  <2> QED
    BY <2>1, ServiceStep, ServiceNext
<1> QED
  BY <1>1, <1>2, Inductive, PTL DEF Spec, Service!Spec

(* No call of the shirts API is sent with an access token it has stopped     *)
(* accepting, with the authority of this repository in the place of the    *)
(* one WebApiExecuter assumes (TokenExpiryBufferSeconds).                  *)
THEOREM CallsLive == Spec => []Executer!LiveWhenSent
<1>1. Front!Spec => []Front!LiveWhenSent
  BY FrontAssumptions, Front!BufferCoversTransit
<1>2. Front!LiveWhenSent => Executer!LiveWhenSent
  BY DEF Front!LiveWhenSent, Executer!LiveWhenSent
<1> QED
  BY <1>1, <1>2, FrontSpec, PTL

(* Permits and lock are never waited for in a circle, however long the       *)
(* authority of this repository takes over a call and whatever it answers  *)
(* (_apiCallLock and _authLock of WebApiExecuter).                         *)
THEOREM FrontGoesOn == Spec => []Executer!SomebodyGoesOn
<1>1. Front!Spec => []Front!SomebodyGoesOn
  BY FrontAssumptions, Front!NoDeadlock
<1>2. Front!SomebodyGoesOn => Executer!SomebodyGoesOn
  BY DEF Front!SomebodyGoesOn, Executer!SomebodyGoesOn, Front!CanGoOn, Executer!CanGoOn,
         Front!IsTokenValid, Executer!IsTokenValid
<1> QED
  BY <1>1, <1>2, FrontSpec, PTL

(* Nor do the retries of the front end and the faults of the authority keep  *)
(* a request going round: every step brings it nearer to its end.          *)
THEOREM FrontEnds == Spec => Executer!EveryStepIsNearer
<1> DEFINE Nearer(r) == pc[r] # "idle" /\ (pc'[r] # pc[r] \/ req'[r] # req[r])
                          => Executer!StepsLeft(r)' < Executer!StepsLeft(r)
<1>1. Front!Spec => Front!EveryStepIsNearer
  BY FrontAssumptions, Front!NoRetryForEver
<1>2. ASSUME NEW r PROVE Front!StepsLeft(r) = Executer!StepsLeft(r)
  BY DEF Front!StepsLeft, Executer!StepsLeft, Front!StepsAhead, Executer!StepsAhead
<1>3. ASSUME NEW r PROVE Front!StepsLeft(r)' = Executer!StepsLeft(r)'
  BY DEF Front!StepsLeft, Executer!StepsLeft, Front!StepsAhead, Executer!StepsAhead
<1>4. [\A r \in Requests :
         pc[r] # "idle" /\ (pc'[r] # pc[r] \/ req'[r] # req[r])
           => Front!StepsLeft(r)' < Front!StepsLeft(r)]_(Front!vars)
      => [\A r \in Requests : Nearer(r)]_(Executer!vars)
  BY <1>2, <1>3 DEF Front!vars, Executer!vars
<1> QED
  BY <1>1, <1>4, FrontSpec, PTL DEF Front!EveryStepIsNearer, Executer!EveryStepIsNearer

(* A refresh token of the authority, with the front end as its only client,  *)
(* lives the life TokenLifecycle allows, calls that nobody waits for any   *)
(* more included (RefreshAccessTokenAsync behind a timeout).               *)
THEOREM Descends == Spec => Authority!Lifecycle
<1>1. Service!Spec => Service!Lifecycle
  BY ServiceAssumptions, Service!Refines
<1>2. Service!Abstract!Init => Authority!Abstract!Init
  BY DEF Service!Abstract!Init, Authority!Abstract!Init
<1>3. Service!Abstract!vars = Authority!Abstract!vars
  BY DEF Service!Abstract!vars, Authority!Abstract!vars
<1>4. ASSUME NEW p PROVE Service!Abstract!Cardinality(Service!Abstract!Successors(p))
                           = Authority!Abstract!Cardinality(Authority!Abstract!Successors(p))
  BY DEF Service!Abstract!Cardinality, Authority!Abstract!Cardinality,
         Service!Abstract!Successors, Authority!Abstract!Successors
<1>5. Service!Abstract!Next => Authority!Abstract!Next
  <2>1. ASSUME NEW t \in Tokens
        PROVE  \A c : Service!Abstract!Issue(t, c) => Authority!Abstract!Issue(t, c)
    BY DEF Service!Abstract!Issue, Authority!Abstract!Issue
  <2>2. ASSUME NEW t \in Tokens
        PROVE  Service!Abstract!Revoke(t) => Authority!Abstract!Revoke(t)
    BY DEF Service!Abstract!Revoke, Authority!Abstract!Revoke
  <2>3. ASSUME NEW p \in Tokens, NEW t \in Tokens
        PROVE  Service!Abstract!Derive(p, t) => Authority!Abstract!Derive(p, t)
    <3>1. Service!Cardinality(Workers) = Authority!Cardinality(Workers)
      BY DEF Service!Cardinality, Authority!Cardinality
    <3> QED
      BY <1>4, <3>1 DEF Service!Abstract!Derive, Authority!Abstract!Derive
  <2> QED
    BY <2>1, <2>2, <2>3 DEF Service!Abstract!Next, Authority!Abstract!Next
<1>6. [Service!Abstract!Next]_(Service!Abstract!vars)
        => [Authority!Abstract!Next]_(Authority!Abstract!vars)
  BY <1>3, <1>5 DEF Service!Abstract!vars, Authority!Abstract!vars
<1> QED
  BY <1>1, <1>2, <1>6, ServiceSpec, PTL DEF Service!Lifecycle, Authority!Lifecycle,
     Service!Abstract!Spec, Authority!Abstract!Spec
=============================================================================

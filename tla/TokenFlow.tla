------------------------------ MODULE TokenFlow ------------------------------
(***************************************************************************)
(* The front end and the authority together: the renewals of              *)
(* WebApiExecuter are HTTP calls that RefreshTokens serves.  A call waits  *)
(* in the network, is served step by step by a slot of the authority, and  *)
(* its answer is stored by the front end, unless it has given up on it:    *)
(* then the slot works on, and its answer is heard by nobody.              *)
(*                                                                         *)
(* The front end knows the tokens by the order in which they were answered; *)
(* it never shows one to anybody but the authority, so nothing else is     *)
(* presented here, and it never revokes one.  Its client id is the default *)
(* client's and so are its credentials: they are not refused, and the      *)
(* application is never missing.                                           *)
(*                                                                         *)
(* Bounds: Requests, Tokens, Workers, MaxTime, MaxFaults, and one          *)
(* DeleteShirt in progress at a time.                                      *)
(***************************************************************************)
EXTENDS Integers, FiniteSets, Sequences

CONSTANTS Sessions, Requests, MaxApiConcurrency, MaxTokenRefreshRetries,
          TokenExpiryBuffer, HttpTimeout, AccessTtl, RefreshTtl, MaxTime,
          Tokens, Workers, Unknown, None, MaxFaults,
          Client,   \* AppCredential:ClientId
          Blank, Stranger,   \* the client ids it never sends
          Broken    \* a connection the authority's end has dropped

ASSUME FrontAssumption ==
  /\ IsFiniteSet(Requests)
  /\ MaxApiConcurrency \in Nat \ {0}
  /\ MaxTokenRefreshRetries \in Nat \ {0}
  /\ TokenExpiryBuffer \in Nat /\ HttpTimeout \in Nat /\ AccessTtl \in Nat
  /\ HttpTimeout <= TokenExpiryBuffer /\ HttpTimeout < AccessTtl
ASSUME ServiceAssumption ==
  /\ IsFiniteSet(Tokens) /\ IsFiniteSet(Workers)
  /\ None \notin Tokens \cup Workers \cup {Client, Broken, Unknown}
  /\ Unknown \notin Tokens /\ Broken \notin Workers
  /\ Client \notin {Blank, Stranger} /\ Blank # Stranger
  /\ None \notin {Blank, Stranger}
  /\ RefreshTtl \in Nat \ {0} /\ MaxTime \in Nat /\ MaxFaults \in Nat

VARIABLES store, pc, req, apiFree, authFree, failures,        \* WebApiExecuter
          table, work, known, origin, stranded, faults,       \* RefreshTokens
          now,
          answered,    \* the tokens the front end was given, in order
          call,        \* call[r]: the slot that serves r's renewal; None is
                       \* in the network or not a call
          unrenewed    \* history: the requests whose last renewal failed

executerVars == <<store, pc, req, apiFree, authFree, failures>>
authorityVars == <<table, work, known, origin, stranded, faults>>
linkVars == <<answered, call, unrenewed>>
vars == <<executerVars, authorityVars, linkVars, now>>

(* The tokens, by number, that were answered and for which no other one was. *)
Unexchanged ==
  {i \in 1 .. Len(answered) :
     \A j \in 1 .. Len(answered) : origin[answered[j]].parent # answered[i]}

Executer == INSTANCE WebApiExecuter WITH issued <- Len(answered),
                                         live <- Unexchanged,
                                         MaxTokens <- Cardinality(Tokens),
                                         MaxDeletes <- 1

Authority == INSTANCE RefreshTokens WITH req <- work, Clients <- {Client}

TypeOK == /\ answered \in Seq(Tokens)
          /\ call \in [Requests -> Workers \cup {None, Broken}]
          /\ unrenewed \subseteq Requests

Init == /\ answered = <<>>
        /\ call = [r \in Requests |-> None]
        /\ unrenewed = {}
        /\ Authority!Init
        /\ Executer!Init

-----------------------------------------------------------------------------
Renewing(r) == pc[r] \in {"refreshing", "authenticating"}

(* Slots that work for a caller who has gone. *)
Abandoned == {w \in Workers : /\ work[w].pc # "idle"
                              /\ \A r \in Requests : call[r] # w}

(* The bound on faults: what is abandoned is going to be a lost answer.     *)
FaultsLeft(n) == faults + Cardinality(Abandoned) + n <= MaxFaults

(* PostAsJsonAsync: the call reaches the authority. *)
Presented(r) == answered[req[r].copy.token.id]

SendRefresh(r, w) ==
  /\ pc[r] = "refreshing" /\ call[r] = None /\ Executer!InTime(r)
  /\ Authority!AcceptRefresh(w, Client, Presented(r))
  /\ call' = [call EXCEPT ![r] = w]
  /\ UNCHANGED <<executerVars, answered, unrenewed>>

SendCredentials(r, w) ==
  /\ pc[r] = "authenticating" /\ call[r] = None /\ Executer!InTime(r)
  /\ Authority!AcceptIssue(w, Client)
  /\ call' = [call EXCEPT ![r] = w]
  /\ UNCHANGED <<executerVars, answered, unrenewed>>

(* The instant at which the authority computed the expiries it answers.    *)
IssuedAt(w) == work[w].expiresAt - RefreshTtl

(* The answer arrives in time: a token is stored, a refused refresh is      *)
(* followed by the credentials, refused credentials are an exception.      *)
Exchanged(w) == {i \in 1 .. Len(answered) : answered[i] = work[w].token}

Granted(r) ==
  /\ Renewing(r) /\ call[r] \in Workers
  /\ work[call[r]].status = 200
  /\ Authority!Reply(call[r])
  /\ answered' = Append(answered, work[call[r]].issued)
  /\ call' = [call EXCEPT ![r] = None]
  /\ unrenewed' = unrenewed \ {r}
  /\ Executer!Renewed(r, IssuedAt(call[r]), Exchanged(call[r]))

Refused(r) ==
  /\ Renewing(r) /\ call[r] \in Workers /\ Executer!InTime(r)
  /\ work[call[r]].status # 200
  /\ Authority!Reply(call[r])
  /\ call' = [call EXCEPT ![r] = None]
  /\ unrenewed' = IF pc[r] = "authenticating" THEN unrenewed \cup {r} ELSE unrenewed
  /\ UNCHANGED answered
  /\ Executer!RefreshFailed(r) \/ Executer!AuthenticationRefused(r)

(* HttpRequestException, or the timeout: whatever the authority does about  *)
(* the call, nobody waits for its answer.  (A mutant: the answer of an      *)
(* abandoned call is taken for the one of the next.)                       *)
HangUpLate(r) == UNCHANGED call
HangUp(r) == call' = [call EXCEPT ![r] = None]

NoAnswer(r) ==
  /\ Renewing(r)
  /\ FaultsLeft(IF call[r] \in Workers THEN 1 ELSE 0)
  /\ HangUp(r)
  /\ unrenewed' = IF pc[r] = "authenticating" THEN unrenewed \cup {r} ELSE unrenewed
  /\ UNCHANGED <<authorityVars, answered>>
  /\ Executer!RefreshFailed(r) \/ Executer!AuthenticationFailed(r)

-----------------------------------------------------------------------------
(* What the authority does on its own, for a caller who waits or has gone. *)
Serve(w) ==
  /\ \/ Authority!Authenticated(w)
     \/ Authority!Lookup(w) \/ Authority!LookupRefused(w)
     \/ Authority!SaveOld(w) \/ Authority!ReadApp(w)
     \/ \E t \in Tokens : Authority!Insert(w, t)
  /\ UNCHANGED <<executerVars, linkVars>>

ServeFails(w) ==
  /\ FaultsLeft(1)
  /\ Authority!DatabaseError(w)
  /\ UNCHANGED <<executerVars, linkVars>>

Unheard(w) ==
  /\ w \in Abandoned
  /\ Authority!LoseReply(w)
  /\ UNCHANGED <<executerVars, linkVars>>

AuthorityRestarts ==
  /\ FaultsLeft(1)
  /\ Authority!Crash
  /\ call' = [r \in Requests |-> IF call[r] \in Workers THEN Broken ELSE call[r]]
  /\ UNCHANGED <<executerVars, answered, unrenewed>>

-----------------------------------------------------------------------------
(* What the front end does without the authority.                           *)
Begin(r, s, d) ==
  /\ UNCHANGED <<authorityVars, linkVars>>
  /\ Executer!Begin(r, s, d)

Alone(r) ==
  /\ UNCHANGED <<authorityVars, linkVars>>
  /\ \/ Executer!AcquireApi(r) \/ Executer!Prepare(r)
     \/ Executer!AcquireAuth(r) \/ Executer!StartRenewal(r) \/ Executer!CallEnds(r)

GiveUp(r) ==
  /\ UNCHANGED <<authorityVars, answered, call>>
  /\ unrenewed' = unrenewed \cup {r}
  /\ Executer!GiveUp(r)

Commit(r) ==
  /\ UNCHANGED <<authorityVars, answered, call>>
  /\ unrenewed' = unrenewed \ {r}
  /\ Executer!Commit(r)

ExpireSession(s) ==
  /\ UNCHANGED <<authorityVars, linkVars>>
  /\ Executer!ExpireSession(s)

FrontEndRestarts ==
  /\ FaultsLeft(Cardinality({r \in Requests : call[r] \in Workers}))
  /\ UNCHANGED <<authorityVars, answered>>
  /\ call' = [r \in Requests |-> None]
  /\ unrenewed' = {}
  /\ Executer!Restart

Tick == UNCHANGED <<authorityVars, linkVars>> /\ Executer!Tick

Next == \/ \E r \in Requests, w \in Workers : SendRefresh(r, w) \/ SendCredentials(r, w)
        \/ \E r \in Requests : \/ Granted(r) \/ Refused(r) \/ NoAnswer(r)
                               \/ Alone(r) \/ GiveUp(r) \/ Commit(r)
        \/ \E w \in Workers : Serve(w) \/ ServeFails(w) \/ Unheard(w)
        \/ \E r \in Requests, s \in Sessions, d \in BOOLEAN : Begin(r, s, d)
        \/ \E s \in Sessions : ExpireSession(s)
        \/ AuthorityRestarts \/ FrontEndRestarts \/ Tick

Spec == Init /\ [][Next]_vars

-----------------------------------------------------------------------------
(* Every token a session or a request has was answered, and no token was     *)
(* answered twice.                                                         *)
TokensSound ==
  /\ \A i \in 1 .. Len(answered) :
       /\ answered[i] \in known
       /\ \A j \in 1 .. Len(answered) : answered[i] = answered[j] => i = j
  /\ \A s \in Sessions : store[s].token.id <= Len(answered)
  /\ \A r \in Requests : /\ req[r].copy.token.id <= Len(answered)
                         /\ pc[r] = "refreshing" => req[r].copy.token.id # 0
                         /\ req[r].sentAt <= now

(* A slot that serves r serves what r waits for; the token it exchanges has  *)
(* no answered successor yet, whatever exchanges were abandoned before; and *)
(* it computes the expiry between the sending of the call and the answer.  *)
Succeeding(w) == work[w].pc = "reply" /\ work[w].status = 200

Dated(w) == \/ work[w].op = "issue" /\ work[w].pc = "readApp"
            \/ work[w].pc = "insert"
            \/ Succeeding(w)

CallSound(r, w) ==
  /\ work[w].op = IF pc[r] = "refreshing" THEN "refresh" ELSE "issue"
  /\ pc[r] = "refreshing" =>
       /\ work[w].pc = "lookup" \/ Authority!Exchanging(w) \/ Succeeding(w)
            => work[w].token = Presented(r)
       /\ Authority!Exchanging(w) \/ Succeeding(w)
            => req[r].copy.token.id \in Unexchanged
  /\ Dated(w) => IssuedAt(w) \in req[r].sentAt .. now

(* The front end and the authority agree on what is under way.  HttpClient    *)
(* never takes the answer of a call it has given up for the one of another. *)
LinksSound ==
  /\ TypeOK /\ TokensSound
  /\ \A r \in Requests : /\ call[r] # None => Renewing(r)
                         /\ call[r] \in Workers => CallSound(r, call[r])

(* What WebApiExecuter assumes of the authority is what RefreshTokens does, *)
(* whatever becomes of the calls: a token is exchanged for the front end at *)
(* most once, and was issued between the sending of the call and the       *)
(* arrival of the answer.                                                  *)
ExecuterView == Executer!Spec

(* _authLock and the timeout make single use of a token, which the service  *)
(* does not enforce on requests that overlap: whatever is abandoned and    *)
(* tried again, the front end is never given two tokens for one.           *)
AnsweredOnce ==
  \A i, j \in 1 .. Len(answered) :
    /\ origin[answered[i]].parent = origin[answered[j]].parent
    /\ origin[answered[i]].parent # None
    => i = j

(* The inductive invariant of the theorems: both sides keep what they keep   *)
(* alone, and their links are sound.                                       *)
IInv == /\ Executer!TypeOK /\ Executer!PermitsConserved
        /\ Authority!IInv
        /\ LinksSound /\ AnsweredOnce

(* SaveTokenToSession writes to the request's own copy, and the last commit *)
(* of a session wins.  A request that renewed brings back a refresh token   *)
(* that is not revoked, whatever other requests of its session did; only   *)
(* one whose renewal failed can put a revoked one back.                    *)
RenewedIsUnspent ==
  \A r \in Requests \ unrenewed :
    pc[r] \in {"calling", "commit"} /\ req[r].modified =>
      ~Authority!IsRevoked(Presented(r))
=============================================================================

---------------------------- MODULE RefreshTokens ----------------------------
(***************************************************************************)
(* The refresh tokens of webapi: AuthorityController, Authenticator and    *)
(* RefreshTokenService over the RefreshTokens table.  The server handles   *)
(* several requests at once, each on a DbContext of its own; between two   *)
(* awaits on the database any other request may run.  A process variable   *)
(* req[w] holds the locals of the request in slot w; the table survives a  *)
(* crash, the requests do not.                                             *)
(*                                                                         *)
(* Bounds: Tokens, Workers, MaxTime and MaxFaults.                         *)
(***************************************************************************)
EXTENDS Integers, FiniteSets

CONSTANTS Clients,     \* ids of the registered applications
          Blank,       \* an empty client id
          Stranger,    \* a client id no application is registered under
          Tokens,      \* what GenerateSecureToken may draw
          Unknown,     \* a presented string that was never issued
          None,        \* null
          Workers,     \* the requests in progress at the same time
          RefreshTtl,  \* JwtOptions.RefreshTokenExpiryMinutes
          MaxTime,     \* bound on the clock
          MaxFaults    \* bound on database errors, lost answers and crashes

ASSUME TokensAssumption == /\ None \notin Tokens /\ None \notin Clients
                           /\ None \notin Workers
                           /\ Unknown \notin Tokens /\ Unknown # None
ASSUME ClientsAssumption == /\ Blank \notin Clients /\ Stranger \notin Clients
                            /\ Blank # Stranger
                            /\ None \notin {Blank, Stranger}
ASSUME FiniteAssumption == IsFiniteSet(Tokens) /\ IsFiniteSet(Workers)
ASSUME BoundsAssumption == /\ RefreshTtl \in Nat \ {0}
                           /\ MaxTime \in Nat
                           /\ MaxFaults \in Nat

VARIABLES table,     \* table[t]  : the row of token t
          req,       \* req[w]    : the request in slot w
          known,     \* the tokens that reached a client in an answer
          now,       \* DateTime.UtcNow
          origin,    \* history: the exchange that produced token t
          stranded,  \* history: tokens whose exchange was cut short, and why
          faults     \* database errors, lost answers and crashes so far

vars == <<table, req, known, now, origin, stranded, faults>>

-----------------------------------------------------------------------------
(* What a request may name as its client: RefreshRequest.ClientId is        *)
(* required to be there, not to be of an application.                      *)
ClientIds == Clients \cup {Blank, Stranger}

(* A row: "absent" is no row, IsRevoked is "revoked".  revokedBy says which *)
(* address RevokedByIp holds: the peer's (RemoteIpAddress) or the client's  *)
(* (X-Forwarded-For first).                                                *)
Row == [status    : {"absent", "active", "revoked"},
        client    : Clients \cup {None},
        expiresAt : Nat,
        revokedAt : Nat,
        revokedBy : {"nobody", "remote", "forwarded"}]

AbsentRow == [status |-> "absent", client |-> None, expiresAt |-> 0,
              revokedAt |-> 0, revokedBy |-> "nobody"]

(* The three columns both revocations write.  (A mutant: RevokedByIp left to *)
(* whatever GetClientIp returns, without "unknown".)                       *)
RevokedRowNullIp(row, at, by) == [row EXCEPT !.status = "revoked", !.revokedAt = at,
                                             !.revokedBy = "null"]
RevokedRow(row, at, by) == [row EXCEPT !.status = "revoked", !.revokedAt = at,
                                       !.revokedBy = by]

(* The locals of a request.  pc names the next database round trip, or     *)
(* "reply" when the answer is on its way.                                  *)
Steps == {"idle", "authenticate", "lookup", "saveOld", "readApp", "insert",
          "find", "saveRevoked", "reply"}
Request == [pc        : Steps,
            op        : {"none", "issue", "refresh", "revoke"},
            token     : Tokens \cup {Unknown, None},
            client    : ClientIds \cup {None},
            checkedAt : Nat,
            expiresAt : Nat,
            revoked   : BOOLEAN,
            issued    : Tokens \cup {None},
            status    : {0, 200, 401, 500}]

Idle == [pc |-> "idle", op |-> "none", token |-> None, client |-> None,
         checkedAt |-> 0, expiresAt |-> 0, revoked |-> FALSE,
         issued |-> None, status |-> 0]

Origin == [parent : Tokens \cup {Unknown, None},
           worker : Workers \cup {None},
           at     : Nat]
NoOrigin == [parent |-> None, worker |-> None, at |-> 0]

TypeOK == /\ table \in [Tokens -> Row]
          /\ req \in [Workers -> Request]
          /\ known \subseteq Tokens
          /\ now \in Nat
          /\ origin \in [Tokens -> Origin]
          /\ stranded \subseteq (Tokens \cup {Unknown, None}) \X {"fault", "blank"}
          /\ faults \in Nat

Init == /\ table = [t \in Tokens |-> AbsentRow]
        /\ req = [w \in Workers |-> Idle]
        /\ known = {}
        /\ now = 0
        /\ origin = [t \in Tokens |-> NoOrigin]
        /\ stranded = {}
        /\ faults = 0

-----------------------------------------------------------------------------
Stored(t) == t \in Tokens /\ table[t].status # "absent"

IsRevoked(t) == Stored(t) /\ table[t].status = "revoked"

(* RefreshToken.IsExpired.  (A mutant: expired only after ExpiresAt.) *)
IsExpiredLate(t) == table[t].expiresAt < now
IsExpired(t) == table[t].expiresAt <= now

(* The test of RefreshAccessTokenAsync on the row the query returned.  The *)
(* query filters on the client id when there is one: with a blank id it    *)
(* finds the row of any client.  (Mutants: each test dropped.)             *)
OfClient(t, c) == c = Blank \/ table[t].client = c

ExchangeableAnyClient(t, c) == Stored(t) /\ ~IsRevoked(t) /\ ~IsExpired(t)
ExchangeableRevoked(t, c) == Stored(t) /\ OfClient(t, c) /\ ~IsExpired(t)
Exchangeable(t, c) == /\ Stored(t)
                      /\ OfClient(t, c)
                      /\ ~IsRevoked(t)
                      /\ ~IsExpired(t)

(* The bound on Tokens: a request that may draw a token is accepted while  *)
(* one is left for it.                                                     *)
Drawing == {w \in Workers : /\ req[w].op \in {"issue", "refresh"}
                            /\ req[w].pc # "reply"}
TokenLeft == Cardinality({t \in Tokens : Stored(t)})
               + Cardinality(Drawing) < Cardinality(Tokens)

Accept(w, first, op, c, t) ==
  /\ req[w].pc = "idle"
  /\ req' = [req EXCEPT ![w] = [Idle EXCEPT !.pc = first, !.op = op,
                                            !.client = c, !.token = t]]
  /\ UNCHANGED <<table, known, now, origin, stranded, faults>>

(* POST auth: client credentials.                                    *)
AcceptIssue(w, c) == TokenLeft /\ Accept(w, "authenticate", "issue", c, None)

(* POST auth/refresh: any client id, be it blank or no application's, with *)
(* any token that was handed out, or with a string that never was.         *)
AcceptRefresh(w, c, t) == TokenLeft /\ Accept(w, "lookup", "refresh", c, t)

(* POST auth/revoke *)
AcceptRevoke(w, t) == Accept(w, "find", "revoke", None, t)

-----------------------------------------------------------------------------
(* A refusal or an exception ends the handler; its locals are gone. *)
Refuse(w, status) ==
  req' = [req EXCEPT ![w] = [Idle EXCEPT !.pc = "reply", !.op = req[w].op,
                                         !.status = status]]

(* AuthenticateAsync; GetToken computes the expiry right after it.         *)
Authenticated(w) ==
  /\ req[w].pc = "authenticate"
  /\ req[w].client \in Clients
  /\ req' = [req EXCEPT ![w] = [@ EXCEPT !.pc = "readApp",
                                         !.expiresAt = now + RefreshTtl]]
  /\ UNCHANGED <<table, known, now, origin, stranded, faults>>

BadCredentials(w) ==
  /\ req[w].pc = "authenticate"
  /\ Refuse(w, 401)
  /\ UNCHANGED <<table, known, now, origin, stranded, faults>>

(* RefreshAccessTokenAsync: query and check the row.  RevokedAt is the     *)
(* instant of the check.  (Mutants: the old token is not revoked; a refused *)
(* token is looked up again.)                                              *)
LookupWithoutRevoking(w) ==
  /\ req[w].pc = "lookup"
  /\ Exchangeable(req[w].token, req[w].client)
  /\ req' = [req EXCEPT ![w] = [@ EXCEPT !.pc = "readApp", !.checkedAt = now]]
  /\ UNCHANGED <<table, known, now, origin, stranded, faults>>

LookupAgain(w) ==
  /\ req[w].pc = "lookup"
  /\ ~Exchangeable(req[w].token, req[w].client)
  /\ UNCHANGED vars

Lookup(w) ==
  /\ req[w].pc = "lookup"
  /\ Exchangeable(req[w].token, req[w].client)
  /\ req' = [req EXCEPT ![w] = [@ EXCEPT !.pc = "saveOld", !.checkedAt = now]]
  /\ UNCHANGED <<table, known, now, origin, stranded, faults>>

LookupRefused(w) ==
  /\ req[w].pc = "lookup"
  /\ ~Exchangeable(req[w].token, req[w].client)
  /\ Refuse(w, 401)
  /\ UNCHANGED <<table, known, now, origin, stranded, faults>>

(* Its first SaveChangesAsync: UPDATE ... WHERE RefreshTokenId = id, which *)
(* does not look at the IsRevoked it overwrites.  (A mutant: every token of *)
(* the client is revoked.)                                                 *)
SaveAllOld(w) ==
  /\ req[w].pc = "saveOld"
  /\ table' = [t \in Tokens |->
                 IF Stored(t) /\ table[t].client = table[req[w].token].client
                 THEN RevokedRow(table[t], req[w].checkedAt, "remote")
                 ELSE table[t]]
  /\ req' = [req EXCEPT ![w] = [@ EXCEPT !.pc = "readApp"]]
  /\ UNCHANGED <<known, now, origin, stranded, faults>>

SaveOld(w) ==
  /\ req[w].pc = "saveOld"
  /\ table' = [table EXCEPT ![req[w].token] =
                 RevokedRow(@, req[w].checkedAt, "remote")]
  /\ req' = [req EXCEPT ![w] = [@ EXCEPT !.pc = "readApp"]]
  /\ UNCHANGED <<known, now, origin, stranded, faults>>

(* The application row for the access token.  The refresh computes the new *)
(* expiry here, the issue has computed it before.  (A mutant: no fallback   *)
(* application, every exchange ends as in AppMissing.)                     *)
ReadAppOrThrow(w) ==
  /\ req[w].pc = "readApp"
  /\ req[w].client \in Clients
  /\ IF req[w].op = "refresh"
     THEN Refuse(w, 500)
     ELSE req' = [req EXCEPT ![w] = [@ EXCEPT !.pc = "insert"]]
  /\ UNCHANGED <<table, known, now, origin, stranded, faults>>

ReadApp(w) ==
  /\ req[w].pc = "readApp"
  /\ req[w].client \in Clients
  /\ req' = [req EXCEPT ![w] = [@ EXCEPT !.pc = "insert",
                                         !.expiresAt = IF req[w].op = "refresh"
                                                        THEN now + RefreshTtl
                                                        ELSE req[w].expiresAt]]
  /\ UNCHANGED <<table, known, now, origin, stranded, faults>>

(* No application under the id, neither in the database nor the fallback:   *)
(* an ArgumentException, when the revocation has been saved already.       *)
AppMissing(w) ==
  /\ req[w].pc = "readApp"
  /\ req[w].client \notin Clients
  /\ Refuse(w, 500)
  /\ stranded' = IF req[w].op = "refresh" /\ req[w].client = Blank
                 THEN stranded \cup {<<req[w].token, "blank">>}
                 ELSE stranded
  /\ UNCHANGED <<table, known, now, origin, faults>>

(* RefreshTokenService.CreateRefreshTokenAsync: draw a token and insert it. *)
Insert(w, t) ==
  /\ req[w].pc = "insert"
  /\ table[t].status = "absent"
  /\ table' = [table EXCEPT ![t] =
                 [AbsentRow EXCEPT !.status = "active",
                                   !.client = req[w].client,
                                   !.expiresAt = req[w].expiresAt]]
  /\ origin' = [origin EXCEPT ![t] = [parent |-> req[w].token, worker |-> w,
                                      at |-> req[w].checkedAt]]
  /\ req' = [req EXCEPT ![w] = [@ EXCEPT !.pc = "reply", !.status = 200,
                                         !.issued = t]]
  /\ UNCHANGED <<known, now, stranded, faults>>

(* RefreshTokenService.RevokeAsync: query by the token alone.  Whatever it  *)
(* returns, RevokeRefreshTokenAsync returns true and the answer is 200.    *)
(* (Mutants: the change is not saved; a revoked token is revoked again.)   *)
FindWithoutSaving(w) ==
  /\ req[w].pc = "find"
  /\ Stored(req[w].token) /\ ~IsRevoked(req[w].token)
  /\ req' = [req EXCEPT ![w] = [@ EXCEPT !.pc = "reply", !.status = 200]]
  /\ UNCHANGED <<table, known, now, origin, stranded, faults>>

FindRevoked(w) ==
  /\ req[w].pc = "find"
  /\ Stored(req[w].token)
  /\ req' = [req EXCEPT ![w] = [@ EXCEPT !.pc = "saveRevoked", !.checkedAt = now]]
  /\ UNCHANGED <<table, known, now, origin, stranded, faults>>

Find(w) ==
  /\ req[w].pc = "find"
  /\ Stored(req[w].token) /\ ~IsRevoked(req[w].token)
  /\ req' = [req EXCEPT ![w] = [@ EXCEPT !.pc = "saveRevoked", !.checkedAt = now]]
  /\ UNCHANGED <<table, known, now, origin, stranded, faults>>

FindNothing(w) ==
  /\ req[w].pc = "find"
  /\ ~Stored(req[w].token) \/ IsRevoked(req[w].token)
  /\ req' = [req EXCEPT ![w] = [@ EXCEPT !.pc = "reply", !.status = 200]]
  /\ UNCHANGED <<table, known, now, origin, stranded, faults>>

SaveRevoked(w) ==
  /\ req[w].pc = "saveRevoked"
  /\ table' = [table EXCEPT ![req[w].token] =
                 RevokedRow(@, req[w].checkedAt, "forwarded")]
  /\ req' = [req EXCEPT ![w] = [@ EXCEPT !.pc = "reply", !.status = 200,
                                         !.revoked = TRUE]]
  /\ UNCHANGED <<known, now, origin, stranded, faults>>

(* The answer reaches the client, which knows the new token from now on.   *)
Reply(w) ==
  /\ req[w].pc = "reply"
  /\ known' = known \cup ({req[w].issued} \ {None})
  /\ req' = [req EXCEPT ![w] = Idle]
  /\ UNCHANGED <<table, now, origin, stranded, faults>>

-----------------------------------------------------------------------------
(* An exchange between the revocation of the old token and the arrival of  *)
(* the new one.                                                            *)
MidExchange(w) == /\ req[w].op = "refresh"
                  /\ \/ req[w].pc \in {"readApp", "insert"}
                     \/ req[w].pc = "reply" /\ req[w].status = 200

Strand(ws) == stranded' = stranded \cup
                {<<req[w].token, "fault">> : w \in {v \in ws : MidExchange(v)}}

(* A database call throws: nothing is written, and the answer is a 500.    *)
DatabaseError(w) ==
  /\ faults < MaxFaults
  /\ req[w].pc \notin {"idle", "reply"}
  /\ Refuse(w, 500)
  /\ Strand({w})
  /\ faults' = faults + 1
  /\ UNCHANGED <<table, known, now, origin>>

(* The client is gone (the 30 s timeout of WebApp's HttpClient).           *)
LoseReply(w) ==
  /\ faults < MaxFaults
  /\ req[w].pc = "reply"
  /\ req' = [req EXCEPT ![w] = Idle]
  /\ Strand({w})
  /\ faults' = faults + 1
  /\ UNCHANGED <<table, known, now, origin>>

(* The process stops and starts again: only the database is left.          *)
Crash ==
  /\ faults < MaxFaults
  /\ req' = [w \in Workers |-> Idle]
  /\ Strand(Workers)
  /\ faults' = faults + 1
  /\ UNCHANGED <<table, known, now, origin>>

Tick == /\ now < MaxTime
        /\ now' = now + 1
        /\ UNCHANGED <<table, req, known, origin, stranded, faults>>

-----------------------------------------------------------------------------
Arrive(w) == \/ \E c \in ClientIds : AcceptIssue(w, c)
             \/ \E c \in ClientIds, t \in known \cup {Unknown} : AcceptRefresh(w, c, t)
             \/ \E t \in known \cup {Unknown} : AcceptRevoke(w, t)

(* What the server does on its own with an accepted request. *)
Serve(w) == \/ Authenticated(w) \/ BadCredentials(w)
            \/ Lookup(w) \/ LookupRefused(w)
            \/ SaveOld(w) \/ ReadApp(w) \/ AppMissing(w)
            \/ \E t \in Tokens : Insert(w, t)
            \/ Find(w) \/ FindNothing(w) \/ SaveRevoked(w)
            \/ Reply(w)

Fail(w) == DatabaseError(w) \/ LoseReply(w)

Next == \/ \E w \in Workers : Arrive(w) \/ Serve(w) \/ Fail(w)
        \/ Crash
        \/ Tick

Spec == Init /\ [][Next]_vars

(* The thread pool runs every continuation: an accepted request proceeds.  *)
FairSpec == Spec /\ \A w \in Workers : WF_vars(Serve(w))

-----------------------------------------------------------------------------
(* The tokens that replaced p. *)
Successors(p) == {t \in Tokens : Stored(t) /\ origin[t].parent = p}

(* A token that replaces another one does so for the same client, after    *)
(* the other one was revoked, and was asked for before that one expired    *)
(* (Authenticator.RefreshAccessTokenAsync checks, saves, then creates).    *)
LineageSound ==
  \A t \in Tokens :
    Stored(t) /\ origin[t].parent # None =>
      /\ IsRevoked(origin[t].parent)
      /\ table[t].client = table[origin[t].parent].client
      /\ origin[t].at < table[origin[t].parent].expiresAt

(* The check and the revocation of RefreshAccessTokenAsync are two round    *)
(* trips, so requests that overlap may all exchange the same token; but no *)
(* request slot exchanges it twice, and it has at most one successor per   *)
(* request in progress.                                                    *)
SuccessorsBoundedByOverlap ==
  \A p \in Tokens : /\ Cardinality(Successors(p)) <= Cardinality(Workers)
                    /\ \A s, t \in Successors(p) :
                         origin[s].worker = origin[t].worker => s = t

(* The exchange in progress: the old row has been checked. *)
Exchanging(w) == /\ req[w].op = "refresh"
                 /\ req[w].pc \in {"saveOld", "readApp", "insert"}

(* A refresh token is used at most once.  Only when requests do not overlap. *)
SingleUse == \A p, s, t \in Tokens :
               s \in Successors(p) /\ t \in Successors(p) => s = t

(* Nobody can revoke or exchange a token before it has been answered to a   *)
(* client: its row stays as CreateRefreshTokenAsync inserted it.           *)
SecretUntilAnswered ==
  \A t \in Tokens \ known : Stored(t) => table[t].status = "active"

(* An answer of auth/refresh carries a token of its client that nobody has *)
(* revoked; an answer of auth/revoke says the token is revoked now, if it was  *)
(* ever issued, although RevokeRefreshTokenAsync ignores what RevokeAsync  *)
(* returns.                                                                *)
AnswersHold ==
  \A w \in Workers : req[w].pc = "reply" /\ req[w].status = 200 =>
     /\ req[w].issued # None =>
           /\ table[req[w].issued].status = "active"
           /\ table[req[w].issued].client = req[w].client
     /\ req[w].op = "revoke" =>
           (Stored(req[w].token) => IsRevoked(req[w].token))

(* The revocation of the old token and the insertion of the new one are two *)
(* transactions, with the lookup of the application in between.  A client  *)
(* whose token was revoked by an exchange is given a successor, or is about *)
(* to be, unless a fault struck in between or a request that names no      *)
(* client exchanged it (GetRefreshTokenAsync finds it, CreateTokenAsync's  *)
(* application is missing).  An id of no application strands nobody.       *)
Provided(p) == \/ Successors(p) \cap known # {}
               \/ \E w \in Workers : req[w].token = p /\ MidExchange(w)
               \/ <<p, "fault">> \in stranded
               \/ <<p, "blank">> \in stranded

StrandedOnlyByFaultOrBlank ==
  \A p \in Tokens : IsRevoked(p) /\ table[p].revokedBy = "remote" => Provided(p)

(* What the handlers rely on at each await, inductive together with the     *)
(* invariants above: the row a request has checked keeps its client and    *)
(* expiry while it waits, an exchange that saved the revocation still finds *)
(* it, a token is in the hands of the one request that replaced its parent *)
(* until it is answered, and no slot is exchanging a token it has           *)
(* exchanged.                                                              *)
LocalsSound ==
  \A w \in Workers :
    /\ req[w].token \in known \cup {Unknown, None}
    /\ req[w].pc = "authenticate" => req[w].op = "issue"
    /\ req[w].pc \in {"lookup", "saveOld"} => req[w].op = "refresh"
    /\ req[w].pc \in {"readApp", "insert"} => req[w].op \in {"issue", "refresh"}
    /\ req[w].op = "issue" => req[w].token = None
    /\ req[w].op \in {"issue", "refresh"} /\ req[w].pc # "reply" =>
         req[w].client \in ClientIds
    /\ req[w].pc = "insert" => req[w].client \in Clients
    /\ req[w].pc \in {"find", "saveRevoked"} => req[w].op = "revoke"
    /\ req[w].pc = "saveRevoked" => req[w].token \in known

ExchangeSound ==
  \A w \in Workers : Exchanging(w) =>
    /\ req[w].token \in known
    /\ OfClient(req[w].token, req[w].client)
    /\ req[w].checkedAt < table[req[w].token].expiresAt
    /\ req[w].pc # "saveOld" => IsRevoked(req[w].token)

HandsSound ==
  \A w \in Workers :
    /\ req[w].issued # None =>
         /\ req[w].pc = "reply" /\ req[w].status = 200
         /\ Stored(req[w].issued)
         /\ req[w].issued \notin known
         /\ origin[req[w].issued].parent = req[w].token
         /\ \A v \in Workers : req[v].issued = req[w].issued => v = w
    /\ req[w].pc = "reply" /\ req[w].status = 200 =>
         (req[w].op \in {"issue", "refresh"} <=> req[w].issued # None)

SlotsSound ==
  \A t \in Tokens : Stored(t) /\ origin[t].parent # None =>
    /\ origin[t].parent \in known
    /\ origin[t].worker \in Workers
    /\ ~ /\ Exchanging(origin[t].worker)
         /\ req[origin[t].worker].token = origin[t].parent
    /\ \A s \in Tokens : /\ Stored(s)
                         /\ origin[s].parent = origin[t].parent
                         /\ origin[s].worker = origin[t].worker
                         => s = t

(* Every token a client has been given is a row of the table. *)
KnownStored == \A t \in known : Stored(t)

(* At each await, what a handler has read and checked before still holds. *)
AwaitsSound == KnownStored /\ LocalsSound /\ ExchangeSound /\ HandsSound /\ SlotsSound

(* The inductive invariant of the theorems. *)
IInv == TypeOK /\ AwaitsSound /\ LineageSound /\ SecretUntilAnswered /\ AnswersHold

(* No two requests are past the check of the same token together: what a    *)
(* client can do for single use, which the service does not.               *)
Using(w) == Exchanging(w) \/ req[w].pc = "saveRevoked"

UsedApart == \A v, w \in Workers :
               v # w /\ Using(v) /\ Using(w) => req[v].token # req[w].token

(* RevokedAt and RevokedByIp of a revoked token never change.  Only when    *)
(* requests do not overlap: both UPDATEs overwrite what they find.         *)
RevocationRecordedOnce ==
  [][\A t \in Tokens : IsRevoked(t) => table'[t] = table[t]]_vars

(* A token its holder revoked (logout) is never exchanged.  Only when       *)
(* requests do not overlap.                                                *)
RevocationSticks ==
  \A t \in Tokens : IsRevoked(t) /\ table[t].revokedBy = "forwarded" =>
                    Successors(t) = {}

(* Every request in progress is answered or dropped. *)
Answered == \A w \in Workers : req[w].pc # "idle" ~> req[w].pc = "idle"

(* The token service implements TokenLifecycle.                             *)
Abstract == INSTANCE TokenLifecycle
              WITH status <- [t \in Tokens |-> table[t].status],
                   owner  <- [t \in Tokens |-> table[t].client],
                   parent <- [t \in Tokens |-> origin[t].parent],
                   MaxSuccessors <- Cardinality(Workers)

Lifecycle == Abstract!Spec

(* AuthorityController.cs, line 117: a revocation that finds no token, or a  *)
(* revoked one, is answered with a 400.                                    *)
UnknownRevocationRefused ==
  \A w \in Workers : req[w].op = "revoke" /\ req[w].pc = "reply"
                       /\ ~req[w].revoked => req[w].status # 200
=============================================================================

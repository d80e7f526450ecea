------------------------- MODULE RefreshTokensProofs -------------------------
(* What TLAPS proves of RefreshTokens, for every value of its constants. *)
EXTENDS RefreshTokens, FiniteSetTheorems, TLAPS

LEMMA InitTypeOK == Init => TypeOK
  BY BoundsAssumption DEF Init, TypeOK, Row, AbsentRow, Request, Idle, Steps,
                          Origin, NoOrigin

(* Accepting a request fills the slot with a well-formed one. *)
LEMMA AcceptTypeOK ==
  ASSUME TypeOK, NEW w \in Workers, NEW first \in Steps,
         NEW op \in {"issue", "refresh", "revoke"}, NEW c \in ClientIds \cup {None},
         NEW t \in Tokens \cup {Unknown, None}, Accept(w, first, op, c, t)
  PROVE  TypeOK'
<1>1. [Idle EXCEPT !.pc = first, !.op = op, !.client = c, !.token = t] \in Request
  BY DEF Idle, Request
<1> QED
  BY <1>1 DEF Accept, TypeOK

LEMMA IdleTypeOK == Idle \in Request
  BY DEF Idle, Request, Steps

(* Assigning one local of a request keeps it well formed. *)
LEMMA AssignTypeOK ==
  ASSUME NEW r \in Request
  PROVE  /\ \A x \in Steps : [r EXCEPT !.pc = x] \in Request
         /\ \A x \in Nat : [r EXCEPT !.checkedAt = x] \in Request
         /\ \A x \in Nat : [r EXCEPT !.expiresAt = x] \in Request
         /\ \A x \in BOOLEAN : [r EXCEPT !.revoked = x] \in Request
         /\ \A x \in Tokens : [r EXCEPT !.issued = x] \in Request
         /\ [r EXCEPT !.status = 200] \in Request
<1>1. ASSUME NEW x \in Steps PROVE [r EXCEPT !.pc = x] \in Request
  BY DEF Request
<1>2. ASSUME NEW x \in Nat PROVE [r EXCEPT !.checkedAt = x] \in Request
  BY DEF Request
<1>3. ASSUME NEW x \in Nat PROVE [r EXCEPT !.expiresAt = x] \in Request
  BY DEF Request
<1>4. ASSUME NEW x \in BOOLEAN PROVE [r EXCEPT !.revoked = x] \in Request
  BY DEF Request
<1>5. ASSUME NEW x \in Tokens PROVE [r EXCEPT !.issued = x] \in Request
  BY DEF Request
<1>6. [r EXCEPT !.status = 200] \in Request
  BY DEF Request
<1> QED
  BY <1>1, <1>2, <1>3, <1>4, <1>5, <1>6

LEMMA RefuseTypeOK ==
  ASSUME TypeOK, NEW w \in Workers, NEW status \in {401, 500}, Refuse(w, status)
  PROVE  req' \in [Workers -> Request]
<1>1. req[w].op \in {"none", "issue", "refresh", "revoke"}
  BY DEF TypeOK, Request
<1>2. [Idle EXCEPT !.pc = "reply", !.op = req[w].op, !.status = status] \in Request
  BY <1>1 DEF Idle, Request, Steps
<1> QED
  BY <1>2 DEF Refuse, TypeOK

LEMMA RevokedRowTypeOK ==
  ASSUME NEW row \in Row, NEW at \in Nat, NEW by \in {"remote", "forwarded"}
  PROVE  RevokedRow(row, at, by) \in Row
  BY DEF RevokedRow, Row

LEMMA StrandTypeOK ==
  ASSUME TypeOK, NEW ws \in SUBSET Workers, Strand(ws)
  PROVE  stranded' \subseteq (Tokens \cup {Unknown, None}) \X {"fault", "blank"}
  BY DEF Strand, TypeOK, Request

(* An inserted row takes its client from the request, of which only its     *)
(* position says that it is an application's.                              *)
LEMMA NextTypeOK == TypeOK /\ LocalsSound /\ [Next]_vars => TypeOK'
<1> SUFFICES ASSUME TypeOK, LocalsSound, [Next]_vars PROVE TypeOK'
  OBVIOUS
<1>1. ASSUME NEW w \in Workers, Arrive(w) PROVE TypeOK'
  <2>1. ASSUME NEW c \in ClientIds, AcceptIssue(w, c) PROVE TypeOK'
    BY <2>1, AcceptTypeOK DEF AcceptIssue, Steps
  <2>2. ASSUME NEW c \in ClientIds, NEW t \in known \cup {Unknown},
               AcceptRefresh(w, c, t)
        PROVE  TypeOK'
    BY <2>2, AcceptTypeOK DEF AcceptRefresh, Steps, TypeOK
  <2>3. ASSUME NEW t \in known \cup {Unknown}, AcceptRevoke(w, t) PROVE TypeOK'
    BY <2>3, AcceptTypeOK DEF AcceptRevoke, Steps, TypeOK
  <2> QED
    BY <1>1, <2>1, <2>2, <2>3 DEF Arrive
<1>2. ASSUME NEW w \in Workers, Serve(w) PROVE TypeOK'
  <2>0. req[w] \in Request /\ now \in Nat
    BY DEF TypeOK
  <2>1. CASE Authenticated(w)
    <3>1. now + RefreshTtl \in Nat
      BY <2>0, BoundsAssumption
    <3>2. [req[w] EXCEPT !.pc = "readApp", !.expiresAt = now + RefreshTtl] \in Request
      BY <2>0, <3>1, AssignTypeOK DEF Steps
    <3> QED
      BY <2>1, <3>2 DEF Authenticated, TypeOK
  <2>2. CASE BadCredentials(w)
    BY <2>2, RefuseTypeOK DEF BadCredentials, TypeOK
  <2>3. CASE Lookup(w)
    <3>1. [req[w] EXCEPT !.pc = "saveOld", !.checkedAt = now] \in Request
      BY <2>0, AssignTypeOK DEF Steps
    <3> QED
      BY <2>3, <3>1 DEF Lookup, TypeOK
  <2>4. CASE LookupRefused(w)
    BY <2>4, RefuseTypeOK DEF LookupRefused, TypeOK
  <2>5. CASE SaveOld(w)
    <3>1. [req[w] EXCEPT !.pc = "readApp"] \in Request
      BY <2>0, AssignTypeOK DEF Steps
    <3>2. req[w].checkedAt \in Nat
      BY <2>0 DEF Request
    <3>3. table' \in [Tokens -> Row]
      BY <2>5, <3>2, RevokedRowTypeOK DEF SaveOld, TypeOK
    <3> QED
      BY <2>5, <3>1, <3>3 DEF SaveOld, TypeOK
  <2>6. CASE ReadApp(w)
    <3>1. now + RefreshTtl \in Nat /\ req[w].expiresAt \in Nat
      BY <2>0, BoundsAssumption DEF Request, TypeOK
    <3>2. ASSUME NEW e \in Nat
          PROVE  [req[w] EXCEPT !.pc = "insert", !.expiresAt = e] \in Request
      BY <2>0, AssignTypeOK DEF Steps
    <3> QED
      BY <2>6, <3>1, <3>2 DEF ReadApp, TypeOK
  <2>7. ASSUME NEW t \in Tokens, Insert(w, t) PROVE TypeOK'
    <3>0. [req[w] EXCEPT !.pc = "reply", !.status = 200] \in Request
      BY <2>0, AssignTypeOK DEF Steps
    <3>1. [req[w] EXCEPT !.pc = "reply", !.status = 200, !.issued = t] \in Request
      BY <3>0, AssignTypeOK
    <3>4. req[w].client \in Clients /\ req[w].expiresAt \in Nat
      BY <2>0, <2>7 DEF Insert, LocalsSound, Request
    <3>2. [AbsentRow EXCEPT !.status = "active", !.client = req[w].client,
                            !.expiresAt = req[w].expiresAt] \in Row
      BY <3>4 DEF AbsentRow, Row
    <3>3. [parent |-> req[w].token, worker |-> w, at |-> req[w].checkedAt] \in Origin
      BY <2>0 DEF Request, Origin
    <3> QED
      BY <2>7, <3>1, <3>2, <3>3 DEF Insert, TypeOK
  <2>8. CASE Find(w)
    <3>1. [req[w] EXCEPT !.pc = "saveRevoked", !.checkedAt = now] \in Request
      BY <2>0, AssignTypeOK DEF Steps
    <3> QED
      BY <2>8, <3>1 DEF Find, TypeOK
  <2>9. CASE FindNothing(w)
    <3>1. [req[w] EXCEPT !.pc = "reply", !.status = 200] \in Request
      BY <2>0, AssignTypeOK DEF Steps
    <3> QED
      BY <2>9, <3>1 DEF FindNothing, TypeOK
  <2>10. CASE SaveRevoked(w)
    <3>0. [req[w] EXCEPT !.pc = "reply", !.status = 200] \in Request
      BY <2>0, AssignTypeOK DEF Steps
    <3>1. [req[w] EXCEPT !.pc = "reply", !.status = 200, !.revoked = TRUE] \in Request
      BY <3>0, AssignTypeOK
    <3>2. req[w].checkedAt \in Nat
      BY <2>0 DEF Request
    <3>3. table' \in [Tokens -> Row]
      BY <2>10, <3>2, RevokedRowTypeOK DEF SaveRevoked, TypeOK
    <3> QED
      BY <2>10, <3>1, <3>3 DEF SaveRevoked, TypeOK
  <2>11. CASE Reply(w)
    <3>1. {req[w].issued} \ {None} \subseteq Tokens
      BY <2>0 DEF Request
    <3> QED
      BY <2>11, <3>1, IdleTypeOK DEF Reply, TypeOK
  <2>12. CASE AppMissing(w)
    <3>1. stranded' \subseteq (Tokens \cup {Unknown, None}) \X {"fault", "blank"}
      BY <2>0, <2>12 DEF AppMissing, TypeOK, Request
    <3> QED
      BY <2>12, <3>1, RefuseTypeOK DEF AppMissing, TypeOK
  <2> QED
    BY <1>2, <2>1, <2>2, <2>3, <2>4, <2>5, <2>6, <2>7, <2>8, <2>9, <2>10, <2>11, <2>12
       DEF Serve
<1>3. ASSUME NEW w \in Workers, Fail(w) PROVE TypeOK'
  <2>1. stranded' \subseteq (Tokens \cup {Unknown, None}) \X {"fault", "blank"}
    BY <1>3, StrandTypeOK DEF Fail, DatabaseError, LoseReply
  <2>2. CASE DatabaseError(w)
    BY <2>1, <2>2, RefuseTypeOK DEF DatabaseError, TypeOK
  <2>3. CASE LoseReply(w)
    BY <2>1, <2>3, IdleTypeOK DEF LoseReply, TypeOK
  <2> QED
    BY <1>3, <2>2, <2>3 DEF Fail
<1>4. CASE Crash
  <2>1. stranded' \subseteq (Tokens \cup {Unknown, None}) \X {"fault", "blank"}
    BY <1>4, StrandTypeOK DEF Crash
  <2> QED
    BY <1>4, <2>1, IdleTypeOK DEF Crash, TypeOK
<1>5. CASE Tick
  BY <1>5 DEF Tick, TypeOK
<1>6. CASE UNCHANGED vars
  BY <1>6 DEF vars, TypeOK
<1> QED
  BY <1>1, <1>2, <1>3, <1>4, <1>5, <1>6 DEF Next

-----------------------------------------------------------------------------
(* A step that leaves the table alone disturbs nothing that is said of rows. *)
LEMMA QuietStep ==
  ASSUME IInv, UNCHANGED <<table, known, origin>>
  PROVE  KnownStored' /\ SecretUntilAnswered' /\ LineageSound'
  BY DEF IInv, AwaitsSound, KnownStored, SecretUntilAnswered, LineageSound, Stored, IsRevoked

LEMMA AcceptStep ==
  ASSUME IInv, TypeOK', NEW w \in Workers, NEW first, NEW op, NEW c, NEW t,
         t \in known \cup {Unknown, None},
         \/ first = "authenticate" /\ op = "issue" /\ t = None /\ c \in ClientIds
         \/ first = "lookup" /\ op = "refresh" /\ c \in ClientIds
         \/ first = "find" /\ op = "revoke",
         Accept(w, first, op, c, t)
  PROVE  IInv'
<1>1. /\ \A v \in Workers : v # w => req'[v] = req[v]
      /\ req'[w].pc = first /\ req'[w].op = op /\ req'[w].token = t
      /\ req'[w].client = c /\ req'[w].issued = None /\ req'[w].status = 0
      /\ UNCHANGED <<table, known, now, origin>>
  BY DEF Accept, Idle, IInv, TypeOK, Request
<1> USE DEF IInv, AwaitsSound, Stored, IsRevoked, Exchanging
<1>2. LocalsSound'
  BY <1>1 DEF LocalsSound
<1>3. ExchangeSound'
  BY <1>1 DEF ExchangeSound, OfClient
<1>4. HandsSound'
  BY <1>1 DEF HandsSound
<1>5. SlotsSound'
  BY <1>1 DEF SlotsSound
<1>6. AnswersHold'
  BY <1>1 DEF AnswersHold
<1> QED
  BY <1>1, <1>2, <1>3, <1>4, <1>5, <1>6, QuietStep

(* A refusal or an error: the request has nothing left to do but to answer. *)
LEMMA RefuseStep ==
  ASSUME IInv, TypeOK', NEW w \in Workers, NEW status \in {401, 500},
         Refuse(w, status), UNCHANGED <<table, known, origin>>
  PROVE  IInv'
<1>1. /\ \A v \in Workers : v # w => req'[v] = req[v]
      /\ req'[w].pc = "reply" /\ req'[w].token = None
      /\ req'[w].issued = None /\ req'[w].status = status
      /\ UNCHANGED <<table, known, origin>>
  BY DEF Refuse, Idle, IInv, TypeOK, Request
<1> USE DEF IInv, AwaitsSound, Stored, IsRevoked, Exchanging
<1>2. LocalsSound'
  BY <1>1 DEF LocalsSound
<1>3. ExchangeSound'
  BY <1>1 DEF ExchangeSound, OfClient
<1>4. HandsSound'
  BY <1>1 DEF HandsSound
<1>5. SlotsSound'
  BY <1>1 DEF SlotsSound
<1>6. AnswersHold'
  BY <1>1 DEF AnswersHold
<1> QED
  BY <1>1, <1>2, <1>3, <1>4, <1>5, <1>6, QuietStep

LEMMA AuthenticatedStep ==
  ASSUME IInv, TypeOK', NEW w \in Workers, Authenticated(w)
  PROVE  IInv'
<1>1. /\ \A v \in Workers : v # w => req'[v] = req[v]
      /\ req[w].pc = "authenticate" /\ req'[w].pc = "readApp"
      /\ req'[w].op = req[w].op /\ req'[w].token = req[w].token
      /\ req'[w].client = req[w].client /\ req'[w].issued = req[w].issued
      /\ UNCHANGED <<table, known, now, origin>>
  BY DEF Authenticated, IInv, TypeOK, Request
<1> USE DEF IInv, AwaitsSound, Stored, IsRevoked, Exchanging
<1>2. LocalsSound'
  BY <1>1 DEF LocalsSound
<1>3. ExchangeSound'
  BY <1>1 DEF ExchangeSound, OfClient, LocalsSound
<1>4. HandsSound'
  BY <1>1 DEF HandsSound
<1>5. SlotsSound'
  BY <1>1 DEF SlotsSound, LocalsSound
<1>6. AnswersHold'
  BY <1>1 DEF AnswersHold
<1> QED
  BY <1>1, <1>2, <1>3, <1>4, <1>5, <1>6, QuietStep

LEMMA LookupStep ==
  ASSUME IInv, TypeOK', NEW w \in Workers, Lookup(w)
  PROVE  IInv'
<1>1. /\ \A v \in Workers : v # w => req'[v] = req[v]
      /\ req[w].pc = "lookup" /\ req'[w].pc = "saveOld"
      /\ req'[w].checkedAt = now
      /\ req'[w].op = req[w].op /\ req'[w].token = req[w].token
      /\ req'[w].client = req[w].client /\ req'[w].issued = req[w].issued
      /\ UNCHANGED <<table, known, now, origin>>
  BY DEF Lookup, IInv, TypeOK, Request
<1> USE DEF IInv, AwaitsSound, Stored, IsRevoked, Exchanging
<1>2. LocalsSound'
  BY <1>1 DEF LocalsSound
<1>3. ExchangeSound'
  BY <1>1, TokensAssumption DEF ExchangeSound, OfClient, Lookup, LocalsSound, Exchangeable,
     IsExpired, SecretUntilAnswered, TypeOK, Row
<1>4. HandsSound'
  BY <1>1 DEF HandsSound
<1>5. SlotsSound'
  BY <1>1 DEF SlotsSound, LineageSound, Lookup, Exchangeable
<1>6. AnswersHold'
  BY <1>1 DEF AnswersHold
<1> QED
  BY <1>1, <1>2, <1>3, <1>4, <1>5, <1>6, QuietStep

LEMMA ReadAppStep ==
  ASSUME IInv, TypeOK', NEW w \in Workers, ReadApp(w)
  PROVE  IInv'
<1>1. /\ \A v \in Workers : v # w => req'[v] = req[v]
      /\ req[w].pc = "readApp" /\ req'[w].pc = "insert" /\ req[w].client \in Clients
      /\ req'[w].checkedAt = req[w].checkedAt
      /\ req'[w].op = req[w].op /\ req'[w].token = req[w].token
      /\ req'[w].client = req[w].client /\ req'[w].issued = req[w].issued
      /\ UNCHANGED <<table, known, now, origin>>
  BY DEF ReadApp, IInv, TypeOK, Request
<1> USE DEF IInv, AwaitsSound, Stored, IsRevoked, Exchanging
<1>2. LocalsSound'
  BY <1>1 DEF LocalsSound
<1>3. ExchangeSound'
  BY <1>1 DEF ExchangeSound, OfClient
<1>4. HandsSound'
  BY <1>1 DEF HandsSound
<1>5. SlotsSound'
  BY <1>1 DEF SlotsSound
<1>6. AnswersHold'
  BY <1>1 DEF AnswersHold
<1> QED
  BY <1>1, <1>2, <1>3, <1>4, <1>5, <1>6, QuietStep

LEMMA FindStep ==
  ASSUME IInv, TypeOK', NEW w \in Workers, Find(w)
  PROVE  IInv'
<1>1. /\ \A v \in Workers : v # w => req'[v] = req[v]
      /\ req[w].pc = "find" /\ req'[w].pc = "saveRevoked"
      /\ req'[w].op = req[w].op /\ req'[w].token = req[w].token
      /\ req'[w].client = req[w].client /\ req'[w].issued = req[w].issued
      /\ UNCHANGED <<table, known, now, origin>>
  BY DEF Find, IInv, TypeOK, Request
<1> USE DEF IInv, AwaitsSound, Stored, IsRevoked, Exchanging
<1>2. LocalsSound'
  BY <1>1, TokensAssumption DEF LocalsSound, Find
<1>3. ExchangeSound'
  BY <1>1 DEF ExchangeSound, OfClient
<1>4. HandsSound'
  BY <1>1 DEF HandsSound
<1>5. SlotsSound'
  BY <1>1 DEF SlotsSound
<1>6. AnswersHold'
  BY <1>1 DEF AnswersHold
<1> QED
  BY <1>1, <1>2, <1>3, <1>4, <1>5, <1>6, QuietStep

LEMMA FindNothingStep ==
  ASSUME IInv, TypeOK', NEW w \in Workers, FindNothing(w)
  PROVE  IInv'
<1>1. /\ \A v \in Workers : v # w => req'[v] = req[v]
      /\ req[w].pc = "find" /\ req'[w].pc = "reply"
      /\ req'[w].op = req[w].op /\ req'[w].token = req[w].token
      /\ req'[w].client = req[w].client /\ req'[w].issued = req[w].issued
      /\ UNCHANGED <<table, known, now, origin>>
  BY DEF FindNothing, IInv, TypeOK, Request
<1> USE DEF IInv, AwaitsSound, Stored, IsRevoked, Exchanging
<1>2. LocalsSound'
  BY <1>1 DEF LocalsSound
<1>3. ExchangeSound'
  BY <1>1 DEF ExchangeSound, OfClient
<1>4. HandsSound'
  BY <1>1 DEF HandsSound, LocalsSound
<1>5. SlotsSound'
  BY <1>1 DEF SlotsSound
<1>6. AnswersHold'
  BY <1>1 DEF AnswersHold, FindNothing, HandsSound
<1> QED
  BY <1>1, <1>2, <1>3, <1>4, <1>5, <1>6, QuietStep

(* The slot becomes free and nobody learns its token. *)
LEMMA DropStep ==
  ASSUME IInv, TypeOK', NEW w \in Workers, req' = [req EXCEPT ![w] = Idle],
         UNCHANGED <<table, known, origin>>
  PROVE  IInv'
<1>1. /\ \A v \in Workers : v # w => req'[v] = req[v]
      /\ req'[w].pc = "idle" /\ req'[w].op = "none" /\ req'[w].token = None
      /\ req'[w].issued = None
      /\ UNCHANGED <<table, known, origin>>
  BY DEF Idle, IInv, TypeOK, Request
<1> USE DEF IInv, AwaitsSound, Stored, IsRevoked, Exchanging
<1>2. LocalsSound'
  BY <1>1 DEF LocalsSound
<1>3. ExchangeSound'
  BY <1>1 DEF ExchangeSound, OfClient
<1>4. HandsSound'
  BY <1>1 DEF HandsSound
<1>5. SlotsSound'
  BY <1>1 DEF SlotsSound
<1>6. AnswersHold'
  BY <1>1 DEF AnswersHold
<1> QED
  BY <1>1, <1>2, <1>3, <1>4, <1>5, <1>6, QuietStep

-----------------------------------------------------------------------------
(* The two revocations change nothing of a row but its revocation. *)
LEMMA RevocationOfRow ==
  ASSUME IInv, NEW tok \in known, NEW at, NEW by,
         table' = [table EXCEPT ![tok] = RevokedRow(@, at, by)],
         UNCHANGED <<known, origin>>
  PROVE  /\ \A t \in Tokens : /\ t # tok => table'[t] = table[t]
                              /\ table'[t].client = table[t].client
                              /\ table'[t].expiresAt = table[t].expiresAt
                              /\ Stored(t)' <=> Stored(t)
                              /\ IsRevoked(t)' <=> (IsRevoked(t) \/ t = tok)
         /\ KnownStored' /\ SecretUntilAnswered' /\ LineageSound'
<1>1. tok \in Tokens /\ Stored(tok)
  BY DEF IInv, AwaitsSound, TypeOK, KnownStored
<1>2. \A t \in Tokens : /\ t # tok => table'[t] = table[t]
                        /\ table'[t].client = table[t].client
                        /\ table'[t].expiresAt = table[t].expiresAt
                        /\ table'[t].status = IF t = tok THEN "revoked"
                                              ELSE table[t].status
  BY <1>1 DEF IInv, AwaitsSound, TypeOK, Row, RevokedRow
<1>3. \A t \in Tokens : /\ Stored(t)' <=> Stored(t)
                        /\ IsRevoked(t)' <=> (IsRevoked(t) \/ t = tok)
  BY <1>1, <1>2 DEF Stored, IsRevoked
<1>4. KnownStored'
  BY <1>3 DEF IInv, AwaitsSound, KnownStored, TypeOK
<1>5. SecretUntilAnswered'
  BY <1>2, <1>3 DEF IInv, AwaitsSound, SecretUntilAnswered
<1>6. LineageSound'
  BY <1>2, <1>3 DEF IInv, AwaitsSound, LineageSound, SlotsSound, TypeOK
<1> QED
  BY <1>2, <1>3, <1>4, <1>5, <1>6

LEMMA SaveOldStep ==
  ASSUME IInv, TypeOK', NEW w \in Workers, SaveOld(w)
  PROVE  IInv'
<1>1. /\ \A v \in Workers : v # w => req'[v] = req[v]
      /\ req[w].pc = "saveOld" /\ req'[w].pc = "readApp"
      /\ req'[w].checkedAt = req[w].checkedAt
      /\ req'[w].op = req[w].op /\ req'[w].token = req[w].token
      /\ req'[w].client = req[w].client /\ req'[w].issued = req[w].issued
      /\ UNCHANGED <<known, now, origin>>
  BY DEF SaveOld, IInv, TypeOK, Request
<1>2. req[w].op = "refresh" /\ req[w].token \in known
  BY <1>1 DEF IInv, AwaitsSound, LocalsSound, ExchangeSound, Exchanging
<1>3. /\ \A t \in Tokens : /\ t # req[w].token => table'[t] = table[t]
                           /\ table'[t].client = table[t].client
                           /\ table'[t].expiresAt = table[t].expiresAt
                           /\ Stored(t)' <=> Stored(t)
                           /\ IsRevoked(t)' <=> (IsRevoked(t) \/ t = req[w].token)
      /\ KnownStored' /\ SecretUntilAnswered' /\ LineageSound'
  BY <1>1, <1>2, RevocationOfRow DEF SaveOld
<1>4. \A v \in Workers : Exchanging(v)' <=> Exchanging(v)
  BY <1>1, <1>2 DEF Exchanging
<1> USE DEF IInv, AwaitsSound
<1>5. LocalsSound'
  BY <1>1, <1>2 DEF LocalsSound
<1>6. ExchangeSound'
  BY <1>1, <1>2, <1>3, <1>4 DEF ExchangeSound, OfClient, TypeOK
<1>7. HandsSound'
  BY <1>1, <1>3 DEF HandsSound, Stored
<1>8. SlotsSound'
  BY <1>1, <1>3, <1>4 DEF SlotsSound
<1>9. AnswersHold'
  <2>1. \A v \in Workers : req[v].issued # None => req[v].issued \notin known
    BY DEF HandsSound
  <2> QED
    BY <1>1, <1>2, <1>3, <2>1 DEF AnswersHold, Stored, IsRevoked, HandsSound
<1> QED
  BY <1>3, <1>5, <1>6, <1>7, <1>8, <1>9

LEMMA SaveRevokedStep ==
  ASSUME IInv, TypeOK', NEW w \in Workers, SaveRevoked(w)
  PROVE  IInv'
<1>1. /\ \A v \in Workers : v # w => req'[v] = req[v]
      /\ req[w].pc = "saveRevoked" /\ req'[w].pc = "reply"
      /\ req'[w].checkedAt = req[w].checkedAt
      /\ req'[w].op = req[w].op /\ req'[w].token = req[w].token
      /\ req'[w].client = req[w].client /\ req'[w].issued = req[w].issued
      /\ UNCHANGED <<known, now, origin>>
  BY DEF SaveRevoked, IInv, TypeOK, Request
<1>2. req[w].token \in known
  BY <1>1 DEF IInv, AwaitsSound, LocalsSound
<1>3. /\ \A t \in Tokens : /\ t # req[w].token => table'[t] = table[t]
                           /\ table'[t].client = table[t].client
                           /\ table'[t].expiresAt = table[t].expiresAt
                           /\ Stored(t)' <=> Stored(t)
                           /\ IsRevoked(t)' <=> (IsRevoked(t) \/ t = req[w].token)
      /\ KnownStored' /\ SecretUntilAnswered' /\ LineageSound'
  BY <1>1, <1>2, RevocationOfRow DEF SaveRevoked
<1>4. \A v \in Workers : Exchanging(v)' <=> Exchanging(v)
  BY <1>1 DEF Exchanging
<1> USE DEF IInv, AwaitsSound
<1>5. LocalsSound'
  BY <1>1, <1>2 DEF LocalsSound
<1>6. ExchangeSound'
  BY <1>1, <1>2, <1>3, <1>4 DEF ExchangeSound, OfClient, TypeOK
<1>7. HandsSound'
  BY <1>1, <1>3 DEF HandsSound, LocalsSound, Stored
<1>8. SlotsSound'
  BY <1>1, <1>3, <1>4 DEF SlotsSound
<1>9. AnswersHold'
  <2>1. \A v \in Workers : req[v].issued # None => req[v].issued \notin known
    BY DEF HandsSound
  <2> QED
    BY <1>1, <1>2, <1>3, <2>1 DEF AnswersHold, Stored, IsRevoked, HandsSound
<1> QED
  BY <1>3, <1>5, <1>6, <1>7, <1>8, <1>9

-----------------------------------------------------------------------------
(* A token is answered: it becomes known, and no other request has it.     *)
LEMMA ReplyStep ==
  ASSUME IInv, TypeOK', NEW w \in Workers, Reply(w)
  PROVE  IInv'
<1>1. /\ \A v \in Workers : v # w => req'[v] = req[v]
      /\ req[w].pc = "reply" /\ req'[w].pc = "idle" /\ req'[w].op = "none"
      /\ req'[w].token = None /\ req'[w].issued = None
      /\ known' = known \cup ({req[w].issued} \ {None})
      /\ UNCHANGED <<table, now, origin>>
  BY DEF Reply, Idle, IInv, TypeOK
<1> USE DEF IInv, AwaitsSound, Stored, IsRevoked, Exchanging
<1>2. KnownStored'
  BY <1>1 DEF KnownStored, HandsSound
<1>3. SecretUntilAnswered' /\ LineageSound'
  BY <1>1 DEF SecretUntilAnswered, LineageSound
<1>4. LocalsSound'
  BY <1>1 DEF LocalsSound
<1>5. ExchangeSound'
  BY <1>1 DEF ExchangeSound, OfClient
<1>6. HandsSound'
  BY <1>1 DEF HandsSound
<1>7. SlotsSound'
  BY <1>1 DEF SlotsSound
<1>8. AnswersHold'
  BY <1>1 DEF AnswersHold
<1> QED
  BY <1>2, <1>3, <1>4, <1>5, <1>6, <1>7, <1>8

(* The database survives a crash, the requests do not. *)
LEMMA CrashStep ==
  ASSUME IInv, TypeOK', Crash
  PROVE  IInv'
<1>1. /\ \A v \in Workers : /\ req'[v].pc = "idle" /\ req'[v].op = "none"
                            /\ req'[v].token = None /\ req'[v].issued = None
      /\ UNCHANGED <<table, known, now, origin>>
  BY DEF Crash, Idle
<1> USE DEF IInv, AwaitsSound, Stored, IsRevoked, Exchanging
<1>2. LocalsSound' /\ ExchangeSound' /\ HandsSound' /\ AnswersHold'
  BY <1>1 DEF LocalsSound, ExchangeSound, OfClient, HandsSound, AnswersHold
<1>3. SlotsSound'
  BY <1>1 DEF SlotsSound
<1> QED
  BY <1>1, <1>2, <1>3, QuietStep

(* CreateRefreshTokenAsync: the row is new, and the slot had not exchanged  *)
(* the same token before.                                                  *)
LEMMA InsertStep ==
  ASSUME IInv, TypeOK', NEW w \in Workers, NEW t \in Tokens, Insert(w, t)
  PROVE  IInv'
<1>1. /\ \A v \in Workers : v # w => req'[v] = req[v]
      /\ req[w].pc = "insert" /\ req'[w].pc = "reply"
      /\ req'[w].op = req[w].op /\ req'[w].token = req[w].token
      /\ req'[w].client = req[w].client /\ req'[w].issued = t
      /\ req'[w].status = 200
      /\ UNCHANGED <<known, now>>
  BY DEF Insert, IInv, TypeOK, Request
<1>2. /\ \A s \in Tokens : s # t => table'[s] = table[s] /\ origin'[s] = origin[s]
      /\ table[t].status = "absent" /\ table'[t].status = "active"
      /\ table'[t].client = req[w].client
      /\ origin'[t].parent = req[w].token /\ origin'[t].worker = w
      /\ origin'[t].at = req[w].checkedAt
  BY DEF Insert, IInv, TypeOK, AbsentRow
<1>3. t \notin known /\ \A v \in Workers : req[v].issued # t
  BY <1>2, TokensAssumption DEF IInv, AwaitsSound, KnownStored, HandsSound, Stored
<1>4. \/ req[w].op = "issue" /\ req[w].token = None
      \/ Exchanging(w) /\ req[w].op = "refresh" /\ req[w].token \in known
           /\ req[w].token # t /\ IsRevoked(req[w].token)
  BY <1>1, <1>3 DEF IInv, AwaitsSound, LocalsSound, ExchangeSound, Exchanging
<1> USE DEF IInv, AwaitsSound
<1>5. KnownStored' /\ SecretUntilAnswered'
  BY <1>1, <1>2, <1>3 DEF KnownStored, SecretUntilAnswered, Stored
<1>6. \A p \in known : p # t /\ table'[p] = table[p]
  BY <1>2, <1>3 DEF TypeOK
<1>7. LineageSound'
  <2> SUFFICES ASSUME NEW s \in Tokens, Stored(s)', (origin[s].parent # None)'
               PROVE  /\ IsRevoked(origin[s].parent)'
                      /\ (table[s].client = table[origin[s].parent].client)'
                      /\ (origin[s].at < table[origin[s].parent].expiresAt)'
    BY DEF LineageSound
  <2>1. CASE s = t
    BY <1>1, <1>2, <1>4, <1>6, <2>1, ClientsAssumption
       DEF LocalsSound, ExchangeSound, OfClient, IsRevoked, Stored
  <2>2. CASE s # t
    <3>1. Stored(s) /\ origin'[s] = origin[s] /\ table'[s] = table[s]
      BY <1>2, <2>2 DEF Stored
    <3>2. origin[s].parent \in known
      BY <3>1 DEF SlotsSound
    <3> QED
      BY <1>6, <3>1, <3>2 DEF LineageSound, IsRevoked, Stored
  <2> QED
    BY <2>1, <2>2
<1>8. LocalsSound'
  BY <1>1 DEF LocalsSound
<1>9. ExchangeSound'
  BY <1>1, <1>6 DEF ExchangeSound, OfClient, Exchanging, IsRevoked, Stored
<1>10. HandsSound'
  BY <1>1, <1>2, <1>3, <1>4 DEF HandsSound, Stored
<1>11. SlotsSound'
  <2>1. \A v \in Workers : Exchanging(v)' => Exchanging(v) /\ v # w
    BY <1>1 DEF Exchanging
  <2>2. \A s \in Tokens : s # t /\ Stored(s)' /\ origin'[s].parent # None =>
           ~(origin'[s].worker = w /\ origin'[s].parent = req[w].token)
    BY <1>2, <1>4 DEF SlotsSound, Stored
  <2> QED
    BY <1>1, <1>2, <1>4, <2>1, <2>2 DEF SlotsSound, Stored
<1>12. AnswersHold'
  <2>1. \A v \in Workers : req[v].token # t
    BY <1>3, TokensAssumption DEF LocalsSound
  <2>2. \A v \in Workers : req[v].issued # None => req[v].issued \in Tokens \ {t}
    BY <1>3 DEF HandsSound, Stored
  <2>3. req'[w].op # "revoke"
    BY <1>1, <1>4
  <2>4. \A v \in Workers \ {w} : Stored(req[v].token)' => Stored(req[v].token)
    BY <1>1, <1>2, <2>1 DEF Stored
  <2>5. \A v \in Workers \ {w} : IsRevoked(req[v].token) => IsRevoked(req[v].token)'
    BY <1>1, <1>2, <2>1 DEF IsRevoked, Stored
  <2> QED
    BY <1>1, <1>2, <2>2, <2>3, <2>4, <2>5 DEF AnswersHold
<1> QED
  BY <1>5, <1>7, <1>8, <1>9, <1>10, <1>11, <1>12

-----------------------------------------------------------------------------
LEMMA InitIInv == Init => IInv
<1> SUFFICES ASSUME Init PROVE IInv
  OBVIOUS
<1>1. /\ \A w \in Workers : /\ req[w].pc = "idle" /\ req[w].op = "none"
                            /\ req[w].token = None /\ req[w].issued = None
                            /\ req[w].status = 0
      /\ \A t \in Tokens : ~Stored(t)
      /\ known = {}
  BY DEF Init, Idle, AbsentRow, Stored
<1>2. KnownStored /\ LineageSound /\ SecretUntilAnswered /\ SlotsSound
  BY <1>1 DEF KnownStored, LineageSound, SecretUntilAnswered, SlotsSound
<1>3. LocalsSound /\ ExchangeSound /\ HandsSound /\ AnswersHold
  BY <1>1 DEF LocalsSound, ExchangeSound, HandsSound, AnswersHold, Exchanging
<1> QED
  BY <1>2, <1>3, InitTypeOK DEF IInv, AwaitsSound

LEMMA NextIInv == IInv /\ [Next]_vars => IInv'
<1> SUFFICES ASSUME IInv, [Next]_vars PROVE IInv'
  OBVIOUS
<1>0. TypeOK'
  BY NextTypeOK DEF IInv, AwaitsSound
<1>1. ASSUME NEW w \in Workers, Arrive(w) PROVE IInv'
  <2>1. ASSUME NEW c \in ClientIds, AcceptIssue(w, c) PROVE IInv'
    BY <1>0, <2>1, AcceptStep DEF AcceptIssue
  <2>2. ASSUME NEW c \in ClientIds, NEW t \in known \cup {Unknown},
               AcceptRefresh(w, c, t)
        PROVE  IInv'
    BY <1>0, <2>2, AcceptStep DEF AcceptRefresh
  <2>3. ASSUME NEW t \in known \cup {Unknown}, AcceptRevoke(w, t) PROVE IInv'
    BY <1>0, <2>3, AcceptStep DEF AcceptRevoke
  <2> QED
    BY <1>1, <2>1, <2>2, <2>3 DEF Arrive
<1>2. ASSUME NEW w \in Workers, Serve(w) PROVE IInv'
  <2>1. CASE BadCredentials(w) \/ LookupRefused(w) \/ AppMissing(w)
    BY <1>0, <2>1, RefuseStep DEF BadCredentials, LookupRefused, AppMissing
  <2> QED
    BY <1>0, <1>2, <2>1, AuthenticatedStep, LookupStep, SaveOldStep, ReadAppStep,
       InsertStep, FindStep, FindNothingStep, SaveRevokedStep, ReplyStep
       DEF Serve
<1>3. ASSUME NEW w \in Workers, Fail(w) PROVE IInv'
  BY <1>0, <1>3, RefuseStep, DropStep DEF Fail, DatabaseError, LoseReply
<1>4. CASE Tick \/ UNCHANGED vars
  <2>1. UNCHANGED <<table, req, known, origin>>
    BY <1>4 DEF Tick, vars
  <2>2. /\ LocalsSound' /\ ExchangeSound' /\ HandsSound' /\ AnswersHold'
        /\ SlotsSound'
    BY <2>1 DEF IInv, AwaitsSound, LocalsSound, ExchangeSound, HandsSound, AnswersHold,
                SlotsSound, OfClient, Exchanging, Stored, IsRevoked
  <2> QED
    BY <1>0, <2>1, <2>2, QuietStep DEF IInv, AwaitsSound
<1> QED
  BY <1>0, <1>1, <1>2, <1>3, <1>4, CrashStep DEF Next

(* The inductive invariant of the token service. *)
THEOREM Inductive == Spec => []IInv
  BY InitIInv, NextIInv, PTL DEF Spec

(* Every record the requests, the rows and the clock are made of keeps its  *)
(* type, in every behaviour.                                               *)
THEOREM TypeCorrect == Spec => []TypeOK
<1>1. IInv => TypeOK
  BY DEF IInv
<1> QED
  BY <1>1, Inductive, PTL

(* At each await, what the handler has read and checked before still holds:  *)
(* of the client of the row it means what GetRefreshTokenAsync's query does, *)
(* which is nothing for a blank id.                                        *)
THEOREM Awaits == Spec => []AwaitsSound
<1>1. IInv => AwaitsSound
  BY DEF IInv
<1> QED
  BY <1>1, Inductive, PTL

(* A successor belongs to the client of the token it replaces, which was    *)
(* revoked first and had not expired.                                      *)
THEOREM Lineage == Spec => []LineageSound
<1>1. IInv => LineageSound
  BY DEF IInv
<1> QED
  BY <1>1, Inductive, PTL

(* A token nobody was given cannot be revoked or exchanged. *)
THEOREM Secrecy == Spec => []SecretUntilAnswered
<1>1. IInv => SecretUntilAnswered
  BY DEF IInv
<1> QED
  BY <1>1, Inductive, PTL

(* What the answers of refresh and revoke say is true of the table. *)
THEOREM Answers == Spec => []AnswersHold
<1>1. IInv => AnswersHold
  BY DEF IInv
<1> QED
  BY <1>1, Inductive, PTL

-----------------------------------------------------------------------------
(* The successors of a token come from different slots. *)
LEMMA SuccessorsInject ==
  ASSUME IInv, NEW p \in Tokens
  PROVE  [t \in Successors(p) |-> origin[t].worker] \in Injection(Successors(p), Workers)
<1>1. p # None
  BY TokensAssumption
<1>2. \A s, t \in Successors(p) : /\ origin[t].worker \in Workers
                                  /\ origin[s].worker = origin[t].worker => s = t
  BY <1>1 DEF IInv, AwaitsSound, SlotsSound, Successors
<1> QED
  BY <1>2 DEF Injection, IsInjective

(* However requests overlap, a refresh token has at most one successor per  *)
(* request slot, and each slot exchanges it once.                          *)
THEOREM BoundedByOverlap == Spec => []SuccessorsBoundedByOverlap
<1>1. IInv => SuccessorsBoundedByOverlap
  <2> SUFFICES ASSUME IInv, NEW p \in Tokens
               PROVE  /\ Cardinality(Successors(p)) <= Cardinality(Workers)
                      /\ \A s, t \in Successors(p) :
                           origin[s].worker = origin[t].worker => s = t
    BY DEF SuccessorsBoundedByOverlap
  <2>1. Cardinality(Successors(p)) <= Cardinality(Workers)
    BY SuccessorsInject, FiniteAssumption, FS_Injection
  <2>2. p # None
    BY TokensAssumption
  <2> QED
    BY <2>1, <2>2 DEF IInv, AwaitsSound, SlotsSound, Successors
<1> QED
  BY <1>1, Inductive, PTL

(* A slot that is about to insert a successor of p has not done so before.  *)
LEMMA RoomForSuccessor ==
  ASSUME IInv, NEW w \in Workers, req[w].pc = "insert", req[w].op = "refresh"
  PROVE  Cardinality(Successors(req[w].token)) < Cardinality(Workers)
<1> DEFINE p == req[w].token
<1>1. Exchanging(w) /\ p \in Tokens
  BY DEF Exchanging, IInv, AwaitsSound, ExchangeSound, TypeOK
<1>2. \A t \in Successors(p) : origin[t].worker # w
  BY <1>1, TokensAssumption DEF IInv, AwaitsSound, SlotsSound, Successors
<1>3. [t \in Successors(p) |-> origin[t].worker] \in Injection(Successors(p), Workers \ {w})
  BY <1>1, <1>2, SuccessorsInject DEF Injection, IsInjective
<1>4. IsFiniteSet(Workers \ {w}) /\ Cardinality(Workers \ {w}) = Cardinality(Workers) - 1
  BY FiniteAssumption, FS_RemoveElement
<1>5. /\ Cardinality(Successors(p)) <= Cardinality(Workers \ {w})
      /\ IsFiniteSet(Successors(p))
  BY <1>3, <1>4, FS_Injection
<1>6. Cardinality(Workers) \in Nat /\ Cardinality(Successors(p)) \in Nat
  BY <1>5, FiniteAssumption, FS_CardinalityType
<1> QED
  BY <1>4, <1>5, <1>6

LEMMA InitRefines == Init => Abstract!Init
  BY DEF Init, Abstract!Init, AbsentRow, NoOrigin

(* Both revocations are the abstract Revoke, or nothing if another request  *)
(* was faster.                                                             *)
LEMMA RevocationRefines ==
  ASSUME IInv, NEW tok \in known, NEW at, NEW by,
         table' = [table EXCEPT ![tok] = RevokedRow(@, at, by)],
         UNCHANGED <<known, origin>>
  PROVE  [Abstract!Next]_(Abstract!vars)
<1>1. /\ tok \in Tokens /\ Stored(tok)
      /\ table[tok].status \in {"active", "revoked"}
  BY DEF IInv, AwaitsSound, TypeOK, KnownStored, Stored, Row
<1>2. [t \in Tokens |-> table[t].client]' = [t \in Tokens |-> table[t].client]
  BY RevocationOfRow
<1>3. [t \in Tokens |-> table[t].status]'
        = [[t \in Tokens |-> table[t].status] EXCEPT ![tok] = "revoked"]
  BY <1>1 DEF IInv, AwaitsSound, TypeOK, Row, RevokedRow
<1>4. CASE table[tok].status = "active"
  BY <1>1, <1>2, <1>3, <1>4 DEF Abstract!Next, Abstract!Revoke
<1>5. CASE table[tok].status = "revoked"
  BY <1>1, <1>2, <1>3, <1>5 DEF Abstract!vars
<1> QED
  BY <1>1, <1>4, <1>5

LEMMA InsertRefines ==
  ASSUME IInv, NEW w \in Workers, NEW t \in Tokens, Insert(w, t)
  PROVE  Abstract!Next
<1> DEFINE status == [s \in Tokens |-> table[s].status]
           owner  == [s \in Tokens |-> table[s].client]
           parent == [s \in Tokens |-> origin[s].parent]
           p == req[w].token
<1>1. /\ status[t] = "absent"
      /\ status' = [status EXCEPT ![t] = "active"]
      /\ owner' = [owner EXCEPT ![t] = req[w].client]
      /\ parent' = [parent EXCEPT ![t] = p]
  BY DEF Insert, AbsentRow, IInv, TypeOK
<1>2. req[w].pc = "insert" /\ req[w].op \in {"issue", "refresh"}
      /\ req[w].client \in Clients
  BY DEF Insert, IInv, AwaitsSound, LocalsSound
<1>3. CASE req[w].op = "issue"
  <2>1. p = None
    BY <1>3 DEF IInv, AwaitsSound, LocalsSound
  <2> QED
    BY <1>1, <1>2, <2>1 DEF Abstract!Next, Abstract!Issue
<1>4. CASE req[w].op = "refresh"
  <2>1. p \in Tokens /\ IsRevoked(p) /\ table[p].client = req[w].client
    BY <1>2, <1>4, ClientsAssumption
       DEF Exchanging, OfClient, IInv, AwaitsSound, ExchangeSound, TypeOK
  <2>2. Abstract!Successors(p) = Successors(p)
    BY DEF Abstract!Successors, Successors, Stored
  <2>3. Abstract!Cardinality(Abstract!Successors(p)) < Cardinality(Workers)
    <3>1. Abstract!Cardinality(Successors(p)) = Cardinality(Successors(p))
      BY DEF Abstract!Cardinality, Cardinality
    <3> QED
      BY <1>2, <1>4, <2>2, <3>1, RoomForSuccessor
  <2>4. status[p] = "revoked" /\ owner[p] = req[w].client
    BY <2>1 DEF IsRevoked
  <2>5. Abstract!Derive(p, t)
    <3>1. owner' = [owner EXCEPT ![t] = owner[p]]
      BY <1>1, <2>4
    <3> HIDE DEF p
    <3> QED
      BY <1>1, <2>3, <2>4, <3>1 DEF Abstract!Derive
  <2> QED
    BY <2>1, <2>5 DEF Abstract!Next
<1> QED
  BY <1>2, <1>3, <1>4

(* The token service implements TokenLifecycle: every step of a request is  *)
(* one step of the life of one token, or none.                             *)
THEOREM Refines == Spec => Lifecycle
<1>1. IInv /\ [Next]_vars => [Abstract!Next]_(Abstract!vars)
  <2> SUFFICES ASSUME IInv, [Next]_vars PROVE [Abstract!Next]_(Abstract!vars)
    OBVIOUS
  <2>1. ASSUME UNCHANGED <<table, origin>> PROVE [Abstract!Next]_(Abstract!vars)
    BY <2>1 DEF Abstract!vars
  <2>2. ASSUME NEW w \in Workers, SaveOld(w) PROVE [Abstract!Next]_(Abstract!vars)
    <3>1. req[w].token \in known
      BY <2>2 DEF SaveOld, IInv, AwaitsSound, LocalsSound, ExchangeSound, Exchanging
    <3> QED
      BY <2>2, <3>1, RevocationRefines DEF SaveOld
  <2>3. ASSUME NEW w \in Workers, SaveRevoked(w) PROVE [Abstract!Next]_(Abstract!vars)
    <3>1. req[w].token \in known
      BY <2>3 DEF SaveRevoked, IInv, AwaitsSound, LocalsSound
    <3> QED
      BY <2>3, <3>1, RevocationRefines DEF SaveRevoked
  <2>4. ASSUME NEW w \in Workers, Arrive(w) PROVE UNCHANGED <<table, origin>>
    BY <2>4 DEF Arrive, AcceptIssue, AcceptRefresh, AcceptRevoke, Accept
  <2>5. ASSUME NEW w \in Workers, Serve(w) PROVE [Abstract!Next]_(Abstract!vars)
    <3>1. \/ UNCHANGED <<table, origin>>
          \/ SaveOld(w) \/ SaveRevoked(w) \/ \E t \in Tokens : Insert(w, t)
      BY <2>5 DEF Serve, Authenticated, BadCredentials, Lookup, LookupRefused,
                  ReadApp, AppMissing, Find, FindNothing, Reply
    <3> QED
      BY <2>1, <2>2, <2>3, <3>1, InsertRefines
  <2>6. ASSUME NEW w \in Workers, Fail(w) PROVE UNCHANGED <<table, origin>>
    BY <2>6 DEF Fail, DatabaseError, LoseReply
  <2>7. CASE Crash \/ Tick \/ UNCHANGED vars
    BY <2>1, <2>7 DEF Crash, Tick, vars
  <2> QED
    BY <2>1, <2>4, <2>5, <2>6, <2>7 DEF Next
<1> QED
  BY <1>1, InitRefines, Inductive, PTL DEF Spec, Lifecycle, Abstract!Spec

-----------------------------------------------------------------------------
(* What a step has to leave alone so that the client of p stays provided    *)
(* for: the tokens clients have, and the exchange of p unless it strands p. *)
LEMMA ProvidedStep ==
  ASSUME IInv, NEW p \in Tokens, Provided(p),
         known \subseteq known', stranded \subseteq stranded',
         \A t \in known : Stored(t)' /\ origin'[t] = origin[t],
         \A w \in Workers : req[w].token = p /\ MidExchange(w) =>
           (req[w].token = p /\ MidExchange(w))' \/ Provided(p)'
  PROVE  Provided(p)'
<1>1. CASE Successors(p) \cap known # {}
  <2>1. PICK t \in Tokens : t \in known /\ origin[t].parent = p
    BY <1>1 DEF Successors
  <2>2. t \in (Successors(p) \cap known)'
    BY <2>1 DEF Successors
  <2> QED
    BY <2>2 DEF Provided
<1>2. CASE \E w \in Workers : req[w].token = p /\ MidExchange(w)
  BY <1>2 DEF Provided
<1> QED
  BY <1>1, <1>2 DEF Provided

LEMMA RevocationKeepsRows ==
  ASSUME IInv, NEW w \in Workers, SaveOld(w) \/ SaveRevoked(w)
  PROVE  \A t \in Tokens : Stored(t)' <=> Stored(t)
<1>1. req[w].token \in known
  BY DEF SaveOld, SaveRevoked, IInv, AwaitsSound, LocalsSound, ExchangeSound, Exchanging
<1>2. CASE SaveOld(w)
  BY <1>1, <1>2, RevocationOfRow DEF SaveOld
<1>3. CASE SaveRevoked(w)
  BY <1>1, <1>3, RevocationOfRow DEF SaveRevoked
<1> QED
  BY <1>2, <1>3

LEMMA KnownKept ==
  ASSUME IInv, NEW w \in Workers, Arrive(w) \/ Serve(w) \/ Fail(w)
  PROVE  /\ known \subseteq known' /\ stranded \subseteq stranded'
         /\ \A t \in known : Stored(t)' /\ origin'[t] = origin[t]
<1>1. \A t \in known : t \in Tokens /\ Stored(t)
  BY DEF IInv, AwaitsSound, KnownStored, TypeOK
<1>2. CASE UNCHANGED <<table, origin>>
  <2>1. known \subseteq known' /\ stranded \subseteq stranded'
    BY DEF Arrive, AcceptIssue, AcceptRefresh, AcceptRevoke, Accept, Serve,
           Authenticated, BadCredentials, Lookup, LookupRefused, SaveOld, ReadApp, AppMissing,
           Insert, Find, FindNothing, SaveRevoked, Reply, Fail, DatabaseError,
           LoseReply, Strand
  <2> QED
    BY <1>1, <1>2, <2>1 DEF Stored
<1>3. CASE SaveOld(w) \/ SaveRevoked(w)
  BY <1>1, <1>3, RevocationKeepsRows DEF SaveOld, SaveRevoked
<1>4. ASSUME NEW t \in Tokens, Insert(w, t)
      PROVE  /\ UNCHANGED <<known, stranded>>
             /\ \A s \in known : Stored(s)' /\ origin'[s] = origin[s]
  BY <1>1, <1>4 DEF Insert, Stored, IInv, TypeOK
<1>5. \/ UNCHANGED <<table, origin>>
      \/ SaveOld(w) \/ SaveRevoked(w) \/ \E t \in Tokens : Insert(w, t)
  BY DEF Arrive, AcceptIssue, AcceptRefresh, AcceptRevoke, Accept, Serve,
         Authenticated, BadCredentials, Lookup, LookupRefused, ReadApp, AppMissing, Find,
         FindNothing, Reply, Fail, DatabaseError, LoseReply
<1> QED
  BY <1>2, <1>3, <1>4, <1>5

(* Every step of the slot of an exchange continues it, answers it, or       *)
(* strands its token.                                                      *)
LEMMA ExchangeContinues ==
  ASSUME IInv, IInv', NEW w \in Workers, Arrive(w) \/ Serve(w) \/ Fail(w),
         NEW p \in Tokens, NEW v \in Workers, req[v].token = p, MidExchange(v)
  PROVE  (req[v].token = p /\ MidExchange(v))' \/ Provided(p)'
<1>1. CASE v # w
  <2>1. req'[v] = req[v]
    BY <1>1 DEF IInv, TypeOK, Arrive, AcceptIssue, AcceptRefresh, AcceptRevoke, Accept,
           Serve, Authenticated, BadCredentials, Lookup, LookupRefused, SaveOld,
           ReadApp, AppMissing, Insert, Find, FindNothing, SaveRevoked, Reply, Fail,
           DatabaseError, LoseReply, Refuse
  <2> QED
    BY <2>1 DEF MidExchange
<1>2. CASE v = w
  <2>1. req[w] \in Request /\ req[w].op = "refresh"
        /\ req[w].pc \in {"readApp", "insert", "reply"}
    BY <1>2 DEF IInv, TypeOK, MidExchange
  <2>2. ReadApp(w) \/ AppMissing(w) \/ (\E t \in Tokens : Insert(w, t)) \/ Reply(w) \/ Fail(w)
    BY <2>1 DEF Arrive, AcceptIssue, AcceptRefresh, AcceptRevoke, Accept, Serve,
                Authenticated, BadCredentials, Lookup, LookupRefused, SaveOld, Find,
                FindNothing, SaveRevoked
  <2>3. ASSUME ReadApp(w) \/ \E t \in Tokens : Insert(w, t)
        PROVE  (req[v].token = p /\ MidExchange(v))'
    <3>1. CASE ReadApp(w)
      <4>1. /\ req'[w].pc = "insert" /\ req'[w].op = req[w].op
            /\ req'[w].token = req[w].token
        BY <2>1, <3>1 DEF ReadApp, IInv, TypeOK, Request
      <4> QED
        BY <1>2, <2>1, <4>1 DEF MidExchange
    <3>2. ASSUME NEW t \in Tokens, Insert(w, t)
          PROVE  (req[v].token = p /\ MidExchange(v))'
      <4>1. /\ req'[w].pc = "reply" /\ req'[w].status = 200
            /\ req'[w].op = req[w].op /\ req'[w].token = req[w].token
        BY <2>1, <3>2 DEF Insert, IInv, TypeOK, Request
      <4> QED
        BY <1>2, <2>1, <4>1 DEF MidExchange
    <3> QED
      BY <2>3, <3>1, <3>2
  <2>4. CASE Reply(w)
    <3>1. req[w].issued # None /\ req[w].status = 200
      BY <1>2, <2>1, <2>4 DEF Reply, MidExchange, IInv, AwaitsSound, HandsSound
    <3>2. /\ req[w].issued \in Tokens /\ Stored(req[w].issued)
          /\ origin[req[w].issued].parent = p
      BY <1>2, <3>1 DEF IInv, AwaitsSound, HandsSound, Stored
    <3>3. req[w].issued \in (Successors(p) \cap known)'
      BY <2>4, <3>1, <3>2 DEF Reply, Successors, Stored
    <3> QED
      BY <3>3 DEF Provided
  <2>5. CASE Fail(w)
    <3>1. <<p, "fault">> \in stranded'
      BY <1>2, <2>5 DEF Fail, DatabaseError, LoseReply, Strand
    <3> QED
      BY <3>1 DEF Provided
  <2>6. CASE AppMissing(w)
    <3>1. req[w].client = Blank
      <4>1. req[w].pc = "readApp" /\ req[w].client \in ClientIds \ Clients
        BY <2>1, <2>6 DEF AppMissing, IInv, AwaitsSound, LocalsSound
      <4>2. req[w].client = Blank \/ table[p].client = req[w].client
        BY <1>2, <2>1, <4>1
           DEF Exchanging, IInv, AwaitsSound, ExchangeSound, OfClient
      <4>3. table[p].client \in Clients \cup {None}
        BY DEF IInv, TypeOK, Row
      <4> QED
        BY <4>1, <4>2, <4>3, ClientsAssumption DEF ClientIds
    <3>2. <<p, "blank">> \in stranded'
      BY <1>2, <2>1, <2>6, <3>1 DEF AppMissing
    <3> QED
      BY <3>2 DEF Provided
  <2> QED
    BY <2>2, <2>3, <2>4, <2>5, <2>6
<1> QED
  BY <1>1, <1>2

(* A client whose token an exchange has revoked gets another one, unless a  *)
(* fault strikes or the exchange named no client (GetRefreshTokenAsync     *)
(* finds the token, the lookup of the application throws after the         *)
(* revocation was saved): for any number of requests that overlap.         *)
THEOREM NobodyStranded == Spec => []StrandedOnlyByFaultOrBlank
<1>1. Init => StrandedOnlyByFaultOrBlank
  BY DEF Init, StrandedOnlyByFaultOrBlank, IsRevoked, Stored, AbsentRow
<1>2. IInv /\ IInv' /\ StrandedOnlyByFaultOrBlank /\ [Next]_vars => StrandedOnlyByFaultOrBlank'
  <2> SUFFICES ASSUME IInv, IInv', StrandedOnlyByFaultOrBlank, [Next]_vars,
                      NEW p \in Tokens, IsRevoked(p)', (table[p].revokedBy = "remote")'
               PROVE  Provided(p)'
    BY DEF StrandedOnlyByFaultOrBlank
  <2>1. ASSUME NEW w \in Workers, Arrive(w) \/ Serve(w) \/ Fail(w) PROVE Provided(p)'
    <3>1. CASE IsRevoked(p) /\ table[p].revokedBy = "remote"
      <4>1. Provided(p)
        BY <3>1 DEF StrandedOnlyByFaultOrBlank
      <4> QED
        BY <2>1, <4>1, KnownKept, ExchangeContinues, ProvidedStep
    <3>2. CASE ~(IsRevoked(p) /\ table[p].revokedBy = "remote")
      <4>0. table'[p] # table[p]
        BY <3>2 DEF IsRevoked, Stored
      <4>1. SaveOld(w) /\ req[w].token = p
        <5>1. ~ SaveRevoked(w)
          <6> SUFFICES ASSUME SaveRevoked(w), req[w].token = p PROVE FALSE
            BY <4>0 DEF SaveRevoked, IInv, TypeOK
          <6>1. table'[p] = RevokedRow(table[p], req[w].checkedAt, "forwarded")
            BY DEF SaveRevoked, IInv, TypeOK
          <6> QED
            BY <6>1 DEF RevokedRow, IInv, TypeOK, Row
        <5>2. ASSUME NEW t \in Tokens, Insert(w, t) PROVE FALSE
          BY <4>0, <5>2 DEF Insert, AbsentRow, IsRevoked, IInv, TypeOK
        <5>3. UNCHANGED table \/ SaveOld(w)
          BY <2>1, <5>1, <5>2
             DEF Arrive, AcceptIssue, AcceptRefresh, AcceptRevoke, Accept, Serve,
                 Authenticated, BadCredentials, Lookup, LookupRefused, ReadApp, AppMissing, Find,
                 FindNothing, Reply, Fail, DatabaseError, LoseReply
        <5> QED
          BY <4>0, <5>3 DEF SaveOld, IInv, TypeOK
      <4>2. req[w].op = "refresh"
        BY <4>1 DEF SaveOld, IInv, AwaitsSound, LocalsSound
      <4>3. (req[w].token = p /\ MidExchange(w))'
        BY <4>1, <4>2 DEF SaveOld, MidExchange, IInv, TypeOK, Request
      <4> QED
        BY <4>3 DEF Provided
    <3> QED
      BY <3>1, <3>2
  <2>2. CASE Crash \/ Tick \/ UNCHANGED vars
    <3>1. /\ UNCHANGED <<table, known, origin>> /\ stranded \subseteq stranded'
          /\ \A w \in Workers : MidExchange(w) =>
               (<<req[w].token, "fault">> \in stranded') \/ req'[w] = req[w]
      BY <2>2 DEF Crash, Strand, Tick, vars
    <3>2. IsRevoked(p) /\ table[p].revokedBy = "remote"
      BY <3>1 DEF IsRevoked, Stored
    <3>3. Provided(p)
      BY <3>2 DEF StrandedOnlyByFaultOrBlank
    <3> QED
      BY <3>1, <3>3 DEF Provided, Successors, Stored, MidExchange
  <2> QED
    BY <2>1, <2>2 DEF Next
<1> QED
  BY <1>1, <1>2, Inductive, PTL DEF Spec

-----------------------------------------------------------------------------
(* What a request relies on while no other one is past the check of the same *)
(* token: the row it has checked is as it was until it saves, an exchange   *)
(* has revoked its token itself, and is the first one of it.               *)
AloneSound(w) ==
  /\ req[w].pc \in {"saveOld", "saveRevoked"} => table[req[w].token].status = "active"
  /\ Exchanging(w) =>
       /\ req[w].pc # "saveOld" => table[req[w].token].revokedBy = "remote"
       /\ Successors(req[w].token) = {}

ApartSound == \A w \in Workers : AloneSound(w)

(* The table and the rows of a token are written by three steps. *)
LEMMA Writers ==
  ASSUME [Next]_vars
  PROVE  \/ UNCHANGED <<table, origin>>
         \/ \E w \in Workers : SaveOld(w) \/ SaveRevoked(w) \/ \E t \in Tokens : Insert(w, t)
  BY DEF Next, vars, Arrive, AcceptIssue, AcceptRefresh, AcceptRevoke, Accept, Serve,
         Authenticated, BadCredentials, Lookup, LookupRefused, ReadApp, AppMissing, Find,
         FindNothing, Reply, Fail, DatabaseError, LoseReply, Crash, Tick

LEMMA UsingKnown ==
  ASSUME IInv, NEW w \in Workers, Using(w)
  PROVE  req[w].token \in known /\ req[w].token \in Tokens /\ Stored(req[w].token)
  BY DEF Using, IInv, AwaitsSound, LocalsSound, ExchangeSound, KnownStored, TypeOK

(* A request that waits while its row and its token's successors stay.       *)
LEMMA KeepAlone ==
  ASSUME IInv, NEW v \in Workers, AloneSound(v), req'[v] = req[v],
         Using(v) => /\ table'[req[v].token] = table[req[v].token]
                     /\ \A t \in Tokens : Stored(t)' /\ origin'[t].parent = req[v].token
                          => Stored(t) /\ origin[t].parent = req[v].token
  PROVE  AloneSound(v)'
<1>1. Exchanging(v)' <=> Exchanging(v)
  BY DEF Exchanging
<1>2. CASE Using(v)
  <2>1. Exchanging(v) => Successors(req[v].token)' = {}
    <3> SUFFICES ASSUME Exchanging(v), NEW t \in Tokens,
                        Stored(t)', origin'[t].parent = req'[v].token
                 PROVE  FALSE
      BY DEF Successors
    <3>1. Stored(t) /\ origin[t].parent = req[v].token
      BY <1>2
    <3> QED
      BY <3>1 DEF AloneSound, Successors
  <2> QED
    BY <1>1, <1>2, <2>1 DEF AloneSound
<1>3. CASE ~Using(v)
  <2>1. req[v].pc \notin {"saveOld", "saveRevoked"} /\ ~Exchanging(v)
    BY <1>3 DEF Using, Exchanging, IInv, AwaitsSound, LocalsSound
  <2> QED
    BY <1>1, <2>1 DEF AloneSound
<1> QED
  BY <1>2, <1>3

(* A step of one request that writes no row. *)
LEMMA QuietApart ==
  ASSUME IInv, ApartSound, NEW w \in Workers, UNCHANGED <<table, origin>>,
         \A v \in Workers : v # w => req'[v] = req[v], AloneSound(w)'
  PROVE  ApartSound'
<1>1. ASSUME NEW v \in Workers, v # w PROVE AloneSound(v)'
  BY <1>1, KeepAlone DEF ApartSound, Stored
<1> QED
  BY <1>1 DEF ApartSound

LEMMA SaveApart ==
  ASSUME IInv, UsedApart, ApartSound, NEW w \in Workers, SaveOld(w) \/ SaveRevoked(w)
  PROVE  ApartSound'
<1>1. req[w] \in Request /\ Using(w)
  BY DEF SaveOld, SaveRevoked, Using, Exchanging, IInv, AwaitsSound, LocalsSound, TypeOK
<1>2. req[w].token \in Tokens
  BY <1>1, UsingKnown
<1>3. /\ \A t \in Tokens : Stored(t)' <=> Stored(t)
      /\ UNCHANGED origin
  BY RevocationKeepsRows DEF SaveOld, SaveRevoked
<1>4. \A v \in Workers : v # w => req'[v] = req[v]
  BY DEF SaveOld, SaveRevoked, IInv, TypeOK
<1>5. ASSUME NEW v \in Workers, v # w PROVE AloneSound(v)'
  <2>1. Using(v) => req[v].token \in Tokens /\ req[v].token # req[w].token
    BY <1>1, <1>5, UsingKnown DEF UsedApart
  <2>2. Using(v) => table'[req[v].token] = table[req[v].token]
    BY <2>1 DEF SaveOld, SaveRevoked, IInv, TypeOK
  <2> QED
    BY <1>3, <1>4, <1>5, <2>2, KeepAlone DEF ApartSound
<1>6. CASE SaveOld(w)
  <2>1. /\ req'[w].pc = "readApp" /\ req'[w].token = req[w].token
        /\ table'[req[w].token] =
             RevokedRow(table[req[w].token], req[w].checkedAt, "remote")
    BY <1>1, <1>2, <1>6 DEF SaveOld, IInv, TypeOK, Request
  <2>2. table'[req[w].token].revokedBy = "remote"
    BY <1>2, <2>1 DEF RevokedRow, IInv, TypeOK, Row
  <2>3. Exchanging(w) /\ Successors(req[w].token) = {}
    BY <1>6 DEF SaveOld, Exchanging, IInv, AwaitsSound, LocalsSound, ApartSound, AloneSound
  <2>4. Successors(req[w].token)' = {}
    BY <1>3, <2>1, <2>3 DEF Successors
  <2>5. AloneSound(w)'
    BY <2>1, <2>2, <2>4 DEF AloneSound
  <2> QED
    BY <1>5, <2>5 DEF ApartSound
<1>7. CASE SaveRevoked(w)
  <2>1. req'[w].pc = "reply"
    BY <1>1, <1>7 DEF SaveRevoked, IInv, TypeOK, Request
  <2>2. AloneSound(w)'
    BY <2>1 DEF AloneSound, Exchanging
  <2> QED
    BY <1>5, <2>2 DEF ApartSound
<1> QED
  BY <1>6, <1>7

LEMMA InsertApart ==
  ASSUME IInv, UsedApart, ApartSound, NEW w \in Workers, NEW t \in Tokens, Insert(w, t)
  PROVE  ApartSound'
<1>1. req[w] \in Request /\ ~Stored(t)
  BY DEF Insert, Stored, IInv, TypeOK
<1>2. /\ \A v \in Workers : v # w => req'[v] = req[v]
      /\ req'[w].pc = "reply"
  BY <1>1 DEF Insert, IInv, TypeOK, Request
<1>3. /\ \A s \in Tokens \ {t} : table'[s] = table[s] /\ origin'[s] = origin[s]
      /\ origin'[t].parent = req[w].token
  BY DEF Insert, IInv, TypeOK
<1>4. ASSUME NEW v \in Workers, v # w PROVE AloneSound(v)'
  <2>1. CASE Using(v)
    <3>1. req[v].token \in Tokens /\ req[v].token # t /\ req[v].token \in known
      BY <1>1, <2>1, UsingKnown
    <3>2. req[v].token # req[w].token
      <4>1. req[w].token = None \/ Using(w)
        BY DEF Insert, Using, Exchanging, IInv, AwaitsSound, LocalsSound
      <4> QED
        BY <1>4, <2>1, <3>1, <4>1, TokensAssumption DEF UsedApart
    <3>3. /\ table'[req[v].token] = table[req[v].token]
          /\ \A s \in Tokens : Stored(s)' /\ origin'[s].parent = req[v].token
               => Stored(s) /\ origin[s].parent = req[v].token
      BY <1>3, <3>1, <3>2 DEF Stored
    <3> QED
      BY <1>2, <1>4, <3>3, KeepAlone DEF ApartSound
  <2>2. CASE ~Using(v)
    BY <1>2, <1>4, <2>2, KeepAlone DEF ApartSound
  <2> QED
    BY <2>1, <2>2
<1>5. AloneSound(w)'
  BY <1>2 DEF AloneSound, Exchanging
<1> QED
  BY <1>4, <1>5 DEF ApartSound

LEMMA NextApartSound ==
  ASSUME IInv, UsedApart, ApartSound, [Next]_vars
  PROVE  ApartSound'
<1>1. ASSUME NEW w \in Workers, UNCHANGED <<table, origin>>,
             \A v \in Workers : v # w => req'[v] = req[v],
             req'[w].pc \in {"idle", "authenticate", "lookup", "find", "reply"}
      PROVE  ApartSound'
  <2>1. AloneSound(w)'
    BY <1>1 DEF AloneSound, Exchanging
  <2> QED
    BY <1>1, <2>1, QuietApart
<1>2. ASSUME NEW w \in Workers, Arrive(w) PROVE ApartSound'
  BY <1>1, <1>2 DEF Arrive, AcceptIssue, AcceptRefresh, AcceptRevoke, Accept, Idle,
                    IInv, TypeOK
<1>3. ASSUME NEW w \in Workers, Serve(w) \/ Fail(w) PROVE ApartSound'
  <2>1. req[w] \in Request
    BY DEF IInv, TypeOK
  <2>2. CASE Lookup(w)
    <3>1. /\ req[w].token \in Tokens /\ table[req[w].token].status = "active"
          /\ ~IsRevoked(req[w].token)
      BY <2>2 DEF Lookup, Exchangeable, Stored, IsRevoked, IInv, TypeOK, Row
    <3>2. /\ req'[w].pc = "saveOld" /\ req'[w].token = req[w].token
          /\ UNCHANGED <<table, origin>> /\ \A v \in Workers : v # w => req'[v] = req[v]
      BY <2>1, <2>2 DEF Lookup, IInv, TypeOK, Request
    <3>3. Successors(req[w].token) = {}
      BY <3>1, TokensAssumption DEF Successors, IInv, LineageSound
    <3>4. Successors(req[w].token)' = {}
      BY <3>2, <3>3 DEF Successors, Stored
    <3>5. AloneSound(w)'
      BY <3>1, <3>2, <3>4 DEF AloneSound
    <3> QED
      BY <3>2, <3>5, QuietApart
  <2>3. CASE Find(w)
    <3>1. req[w].token \in Tokens /\ table[req[w].token].status = "active"
      BY <2>3 DEF Find, Stored, IsRevoked, IInv, TypeOK, Row
    <3>2. /\ req'[w].pc = "saveRevoked" /\ req'[w].token = req[w].token
          /\ UNCHANGED <<table, origin>> /\ \A v \in Workers : v # w => req'[v] = req[v]
      BY <2>1, <2>3 DEF Find, IInv, TypeOK, Request
    <3>3. AloneSound(w)'
      BY <3>1, <3>2 DEF AloneSound, Exchanging
    <3> QED
      BY <3>2, <3>3, QuietApart
  <2>4. CASE ReadApp(w)
    <3>1. /\ req[w].pc = "readApp" /\ req'[w].pc = "insert"
          /\ req'[w].op = req[w].op /\ req'[w].token = req[w].token
          /\ UNCHANGED <<table, origin>> /\ \A v \in Workers : v # w => req'[v] = req[v]
      BY <2>1, <2>4 DEF ReadApp, IInv, TypeOK, Request
    <3>2. AloneSound(w)
      BY DEF ApartSound
    <3>3. Successors(req[w].token) = {} => Successors(req[w].token)' = {}
      BY <3>1 DEF Successors, Stored
    <3>4. AloneSound(w)'
      BY <3>1, <3>2, <3>3 DEF AloneSound, Exchanging
    <3> QED
      BY <3>1, <3>4, QuietApart
  <2>5. CASE Authenticated(w)
    <3>1. /\ req'[w].pc = "readApp" /\ req'[w].op = req[w].op /\ req[w].op = "issue"
          /\ UNCHANGED <<table, origin>> /\ \A v \in Workers : v # w => req'[v] = req[v]
      BY <2>1, <2>5
         DEF Authenticated, IInv, AwaitsSound, LocalsSound, TypeOK, Request
    <3>2. AloneSound(w)'
      BY <3>1 DEF AloneSound, Exchanging
    <3> QED
      BY <3>1, <3>2, QuietApart
  <2>6. CASE BadCredentials(w) \/ LookupRefused(w) \/ AppMissing(w) \/ DatabaseError(w)
    <3>1. /\ \E status \in {401, 500} : Refuse(w, status)
          /\ UNCHANGED <<table, origin>>
      BY <2>6 DEF BadCredentials, LookupRefused, AppMissing, DatabaseError
    <3>2. req'[w].pc = "reply" /\ \A v \in Workers : v # w => req'[v] = req[v]
      BY <3>1 DEF Refuse, Idle, IInv, TypeOK
    <3> QED
      BY <1>1, <3>1, <3>2
  <2>7. CASE FindNothing(w)
    <3>1. /\ req'[w].pc = "reply" /\ UNCHANGED <<table, origin>>
          /\ \A v \in Workers : v # w => req'[v] = req[v]
      BY <2>1, <2>7 DEF FindNothing, IInv, TypeOK, Request
    <3> QED
      BY <1>1, <3>1
  <2>8. CASE Reply(w) \/ LoseReply(w)
    <3>1. /\ req'[w].pc = "idle" /\ UNCHANGED <<table, origin>>
          /\ \A v \in Workers : v # w => req'[v] = req[v]
      BY <2>8 DEF Reply, LoseReply, Idle, IInv, TypeOK
    <3> QED
      BY <1>1, <3>1
  <2> QED
    BY <1>3, <2>2, <2>3, <2>4, <2>5, <2>6, <2>7, <2>8, SaveApart, InsertApart, Zenon
       DEF Serve, Fail
<1>4. CASE Crash
  BY <1>4 DEF Crash, Idle, ApartSound, AloneSound, Exchanging
<1>5. CASE Tick \/ UNCHANGED vars
  BY <1>5 DEF Tick, vars, ApartSound, AloneSound, Exchanging, Successors, Stored
<1> QED
  BY <1>2, <1>3, <1>4, <1>5 DEF Next

LEMMA InitApartSound == Init => ApartSound
  BY DEF Init, Idle, ApartSound, AloneSound, Exchanging

(* Nothing of a revoked row is written again. *)
LEMMA RevokedRowsStay ==
  ASSUME IInv, ApartSound, [Next]_vars
  PROVE  \A t \in Tokens : IsRevoked(t) => table'[t] = table[t]
<1> SUFFICES ASSUME NEW t \in Tokens, IsRevoked(t) PROVE table'[t] = table[t]
  OBVIOUS
<1>1. ASSUME NEW w \in Workers, SaveOld(w) \/ SaveRevoked(w) PROVE table'[t] = table[t]
  <2>1. req[w].token # t
    BY <1>1 DEF SaveOld, SaveRevoked, ApartSound, AloneSound, IsRevoked
  <2> QED
    BY <1>1, <2>1 DEF SaveOld, SaveRevoked, IInv, TypeOK
<1>2. ASSUME NEW w \in Workers, NEW u \in Tokens, Insert(w, u) PROVE table'[t] = table[t]
  BY <1>2 DEF Insert, IsRevoked, IInv, TypeOK
<1> QED
  BY <1>1, <1>2, Writers

(* Whatever else overlaps, the record of the first revocation is kept as     *)
(* long as no two requests are past the check of the same token.           *)
THEOREM RecordedOnceApart == Spec /\ []UsedApart => RevocationRecordedOnce
<1>1. IInv /\ UsedApart /\ ApartSound /\ [Next]_vars => ApartSound'
  BY NextApartSound
<1>2. IInv /\ ApartSound /\ [Next]_vars
        => [\A t \in Tokens : IsRevoked(t) => table'[t] = table[t]]_vars
  BY RevokedRowsStay
<1> QED
  BY <1>1, <1>2, InitApartSound, Inductive, PTL DEF Spec, RevocationRecordedOnce

(* Under the same condition a refresh token is used once: an exchange that   *)
(* is past its check inserts the first successor.                          *)
THEOREM SingleUseApart == Spec /\ []UsedApart => []SingleUse
<1>1. Init => SingleUse
  BY DEF Init, AbsentRow, SingleUse, Successors, Stored
<1>2. ASSUME IInv, ApartSound, SingleUse, [Next]_vars PROVE SingleUse'
  <2>1. ASSUME UNCHANGED origin, \A t \in Tokens : Stored(t)' <=> Stored(t)
        PROVE  SingleUse'
    BY <1>2, <2>1 DEF SingleUse, Successors
  <2>2. ASSUME NEW w \in Workers, SaveOld(w) \/ SaveRevoked(w) PROVE SingleUse'
    BY <1>2, <2>1, <2>2, RevocationKeepsRows DEF SaveOld, SaveRevoked
  <2>3. ASSUME NEW w \in Workers, NEW u \in Tokens, Insert(w, u) PROVE SingleUse'
    <3>1. /\ \A s \in Tokens \ {u} : (Stored(s)' <=> Stored(s)) /\ origin'[s] = origin[s]
          /\ origin'[u].parent = req[w].token
      BY <1>2, <2>3 DEF Insert, Stored, IInv, TypeOK
    <3>2. req[w].token = None \/ Successors(req[w].token) = {}
      BY <1>2, <2>3 DEF Insert, IInv, AwaitsSound, LocalsSound, ApartSound, AloneSound,
                        Exchanging
    <3> QED
      BY <1>2, <3>1, <3>2, TokensAssumption DEF SingleUse, Successors
  <2> QED
    BY <1>2, <2>1, <2>2, <2>3, Writers DEF Stored
<1>3. IInv /\ UsedApart /\ ApartSound /\ [Next]_vars => ApartSound'
  BY NextApartSound
<1> QED
  BY <1>1, <1>2, <1>3, InitApartSound, Inductive, PTL DEF Spec

(* And a token its holder revoked (logout) is never exchanged. *)
THEOREM LogoutApart == Spec /\ []UsedApart => []RevocationSticks
<1>1. Init => RevocationSticks
  BY DEF Init, AbsentRow, IsRevoked, Stored, RevocationSticks
<1>2. ASSUME IInv, IInv', ApartSound, RevocationSticks, [Next]_vars
      PROVE  RevocationSticks'
  <2> SUFFICES ASSUME NEW t \in Tokens, IsRevoked(t)',
                      (table[t].revokedBy = "forwarded")',
                      NEW s \in Tokens, (s \in Successors(t))'
               PROVE  FALSE
    BY DEF RevocationSticks, Successors
  <2>1. t # None /\ Stored(s)' /\ origin'[s].parent = t
    BY TokensAssumption DEF Successors
  <2>2. CASE IsRevoked(t)
    <3>1. table'[t] = table[t]
      BY <1>2, <2>2, RevokedRowsStay
    <3>2. ~(Stored(s) /\ origin[s].parent = t)
      BY <1>2, <2>2, <3>1 DEF RevocationSticks, Successors
    <3>3. ASSUME NEW w \in Workers, NEW u \in Tokens, Insert(w, u) PROVE FALSE
      <4>1. u = s
        BY <1>2, <2>1, <3>2, <3>3 DEF Insert, Stored, IInv, TypeOK
      <4>2. req[w].token = t /\ Exchanging(w) /\ req[w].pc = "insert"
        BY <1>2, <2>1, <3>3, <4>1
           DEF Insert, Exchanging, IInv, AwaitsSound, LocalsSound, TypeOK
      <4> QED
        BY <1>2, <3>1, <4>2 DEF ApartSound, AloneSound
    <3>4. ASSUME NEW w \in Workers, SaveOld(w) \/ SaveRevoked(w) PROVE FALSE
      BY <1>2, <2>1, <3>2, <3>4, RevocationKeepsRows DEF SaveOld, SaveRevoked
    <3>5. ~UNCHANGED <<table, origin>>
      BY <2>1, <3>2 DEF Stored
    <3> QED
      BY <1>2, <3>3, <3>4, <3>5, Writers
  <2>3. CASE ~IsRevoked(t)
    <3>1. ~(Stored(s) /\ origin[s].parent = t)
      BY <1>2, <2>1, <2>3 DEF IInv, LineageSound
    <3>2. ASSUME NEW w \in Workers, NEW u \in Tokens, Insert(w, u) PROVE FALSE
      BY <1>2, <2>3, <3>2 DEF Insert, AbsentRow, IsRevoked, Stored, IInv, TypeOK
    <3>3. ASSUME NEW w \in Workers, SaveOld(w) \/ SaveRevoked(w) PROVE FALSE
      BY <1>2, <2>1, <3>1, <3>3, RevocationKeepsRows DEF SaveOld, SaveRevoked
    <3>4. ~UNCHANGED <<table, origin>>
      BY <2>3 DEF IsRevoked, Stored
    <3> QED
      BY <1>2, <3>2, <3>3, <3>4, Writers
  <2> QED
    BY <2>2, <2>3
<1>3. IInv /\ UsedApart /\ ApartSound /\ [Next]_vars => ApartSound'
  BY NextApartSound
<1> QED
  BY <1>1, <1>2, <1>3, InitApartSound, Inductive, PTL DEF Spec

(* One slot is always apart from itself: with one request at a time all     *)
(* three hold without a condition on the clients.                          *)
THEOREM SerialIsApart ==
  ASSUME NEW slot, Workers = {slot}
  PROVE  Spec => []SingleUse /\ []RevocationSticks /\ RevocationRecordedOnce
<1>1. UsedApart
  BY DEF UsedApart
<1> QED
  BY <1>1, SingleUseApart, LogoutApart, RecordedOnceApart, PTL
=============================================================================

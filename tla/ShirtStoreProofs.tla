-------------------------- MODULE ShirtStoreProofs --------------------------
(* What TLAPS proves of ShirtStore, for every value of its constants. *)
EXTENDS ShirtStore, TLAPS

(* Every action writes one slot, whose new locals are a Request again. *)
LEMMA SlotTypeOK ==
  ASSUME TypeOK, NEW w \in Workers, NEW q \in Request,
         req' = [req EXCEPT ![w] = q]
  PROVE  req' \in [Workers -> Request]
  BY DEF TypeOK

(* Assigning one local of a request keeps it well formed. *)
LEMMA AssignTypeOK ==
  ASSUME NEW q \in Request
  PROVE  /\ \A x \in Steps : [q EXCEPT !.pc = x] \in Request
         /\ \A x \in Statuses : [q EXCEPT !.status = x] \in Request
         /\ \A x \in Shirt \cup {NoShirt} : [q EXCEPT !.loaded = x] \in Request
         /\ \A x \in Nat : [q EXCEPT !.seen = x] \in Request
<1>1. ASSUME NEW x \in Steps PROVE [q EXCEPT !.pc = x] \in Request
  BY DEF Request
<1>2. ASSUME NEW x \in Statuses PROVE [q EXCEPT !.status = x] \in Request
  BY DEF Request
<1>3. ASSUME NEW x \in Shirt \cup {NoShirt} PROVE [q EXCEPT !.loaded = x] \in Request
  BY DEF Request
<1>4. ASSUME NEW x \in Nat PROVE [q EXCEPT !.seen = x] \in Request
  BY DEF Request
<1> QED
  BY <1>1, <1>2, <1>3, <1>4

(* The four of them. *)
LEMMA AssignAllTypeOK ==
  ASSUME NEW q \in Request, NEW p \in Steps, NEW s \in Statuses,
         NEW l \in Shirt \cup {NoShirt}, NEW n \in Nat
  PROVE  [q EXCEPT !.pc = p, !.status = s, !.loaded = l, !.seen = n] \in Request
<1>1. [q EXCEPT !.pc = p] \in Request
  BY AssignTypeOK
<1>2. [q EXCEPT !.pc = p, !.status = s] \in Request
  BY <1>1, AssignTypeOK
<1>3. [q EXCEPT !.pc = p, !.status = s, !.loaded = l] \in Request
  BY <1>2, AssignTypeOK
<1> QED
  BY <1>3, AssignTypeOK

LEMMA IdleTypeOK == Idle \in Request
  BY DEF Idle, Request, Steps, Statuses

LEMMA AnswerTypeOK ==
  ASSUME TypeOK, NEW w \in Workers, NEW status \in Statuses,
         Answer(w, status)
  PROVE  /\ req' \in [Workers -> Request]
         /\ req'[w] = [req[w] EXCEPT !.pc = "reply", !.status = status,
                                     !.loaded = NoShirt, !.seen = 0]
         /\ \A v \in Workers \ {w} : req'[v] = req[v]
<1> DEFINE q == [req[w] EXCEPT !.pc = "reply", !.status = status,
                               !.loaded = NoShirt, !.seen = 0]
<1>1. q \in Request
  <2>1. req[w] \in Request
    BY DEF TypeOK
  <2> QED
    BY <2>1, AssignAllTypeOK DEF Steps
<1>2. req' = [req EXCEPT ![w] = q]
  BY DEF Answer
<1> HIDE DEF q
<1>3. req' \in [Workers -> Request]
  BY <1>1, <1>2, SlotTypeOK
<1>4. req'[w] = q /\ \A v \in Workers \ {w} : req'[v] = req[v]
  BY <1>2 DEF TypeOK
<1> QED
  BY <1>3, <1>4 DEF q

(* An acceptance writes one idle slot and nothing else. *)
LEMMA AcceptTypeOK ==
  ASSUME TypeOK, NEW w \in Workers, NEW q \in Request, Accept(w, q)
  PROVE  TypeOK'
  BY SlotTypeOK DEF Accept, TypeOK

LEMMA BodiesAreShirts == Bodies \subseteq Shirt
  BY DEF Bodies

LEMMA ArriveTypeOK == ASSUME TypeOK, NEW w \in Workers, Arrive(w) PROVE TypeOK'
<1>1. ASSUME NEW i \in PostedIds, NEW s \in Bodies, AcceptCreate(w, i, s) PROVE TypeOK'
  <2>1. [Idle EXCEPT !.pc = "check", !.op = "create", !.bodyId = i, !.body = s] \in Request
    BY IdsAssumption, BodiesAreShirts DEF Idle, Request, Steps, Statuses
  <2> QED
    BY <1>1, <2>1, AcceptTypeOK DEF AcceptCreate
<1>2. ASSUME NEW i \in Ids, NEW j \in Ids, NEW s \in Bodies, AcceptUpdate(w, i, j, s)
      PROVE  TypeOK'
  <2>1. [Idle EXCEPT !.pc = "find", !.op = "update", !.id = i, !.bodyId = j, !.body = s]
          \in Request
    BY BodiesAreShirts DEF Idle, Request, Steps, Statuses
  <2> QED
    BY <1>2, <2>1, AcceptTypeOK DEF AcceptUpdate
<1>3. ASSUME NEW i \in Ids, AcceptDelete(w, i) PROVE TypeOK'
  <2>1. [Idle EXCEPT !.pc = "find", !.op = "delete", !.id = i] \in Request
    BY DEF Idle, Request, Steps, Statuses
  <2> QED
    BY <1>3, <2>1, AcceptTypeOK DEF AcceptDelete
<1>4. ASSUME NEW i \in Ids, AcceptGet(w, i) PROVE TypeOK'
  <2>1. [Idle EXCEPT !.pc = "find", !.op = "get", !.id = i] \in Request
    BY DEF Idle, Request, Steps, Statuses
  <2> QED
    BY <1>4, <2>1, AcceptTypeOK DEF AcceptGet
<1> QED
  BY <1>1, <1>2, <1>3, <1>4 DEF Arrive

(* The column of a shirt is the one of the row or the one that was sent. *)
LEMMA WrittenIsShirt ==
  ASSUME NEW row \in Shirt, NEW old \in Shirt, NEW new \in Shirt
  PROVE  Written(row, old, new) \in Shirt /\ Written(old, old, new) = new
  BY DEF Written, Shirt

(* What each step writes besides its slot. *)
LEMMA ServeTypeOK == ASSUME TypeOK, AwaitsSound, NEW w \in Workers, Serve(w) PROVE TypeOK'
<1>0. req[w] \in Request
  BY DEF TypeOK
<1>a. ASSUME NEW status \in {200, 201, 204, 400, 404, 500}, Answer(w, status)
      PROVE  req' \in [Workers -> Request]
  <2>1. status \in Statuses
    BY DEF Statuses
  <2> QED
    BY <1>a, <2>1, AnswerTypeOK, Zenon
<1>1. CASE Check(w)
  <2>1. [req[w] EXCEPT !.pc = "save"] \in Request
    BY <1>0, AssignTypeOK DEF Steps
  <2> QED
    BY <1>1, <2>1, SlotTypeOK DEF TypeOK, Check
<1>2. CASE CheckFails(w) \/ InsertFails(w) \/ UpdateNothing(w) \/ DeleteFails(w)
  BY <1>2, <1>a DEF TypeOK, CheckFails, InsertFails, UpdateNothing, DeleteFails
<1>3. CASE FindFails(w)
  BY <1>3, <1>a DEF TypeOK, FindFails
<1>4. CASE Recover(w)
  BY <1>4, <1>a DEF TypeOK, Recover
<1>5. CASE Find(w)
  <2>1. req[w].id \in Ids /\ rows[req[w].id] \in Shirt \cup {NoShirt} /\ births[req[w].id] \in Nat
    BY <1>0, <1>5 DEF TypeOK, Find, Request
  <2>2. [req[w] EXCEPT !.pc = IF req[w].op = "get" THEN "reply" ELSE "save",
                       !.status = IF req[w].op = "get" THEN 200 ELSE 0,
                       !.loaded = rows[req[w].id], !.seen = births[req[w].id]] \in Request
    <3> DEFINE p == IF req[w].op = "get" THEN "reply" ELSE "save"
               s == IF req[w].op = "get" THEN 200 ELSE 0
    <3>1. p \in Steps /\ s \in Statuses
      BY DEF Steps, Statuses
    <3> HIDE DEF p, s
    <3>2. [req[w] EXCEPT !.pc = p, !.status = s, !.loaded = rows[req[w].id],
                         !.seen = births[req[w].id]] \in Request
      BY <1>0, <2>1, <3>1, AssignAllTypeOK
    <3> QED
      BY <3>2 DEF p, s
  <2> QED
    BY <1>5, <2>2, SlotTypeOK DEF TypeOK, Find
<1>6. CASE UpdateFails(w)
  <2>1. [req[w] EXCEPT !.pc = "recover"] \in Request
    BY <1>0, AssignTypeOK DEF Steps
  <2> QED
    BY <1>6, <2>1, SlotTypeOK DEF TypeOK, UpdateFails
<1>7. CASE Reply(w)
  BY <1>7, IdleTypeOK, SlotTypeOK DEF TypeOK, Reply
<1>8. CASE Insert(w)
  <2> DEFINE i == NewId(req[w].bodyId)
  <2>1. /\ i \in Ids /\ rows' = [rows EXCEPT ![i] = req[w].body]
        /\ seq' = IF i > seq THEN i ELSE seq
        /\ author' = [author EXCEPT ![i] = w]
        /\ births' = [births EXCEPT ![i] = births[i] + 1]
        /\ named' = [named EXCEPT ![i] = req[w].bodyId # 0]
        /\ Answer(w, 201)
    BY <1>8 DEF Insert
  <2> HIDE DEF i
  <2>2. req[w].body \in Shirt \cup {NoShirt}
    BY <1>0 DEF Request
  <2>3. seq' \in Nat
    BY <2>1, IdsAssumption DEF TypeOK
  <2>4. rows' \in [Ids -> Shirt \cup {NoShirt}] /\ author' \in [Ids -> Workers \cup {None}]
    BY <2>1, <2>2 DEF TypeOK
  <2>5. births' \in [Ids -> Nat]
    BY <2>1 DEF TypeOK
  <2>6. req' \in [Workers -> Request]
    BY <2>1, <1>a
  <2>7. named' \in [Ids -> BOOLEAN]
    <3>1. (req[w].bodyId # 0) \in BOOLEAN
      OBVIOUS
    <3> QED
      BY <2>1, <3>1, Zenon DEF TypeOK
  <2> QED
    BY <2>3, <2>4, <2>5, <2>6, <2>7 DEF TypeOK
<1>9. CASE Update(w)
  <2>1. /\ req[w].id \in Ids /\ req[w].loaded \in Shirt /\ req[w].body \in Shirt
        /\ rows[req[w].id] \in Shirt
    BY <1>9 DEF TypeOK, Update, AwaitsSound, EntitySound, Exists
  <2>2. Written(rows[req[w].id], req[w].loaded, req[w].body) \in Shirt
    BY <2>1, WrittenIsShirt
  <2>3. req' \in [Workers -> Request]
    BY <1>9, <1>a DEF Update
  <2>4. rows' \in [Ids -> Shirt \cup {NoShirt}] /\ author' \in [Ids -> Workers \cup {None}]
    BY <1>9, <2>1, <2>2 DEF TypeOK, Update
  <2> QED
    BY <1>9, <2>3, <2>4 DEF TypeOK, Update
<1>10. CASE Delete(w)
  <2>1. req' \in [Workers -> Request]
    BY <1>10, <1>a DEF Delete
  <2>2. rows' \in [Ids -> Shirt \cup {NoShirt}] /\ author' \in [Ids -> Workers \cup {None}]
    BY <1>10 DEF TypeOK, Delete
  <2> QED
    BY <1>10, <2>1, <2>2 DEF TypeOK, Delete
<1> QED
  BY <1>1, <1>2, <1>3, <1>4, <1>5, <1>6, <1>7, <1>8, <1>9, <1>10 DEF Serve

-----------------------------------------------------------------------------
(* A step that writes its slot only, with q, and does not take it to a       *)
(* write, keeps what the others rely on.                                   *)
LEMMA SlotAwaits ==
  ASSUME TypeOK, AwaitsSound, NEW w \in Workers, NEW q \in Request,
         req' = [req EXCEPT ![w] = q], UNCHANGED <<rows, seq, author, births, named>>,
         q.pc \notin {"save", "recover"},
         q.op = "create" => q.bodyId \in PostedIds /\ q.body \in Shirt,
         q.op = "update" => q.body \in Shirt,
         q.status # 0 => q.pc = "reply",
         q.pc = "check" => q.op = "create", q.pc = "find" => q.op # "create"
  PROVE  AwaitsSound'
<1>1. req'[w] = q /\ \A v \in Workers \ {w} : req'[v] = req[v]
  BY DEF TypeOK
<1>2. KeysSound'
  BY DEF AwaitsSound, KeysSound, Exists
<1>3. EntitySound'
  BY <1>1 DEF AwaitsSound, EntitySound, Exists
<1>4. CreationSound'
  BY <1>1 DEF AwaitsSound, CreationSound, Exists
<1> QED
  BY <1>1, <1>2, <1>3, <1>4 DEF AwaitsSound

LEMMA AnswerAwaits ==
  ASSUME TypeOK, AwaitsSound, NEW w \in Workers, NEW status \in Statuses,
         Answer(w, status), UNCHANGED <<rows, seq, author, births, named>>
  PROVE  AwaitsSound'
<1> DEFINE q == [req[w] EXCEPT !.pc = "reply", !.status = status,
                               !.loaded = NoShirt, !.seen = 0]
<1>0. req[w] \in Request
  BY DEF TypeOK
<1>1. q \in Request
  BY <1>0, AssignAllTypeOK DEF Steps
<1>2. q.pc = "reply" /\ q.op = req[w].op /\ q.bodyId = req[w].bodyId /\ q.body = req[w].body
  BY <1>0 DEF Request
<1>3. /\ req[w].op = "create" => req[w].bodyId \in PostedIds /\ req[w].body \in Shirt
      /\ req[w].op = "update" => req[w].body \in Shirt
  BY DEF AwaitsSound, CreationSound
<1>4. req' = [req EXCEPT ![w] = q]
  BY DEF Answer
<1> HIDE DEF q
<1> QED
  BY <1>1, <1>2, <1>3, <1>4, SlotAwaits

LEMMA ArriveAwaits ==
  ASSUME TypeOK, AwaitsSound, NEW w \in Workers, Arrive(w) PROVE AwaitsSound'
<1>1. ASSUME NEW i \in PostedIds, NEW s \in Bodies, AcceptCreate(w, i, s) PROVE AwaitsSound'
  <2> DEFINE q == [Idle EXCEPT !.pc = "check", !.op = "create", !.bodyId = i, !.body = s]
  <2>1. q \in Request /\ q.pc = "check" /\ q.op = "create" /\ q.bodyId = i
        /\ q.body = s /\ q.status = 0
    BY IdsAssumption, BodiesAreShirts DEF Idle, Request, Steps, Statuses
  <2>2. req' = [req EXCEPT ![w] = q] /\ UNCHANGED <<rows, seq, author, births, named>>
    BY <1>1 DEF AcceptCreate, Accept
  <2> HIDE DEF q
  <2> QED
    BY <2>1, <2>2, BodiesAreShirts, SlotAwaits
<1>2. ASSUME NEW i \in Ids, NEW j \in Ids, NEW s \in Bodies, AcceptUpdate(w, i, j, s)
      PROVE  AwaitsSound'
  <2> DEFINE q == [Idle EXCEPT !.pc = "find", !.op = "update", !.id = i,
                               !.bodyId = j, !.body = s]
  <2>1. q \in Request /\ q.pc = "find" /\ q.op = "update" /\ q.body = s /\ q.status = 0
    BY BodiesAreShirts DEF Idle, Request, Steps, Statuses
  <2>2. req' = [req EXCEPT ![w] = q] /\ UNCHANGED <<rows, seq, author, births, named>>
    BY <1>2 DEF AcceptUpdate, Accept
  <2> HIDE DEF q
  <2> QED
    BY <2>1, <2>2, BodiesAreShirts, SlotAwaits
<1>3. ASSUME NEW i \in Ids, NEW op \in {"delete", "get"},
             Accept(w, [Idle EXCEPT !.pc = "find", !.op = op, !.id = i])
      PROVE  AwaitsSound'
  <2> DEFINE q == [Idle EXCEPT !.pc = "find", !.op = op, !.id = i]
  <2>1. q \in Request /\ q.pc = "find" /\ q.op = op /\ q.status = 0
    BY DEF Idle, Request, Steps, Statuses
  <2>2. req' = [req EXCEPT ![w] = q] /\ UNCHANGED <<rows, seq, author, births, named>>
    BY <1>3 DEF Accept
  <2> HIDE DEF q
  <2> QED
    BY <2>1, <2>2, SlotAwaits
<1> QED
  BY <1>1, <1>2, <1>3 DEF Arrive, AcceptDelete, AcceptGet

(* A row is inserted under an id a POST carried, or above every id so far. *)
LEMMA InsertFacts ==
  ASSUME TypeOK, AwaitsSound, NEW w \in Workers, Insert(w)
  PROVE  \E i \in Ids :
           /\ ~Exists(i) /\ rows' = [rows EXCEPT ![i] = req[w].body]
           /\ author' = [author EXCEPT ![i] = w]
           /\ births' = [births EXCEPT ![i] = births[i] + 1]
           /\ named' = [named EXCEPT ![i] = req[w].bodyId # 0]
           /\ seq' = IF i > seq THEN i ELSE seq
           /\ req[w].bodyId # 0 \/ i > seq
           /\ req[w].body \in Shirt /\ req[w].op = "create" /\ req[w].pc = "save"
           /\ Answer(w, 201)
<1> DEFINE i == NewId(req[w].bodyId)
<1>1. req[w].bodyId \in PostedIds /\ req[w].body \in Shirt
  BY DEF Insert, AwaitsSound, CreationSound
<1>2. req[w].bodyId # 0 \/ i > seq
  BY <1>1 DEF NewId, TypeOK
<1>3. /\ i \in Ids /\ ~Exists(i) /\ rows' = [rows EXCEPT ![i] = req[w].body]
      /\ author' = [author EXCEPT ![i] = w]
      /\ births' = [births EXCEPT ![i] = births[i] + 1]
      /\ named' = [named EXCEPT ![i] = req[w].bodyId # 0]
      /\ seq' = IF i > seq THEN i ELSE seq
      /\ req[w].op = "create" /\ req[w].pc = "save" /\ Answer(w, 201)
  BY DEF Insert
<1> HIDE DEF i
<1> QED
  BY <1>1, <1>2, <1>3

(* What an answer leaves in its slot. *)
LEMMA AnswerSlot ==
  ASSUME TypeOK, NEW w \in Workers, NEW status \in Statuses, Answer(w, status)
  PROVE  /\ req'[w].pc = "reply" /\ req'[w].op = req[w].op /\ req'[w].id = req[w].id
         /\ req'[w].bodyId = req[w].bodyId /\ req'[w].body = req[w].body
         /\ req'[w].status = status
         /\ \A v \in Workers \ {w} : req'[v] = req[v]
<1>1. req[w] \in Request
  BY DEF TypeOK
<1>2. /\ req'[w] = [req[w] EXCEPT !.pc = "reply", !.status = status,
                                  !.loaded = NoShirt, !.seen = 0]
      /\ \A v \in Workers \ {w} : req'[v] = req[v]
  BY AnswerTypeOK
<1> QED
  BY <1>1, <1>2 DEF Request

LEMMA InsertAwaits ==
  ASSUME TypeOK, AwaitsSound, NEW w \in Workers, Insert(w) PROVE AwaitsSound'
<1>0. PICK i \in Ids :
        /\ ~Exists(i) /\ rows' = [rows EXCEPT ![i] = req[w].body]
        /\ author' = [author EXCEPT ![i] = w]
        /\ births' = [births EXCEPT ![i] = births[i] + 1]
        /\ named' = [named EXCEPT ![i] = req[w].bodyId # 0]
        /\ seq' = IF i > seq THEN i ELSE seq
        /\ req[w].bodyId # 0 \/ i > seq
        /\ req[w].body \in Shirt /\ req[w].op = "create" /\ req[w].pc = "save"
        /\ Answer(w, 201)
  BY InsertFacts
<1>1. /\ req'[w].pc = "reply" /\ req'[w].op = "create"
      /\ req'[w].bodyId = req[w].bodyId /\ req'[w].body = req[w].body
      /\ \A v \in Workers \ {w} : req'[v] = req[v]
  BY <1>0, AnswerSlot DEF Statuses
<1>2. i \in Int /\ seq \in Nat /\ \A j \in Ids : j \in Int
  BY IdsAssumption DEF TypeOK
<1>3. /\ \A j \in Ids \ {i} : rows'[j] = rows[j] /\ author'[j] = author[j] /\ births'[j] = births[j]
      /\ author'[i] = w /\ births[i] \in Nat /\ births'[i] = births[i] + 1
  BY <1>0 DEF TypeOK
<1>7. /\ \A j \in Ids \ {i} : named'[j] = named[j]
      /\ i > seq \/ named'[i]
  BY <1>0, Zenon DEF TypeOK
<1>4. KeysSound'
  BY <1>0, <1>2, <1>3 DEF AwaitsSound, KeysSound, Exists
<1>5. EntitySound'
  <2> SUFFICES ASSUME NEW v \in Workers,
                      req'[v].op \in {"update", "delete"},
                      req'[v].pc \in {"save", "recover"}
               PROVE  /\ req'[v].id \in Ids /\ req'[v].id <= seq'
                      /\ births'[req'[v].id] = req'[v].seen \/ named'[req'[v].id]
                      /\ req'[v].seen > 0 /\ births'[req'[v].id] >= req'[v].seen
                      /\ req'[v].loaded \in Shirt
                      /\ req'[v].pc = "recover" =>
                           /\ req'[v].op = "update"
                           /\ rows'[req'[v].id] # NoShirt =>
                                named'[req'[v].id] /\ births'[req'[v].id] > req'[v].seen
    BY DEF EntitySound, Exists
  <2>1. v # w /\ req'[v] = req[v] /\ req[v].seen \in Nat
    BY <1>1 DEF TypeOK, Request
  <2>2. /\ req[v].id \in Ids /\ req[v].id <= seq
        /\ births[req[v].id] = req[v].seen \/ named[req[v].id]
        /\ req[v].seen > 0 /\ births[req[v].id] >= req[v].seen
        /\ req[v].loaded \in Shirt
        /\ req[v].pc = "recover" =>
             /\ req[v].op = "update"
             /\ rows[req[v].id] # NoShirt =>
                  named[req[v].id] /\ births[req[v].id] > req[v].seen
    BY <2>1 DEF AwaitsSound, EntitySound, Exists
  <2>3. req[v].id = i => named'[i] /\ births'[i] > req[v].seen
    <3>1. req[v].id = i => ~(i > seq)
      BY <1>2, <2>2
    <3>2. req[v].id = i => births'[i] > req[v].seen
      BY <1>3, <2>1, <2>2
    <3> QED
      BY <1>7, <3>1, <3>2, Zenon
  <2>4. req[v].id <= seq'
    <3>1. req[v].id \in Int /\ req[v].id <= seq
      BY <1>2, <2>2
    <3>2. seq' = IF i > seq THEN i ELSE seq
      BY <1>0
    <3> QED
      BY <1>2, <3>1, <3>2
  <2>5. CASE req[v].id = i
    <3>1. births'[i] >= req[v].seen
      BY <1>3, <2>1, <2>3, <2>5
    <3> QED
      BY <2>1, <2>2, <2>3, <2>4, <2>5, <3>1, Zenon
  <2>6. CASE req[v].id # i
    <3>1. /\ rows'[req[v].id] = rows[req[v].id] /\ births'[req[v].id] = births[req[v].id]
          /\ named'[req[v].id] = named[req[v].id]
      BY <1>3, <1>7, <2>2, <2>6, Zenon
    <3> QED
      BY <2>1, <2>2, <2>4, <3>1, Zenon
  <2> QED
    BY <2>5, <2>6
<1>6. CreationSound'
  <2>1. ASSUME NEW v \in Workers, v # w, req[v].op = "create", req[v].pc = "save",
               NEW j \in Ids, rows'[j] # NoShirt, author'[j] = v
        PROVE  ~Same(rows'[j], req[v].body)
    <3>1. j # i
      BY <1>3, <2>1
    <3> QED
      BY <1>3, <2>1, <3>1 DEF AwaitsSound, CreationSound, Exists
  <2>2. ASSUME NEW v \in Workers, req'[v].op = "create"
        PROVE  req'[v].bodyId \in PostedIds /\ req'[v].body \in Shirt
    BY <1>0, <1>1, <2>2 DEF AwaitsSound, CreationSound
  <2>3. ASSUME NEW v \in Workers, req'[v].op = "create", req'[v].pc = "save"
        PROVE  v # w /\ req'[v] = req[v]
    BY <1>1, <2>3
  <2> QED
    BY <2>1, <2>2, <2>3 DEF CreationSound, Exists
<1> QED
  BY <1>1, <1>4, <1>5, <1>6, AnswerSlot, <1>0 DEF AwaitsSound, Statuses

(* An update or a deletion writes one row that is there. *)
LEMMA WriteAwaits ==
  ASSUME TypeOK, AwaitsSound, NEW w \in Workers, NEW status \in Statuses,
         NEW row \in Shirt \cup {NoShirt}, NEW i \in Ids,
         Answer(w, status), Exists(i), rows' = [rows EXCEPT ![i] = row],
         author' = [author EXCEPT ![i] = None], UNCHANGED <<seq, births, named>>
  PROVE  AwaitsSound'
<1>1. /\ req'[w].pc = "reply" /\ req'[w].op = req[w].op
      /\ req'[w].bodyId = req[w].bodyId /\ req'[w].body = req[w].body
      /\ \A v \in Workers \ {w} : req'[v] = req[v]
  BY AnswerSlot
<1>2. /\ \A j \in Ids \ {i} : rows'[j] = rows[j] /\ author'[j] = author[j]
      /\ author'[i] = None
      /\ \A j \in Ids : rows[j] = NoShirt => rows'[j] = NoShirt
  BY DEF TypeOK, Exists
<1>3. KeysSound'
  BY <1>2 DEF AwaitsSound, KeysSound, Exists
<1>4. EntitySound'
  <2>1. ASSUME NEW v \in Workers, req'[v].pc \in {"save", "recover"}
        PROVE  v # w /\ req'[v] = req[v]
    BY <1>1, <2>1
  <2> QED
    BY <1>2, <2>1 DEF AwaitsSound, EntitySound, Exists
<1>5. CreationSound'
  <2>1. ASSUME NEW v \in Workers, req'[v].op = "create"
        PROVE  req'[v].bodyId \in PostedIds /\ req'[v].body \in Shirt
    BY <1>1, <2>1 DEF AwaitsSound, CreationSound
  <2>2. ASSUME NEW v \in Workers, req'[v].op = "create", req'[v].pc = "save",
               NEW j \in Ids, rows'[j] # NoShirt, author'[j] = v
        PROVE  ~Same(rows'[j], req'[v].body)
    <3>1. v # w /\ req'[v] = req[v] /\ j # i
      BY <1>1, <1>2, <2>2, WorkersAssumption
    <3> QED
      BY <1>2, <2>2, <3>1 DEF AwaitsSound, CreationSound, Exists
  <2> QED
    BY <2>1, <2>2 DEF CreationSound, Exists
<1> QED
  BY <1>1, <1>3, <1>4, <1>5 DEF AwaitsSound

LEMMA ServeAwaits ==
  ASSUME TypeOK, AwaitsSound, NEW w \in Workers, Serve(w) PROVE AwaitsSound'
<1>0. req[w] \in Request
  BY DEF TypeOK
<1>10. 200 \in Statuses /\ 204 \in Statuses /\ NoShirt \in Shirt \cup {NoShirt}
       /\ \A s \in Shirt : s \in Shirt \cup {NoShirt}
  BY DEF Statuses
<1>1. CASE CheckFails(w) \/ InsertFails(w) \/ UpdateNothing(w) \/ DeleteFails(w) \/ Recover(w)
  BY <1>1, AnswerAwaits
     DEF CheckFails, InsertFails, UpdateNothing, DeleteFails, Recover, Statuses
<1>2. CASE FindFails(w)
  BY <1>2, AnswerAwaits DEF FindFails, Statuses
<1>3. CASE Insert(w)
  BY <1>3, InsertAwaits
<1>4. CASE Update(w)
  <2>1. /\ req[w].id \in Ids /\ req[w].loaded \in Shirt /\ req[w].body \in Shirt
        /\ rows[req[w].id] \in Shirt
    BY <1>4 DEF TypeOK, Update, AwaitsSound, EntitySound, Exists
  <2>2. Written(rows[req[w].id], req[w].loaded, req[w].body) \in Shirt
    BY <2>1, WrittenIsShirt
  <2> QED
    BY <1>4, <2>1, <2>2, <1>10, WriteAwaits, Zenon DEF Update
<1>5. CASE Delete(w)
  <2>1. req[w].id \in Ids
    BY <1>5 DEF Delete, AwaitsSound, EntitySound
  <2> QED
    BY <1>5, <2>1, <1>10, WriteAwaits, Zenon DEF Delete
<1>6. CASE Reply(w)
  <2>1. Idle.pc = "idle" /\ Idle.op = "none" /\ Idle.status = 0
    BY DEF Idle
  <2> QED
    BY <1>6, <2>1, IdleTypeOK, SlotAwaits DEF Reply
<1>7. CASE Check(w)
  <2>1. /\ req'[w].pc = "save" /\ req'[w].op = req[w].op /\ req'[w].status = req[w].status
        /\ req'[w].bodyId = req[w].bodyId /\ req'[w].body = req[w].body
        /\ \A v \in Workers \ {w} : req'[v] = req[v]
    BY <1>0, <1>7 DEF Check, TypeOK, Request
  <2>2. /\ req[w].op = "create" /\ req[w].status = 0
        /\ req[w].bodyId \in PostedIds /\ req[w].body \in Shirt
        /\ \A i \in Ids : Exists(i) => ~Same(rows[i], req[w].body)
    BY <1>7 DEF Check, AwaitsSound, CreationSound
  <2>3. UNCHANGED <<rows, seq, author, births, named>>
    BY <1>7 DEF Check
  <2>4. KeysSound' /\ EntitySound'
    BY <2>1, <2>2, <2>3 DEF AwaitsSound, KeysSound, EntitySound, Exists
  <2>5. CreationSound'
    BY <2>1, <2>2, <2>3 DEF AwaitsSound, CreationSound, Exists
  <2> QED
    BY <2>1, <2>2, <2>4, <2>5 DEF AwaitsSound
<1>8. CASE Find(w)
  <2>1. UNCHANGED <<rows, seq, author, births, named>>
    BY <1>8 DEF Find
  <2>2. /\ req'[w].pc = IF req[w].op = "get" THEN "reply" ELSE "save"
        /\ req'[w].status = IF req[w].op = "get" THEN 200 ELSE 0
        /\ req'[w].op = req[w].op /\ req'[w].id = req[w].id /\ req'[w].body = req[w].body
        /\ req'[w].loaded = rows[req[w].id] /\ req'[w].seen = births[req[w].id]
        /\ \A v \in Workers \ {w} : req'[v] = req[v]
    BY <1>0, <1>8 DEF Find, TypeOK, Request
  <2>3. /\ req[w].op # "create" /\ req[w].id \in Ids /\ req[w].id <= seq
        /\ rows[req[w].id] \in Shirt
        /\ req[w].op = "update" => req[w].body \in Shirt
    BY <1>0, <1>8 DEF Find, TypeOK, Request, AwaitsSound, KeysSound, Exists
  <2>6. births[req[w].id] > 0 /\ births[req[w].id] \in Nat
    BY <2>3, <1>8 DEF Find, TypeOK, AwaitsSound, KeysSound
  <2>4. KeysSound' /\ CreationSound'
    BY <2>1, <2>2, <2>3 DEF AwaitsSound, KeysSound, CreationSound, Exists
  <2>5. EntitySound'
    <3> SUFFICES ASSUME NEW v \in Workers,
                        req'[v].op \in {"update", "delete"},
                        req'[v].pc \in {"save", "recover"}
                 PROVE  /\ req'[v].id \in Ids /\ req'[v].id <= seq
                        /\ births[req'[v].id] = req'[v].seen \/ named[req'[v].id]
                        /\ req'[v].seen > 0 /\ births[req'[v].id] >= req'[v].seen
                        /\ req'[v].loaded \in Shirt
                        /\ req'[v].pc = "recover" =>
                             /\ req'[v].op = "update"
                             /\ Exists(req'[v].id) =>
                                  named[req'[v].id] /\ births[req'[v].id] > req'[v].seen
      BY <2>1 DEF EntitySound, Exists
    <3>1. CASE v = w
      BY <2>2, <2>3, <2>6, <3>1
    <3>2. CASE v # w
      BY <2>2, <3>2, Zenon DEF AwaitsSound, EntitySound
    <3> QED
      BY <3>1, <3>2
  <2> QED
    BY <2>2, <2>3, <2>4, <2>5 DEF AwaitsSound
<1>9. CASE UpdateFails(w)
  <2>1. UNCHANGED <<rows, seq, author, births, named>>
    BY <1>9 DEF UpdateFails
  <2>2. /\ req'[w].pc = "recover" /\ req'[w].status = req[w].status
        /\ req'[w].op = req[w].op /\ req'[w].id = req[w].id /\ req'[w].body = req[w].body
        /\ req'[w].loaded = req[w].loaded /\ req'[w].seen = req[w].seen
        /\ \A v \in Workers \ {w} : req'[v] = req[v]
    BY <1>0, <1>9 DEF UpdateFails, TypeOK, Request
  <2>3. /\ req[w].op = "update" /\ req[w].pc = "save" /\ req[w].status = 0
        /\ req[w].body \in Shirt /\ ~Exists(req[w].id)
    BY <1>9 DEF UpdateFails, AwaitsSound
  <2>4. KeysSound' /\ CreationSound'
    BY <2>1, <2>2, <2>3 DEF AwaitsSound, KeysSound, CreationSound, Exists
  <2>5. EntitySound'
    BY <2>1, <2>2, <2>3 DEF AwaitsSound, EntitySound, Exists
  <2> QED
    BY <2>2, <2>3, <2>4, <2>5 DEF AwaitsSound
<1> QED
  BY <1>1, <1>2, <1>3, <1>4, <1>5, <1>6, <1>7, <1>8, <1>9 DEF Serve

LEMMA InitSound == Init => TypeOK /\ AwaitsSound
<1> SUFFICES ASSUME Init PROVE TypeOK /\ AwaitsSound
  OBVIOUS
<1>1. TypeOK
  BY IdleTypeOK DEF Init, TypeOK
<1>2. \A w \in Workers : req[w].pc = "idle" /\ req[w].op = "none" /\ req[w].status = 0
  BY DEF Init, Idle
<1> QED
  BY <1>1, <1>2 DEF Init, AwaitsSound, KeysSound, EntitySound, CreationSound, Exists

LEMMA NextSound == ASSUME TypeOK, AwaitsSound, [Next]_vars PROVE TypeOK' /\ AwaitsSound'
<1>1. ASSUME NEW w \in Workers, Arrive(w) PROVE TypeOK' /\ AwaitsSound'
  BY <1>1, ArriveTypeOK, ArriveAwaits
<1>2. ASSUME NEW w \in Workers, Serve(w) PROVE TypeOK' /\ AwaitsSound'
  BY <1>2, ServeTypeOK, ServeAwaits
<1>3. CASE UNCHANGED vars
  BY <1>3 DEF vars, TypeOK, AwaitsSound, KeysSound, EntitySound, CreationSound, Exists
<1> QED
  BY <1>1, <1>2, <1>3 DEF Next

(* The variables of ShirtStore keep their types. *)
THEOREM TypeCorrect == Spec => []TypeOK
<1> QED
  BY InitSound, NextSound, PTL DEF Spec

(* What a handler relies on between its query and its write: its shirt does *)
(* not come back under its id unless a POST named it, and a creation past   *)
(* the duplicate check has not inserted its shirt yet.                     *)
THEOREM Awaits == Spec => []AwaitsSound
<1> QED
  BY InitSound, NextSound, PTL DEF Spec

(* The shirt UpdateShirt and DeleteShirt write is the one the filter loaded,  *)
(* whatever is deleted and created in between, unless a POST that carries  *)
(* its id has put another one there: an id SQLite chooses is a new one.    *)
THEOREM WritesLoaded == Spec => []WritesWhatItLoaded
<1>1. AwaitsSound => WritesWhatItLoaded
  BY DEF AwaitsSound, EntitySound, WritesWhatItLoaded
<1> QED
  BY <1>1, Awaits, PTL

-----------------------------------------------------------------------------
LEMMA OtherSlots ==
  ASSUME TypeOK, NEW v \in Workers, Arrive(v) \/ Serve(v)
  PROVE  \A w \in Workers \ {v} : req'[w] = req[w]
<1>1. CASE Arrive(v)
  BY <1>1 DEF Arrive, AcceptCreate, AcceptUpdate, AcceptDelete, AcceptGet, Accept, TypeOK
<1>2. ASSUME NEW status \in Statuses, Answer(v, status)
      PROVE  \A w \in Workers \ {v} : req'[w] = req[w]
  BY <1>2, AnswerSlot
<1>3. CASE Serve(v)
  <2>1. CASE Check(v) \/ Find(v) \/ UpdateFails(v) \/ Reply(v)
    BY <2>1 DEF Check, Find, UpdateFails, Reply, TypeOK
  <2>2. CASE \E status \in Statuses : Answer(v, status)
    BY <1>2, <2>2
  <2>3. CASE CheckFails(v) \/ FindFails(v) \/ Recover(v)
    BY <1>2, <2>3 DEF CheckFails, FindFails, Recover, Statuses
  <2>4. CASE Insert(v) \/ InsertFails(v) \/ Delete(v) \/ DeleteFails(v)
    BY <1>2, <2>4 DEF Insert, InsertFails, Delete, DeleteFails, Statuses
  <2>5. CASE Update(v) \/ UpdateNothing(v)
    BY <1>2, <2>5 DEF Update, UpdateNothing, Statuses
  <2> QED
    BY <1>3, <2>1, <2>3, <2>4, <2>5 DEF Serve
<1> QED
  BY <1>1, <1>3

(* Vanished, made inductive: the id of a failed update is one that was used, *)
(* so no new id brings its shirt back.                                     *)
FailedUpdate(w) == req[w].op = "update" /\ req[w].status = 500

NamedAgain(i) == i \in Ids /\ i <= seq /\ named[i] /\ births[i] > 1

VanishedSound == \A w \in Workers : FailedUpdate(w) => NamedAgain(req[w].id)

(* A row that a POST has brought back stays one.                            *)
LEMMA NamedAgainStays ==
  ASSUME TypeOK, AwaitsSound, [Next]_vars, NEW i \in Ids, NamedAgain(i)
  PROVE  NamedAgain(i)'
<1>1. CASE UNCHANGED <<seq, births, named>>
  BY <1>1 DEF NamedAgain
<1>2. ASSUME NEW w \in Workers, Insert(w) PROVE NamedAgain(i)'
  <2>0. PICK j \in Ids :
          /\ births' = [births EXCEPT ![j] = births[j] + 1]
          /\ named' = [named EXCEPT ![j] = req[w].bodyId # 0]
          /\ seq' = IF j > seq THEN j ELSE seq
          /\ req[w].bodyId # 0 \/ j > seq
    BY <1>2, InsertFacts
  <2>1. i \in Int /\ j \in Int /\ seq \in Nat /\ i <= seq
    BY IdsAssumption DEF TypeOK, NamedAgain
  <2>2. i <= seq'
    BY <2>0, <2>1
  <2>3. births'[i] > 1
    BY <2>0 DEF TypeOK, NamedAgain
  <2>4. i = j => ~(j > seq)
    BY <2>1
  <2>5. named'[i]
    BY <2>0, <2>4, Zenon DEF TypeOK, NamedAgain
  <2> QED
    BY <2>2, <2>3, <2>5 DEF NamedAgain
<1>3. ASSUME NEW w \in Workers, Arrive(w) PROVE UNCHANGED <<seq, births, named>>
  BY <1>3 DEF Arrive, AcceptCreate, AcceptUpdate, AcceptDelete, AcceptGet, Accept
<1>4. ASSUME NEW w \in Workers, Serve(w), ~Insert(w)
      PROVE  UNCHANGED <<seq, births, named>>
  BY <1>4 DEF Serve, Check, CheckFails, Find, FindFails, InsertFails, Update, UpdateNothing,
              UpdateFails, Recover, Delete, DeleteFails, Reply
<1> QED
  BY <1>1, <1>2, <1>3, <1>4 DEF Next, vars

LEMMA NextVanished ==
  ASSUME TypeOK, AwaitsSound, VanishedSound, [Next]_vars
  PROVE  VanishedSound'
<1> SUFFICES ASSUME NEW w \in Workers, req'[w].op = "update", req'[w].status = 500
             PROVE  \E i \in Ids : req'[w].id = i /\ NamedAgain(i)'
  BY Zenon DEF VanishedSound, FailedUpdate
<1> SUFFICES ASSUME \A i \in Ids : req'[w].id = i => ~NamedAgain(i)' PROVE FALSE
  OBVIOUS
<1>0. req[w] \in Request
  BY DEF TypeOK
<1>1. ~(req[w].op = "update" /\ req[w].id = req'[w].id /\ req[w].status = 500)
  <2> SUFFICES ASSUME req[w].op = "update", req[w].id = req'[w].id, req[w].status = 500
               PROVE  FALSE
    OBVIOUS
  <2>1. PICK i \in Ids : NamedAgain(i) /\ req'[w].id = i
    BY DEF VanishedSound, FailedUpdate, NamedAgain
  <2>2. NamedAgain(i)'
    BY <2>1, NamedAgainStays
  <2> QED
    BY <2>1, <2>2
<1>2. Arrive(w) \/ Serve(w)
  BY <1>1, OtherSlots DEF Next, vars
<1>3. ~Arrive(w)
  <2>1. ASSUME NEW q, Accept(w, q), q.status = 0 PROVE FALSE
    BY <2>1 DEF Accept, TypeOK
  <2>2. ASSUME NEW i, NEW s PROVE ~AcceptCreate(w, i, s)
    BY <2>1 DEF AcceptCreate, Idle
  <2>3. ASSUME NEW i, NEW j, NEW s PROVE ~AcceptUpdate(w, i, j, s)
    BY <2>1 DEF AcceptUpdate, Idle
  <2>4. ASSUME NEW i PROVE ~AcceptDelete(w, i) /\ ~AcceptGet(w, i)
    BY <2>1 DEF AcceptDelete, AcceptGet, Idle
  <2> QED
    BY <2>2, <2>3, <2>4 DEF Arrive
<1>4. ASSUME NEW status \in Statuses, Answer(w, status)
      PROVE  req[w].op = "update" /\ req'[w].id = req[w].id /\ status = 500
  BY <1>4, AnswerSlot
<1>5. CASE Check(w) \/ Find(w) \/ UpdateFails(w)
  <2>1. CASE Check(w)
    BY <1>0, <1>1, <2>1 DEF Check, TypeOK, Request
  <2>2. CASE Find(w)
    <3>1. req'[w].status = IF req[w].op = "get" THEN 200 ELSE 0
      BY <1>0, <2>2 DEF Find, TypeOK, Request
    <3> QED
      BY <3>1
  <2>3. CASE UpdateFails(w)
    BY <1>0, <1>1, <2>3 DEF UpdateFails, TypeOK, Request
  <2> QED
    BY <1>5, <2>1, <2>2, <2>3
<1>6. CASE Reply(w)
  BY <1>6 DEF Reply, TypeOK, Idle
<1>7. CASE Recover(w)
  <2>1. /\ Answer(w, IF Exists(req[w].id) THEN 500 ELSE 404)
        /\ UNCHANGED <<seq, births, named>>
        /\ req[w].pc = "recover"
    BY <1>7 DEF Recover
  <2>2. Exists(req[w].id) /\ req'[w].id = req[w].id /\ req[w].op = "update"
    BY <1>4, <2>1 DEF Statuses
  <2>a. PICK i \in Ids : i = req[w].id
    BY <2>1, <2>2 DEF AwaitsSound, EntitySound
  <2>3. /\ i <= seq /\ named[i] /\ births[i] > req[w].seen
        /\ req[w].seen > 0
    BY <2>1, <2>2, <2>a, Zenon DEF AwaitsSound, EntitySound
  <2>4. births[i] > 1
    BY <1>0, <2>3 DEF TypeOK, Request
  <2>5. NamedAgain(i)'
    BY <2>1, <2>3, <2>4, Zenon DEF NamedAgain
  <2> QED
    BY <2>2, <2>a, <2>5
<1>8. CASE CheckFails(w)
  BY <1>4, <1>8 DEF CheckFails, Statuses
<1>9. CASE FindFails(w)
  BY <1>4, <1>9 DEF FindFails, Statuses
<1>10. CASE Insert(w) \/ InsertFails(w)
  BY <1>4, <1>10 DEF Insert, InsertFails, Statuses
<1>11. CASE Update(w) \/ UpdateNothing(w)
  BY <1>4, <1>11 DEF Update, UpdateNothing, Statuses
<1>12. CASE Delete(w) \/ DeleteFails(w)
  BY <1>4, <1>12 DEF Delete, DeleteFails, Statuses
<1> QED
  BY <1>2, <1>3, <1>5, <1>6, <1>7, <1>8, <1>9, <1>10, <1>11, <1>12 DEF Serve

(* An update of a shirt that vanished ends in a 500 only after a POST that   *)
(* carries its id has brought the id back: otherwise the exception filter  *)
(* answers 404, and an update that changes nothing 204.                    *)
THEOREM Vanished == Spec => []VanishedIsNotAnError
<1>1. Init => VanishedSound
  BY DEF Init, Idle, VanishedSound, FailedUpdate
<1>2. VanishedSound => VanishedIsNotAnError
  BY DEF VanishedSound, FailedUpdate, NamedAgain, VanishedIsNotAnError
<1> QED
  BY <1>1, <1>2, InitSound, NextSound, NextVanished, PTL DEF Spec

-----------------------------------------------------------------------------
LEMMA NextDuplicates ==
  ASSUME TypeOK, AwaitsSound, DuplicatesOnlyByOverlap, [Next]_vars
  PROVE  DuplicatesOnlyByOverlap'
<1>1. ASSUME UNCHANGED <<rows, author>> PROVE DuplicatesOnlyByOverlap'
  BY <1>1 DEF DuplicatesOnlyByOverlap, Exists
<1>2. ASSUME NEW w \in Workers, Insert(w) PROVE DuplicatesOnlyByOverlap'
  <2>0. PICK i \in Ids : /\ rows' = [rows EXCEPT ![i] = req[w].body]
                         /\ author' = [author EXCEPT ![i] = w]
                         /\ req[w].op = "create" /\ req[w].pc = "save"
    BY <1>2, InsertFacts
  <2>1. \A j \in Ids : Exists(j) /\ author[j] = w => ~Same(rows[j], req[w].body)
    BY <2>0 DEF AwaitsSound, CreationSound
  <2>2. /\ rows'[i] = req[w].body /\ author'[i] = w
        /\ \A j \in Ids \ {i} : rows'[j] = rows[j] /\ author'[j] = author[j]
    BY <2>0 DEF TypeOK
  <2> QED
    BY <2>1, <2>2 DEF DuplicatesOnlyByOverlap, Exists, Same
<1>3. ASSUME NEW w \in Workers, Update(w) \/ Delete(w) PROVE DuplicatesOnlyByOverlap'
  <2>1. req[w].id \in Ids
    BY <1>3 DEF Update, Delete, AwaitsSound, EntitySound
  <2>2. /\ author'[req[w].id] = None
        /\ \A j \in Ids \ {req[w].id} : rows'[j] = rows[j] /\ author'[j] = author[j]
    BY <1>3, <2>1 DEF Update, Delete, TypeOK
  <2> QED
    BY <2>2 DEF DuplicatesOnlyByOverlap, Exists
<1>4. ASSUME NEW w \in Workers, Arrive(w) PROVE UNCHANGED <<rows, author>>
  BY <1>4 DEF Arrive, AcceptCreate, AcceptUpdate, AcceptDelete, AcceptGet, Accept
<1>5. ASSUME NEW w \in Workers, Serve(w), ~Insert(w), ~Update(w), ~Delete(w)
      PROVE  UNCHANGED <<rows, author>>
  BY <1>5 DEF Serve, Check, CheckFails, Find, FindFails, InsertFails, UpdateNothing,
              UpdateFails, Recover, DeleteFails, Reply
<1> QED
  BY <1>1, <1>2, <1>3, <1>4, <1>5 DEF Next, vars

(* Only creations that overlap pass the duplicate check together: two rows   *)
(* of the same shirt that nobody has updated come from different slots.    *)
THEOREM Duplicates == Spec => []DuplicatesOnlyByOverlap
<1>1. Init => DuplicatesOnlyByOverlap
  BY DEF Init, Exists, DuplicatesOnlyByOverlap
<1> QED
  BY <1>1, InitSound, NextSound, NextDuplicates, PTL DEF Spec

-----------------------------------------------------------------------------
LEMMA NextWhole ==
  ASSUME TypeOK, AwaitsSound, [Next]_vars, NEW w \in Workers,
         req[w].pc = "save", req[w].op = "update", req'[w].status = 204,
         rows[req[w].id] = req[w].loaded
  PROVE  rows'[req[w].id] = req[w].body
<1>1. /\ req[w].status = 0 /\ req[w].id \in Ids
      /\ req[w].loaded \in Shirt /\ req[w].body \in Shirt
  BY DEF AwaitsSound, EntitySound
<1>2. Arrive(w) \/ Serve(w)
  BY <1>1, OtherSlots DEF Next, vars
<1>3. Update(w) \/ UpdateNothing(w) \/ UpdateFails(w)
  BY <1>2 DEF Arrive, AcceptCreate, AcceptUpdate, AcceptDelete, AcceptGet, Accept, Serve,
              Check, CheckFails, Find, FindFails, Insert, InsertFails, Recover, Delete,
              DeleteFails, Reply
<1>4. ~UpdateFails(w)
  BY <1>1 DEF UpdateFails, TypeOK, Request
<1>5. CASE Update(w)
  BY <1>1, <1>5, WrittenIsShirt DEF Update, TypeOK
<1>6. CASE UpdateNothing(w)
  BY <1>6 DEF UpdateNothing
<1> QED
  BY <1>3, <1>4, <1>5, <1>6

(* Writing only the columns that differ is writing the shirt that was sent,  *)
(* if the row is still what the filter read.                               *)
THEOREM Whole == Spec => UnmixedUpdateIsWhole
<1>1. ASSUME TypeOK, AwaitsSound, [Next]_vars
      PROVE  [\A w \in Workers :
                /\ req[w].pc = "save" /\ req[w].op = "update"
                /\ req'[w].status = 204 /\ rows[req[w].id] = req[w].loaded
                => rows'[req[w].id] = req[w].body]_vars
  BY <1>1, NextWhole
<1> QED
  BY <1>1, InitSound, NextSound, PTL DEF Spec, UnmixedUpdateIsWhole

-----------------------------------------------------------------------------
(* Updates that are alone between query and write: the row is still what the *)
(* filter read, or gone, so that no write mixes two shirts.                *)
BodySound(w) ==
  /\ req[w].op \in {"create", "update"} => req[w].body \in Bodies
  /\ req[w].op = "update" /\ req[w].pc = "save"
       => rows[req[w].id] \in {req[w].loaded, NoShirt}

MixSound == SizesCorrect /\ \A w \in Workers : BodySound(w)

(* A step that leaves the table alone. *)
LEMMA KeepMix ==
  ASSUME MixSound, NEW w \in Workers, UNCHANGED rows,
         \A v \in Workers \ {w} : req'[v] = req[v],
         BodySound(w)'
  PROVE  MixSound'
<1>1. \A v \in Workers : BodySound(v)'
  BY DEF MixSound, BodySound
<1>2. SizesCorrect'
  BY DEF MixSound, SizesCorrect, Exists
<1> QED
  BY <1>1, <1>2 DEF MixSound

(* A step that writes a shirt with a correct size into a row that nobody     *)
(* else is about to update, or deletes one.                                *)
UpdatesAlone(w, i) ==
  \A v \in Workers \ {w} : req[v].op = "update" /\ req[v].pc = "save" => req[v].id # i

LEMMA WriteMix ==
  ASSUME TypeOK, MixSound, NEW w \in Workers, NEW status \in Statuses,
         NEW row \in Bodies \cup {NoShirt}, NEW i \in Ids,
         Answer(w, status), rows' = [rows EXCEPT ![i] = row],
         row = NoShirt \/ UpdatesAlone(w, i)
  PROVE  MixSound'
<1>1. rows'[i] = row /\ \A j \in Ids \ {i} : rows'[j] = rows[j]
  BY DEF TypeOK
<1>2. SizesCorrect'
  BY <1>1 DEF MixSound, SizesCorrect, Exists, Bodies
<1>3. BodySound(w)'
  BY AnswerSlot DEF MixSound, BodySound
<1>4. ASSUME NEW v \in Workers \ {w} PROVE BodySound(v)'
  <2>1. req'[v] = req[v] /\ BodySound(v)
    BY <1>4, AnswerSlot DEF MixSound
  <2>2. CASE req[v].op = "update" /\ req[v].pc = "save" /\ req[v].id = i
    BY <1>1, <1>4, <2>1, <2>2 DEF BodySound, UpdatesAlone
  <2>3. CASE req[v].op = "update" /\ req[v].pc = "save" /\ req[v].id # i
    <3>1. rows'[req[v].id] = rows[req[v].id]
      BY <2>3 DEF TypeOK
    <3> QED
      BY <2>1, <2>3, <3>1 DEF BodySound
  <2> QED
    BY <2>1, <2>2, <2>3 DEF BodySound
<1> QED
  BY <1>2, <1>3, <1>4 DEF MixSound

LEMMA ArriveMix ==
  ASSUME TypeOK, MixSound, NEW w \in Workers, Arrive(w) PROVE MixSound'
<1>1. ASSUME NEW q, Accept(w, q), q.pc # "save",
             q.op \in {"create", "update"} => q.body \in Bodies
      PROVE  MixSound'
  <2>1. /\ req'[w] = q /\ UNCHANGED rows
        /\ \A v \in Workers \ {w} : req'[v] = req[v]
    BY <1>1 DEF Accept, TypeOK
  <2>2. BodySound(w)'
    BY <1>1, <2>1 DEF BodySound
  <2> QED
    BY <2>1, <2>2, KeepMix
<1>2. ASSUME NEW i \in PostedIds, NEW s \in Bodies, AcceptCreate(w, i, s) PROVE MixSound'
  <2> DEFINE q == [Idle EXCEPT !.pc = "check", !.op = "create", !.bodyId = i, !.body = s]
  <2>1. q.pc = "check" /\ q.body = s /\ Accept(w, q)
    BY <1>2 DEF AcceptCreate, Idle
  <2> HIDE DEF q
  <2> QED
    BY <1>1, <2>1
<1>3. ASSUME NEW i \in Ids, NEW j \in Ids, NEW s \in Bodies, AcceptUpdate(w, i, j, s)
      PROVE  MixSound'
  <2> DEFINE q == [Idle EXCEPT !.pc = "find", !.op = "update", !.id = i,
                               !.bodyId = j, !.body = s]
  <2>1. q.pc = "find" /\ q.body = s /\ Accept(w, q)
    BY <1>3 DEF AcceptUpdate, Idle
  <2> HIDE DEF q
  <2> QED
    BY <1>1, <2>1
<1>4. ASSUME NEW i \in Ids, NEW op \in {"delete", "get"},
             Accept(w, [Idle EXCEPT !.pc = "find", !.op = op, !.id = i])
      PROVE  MixSound'
  <2> DEFINE q == [Idle EXCEPT !.pc = "find", !.op = op, !.id = i]
  <2>1. q.pc = "find" /\ q.op = op /\ Accept(w, q)
    BY <1>4 DEF Idle
  <2> HIDE DEF q
  <2> QED
    BY <1>1, <2>1
<1> QED
  BY <1>2, <1>3, <1>4 DEF Arrive, AcceptDelete, AcceptGet

LEMMA ServeMix ==
  ASSUME TypeOK, AwaitsSound, UpdatesApart, MixSound, NEW w \in Workers, Serve(w)
  PROVE  MixSound'
<1>0. req[w] \in Request /\ BodySound(w)
  BY DEF TypeOK, MixSound
<1>1. ASSUME NEW status \in Statuses, Answer(w, status), UNCHANGED rows PROVE MixSound'
  <2>1. /\ req'[w].pc = "reply" /\ req'[w].op = req[w].op /\ req'[w].body = req[w].body
        /\ \A v \in Workers \ {w} : req'[v] = req[v]
    BY <1>1, AnswerSlot
  <2>2. BodySound(w)'
    BY <1>0, <2>1 DEF BodySound
  <2> QED
    BY <1>1, <2>1, <2>2, KeepMix
<1>2. CASE CheckFails(w) \/ FindFails(w) \/ Recover(w)
  BY <1>1, <1>2 DEF CheckFails, FindFails, Recover, Statuses
<1>3. CASE InsertFails(w) \/ DeleteFails(w) \/ UpdateNothing(w)
  BY <1>1, <1>3 DEF InsertFails, DeleteFails, UpdateNothing, Statuses
<1>4. CASE Check(w)
  <2>1. /\ req'[w].op = req[w].op /\ req'[w].body = req[w].body /\ UNCHANGED rows
        /\ \A v \in Workers \ {w} : req'[v] = req[v]
    BY <1>0, <1>4 DEF Check, TypeOK, Request
  <2>2. req[w].op = "create"
    BY <1>4 DEF Check, AwaitsSound
  <2>3. BodySound(w)'
    BY <1>0, <2>1, <2>2 DEF BodySound
  <2> QED
    BY <2>1, <2>3, KeepMix
<1>5. CASE Find(w)
  <2>1. /\ req'[w].op = req[w].op /\ req'[w].id = req[w].id /\ req'[w].body = req[w].body
        /\ req'[w].loaded = rows[req[w].id] /\ UNCHANGED rows
        /\ \A v \in Workers \ {w} : req'[v] = req[v]
    BY <1>0, <1>5 DEF Find, TypeOK, Request
  <2>2. BodySound(w)'
    BY <1>0, <2>1 DEF BodySound
  <2> QED
    BY <2>1, <2>2, KeepMix
<1>6. CASE UpdateFails(w)
  <2>1. /\ req'[w].pc = "recover" /\ req'[w].op = req[w].op /\ req'[w].body = req[w].body
        /\ UNCHANGED rows /\ \A v \in Workers \ {w} : req'[v] = req[v]
    BY <1>0, <1>6 DEF UpdateFails, TypeOK, Request
  <2>2. BodySound(w)'
    BY <1>0, <2>1 DEF BodySound
  <2> QED
    BY <2>1, <2>2, KeepMix
<1>7. CASE Reply(w)
  <2>1. /\ req'[w].op = "none" /\ UNCHANGED rows
        /\ \A v \in Workers \ {w} : req'[v] = req[v]
    BY <1>7 DEF Reply, TypeOK, Idle
  <2>2. BodySound(w)'
    BY <2>1 DEF BodySound
  <2> QED
    BY <2>1, <2>2, KeepMix
<1>8. CASE Insert(w)
  <2> DEFINE i == NewId(req[w].bodyId)
  <2>1. /\ req[w].op = "create" /\ req[w].pc = "save"
        /\ i \in Ids /\ rows' = [rows EXCEPT ![i] = req[w].body] /\ Answer(w, 201)
    BY <1>8 DEF Insert
  <2>2. req[w].body \in Bodies \cup {NoShirt}
    BY <1>0, <2>1 DEF BodySound
  <2>3. ASSUME NEW v \in Workers \ {w}, req[v].op = "update", req[v].pc = "save"
        PROVE  req[v].id # i
    <3>1. req[v].id \in Int /\ req[v].id <= seq /\ seq \in Nat
      BY <2>3, IdsAssumption DEF AwaitsSound, EntitySound, TypeOK
    <3>2. req[w].bodyId # req[v].id
      BY <2>1, <2>3 DEF UpdatesApart
    <3> QED
      BY <3>1, <3>2 DEF NewId
  <2>4. 201 \in Statuses /\ UpdatesAlone(w, i)
    BY <2>3 DEF Statuses, UpdatesAlone
  <2> QED
    BY <2>1, <2>2, <2>4, WriteMix, Zenon
<1>9. CASE Update(w)
  <2> DEFINE i == req[w].id
             row == Written(rows[i], req[w].loaded, req[w].body)
  <2>1. /\ req[w].op = "update" /\ req[w].pc = "save" /\ Exists(i)
        /\ rows' = [rows EXCEPT ![i] = row] /\ Answer(w, 204)
    BY <1>9 DEF Update
  <2>2. /\ i \in Ids /\ req[w].loaded \in Shirt /\ req[w].body \in Shirt
        /\ req[w].body \in Bodies /\ rows[i] = req[w].loaded
    BY <1>0, <2>1 DEF AwaitsSound, EntitySound, BodySound, Exists
  <2>3. row = req[w].body
    BY <2>2, WrittenIsShirt
  <2>4. row \in Bodies \cup {NoShirt}
    BY <2>2, <2>3
  <2>5. 204 \in Statuses /\ UpdatesAlone(w, i)
    BY <2>1 DEF Statuses, UpdatesAlone, UpdatesApart
  <2> QED
    BY <2>1, <2>2, <2>4, <2>5, WriteMix, Zenon
<1>10. CASE Delete(w)
  <2>1. req[w].id \in Ids /\ 200 \in Statuses
    BY <1>10 DEF Delete, AwaitsSound, EntitySound, Statuses
  <2>2. rows' = [rows EXCEPT ![req[w].id] = NoShirt] /\ Answer(w, 200)
    BY <1>10 DEF Delete
  <2>3. NoShirt \in Bodies \cup {NoShirt}
    OBVIOUS
  <2> QED
    BY <2>1, <2>2, <2>3, WriteMix, Zenon
<1> QED
  BY <1>2, <1>3, <1>4, <1>5, <1>6, <1>7, <1>8, <1>9, <1>10 DEF Serve

(* The sizes stay correct as long as no update has another write of its      *)
(* shirt between its query and its own (UpdateShirt): a deletion and a new *)
(* id in between do no harm.                                               *)
THEOREM SizesCorrectApart == Spec /\ []UpdatesApart => []SizesCorrect
<1>1. Init => MixSound
  BY DEF Init, Idle, MixSound, BodySound, SizesCorrect, Exists
<1>2. ASSUME TypeOK, AwaitsSound, UpdatesApart, MixSound, [Next]_vars PROVE MixSound'
  <2>1. CASE UNCHANGED vars
    BY <1>2, <2>1 DEF vars, MixSound, BodySound, SizesCorrect, Exists
  <2> QED
    BY <1>2, <2>1, ArriveMix, ServeMix DEF Next
<1>3. MixSound => SizesCorrect
  BY DEF MixSound
<1> QED
  BY <1>1, <1>2, <1>3, TypeCorrect, Awaits, PTL DEF Spec
=============================================================================

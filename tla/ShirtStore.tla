------------------------------ MODULE ShirtStore ------------------------------
(***************************************************************************)
(* The shirts of webapi: ShirtsController (V1 and V2 are the same program) *)
(* and its filters over the Shirts table.  A request queries the database  *)
(* in a filter and writes in the action, on a DbContext of its own; other  *)
(* requests run in between.  A request JwtTokenAuthFilter refuses, and the *)
(* listing of all shirts, one SELECT, change nothing and are left out.     *)
(*                                                                         *)
(* Brand and Color are one column here, up to case, and Price, which       *)
(* nothing looks at, is left out.  A size of 0 is null.                    *)
(*                                                                         *)
(* Bounds: Ids, Workers and MaxBirths.                                     *)
(***************************************************************************)
EXTENDS Integers, FiniteSets, FiniteSetsExt

CONSTANTS Ids,        \* the ids a row may get
          PostedIds,  \* the ShirtId a POST may carry: 0 asks for a new one
          Brands, Sizes,
          Workers,    \* the requests in progress at the same time
          MaxBirths,  \* bound on the insertions of one id
          NoShirt, None

Genders == {"men", "women"}
Shirt == [brand : Brands, gender : Genders, size : Sizes]

ASSUME IdsAssumption == /\ IsFiniteSet(Ids) /\ Ids \subseteq Int \ {0}
                        /\ PostedIds \subseteq Ids \cup {0}
ASSUME DataAssumption == /\ Sizes \subseteq Nat /\ NoShirt \notin Shirt
                         /\ MaxBirths \in Nat
ASSUME WorkersAssumption == IsFiniteSet(Workers) /\ None \notin Workers

VARIABLES rows,    \* the Shirts table
          seq,     \* sqlite_sequence: the largest ShirtId ever inserted
          req,     \* req[w]   : the request in slot w
          author,  \* history: who inserted row i, None once it was updated
          births,  \* history: how often a row i was inserted
          named    \* history: its last POST carried the id i itself

vars == <<rows, seq, req, author, births, named>>

(* loaded is the entity EF tracks, as it was read; seen tells rows that had *)
(* the same id apart.                                                      *)
Steps == {"idle", "check", "find", "save", "recover", "reply"}
Statuses == {0, 200, 201, 204, 400, 404, 500}
Request == [pc     : Steps,
            op     : {"none", "create", "update", "delete", "get"},
            id     : Ids \cup {0},
            bodyId : Ids \cup {0},
            body   : Shirt \cup {NoShirt},
            loaded : Shirt \cup {NoShirt},
            seen   : Nat,
            status : Statuses]

Idle == [pc |-> "idle", op |-> "none", id |-> 0, bodyId |-> 0, body |-> NoShirt,
         loaded |-> NoShirt, seen |-> 0, status |-> 0]

TypeOK == /\ rows \in [Ids -> Shirt \cup {NoShirt}]
          /\ seq \in Nat
          /\ req \in [Workers -> Request]
          /\ author \in [Ids -> Workers \cup {None}]
          /\ births \in [Ids -> Nat]
          /\ named \in [Ids -> BOOLEAN]

Init == /\ rows = [i \in Ids |-> NoShirt]
        /\ seq = 0
        /\ req = [w \in Workers |-> Idle]
        /\ author = [i \in Ids |-> None]
        /\ births = [i \in Ids |-> 0]
        /\ named = [i \in Ids |-> FALSE]

-----------------------------------------------------------------------------
Exists(i) == rows[i] # NoShirt

(* Shirt_EnsureCorrectSizing of WebApp, which sends nothing else. *)
CorrectSizing(s) == /\ s.gender = "men" /\ s.size # 0 => s.size >= 8
                    /\ s.gender = "women" /\ s.size # 0 => s.size >= 6
Bodies == {s \in Shirt : CorrectSizing(s)}

(* What Shirt_ValidateCreateShirtFilter takes for the same shirt; null is   *)
(* equal to nothing.                                                       *)
Same(s, t) == s = t /\ s.size # 0

Accept(w, r) == /\ req[w].pc = "idle"
                /\ req' = [req EXCEPT ![w] = r]
                /\ UNCHANGED <<rows, seq, author, births, named>>

(* The bounds on Ids and births: a creation is accepted while there is an id *)
(* for it whatever the others in progress take.                            *)
Creating(is) == {w \in Workers : /\ req[w].op = "create" /\ req[w].pc # "reply"
                                 /\ req[w].bodyId \in is}
IdLeft(i) ==
  /\ Max({0, seq, i} \cup {req[w].bodyId : w \in Workers})
       + Cardinality(Creating({0})) + (IF i = 0 THEN 1 ELSE 0) <= Max(Ids)
  /\ i # 0 => births[i] + Cardinality(Creating({i})) < MaxBirths

AcceptCreate(w, i, s) ==
  /\ IdLeft(i)
  /\ Accept(w, [Idle EXCEPT !.pc = "check", !.op = "create", !.bodyId = i, !.body = s])

AcceptUpdate(w, i, j, s) ==
  Accept(w, [Idle EXCEPT !.pc = "find", !.op = "update", !.id = i,
                         !.bodyId = j, !.body = s])

AcceptDelete(w, i) == Accept(w, [Idle EXCEPT !.pc = "find", !.op = "delete", !.id = i])

AcceptGet(w, i) == Accept(w, [Idle EXCEPT !.pc = "find", !.op = "get", !.id = i])

Answer(w, status) ==
  req' = [req EXCEPT ![w] = [@ EXCEPT !.pc = "reply", !.status = status,
                                      !.loaded = NoShirt, !.seen = 0]]

-----------------------------------------------------------------------------
(* Shirt_ValidateCreateShirtFilter.  (A mutant: no such filter.) *)
CheckNothing(w) ==
  /\ req[w].pc = "check"
  /\ req' = [req EXCEPT ![w] = [@ EXCEPT !.pc = "save"]]
  /\ UNCHANGED <<rows, seq, author, births, named>>

Check(w) ==
  /\ req[w].pc = "check"
  /\ ~ \E i \in Ids : Exists(i) /\ Same(rows[i], req[w].body)
  /\ req' = [req EXCEPT ![w] = [@ EXCEPT !.pc = "save"]]
  /\ UNCHANGED <<rows, seq, author, births, named>>

CheckFails(w) ==
  /\ req[w].pc = "check"
  /\ \E i \in Ids : Exists(i) /\ Same(rows[i], req[w].body)
  /\ Answer(w, 400)
  /\ UNCHANGED <<rows, seq, author, births, named>>

(* Shirt_ValidateShirtIdFilter, then Shirt_ValidateUpdateShirtFilter: what   *)
(* they refuse,                                                            *)
FindFails(w) ==
  /\ req[w].pc = "find"
  /\ \/ /\ req[w].id <= 0
        /\ Answer(w, 400)
     \/ /\ req[w].id > 0 /\ ~Exists(req[w].id)
        /\ Answer(w, 404)
     \/ /\ req[w].id > 0 /\ Exists(req[w].id)
        /\ req[w].op = "update" /\ req[w].bodyId # req[w].id
        /\ Answer(w, 400)
  /\ UNCHANGED <<rows, seq, author, births, named>>

(* and what they leave in HttpContext.Items; GetShirtById answers with it.  *)
Find(w) ==
  /\ req[w].pc = "find"
  /\ req[w].id > 0 /\ Exists(req[w].id)
  /\ req[w].op = "update" => req[w].bodyId = req[w].id
  /\ req' = [req EXCEPT ![w] = [@ EXCEPT
               !.pc = IF req[w].op = "get" THEN "reply" ELSE "save",
               !.status = IF req[w].op = "get" THEN 200 ELSE 0,
               !.loaded = rows[req[w].id],
               !.seen = births[req[w].id]]]
  /\ UNCHANGED <<rows, seq, author, births, named>>

-----------------------------------------------------------------------------
(* The key of the INSERT: AUTOINCREMENT never gives an id twice, an id in    *)
(* the body is taken as it is.                                             *)
NewId(i) == IF i # 0 THEN i ELSE seq + 1

Insert(w) ==
  /\ req[w].pc = "save" /\ req[w].op = "create"
  /\ LET i == NewId(req[w].bodyId)
     IN /\ i \in Ids /\ ~Exists(i)
        /\ rows' = [rows EXCEPT ![i] = req[w].body]
        /\ seq' = IF i > seq THEN i ELSE seq
        /\ author' = [author EXCEPT ![i] = w]
        /\ births' = [births EXCEPT ![i] = @ + 1]
        /\ named' = [named EXCEPT ![i] = req[w].bodyId # 0]
  /\ Answer(w, 201)

(* UNIQUE constraint failed: a DbUpdateException nobody handles.  (A mutant: *)
(* answered as a conflict.)                                                *)
InsertConflicts(w) ==
  /\ req[w].pc = "save" /\ req[w].op = "create"
  /\ NewId(req[w].bodyId) \in Ids /\ Exists(NewId(req[w].bodyId))
  /\ Answer(w, 409)
  /\ UNCHANGED <<rows, seq, author, births, named>>

InsertFails(w) ==
  /\ req[w].pc = "save" /\ req[w].op = "create"
  /\ NewId(req[w].bodyId) \in Ids /\ Exists(NewId(req[w].bodyId))
  /\ Answer(w, 500)
  /\ UNCHANGED <<rows, seq, author, births, named>>

(* EF writes the columns that differ from the entity as it was read. (A      *)
(* mutant: Gender is forgotten in UpdateShirt.)                            *)
KeepGender(row, old, new) ==
  [row EXCEPT !.brand = IF new.brand = old.brand THEN @ ELSE new.brand,
              !.size = IF new.size = old.size THEN @ ELSE new.size]
Written(row, old, new) ==
  [row EXCEPT !.brand = IF new.brand = old.brand THEN @ ELSE new.brand,
              !.gender = IF new.gender = old.gender THEN @ ELSE new.gender,
              !.size = IF new.size = old.size THEN @ ELSE new.size]

Update(w) ==
  /\ req[w].pc = "save" /\ req[w].op = "update"
  /\ req[w].body # req[w].loaded /\ Exists(req[w].id)
  /\ rows' = [rows EXCEPT ![req[w].id] = Written(@, req[w].loaded, req[w].body)]
  /\ author' = [author EXCEPT ![req[w].id] = None]
  /\ Answer(w, 204)
  /\ UNCHANGED <<seq, births, named>>

(* Nothing differs: no statement is sent, whether the row is there or not. *)
UpdateNothing(w) ==
  /\ req[w].pc = "save" /\ req[w].op = "update"
  /\ req[w].body = req[w].loaded
  /\ Answer(w, 204)
  /\ UNCHANGED <<rows, seq, author, births, named>>

(* No row was hit: DbUpdateConcurrencyException.  Shirt_HandleUpdate-        *)
(* ExceptionsFilter looks the shirt up once more.  (A mutant: it is not    *)
(* applied.)                                                               *)
UpdateFailsUnhandled(w) ==
  /\ req[w].pc = "save" /\ req[w].op = "update"
  /\ req[w].body # req[w].loaded /\ ~Exists(req[w].id)
  /\ Answer(w, 500)
  /\ UNCHANGED <<rows, seq, author, births, named>>

UpdateFails(w) ==
  /\ req[w].pc = "save" /\ req[w].op = "update"
  /\ req[w].body # req[w].loaded /\ ~Exists(req[w].id)
  /\ req' = [req EXCEPT ![w] = [@ EXCEPT !.pc = "recover"]]
  /\ UNCHANGED <<rows, seq, author, births, named>>

Recover(w) ==
  /\ req[w].pc = "recover"
  /\ Answer(w, IF Exists(req[w].id) THEN 500 ELSE 404)
  /\ UNCHANGED <<rows, seq, author, births, named>>

(* (A mutant: the key without AUTOINCREMENT, one more than the largest in     *)
(* the table.)                                                             *)
DeleteForgetting(w) ==
  /\ req[w].pc = "save" /\ req[w].op = "delete"
  /\ Exists(req[w].id)
  /\ rows' = [rows EXCEPT ![req[w].id] = NoShirt]
  /\ author' = [author EXCEPT ![req[w].id] = None]
  /\ seq' = Max({0} \cup {i \in Ids : rows'[i] # NoShirt})
  /\ Answer(w, 200)
  /\ UNCHANGED <<births, named>>

Delete(w) ==
  /\ req[w].pc = "save" /\ req[w].op = "delete"
  /\ Exists(req[w].id)
  /\ rows' = [rows EXCEPT ![req[w].id] = NoShirt]
  /\ author' = [author EXCEPT ![req[w].id] = None]
  /\ Answer(w, 200)
  /\ UNCHANGED <<seq, births, named>>

DeleteFails(w) ==
  /\ req[w].pc = "save" /\ req[w].op = "delete"
  /\ ~Exists(req[w].id)
  /\ Answer(w, 500)
  /\ UNCHANGED <<rows, seq, author, births, named>>

Reply(w) == /\ req[w].pc = "reply"
            /\ req' = [req EXCEPT ![w] = Idle]
            /\ UNCHANGED <<rows, seq, author, births, named>>

-----------------------------------------------------------------------------
Arrive(w) == \/ \E i \in PostedIds, s \in Bodies : AcceptCreate(w, i, s)
             \/ \E i, j \in Ids, s \in Bodies : AcceptUpdate(w, i, j, s)
             \/ \E i \in Ids : AcceptDelete(w, i) \/ AcceptGet(w, i)

Serve(w) == \/ Check(w) \/ CheckFails(w) \/ Find(w) \/ FindFails(w)
            \/ Insert(w) \/ InsertFails(w)
            \/ Update(w) \/ UpdateNothing(w) \/ UpdateFails(w) \/ Recover(w)
            \/ Delete(w) \/ DeleteFails(w)
            \/ Reply(w)

Next == \E w \in Workers : Arrive(w) \/ Serve(w)

Spec == Init /\ [][Next]_vars

-----------------------------------------------------------------------------
(* Two rows for the same shirt, neither of them updated since, were created  *)
(* in different slots: only creations that overlap pass                    *)
(* Shirt_ValidateCreateShirtFilter together, so there are at most as many  *)
(* as requests in progress.                                                *)
DuplicatesOnlyByOverlap ==
  \A i, j \in Ids : /\ Exists(i) /\ Exists(j) /\ i # j
                    /\ Same(rows[i], rows[j])
                    /\ author[i] # None /\ author[j] # None
                    => author[i] # author[j]

(* Between the query of a filter and the write of UpdateShirt or DeleteShirt *)
(* the shirt may be deleted, and its id used again; but only a POST that   *)
(* carries that very id puts another shirt under it, AUTOINCREMENT never.  *)
WritesWhatItLoaded ==
  \A w \in Workers : /\ req[w].pc \in {"save", "recover"}
                     /\ req[w].op \in {"update", "delete"}
                     /\ Exists(req[w].id)
                     => births[req[w].id] = req[w].seen \/ named[req[w].id]

(* An update of a shirt that was deleted meanwhile is answered by            *)
(* Shirt_HandleUpdateExceptionsFilter with a 404, or with a 204 if it would *)
(* change nothing; a 500 means that a POST has brought the id back.        *)
VanishedIsNotAnError ==
  \A w \in Workers : req[w].op = "update" /\ req[w].status = 500 =>
                       named[req[w].id] /\ births[req[w].id] > 1

(* What a request relies on between its query and its write, inductive with *)
(* the invariants above: no id is inserted above sqlite_sequence, so a     *)
(* shirt that was found can only come back under its id by a POST that     *)
(* carries it; and a request past Shirt_ValidateCreateShirtFilter has not   *)
(* inserted the shirt it is about to insert.                               *)
KeysSound == \A i \in Ids : Exists(i) => i <= seq /\ births[i] > 0

EntitySound ==
  \A w \in Workers : /\ req[w].op \in {"update", "delete"}
                     /\ req[w].pc \in {"save", "recover"}
    => /\ req[w].id \in Ids /\ req[w].id <= seq
       /\ births[req[w].id] = req[w].seen \/ named[req[w].id]
       /\ req[w].seen > 0 /\ births[req[w].id] >= req[w].seen
       /\ req[w].loaded \in Shirt
       /\ req[w].pc = "recover" =>
            /\ req[w].op = "update"
            /\ Exists(req[w].id) =>
                 named[req[w].id] /\ births[req[w].id] > req[w].seen

CreationSound ==
  \A w \in Workers : req[w].op = "create" =>
    /\ req[w].bodyId \in PostedIds /\ req[w].body \in Shirt
    /\ req[w].pc = "save" =>
         \A i \in Ids : Exists(i) /\ author[i] = w => ~Same(rows[i], req[w].body)

AwaitsSound == /\ KeysSound /\ EntitySound /\ CreationSound
               /\ \A w \in Workers :
                    /\ req[w].status # 0 => req[w].pc = "reply"
                    /\ req[w].op = "update" => req[w].body \in Shirt
                    /\ req[w].pc = "check" => req[w].op = "create"
                    /\ req[w].pc = "find" => req[w].op # "create"

(* An update that finds its shirt as it was read leaves it as it was sent,   *)
(* although only the columns that differ are written.                      *)
UnmixedUpdateIsWhole ==
  [][\A w \in Workers :
       /\ req[w].pc = "save" /\ req[w].op = "update"
       /\ req'[w].status = 204 /\ rows[req[w].id] = req[w].loaded
       => rows'[req[w].id] = req[w].body]_vars

(* While an update is between its query and its write, no other one of its   *)
(* shirt is, nor a POST of its id.                                         *)
UpdatesApart ==
  \A v, w \in Workers : /\ v # w
                         /\ req[v].op = "update" /\ req[v].pc = "save"
                         /\ req[w].pc = "save"
    => /\ req[w].op = "update" => req[w].id # req[v].id
       /\ req[w].op = "create" => req[w].bodyId # req[v].id

(* WebApp's Shirt_EnsureCorrectSizing, lines 23 and 35: a men's shirt has a  *)
(* size of 8 or more, a women's of 6 or more.                              *)
SizesCorrect == \A i \in Ids : Exists(i) => CorrectSizing(rows[i])
=============================================================================

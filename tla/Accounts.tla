------------------------------- MODULE Accounts -------------------------------
(***************************************************************************)
(* The start of webapi and the accounts it keeps: Program migrates and     *)
(* seeds the database with DbSeeder, and only then serves the requests,    *)
(* of which UserAuthController registers users through UserService and     *)
(* UserRepository.  A crash leaves the database alone and the next start   *)
(* seeds again, looking at what is there.                                  *)
(*                                                                         *)
(* Bounds: Names, Emails, Workers and MaxCrashes.                          *)
(***************************************************************************)
EXTENDS Integers, FiniteSets

CONSTANTS Names, Emails,
          Admin, AdminEmail,   \* what SeedAdminUserAsync inserts
          Workers,             \* the registrations in progress at once
          Seeder, None,
          SecretConfigured,    \* AppCredential:Secret is not blank
          MaxCrashes           \* bound on the crashes

ASSUME NamesAssumption == Admin \in Names /\ AdminEmail \in Emails
ASSUME WorkersAssumption == IsFiniteSet(Workers) /\ Seeder \notin Workers
ASSUME NoneAssumption == None \notin Names \cup Emails
ASSUME BoundsAssumption == SecretConfigured \in BOOLEAN /\ MaxCrashes \in Nat

VARIABLES phase,    \* where Program is
          client,   \* Applications has the default client
          known,    \* its operators can know the default client's secret
          users,    \* the Users table
          req,      \* req[w] : the registration in slot w
          crashes,
          cutOff    \* history: a crash came between InsertClient and LogSecret

vars == <<phase, client, known, users, req, crashes, cutOff>>

User == [name : Names, email : Emails, by : Workers \cup {Seeder}]

Steps == {"idle", "username", "email", "insert", "reply"}
Statuses == {0, 200, 400, 500}
Request == [pc : Steps, name : Names \cup {None}, email : Emails \cup {None},
            status : Statuses]

Idle == [pc |-> "idle", name |-> None, email |-> None, status |-> 0]

TypeOK == /\ phase \in {"migrate", "findClient", "insertClient", "logSecret",
                        "findAdmin", "insertAdmin", "serving"}
          /\ client \in BOOLEAN
          /\ known \in BOOLEAN
          /\ users \subseteq User
          /\ req \in [Workers -> Request]
          /\ crashes \in Nat
          /\ cutOff \in BOOLEAN

Init == /\ phase = "migrate"
        /\ client = FALSE
        /\ known = FALSE
        /\ users = {}
        /\ req = [w \in Workers |-> Idle]
        /\ crashes = 0
        /\ cutOff = FALSE

-----------------------------------------------------------------------------
Named(n) == \E u \in users : u.name = n
WithEmail(e) == \E u \in users : u.email = e

(* SeedAsync, statement by statement; a second row for a name would be an    *)
(* exception and the end of the process.                                   *)
Migrate == /\ phase = "migrate"
           /\ phase' = "findClient"
           /\ UNCHANGED <<client, known, users, req, crashes, cutOff>>

(* (A mutant: a database that has its client is taken to be seeded.) *)
FindClientOrServe ==
  /\ phase = "findClient"
  /\ phase' = IF client THEN "serving" ELSE "insertClient"
  /\ UNCHANGED <<client, known, users, req, crashes, cutOff>>

FindClient == /\ phase = "findClient"
              /\ phase' = IF client THEN "findAdmin" ELSE "insertClient"
              /\ UNCHANGED <<client, known, users, req, crashes, cutOff>>

(* The secret is stored as a hash; one that was drawn here is only logged   *)
(* afterwards.  (A mutant: it is not logged.)                              *)
InsertClientUnlogged ==
  /\ phase = "insertClient"
  /\ client' = TRUE
  /\ known' = SecretConfigured
  /\ phase' = "findAdmin"
  /\ UNCHANGED <<users, req, crashes, cutOff>>

InsertClient == /\ phase = "insertClient"
                /\ client' = TRUE
                /\ known' = SecretConfigured
                /\ phase' = IF SecretConfigured THEN "findAdmin" ELSE "logSecret"
                /\ UNCHANGED <<users, req, crashes, cutOff>>

LogSecret == /\ phase = "logSecret"
             /\ known' = TRUE
             /\ phase' = "findAdmin"
             /\ UNCHANGED <<client, users, req, crashes, cutOff>>

(* (A mutant: the admin is inserted without asking.) *)
FindAdminUnasked == /\ phase = "findAdmin"
                    /\ phase' = "insertAdmin"
                    /\ UNCHANGED <<client, known, users, req, crashes, cutOff>>

FindAdmin == /\ phase = "findAdmin"
             /\ phase' = IF Named(Admin) THEN "serving" ELSE "insertAdmin"
             /\ UNCHANGED <<client, known, users, req, crashes, cutOff>>

InsertAdmin ==
  /\ phase = "insertAdmin" /\ ~Named(Admin)
  /\ users' = users \cup {[name |-> Admin, email |-> AdminEmail, by |-> Seeder]}
  /\ phase' = "serving"
  /\ UNCHANGED <<client, known, req, crashes, cutOff>>

Boot == \/ Migrate \/ FindClient \/ InsertClient \/ LogSecret
        \/ FindAdmin \/ InsertAdmin

-----------------------------------------------------------------------------
(* POST api/users/register.  RegisterUserDtoValidator refuses a request      *)
(* without a name or an email.                                             *)
AcceptRegister(w, n, e) ==
  /\ phase = "serving" /\ req[w].pc = "idle"
  /\ req' = [req EXCEPT ![w] = [Idle EXCEPT !.pc = "username", !.name = n, !.email = e]]
  /\ UNCHANGED <<phase, client, known, users, crashes, cutOff>>

Goto(w, pc, status) ==
  /\ req' = [req EXCEPT ![w] = [@ EXCEPT !.pc = pc, !.status = status]]
  /\ UNCHANGED <<phase, client, known, users, crashes, cutOff>>

(* (A mutant: the name is left to the index.) *)
UsernameUnchecked(w) == req[w].pc = "username" /\ Goto(w, "email", 0)

UsernameFree(w) == /\ req[w].pc = "username" /\ ~Named(req[w].name)
                   /\ Goto(w, "email", 0)

UsernameTaken(w) == /\ req[w].pc = "username" /\ Named(req[w].name)
                    /\ Goto(w, "reply", 400)

(* (A mutant: the email is not looked up.) *)
EmailUnchecked(w) == req[w].pc = "email" /\ Goto(w, "insert", 0)

EmailFree(w) == /\ req[w].pc = "email" /\ ~WithEmail(req[w].email)
                /\ Goto(w, "insert", 0)

EmailTaken(w) == /\ req[w].pc = "email" /\ WithEmail(req[w].email)
                 /\ Goto(w, "reply", 400)

(* AddAsync.  The unique index on Username holds against a registration      *)
(* that came in between.  (A mutant: no index, which the model marks as     *)
(* optional.)                                                              *)
InsertUnindexed(w) ==
  /\ req[w].pc = "insert"
  /\ users' = users \cup {[name |-> req[w].name, email |-> req[w].email, by |-> w]}
  /\ req' = [req EXCEPT ![w] = [@ EXCEPT !.pc = "reply", !.status = 200]]
  /\ UNCHANGED <<phase, client, known, crashes, cutOff>>

Insert(w) ==
  /\ req[w].pc = "insert" /\ ~Named(req[w].name)
  /\ users' = users \cup {[name |-> req[w].name, email |-> req[w].email, by |-> w]}
  /\ req' = [req EXCEPT ![w] = [@ EXCEPT !.pc = "reply", !.status = 200]]
  /\ UNCHANGED <<phase, client, known, crashes, cutOff>>

(* A DbUpdateException, which nobody handles.  (A mutant: answered as a      *)
(* conflict.)                                                              *)
InsertConflicts(w) == /\ req[w].pc = "insert" /\ Named(req[w].name)
                      /\ Goto(w, "reply", 409)

InsertFails(w) == /\ req[w].pc = "insert" /\ Named(req[w].name)
                  /\ Goto(w, "reply", 500)

Reply(w) == /\ req[w].pc = "reply"
            /\ req' = [req EXCEPT ![w] = Idle]
            /\ UNCHANGED <<phase, client, known, users, crashes, cutOff>>

Register(w) == \/ \E n \in Names, e \in Emails : AcceptRegister(w, n, e)
               \/ UsernameFree(w) \/ UsernameTaken(w)
               \/ EmailFree(w) \/ EmailTaken(w)
               \/ Insert(w) \/ InsertFails(w)
               \/ Reply(w)

(* The process stops and starts again. *)
Crash == /\ crashes < MaxCrashes
         /\ crashes' = crashes + 1
         /\ cutOff' = (cutOff \/ phase = "logSecret")
         /\ phase' = "migrate"
         /\ req' = [w \in Workers |-> Idle]
         /\ UNCHANGED <<client, known, users>>

Next == Boot \/ (\E w \in Workers : Register(w)) \/ Crash

Spec == Init /\ [][Next]_vars

(* The main program runs on. *)
FairSpec == Spec /\ WF_vars(Boot)

-----------------------------------------------------------------------------
(* Whatever the crashes interrupted, a server that takes requests has its    *)
(* default client and the seeder's own admin: nobody registers that name   *)
(* before SeedAsync is done with it.                                       *)
ServesSeeded ==
  phase = "serving" =>
    /\ client
    /\ \A u \in users : u.name = Admin <=> u.by = Seeder
    /\ Named(Admin)

(* A name belongs to one user, although UserService checks it in one query  *)
(* and inserts in another; a registration fails with a 500 only when       *)
(* another one took its name in between, and never inserts half.           *)
NamesUnique ==
  /\ \A u, v \in users : u.name = v.name => u = v
  /\ \A w \in Workers :
       /\ req[w].status = 200 => \E u \in users : u.by = w /\ u.name = req[w].name
       /\ req[w].status = 500 => \E u \in users : u.by # w /\ u.name = req[w].name

(* Two users share an email only when their registrations came through two  *)
(* slots: one slot never registers an email twice.                         *)
EmailsSharedOnlyByOverlap ==
  \A u, v \in users : u # v /\ u.email = v.email => u.by # v.by

(* What both rely on, inductive together with the invariants above: the      *)
(* requests start after the seeding, which nobody repeats, and a slot that *)
(* is past a check has not itself made the check void.                     *)
BootSound ==
  /\ phase \in {"logSecret", "findAdmin", "insertAdmin", "serving"} => client
  /\ phase = "serving" => Named(Admin)
  /\ phase # "serving" => \A w \in Workers : req[w] = Idle
  /\ \A u \in users : u.name = Admin <=> u.by = Seeder

SlotsSound ==
  \A w \in Workers :
    /\ req[w].pc \in {"username", "email", "insert"} =>
         req[w].name \in Names /\ req[w].email \in Emails
    /\ req[w].pc \in {"email", "insert"} =>
         \A u \in users : u.by = w => u.name # req[w].name
    /\ req[w].pc = "insert" =>
         \A u \in users : u.by = w => u.email # req[w].email

IInv == /\ TypeOK /\ BootSound /\ SlotsSound
        /\ NamesUnique /\ EmailsSharedOnlyByOverlap

(* A secret that DbSeeder drew for the default client is in the log as soon  *)
(* as the seeding is past it, unless a crash struck between the INSERT and *)
(* the log: any other crash, and any number of them, leaves it known, but  *)
(* after that one no later start draws or logs another.                    *)
SecretLostIffCutOff ==
  client /\ ~known <=> phase = "logSecret" \/ cutOff

(* The server comes up again after every crash. *)
ComesUp == []<>(phase = "serving")

(* No two registrations are past the check of the same email together. *)
InsertsApart ==
  \A v, w \in Workers : v # w /\ req[v].pc = "insert" /\ req[w].pc = "insert"
                         => req[v].email # req[w].email

(* UserService.cs, line 67: an email that is in use is not registered again. *)
EmailsUnique == \A u, v \in users : u.email = v.email => u = v
=============================================================================

---------------------------- MODULE AccountsProofs ----------------------------
(* What TLAPS proves of Accounts, for every value of its constants. *)
EXTENDS Accounts, TLAPS

LEMMA IdleTypeOK == Idle \in Request
  BY DEF Idle, Request, Steps, Statuses

LEMMA InitIInv == Init => IInv
<1> SUFFICES ASSUME Init PROVE IInv
  OBVIOUS
<1>1. TypeOK
  BY IdleTypeOK, BoundsAssumption DEF Init, TypeOK
<1>2. BootSound
  BY DEF Init, BootSound
<1>3. SlotsSound /\ NamesUnique
  BY DEF Init, SlotsSound, NamesUnique, Idle
<1>4. EmailsSharedOnlyByOverlap
  BY DEF Init, EmailsSharedOnlyByOverlap
<1> QED
  BY <1>1, <1>2, <1>3, <1>4 DEF IInv

(* Seeding adds at most the admin, while no registration is in progress.   *)
LEMMA BootStep ==
  ASSUME IInv, Boot
  PROVE  IInv'
<1>1. TypeOK /\ BootSound /\ SlotsSound /\ NamesUnique /\ EmailsSharedOnlyByOverlap
  BY DEF IInv
<1>2. req' = req /\ crashes' = crashes /\ cutOff' = cutOff /\ \A w \in Workers : req[w] = Idle
  BY <1>1 DEF Boot, Migrate, FindClient, InsertClient, LogSecret, FindAdmin,
              InsertAdmin, BootSound
<1>3. SlotsSound'
  BY <1>2 DEF SlotsSound, Idle
<1>4. CASE InsertAdmin
  <2> DEFINE admin == [name |-> Admin, email |-> AdminEmail, by |-> Seeder]
  <2>1. /\ users' = users \cup {admin} /\ phase = "insertAdmin" /\ phase' = "serving"
        /\ client' = client /\ known' = known /\ ~Named(Admin)
        /\ admin.name = Admin /\ admin.email = AdminEmail /\ admin.by = Seeder
    BY <1>4 DEF InsertAdmin
  <2>2. admin \in User
    BY NamesAssumption DEF User
  <2> HIDE DEF admin
  <2>3. TypeOK'
    BY <1>1, <1>2, <2>1, <2>2 DEF TypeOK
  <2>4. \A u \in users : u.name # Admin /\ u.by # Seeder
    BY <1>1, <2>1 DEF BootSound, Named
  <2>5. BootSound'
    BY <1>1, <2>1 DEF BootSound, Named
  <2>6. NamesUnique'
    BY <1>1, <1>2, <2>1, <2>4 DEF NamesUnique, Idle
  <2>7. EmailsSharedOnlyByOverlap'
    BY <1>1, <2>1, <2>4 DEF EmailsSharedOnlyByOverlap
  <2> QED
    BY <1>3, <2>3, <2>5, <2>6, <2>7 DEF IInv
<1>5. CASE ~InsertAdmin
  <2>1. users' = users
    BY <1>5 DEF Boot, Migrate, FindClient, InsertClient, LogSecret, FindAdmin
  <2>2. TypeOK'
    BY <1>1, <1>2, <1>5, BoundsAssumption
       DEF Boot, Migrate, FindClient, InsertClient, LogSecret, FindAdmin, TypeOK
  <2>3. BootSound'
    BY <1>1, <1>2, <1>5
       DEF Boot, Migrate, FindClient, InsertClient, LogSecret, FindAdmin,
           BootSound, Named
  <2>4. NamesUnique' /\ EmailsSharedOnlyByOverlap'
    BY <1>1, <1>2, <2>1 DEF NamesUnique, EmailsSharedOnlyByOverlap
  <2> QED
    BY <1>3, <2>2, <2>3, <2>4 DEF IInv
<1> QED
  BY <1>4, <1>5

(* A registration that is accepted, refused or answered adds no user.       *)
LEMMA QuietStep ==
  ASSUME IInv, TypeOK', NEW w \in Workers,
         \A v \in Workers : v # w => req'[v] = req[v],
         phase = "serving", UNCHANGED <<phase, client, known, users, crashes, cutOff>>,
         req'[w].pc \in {"username", "email", "insert"} =>
           req'[w].name \in Names /\ req'[w].email \in Emails,
         req'[w].pc \in {"email", "insert"} =>
           \A u \in users : u.by = w => u.name # req'[w].name,
         req'[w].pc = "insert" => \A u \in users : u.by = w => u.email # req'[w].email,
         req'[w].status # 200,
         req'[w].status = 500 => \E u \in users : u.by # w /\ u.name = req'[w].name
  PROVE  IInv'
<1>1. TypeOK /\ BootSound /\ SlotsSound /\ NamesUnique /\ EmailsSharedOnlyByOverlap
  BY DEF IInv
<1>2. BootSound'
  BY <1>1 DEF BootSound, Named
<1>3. SlotsSound'
  BY <1>1 DEF SlotsSound
<1>4. NamesUnique'
  BY <1>1 DEF NamesUnique
<1>5. EmailsSharedOnlyByOverlap'
  BY <1>1 DEF EmailsSharedOnlyByOverlap
<1> QED
  BY <1>2, <1>3, <1>4, <1>5 DEF IInv

(* Requests are in progress only while the server serves. *)
LEMMA InProgress ==
  ASSUME IInv, NEW w \in Workers, req[w].pc # "idle"
  PROVE  phase = "serving"
  BY DEF IInv, BootSound, Idle

(* Assigning one local of a request keeps it well formed. *)
LEMMA AssignTypeOK ==
  ASSUME NEW q \in Request
  PROVE  /\ \A x \in Steps : [q EXCEPT !.pc = x] \in Request
         /\ \A x \in Statuses : [q EXCEPT !.status = x] \in Request
         /\ \A x \in Names : [q EXCEPT !.name = x] \in Request
         /\ \A x \in Emails : [q EXCEPT !.email = x] \in Request
<1>1. ASSUME NEW x \in Steps PROVE [q EXCEPT !.pc = x] \in Request
  BY DEF Request
<1>2. ASSUME NEW x \in Statuses PROVE [q EXCEPT !.status = x] \in Request
  BY DEF Request
<1>3. ASSUME NEW x \in Names PROVE [q EXCEPT !.name = x] \in Request
  BY DEF Request
<1>4. ASSUME NEW x \in Emails PROVE [q EXCEPT !.email = x] \in Request
  BY DEF Request
<1> QED
  BY <1>1, <1>2, <1>3, <1>4

(* A request that moves on with a status keeps its name and its email.       *)
LEMMA Moved ==
  ASSUME NEW q \in Request, NEW to \in Steps, NEW status \in Statuses
  PROVE  [q EXCEPT !.pc = to, !.status = status] \in Request
<1>1. [q EXCEPT !.pc = to] \in Request
  BY AssignTypeOK
<1> QED
  BY <1>1, AssignTypeOK

LEMMA GotoFacts ==
  ASSUME TypeOK, NEW w \in Workers, NEW to \in {"email", "insert", "reply"},
         NEW status \in {0, 400, 500}, Goto(w, to, status)
  PROVE  /\ TypeOK'
         /\ \A v \in Workers : v # w => req'[v] = req[v]
         /\ req'[w].pc = to /\ req'[w].status = status
         /\ req'[w].name = req[w].name /\ req'[w].email = req[w].email
<1>1. req \in [Workers -> Request] /\ req[w] \in Request
  BY DEF TypeOK
<1>2. [req[w] EXCEPT !.pc = to, !.status = status] \in Request
  <2>1. to \in Steps
    BY DEF Steps
  <2>2. status \in Statuses
    BY DEF Statuses
  <2>3. [req[w] EXCEPT !.pc = to] \in Request
    BY <1>1, <2>1, AssignTypeOK
  <2> QED
    BY <2>2, <2>3, AssignTypeOK
<1>3. req' \in [Workers -> Request]
  BY <1>1, <1>2 DEF Goto
<1>4. TypeOK'
  BY <1>3 DEF Goto, TypeOK
<1>5. /\ req'[w].pc = to /\ req'[w].status = status
      /\ req'[w].name = req[w].name /\ req'[w].email = req[w].email
  BY <1>1 DEF Goto, Request
<1>6. \A v \in Workers : v # w => req'[v] = req[v]
  BY <1>1 DEF Goto
<1> QED
  BY <1>4, <1>5, <1>6

(* The INSERT: neither the index nor the slot's own checks have been voided. *)
LEMMA InsertStep ==
  ASSUME IInv, NEW w \in Workers, Insert(w)
  PROVE  IInv'
<1>1. TypeOK /\ BootSound /\ SlotsSound /\ NamesUnique /\ EmailsSharedOnlyByOverlap
  BY DEF IInv
<1>2. req[w] \in Request /\ req[w].pc = "insert" /\ phase = "serving"
  BY <1>1, InProgress DEF Insert, TypeOK
<1> DEFINE user == [name |-> req[w].name, email |-> req[w].email, by |-> w]
<1>3. /\ user.name = req[w].name /\ user.email = req[w].email /\ user.by = w
      /\ users' = users \cup {user} /\ ~Named(user.name)
      /\ UNCHANGED <<phase, client, known, crashes, cutOff>>
  BY DEF Insert
<1>4. user \in User
  BY <1>1, <1>2 DEF SlotsSound, User
<1>5. [req[w] EXCEPT !.pc = "reply", !.status = 200] \in Request
  <2>1. "reply" \in Steps /\ 200 \in Statuses
    BY DEF Steps, Statuses
  <2> QED
    BY <1>2, <2>1, Moved
<1>6. /\ req' \in [Workers -> Request]
      /\ \A v \in Workers : v # w => req'[v] = req[v]
  BY <1>1, <1>5 DEF Insert, TypeOK
<1>14. /\ req'[w].pc = "reply" /\ req'[w].status = 200
       /\ req'[w].name = user.name
  BY <1>1, <1>2 DEF Insert, TypeOK, Request
<1> HIDE DEF user
<1>7. TypeOK'
  BY <1>1, <1>3, <1>4, <1>6 DEF TypeOK
<1>8. \A u \in users : u.name # user.name /\ (u.by = w => u.email # user.email)
  BY <1>1, <1>2, <1>3 DEF Named, SlotsSound
<1>9. user.name # Admin /\ w # Seeder
  BY <1>1, <1>2, <1>3, WorkersAssumption DEF BootSound, Named
<1>10. BootSound'
  BY <1>1, <1>2, <1>3, <1>9 DEF BootSound, Named
<1>11. SlotsSound'
  BY <1>1, <1>3, <1>6, <1>7, <1>14 DEF SlotsSound
<1>12. NamesUnique'
  BY <1>1, <1>3, <1>6, <1>7, <1>8, <1>14 DEF NamesUnique
<1>13. EmailsSharedOnlyByOverlap'
  BY <1>1, <1>3, <1>8 DEF EmailsSharedOnlyByOverlap
<1> QED
  BY <1>7, <1>10, <1>11, <1>12, <1>13 DEF IInv

LEMMA RegisterStep ==
  ASSUME IInv, NEW w \in Workers, Register(w)
  PROVE  IInv'
<1>1. TypeOK /\ BootSound /\ SlotsSound /\ NamesUnique /\ EmailsSharedOnlyByOverlap
      /\ req[w] \in Request
  BY DEF IInv, TypeOK
<1>2. ASSUME NEW n \in Names, NEW e \in Emails, AcceptRegister(w, n, e)
      PROVE  IInv'
  <2>1. [Idle EXCEPT !.pc = "username", !.name = n] \in Request
    <3>1. [Idle EXCEPT !.pc = "username"] \in Request
      BY IdleTypeOK, AssignTypeOK DEF Steps
    <3> QED
      BY <3>1, AssignTypeOK
  <2>2. [Idle EXCEPT !.pc = "username", !.name = n, !.email = e] \in Request
    BY <2>1, AssignTypeOK
  <2>3. /\ phase = "serving" /\ UNCHANGED <<phase, client, known, users, crashes, cutOff>>
        /\ \A v \in Workers : v # w => req'[v] = req[v]
    BY <1>2 DEF AcceptRegister
  <2>4. TypeOK'
    BY <1>1, <1>2, <2>2, <2>3 DEF AcceptRegister, TypeOK
  <2>5. /\ req'[w].pc = "username" /\ req'[w].name = n /\ req'[w].email = e
        /\ req'[w].status = 0
    BY <1>1, <1>2 DEF AcceptRegister, TypeOK, Idle
  <2> QED
    BY <2>3, <2>4, <2>5, QuietStep
(* The steps that end in Goto: what the request now waits for is justified.  *)
<1>3. ASSUME NEW to \in {"email", "insert", "reply"}, NEW status \in {0, 400, 500},
             Goto(w, to, status), req[w].pc \in {"username", "email", "insert"},
             to \in {"email", "insert"} =>
               \A u \in users : u.by = w => u.name # req[w].name,
             to = "insert" => \A u \in users : u.by = w => u.email # req[w].email,
             status = 500 => \E u \in users : u.by # w /\ u.name = req[w].name
      PROVE  IInv'
  <2>1. /\ TypeOK' /\ \A v \in Workers : v # w => req'[v] = req[v]
        /\ req'[w].pc = to /\ req'[w].status = status
        /\ req'[w].name = req[w].name /\ req'[w].email = req[w].email
    BY <1>1, <1>3, GotoFacts
  <2>2. UNCHANGED <<phase, client, known, users, crashes, cutOff>>
    BY <1>3 DEF Goto
  <2>3. phase = "serving" /\ req[w].name \in Names /\ req[w].email \in Emails
    BY <1>1, <1>3, InProgress DEF SlotsSound
  <2> QED
    BY <1>3, <2>1, <2>2, <2>3, QuietStep
<1>4. CASE UsernameFree(w)
  BY <1>3, <1>4 DEF UsernameFree, Named
<1>5. CASE UsernameTaken(w) \/ EmailTaken(w)
  BY <1>3, <1>5 DEF UsernameTaken, EmailTaken
<1>6. CASE EmailFree(w)
  BY <1>1, <1>3, <1>6 DEF EmailFree, WithEmail, SlotsSound
<1>7. CASE InsertFails(w)
  <2>1. \E u \in users : u.by # w /\ u.name = req[w].name
    BY <1>1, <1>7 DEF InsertFails, Named, SlotsSound
  <2> QED
    BY <1>3, <1>7, <2>1 DEF InsertFails
<1>8. CASE Reply(w)
  <2>1. phase = "serving"
    BY <1>8, InProgress DEF Reply
  <2>2. /\ req'[w] = Idle /\ \A v \in Workers : v # w => req'[v] = req[v]
        /\ UNCHANGED <<phase, client, known, users, crashes, cutOff>>
    BY <1>1, <1>8 DEF Reply, TypeOK
  <2>3. TypeOK'
    BY <1>1, <1>8, IdleTypeOK DEF Reply, TypeOK
  <2>4. req'[w].pc = "idle" /\ req'[w].status = 0
    BY <2>2 DEF Idle
  <2> QED
    BY <2>1, <2>2, <2>3, <2>4, QuietStep
<1> QED
  BY <1>2, <1>4, <1>5, <1>6, <1>7, <1>8, InsertStep DEF Register

(* A crash forgets the requests and keeps the tables. *)
LEMMA CrashStep ==
  ASSUME IInv, Crash
  PROVE  IInv'
<1>1. /\ \A w \in Workers : req'[w] = Idle
      /\ UNCHANGED <<client, known, users>> /\ phase' = "migrate"
  BY DEF Crash
<1>2. TypeOK'
  BY IdleTypeOK DEF IInv, TypeOK, Crash
<1>3. BootSound' /\ SlotsSound'
  BY <1>1 DEF IInv, BootSound, SlotsSound, Idle
<1>4. NamesUnique' /\ EmailsSharedOnlyByOverlap'
  BY <1>1 DEF IInv, NamesUnique, EmailsSharedOnlyByOverlap, Idle
<1> QED
  BY <1>2, <1>3, <1>4 DEF IInv

LEMMA NextIInv == IInv /\ [Next]_vars => IInv'
<1> SUFFICES ASSUME IInv, [Next]_vars PROVE IInv'
  OBVIOUS
<1>1. CASE UNCHANGED vars
  BY <1>1 DEF vars, IInv, TypeOK, BootSound, SlotsSound, NamesUnique,
              EmailsSharedOnlyByOverlap, Named
<1> QED
  BY <1>1, BootStep, RegisterStep, CrashStep DEF Next

(* The inductive invariant of seeding and registration. *)
THEOREM Inductive == Spec => []IInv
  BY InitIInv, NextIInv, PTL DEF Spec

(* The types, which need that a request in progress has a name and an email. *)
THEOREM TypeCorrect == Spec => []TypeOK
<1>1. IInv => TypeOK
  BY DEF IInv
<1> QED
  BY <1>1, Inductive, PTL

(* A serving process has its default client and the seeder's own admin,      *)
(* however often the seeding was cut short.                                *)
THEOREM Seeded == Spec => []ServesSeeded
<1>1. IInv => ServesSeeded
  BY DEF IInv, BootSound, ServesSeeded
<1> QED
  BY <1>1, Inductive, PTL

(* No two users of a name, and a registration that fails on the index lost   *)
(* the race to another slot, for any number of them.                       *)
THEOREM NamesStayUnique == Spec => []NamesUnique
<1>1. IInv => NamesUnique
  BY DEF IInv
<1> QED
  BY <1>1, Inductive, PTL

(* One slot never registers an email twice: only overlap does. *)
THEOREM EmailsByOverlap == Spec => []EmailsSharedOnlyByOverlap
<1>1. IInv => EmailsSharedOnlyByOverlap
  BY DEF IInv
<1> QED
  BY <1>1, Inductive, PTL

(* The secret the seeder drew is lost exactly when a crash came between the  *)
(* INSERT of its hash and the log; nothing later brings it back.           *)
SecretSound == /\ SecretLostIffCutOff
               /\ phase = "insertClient" => ~client
               /\ phase = "logSecret" => ~cutOff

THEOREM SecretKept == Spec => []SecretLostIffCutOff
<1>1. ASSUME TypeOK, BootSound, SecretSound, [Next]_vars PROVE SecretSound'
  <2> USE <1>1 DEF SecretSound, SecretLostIffCutOff
  <2>1. CASE Boot
    <3>1. CASE Migrate \/ FindClient \/ FindAdmin \/ InsertAdmin
      BY <3>1 DEF Migrate, FindClient, FindAdmin, InsertAdmin, TypeOK
    <3>2. CASE InsertClient
      BY <3>2, BoundsAssumption DEF InsertClient, TypeOK
    <3>3. CASE LogSecret
      BY <3>3 DEF LogSecret, TypeOK
    <3> QED
      BY <2>1, <3>1, <3>2, <3>3 DEF Boot
  <2>2. ASSUME NEW w \in Workers, Register(w) PROVE SecretSound'
    <3>1. UNCHANGED <<phase, client, known, cutOff>>
      BY <2>2 DEF Register, AcceptRegister, UsernameFree, UsernameTaken, EmailFree,
                  EmailTaken, Insert, InsertFails, Reply, Goto
    <3> QED
      BY <3>1
  <2>3. CASE Crash
    BY <2>3 DEF Crash, TypeOK, BootSound
  <2>4. CASE UNCHANGED vars
    BY <2>4 DEF vars
  <2> QED
    BY <1>1, <2>1, <2>2, <2>3, <2>4 DEF Next
<1>2. Init => SecretSound
  BY DEF Init, SecretSound, SecretLostIffCutOff
<1>3. IInv => TypeOK /\ BootSound
  BY DEF IInv
<1>4. SecretSound => SecretLostIffCutOff
  BY DEF SecretSound
<1> QED
  BY <1>1, <1>2, <1>3, <1>4, Inductive, PTL DEF Spec

-----------------------------------------------------------------------------
(* Registrations of one email that do not overlap: an email that was free    *)
(* at the check is free at the INSERT, and the seeder inserts first.       *)
EmailsSound ==
  /\ EmailsUnique
  /\ \A w \in Workers : req[w].pc = "insert" => ~WithEmail(req[w].email)
  /\ users # {} => Named(Admin)

(* A step that adds no user, and after which every slot that is about to     *)
(* insert was about to, or has just found its email free.                  *)
LEMMA KeepEmails ==
  ASSUME EmailsSound, UNCHANGED users,
         \A w \in Workers : req'[w].pc = "insert" =>
           req'[w] = req[w] \/ ~WithEmail(req'[w].email)
  PROVE  EmailsSound'
<1>1. \A e : WithEmail(e)' <=> WithEmail(e)
  BY DEF WithEmail
<1>2. \A w \in Workers : req'[w].pc = "insert" => ~WithEmail(req'[w].email)
  BY DEF EmailsSound
<1> QED
  BY <1>1, <1>2 DEF EmailsSound, EmailsUnique, WithEmail, Named

(* A user who is inserted with an email that is free. *)
LEMMA AddEmail ==
  ASSUME EmailsSound, NEW user, users' = users \cup {user}, ~WithEmail(user.email),
         Named(Admin)',
         \A w \in Workers : req'[w].pc = "insert" =>
           req'[w] = req[w] /\ req[w].email # user.email
  PROVE  EmailsSound'
<1>1. \A e : WithEmail(e)' => WithEmail(e) \/ e = user.email
  BY DEF WithEmail
<1>2. ASSUME NEW w \in Workers, req'[w].pc = "insert" PROVE ~WithEmail(req[w].email)'
  BY <1>1, <1>2 DEF EmailsSound
<1>3. EmailsUnique'
  BY DEF EmailsSound, EmailsUnique, WithEmail
<1> QED
  BY <1>2, <1>3 DEF EmailsSound

LEMMA NextEmails ==
  ASSUME IInv, InsertsApart, EmailsSound, [Next]_vars
  PROVE  EmailsSound'
<1>1. TypeOK /\ \A w \in Workers : req[w] \in Request
  BY DEF IInv, TypeOK
<1>2. CASE Boot
  <2>1. phase # "serving" /\ UNCHANGED req
    BY <1>2 DEF Boot, Migrate, FindClient, InsertClient, LogSecret, FindAdmin, InsertAdmin
  <2>2. \A w \in Workers : req'[w].pc # "insert"
    BY <2>1 DEF IInv, BootSound, Idle
  <2>3. CASE InsertAdmin
    <3> DEFINE user == [name |-> Admin, email |-> AdminEmail, by |-> Seeder]
    <3>1. users = {} /\ users' = users \cup {user}
      BY <2>3 DEF InsertAdmin, EmailsSound
    <3>2. ~WithEmail(user.email) /\ Named(Admin)'
      BY <3>1 DEF WithEmail, Named
    <3> HIDE DEF user
    <3> QED
      BY <2>2, <3>1, <3>2, AddEmail
  <2>4. CASE ~InsertAdmin
    <3>1. UNCHANGED users
      BY <1>2, <2>4 DEF Boot, Migrate, FindClient, InsertClient, LogSecret, FindAdmin
    <3> QED
      BY <2>2, <3>1, KeepEmails
  <2> QED
    BY <2>3, <2>4
<1>3. ASSUME NEW w \in Workers, NEW n \in Names, NEW e \in Emails, AcceptRegister(w, n, e)
      PROVE  EmailsSound'
  <2>1. /\ UNCHANGED users /\ req'[w].pc = "username"
        /\ \A v \in Workers : v # w => req'[v] = req[v]
    BY <1>1, <1>3 DEF AcceptRegister, TypeOK, Idle
  <2> QED
    BY <2>1, KeepEmails
<1>4. ASSUME NEW w \in Workers, NEW to \in {"email", "reply"}, NEW status \in {0, 400, 500},
             Goto(w, to, status)
      PROVE  EmailsSound'
  <2>1. /\ req'[w].pc = to
        /\ \A v \in Workers : v # w => req'[v] = req[v]
    <3>1. to \in {"email", "insert", "reply"}
      OBVIOUS
    <3> QED
      BY <1>1, <1>4, <3>1, GotoFacts
  <2>2. UNCHANGED users /\ to # "insert"
    BY <1>4 DEF Goto
  <2> QED
    BY <2>1, <2>2, KeepEmails
<1>5. ASSUME NEW w \in Workers, EmailFree(w) PROVE EmailsSound'
  <2>1. Goto(w, "insert", 0) /\ ~WithEmail(req[w].email)
    BY <1>5 DEF EmailFree
  <2>2. /\ req'[w].email = req[w].email
        /\ \A v \in Workers : v # w => req'[v] = req[v]
    BY <1>1, <2>1, GotoFacts
  <2>3. UNCHANGED users
    BY <2>1 DEF Goto
  <2> QED
    BY <2>1, <2>2, <2>3, KeepEmails
<1>6. ASSUME NEW w \in Workers, Insert(w) PROVE EmailsSound'
  <2> DEFINE user == [name |-> req[w].name, email |-> req[w].email, by |-> w]
  <2>1. /\ req[w].pc = "insert" /\ users' = users \cup {user} /\ req'[w].pc = "reply"
        /\ \A v \in Workers : v # w => req'[v] = req[v]
    BY <1>1, <1>6 DEF Insert, TypeOK, Request
  <2>2. user.email = req[w].email /\ ~WithEmail(user.email)
    BY <2>1 DEF EmailsSound
  <2>3. Named(Admin)'
    <3>1. phase = "serving" /\ Named(Admin)
      BY <2>1, InProgress DEF IInv, BootSound
    <3> QED
      BY <2>1, <3>1 DEF Named
  <2> HIDE DEF user
  <2>4. \A v \in Workers : req'[v].pc = "insert" => req'[v] = req[v] /\ req[v].email # user.email
    BY <2>1, <2>2 DEF InsertsApart
  <2> QED
    BY <2>1, <2>2, <2>3, <2>4, AddEmail
<1>7. ASSUME NEW w \in Workers, Reply(w) PROVE EmailsSound'
  <2>1. /\ UNCHANGED users /\ req'[w].pc = "idle"
        /\ \A v \in Workers : v # w => req'[v] = req[v]
    BY <1>1, <1>7 DEF Reply, TypeOK, Idle
  <2> QED
    BY <2>1, KeepEmails
<1>8. CASE Crash
  <2>1. UNCHANGED users /\ \A v \in Workers : req'[v].pc = "idle"
    BY <1>8 DEF Crash, Idle
  <2> QED
    BY <2>1, KeepEmails
<1>9. CASE UNCHANGED vars
  BY <1>9, KeepEmails DEF vars
<1>10. ASSUME NEW w \in Workers, Register(w) PROVE EmailsSound'
  <2>1. UsernameFree(w) => Goto(w, "email", 0)
    BY DEF UsernameFree
  <2>2. UsernameTaken(w) \/ EmailTaken(w) => Goto(w, "reply", 400)
    BY DEF UsernameTaken, EmailTaken
  <2>3. InsertFails(w) => Goto(w, "reply", 500)
    BY DEF InsertFails
  <2> QED
    BY <1>3, <1>4, <1>5, <1>6, <1>7, <1>10, <2>1, <2>2, <2>3 DEF Register
<1> QED
  BY <1>2, <1>8, <1>9, <1>10 DEF Next

(* An email is unique as long as two registrations of it are not past the    *)
(* check together (UserService.RegisterUserDetailedAsync), whatever         *)
(* crashes and other registrations come in between.                        *)
THEOREM EmailsUniqueApart == Spec /\ []InsertsApart => []EmailsUnique
<1>1. Init => EmailsSound
  BY DEF Init, Idle, EmailsSound, EmailsUnique
<1>2. IInv /\ InsertsApart /\ EmailsSound /\ [Next]_vars => EmailsSound'
  BY NextEmails
<1>3. EmailsSound => EmailsUnique
  BY DEF EmailsSound
<1> QED
  BY <1>1, <1>2, <1>3, Inductive, PTL DEF Spec
=============================================================================

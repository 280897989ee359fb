---------------------------- MODULE ServerProofs ----------------------------
(***************************************************************************)
(* What Server keeps for any number of handlers, background goroutines,    *)
(* migrations, mailboxes and passwords.                                    *)
(***************************************************************************)
EXTENDS Server, TLAPS

-----------------------------------------------------------------------------
(* The process.  The schema is complete from Start on; the handlers and    *)
(* the background goroutines are over, one after the other, before the     *)
(* clients they use are closed, unless the deadline has passed.            *)

Serving == {"select", "shutdown", "await", "closeRedis", "closePool", "poolClosing"}

Ready == [version |-> Latest, dirty |-> FALSE]

SchemaReady ==
    /\ main = "start" => schema = Ready
    /\ \A g \in Goroutines : work[g] # "off" => main \in Serving /\ schema = Ready

Orderly ==
    /\ server = "listening" => main = "select"
    /\ main \in {"select", "shutdown", "await", "closeRedis"} => redis = "open"
    /\ redis = "open" => main \in {"select", "shutdown", "await", "closeRedis", "exited"}
    /\ redis = "closed" => main \in {"closePool", "poolClosing", "exited"}
    /\ redis # "none" /\ ~timedOut
         /\ main \in {"await", "closeRedis", "closePool", "poolClosing"} =>
            \A h \in Handlers : work[h] = "idle"
    /\ redis # "none" /\ ~timedOut /\ main \in {"closeRedis", "closePool", "poolClosing"} =>
            \A b \in Background : work[b] = "ended"

ProcessInv == TypeOK /\ SchemaReady /\ Orderly

\* What the process does when the requests of Accounts are not looked at.
LEMMA ServerStepsAreProcessSteps == ServerNext => [Next]_vars
<1> SUFFICES ASSUME ServerNext PROVE Next \/ UNCHANGED vars
  OBVIOUS
<1>1. ASSUME NEW h \in Handlers,
             ServeHTTP(h) \/ Connect(h) \/ ConnectFails(h) \/ Execute(h) \/ Respond(h)
      PROVE  Next \/ UNCHANGED vars
  BY <1>1 DEF ServeHTTP, Connect, ConnectFails, Execute, Respond, Next, Goroutines
<1>2. CASE Elsewhere
  BY <1>2 DEF Elsewhere, Next, MainStep, Goroutines
<1>3. CASE Exit \/ Kill
  BY <1>3 DEF Next, MainStep
<1> QED
  BY <1>1, <1>2, <1>3 DEF ServerNext

\* A database without migrations and a process that has just started.
LEMMA ProcessInvInit == Init => ProcessInv
<1> SUFFICES ASSUME Init PROVE ProcessInv
  OBVIOUS
<1>1. schema \in [version : 0..Latest, dirty : BOOLEAN]
  BY ProcessAssumption DEF Init
<1>2. TypeOK
  BY <1>1 DEF Init, TypeOK, AllOff, MainStages, ServerStages, WorkStages
<1> QED
  BY <1>2 DEF Init, ProcessInv, SchemaReady, Orderly, AllOff

\* The steps that leave the goroutines alone.
LEMMA StartKeepsProcessInv ==
  ASSUME ProcessInv, Load \/ NewPool \/ RunMigrations \/ Migrated \/ Start
                     \/ ListenAndServe \/ ServerFails \/ Signal \/ Restart
  PROVE  ProcessInv'
<1> USE ProcessAssumption DEF ProcessInv, TypeOK, SchemaReady, Orderly, Ready, Serving,
        MainStages, ServerStages, WorkStages, Goroutines, MainGoto
<1>1. CASE Load
  BY <1>1 DEF Load
<1>2. CASE NewPool
  BY <1>2 DEF NewPool
<1>3. CASE RunMigrations
  <2>1. schema' \in [version : 0..Latest, dirty : BOOLEAN]
    <3>1. schema.version \in 0..Latest
      OBVIOUS
    <3>2. CASE UNCHANGED schema
      BY <3>2
    <3>3. CASE schema.version < Latest
               /\ schema' = [version |-> schema.version + 1, dirty |-> TRUE]
      <4>1. schema.version + 1 \in 0..Latest
        BY <3>1, <3>3
      <4> QED
        BY <3>3, <4>1
    <3> QED
      BY <1>3, <3>2, <3>3 DEF RunMigrations
  <2>2. main' = "start" => schema' = Ready
    BY <1>3 DEF RunMigrations
  <2> QED
    BY <1>3, <2>1, <2>2 DEF RunMigrations
<1>4. CASE Migrated
  BY <1>4 DEF Migrated
<1>5. CASE Start
  BY <1>5 DEF Start
<1>6. CASE ListenAndServe
  BY <1>6 DEF ListenAndServe
<1>7. CASE ServerFails
  BY <1>7 DEF ServerFails
<1>8. CASE Signal
  BY <1>8 DEF Signal
<1>9. CASE Restart
  BY <1>9 DEF Restart
<1> QED
  BY <1>1, <1>2, <1>3, <1>4, <1>5, <1>6, <1>7, <1>8, <1>9

\* The steps of main() from its select to its end.
LEMMA ShutdownKeepsProcessInv ==
  ASSUME ProcessInv, Select \/ Deadline \/ Shutdown \/ AwaitBackground \/ CloseRedis
                     \/ ClosePool \/ Exit \/ Kill
  PROVE  ProcessInv'
<1> USE ProcessAssumption DEF ProcessInv, TypeOK, SchemaReady, Orderly, Ready, Serving,
        MainStages, ServerStages, WorkStages, Goroutines, MainGoto
<1>1. CASE Select
  BY <1>1 DEF Select
<1>2. CASE Deadline
  BY <1>2 DEF Deadline
<1>3. CASE Shutdown
  BY <1>3 DEF Shutdown
<1>4. CASE AwaitBackground
  BY <1>4 DEF AwaitBackground
<1>5. CASE CloseRedis
  BY <1>5 DEF CloseRedis
<1>6. CASE ClosePool
  BY <1>6 DEF ClosePool
<1>7. CASE Exit
  BY <1>7 DEF Exit, AllOff
<1>8. CASE Kill
  BY <1>8 DEF Kill, AllOff
<1> QED
  BY <1>1, <1>2, <1>3, <1>4, <1>5, <1>6, <1>7, <1>8

\* The steps of handlers and of background goroutines.
LEMMA WorkKeepsProcessInv ==
  ASSUME ProcessInv, NEW g \in Goroutines,
         Accept(g) \/ TickerFires(g) \/ BackgroundEnds(g)
           \/ Acquire(g) \/ Release(g) \/ Publish(g) \/ Finish(g)
  PROVE  ProcessInv'
<1> USE ProcessAssumption DEF ProcessInv, TypeOK, SchemaReady, Orderly, Ready, Serving,
        MainStages, ServerStages, WorkStages, Goroutines, WorkGoto, own
<1>1. CASE Accept(g)
  BY <1>1 DEF Accept
<1>2. CASE TickerFires(g)
  BY <1>2 DEF TickerFires
<1>3. CASE BackgroundEnds(g)
  BY <1>3 DEF BackgroundEnds
<1>4. CASE Acquire(g)
  BY <1>4 DEF Acquire
<1>5. CASE Release(g)
  BY <1>5 DEF Release
<1>6. CASE Publish(g)
  BY <1>6 DEF Publish
<1>7. CASE Finish(g)
  BY <1>7 DEF Finish
<1> QED
  BY <1>1, <1>2, <1>3, <1>4, <1>5, <1>6, <1>7

\* ProcessInv is inductive.
LEMMA ProcessInvStep == ProcessInv /\ [Next]_vars => ProcessInv'
<1> SUFFICES ASSUME ProcessInv, [Next]_vars PROVE ProcessInv'
  OBVIOUS
<1>1. CASE UNCHANGED vars
  BY <1>1 DEF vars, ProcessInv, TypeOK, SchemaReady, Orderly
<1>2. CASE Next
  BY <1>2, StartKeepsProcessInv, ShutdownKeepsProcessInv, WorkKeepsProcessInv
  DEF Next, MainStep, Goroutines
<1> QED
  BY <1>1, <1>2

\* ProcessInv always holds, in Server as well.
LEMMA AlwaysProcessInv == ServerSpec => []ProcessInv
<1>1. ServerInit => ProcessInv
  BY ProcessInvInit DEF ServerInit
<1>2. ProcessInv /\ [ServerNext]_serverVars => ProcessInv'
  BY ServerStepsAreProcessSteps, ProcessInvStep DEF serverVars
<1> QED
  BY <1>1, <1>2, PTL DEF ServerSpec

\* SchemaBeforeUse holds in every reachable state of Server: no goroutine works on
\* half a schema, wherever a run of the migrations was killed and started again.
THEOREM SchemaIsComplete == ServerSpec => []SchemaBeforeUse
<1>1. ProcessInv => SchemaBeforeUse
  BY DEF ProcessInv, TypeOK, SchemaReady, Orderly, SchemaBeforeUse, Ready, MainStages
<1> QED
  BY <1>1, AlwaysProcessInv, PTL

\* NothingInterrupted holds in every reachable state of Server: the shutdown of
\* main() cuts nothing off before its deadline.
THEOREM ShutdownIsOrderly == ServerSpec => []NothingInterrupted
<1>1. ProcessInv => NothingInterrupted
  BY DEF ProcessInv, TypeOK, SchemaReady, Orderly, NothingInterrupted, Ready, MainStages
<1> QED
  BY <1>1, AlwaysProcessInv, PTL

-----------------------------------------------------------------------------
(* The accounts.  Rows and look-ups carry normalised addresses, so that    *)
(* the UNIQUE constraint is one account per mailbox; rows never go away,   *)
(* so that an answer stays true.                                           *)

PlainAddress == [box : Mailboxes, form : {"plain"}]

Rows ==
    /\ \A u \in users : u.email \in PlainAddress
    /\ \A u, v \in users : u.email = v.email => u = v

\* What a request q knows when it comes to a statement.
Prepared(q) ==
    /\ q.at \in {"lookup", "insert"} =>
         /\ q.email \in PlainAddress
         /\ q.password \in TypedPassword
         /\ q.result = None
         /\ q.op \in {"register", "login"}
    /\ q.at \in {"lookup", "insert"} /\ q.op = "register" =>
         q.role \in Roles /\ LongEnough(q.password.word)
    /\ q.at = "insert" => q.op = "register" /\ Hashable(q.password.word)

\* The answer that q has is true of the rows of table.
Truth(q, table) ==
    /\ q.result = "created" =>
         \E u \in table : /\ u.email = q.email
                          /\ u.hash = q.password.word /\ u.role = q.role
    /\ q.result = "exists" => \E u \in table : u.email = q.email
    /\ q.result = "token" /\ q.op = "login" =>
         \E u \in table : /\ u.email = q.email
                          /\ Compare(u.hash, q.password) /\ u.role = q.role

AccountsInv ==
    /\ AccountsTypeOK
    /\ Rows
    /\ \A r \in Requests : Prepared(req[r]) /\ Truth(req[r], users)

\* A handler without a request has nothing to be wrong about.
LEMMA FreeIsFine ==
  /\ Free \in Locals
  /\ Prepared(Free)
  /\ \A table : Truth(Free, table)
  BY AccountsAssumption DEF Free, Locals, Prepared, Truth

\* The seeded rows have normalised addresses, one for each mailbox.
LEMMA AccountsInvInit == AccountsInit => AccountsInv
<1> SUFFICES ASSUME AccountsInit PROVE AccountsInv
  OBVIOUS
<1>1. users \subseteq UserRow /\ Rows
  <2>1. Seeded \subseteq Mailboxes
    BY AccountsAssumption
  <2> QED
    BY <2>1 DEF AccountsInit, UserRow, Rows, PlainAddress, TypedAddress, Forms, Roles
<1>2. \A r \in Requests : req[r] = Free
  BY DEF AccountsInit
<1>3. req \in [Requests -> Locals]
  BY FreeIsFine DEF AccountsInit
<1> QED
  BY <1>1, <1>2, <1>3, FreeIsFine DEF AccountsInv, AccountsTypeOK

\* A step of one request: its locals become q, and rows are added at most.
LEMMA RequestStep ==
  ASSUME AccountsInv, NEW r \in Requests, NEW q \in Locals,
         req' = [req EXCEPT ![r] = q],
         users \subseteq users', users' \subseteq UserRow, Rows',
         Prepared(q), Truth(q, users')
  PROVE  AccountsInv'
<1>1. req' \in [Requests -> Locals]
  BY DEF AccountsInv, AccountsTypeOK
<1>2. ASSUME NEW o \in Requests PROVE Prepared(req'[o]) /\ Truth(req'[o], users')
  <2>1. CASE o = r
    BY <2>1 DEF AccountsInv, AccountsTypeOK
  <2>2. CASE o # r
    <3>1. req'[o] = req[o]
      BY <2>2 DEF AccountsInv, AccountsTypeOK
    <3> QED
      BY <3>1 DEF AccountsInv, Truth
  <2> QED
    BY <2>1, <2>2
<1> QED
  BY <1>1, <1>2 DEF AccountsInv, AccountsTypeOK

\* The same for a step that leaves the table alone.
LEMMA ReadStep ==
  ASSUME AccountsInv, NEW r \in Requests, NEW q \in Locals,
         req' = [req EXCEPT ![r] = q], UNCHANGED users,
         Prepared(q), Truth(q, users)
  PROVE  AccountsInv'
  BY RequestStep DEF AccountsInv, AccountsTypeOK, Rows

\* And for an answer that is an error.
LEMMA RefusedStep ==
  ASSUME AccountsInv, NEW r \in Requests,
         NEW result \in {"exists", "invalid", "unauthorized", "internal"},
         Refused(r, result), UNCHANGED users,
         result = "exists" => GetByEmail(req[r].email) # {}
  PROVE  AccountsInv'
<1> DEFINE q == [Free EXCEPT !.at = "answer", !.op = req[r].op, !.result = result,
                             !.email = IF result = "exists" THEN req[r].email ELSE None]
<1>1. q \in Locals
  BY FreeIsFine DEF AccountsInv, AccountsTypeOK, Locals, Free
<1>2. Prepared(q)
  BY DEF Prepared, Free
<1>3. Truth(q, users)
  BY DEF Truth, Free, GetByEmail
<1> QED
  BY <1>1, <1>2, <1>3, ReadStep DEF Refused

\* normalizeEmail leaves one way of writing a valid address.
LEMMA NormalisedAddress ==
  ASSUME NEW typed \in TypedAddress, isValidEmail(normalizeEmail(typed))
  PROVE  normalizeEmail(typed) \in PlainAddress
  BY DEF TypedAddress, Forms, PlainAddress, normalizeEmail, isValidEmail

\* A normalised address is one that can be typed.
LEMMA PlainAddressIsTyped == PlainAddress \subseteq TypedAddress
  BY DEF PlainAddress, TypedAddress, Forms

\* TrimSpace takes spaces from a password and leaves its word.
LEMMA TrimmedPassword ==
  ASSUME NEW password \in TypedPassword
  PROVE  /\ TrimSpace(password) \in TypedPassword
         /\ TrimSpace(password).word = password.word
  BY DEF TypedPassword, TrimSpace

\* Register and Login check and normalise their input before the first statement.
LEMMA StartKeepsAccountsInv ==
  ASSUME AccountsInv, NEW r \in Requests,
         NEW typed \in TypedAddress, NEW password \in TypedPassword, NEW role \in SentRoles,
         Register(r, typed, password, role) \/ Login(r, typed, password)
  PROVE  AccountsInv'
<1> DEFINE email == normalizeEmail(typed)
<1>1. ASSUME NEW op \in {"register", "login", "dummyLogin"},
             NEW result \in {"invalid", "unauthorized"},
             req' = [req EXCEPT ![r] = [Free EXCEPT !.at = "answer", !.op = op,
                                                    !.result = result]],
             UNCHANGED users
      PROVE  AccountsInv'
  <2> DEFINE q == [Free EXCEPT !.at = "answer", !.op = op, !.result = result]
  <2>1. q \in Locals /\ Prepared(q) /\ Truth(q, users)
    BY FreeIsFine DEF Locals, Free, Prepared, Truth
  <2> QED
    BY <1>1, <2>1, ReadStep
<1>2. CASE Register(r, typed, password, role)
  <2> DEFINE q == [at |-> "lookup", op |-> "register", email |-> email,
                   password |-> TrimSpace(password), role |-> role, result |-> None]
  <2>1. CASE isValidEmail(email) /\ LongEnough(TrimSpace(password).word) /\ role \in Roles
    <3>1. req' = [req EXCEPT ![r] = q] /\ UNCHANGED users
      BY <1>2, <2>1 DEF Register, Started, Free
    <3>2. email \in PlainAddress
      BY <2>1, NormalisedAddress
    <3>3. TrimSpace(password) \in TypedPassword
      BY TrimmedPassword
    <3>4. q \in Locals
      BY <2>1, <3>2, <3>3, PlainAddressIsTyped DEF Locals
    <3>5. Prepared(q) /\ Truth(q, users)
      BY <2>1, <3>2, <3>3, AccountsAssumption DEF Prepared, Truth
    <3> QED
      BY <3>1, <3>4, <3>5, ReadStep
  <2>2. CASE ~(isValidEmail(email) /\ LongEnough(TrimSpace(password).word) /\ role \in Roles)
    BY <1>1, <1>2, <2>2 DEF Register, Started
  <2> QED
    BY <2>1, <2>2
<1>3. CASE Login(r, typed, password)
  <2> DEFINE q == [at |-> "lookup", op |-> "login", email |-> email,
                   password |-> password, role |-> None, result |-> None]
  <2>1. CASE isValidEmail(email) /\ password.word # ""
    <3>1. req' = [req EXCEPT ![r] = q] /\ UNCHANGED users
      BY <1>3, <2>1 DEF Login, Started, Free
    <3>2. email \in PlainAddress
      BY <2>1, NormalisedAddress
    <3>3. q \in Locals
      BY <3>2, PlainAddressIsTyped DEF Locals
    <3>4. Prepared(q) /\ Truth(q, users)
      BY <3>2, AccountsAssumption DEF Prepared, Truth
    <3> QED
      BY <3>1, <3>3, <3>4, ReadStep
  <2>2. CASE ~(isValidEmail(email) /\ password.word # "")
    BY <1>1, <1>3, <2>2 DEF Login, Started
  <2> QED
    BY <2>1, <2>2
<1> QED
  BY <1>2, <1>3

\* DummyLogin reads no table.
LEMMA DummyLoginKeepsAccountsInv ==
  ASSUME AccountsInv, NEW r \in Requests, NEW role \in SentRoles, DummyLogin(r, role)
  PROVE  AccountsInv'
<1> DEFINE q == [Free EXCEPT !.at = "answer", !.op = "dummyLogin",
                             !.result = IF role \in Roles THEN "token" ELSE "invalid"]
<1>1. q \in Locals /\ Prepared(q) /\ Truth(q, users)
  BY FreeIsFine DEF Locals, Free, Prepared, Truth
<1> QED
  BY <1>1, ReadStep DEF DummyLogin, Started

\* A look-up writes nothing, and what it answers is so at that moment.
LEMMA LookupKeepsAccountsInv ==
  ASSUME AccountsInv, NEW r \in Requests,
         CheckExisting(r) \/ CheckPassword(r) \/ StatementNotSent(r)
  PROVE  AccountsInv'
<1>0. req[r] \in Locals /\ Prepared(req[r])
  BY DEF AccountsInv, AccountsTypeOK
<1>1. CASE CheckExisting(r)
  <2>1. CASE GetByEmail(req[r].email) # {}
    BY <1>1, <2>1, RefusedStep DEF CheckExisting
  <2>2. CASE GetByEmail(req[r].email) = {} /\ ~Hashable(req[r].password.word)
    BY <1>1, <2>2, RefusedStep DEF CheckExisting
  <2>3. CASE GetByEmail(req[r].email) = {} /\ Hashable(req[r].password.word)
    <3> DEFINE q == [req[r] EXCEPT !.at = "insert"]
    <3>1. req' = [req EXCEPT ![r] = q] /\ UNCHANGED users
      BY <1>1, <2>3 DEF CheckExisting
    <3>2. q \in Locals
      BY <1>0 DEF Locals
    <3>3. Prepared(q)
      BY <1>0, <1>1, <2>3 DEF CheckExisting, Prepared, Locals
    <3>4. Truth(q, users)
      BY <1>0, <1>1, AccountsAssumption DEF CheckExisting, Prepared, Truth, Locals
    <3> QED
      BY <3>1, <3>2, <3>3, <3>4, ReadStep
  <2> QED
    BY <2>1, <2>2, <2>3
<1>2. CASE CheckPassword(r)
  <2>1. ASSUME NEW u \in GetByEmail(req[r].email), Compare(u.hash, req[r].password),
               req' = [req EXCEPT ![r].at = "answer", ![r].result = "token",
                                  ![r].role = u.role]
        PROVE  AccountsInv'
    <3> DEFINE q == [req[r] EXCEPT !.at = "answer", !.result = "token", !.role = u.role]
    <3>1. req' = [req EXCEPT ![r] = q] /\ UNCHANGED users
      BY <1>2, <2>1 DEF CheckPassword, AccountsInv, AccountsTypeOK
    <3>2. u \in users /\ u.email = req[r].email /\ u.role \in Roles
      BY DEF GetByEmail, AccountsInv, AccountsTypeOK, UserRow
    <3>3. q \in Locals
      BY <1>0, <3>2 DEF Locals
    <3>4. Prepared(q) /\ Truth(q, users)
      BY <1>0, <2>1, <3>2 DEF Prepared, Truth, Locals
    <3> QED
      BY <3>1, <3>3, <3>4, ReadStep
  <2>2. CASE Refused(r, "unauthorized")
    BY <1>2, <2>2, RefusedStep DEF CheckPassword
  <2> QED
    BY <1>2, <2>1, <2>2 DEF CheckPassword
<1>3. CASE StatementNotSent(r)
  BY <1>3, RefusedStep DEF StatementNotSent
<1> QED
  BY <1>1, <1>2, <1>3

\* The UNIQUE constraint lets a row in only if no row has its address.
LEMMA InsertKeepsRows ==
  ASSUME AccountsInv, NEW r \in Requests, req[r].at = "insert",
         GetByEmail(req[r].email) = {}, users' = users \union {NewRow(r)}
  PROVE  users \subseteq users' /\ users' \subseteq UserRow /\ Rows'
<1>1. req[r] \in Locals /\ Prepared(req[r])
  BY DEF AccountsInv, AccountsTypeOK
<1>2. req[r].email \in PlainAddress /\ req[r].role \in Roles
  BY <1>1 DEF Prepared
<1>3. req[r].password.word \in Words
  BY <1>1 DEF Prepared, TypedPassword, LongEnough, Hashable
<1>4. NewRow(r) \in UserRow
  BY <1>2, <1>3, PlainAddressIsTyped DEF NewRow, UserRow
<1>5. Rows'
  BY <1>2 DEF NewRow, Rows, AccountsInv, GetByEmail
<1> QED
  BY <1>4, <1>5 DEF AccountsInv, AccountsTypeOK

\* The INSERT, also when its answer is lost.
LEMMA CreateKeepsAccountsInv ==
  ASSUME AccountsInv, NEW r \in Requests, Create(r) \/ StatementFails(r)
  PROVE  AccountsInv'
<1>0. req[r] \in Locals /\ Prepared(req[r])
  BY DEF AccountsInv, AccountsTypeOK
<1>1. ASSUME req[r].at = "insert", GetByEmail(req[r].email) = {},
             users' = users \union {NewRow(r)},
             req' = [req EXCEPT ![r].at = "answer", ![r].result = "created"]
      PROVE  AccountsInv'
  <2> DEFINE q == [req[r] EXCEPT !.at = "answer", !.result = "created"]
  <2>1. req' = [req EXCEPT ![r] = q]
    BY <1>1 DEF AccountsInv, AccountsTypeOK
  <2>2. q \in Locals /\ Prepared(q)
    BY <1>0 DEF Locals, Prepared
  <2>3. NewRow(r) \in users' /\ NewRow(r).email = q.email
        /\ NewRow(r).hash = q.password.word /\ NewRow(r).role = q.role
    BY <1>0, <1>1 DEF NewRow, Locals
  <2>4. q.result = "created"
    BY <1>0 DEF Locals
  <2>5. Truth(q, users')
    BY <2>3, <2>4 DEF Truth
  <2> HIDE DEF q
  <2> QED
    BY <1>1, <2>1, <2>2, <2>5, InsertKeepsRows, RequestStep
<1>2. ASSUME req[r].at = "insert", GetByEmail(req[r].email) = {},
             users' = users \union {NewRow(r)}, Refused(r, "internal")
      PROVE  AccountsInv'
  <2> DEFINE q == [Free EXCEPT !.at = "answer", !.op = req[r].op, !.result = "internal",
                               !.email = None]
  <2>1. req' = [req EXCEPT ![r] = q]
    BY <1>2 DEF Refused
  <2>2. q \in Locals /\ Prepared(q) /\ Truth(q, users')
    BY <1>0, FreeIsFine DEF Locals, Free, Prepared, Truth
  <2> HIDE DEF q
  <2> QED
    BY <1>2, <2>1, <2>2, InsertKeepsRows, RequestStep
<1>3. CASE Create(r)
  <2>1. CASE GetByEmail(req[r].email) = {}
    BY <1>1, <1>3, <2>1 DEF Create
  <2>2. CASE GetByEmail(req[r].email) # {}
    BY <1>3, <2>2, RefusedStep DEF Create
  <2> QED
    BY <2>1, <2>2
<1>4. CASE StatementFails(r)
  BY <1>2, <1>4, LookupKeepsAccountsInv DEF StatementFails
<1> QED
  BY <1>3, <1>4

\* An answered request leaves the table as it is.
LEMMA AnswerKeepsAccountsInv ==
  ASSUME AccountsInv, NEW r \in Requests, Answer(r)
  PROVE  AccountsInv'
  BY FreeIsFine, ReadStep DEF Answer, Started

\* The requests of a process that ends are gone, the rows stay.
LEMMA AbandonKeepsAccountsInv ==
  ASSUME AccountsInv, Abandon
  PROVE  AccountsInv'
<1>1. \A r \in Requests : req'[r] = Free
  BY DEF Abandon
<1>2. req' \in [Requests -> Locals]
  BY FreeIsFine DEF Abandon
<1> QED
  BY <1>1, <1>2, FreeIsFine DEF Abandon, AccountsInv, AccountsTypeOK, Rows

\* AccountsInv is inductive.
LEMMA AccountsInvStep == AccountsInv /\ [ServerNext]_serverVars => AccountsInv'
<1> SUFFICES ASSUME AccountsInv, [ServerNext]_serverVars PROVE AccountsInv'
  OBVIOUS
<1>1. CASE UNCHANGED accountVars
  BY <1>1 DEF accountVars, AccountsInv, AccountsTypeOK, Rows
<1>2. ASSUME NEW h \in Handlers,
             ServeHTTP(h) \/ Connect(h) \/ ConnectFails(h) \/ Execute(h) \/ Respond(h)
      PROVE  AccountsInv'
  <2>0. h \in Requests
    BY ServerAssumption
  <2>1. CASE ServeHTTP(h)
    <3>1. ASSUME NEW email \in TypedAddress, NEW password \in TypedPassword,
                 NEW role \in SentRoles, Register(h, email, password, role)
          PROVE  AccountsInv'
      BY <2>0, <3>1, StartKeepsAccountsInv
    <3>2. ASSUME NEW email \in TypedAddress, NEW password \in TypedPassword,
                 Login(h, email, password)
          PROVE  AccountsInv'
      <4>1. "admin" \in SentRoles
        BY DEF SentRoles, Roles
      <4> QED
        BY <2>0, <3>2, <4>1, StartKeepsAccountsInv
    <3>3. ASSUME NEW role \in SentRoles, DummyLogin(h, role) PROVE AccountsInv'
      BY <2>0, <3>3, DummyLoginKeepsAccountsInv
    <3> QED
      BY <1>1, <2>1, <3>1, <3>2, <3>3 DEF ServeHTTP
  <2>2. CASE Connect(h)
    BY <1>1, <2>2 DEF Connect
  <2>3. CASE ConnectFails(h)
    BY <2>0, <2>3, LookupKeepsAccountsInv DEF ConnectFails
  <2>4. CASE Execute(h)
    BY <1>1, <2>0, <2>4, LookupKeepsAccountsInv, CreateKeepsAccountsInv DEF Execute
  <2>5. CASE Respond(h)
    BY <1>1, <2>0, <2>5, AnswerKeepsAccountsInv DEF Respond
  <2> QED
    BY <1>2, <2>1, <2>2, <2>3, <2>4, <2>5
<1>3. CASE Elsewhere /\ UNCHANGED accountVars
  BY <1>1, <1>3
<1>4. CASE Abandon
  BY <1>4, AbandonKeepsAccountsInv
<1> QED
  BY <1>1, <1>2, <1>3, <1>4 DEF ServerNext, serverVars

\* OneAccountPerAddress holds in every reachable state, whatever requests race for
\* the INSERT of Register, fail, or end with the process.
THEOREM NoDoubleAccount == ServerSpec => []OneAccountPerAddress
<1>1. ServerInit => AccountsInv
  BY AccountsInvInit DEF ServerInit
<1>2. AccountsInv => OneAccountPerAddress
  BY DEF AccountsInv, Rows, PlainAddress, OneAccountPerAddress
<1> QED
  BY <1>1, <1>2, AccountsInvStep, PTL DEF ServerSpec

\* AnswersAreTrue holds in every reachable state: no interleaving of registrations
\* and logins, failure or restart makes Register or Login say what is not so.
THEOREM AnswersStayTrue == ServerSpec => []AnswersAreTrue
<1>1. ServerInit => AccountsInv
  BY AccountsInvInit DEF ServerInit
<1>2. AccountsInv => AnswersAreTrue
  BY DEF AccountsInv, Truth, AnswersAreTrue
<1> QED
  BY <1>1, <1>2, AccountsInvStep, PTL DEF ServerSpec

\* The tables, the locals and the state of main() keep their types.
THEOREM ServerTypeCorrect == ServerSpec => []ServerTypeOK
<1>1. ServerInit => ProcessInv /\ AccountsInv
  BY ProcessInvInit, AccountsInvInit DEF ServerInit
<1>2. ProcessInv /\ [ServerNext]_serverVars => ProcessInv'
  BY ServerStepsAreProcessSteps, ProcessInvStep DEF serverVars
<1>3. ProcessInv /\ AccountsInv => ServerTypeOK
  BY DEF ProcessInv, AccountsInv, ServerTypeOK
<1> QED
  BY <1>1, <1>2, <1>3, AccountsInvStep, PTL DEF ServerSpec

\* A request at its look-up gets its answer from its own statement only.
LEMMA LookupEnds ==
  ASSUME AccountsInv, [ServerNext]_serverVars, NEW r \in Requests, req[r].at = "lookup",
         req[r].op = "login", req'[r].result = "unauthorized"
  PROVE  CheckPassword(r)
<1>1. req[r].result = None /\ None # "unauthorized" /\ req \in [Requests -> Locals]
  BY AccountsAssumption DEF AccountsInv, AccountsTypeOK, Prepared
<1>2. req'[r] # req[r]
  BY <1>1
<1>3. PICK h \in Handlers :
        ServeHTTP(h) \/ ConnectFails(h) \/ Execute(h) \/ Respond(h)
  BY <1>1, <1>2 DEF ServerNext, serverVars, accountVars, Connect, Abandon, Free
<1>4. PICK q : req' = [req EXCEPT ![h] = q]
  BY <1>1, <1>2, <1>3
  DEF ServeHTTP, ConnectFails, Execute, Respond, Register, Login, DummyLogin, Started,
      CheckExisting, CheckPassword, Create, StatementFails, StatementNotSent, Refused, Answer,
      accountVars
<1>5. h = r
  BY <1>1, <1>2, <1>4
<1>6. ConnectFails(r) \/ Execute(r)
  <2>1. ~(UNCHANGED accountVars)
    BY <1>2 DEF accountVars
  <2>2. ~ServeHTTP(r)
    <3>1. req[r].at # "free"
      OBVIOUS
    <3> QED
      BY <3>1, <2>1 DEF ServeHTTP, Register, Login, DummyLogin
  <2>3. ~Respond(r)
    <3>1. req[r].at # "answer"
      OBVIOUS
    <3> QED
      BY <3>1, <2>1 DEF Respond, Answer
  <2> QED
    BY <1>3, <1>5, <2>2, <2>3
<1>7. ~Refused(r, "internal")
  <2> SUFFICES ASSUME Refused(r, "internal")
               PROVE  FALSE
    OBVIOUS
  <2>1. req'[r] = [Free EXCEPT !.at = "answer", !.op = req[r].op, !.result = "internal",
                               !.email = IF "internal" = "exists" THEN req[r].email ELSE None]
    BY <1>1 DEF Refused
  <2>2. req'[r].result = "internal"
    BY <2>1 DEF Free
  <2> QED
    BY <2>2
<1> QED
  BY <1>2, <1>6, <1>7
  DEF ConnectFails, Execute, CheckExisting, Create, StatementFails, StatementNotSent, accountVars

\* LoginRefusedRightly: CheckPassword looks for the normalised address only, and
\* finds whatever account the mailbox has, because every row is normalised.
THEOREM LoginsRefusedRightly == ServerSpec => LoginRefusedRightly
<1>1. ServerInit => AccountsInv
  BY AccountsInvInit DEF ServerInit
<1>2. ASSUME AccountsInv, [ServerNext]_serverVars, NEW r \in Requests, req[r].at = "lookup",
             req[r].op = "login", req'[r].result = "unauthorized",
             NEW u \in users, u.email.box = req[r].email.box
      PROVE  ~Compare(u.hash, req[r].password)
  <2>1. CheckPassword(r) /\ req[r] \in Locals
    BY <1>2, LookupEnds DEF AccountsInv, AccountsTypeOK
  <2>2. req[r].email \in PlainAddress /\ u.email \in PlainAddress
    BY <1>2 DEF AccountsInv, Prepared, Rows
  <2>3. u \in GetByEmail(req[r].email)
    BY <1>2, <2>2 DEF PlainAddress, GetByEmail
  <2>4. ASSUME NEW v, req' = [req EXCEPT ![r].at = "answer", ![r].result = "token",
                                         ![r].role = v.role]
        PROVE  FALSE
    BY <1>2, <2>4 DEF AccountsInv, AccountsTypeOK, Locals
  <2> QED
    BY <2>1, <2>3, <2>4 DEF CheckPassword
<1>3. AccountsInv /\ [ServerNext]_serverVars =>
        [\A r \in Requests :
            req[r].at = "lookup" /\ req[r].op = "login"
                /\ req'[r].result = "unauthorized" =>
              \A u \in users : u.email.box = req[r].email.box =>
                  ~Compare(u.hash, req[r].password)]_accountVars
  BY <1>2
<1> QED
  BY <1>1, <1>3, AccountsInvStep, PTL DEF ServerSpec, LoginRefusedRightly
=============================================================================

------------------------------- MODULE Server -------------------------------
(***************************************************************************)
(* The process with the requests of the accounts in it: a handler of       *)
(* Process serves a request of Accounts, or one of another use case.       *)
(* A statement needs a connection of the pool; the answer ends the request;*)
(* the end of the process ends every request wherever it is.               *)
(***************************************************************************)
EXTENDS Process, Accounts

ASSUME ServerAssumption == Requests = Handlers

serverVars == <<vars, accountVars>>

\* What a caller may send as a role.
SentRoles == Roles \union {None}

\* The routes without authentication, or any other one.
ServeHTTP(h) ==
    /\ Accept(h)
    /\ \/ \E email \in TypedAddress, password \in TypedPassword :
             \/ \E role \in SentRoles : Register(h, email, password, role)
             \/ Login(h, email, password)
       \/ \E role \in SentRoles : DummyLogin(h, role)
       \/ UNCHANGED accountVars

\* A request of Accounts has left the database when it has its answer.
Connect(h) ==
    /\ Acquire(h)
    /\ req[h].at # "answer"
    /\ UNCHANGED accountVars

\* The pool is closed, or the caller has gone and its context is cancelled.
ConnectFails(h) ==
    /\ work[h] = "running"
    /\ StatementNotSent(h)
    /\ UNCHANGED vars

Execute(h) ==
    /\ Release(h)
    /\ \/ /\ work'[h] = "running"
          /\ CheckExisting(h) \/ CheckPassword(h) \/ Create(h) \/ StatementFails(h)
       \/ req[h].at = "free" /\ UNCHANGED accountVars

Respond(h) ==
    /\ Finish(h)
    /\ Answer(h) \/ (req[h].at = "free" /\ UNCHANGED accountVars)

\* The goroutines that have no request.
Elsewhere ==
    \/ Load \/ NewPool \/ RunMigrations \/ Migrated \/ Start \/ Select \/ Deadline
    \/ Shutdown \/ AwaitBackground \/ CloseRedis \/ ClosePool
    \/ ListenAndServe \/ ServerFails \/ Signal \/ Restart
    \/ \E h \in Handlers : Publish(h)
    \/ \E b \in Background : \/ TickerFires(b) \/ BackgroundEnds(b)
                             \/ Acquire(b) \/ Release(b) \/ Publish(b) \/ Finish(b)

ServerInit == Init /\ AccountsInit

ServerNext ==
    \/ \E h \in Handlers :
          ServeHTTP(h) \/ Connect(h) \/ ConnectFails(h) \/ Execute(h) \/ Respond(h)
    \/ Elsewhere /\ UNCHANGED accountVars
    \/ (Exit \/ Kill) /\ Abandon

\* The fairness of the process is that of Process: no request has to end for it.
ServerSpec == ServerInit /\ [][ServerNext]_serverVars /\ Fairness

-----------------------------------------------------------------------------
\* The types of both.
ServerTypeOK == TypeOK /\ AccountsTypeOK
=============================================================================

------------------------------- MODULE Process -------------------------------
(***************************************************************************)
(* The life of one application process: main() from the configuration to   *)
(* its deferred calls, the goroutine of the HTTP server, the goroutines    *)
(* that serve requests and the background ones.  The process may be killed *)
(* at any moment and is started again; only the schema of the database     *)
(* outlives it.                                                            *)
(*                                                                         *)
(* What a goroutine does is abstracted to what the shutdown has to respect:*)
(* it holds a database connection ("statement"), or it has committed and   *)
(* owes the publication of its events ("events").  Redis may be out of     *)
(* reach at any time without any effect on this module.  A websocket is no *)
(* request any more once it is open: Shutdown does not wait for it.        *)
(***************************************************************************)
EXTENDS Naturals

CONSTANTS
    Handlers,        \* goroutines that serve a request
    Background,      \* goroutines of backgroundWG
    Latest           \* the number of migrations

ASSUME ProcessAssumption == Latest \in Nat /\ Handlers \intersect Background = {}

Goroutines == Handlers \union Background

VARIABLES
    main,            \* the statement main() is about to execute
    ctxDone,         \* ctx is cancelled: by a signal or by stop()
    server,          \* the goroutine of ListenAndServe
    work,            \* per goroutine: what it is doing
    pool, redis,     \* dbPool and redisClient
    timedOut,        \* shutdownCtx has expired
    schema           \* of the database: version of the last migration, and dirty

vars == <<main, ctxDone, server, work, pool, redis, timedOut, schema>>

\* What belongs to main() alone.
own == <<main, ctxDone, server, pool, redis, timedOut, schema>>

MainStages == {"config", "pool", "migrate", "migrating", "start", "select", "shutdown",
               "await", "closeRedis", "closePool", "poolClosing", "exited"}
ServerStages == {"off", "starting", "listening", "failed", "closed"}
WorkStages == {"off", "idle", "running", "statement", "events", "ended"}

AllOff == [g \in Goroutines |-> "off"]

MainGoto(from, to) == main = from /\ main' = to
WorkGoto(g, from, to) == work[g] = from /\ work' = [work EXCEPT ![g] = to]

-----------------------------------------------------------------------------
(* Start.  Whatever fails makes main return through the calls deferred so  *)
(* far.  The context is that of the signals: a signal makes NewPool fail.  *)

Load ==
    /\ MainGoto("config", "pool") \/ MainGoto("config", "exited")
    /\ UNCHANGED <<ctxDone, server, work, pool, redis, timedOut, schema>>

NewPool ==
    /\ \/ MainGoto("pool", "migrate") /\ ~ctxDone /\ pool' = "open"
       \/ MainGoto("pool", "exited") /\ UNCHANGED pool
    /\ UNCHANGED <<ctxDone, server, work, redis, timedOut, schema>>

\* Fault: every error of Up is passed over like ErrNoChange.
RunMigrationsFault ==
    /\ main = "migrate"
    /\ \/ /\ schema.dirty \/ schema.version = Latest
          /\ main' = "start"
          /\ UNCHANGED schema
       \/ /\ ~schema.dirty /\ schema.version < Latest
          /\ main' = "migrating"
          /\ schema' = [version |-> schema.version + 1, dirty |-> TRUE]
       \/ /\ main' = "closePool"
          /\ UNCHANGED schema
    /\ UNCHANGED <<ctxDone, server, work, pool, redis, timedOut>>

\* m.Up (with RUN_MIGRATIONS, as in docker-compose.yml): a dirty version is an error, no change is not.  Before it executes a
\* migration the library records its version as dirty.
RunMigrations ==
    /\ main = "migrate"
    /\ \/ /\ ~schema.dirty /\ schema.version = Latest
          /\ main' = "start"
          /\ UNCHANGED schema
       \/ /\ ~schema.dirty /\ schema.version < Latest
          /\ main' = "migrating"
          /\ schema' = [version |-> schema.version + 1, dirty |-> TRUE]
       \/ /\ main' = "closePool"
          /\ UNCHANGED schema
    /\ UNCHANGED <<ctxDone, server, work, pool, redis, timedOut>>

\* The SQL of the migration succeeds, or fails and leaves the version dirty.
Migrated ==
    /\ \/ MainGoto("migrating", "migrate") /\ schema' = [schema EXCEPT !.dirty = FALSE]
       \/ MainGoto("migrating", "closePool") /\ UNCHANGED schema
    /\ UNCHANGED <<ctxDone, server, work, pool, redis, timedOut>>

\* The client of Redis (a failing ping is only logged), the background goroutines
\* and the goroutine of the server.
Start ==
    /\ MainGoto("start", "select")
    /\ redis' = "open"
    /\ work' = [g \in Goroutines |-> "idle"]
    /\ server' = "starting"
    /\ UNCHANGED <<ctxDone, pool, timedOut, schema>>

\* A server that is already shut down does not listen any more.
ListenAndServe ==
    /\ server = "starting"
    /\ server' \in (IF main = "select" THEN {"listening", "failed"} ELSE {"closed"})
    /\ UNCHANGED <<main, ctxDone, work, pool, redis, timedOut, schema>>

ServerFails ==
    /\ server = "listening"
    /\ main = "select"
    /\ server' = "failed"
    /\ UNCHANGED <<main, ctxDone, work, pool, redis, timedOut, schema>>

\* Until NotifyContext is called a signal kills the process.
Signal ==
    /\ main \notin {"config", "exited"}
    /\ ctxDone' = TRUE
    /\ UNCHANGED <<main, server, work, pool, redis, timedOut, schema>>

-----------------------------------------------------------------------------
(* Requests and background work. *)

Accept(h) ==
    /\ h \in Handlers
    /\ server = "listening"
    /\ WorkGoto(h, "idle", "running")
    /\ UNCHANGED own

\* The ticker may win against ctx.Done when both are ready.
TickerFires(b) ==
    /\ b \in Background
    /\ WorkGoto(b, "idle", "running")
    /\ UNCHANGED own

\* With a context that is cancelled the pool gives no connection.
Acquire(g) ==
    /\ pool = "open"
    /\ g \in Background => ~ctxDone
    /\ WorkGoto(g, "running", "statement")
    /\ UNCHANGED own

\* The statement, or the transaction, is over; after a COMMIT there may be events.
Release(g) ==
    /\ WorkGoto(g, "statement", "running") \/ WorkGoto(g, "statement", "events")
    /\ UNCHANGED own

\* On a client that is closed the publication is logged and lost.
Publish(g) == WorkGoto(g, "events", "running") /\ UNCHANGED own

\* The request is answered, the tick is over.
Finish(g) == WorkGoto(g, "running", "idle") /\ UNCHANGED own

BackgroundEnds(b) ==
    /\ b \in Background
    /\ ctxDone
    /\ WorkGoto(b, "idle", "ended")
    /\ UNCHANGED own

-----------------------------------------------------------------------------
(* Shutdown. *)

\* Fault: only the signal is waited for.
SelectFault ==
    /\ MainGoto("select", "shutdown")
    /\ ctxDone
    /\ server' = IF server = "starting" THEN server ELSE "closed"
    /\ UNCHANGED <<ctxDone, work, pool, redis, timedOut, schema>>

\* ctx.Done, or errCh, after which stop() cancels ctx; then Shutdown closes the
\* listener.
Select ==
    /\ MainGoto("select", "shutdown")
    /\ ctxDone \/ server = "failed"
    /\ ctxDone' = TRUE
    /\ server' = IF server = "starting" THEN server ELSE "closed"
    /\ UNCHANGED <<work, pool, redis, timedOut, schema>>

\* Ten seconds for Shutdown and for the background goroutines together.
Deadline ==
    /\ main \in {"shutdown", "await"}
    /\ ~timedOut
    /\ timedOut' = TRUE
    /\ UNCHANGED <<main, ctxDone, server, work, pool, redis, schema>>

\* Fault: server.Close instead of server.Shutdown.
ShutdownFault ==
    /\ MainGoto("shutdown", "await")
    /\ UNCHANGED <<ctxDone, server, work, pool, redis, timedOut, schema>>

\* Shutdown returns when every request is answered, or with an error in the end.
Shutdown ==
    /\ MainGoto("shutdown", "await")
    /\ timedOut \/ \A h \in Handlers : work[h] = "idle"
    /\ UNCHANGED <<ctxDone, server, work, pool, redis, timedOut, schema>>

AwaitBackground ==
    /\ MainGoto("await", "closeRedis")
    /\ timedOut \/ \A b \in Background : work[b] = "ended"
    /\ UNCHANGED <<ctxDone, server, work, pool, redis, timedOut, schema>>

\* The deferred calls, last one first.
CloseRedis ==
    /\ MainGoto("closeRedis", "closePool")
    /\ redis' = "closed"
    /\ UNCHANGED <<ctxDone, server, work, pool, timedOut, schema>>

\* Close refuses new connections at once and waits for those in use, for ever.
ClosePool ==
    /\ MainGoto("closePool", "poolClosing")
    /\ pool' = "closed"
    /\ UNCHANGED <<ctxDone, server, work, redis, timedOut, schema>>

\* main returns, and with it ends everything.
Exit ==
    /\ MainGoto("poolClosing", "exited")
    /\ \A g \in Goroutines : work[g] # "statement"
    /\ work' = AllOff
    /\ server' = "off"
    /\ UNCHANGED <<ctxDone, pool, redis, timedOut, schema>>

Kill ==
    /\ main # "exited"
    /\ main' = "exited"
    /\ work' = AllOff
    /\ server' = "off"
    /\ UNCHANGED <<ctxDone, pool, redis, timedOut, schema>>

\* A new process; the last one has left nothing but the schema.
Restart ==
    /\ MainGoto("exited", "config")
    /\ ctxDone' = FALSE
    /\ pool' = "none"
    /\ redis' = "none"
    /\ timedOut' = FALSE
    /\ UNCHANGED <<server, work, schema>>

-----------------------------------------------------------------------------
Init ==
    /\ main = "config"
    /\ ctxDone = FALSE
    /\ server = "off"
    /\ work = AllOff
    /\ pool = "none" /\ redis = "none"
    /\ timedOut = FALSE
    /\ schema = [version |-> 0, dirty |-> FALSE]

\* What main() does, and what it waits for.
MainStep ==
    \/ Load \/ NewPool \/ RunMigrations \/ Migrated \/ Start \/ Select \/ Deadline
    \/ Shutdown \/ AwaitBackground \/ CloseRedis \/ ClosePool \/ Exit

Next ==
    \/ MainStep \/ ListenAndServe \/ ServerFails \/ Signal \/ Kill \/ Restart
    \/ \E h \in Handlers : Accept(h)
    \/ \E b \in Background : TickerFires(b) \/ BackgroundEnds(b)
    \/ \E g \in Goroutines : Acquire(g) \/ Release(g) \/ Publish(g) \/ Finish(g)

Spec == Init /\ [][Next]_vars

\* The Go scheduler runs what can run, and no statement takes for ever: dbPool.Close
\* has no deadline of its own.
Fairness == WF_vars(MainStep) /\ \A g \in Goroutines : WF_vars(Release(g))

FairSpec == Spec /\ Fairness

-----------------------------------------------------------------------------
TypeOK ==
    /\ main \in MainStages
    /\ ctxDone \in BOOLEAN
    /\ server \in ServerStages
    /\ work \in [Goroutines -> WorkStages]
    /\ pool \in {"none", "open", "closed"}
    /\ redis \in {"none", "open", "closed"}
    /\ timedOut \in BOOLEAN
    /\ schema \in [version : 0..Latest, dirty : BOOLEAN]

\* No goroutine works on a schema that a migration has left half-way, although a
\* process may be killed inside of a migration and another one started.
SchemaBeforeUse ==
    \A g \in Goroutines :
        work[g] \in {"running", "statement", "events"} =>
            schema = [version |-> Latest, dirty |-> FALSE]

\* When main() closes the clients of Redis and PostgreSQL, every accepted request
\* has been answered and every background goroutine is over, its events
\* published, unless the ten seconds had passed.
NothingInterrupted ==
    redis = "closed" /\ main # "exited" /\ ~timedOut =>
        /\ \A h \in Handlers : work[h] = "idle"
        /\ \A b \in Background : work[b] = "ended"

\* A signal, or a server that cannot listen, ends the process, even when
\* requests take longer than ten seconds.
ProcessEnds == ctxDone \/ server = "failed" ~> main = "exited"
=============================================================================

-------------------------------- MODULE Server --------------------------------
(***************************************************************************)
(* The process: it starts, serves, is told to stop, drains its handlers    *)
(* and closes the pool (api/run.go, api/server.go), while the handlers     *)
(* take connections from the pool (store/db.go), run into their time limit *)
(* (api/routes.go) and answer what became of their work (store/errors.go,  *)
(* api/errors.go).                                                         *)
(*                                                                         *)
(* What the statements of a handler do is in the other modules.  Here a    *)
(* handler is the connections it takes, one after the other: for a query,  *)
(* or for a write, one statement or a transaction, that commits at its     *)
(* end.  No handler takes a second connection while it has one.            *)
(***************************************************************************)
EXTENDS Naturals, Sequences, FiniteSets

CONSTANTS
    Requests,           \* requests that can be in progress at a time
    MaxConns,           \* size of the pool
    HandlerTimeout,     \* time limits, in ticks
    ShutdownTimeout

\* handlerTimeout is 30 s and shutdownTimeout 15 s; a tick is not longer than
\* the 5 s by which writeTimeout exceeds handlerTimeout.
ASSUME ServerAssumption ==
    /\ MaxConns \in Nat \ {0}
    /\ HandlerTimeout \in Nat /\ ShutdownTimeout \in Nat
    /\ 0 < ShutdownTimeout /\ ShutdownTimeout < HandlerTimeout

VARIABLES
    proc,       \* what the process is doing
    reason,     \* what serve returned, or that somebody killed the process
    draining,   \* for how long it has been waiting for its handlers
    req         \* the handlers

vars == <<proc, reason, draining, req>>

(***************************************************************************)
(* A handler: the connections it has yet `to take', whether it `has' one,  *)
(* for how long it runs, whether its write is `committed' in the database, *)
(* and the `status' it answers with (0: none yet).                         *)
(***************************************************************************)
Phases   == {"none", "ready", "waiting", "running", "answered"}
Statuses == {0, 200, 400, 401, 403, 404, 409, 422, 500}

\* The routes, with their reads in a row cut down to two before a read and one
\* before a write: a list or a lookup; a read behind the chain of requireAuth
\* and its like; a write of somebody who is not signed in, or a logout; a write
\* behind the chain; one that the game is read back after.
Handlers ==
    {<<"read">>, <<"read", "read">>, <<"write">>,
     <<"read", "write">>, <<"read", "write", "read">>}

NoRequest == [phase |-> "none", todo |-> <<>>, has |-> FALSE, age |-> 0,
              writes |-> FALSE, committed |-> FALSE, status |-> 0]

Becomes(r, record) == req' = [req EXCEPT ![r] = record]

Unfinished(r) == req[r].phase \in {"ready", "waiting", "running"}
Writing(r)    == req[r].phase = "running" /\ Head(req[r].todo) = "write"
InUse         == {r \in Requests : req[r].has}

\* pool.Close has been called.
PoolClosed == proc \in {"closing", "exited"}
Alive      == proc \in {"serving", "draining", "closing"}

(***************************************************************************)
(* What an error of a statement is answered with.                          *)
(***************************************************************************)
\* What PostgreSQL or the driver can say: no row, a violation by its class, or
\* something else - a deadlock, a cancelled statement, a closed pool.
Errors == {"no_rows", "unique", "foreign_key", "check", "other"}

\* Mutant: what is not recognised is the client's fault.
ClassifyUnknownInvalid(error) ==
    [no_rows |-> "not_found", unique |-> "conflict", foreign_key |-> "invalid",
     check |-> "invalid", other |-> "invalid"][error]

\* classify: the error a handler sees.
Classify(error) ==
    [no_rows |-> "not_found", unique |-> "conflict", foreign_key |-> "invalid",
     check |-> "invalid", other |-> "unhandled"][error]

\* classifyInUse: a row others refer to.
ClassifyInUse(error) == IF error = "foreign_key" THEN "in_use" ELSE Classify(error)

\* storeErrorResponse, and writeUnauthorized in the chain before a handler.
\* An id the body names and the store does not know is `invalid' too; one a
\* filter names is `malformed', like a body or a parameter that does not parse.
StatusOf(sentinel) ==
    [not_found |-> {401, 404}, in_use |-> {409}, conflict |-> {409},
     forbidden |-> {403}, malformed |-> {400}, invalid |-> {422},
     unhandled |-> {500}][sentinel]

Answered(r, status, committed) ==
    [phase |-> "answered", todo |-> <<>>, has |-> FALSE, age |-> 0,
     writes |-> req[r].writes, committed |-> committed, status |-> status]

Going(r, phase, todo, has, committed) ==
    [phase |-> phase, todo |-> todo, has |-> has, age |-> req[r].age,
     writes |-> req[r].writes, committed |-> committed, status |-> req[r].status]

Init ==
    /\ proc = "starting"
    /\ reason = "none"
    /\ draining = 0
    /\ req = [r \in Requests |-> NoRequest]

(***************************************************************************)
(* The life of the process.                                                *)
(***************************************************************************)
\* Run: the pool, a ping, the migrations, each under a time limit, and then
\* the listener; what fails closes the pool, which nobody else uses yet.
StartUp ==
    /\ proc = "starting"
    /\ \/ proc' = "serving" /\ UNCHANGED reason
       \/ proc' = "closing" /\ reason' = "failed"
    /\ UNCHANGED <<draining, req>>

\* ListenAndServe returns: serve does not wait for the handlers.
ListenFails ==
    /\ proc = "serving"
    /\ proc' = "closing"
    /\ reason' = "failed"
    /\ UNCHANGED <<draining, req>>

\* SIGINT or SIGTERM: no more requests are accepted.
Signal ==
    /\ proc = "serving"
    /\ proc' = "draining"
    /\ draining' = 0
    /\ UNCHANGED <<reason, req>>

\* Mutant: nobody who runs a statement is reason enough to stop.
ShutdownOnceQuiet ==
    /\ proc = "draining"
    /\ InUse = {}
    /\ proc' = "closing"
    /\ reason' = "graceful"
    /\ UNCHANGED <<draining, req>>

\* srv.Shutdown: every connection has become idle.
Shutdown ==
    /\ proc = "draining"
    /\ \A r \in Requests : req[r].phase = "none"
    /\ proc' = "closing"
    /\ reason' = "graceful"
    /\ UNCHANGED <<draining, req>>

\* Its time is up before that.
ShutdownTimesOut ==
    /\ proc = "draining"
    /\ draining = ShutdownTimeout
    /\ proc' = "closing"
    /\ reason' = "timeout"
    /\ UNCHANGED <<draining, req>>

\* The deferred pool.Close waits for the connections in use, and the handlers
\* that have them go on meanwhile; then main returns, and whoever is left goes
\* with the process.
Exit ==
    /\ proc = "closing"
    /\ InUse = {}
    /\ proc' = "exited"
    /\ UNCHANGED <<reason, draining, req>>

\* A second signal, whose handling is the default again, or a crash: the
\* database rolls back what is open.
Kill ==
    /\ proc \notin {"starting", "exited"}
    /\ proc' = "exited"
    /\ reason' = "killed"
    /\ UNCHANGED <<draining, req>>

Restart ==
    /\ proc = "exited"
    /\ proc' = "starting"
    /\ reason' = "none"
    /\ draining' = 0
    /\ req' = [r \in Requests |-> NoRequest]

(***************************************************************************)
(* Handlers.                                                               *)
(***************************************************************************)
Accept(r, handler) ==
    /\ proc = "serving"
    /\ req[r].phase = "none"
    /\ Becomes(r, [phase |-> "ready", todo |-> handler, has |-> FALSE, age |-> 0,
                   writes |-> \E i \in DOMAIN handler : handler[i] = "write",
                   committed |-> FALSE, status |-> 0])
    /\ UNCHANGED <<proc, reason, draining>>

\* pool.Query, pool.Begin and the like.
Ask(r) ==
    /\ Alive
    /\ req[r].phase = "ready"
    /\ req[r].todo # <<>>
    /\ IF PoolClosed
       THEN Becomes(r, Answered(r, 500, req[r].committed))
       ELSE Becomes(r, Going(r, "waiting", req[r].todo, FALSE, req[r].committed))
    /\ UNCHANGED <<proc, reason, draining>>

Grant(r) ==
    /\ Alive
    /\ req[r].phase = "waiting"
    /\ IF PoolClosed
       THEN Becomes(r, Answered(r, 500, req[r].committed))
       ELSE /\ Cardinality(InUse) < MaxConns
            /\ Becomes(r, Going(r, "running", req[r].todo, TRUE, req[r].committed))
    /\ UNCHANGED <<proc, reason, draining>>

\* Mutant: rows that are not closed.
ReadLeaking(r) ==
    /\ Alive
    /\ req[r].phase = "running"
    /\ Head(req[r].todo) = "read"
    /\ Becomes(r, Going(r, "ready", Tail(req[r].todo), TRUE, req[r].committed))
    /\ UNCHANGED <<proc, reason, draining>>

\* A query has its rows, and the connection goes back.
Read(r) ==
    /\ Alive
    /\ req[r].phase = "running"
    /\ Head(req[r].todo) = "read"
    /\ Becomes(r, Going(r, "ready", Tail(req[r].todo), FALSE, req[r].committed))
    /\ UNCHANGED <<proc, reason, draining>>

\* Mutant: the game is read back on the pool before the transaction ends.
CommitAfterReadBack(r) ==
    /\ Alive
    /\ Writing(r)
    /\ \/ /\ Len(req[r].todo) = 1
          /\ Becomes(r, Going(r, "ready", Tail(req[r].todo), FALSE, TRUE))
       \/ /\ Len(req[r].todo) > 1
          /\ Becomes(r, Going(r, "waiting", Tail(req[r].todo), TRUE, FALSE))
    /\ UNCHANGED <<proc, reason, draining>>

\* The write is committed, and the connection goes back before anything else.
Commit(r) ==
    /\ Alive
    /\ Writing(r)
    /\ Becomes(r, Going(r, "ready", Tail(req[r].todo), FALSE, TRUE))
    /\ UNCHANGED <<proc, reason, draining>>

\* A statement fails, and what it wrote is rolled back.  A game that was just
\* written is there to be read back, and its caller is one of its authors: no
\* route deletes games or changes who their authors are.
Refuse(r, error) ==
    /\ Alive
    /\ req[r].phase = "running"
    /\ req[r].committed => error = "other"
    /\ \E sentinel \in {Classify(error), ClassifyInUse(error)} :
        \E status \in StatusOf(sentinel) :
            Becomes(r, Answered(r, status, req[r].committed))
    /\ UNCHANGED <<proc, reason, draining>>

\* Refused for what a query found: AuthorizeGameWrite, requireAdmin, a body.
Forbid(r) ==
    /\ Alive
    /\ req[r].phase = "ready"
    /\ ~req[r].committed
    /\ \E sentinel \in {"forbidden", "malformed", "invalid"} :
        \E status \in StatusOf(sentinel) : Becomes(r, Answered(r, status, FALSE))
    /\ UNCHANGED <<proc, reason, draining>>

\* Mutant: only the client's going away cancels anything, and a handler that
\* is past its time just goes on.
CancelIgnored(r) ==
    /\ Unfinished(r)
    /\ UNCHANGED vars

\* The context is cancelled: its time is up, or the client is gone.  A COMMIT
\* that was under way may have happened.
Cancel(r) ==
    /\ Alive
    /\ Unfinished(r)
    /\ \E committed \in {req[r].committed, req[r].committed \/ Writing(r)} :
        Becomes(r, Answered(r, 500, committed))
    /\ UNCHANGED <<proc, reason, draining>>

Succeed(r) ==
    /\ Alive
    /\ req[r].phase = "ready"
    /\ req[r].todo = <<>>
    /\ Becomes(r, Answered(r, 200, req[r].committed))
    /\ UNCHANGED <<proc, reason, draining>>

\* The answer is on its way, or the connection is given up.
Deliver(r) ==
    /\ Alive
    /\ req[r].phase = "answered"
    /\ Becomes(r, NoRequest)
    /\ UNCHANGED <<proc, reason, draining>>

\* Time passes, but not past a limit: whoever reaches one is told at once.
Tick ==
    /\ Alive
    /\ \A r \in Requests : Unfinished(r) => req[r].age < HandlerTimeout
    /\ proc = "draining" => draining < ShutdownTimeout
    /\ req' = [r \in Requests |->
                 IF Unfinished(r) THEN [req[r] EXCEPT !.age = @ + 1] ELSE req[r]]
    /\ draining' = IF proc = "draining" THEN draining + 1 ELSE draining
    /\ UNCHANGED <<proc, reason>>

Handle(r) ==
    \/ \E handler \in Handlers : Accept(r, handler)
    \/ Ask(r) \/ Grant(r) \/ Read(r) \/ Commit(r)
    \/ \E error \in Errors : Refuse(r, error)
    \/ Forbid(r) \/ Cancel(r) \/ Succeed(r) \/ Deliver(r)

Next ==
    \/ StartUp \/ ListenFails \/ Signal \/ Shutdown \/ ShutdownTimesOut
    \/ Exit \/ Kill \/ Restart \/ Tick
    \/ \E r \in Requests : Handle(r)

Spec == Init /\ [][Next]_vars

\* The clock goes on, limits are kept, and the process does what is left to
\* do.  Nothing is assumed of statements, clients or whoever restarts it.
Fairness ==
    /\ WF_vars(Tick)
    /\ WF_vars(ShutdownTimesOut)
    /\ WF_vars(Exit)
    /\ \A r \in Requests : WF_vars(req[r].age = HandlerTimeout /\ Cancel(r))

FairSpec == Spec /\ Fairness

(***************************************************************************)
(* What the process promises.                                              *)
(***************************************************************************)
\* Every variable has its type.
TypeOK ==
    /\ proc \in {"starting", "serving", "draining", "closing", "exited"}
    /\ reason \in {"none", "graceful", "timeout", "failed", "killed"}
    /\ draining \in 0..ShutdownTimeout
    /\ \A r \in Requests :
        /\ req[r].phase \in Phases
        /\ req[r].age \in 0..HandlerTimeout
        /\ req[r].status \in Statuses
        /\ req[r].has \in BOOLEAN /\ req[r].committed \in BOOLEAN
        /\ req[r].has => req[r].phase \in {"waiting", "running"}
    /\ Cardinality(InUse) <= MaxConns

\* What a client is told is so: success means that its write is committed, and
\* a refusal that nothing is, while nobody deletes a game by hand between its
\* write and its read-back.  A 500 says neither, and cannot.
AnswersTellTheTruth ==
    \A r \in Requests : req[r].phase = "answered" =>
        /\ req[r].status = 200 => req[r].committed = req[r].writes
        /\ req[r].status \in 400..499 => ~req[r].committed

\* Whoever waits for a connection waits for somebody who does not: handlers
\* never starve each other, however small the pool.
PoolGoesOn ==
    proc \in {"serving", "draining"} /\ (\E r \in Requests : req[r].phase = "waiting") =>
        \/ Cardinality(InUse) < MaxConns
        \/ \E r \in InUse : req[r].phase # "waiting"

\* A process that stopped by itself left nothing open in the database, and
\* one that stopped gracefully owes nobody an answer.
StopsAreClean ==
    proc = "exited" =>
        /\ reason # "killed" => InUse = {}
        /\ reason = "graceful" => \A r \in Requests : req[r].phase = "none"

\* A process that is told to stop does, though statements may hang: the pool
\* is waited for without a limit, but its handlers have one.
SignalsEndIt == proc = "draining" ~> proc = "exited"
===============================================================================

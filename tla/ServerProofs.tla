---------------------------- MODULE ServerProofs ----------------------------
(***************************************************************************)
(* Proofs about Server, for any number of requests, any pool and any time  *)
(* limits.  The argument: a handler has a connection exactly while a       *)
(* statement of its runs, and owes its write exactly while it has not      *)
(* committed it; so whoever waits waits for a statement, and what is       *)
(* answered is what happened.                                              *)
(***************************************************************************)
EXTENDS Server, FiniteSetTheorems, TLAPS

USE ServerAssumption

\* What a handler can have left to do.
Todos == {<<>>, <<"read">>, <<"write">>, <<"read", "read">>, <<"read", "write">>,
          <<"write", "read">>, <<"read", "write", "read">>}

Due(todo) == \E i \in DOMAIN todo : todo[i] = "write"

Records == [phase : Phases, todo : Todos, has : BOOLEAN, age : 0..HandlerTimeout,
            writes : BOOLEAN, committed : BOOLEAN, status : Statuses]

\* A handler is consistent.
Sound(q) ==
    /\ q \in Records
    /\ q.has <=> q.phase = "running"
    /\ q.phase \in {"waiting", "running"} => q.todo # <<>>
    /\ q.phase \in {"ready", "waiting", "running"} => (Due(q.todo) <=> q.writes /\ ~q.committed)
    /\ q.committed => q.writes
    /\ q.phase = "answered" =>
        /\ q.status = 200 => q.committed = q.writes
        /\ q.status \in 400..499 => ~q.committed

ProcessOK ==
    /\ proc \in {"starting", "serving", "draining", "closing", "exited"}
    /\ reason \in {"none", "graceful", "timeout", "failed", "killed"}
    /\ draining \in 0..ShutdownTimeout

PoolOK == IsFiniteSet(InUse) /\ Cardinality(InUse) <= MaxConns

StopOK ==
    /\ PoolClosed /\ reason = "graceful" => \A r \in Requests : req[r].phase = "none"
    /\ proc = "exited" /\ reason # "killed" => InUse = {}

\* The inductive invariant.
IInv ==
    /\ ProcessOK
    /\ req \in [Requests -> Records]
    /\ \A r \in Requests : Sound(req[r])
    /\ PoolOK
    /\ StopOK

LEMMA TodosAreSequences == Todos \subseteq Seq({"read", "write"})
BY DEF Todos

\* What is left after the first of it.
LEMMA TailOfTodo ==
    ASSUME NEW todo \in Todos, todo # <<>>
    PROVE  /\ Head(todo) \in {"read", "write"}
           /\ Tail(todo) \in Todos
           /\ Head(todo) = "read" => (Due(Tail(todo)) <=> Due(todo))
           /\ Head(todo) = "write" => Due(todo) /\ ~Due(Tail(todo))
<1>1. CASE todo = <<"read">>
  <2>1. Tail(todo) = <<>> BY <1>1
  <2> QED BY <1>1, <2>1 DEF Todos, Due
<1>2. CASE todo = <<"write">>
  <2>1. Tail(todo) = <<>> BY <1>2
  <2> QED BY <1>2, <2>1 DEF Todos, Due
<1>3. CASE todo = <<"read", "read">>
  <2>1. Tail(todo) = <<"read">> BY <1>3
  <2> QED BY <1>3, <2>1 DEF Todos, Due
<1>4. CASE todo = <<"read", "write">>
  <2>1. Tail(todo) = <<"write">> BY <1>4
  <2> QED BY <1>4, <2>1 DEF Todos, Due
<1>5. CASE todo = <<"write", "read">>
  <2>1. Tail(todo) = <<"read">> BY <1>5
  <2> QED BY <1>5, <2>1 DEF Todos, Due
<1>6. CASE todo = <<"read", "write", "read">>
  <2>1. Tail(todo) = <<"write", "read">> BY <1>6
  <2> QED BY <1>6, <2>1 DEF Todos, Due
<1> QED BY <1>1, <1>2, <1>3, <1>4, <1>5, <1>6 DEF Todos

LEMMA InitIInv == Init => IInv
<1> SUFFICES ASSUME Init PROVE IInv OBVIOUS
<1>1. NoRequest \in Records BY DEF NoRequest, Records, Phases, Todos, Statuses
<1>2. Sound(NoRequest) BY <1>1 DEF Sound, NoRequest
<1>3. InUse = {} BY DEF InUse, Init, NoRequest
<1>4. PoolOK BY <1>3, FS_EmptySet DEF PoolOK
<1>5. req \in [Requests -> Records] /\ \A r \in Requests : Sound(req[r])
  BY <1>1, <1>2 DEF Init
<1>6. ProcessOK /\ StopOK BY DEF Init, ProcessOK, StopOK, PoolClosed
<1> QED BY <1>4, <1>5, <1>6 DEF IInv

\* A handler that goes on without taking a connection.
LEMMA HandlerKeeps ==
    ASSUME IInv, NEW r \in Requests, NEW q, Sound(q), Becomes(r, q),
           q.has => req[r].has,
           Alive, req[r].phase = "none" => ~PoolClosed,
           UNCHANGED <<proc, reason, draining>>
    PROVE  IInv'
<1>1. req' \in [Requests -> Records] BY DEF IInv, Becomes, Sound
<1>2. \A s \in Requests : Sound(req'[s]) BY DEF IInv, Becomes
<1>3. InUse' \subseteq InUse BY DEF IInv, InUse, Becomes
<1>4. PoolOK'
  <2>1. IsFiniteSet(InUse) /\ Cardinality(InUse) <= MaxConns BY DEF IInv, PoolOK
  <2>2. IsFiniteSet(InUse') /\ Cardinality(InUse') <= Cardinality(InUse) BY <1>3, <2>1, FS_Subset
  <2>3. Cardinality(InUse) \in Nat /\ Cardinality(InUse') \in Nat BY <2>1, <2>2, FS_CardinalityType
  <2> QED BY <2>1, <2>2, <2>3 DEF PoolOK
<1>5. StopOK' BY DEF IInv, StopOK, PoolClosed, Alive, Becomes
<1>6. ProcessOK' BY DEF IInv, ProcessOK
<1> QED BY <1>1, <1>2, <1>4, <1>5, <1>6 DEF IInv

\* An answer that is true.
Truthful(r, status, committed) ==
    /\ status \in Statuses
    /\ committed \in BOOLEAN
    /\ committed => req[r].writes
    /\ status = 200 => committed = req[r].writes
    /\ status \in 400..499 => ~committed

LEMMA AnsweredIsSound ==
    ASSUME NEW r \in Requests, req[r] \in Records, NEW status, NEW committed,
           Truthful(r, status, committed)
    PROVE  Sound(Answered(r, status, committed)) /\ ~Answered(r, status, committed).has
<1> DEFINE q == Answered(r, status, committed)
<1>1. /\ q.phase = "answered" /\ q.todo = <<>> /\ q.has = FALSE /\ q.age = 0
      /\ q.writes = req[r].writes /\ q.committed = committed /\ q.status = status
  BY DEF Answered
<1>2. q \in Records
  <2>1. <<>> \in Todos /\ "answered" \in Phases /\ 0 \in 0..HandlerTimeout
    BY DEF Todos, Phases
  <2>2. req[r].writes \in BOOLEAN /\ status \in Statuses /\ committed \in BOOLEAN
    BY DEF Records, Truthful
  <2> HIDE DEF Todos
  <2> QED BY <2>1, <2>2 DEF Answered, Records
<1> HIDE DEF q
<1>3. Sound(q) BY <1>1, <1>2 DEF Sound, Truthful
<1> QED BY <1>1, <1>3 DEF q

\* To fail without a claim.
LEMMA FailureIsSound ==
    ASSUME NEW r \in Requests, Sound(req[r])
    PROVE  /\ Sound(Answered(r, 500, req[r].committed))
           /\ ~Answered(r, 500, req[r].committed).has
<1>1. Truthful(r, 500, req[r].committed) BY DEF Truthful, Statuses, Sound, Records
<1>2. req[r] \in Records BY DEF Sound
<1> QED BY <1>1, <1>2, AnsweredIsSound

\* A request arrives; only then can there be one where there was none.
LEMMA AcceptKeeps ==
    ASSUME IInv, NEW r \in Requests, NEW handler \in Handlers, Accept(r, handler)
    PROVE  IInv'
<1> DEFINE q == [phase |-> "ready", todo |-> handler, has |-> FALSE, age |-> 0,
                 writes |-> \E i \in DOMAIN handler : handler[i] = "write",
                 committed |-> FALSE, status |-> 0]
<1>1. handler \in Todos BY DEF Handlers, Todos
<1>2. q \in Records BY <1>1 DEF Records, Phases, Statuses
<1>3. Sound(q) BY <1>2 DEF Sound, Due
<1>4. Becomes(r, q) BY DEF Accept
<1> QED BY <1>3, <1>4, HandlerKeeps DEF Accept, Alive, PoolClosed

\* A handler asks for a connection, or is told that there is no pool any more.
LEMMA AskKeeps ==
    ASSUME IInv, NEW r \in Requests, Ask(r)
    PROVE  IInv'
<1>1. Sound(req[r]) BY DEF IInv
<1>2. CASE PoolClosed
  <2>1. Sound(Answered(r, 500, req[r].committed)) /\ ~Answered(r, 500, req[r].committed).has
    BY <1>1, FailureIsSound
  <2> QED BY <1>2, <2>1, HandlerKeeps DEF Ask
<1>3. CASE ~PoolClosed
  <2> DEFINE q == Going(r, "waiting", req[r].todo, FALSE, req[r].committed)
  <2>1. q \in Records BY <1>1 DEF Sound, Records, Going, Phases
  <2>2. Sound(q) BY <1>1, <2>1 DEF Sound, Going, Ask
  <2>3. ~q.has BY DEF Going
  <2> QED BY <1>3, <2>2, <2>3, HandlerKeeps DEF Ask
<1> QED BY <1>2, <1>3

\* A connection is handed out while there is one: the only step after which
\* more are in use.
LEMMA GrantKeeps ==
    ASSUME IInv, NEW r \in Requests, Grant(r)
    PROVE  IInv'
<1>1. Sound(req[r]) BY DEF IInv
<1>2. CASE PoolClosed
  <2>1. Sound(Answered(r, 500, req[r].committed)) /\ ~Answered(r, 500, req[r].committed).has
    BY <1>1, FailureIsSound
  <2> QED BY <1>2, <2>1, HandlerKeeps DEF Grant
<1>3. CASE ~PoolClosed
  <2> DEFINE q == Going(r, "running", req[r].todo, TRUE, req[r].committed)
  <2>1. q \in Records BY <1>1 DEF Sound, Records, Going, Phases
  <2>2. Sound(q) BY <1>1, <2>1 DEF Sound, Going, Grant
  <2>3. Becomes(r, q) BY <1>3 DEF Grant
  <2>4. req' \in [Requests -> Records] /\ \A s \in Requests : Sound(req'[s])
    BY <2>1, <2>2, <2>3 DEF IInv, Becomes
  <2>5. InUse' = InUse \cup {r} /\ r \notin InUse
    BY <1>1, <2>3 DEF IInv, InUse, Becomes, Going, Sound, Grant
  <2>6. PoolOK'
    <3>1. IsFiniteSet(InUse) BY DEF IInv, PoolOK
    <3>2. IsFiniteSet(InUse') /\ Cardinality(InUse') = Cardinality(InUse) + 1
      BY <2>5, <3>1, FS_AddElement
    <3>3. Cardinality(InUse) < MaxConns /\ Cardinality(InUse) \in Nat
      BY <1>3, <3>1, FS_CardinalityType DEF Grant
    <3> QED BY <3>2, <3>3 DEF PoolOK
  <2>7. ProcessOK' /\ StopOK' BY <1>3 DEF IInv, ProcessOK, StopOK, Grant, PoolClosed, Alive
  <2> QED BY <2>4, <2>6, <2>7 DEF IInv
<1> QED BY <1>2, <1>3

\* A statement ends well.
LEMMA StatementKeeps ==
    ASSUME IInv, NEW r \in Requests, Read(r) \/ Commit(r)
    PROVE  IInv'
<1>1. Sound(req[r]) /\ req[r].phase = "running" BY DEF IInv, Read, Commit, Writing
<1>2. req[r].todo \in Todos /\ req[r].todo # <<>> BY <1>1 DEF Sound, Records
<1>3. CASE Read(r)
  <2> DEFINE q == Going(r, "ready", Tail(req[r].todo), FALSE, req[r].committed)
  <2>1. q \in Records BY <1>1, <1>2, TailOfTodo DEF Sound, Records, Going, Phases
  <2>2. Due(Tail(req[r].todo)) <=> Due(req[r].todo) BY <1>2, <1>3, TailOfTodo DEF Read
  <2>3. Sound(q) BY <1>1, <2>1, <2>2 DEF Sound, Going
  <2>4. ~q.has BY DEF Going
  <2> QED BY <1>1, <1>3, <2>3, <2>4, HandlerKeeps DEF Read
<1>4. CASE Commit(r)
  <2> DEFINE q == Going(r, "ready", Tail(req[r].todo), FALSE, TRUE)
  <2>1. q \in Records BY <1>1, <1>2, TailOfTodo DEF Sound, Records, Going, Phases
  <2>2. Due(req[r].todo) /\ ~Due(Tail(req[r].todo))
    BY <1>2, <1>4, TailOfTodo DEF Commit, Writing
  <2>3. Sound(q) BY <1>1, <2>1, <2>2 DEF Sound, Going
  <2>4. ~q.has BY DEF Going
  <2> QED BY <1>1, <1>4, <2>3, <2>4, HandlerKeeps DEF Commit
<1> QED BY <1>3, <1>4

\* A handler is answered: refused, forbidden, cancelled, done.
LEMMA AnswerKeeps ==
    ASSUME IInv, NEW r \in Requests,
           \/ \E error \in Errors : Refuse(r, error)
           \/ Forbid(r) \/ Cancel(r) \/ Succeed(r)
    PROVE  IInv'
<1>1. Sound(req[r]) BY DEF IInv
<1>2. req[r].committed \in BOOLEAN /\ (req[r].committed => req[r].writes)
  BY <1>1 DEF Sound, Records
<1>3. \E status, committed :
          Becomes(r, Answered(r, status, committed)) /\ Truthful(r, status, committed)
  <2>1. ASSUME NEW error \in Errors, Refuse(r, error)
        PROVE  \E status, committed :
                  Becomes(r, Answered(r, status, committed)) /\ Truthful(r, status, committed)
    <3>1. PICK sentinel \in {Classify(error), ClassifyInUse(error)} :
              \E status \in StatusOf(sentinel) : Becomes(r, Answered(r, status, req[r].committed))
      BY <2>1 DEF Refuse
    <3>2. PICK status \in StatusOf(sentinel) : Becomes(r, Answered(r, status, req[r].committed))
      BY <3>1
    <3>3. sentinel \in {"not_found", "conflict", "in_use", "invalid", "unhandled"}
          /\ (error = "other" => sentinel = "unhandled")
      BY <3>1 DEF Errors, Classify, ClassifyInUse
    <3>4. status = 500 \/ (status \in {401, 403, 404, 409, 422} /\ error # "other")
      BY <3>2, <3>3 DEF StatusOf
    <3>5. CASE status = 500
      <4>1. Truthful(r, status, req[r].committed) BY <1>2, <3>5 DEF Truthful, Statuses
      <4> QED BY <3>2, <4>1
    <3>6. CASE status \in {401, 403, 404, 409, 422} /\ error # "other"
      <4>1. req[r].committed = FALSE BY <1>2, <2>1, <3>6 DEF Refuse
      <4>2. status \in Statuses /\ status # 200 BY <3>6 DEF Statuses
      <4>3. Truthful(r, status, req[r].committed) BY <1>2, <4>1, <4>2, Zenon DEF Truthful
      <4> QED BY <3>2, <4>3
    <3> QED BY <3>4, <3>5, <3>6
  <2>2. CASE Forbid(r)
    <3>1. PICK sentinel \in {"forbidden", "malformed", "invalid"} :
              \E status \in StatusOf(sentinel) : Becomes(r, Answered(r, status, FALSE))
      BY <2>2 DEF Forbid
    <3>2. PICK status \in StatusOf(sentinel) : Becomes(r, Answered(r, status, FALSE))
      BY <3>1
    <3>3. status \in {400, 401, 403, 404, 409, 422} BY <3>2 DEF StatusOf
    <3>4. Truthful(r, status, FALSE) BY <3>3 DEF Truthful, Statuses
    <3> QED BY <3>2, <3>4
  <2>3. CASE Cancel(r)
    <3>1. PICK committed \in {req[r].committed, req[r].committed \/ Writing(r)} :
              Becomes(r, Answered(r, 500, committed))
      BY <2>3 DEF Cancel
    <3>2. Writing(r) => req[r].writes
      <4> SUFFICES ASSUME Writing(r) PROVE req[r].writes OBVIOUS
      <4>1. req[r].todo \in Todos /\ req[r].todo # <<>> BY <1>1 DEF Sound, Records, Writing
      <4>2. Due(req[r].todo) BY <4>1, TailOfTodo DEF Writing
      <4> QED BY <1>1, <4>2 DEF Sound, Writing
    <3>3. committed \in BOOLEAN /\ (committed => req[r].writes) BY <1>2, <3>1, <3>2
    <3>4. Truthful(r, 500, committed) BY <3>3 DEF Truthful, Statuses
    <3> QED BY <3>1, <3>4
  <2>4. CASE Succeed(r)
    <3>1. req[r].committed = req[r].writes BY <1>1, <2>4 DEF Succeed, Sound, Records, Due
    <3>2. Truthful(r, 200, req[r].committed) BY <1>2, <3>1 DEF Truthful, Statuses
    <3>3. Becomes(r, Answered(r, 200, req[r].committed)) BY <2>4 DEF Succeed
    <3> QED BY <3>2, <3>3
  <2> QED BY <2>1, <2>2, <2>3, <2>4
<1>4. PICK status, committed :
          Becomes(r, Answered(r, status, committed)) /\ Truthful(r, status, committed)
  BY <1>3
<1>5. Sound(Answered(r, status, committed)) /\ ~Answered(r, status, committed).has
  BY <1>1, <1>4, AnsweredIsSound DEF Sound
<1>6. Alive /\ req[r].phase # "none" /\ UNCHANGED <<proc, reason, draining>>
  BY DEF Refuse, Forbid, Cancel, Succeed, Unfinished
<1> QED BY <1>4, <1>5, <1>6, HandlerKeeps

LEMMA DeliverKeeps ==
    ASSUME IInv, NEW r \in Requests, Deliver(r)
    PROVE  IInv'
<1>1. NoRequest \in Records BY DEF NoRequest, Records, Phases, Todos, Statuses
<1>2. Sound(NoRequest) /\ ~NoRequest.has BY <1>1 DEF Sound, NoRequest
<1> QED BY <1>2, HandlerKeeps DEF Deliver

\* Time passes: the handlers have what they had.
LEMMA TickKeeps ==
    ASSUME IInv, Tick
    PROVE  IInv'
<1> DEFINE older(r) == IF Unfinished(r) THEN [req[r] EXCEPT !.age = @ + 1] ELSE req[r]
<1>1. req' = [r \in Requests |-> older(r)] BY DEF Tick
<1>2. ASSUME NEW r \in Requests PROVE Sound(older(r)) /\ older(r).has = req[r].has
                                       /\ older(r).phase = req[r].phase
  <2>1. Sound(req[r]) BY DEF IInv
  <2>2. CASE ~Unfinished(r) BY <2>1, <2>2
  <2>3. CASE Unfinished(r)
    <3>1. older(r) = [req[r] EXCEPT !.age = @ + 1] BY <2>3
    <3>2. req[r] \in Records BY <2>1 DEF Sound
    <3>3. req[r].age + 1 \in 0..HandlerTimeout
      BY <2>3, <3>2 DEF Tick, Records
    <3>4. older(r) \in Records BY <3>1, <3>2, <3>3 DEF Records
    <3>5. /\ older(r).phase = req[r].phase /\ older(r).has = req[r].has
          /\ older(r).todo = req[r].todo /\ older(r).writes = req[r].writes
          /\ older(r).committed = req[r].committed /\ older(r).status = req[r].status
      BY <3>1, <3>2 DEF Records
    <3> HIDE DEF older
    <3> QED BY <2>1, <3>4, <3>5 DEF Sound
  <2> QED BY <2>2, <2>3
<1> HIDE DEF older
<1>3. req' \in [Requests -> Records] /\ \A r \in Requests : Sound(req'[r])
  BY <1>1, <1>2 DEF Sound
<1>4. InUse' = InUse BY <1>1, <1>2 DEF InUse
<1>5. PoolOK' BY <1>4 DEF IInv, PoolOK
<1>6. ProcessOK' BY DEF IInv, ProcessOK, Tick
<1>7. StopOK' BY <1>1, <1>2, <1>4 DEF IInv, StopOK, PoolClosed, Tick
<1> QED BY <1>3, <1>5, <1>6, <1>7 DEF IInv

\* The process moves, its handlers do not.
LEMMA ProcessKeeps ==
    ASSUME IInv, StartUp \/ ListenFails \/ Signal \/ Shutdown \/ ShutdownTimesOut \/ Exit \/ Kill
    PROVE  IInv'
<1>1. UNCHANGED req
  BY DEF StartUp, ListenFails, Signal, Shutdown, ShutdownTimesOut, Exit, Kill
<1>2. req' \in [Requests -> Records] /\ (\A r \in Requests : Sound(req'[r])) /\ PoolOK'
  BY <1>1 DEF IInv, PoolOK, InUse
<1>3. ProcessOK'
  BY DEF IInv, ProcessOK, StartUp, ListenFails, Signal, Shutdown, ShutdownTimesOut, Exit, Kill
<1>4. StopOK'
  BY <1>1 DEF IInv, StopOK, PoolClosed, InUse,
              StartUp, ListenFails, Signal, Shutdown, ShutdownTimesOut, Exit, Kill
<1> QED BY <1>2, <1>3, <1>4 DEF IInv

LEMMA RestartKeeps == ASSUME IInv, Restart PROVE IInv'
<1>1. NoRequest \in Records BY DEF NoRequest, Records, Phases, Todos, Statuses
<1>2. Sound(NoRequest) BY <1>1 DEF Sound, NoRequest
<1>3. InUse' = {} BY DEF InUse, Restart, NoRequest
<1>4. PoolOK' BY <1>3, FS_EmptySet DEF PoolOK
<1>5. req' \in [Requests -> Records] /\ \A r \in Requests : Sound(req'[r])
  BY <1>1, <1>2 DEF Restart
<1>6. ProcessOK' /\ StopOK' BY DEF Restart, ProcessOK, StopOK, PoolClosed
<1> QED BY <1>4, <1>5, <1>6 DEF IInv

LEMMA NextKeeps == IInv /\ [Next]_vars => IInv'
<1> SUFFICES ASSUME IInv, [Next]_vars PROVE IInv' OBVIOUS
<1>1. CASE StartUp \/ ListenFails \/ Signal \/ Shutdown \/ ShutdownTimesOut \/ Exit \/ Kill
  BY <1>1, ProcessKeeps
<1>2. CASE Restart BY <1>2, RestartKeeps
<1>3. CASE Tick BY <1>3, TickKeeps
<1>4. ASSUME NEW r \in Requests, Handle(r) PROVE IInv'
  <2>1. CASE \E handler \in Handlers : Accept(r, handler) BY <2>1, AcceptKeeps
  <2>2. CASE Ask(r) BY <2>2, AskKeeps
  <2>3. CASE Grant(r) BY <2>3, GrantKeeps
  <2>4. CASE Read(r) \/ Commit(r) BY <2>4, StatementKeeps
  <2>5. CASE (\E error \in Errors : Refuse(r, error)) \/ Forbid(r) \/ Cancel(r) \/ Succeed(r)
    BY <2>5, AnswerKeeps
  <2>6. CASE Deliver(r) BY <2>6, DeliverKeeps
  <2> QED BY <1>4, <2>1, <2>2, <2>3, <2>4, <2>5, <2>6 DEF Handle
<1>5. CASE UNCHANGED vars
  BY <1>5 DEF vars, IInv, ProcessOK, PoolOK, InUse, StopOK, PoolClosed
<1> QED BY <1>1, <1>2, <1>3, <1>4, <1>5 DEF Next

\* The inductive invariant holds in every reachable state.
THEOREM Invariance == Spec => []IInv
BY InitIInv, NextKeeps, PTL DEF Spec

\* The process, the pool and the handlers have their types, and no more
\* connections are out than the pool has (store/db.go).
THEOREM TypeCorrectness == Spec => []TypeOK
<1>1. IInv => TypeOK BY DEF IInv, ProcessOK, PoolOK, Sound, Records, TypeOK
<1> QED BY <1>1, Invariance, PTL

\* A success is committed and a refusal is not, whatever fails in between
\* (store/errors.go, api/errors.go).
THEOREM AnswersAreTrue == Spec => []AnswersTellTheTruth
<1>1. IInv => AnswersTellTheTruth BY DEF IInv, Sound, AnswersTellTheTruth
<1> QED BY <1>1, Invariance, PTL

\* Handlers that wait for a connection never wait for each other, for any
\* size of the pool: none has a connection while it waits for one.
THEOREM NobodyStarves == Spec => []PoolGoesOn
<1>1. IInv => PoolGoesOn
  <2> SUFFICES ASSUME IInv, Cardinality(InUse) >= MaxConns
               PROVE  \E r \in InUse : req[r].phase # "waiting"
    <3>1. IInv => Cardinality(InUse) \in Nat BY FS_CardinalityType DEF IInv, PoolOK
    <3> QED BY <3>1 DEF PoolGoesOn
  <2>1. InUse # {} BY FS_EmptySet
  <2>2. PICK r \in InUse : TRUE BY <2>1
  <2>3. req[r].phase = "running" BY <2>2 DEF IInv, Sound, InUse
  <2> QED BY <2>2, <2>3
<1> QED BY <1>1, Invariance, PTL

\* A process that stops by itself leaves nothing open, and one that stops
\* gracefully owes nobody an answer (api/server.go, api/run.go).
THEOREM Stops == Spec => []StopsAreClean
<1>1. IInv => StopsAreClean BY DEF IInv, StopOK, StopsAreClean, PoolClosed
<1> QED BY <1>1, Invariance, PTL
=============================================================================

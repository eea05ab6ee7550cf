------------------------------- MODULE Pools -------------------------------
(***************************************************************************)
(* The connections of one process (lib/mysql.ts, lib/dbConcurrency.ts).        *)
(* Requests share small pools: what asks for a connection when all are in use   *)
(* waits in a queue, without a timeout, and is rejected when the queue is       *)
(* full.  A route with many queries runs them by a few workers.  A transaction   *)
(* keeps its connection until it ends, and some of those that fail write down    *)
(* their failure through the pool before they release it (retention/deletion,    *)
(* retention/graph; catalog/sync when it holds a payload).                       *)
(***************************************************************************)
EXTENDS Integers, Sequences, FiniteSets, FiniteSetsExt

CONSTANTS
    Transaction,    \* requests that are a transaction
    RouteWorker,    \* possible workers of the route
    TaskCount,      \* queries of the route
    Concurrency,    \* DB_QUERY_CONCURRENCY
    ConnectionLimit, QueueLimit,
    NoAnswer

Client == Transaction \cup RouteWorker
Roles == {"read", "write"}
Pool == Roles \cup {"legacy"}

ASSUME PoolsAssumption ==
    /\ {TaskCount, Concurrency, ConnectionLimit} \subseteq Nat \ {0} /\ QueueLimit \in Nat
    /\ RouteWorker = 1 .. TaskCount /\ Transaction \cap RouteWorker = {} /\ IsFiniteSet(Transaction)

VARIABLES
    env,            \* how many of the variables of a role are set
    reporting,      \* transactions that write down their failure before the release
    at, held,       \* where a client is, and how many connections it holds
    queue,          \* waiting clients of each pool
    task,           \* the task of a worker, and the next one of all
    nextIndex, results

poolVars == <<env, reporting, at, held, queue, task, nextIndex, results>>

\* resolveRoleDbConfig: a role that is not set is the legacy pool, and one that is
\* set in part is refused.
Resolve(role) ==
    CASE env[role] = "none" -> "legacy" [] env[role] = "some" -> "refused" [] OTHER -> role

\* getReadPool, getWritePool: transactions write, the route reads.
PoolOf(c) == Resolve(IF c \in Transaction THEN "write" ELSE "read")

ClientsOf(p) == {c \in Client : PoolOf(c) = p}

\* The connections that clients of a pool hold: the first and the second of each.
Connections(p) == {x \in ClientsOf(p) \X (1 .. 2) : x[2] <= held[x[1]]}
InUse(p) == Cardinality(Connections(p))

PoolsInit ==
    /\ env \in {e \in [Roles -> {"none", "some", "all"}] : \E role \in Roles : e[role] # "some"}
    /\ reporting \in SUBSET Transaction
    /\ at = [c \in Client |-> "idle"]
    /\ held = [c \in Client |-> 0]
    /\ queue = [p \in Pool |-> <<>>]
    /\ task = [w \in RouteWorker |-> 0]
    /\ nextIndex = 1 /\ results = [i \in 1 .. TaskCount |-> NoAnswer]

-----------------------------------------------------------------------------
(* The pool *)

\* A connection at once, a place in the queue, or "Queue limit reached".
GetConnection(c, now, later, rejected) ==
    LET p == PoolOf(c)
    IN  IF InUse(p) < ConnectionLimit
        THEN at' = [at EXCEPT ![c] = now] /\ held' = [held EXCEPT ![c] = @ + 1] /\ UNCHANGED queue
        ELSE IF Len(queue[p]) < QueueLimit
        THEN at' = [at EXCEPT ![c] = later] /\ queue' = [queue EXCEPT ![p] = Append(@, c)]
             /\ UNCHANGED held
        ELSE at' = [at EXCEPT ![c] = rejected] /\ UNCHANGED <<held, queue>>

\* What a client that has waited goes on with.
Served(where) == IF where = "waits to report" THEN "reports" ELSE "works"

\* The first that waits gets the connection.
ReleaseConnection(c, next) ==
    LET p == PoolOf(c)
    IN  IF queue[p] = <<>>
        THEN at' = [at EXCEPT ![c] = next] /\ held' = [held EXCEPT ![c] = @ - 1] /\ UNCHANGED queue
        ELSE LET first == Head(queue[p])
             IN  /\ at' = [at EXCEPT ![c] = next, ![first] = Served(@)]
                 /\ held' = [held EXCEPT ![c] = @ - 1, ![first] = @ + 1]
                 /\ queue' = [queue EXCEPT ![p] = Tail(@)]

-----------------------------------------------------------------------------
(* A transaction *)

RouteVars == <<task, nextIndex, results>>

BeginTransaction(t) ==
    /\ at[t] = "idle" /\ PoolOf(t) # "refused"
    /\ GetConnection(t, "works", "waits", "idle")
    /\ UNCHANGED <<env, reporting, RouteVars>>

Commit(t) ==
    /\ at[t] = "works"
    /\ ReleaseConnection(t, "idle")
    /\ UNCHANGED <<env, reporting, RouteVars>>

\* MUTANT: every failure is reported through the pool.
ReportsAlways(t) == TRUE

Reports(t) == t \in reporting

\* Roll back, then release or report.
FailTransaction(t) ==
    /\ at[t] = "works"
    /\ IF Reports(t) THEN at' = [at EXCEPT ![t] = "failed"] /\ UNCHANGED <<held, queue>>
                     ELSE ReleaseConnection(t, "idle")
    /\ UNCHANGED <<env, reporting, RouteVars>>

AskToReport(t) ==
    /\ at[t] = "failed"
    /\ GetConnection(t, "reports", "waits to report", "reported")
    /\ UNCHANGED <<env, reporting, RouteVars>>

Report(t) ==
    /\ at[t] = "reports"
    /\ ReleaseConnection(t, "reported")
    /\ UNCHANGED <<env, reporting, RouteVars>>

\* finally: release
EndFailed(t) ==
    /\ at[t] = "reported"
    /\ ReleaseConnection(t, "idle")
    /\ UNCHANGED <<env, reporting, RouteVars>>

TransactionStep(t) == Commit(t) \/ AskToReport(t) \/ Report(t) \/ EndFailed(t)

-----------------------------------------------------------------------------
(* runQueriesBounded *)

\* MUTANT: as many workers as tasks.
AllAtOnce(tasks) == tasks

WorkerCount(tasks) == Max({1, Min({Concurrency, tasks})})

RouteIdle == \A w \in RouteWorker : at[w] = "idle"

StartRoute ==
    /\ RouteIdle /\ PoolOf(1) # "refused"
    /\ at' = [c \in Client |-> IF c \in 1 .. WorkerCount(TaskCount) THEN "next" ELSE at[c]]
    /\ nextIndex' = 1 /\ results' = [i \in 1 .. TaskCount |-> NoAnswer]
    /\ task' = [w \in RouteWorker |-> 0]
    /\ UNCHANGED <<env, reporting, held, queue>>

\* Up to its first await a worker is not interrupted: it takes an index and asks.
NextTask(w) ==
    /\ at[w] = "next" /\ nextIndex <= TaskCount
    /\ task' = [task EXCEPT ![w] = nextIndex]
    /\ nextIndex' = nextIndex + 1
    /\ GetConnection(w, "works", "waits", "rejected")
    /\ UNCHANGED <<env, reporting, results>>

NoMoreTasks(w) ==
    /\ at[w] = "next" /\ nextIndex > TaskCount
    /\ at' = [at EXCEPT ![w] = "done"]
    /\ UNCHANGED <<env, reporting, held, queue, RouteVars>>

PlaceOf(w) == task[w]

QueryAnswered(w) ==
    /\ at[w] = "works"
    /\ results' = [results EXCEPT ![PlaceOf(w)] = task[w]]
    /\ ReleaseConnection(w, "next")
    /\ UNCHANGED <<env, reporting, task, nextIndex>>

\* The route answers once all its workers have ended, or one was rejected.
EndRoute ==
    /\ ~RouteIdle /\ \A w \in RouteWorker : at[w] \in {"idle", "done", "rejected"}
    /\ at' = [c \in Client |-> IF c \in RouteWorker THEN "idle" ELSE at[c]]
    /\ UNCHANGED <<env, reporting, held, queue, RouteVars>>

RouteStep(w) == NextTask(w) \/ NoMoreTasks(w) \/ QueryAnswered(w)

-----------------------------------------------------------------------------
\* The process is restarted: its connections are closed.
ProcessRestarts ==
    /\ \E c \in Client : at[c] # "idle"
    /\ at' = [c \in Client |-> "idle"] /\ held' = [c \in Client |-> 0]
    /\ queue' = [p \in Pool |-> <<>>]
    /\ UNCHANGED <<env, reporting, RouteVars>>

NewRequest == StartRoute \/ \E t \in Transaction : BeginTransaction(t)

PoolsNext ==
    \/ NewRequest
    \/ \E t \in Transaction : TransactionStep(t) \/ FailTransaction(t)
    \/ \E w \in RouteWorker : RouteStep(w)
    \/ EndRoute
    \/ ProcessRestarts

\* Queries are answered, and nobody restarts the process for ever.
PoolsFairness ==
    /\ \A t \in Transaction : WF_poolVars(TransactionStep(t))
    /\ \A w \in RouteWorker : WF_poolVars(RouteStep(w))
    /\ WF_poolVars(EndRoute)
    /\ <>[][~ProcessRestarts]_poolVars

PoolsSpec == PoolsInit /\ [][PoolsNext]_poolVars /\ PoolsFairness

-----------------------------------------------------------------------------
\* No connection is counted twice or lost, and no more are open than the plan of
\* the database allows.
PoolsTypeOK ==
    /\ \A p \in Pool : InUse(p) <= ConnectionLimit /\ Len(queue[p]) <= QueueLimit
    /\ \A p \in Pool : queue[p] # <<>> => InUse(p) = ConnectionLimit
    /\ \A c \in Client : held[c] \in 0 .. 2

\* "Callers can destructure the result array exactly as they would a Promise.all
\* result": in whatever order the queries are answered, each is at its place.
ResultsInPlace == \A i \in 1 .. TaskCount : results[i] \in {i, NoAnswer}

\* The workers of a route leave room in the queue: no query is ever rejected,
\* though the route has more of them than the pool has places.
NoneRejected == \A w \in RouteWorker : at[w] # "rejected"

\* A route that runs its queries by the pool gets all its answers, in order.
PoolsInv == PoolsTypeOK /\ ResultsInPlace /\ NoneRejected

\* When no more requests come, everyone has been served, unless so many
\* transactions of one pool report through it that they can hold all of its
\* connections: those, and all that wait behind them, would wait for each other.
CanStall(p) == Cardinality(ClientsOf(p) \cap reporting) >= ConnectionLimit
EveryoneIsServed ==
    <>[][~NewRequest]_poolVars
        => <>[](\A p \in Pool : ~CanStall(p) => \A c \in ClientsOf(p) : at[c] = "idle")
=============================================================================

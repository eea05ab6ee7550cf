-------------------------- MODULE Processes_proofs --------------------------
(***************************************************************************)
(* What one process does (MC_Processes): its connections are counted and a   *)
(* route gets all its answers, for any requests, queries and limits of the    *)
(* pools; the schema is what schema_migrations says, for any migrations, edits *)
(* of their files, runs of the script and cuts; and what the crawl has recorded *)
(* was done, once, within its limits and fairly, for any workers, runs, players, *)
(* strata, logs and limits.                                                 *)
(***************************************************************************)
EXTENDS Crawl, Pools, SchemaMigrations, Workflow_proofs, SequenceTheorems

-----------------------------------------------------------------------------
(* Pools.  What a client holds follows from where it is, and who is in a queue   *)
(* waits and is there once: so what a connection is given to is known, and the   *)
(* connections that are in use are counted one by one.                        *)

Waiting == {"waits", "waits to report"}

Stage == Waiting \cup {"idle", "works", "failed", "reports", "reported", "next", "done", "rejected"}

\* How many connections a client holds, where it is.
HeldAt(where) ==
    IF where = "reports" THEN 2
    ELSE IF where \in {"works", "failed", "waits to report", "reported"} THEN 1 ELSE 0

\* A queue is of different clients of its pool, which wait.
QueueOf(p) ==
    /\ \A i \in 1 .. Len(queue[p]) : queue[p][i] \in ClientsOf(p) /\ at[queue[p][i]] \in Waiting
    /\ \A i, j \in 1 .. Len(queue[p]) : queue[p][i] = queue[p][j] => i = j

CountsFit(p) ==
    /\ InUse(p) <= ConnectionLimit /\ Len(queue[p]) <= QueueLimit
    /\ queue[p] # <<>> => InUse(p) = ConnectionLimit

RouteFits ==
    /\ task \in [RouteWorker -> 0 .. TaskCount] /\ nextIndex \in 1 .. TaskCount + 1
    /\ results \in [1 .. TaskCount -> (1 .. TaskCount) \cup {NoAnswer}]
    /\ \A w \in RouteWorker : at[w] \in {"idle", "next", "waits", "works", "done", "rejected"}
    /\ \A w \in RouteWorker : at[w] # "idle" => w <= WorkerCount(TaskCount)
    /\ \A w \in RouteWorker : at[w] \in {"waits", "works"} => task[w] \in 1 .. TaskCount
    /\ ResultsInPlace

\* What the pools themselves keep.
PoolsAgree ==
    /\ env \in [Roles -> {"none", "some", "all"}]
    /\ at \in [Client -> Stage] /\ held \in [Client -> 0 .. 2] /\ queue \in [Pool -> Seq(Client)]
    /\ \A c \in Client : held[c] = HeldAt(at[c])
    /\ \A p \in Pool : QueueOf(p) /\ CountsFit(p)

\* Nobody uses a pool that is set in part.
RefusedRests == \A c \in Client : PoolOf(c) = "refused" => at[c] = "idle"

PoolsIInv ==
    /\ PoolsAgree
    /\ RefusedRests
    /\ RouteFits

\* The queue takes the workers of a route and the transactions that share their pool.
QueueHasRoom ==
    Cardinality(Transaction \cap ClientsOf(PoolOf(1))) + WorkerCount(TaskCount) <= QueueLimit

\* Who holds what, as a set of pairs.
Pairs(S, h) == {x \in S \X (1 .. 2) : x[2] <= h[x[1]]}

LEMMA PairsFinite ==
  ASSUME NEW S, IsFiniteSet(S), NEW h
  PROVE  IsFiniteSet(Pairs(S, h)) /\ Cardinality(Pairs(S, h)) \in Nat
<1>1. IsFiniteSet(1 .. 2)
  <2>1. IsFiniteSet({1})
    BY FS_Singleton
  <2>2. IsFiniteSet({1} \cup {2})
    BY <2>1, FS_AddElement
  <2>3. 1 .. 2 = {1} \cup {2}
    OBVIOUS
  <2> QED
    BY <2>2, <2>3
<1>2. IsFiniteSet(S \X (1 .. 2))
  BY <1>1, FS_Product
<1>3. Pairs(S, h) \in SUBSET (S \X (1 .. 2))
  BY DEF Pairs
<1> QED
  BY <1>2, <1>3, FS_Subset, FS_CardinalityType

LEMMA PairsGrow ==
  ASSUME NEW C, NEW S \in SUBSET C, IsFiniteSet(S), NEW h \in [C -> 0 .. 2], NEW c \in S, h[c] < 2,
         NEW g, g = [h EXCEPT ![c] = @ + 1]
  PROVE  Cardinality(Pairs(S, g)) = Cardinality(Pairs(S, h)) + 1
<1>1. h[c] \in 0 .. 2 /\ g[c] = h[c] + 1 /\ \A d \in S : d # c => g[d] = h[d]
  OBVIOUS
<1>2. <<c, h[c] + 1>> \notin Pairs(S, h)
  BY <1>1 DEF Pairs
<1>3. Pairs(S, g) = Pairs(S, h) \cup {<<c, h[c] + 1>>}
  <2>1. ASSUME NEW d \in S, NEW i \in 1 .. 2
        PROVE  i <= g[d] <=> i <= h[d] \/ (d = c /\ i = h[c] + 1)
    BY <1>1
  <2> QED
    BY <1>1, <2>1 DEF Pairs
<1> QED
  BY <1>2, <1>3, PairsFinite, FS_AddElement

LEMMA PairsApart ==
  ASSUME NEW C, NEW S \in SUBSET C, NEW h \in [C -> 0 .. 2], NEW g, \A d \in S : g[d] = h[d]
  PROVE  Pairs(S, g) = Pairs(S, h)
BY DEF Pairs

LEMMA PairsShrink ==
  ASSUME NEW C, NEW S \in SUBSET C, IsFiniteSet(S), NEW h \in [C -> 0 .. 2], NEW c \in S, h[c] > 0,
         NEW g, g = [h EXCEPT ![c] = @ - 1]
  PROVE  Cardinality(Pairs(S, g)) = Cardinality(Pairs(S, h)) - 1
<1>1. g \in [C -> 0 .. 2] /\ g[c] < 2 /\ h = [g EXCEPT ![c] = @ + 1]
  <2>1. h[c] \in 0 .. 2 /\ g[c] = h[c] - 1 /\ c \in C
    OBVIOUS
  <2>2. g \in [C -> 0 .. 2] /\ g[c] < 2
    BY <2>1
  <2>3. \A d \in C : h[d] = [g EXCEPT ![c] = @ + 1][d]
    BY <2>1, <2>2
  <2>4. h = [g EXCEPT ![c] = @ + 1]
    BY <2>2, <2>3
  <2> QED
    BY <2>2, <2>4
<1>2. Cardinality(Pairs(S, h)) = Cardinality(Pairs(S, g)) + 1
  BY <1>1, PairsGrow
<1> QED
  BY <1>2, PairsFinite

\* A connection that goes from c to f.
LEMMA PairsMove ==
  ASSUME NEW C, NEW S \in SUBSET C, IsFiniteSet(S), NEW h \in [C -> 0 .. 2],
         NEW c \in S, h[c] > 0, NEW f \in S, f # c, h[f] < 2,
         NEW g, g[c] = h[c] - 1, g[f] = h[f] + 1, \A d \in S : d \notin {c, f} => g[d] = h[d]
  PROVE  Cardinality(Pairs(S, g)) = Cardinality(Pairs(S, h))
<1>1. PICK m : m = [h EXCEPT ![c] = @ - 1]
  OBVIOUS
<1>2. m \in [C -> 0 .. 2] /\ m[f] < 2
  <2>1. h[c] \in 0 .. 2 /\ c \in C
    OBVIOUS
  <2> QED
    BY <1>1, <2>1
<1>3. PICK k : k = [m EXCEPT ![f] = @ + 1]
  OBVIOUS
<1>4. Cardinality(Pairs(S, k)) = Cardinality(Pairs(S, m)) + 1
  BY ONLY <1>2, <1>3, PairsGrow, IsFiniteSet(S), f \in S, S \in SUBSET C
<1>5. Cardinality(Pairs(S, m)) = Cardinality(Pairs(S, h)) - 1
  BY <1>1, PairsShrink
<1>6. \A d \in S : g[d] = k[d]
  BY <1>1, <1>2, <1>3
<1>7. Pairs(S, g) = Pairs(S, k)
  BY <1>6 DEF Pairs
<1> QED
  BY <1>4, <1>5, <1>7, PairsFinite

-----------------------------------------------------------------------------
\* Clients, their pools, and the connections of each.
LEMMA Clients ==
  ASSUME env \in [Roles -> {"none", "some", "all"}]
  PROVE  /\ IsFiniteSet(Client) /\ 1 \in RouteWorker /\ RouteWorker \subseteq Client /\ Transaction \subseteq Client
         /\ \A c \in Client : PoolOf(c) \in Pool \cup {"refused"}
         /\ \A w \in RouteWorker : PoolOf(w) = PoolOf(1)
         /\ \A p : ClientsOf(p) \in SUBSET Client /\ IsFiniteSet(ClientsOf(p))
<1>1. IsFiniteSet(Client)
  <2>1. \A a, b \in Int : IsFiniteSet(a .. b)
    BY FS_Interval
  <2>2. IsFiniteSet(RouteWorker)
    BY <2>1, PoolsAssumption
  <2> QED
    BY <2>2, PoolsAssumption, FS_Union DEF Client
<1>2. 1 \in RouteWorker /\ RouteWorker \subseteq Client /\ Transaction \subseteq Client
  BY PoolsAssumption DEF Client
<1>3. \A role \in Roles : Resolve(role) \in Pool \cup {"refused"}
  BY DEF Resolve, Pool, Roles
<1>4. \A c \in Client : PoolOf(c) \in Pool \cup {"refused"}
  BY <1>3 DEF PoolOf, Roles
<1>5. \A w \in RouteWorker : PoolOf(w) = PoolOf(1)
  <2>1. \A w \in RouteWorker : w \notin Transaction
    BY PoolsAssumption
  <2> QED
    BY <1>2, <2>1 DEF PoolOf
<1>6. ASSUME NEW p PROVE ClientsOf(p) \in SUBSET Client /\ IsFiniteSet(ClientsOf(p))
  <2>1. ClientsOf(p) \in SUBSET Client
    BY DEF ClientsOf
  <2> QED
    BY <1>1, <2>1, FS_Subset
<1> QED
  BY <1>1, <1>2, <1>4, <1>5, <1>6

LEMMA UsedIs ==
  \A p : InUse(p) = Cardinality(Pairs(ClientsOf(p), held))
BY DEF InUse, Connections, Pairs

\* The pools of the environment stay.
LEMMA PoolsStay ==
  ASSUME env' = env
  PROVE  \A c, p : PoolOf(c)' = PoolOf(c) /\ ClientsOf(p)' = ClientsOf(p)
BY DEF PoolOf, Resolve, ClientsOf

\* Where a client is, said of the step that moves it.
Moves(c, where) == at' = [at EXCEPT ![c] = where]

\* A queue that stays stays right when those in it stay where they are.
LEMMA QueueStays ==
  ASSUME NEW p \in Pool, QueueOf(p), ClientsOf(p)' = ClientsOf(p), queue'[p] = queue[p],
         \A i \in 1 .. Len(queue[p]) : at'[queue[p][i]] = at[queue[p][i]]
  PROVE  QueueOf(p)'
<1>1. \A i \in 1 .. Len(queue'[p]) : queue'[p][i] \in ClientsOf(p)' /\ at'[queue'[p][i]] \in Waiting
  BY DEF QueueOf
<1>2. \A i, j \in 1 .. Len(queue'[p]) : queue'[p][i] = queue'[p][j] => i = j
  BY DEF QueueOf
<1> QED
  BY <1>1, <1>2 DEF QueueOf

\* A client that comes to a place where it holds as much, and is in no queue.
LEMMA MovesOn ==
  ASSUME PoolsAgree, NEW c \in Client, at[c] \notin Waiting,
         NEW where \in Stage, where \notin Waiting, HeldAt(where) = held[c],
         Moves(c, where), UNCHANGED <<env, held, queue>>
  PROVE  PoolsAgree'
<1>1. \A d \in Client : at'[d] = IF d = c THEN where ELSE at[d]
  BY DEF PoolsAgree, Moves
<1>2. at' \in [Client -> Stage]
  BY DEF PoolsAgree, Moves
<1>3. \A d \in Client : held'[d] = HeldAt(at'[d])
  BY <1>1 DEF PoolsAgree
<1>4. ASSUME NEW p \in Pool PROVE QueueOf(p)' /\ CountsFit(p)'
  <2>1. InUse(p)' = InUse(p)
    BY PoolsStay DEF InUse, Connections
  <2>2. QueueOf(p) /\ CountsFit(p) /\ ClientsOf(p) \in SUBSET Client /\ ClientsOf(p)' = ClientsOf(p)
    BY Clients, PoolsStay DEF PoolsAgree
  <2>3. \A i \in 1 .. Len(queue[p]) : queue[p][i] \in Client /\ queue[p][i] # c
    BY <2>2 DEF QueueOf
  <2> QED
    BY <1>1, <2>1, <2>2, <2>3 DEF QueueOf, CountsFit
<1> QED
  BY <1>2, <1>3, <1>4 DEF PoolsAgree

\* A client that holds another connection, when one is free and nobody waits.
LEMMA TakesOne ==
  ASSUME PoolsAgree, NEW c \in Client, PoolOf(c) \in Pool, at[c] \notin Waiting, held[c] < 2,
         NEW where \in Stage, where \notin Waiting, HeldAt(where) = held[c] + 1,
         InUse(PoolOf(c)) < ConnectionLimit,
         Moves(c, where), held' = [held EXCEPT ![c] = @ + 1], UNCHANGED <<env, queue>>
  PROVE  PoolsAgree'
<1>1. \A d \in Client : /\ at'[d] = IF d = c THEN where ELSE at[d]
                        /\ held'[d] = IF d = c THEN held[c] + 1 ELSE held[d]
  BY DEF PoolsAgree, Moves
<1>2. at' \in [Client -> Stage] /\ held' \in [Client -> 0 .. 2]
  <2>1. held[c] \in 0 .. 2 /\ held[c] + 1 \in 0 .. 2
    BY DEF PoolsAgree
  <2> QED
    BY <2>1 DEF PoolsAgree, Moves
<1>3. \A d \in Client : held'[d] = HeldAt(at'[d])
  BY <1>1 DEF PoolsAgree
<1>4. ASSUME NEW p \in Pool PROVE QueueOf(p)' /\ CountsFit(p)'
  <2>1. /\ QueueOf(p) /\ CountsFit(p) /\ ClientsOf(p) \in SUBSET Client /\ ClientsOf(p)' = ClientsOf(p)
        /\ IsFiniteSet(ClientsOf(p)) /\ held \in [Client -> 0 .. 2]
    BY Clients, PoolsStay DEF PoolsAgree
  <2>2. \A i \in 1 .. Len(queue[p]) : queue[p][i] \in Client /\ queue[p][i] # c
    BY <2>1 DEF QueueOf
  <2>3. QueueOf(p)'
    <3>1. \A i \in 1 .. Len(queue[p]) : at'[queue[p][i]] = at[queue[p][i]]
      BY <1>1, <2>2
    <3> QED
      BY <2>1, <3>1, QueueStays
  <2>4. InUse(p)' = Cardinality(Pairs(ClientsOf(p), held')) /\ InUse(p) = Cardinality(Pairs(ClientsOf(p), held))
    <3>1. InUse(p)' = Cardinality(Pairs(ClientsOf(p)', held'))
      BY DEF InUse, Connections, Pairs
    <3>2. InUse(p) = Cardinality(Pairs(ClientsOf(p), held))
      BY DEF InUse, Connections, Pairs
    <3> QED
      BY <2>1, <3>1, <3>2
  <2>5. CASE p # PoolOf(c)
    <3>1. \A d \in ClientsOf(p) : held'[d] = held[d]
      BY <1>1, <2>5 DEF ClientsOf
    <3>2. InUse(p)' = InUse(p)
      <4>1. PICK g : g = held'
        OBVIOUS
      <4>2. Pairs(ClientsOf(p), g) = Pairs(ClientsOf(p), held)
        BY <3>1, <4>1 DEF Pairs
      <4> QED
        BY <2>4, <4>1, <4>2
    <3> QED
      BY <2>1, <2>3, <3>2 DEF CountsFit
  <2>6. CASE p = PoolOf(c)
    <3>1. c \in ClientsOf(p)
      BY <2>6 DEF ClientsOf
    <3>2. InUse(p)' = InUse(p) + 1 /\ InUse(p) \in Nat
      <4>1. PICK g : g = held'
        OBVIOUS
      <4>2. Cardinality(Pairs(ClientsOf(p), g)) = Cardinality(Pairs(ClientsOf(p), held)) + 1
        BY <2>1, <3>1, <4>1, PairsGrow
      <4>3. Cardinality(Pairs(ClientsOf(p), held)) \in Nat
        BY <2>1, PairsFinite
      <4> QED
        BY <2>4, <4>1, <4>2, <4>3
    <3>3. queue[p] = <<>>
      BY <2>1, <2>6, <3>2, PoolsAssumption DEF CountsFit
    <3> QED
      BY <2>1, <2>3, <2>6, <3>2, <3>3, PoolsAssumption DEF CountsFit
  <2> QED
    BY <2>5, <2>6
<1> QED
  BY <1>2, <1>3, <1>4 DEF PoolsAgree

\* A client that waits behind the others, when no connection is free.
LEMMA QueuesUp ==
  ASSUME PoolsAgree, NEW c \in Client, PoolOf(c) \in Pool, at[c] \notin Waiting,
         NEW where \in Waiting, HeldAt(where) = held[c],
         ~(InUse(PoolOf(c)) < ConnectionLimit), Len(queue[PoolOf(c)]) < QueueLimit,
         Moves(c, where), queue' = [queue EXCEPT ![PoolOf(c)] = Append(@, c)], UNCHANGED <<env, held>>
  PROVE  PoolsAgree'
<1>1. \A d \in Client : at'[d] = IF d = c THEN where ELSE at[d]
  BY DEF PoolsAgree, Moves
<1>2. at' \in [Client -> Stage] /\ queue' \in [Pool -> Seq(Client)]
  BY DEF PoolsAgree, Moves, Stage
<1>3. \A d \in Client : held'[d] = HeldAt(at'[d])
  BY <1>1 DEF PoolsAgree
<1>4. ASSUME NEW p \in Pool PROVE QueueOf(p)' /\ CountsFit(p)'
  <2>1. /\ QueueOf(p) /\ CountsFit(p) /\ ClientsOf(p) \in SUBSET Client /\ ClientsOf(p)' = ClientsOf(p)
        /\ queue[p] \in Seq(Client) /\ Len(queue[p]) \in Nat
    <3>1. queue[p] \in Seq(Client) /\ QueueOf(p) /\ CountsFit(p)
      BY DEF PoolsAgree
    <3>2. ClientsOf(p) \in SUBSET Client /\ ClientsOf(p)' = ClientsOf(p)
      BY Clients, PoolsStay DEF PoolsAgree
    <3> QED
      BY <3>1, <3>2
  <2>2. \A i \in 1 .. Len(queue[p]) : queue[p][i] \in Client /\ queue[p][i] # c
    BY <2>1 DEF QueueOf
  <2>3. InUse(p)' = InUse(p)
    BY <2>1 DEF InUse, Connections
  <2>4. CASE p # PoolOf(c)
    <3>1. queue'[p] = queue[p]
      BY <2>4 DEF PoolsAgree
    <3>2. \A i \in 1 .. Len(queue[p]) : at'[queue[p][i]] = at[queue[p][i]]
      BY <1>1, <2>2
    <3>3. QueueOf(p)'
      BY <2>1, <3>1, <3>2, QueueStays
    <3> QED
      BY <2>1, <2>3, <3>1, <3>3 DEF CountsFit
  <2>5. CASE p = PoolOf(c)
    <3>1. queue'[p] = Append(queue[p], c) /\ c \in ClientsOf(p)
      BY <2>5 DEF PoolsAgree, ClientsOf
    <3>2. /\ Len(queue'[p]) = Len(queue[p]) + 1 /\ queue'[p][Len(queue[p]) + 1] = c
          /\ \A i \in 1 .. Len(queue[p]) : queue'[p][i] = queue[p][i]
      BY <2>1, <3>1
    <3>3. ASSUME NEW i \in 1 .. Len(queue'[p])
          PROVE  queue'[p][i] \in ClientsOf(p) /\ at'[queue'[p][i]] \in Waiting
      <4>1. CASE i = Len(queue[p]) + 1
        BY <1>1, <3>1, <3>2, <4>1
      <4>2. CASE i # Len(queue[p]) + 1
        <5>1. i \in 1 .. Len(queue[p])
          BY <2>1, <3>2, <4>2
        <5> QED
          BY <1>1, <2>1, <2>2, <3>2, <5>1 DEF QueueOf
      <4> QED
        BY <4>1, <4>2
    <3>4. ASSUME NEW i \in 1 .. Len(queue'[p]), NEW j \in 1 .. Len(queue'[p]), queue'[p][i] = queue'[p][j]
          PROVE  i = j
      <4>1. i \in 1 .. Len(queue[p]) \/ i = Len(queue[p]) + 1
        BY <2>1, <3>2
      <4>2. j \in 1 .. Len(queue[p]) \/ j = Len(queue[p]) + 1
        BY <2>1, <3>2
      <4> QED
        BY <2>1, <2>2, <3>2, <3>4, <4>1, <4>2 DEF QueueOf
    <3>5. QueueOf(p)'
      BY <2>1, <3>3, <3>4 DEF QueueOf
    <3>6. InUse(p) = ConnectionLimit
      <4>1. InUse(p) \in Nat
        BY Clients, UsedIs, PairsFinite DEF PoolsAgree
      <4> QED
        BY <2>1, <2>5, <4>1, PoolsAssumption DEF CountsFit
    <3> QED
      BY <2>1, <2>3, <2>5, <3>2, <3>5, <3>6, PoolsAssumption DEF CountsFit
  <2> QED
    BY <2>4, <2>5
<1> QED
  BY <1>2, <1>3, <1>4 DEF PoolsAgree

\* A connection that is given back, when nobody waits for it.
LEMMA GivesBack ==
  ASSUME PoolsAgree, NEW c \in Client, PoolOf(c) \in Pool, at[c] \notin Waiting, held[c] > 0,
         NEW where \in Stage, where \notin Waiting, HeldAt(where) = held[c] - 1,
         queue[PoolOf(c)] = <<>>,
         Moves(c, where), held' = [held EXCEPT ![c] = @ - 1], UNCHANGED <<env, queue>>
  PROVE  PoolsAgree'
<1>1. \A d \in Client : /\ at'[d] = IF d = c THEN where ELSE at[d]
                        /\ held'[d] = IF d = c THEN held[c] - 1 ELSE held[d]
  BY DEF PoolsAgree, Moves
<1>2. at' \in [Client -> Stage] /\ held' \in [Client -> 0 .. 2]
  <2>1. held[c] \in 0 .. 2 /\ held[c] - 1 \in 0 .. 2
    BY DEF PoolsAgree
  <2> QED
    BY <2>1 DEF PoolsAgree, Moves
<1>3. \A d \in Client : held'[d] = HeldAt(at'[d])
  BY <1>1 DEF PoolsAgree
<1>4. ASSUME NEW p \in Pool PROVE QueueOf(p)' /\ CountsFit(p)'
  <2>1. /\ QueueOf(p) /\ CountsFit(p) /\ ClientsOf(p) \in SUBSET Client /\ ClientsOf(p)' = ClientsOf(p)
        /\ IsFiniteSet(ClientsOf(p)) /\ held \in [Client -> 0 .. 2]
    BY Clients, PoolsStay DEF PoolsAgree
  <2>2. \A i \in 1 .. Len(queue[p]) : queue[p][i] \in Client /\ queue[p][i] # c
    BY <2>1 DEF QueueOf
  <2>3. QueueOf(p)'
    <3>1. \A i \in 1 .. Len(queue[p]) : at'[queue[p][i]] = at[queue[p][i]]
      BY <1>1, <2>2
    <3> QED
      BY <2>1, <3>1, QueueStays
  <2>4. InUse(p)' = Cardinality(Pairs(ClientsOf(p), held')) /\ InUse(p) = Cardinality(Pairs(ClientsOf(p), held))
    <3>1. InUse(p)' = Cardinality(Pairs(ClientsOf(p)', held'))
      BY DEF InUse, Connections, Pairs
    <3>2. InUse(p) = Cardinality(Pairs(ClientsOf(p), held))
      BY DEF InUse, Connections, Pairs
    <3> QED
      BY <2>1, <3>1, <3>2
  <2>5. CASE p # PoolOf(c)
    <3>1. \A d \in ClientsOf(p) : held'[d] = held[d]
      BY <1>1, <2>5 DEF ClientsOf
    <3>2. InUse(p)' = InUse(p)
      <4>1. PICK g : g = held'
        OBVIOUS
      <4>2. Pairs(ClientsOf(p), g) = Pairs(ClientsOf(p), held)
        BY <3>1, <4>1 DEF Pairs
      <4> QED
        BY <2>4, <4>1, <4>2
    <3> QED
      BY <2>1, <2>3, <3>2 DEF CountsFit
  <2>6. CASE p = PoolOf(c)
    <3>1. c \in ClientsOf(p)
      BY <2>6 DEF ClientsOf
    <3>2. InUse(p)' = InUse(p) - 1 /\ InUse(p) \in Nat
      <4>1. PICK g : g = held'
        OBVIOUS
      <4>2. Cardinality(Pairs(ClientsOf(p), g)) = Cardinality(Pairs(ClientsOf(p), held)) - 1
        BY <2>1, <3>1, <4>1, PairsShrink
      <4>3. Cardinality(Pairs(ClientsOf(p), held)) \in Nat
        BY <2>1, PairsFinite
      <4> QED
        BY <2>4, <4>1, <4>2, <4>3
    <3> QED
      BY <2>1, <2>3, <2>6, <3>2, PoolsAssumption DEF CountsFit
  <2> QED
    BY <2>5, <2>6
<1> QED
  BY <1>2, <1>3, <1>4 DEF PoolsAgree

\* A connection that goes to the first who waits for it.
LEMMA HandsOver ==
  ASSUME PoolsAgree, NEW c \in Client, PoolOf(c) \in Pool, at[c] \notin Waiting, held[c] > 0,
         NEW where \in Stage, where \notin Waiting, HeldAt(where) = held[c] - 1,
         queue[PoolOf(c)] # <<>>, NEW first, first = Head(queue[PoolOf(c)]),
         at' = [at EXCEPT ![c] = where, ![first] = Served(@)],
         held' = [held EXCEPT ![c] = @ - 1, ![first] = @ + 1],
         queue' = [queue EXCEPT ![PoolOf(c)] = Tail(@)], UNCHANGED env
  PROVE  PoolsAgree' /\ at[first] \in Waiting /\ first \in Client /\ first # c
<1> DEFINE q == PoolOf(c)
<1>1. queue[q] \in Seq(Client) /\ QueueOf(q) /\ 1 \in 1 .. Len(queue[q]) /\ first = queue[q][1]
  <2>1. queue[q] \in Seq(Client) /\ QueueOf(q)
    BY DEF PoolsAgree
  <2> QED
    BY <2>1
<1>2. first \in ClientsOf(q) /\ at[first] \in Waiting
  BY <1>1 DEF QueueOf
<1>3. first \in Client /\ first # c /\ c \in ClientsOf(q)
  BY <1>2 DEF ClientsOf
<1>4. HeldAt(Served(at[first])) = held[first] + 1 /\ Served(at[first]) \in Stage \ Waiting /\ held[first] < 2
  <2>1. held[first] = HeldAt(at[first])
    BY <1>3 DEF PoolsAgree
  <2>2. CASE at[first] = "waits"
    <3>1. Served(at[first]) = "works"
      BY <2>2 DEF Served
    <3>2. HeldAt("works") = 1 /\ held[first] = 0
      BY <2>1, <2>2 DEF HeldAt
    <3>3. "works" \in Stage \ Waiting
      BY DEF Waiting, Stage
    <3> QED
      BY <3>1, <3>2, <3>3
  <2>3. CASE at[first] = "waits to report"
    <3>1. Served(at[first]) = "reports"
      BY <2>3 DEF Served
    <3>2. HeldAt("reports") = 2 /\ held[first] = 1
      BY <2>1, <2>3 DEF HeldAt
    <3>3. "reports" \in Stage \ Waiting
      BY DEF Waiting, Stage
    <3> QED
      BY <3>1, <3>2, <3>3
  <2> QED
    BY <1>2, <2>2, <2>3 DEF Waiting
<1>5. \A d \in Client :
         /\ at'[d] = IF d = c THEN where ELSE IF d = first THEN Served(at[first]) ELSE at[d]
         /\ held'[d] = IF d = c THEN held[c] - 1 ELSE IF d = first THEN held[first] + 1 ELSE held[d]
  BY <1>3 DEF PoolsAgree
<1>6. at' \in [Client -> Stage] /\ held' \in [Client -> 0 .. 2]
  <2>1. held[c] \in 0 .. 2 /\ held[c] - 1 \in 0 .. 2 /\ held[first] \in 0 .. 2 /\ held[first] + 1 \in 0 .. 2
    BY <1>3, <1>4 DEF PoolsAgree
  <2>2. \A d \in Client : at'[d] \in Stage /\ held'[d] \in 0 .. 2
    BY <1>4, <1>5, <2>1 DEF PoolsAgree
  <2>3. DOMAIN at' = Client /\ DOMAIN held' = Client
    BY DEF PoolsAgree
  <2>4. at' = [d \in Client |-> at'[d]] /\ held' = [d \in Client |-> held'[d]]
    BY <2>3 DEF PoolsAgree
  <2> QED
    BY <2>2, <2>4
<1>7. \A d \in Client : held'[d] = HeldAt(at'[d])
  BY <1>4, <1>5 DEF PoolsAgree
<1>8. queue' \in [Pool -> Seq(Client)]
  <2>1. Tail(queue[q]) \in Seq(Client)
    BY <1>1
  <2> QED
    BY <2>1 DEF PoolsAgree
<1>9. ASSUME NEW p \in Pool PROVE QueueOf(p)' /\ CountsFit(p)'
  <2>1. /\ QueueOf(p) /\ CountsFit(p) /\ ClientsOf(p) \in SUBSET Client /\ ClientsOf(p)' = ClientsOf(p)
        /\ IsFiniteSet(ClientsOf(p)) /\ held \in [Client -> 0 .. 2]
    BY Clients, PoolsStay DEF PoolsAgree
  <2>2. InUse(p)' = Cardinality(Pairs(ClientsOf(p), held')) /\ InUse(p) = Cardinality(Pairs(ClientsOf(p), held))
    <3>1. InUse(p)' = Cardinality(Pairs(ClientsOf(p)', held'))
      BY DEF InUse, Connections, Pairs
    <3>2. InUse(p) = Cardinality(Pairs(ClientsOf(p), held))
      BY DEF InUse, Connections, Pairs
    <3> QED
      BY <2>1, <3>1, <3>2
  <2>3. CASE p # q
    <3>1. \A d \in ClientsOf(p) : d # c /\ d # first
      BY <1>2, <2>3 DEF ClientsOf
    <3>2. queue'[p] = queue[p]
      BY <2>3 DEF PoolsAgree
    <3>3. InUse(p)' = InUse(p)
      <4>1. \A d \in ClientsOf(p) : held'[d] = held[d]
        BY <1>5, <2>1, <3>1
      <4>2. PICK g : g = held'
        OBVIOUS
      <4>3. Pairs(ClientsOf(p), g) = Pairs(ClientsOf(p), held)
        BY <4>1, <4>2 DEF Pairs
      <4> QED
        BY <2>2, <4>2, <4>3
    <3>4. \A i \in 1 .. Len(queue[p]) : queue[p][i] \in ClientsOf(p) /\ at'[queue[p][i]] = at[queue[p][i]]
      BY <1>5, <2>1, <3>1 DEF QueueOf
    <3>5. QueueOf(p)'
      BY <2>1, <3>2, <3>4, QueueStays
    <3> QED
      BY <2>1, <3>2, <3>3, <3>5 DEF CountsFit
  <2>4. CASE p = q
    <3>1. queue'[p] = Tail(queue[p])
      BY <2>4 DEF PoolsAgree
    <3>2. /\ Len(queue[p]) \in Nat \ {0} /\ Len(queue'[p]) = Len(queue[p]) - 1
          /\ \A i \in 1 .. Len(queue'[p]) : queue'[p][i] = queue[p][i + 1]
      <4>1. queue[p] \in Seq(Client) /\ queue[p] # <<>>
        BY <1>1, <2>4
      <4>2. Len(queue[p]) \in Nat \ {0}
        BY <4>1
      <4>3. /\ Len(Tail(queue[p])) = Len(queue[p]) - 1
            /\ \A i \in 1 .. Len(Tail(queue[p])) : Tail(queue[p])[i] = queue[p][i + 1]
        BY <4>1, HeadTailProperties
      <4> QED
        BY <3>1, <4>2, <4>3
    <3>3. ASSUME NEW i \in 1 .. Len(queue'[p])
          PROVE  queue'[p][i] \in ClientsOf(p) /\ at'[queue'[p][i]] \in Waiting
      <4>1. i + 1 \in 1 .. Len(queue[p]) /\ i + 1 # 1 /\ queue'[p][i] = queue[p][i + 1]
        BY <3>2
      <4>2. queue[p][i + 1] \in ClientsOf(p) /\ at[queue[p][i + 1]] \in Waiting /\ queue[p][i + 1] # first
        BY <1>1, <2>1, <2>4, <4>1 DEF QueueOf
      <4> QED
        BY <1>5, <2>1, <4>1, <4>2
    <3>4. ASSUME NEW i \in 1 .. Len(queue'[p]), NEW j \in 1 .. Len(queue'[p]), queue'[p][i] = queue'[p][j]
          PROVE  i = j
      <4>1. i + 1 \in 1 .. Len(queue[p]) /\ j + 1 \in 1 .. Len(queue[p]) /\ queue[p][i + 1] = queue[p][j + 1]
        BY <3>2, <3>4
      <4>2. i + 1 = j + 1
        BY <2>1, <4>1 DEF QueueOf
      <4> QED
        BY <3>2, <4>2
    <3>5. InUse(p)' = InUse(p)
      <4>1. PICK g : g = held'
        OBVIOUS
      <4>2. Cardinality(Pairs(ClientsOf(p), g)) = Cardinality(Pairs(ClientsOf(p), held))
        <5>1. c \in ClientsOf(p) /\ first \in ClientsOf(p) /\ first # c /\ held[first] < 2
          BY <1>2, <1>3, <1>4, <2>4
        <5> QED
          <6>1. PICK S : S = ClientsOf(p)
            OBVIOUS
          <6>2. S \in SUBSET Client /\ IsFiniteSet(S) /\ c \in S /\ first \in S
            BY <2>1, <5>1, <6>1
          <6>3. PICK h : h = held
            OBVIOUS
          <6>4. h \in [Client -> 0 .. 2] /\ h[c] > 0 /\ h[first] < 2
            BY <2>1, <5>1, <6>3
          <6>5. g[c] = h[c] - 1 /\ g[first] = h[first] + 1 /\ \A d \in S : d \notin {c, first} => g[d] = h[d]
            BY <1>5, <2>1, <4>1, <5>1, <6>1, <6>3
          <6>6. Cardinality(Pairs(S, g)) = Cardinality(Pairs(S, h))
            BY ONLY <5>1, <6>2, <6>4, <6>5, PairsMove
          <6> QED
            BY <6>1, <6>3, <6>6
      <4> QED
        BY <2>2, <4>1, <4>2
    <3>6. QueueOf(p)'
      <4>1. \A i \in 1 .. Len(queue'[p]) : queue'[p][i] \in ClientsOf(p)' /\ at'[queue'[p][i]] \in Waiting
        BY <2>1, <3>3
      <4>2. \A i, j \in 1 .. Len(queue'[p]) : queue'[p][i] = queue'[p][j] => i = j
        BY <3>4
      <4> QED
        BY <4>1, <4>2 DEF QueueOf
    <3>7. queue[p] # <<>>
      BY <2>4
    <3>8. Len(queue'[p]) <= QueueLimit
      BY <2>1, <3>2, PoolsAssumption DEF CountsFit
    <3> QED
      BY <2>1, <3>5, <3>6, <3>7, <3>8 DEF CountsFit
  <2> QED
    BY <2>3, <2>4
<1> QED
  BY <1>2, <1>3, <1>6, <1>7, <1>8, <1>9 DEF PoolsAgree

-----------------------------------------------------------------------------
(* The two calls of the pool *)

LEMMA Gets ==
  ASSUME PoolsAgree, NEW c \in Client, PoolOf(c) \in Pool, at[c] \notin Waiting, held[c] < 2,
         NEW now \in Stage, now \notin Waiting, HeldAt(now) = held[c] + 1,
         NEW later \in Waiting, HeldAt(later) = held[c],
         NEW rejected \in Stage, rejected \notin Waiting, HeldAt(rejected) = held[c],
         GetConnection(c, now, later, rejected), UNCHANGED env
  PROVE  /\ PoolsAgree'
         /\ \E where \in {now, later, rejected} :
               /\ Moves(c, where)
               /\ where = rejected => ~(Len(queue[PoolOf(c)]) < QueueLimit)
<1>1. now # rejected
  BY DEF PoolsAgree
<1>2. CASE InUse(PoolOf(c)) < ConnectionLimit
  <2>1. Moves(c, now) /\ held' = [held EXCEPT ![c] = @ + 1] /\ UNCHANGED queue
    BY <1>2 DEF GetConnection, Moves
  <2>2. PoolsAgree'
    BY <1>2, <2>1, TakesOne
  <2> QED
    BY <1>1, <2>1, <2>2
<1>3. CASE ~(InUse(PoolOf(c)) < ConnectionLimit) /\ Len(queue[PoolOf(c)]) < QueueLimit
  <2>1. Moves(c, later) /\ queue' = [queue EXCEPT ![PoolOf(c)] = Append(@, c)] /\ UNCHANGED held
    BY <1>3 DEF GetConnection, Moves
  <2>2. PoolsAgree'
    BY <1>3, <2>1, QueuesUp
  <2> QED
    BY <2>1, <2>2
<1>4. CASE ~(InUse(PoolOf(c)) < ConnectionLimit) /\ ~(Len(queue[PoolOf(c)]) < QueueLimit)
  <2>1. Moves(c, rejected) /\ UNCHANGED <<held, queue>>
    BY <1>4 DEF GetConnection, Moves
  <2>2. PoolsAgree'
    BY <2>1, MovesOn
  <2> QED
    BY <1>4, <2>1, <2>2
<1> QED
  BY <1>2, <1>3, <1>4

LEMMA Releases ==
  ASSUME PoolsAgree, NEW c \in Client, PoolOf(c) \in Pool, at[c] \notin Waiting, held[c] > 0,
         NEW where \in Stage, where \notin Waiting, HeldAt(where) = held[c] - 1,
         ReleaseConnection(c, where), UNCHANGED env
  PROVE  /\ PoolsAgree' /\ at'[c] = where
         /\ \A d \in Client : d # c => at'[d] = at[d] \/ (at[d] \in Waiting /\ at'[d] = Served(at[d]))
<1>1. CASE queue[PoolOf(c)] = <<>>
  <2>1. Moves(c, where) /\ held' = [held EXCEPT ![c] = @ - 1] /\ UNCHANGED queue
    BY <1>1 DEF ReleaseConnection, Moves
  <2>2. PoolsAgree'
    BY <1>1, <2>1, GivesBack
  <2> QED
    BY <2>1, <2>2 DEF Moves, PoolsAgree
<1>2. CASE queue[PoolOf(c)] # <<>>
  <2>1. PICK first : first = Head(queue[PoolOf(c)])
    OBVIOUS
  <2>2. /\ at' = [at EXCEPT ![c] = where, ![first] = Served(@)]
        /\ held' = [held EXCEPT ![c] = @ - 1, ![first] = @ + 1]
        /\ queue' = [queue EXCEPT ![PoolOf(c)] = Tail(@)]
    BY <1>2, <2>1 DEF ReleaseConnection
  <2>3. PoolsAgree' /\ at[first] \in Waiting /\ first \in Client /\ first # c
    BY <1>2, <2>1, <2>2, HandsOver
  <2> QED
    BY <2>2, <2>3 DEF PoolsAgree
<1> QED
  BY <1>1, <1>2

\* What a step of c is for the others.
LEMMA OthersGoOn ==
  ASSUME PoolsIInv, NEW c \in Client, PoolOf(c) \in Pool, UNCHANGED env,
         \A d \in Client : d # c => at'[d] = at[d] \/ (at[d] \in Waiting /\ at'[d] = Served(at[d]))
  PROVE  /\ RefusedRests'
         /\ \A w \in RouteWorker : w # c => at'[w] = at[w] \/ (at[w] = "waits" /\ at'[w] = "works")
<1>1. "refused" \notin Pool
  BY DEF Pool, Roles
<1>2. RefusedRests'
  <2> SUFFICES ASSUME NEW d \in Client, PoolOf(d)' = "refused" PROVE at'[d] = "idle"
    BY DEF RefusedRests
  <2>1. PoolOf(d) = "refused" /\ d # c
    BY <1>1, PoolsStay
  <2>2. at[d] = "idle"
    BY <2>1 DEF PoolsIInv, RefusedRests
  <2> QED
    BY <2>1, <2>2 DEF Waiting
<1>3. ASSUME NEW w \in RouteWorker, w # c PROVE at'[w] = at[w] \/ (at[w] = "waits" /\ at'[w] = "works")
  <2>1. w \in Client /\ at[w] \in {"idle", "next", "waits", "works", "done", "rejected"}
    BY DEF PoolsIInv, RouteFits, Client
  <2>2. at[w] \in Waiting => at[w] = "waits" /\ Served(at[w]) = "works"
    BY <2>1 DEF Waiting, Served
  <2> QED
    BY <1>3, <2>1, <2>2
<1> QED
  BY <1>2, <1>3

\* A step that leaves the route as it is, or serves one of its workers.
LEMMA RouteGoesOn ==
  ASSUME PoolsIInv, UNCHANGED RouteVars,
         \A w \in RouteWorker : at'[w] = at[w] \/ (at[w] = "waits" /\ at'[w] = "works")
  PROVE  RouteFits' /\ (NoneRejected => NoneRejected')
<1> USE DEF RouteVars
<1>1. RouteFits'
  BY DEF PoolsIInv, RouteFits, ResultsInPlace
<1> QED
  BY <1>1 DEF NoneRejected

LEMMA InAPool ==
  ASSUME PoolsIInv, NEW c \in Client, at[c] # "idle"
  PROVE  PoolOf(c) \in Pool
<1>1. PoolOf(c) \in Pool \cup {"refused"}
  BY Clients DEF PoolsIInv, PoolsAgree
<1> QED
  BY <1>1 DEF PoolsIInv, RefusedRests

-----------------------------------------------------------------------------
(* Transactions *)

LEMMA BeginKeeps ==
  ASSUME PoolsIInv, NEW t \in Transaction, BeginTransaction(t) \/ AskToReport(t)
  PROVE  PoolsIInv' /\ (NoneRejected => NoneRejected')
<1>1. t \in Client /\ t \notin RouteWorker /\ UNCHANGED <<env, RouteVars>>
  BY PoolsAssumption DEF Client, BeginTransaction, AskToReport
<1>2. PoolsAgree /\ held[t] = HeldAt(at[t])
  BY <1>1 DEF PoolsIInv, PoolsAgree
<1>3. PoolsAgree' /\ (\E where \in Stage : Moves(t, where)) /\ PoolOf(t) \in Pool
  <2>1. CASE BeginTransaction(t)
    <3>1. at[t] = "idle" /\ GetConnection(t, "works", "waits", "idle")
      BY <2>1 DEF BeginTransaction
    <3>2. PoolOf(t) \in Pool
      BY <1>1, <1>2, <2>1, Clients DEF BeginTransaction, PoolsAgree
    <3>3. held[t] = 0 /\ HeldAt("works") = 1 /\ HeldAt("waits") = 0 /\ HeldAt("idle") = 0
      BY <1>2, <3>1 DEF HeldAt
    <3>4. "works" \in Stage \ Waiting /\ "idle" \in Stage \ Waiting /\ "waits" \in Waiting /\ "waits" \in Stage
      BY DEF Stage, Waiting
    <3>5. PoolsAgree' /\ \E where \in {"works", "waits", "idle"} : Moves(t, where)
      BY <1>1, <1>2, <3>1, <3>2, <3>3, <3>4, Gets
    <3> QED
      BY <3>2, <3>4, <3>5
  <2>2. CASE AskToReport(t)
    <3>1. at[t] = "failed" /\ GetConnection(t, "reports", "waits to report", "reported")
      BY <2>2 DEF AskToReport
    <3>2. PoolOf(t) \in Pool
      BY <1>1, <3>1, InAPool
    <3>3. /\ held[t] < 2 /\ HeldAt("reports") = held[t] + 1
          /\ HeldAt("waits to report") = held[t] /\ HeldAt("reported") = held[t]
      <4>1. HeldAt("failed") = 1 /\ HeldAt("reports") = 2 /\ HeldAt("waits to report") = 1 /\ HeldAt("reported") = 1
        BY DEF HeldAt
      <4>2. held[t] = 1
        BY <1>2, <3>1, <4>1, Zenon
      <4>3. held[t] < 2
        BY <4>2
      <4>4. HeldAt("reports") = held[t] + 1
        <5>1. held[t] + 1 = 2
          BY <4>2
        <5> QED
          BY <4>1, <5>1, Zenon
      <4> QED
        BY <4>1, <4>2, <4>3, <4>4
    <3>4. /\ "reports" \in Stage /\ "reports" \notin Waiting
          /\ "reported" \in Stage /\ "reported" \notin Waiting
          /\ "waits to report" \in Waiting /\ "waits to report" \in Stage /\ at[t] \notin Waiting
      BY <3>1 DEF Stage, Waiting
    <3>5. PoolsAgree' /\ \E where \in {"reports", "waits to report", "reported"} : Moves(t, where)
      <4>1. PICK now, later, rejected : now = "reports" /\ later = "waits to report" /\ rejected = "reported"
        OBVIOUS
      <4>2. now \in Stage /\ now \notin Waiting /\ later \in Waiting /\ rejected \in Stage /\ rejected \notin Waiting
        BY <3>4, <4>1
      <4>3. HeldAt(now) = held[t] + 1 /\ HeldAt(later) = held[t] /\ HeldAt(rejected) = held[t]
        BY <3>3, <4>1
      <4>4. GetConnection(t, now, later, rejected)
        BY <3>1, <4>1
      <4>5. PoolsAgree /\ t \in Client /\ UNCHANGED env
        BY <1>1, <1>2
      <4>6. held[t] < 2 /\ at[t] \notin Waiting
        BY <3>3, <3>4
      <4>7. PoolsAgree' /\ \E where \in {now, later, rejected} : Moves(t, where)
        BY ONLY <3>2, <4>2, <4>3, <4>4, <4>5, <4>6, Gets
      <4> QED
        BY <4>1, <4>7
    <3> QED
      BY <3>2, <3>4, <3>5
  <2> QED
    BY <2>1, <2>2
<1>4. \A d \in Client : d # t => at'[d] = at[d]
  BY <1>2, <1>3 DEF Moves, PoolsAgree
<1>5. RefusedRests'
  BY <1>1, <1>3, <1>4, OthersGoOn
<1>6. \A w \in RouteWorker : at'[w] = at[w]
  BY <1>1, <1>4 DEF Client
<1>7. RouteFits' /\ (NoneRejected => NoneRejected')
  BY <1>1, <1>6, RouteGoesOn
<1> QED
  BY <1>3, <1>5, <1>7 DEF PoolsIInv

\* A transaction that gives a connection back.
LEMMA ReleaseKeeps ==
  ASSUME PoolsIInv, NEW t \in Transaction, UNCHANGED <<env, RouteVars>>,
         \/ at[t] = "works" /\ ReleaseConnection(t, "idle")
         \/ at[t] = "reports" /\ ReleaseConnection(t, "reported")
         \/ at[t] = "reported" /\ ReleaseConnection(t, "idle")
  PROVE  PoolsIInv' /\ (NoneRejected => NoneRejected')
<1>1. t \in Client /\ t \notin RouteWorker
  BY PoolsAssumption DEF Client
<1>2. PoolsAgree /\ held[t] = HeldAt(at[t]) /\ PoolOf(t) \in Pool
  BY <1>1, InAPool DEF PoolsIInv, PoolsAgree
<1>3. PICK where \in {"idle", "reported"} :
          ReleaseConnection(t, where) /\ HeldAt(where) = held[t] - 1 /\ held[t] > 0 /\ at[t] \notin Waiting
  <2>1. /\ HeldAt("idle") = 0 /\ HeldAt("works") = 1 /\ HeldAt("reports") = 2 /\ HeldAt("reported") = 1
        /\ \A place \in {"works", "reports", "reported"} : place \notin Waiting
    BY DEF HeldAt, Waiting
  <2>2. CASE at[t] = "works" /\ ReleaseConnection(t, "idle")
    BY <1>2, <2>1, <2>2
  <2>3. CASE at[t] = "reports" /\ ReleaseConnection(t, "reported")
    BY <1>2, <2>1, <2>3
  <2>4. CASE at[t] = "reported" /\ ReleaseConnection(t, "idle")
    BY <1>2, <2>1, <2>4
  <2> QED
    BY <2>2, <2>3, <2>4
<1>4. where \in Stage /\ where \notin Waiting
  BY DEF Stage, Waiting
<1>5. /\ PoolsAgree'
      /\ \A d \in Client : d # t => at'[d] = at[d] \/ (at[d] \in Waiting /\ at'[d] = Served(at[d]))
  BY <1>1, <1>2, <1>3, <1>4, Releases
<1>6. /\ RefusedRests'
      /\ \A w \in RouteWorker : at'[w] = at[w] \/ (at[w] = "waits" /\ at'[w] = "works")
  BY <1>1, <1>2, <1>5, OthersGoOn
<1>7. RouteFits' /\ (NoneRejected => NoneRejected')
  BY <1>6, RouteGoesOn
<1> QED
  BY <1>5, <1>6, <1>7 DEF PoolsIInv

LEMMA TransactionsKeep ==
  ASSUME PoolsIInv, NEW t \in Transaction,
         BeginTransaction(t) \/ TransactionStep(t) \/ FailTransaction(t)
  PROVE  PoolsIInv' /\ (NoneRejected => NoneRejected')
<1>1. CASE BeginTransaction(t) \/ AskToReport(t)
  BY <1>1, BeginKeeps
<1>2. CASE Commit(t) \/ Report(t) \/ EndFailed(t) \/ (FailTransaction(t) /\ ~Reports(t))
  BY <1>2, ReleaseKeeps DEF Commit, Report, EndFailed, FailTransaction
<1>3. CASE FailTransaction(t) /\ Reports(t)
  <2>1. at[t] = "works" /\ Moves(t, "failed") /\ UNCHANGED <<env, held, queue, RouteVars>>
    BY <1>3 DEF FailTransaction, Moves
  <2>2. t \in Client /\ t \notin RouteWorker
    BY PoolsAssumption DEF Client
  <2>3. PoolsAgree /\ held[t] = HeldAt(at[t]) /\ PoolOf(t) \in Pool
    BY <2>1, <2>2, InAPool DEF PoolsIInv, PoolsAgree
  <2>4. /\ HeldAt("failed") = held[t] /\ at[t] \notin Waiting
        /\ "failed" \in Stage /\ "failed" \notin Waiting
    BY <2>1, <2>3 DEF HeldAt, Stage, Waiting
  <2>5. PoolsAgree'
    BY <2>1, <2>2, <2>3, <2>4, MovesOn
  <2>6. \A d \in Client : d # t => at'[d] = at[d]
    BY <2>1, <2>3 DEF Moves, PoolsAgree
  <2>7. RefusedRests'
    BY <2>1, <2>2, <2>3, <2>6, OthersGoOn
  <2>8. \A w \in RouteWorker : at'[w] = at[w]
    BY <2>2, <2>6 DEF Client
  <2>9. RouteFits' /\ (NoneRejected => NoneRejected')
    BY <2>1, <2>8, RouteGoesOn
  <2> QED
    BY <2>5, <2>7, <2>9 DEF PoolsIInv
<1> QED
  BY <1>1, <1>2, <1>3 DEF TransactionStep

-----------------------------------------------------------------------------
(* The route *)

LEMMA Workers == WorkerCount(TaskCount) \in 1 .. TaskCount
<1>1. \A a, b \in Nat : Max({a, b}) = IF a >= b THEN a ELSE b
  <2> SUFFICES ASSUME NEW a \in Nat, NEW b \in Nat PROVE Max({a, b}) = IF a >= b THEN a ELSE b
    OBVIOUS
  <2>1. PICK m \in {a, b} : \A x \in {a, b} : m >= x
    OBVIOUS
  <2>2. \A x \in {a, b} : (\A y \in {a, b} : x >= y) => x = m
    BY <2>1
  <2>3. Max({a, b}) = m
    BY <2>1, <2>2 DEF Max
  <2> QED
    BY <2>1, <2>3
<1>2. \A a, b \in Nat : Min({a, b}) = IF a <= b THEN a ELSE b
  <2> SUFFICES ASSUME NEW a \in Nat, NEW b \in Nat PROVE Min({a, b}) = IF a <= b THEN a ELSE b
    OBVIOUS
  <2>1. PICK m \in {a, b} : \A x \in {a, b} : m <= x
    OBVIOUS
  <2>2. \A x \in {a, b} : (\A y \in {a, b} : x <= y) => x = m
    BY <2>1
  <2>3. Min({a, b}) = m
    BY <2>1, <2>2 DEF Min
  <2> QED
    BY <2>1, <2>3
<1>3. PICK n \in Nat \ {0} : n = Min({Concurrency, TaskCount}) /\ n <= TaskCount
  BY <1>2, PoolsAssumption
<1>4. Max({1, n}) = n
  BY <1>1
<1> QED
  BY <1>3, <1>4, PoolsAssumption DEF WorkerCount

LEMMA StartRouteKeeps ==
  ASSUME PoolsIInv, StartRoute
  PROVE  PoolsIInv' /\ (NoneRejected => NoneRejected')
<1>1. /\ RouteIdle /\ PoolOf(1) # "refused" /\ UNCHANGED <<env, held, queue>>
      /\ at' = [c \in Client |-> IF c \in 1 .. WorkerCount(TaskCount) THEN "next" ELSE at[c]]
      /\ nextIndex' = 1 /\ results' = [i \in 1 .. TaskCount |-> NoAnswer] /\ task' = [w \in RouteWorker |-> 0]
  BY DEF StartRoute
<1>2. WorkerCount(TaskCount) \in 1 .. TaskCount /\ RouteWorker = 1 .. TaskCount
  BY Workers, PoolsAssumption
<1>3. PoolsAgree /\ RefusedRests
  BY DEF PoolsIInv
<1>4. \A w \in RouteWorker : w \in Client /\ at[w] = "idle"
  BY <1>1 DEF RouteIdle, Client
<1>5. \A c \in Client : at'[c] = at[c] \/ (c \in RouteWorker /\ at[c] = "idle" /\ at'[c] = "next")
  <2>1. 1 .. WorkerCount(TaskCount) \subseteq RouteWorker
    BY <1>2, PoolsAssumption
  <2>2. \A c \in Client : at'[c] = IF c \in 1 .. WorkerCount(TaskCount) THEN "next" ELSE at[c]
    BY <1>1
  <2> QED
    BY <1>4, <2>1, <2>2
<1>6. PoolsAgree'
  <2>1. at' \in [Client -> Stage]
    BY <1>1, <1>3 DEF PoolsAgree, Stage
  <2>2. \A c \in Client : held'[c] = HeldAt(at'[c])
    <3>1. HeldAt("idle") = 0 /\ HeldAt("next") = 0
      BY DEF HeldAt
    <3> QED
      BY <1>1, <1>3, <1>5, <3>1 DEF PoolsAgree
  <2>3. ASSUME NEW p \in Pool PROVE QueueOf(p)' /\ CountsFit(p)'
    <3>1. QueueOf(p) /\ CountsFit(p)
      BY <1>3 DEF PoolsAgree
    <3>2. ClientsOf(p) \in SUBSET Client /\ ClientsOf(p)' = ClientsOf(p)
      BY <1>1, <1>3, Clients, PoolsStay DEF PoolsAgree
    <3>3. InUse(p)' = InUse(p)
      BY <1>1, <3>2 DEF InUse, Connections
    <3>4. \A c \in Client : at[c] \in Waiting => at'[c] = at[c]
      BY <1>5 DEF Waiting
    <3>5. QueueOf(p)'
      BY <1>1, <3>1, <3>2, <3>4 DEF QueueOf
    <3> QED
      BY <1>1, <3>1, <3>3, <3>5 DEF CountsFit
  <2> QED
    BY <1>1, <1>3, <2>1, <2>2, <2>3 DEF PoolsAgree
<1>7. RefusedRests'
  <2>1. \A w \in RouteWorker : PoolOf(w) # "refused"
    BY <1>1, <1>3, Clients DEF PoolsAgree
  <2> QED
    BY <1>1, <1>3, <1>5, <2>1, PoolsStay DEF RefusedRests
<1>8. \A w \in RouteWorker : at'[w] = IF w <= WorkerCount(TaskCount) THEN "next" ELSE "idle"
  BY <1>1, <1>2, <1>4
<1>9. RouteFits'
  <2>1. task' \in [RouteWorker -> 0 .. TaskCount] /\ nextIndex' \in 1 .. TaskCount + 1
    BY <1>1, PoolsAssumption
  <2>2. results' \in [1 .. TaskCount -> (1 .. TaskCount) \cup {NoAnswer}] /\ ResultsInPlace'
    BY <1>1 DEF ResultsInPlace
  <2> QED
    BY <1>8, <2>1, <2>2 DEF RouteFits
<1>10. NoneRejected'
  BY <1>8 DEF NoneRejected
<1> QED
  BY <1>6, <1>7, <1>9, <1>10 DEF PoolsIInv

\* A worker that has nothing to do is in no queue, and there is a place for it.
LEMMA RoomLeft ==
  ASSUME PoolsIInv, QueueHasRoom, NEW w \in RouteWorker, at[w] = "next"
  PROVE  Len(queue[PoolOf(w)]) < QueueLimit
<1>1. PICK p \in Pool : p = PoolOf(w) /\ p = PoolOf(1)
  <2>1. w \in Client /\ PoolOf(w) = PoolOf(1)
    BY Clients DEF PoolsIInv, PoolsAgree
  <2> QED
    BY <2>1, InAPool
<1>2. PICK n \in 1 .. TaskCount : n = WorkerCount(TaskCount)
  BY Workers
<1>3. PICK T : T = Transaction \cap ClientsOf(p)
  OBVIOUS
<1>4. IsFiniteSet(T) /\ Cardinality(T) \in Nat
  BY <1>3, PoolsAssumption, FS_Subset, FS_CardinalityType
<1>5. w \in 1 .. n
  BY <1>2, PoolsAssumption DEF PoolsIInv, RouteFits
<1>6. IsFiniteSet((1 .. n) \ {w}) /\ Cardinality((1 .. n) \ {w}) = n - 1
  <2>1. \A a, b \in Int : IsFiniteSet(a .. b) /\ Cardinality(a .. b) = IF a > b THEN 0 ELSE b - a + 1
    BY FS_Interval
  <2>2. IsFiniteSet(1 .. n) /\ Cardinality(1 .. n) = n
    BY <1>2, <2>1
  <2> QED
    BY ZenonT(30), <1>5, <2>2, FS_RemoveElement
<1>7. PICK W : W = T \cup ((1 .. n) \ {w})
  OBVIOUS
<1>8. IsFiniteSet(W) /\ Cardinality(W) <= Cardinality(T) + n - 1 /\ Cardinality(W) \in Nat
  <2>1. /\ IsFiniteSet(W)
        /\ Cardinality(W) = Cardinality(T) + Cardinality((1 .. n) \ {w}) - Cardinality(T \cap ((1 .. n) \ {w}))
    BY <1>4, <1>6, <1>7, FS_Union
  <2>2. Cardinality(T \cap ((1 .. n) \ {w})) \in Nat
    BY <1>4, FS_Subset, FS_CardinalityType
  <2>3. Cardinality(W) \in Nat
    BY <2>1, FS_CardinalityType
  <2> QED
    BY <1>4, <1>6, <2>1, <2>2, <2>3, PoolsAssumption
<1>9. QueueOf(p) /\ queue[p] \in Seq(Client) /\ ClientsOf(p) \in SUBSET Client
  BY Clients DEF PoolsIInv, PoolsAgree
<1>10. PICK L \in Nat : L = Len(queue[p])
  BY <1>9
<1>11. ASSUME NEW i \in 1 .. L PROVE queue[p][i] \in W
  <2>1. PICK d \in Client : d = queue[p][i] /\ d \in ClientsOf(p) /\ at[d] \in Waiting
    BY <1>9, <1>10 DEF QueueOf
  <2>2. d # w
    BY <2>1 DEF Waiting
  <2>3. CASE d \in Transaction
    BY <1>3, <1>7, <2>1, <2>3
  <2>4. CASE d \in RouteWorker
    <3>1. at[d] # "idle"
      BY <2>1 DEF Waiting
    <3>2. d \in 1 .. n
      BY <1>2, <2>4, <3>1, PoolsAssumption DEF PoolsIInv, RouteFits
    <3> QED
      BY <1>7, <2>1, <2>2, <3>2
  <2> QED
    BY <2>3, <2>4 DEF Client
<1>12. PICK f : f = [i \in 1 .. L |-> queue[p][i]]
  OBVIOUS
<1>13. f \in Injection(1 .. L, W)
  BY <1>9, <1>10, <1>11, <1>12 DEF Injection, IsInjective, QueueOf
<1>14. Cardinality(1 .. L) <= Cardinality(W)
  BY <1>8, <1>13, FS_Injection
<1>15. Cardinality(1 .. L) = L
  <2>1. \A a, b \in Int : Cardinality(a .. b) = IF a > b THEN 0 ELSE b - a + 1
    BY FS_Interval
  <2> QED
    BY <1>10, <2>1
<1>16. Cardinality(T) + n <= QueueLimit
  BY <1>1, <1>2, <1>3 DEF QueueHasRoom
<1> QED
  BY <1>1, <1>4, <1>8, <1>10, <1>14, <1>15, <1>16, PoolsAssumption

LEMMA NextTaskKeeps ==
  ASSUME PoolsIInv, NEW w \in RouteWorker, NextTask(w)
  PROVE  PoolsIInv' /\ (QueueHasRoom /\ NoneRejected => NoneRejected')
<1>1. /\ at[w] = "next" /\ nextIndex <= TaskCount /\ UNCHANGED <<env, results>>
      /\ task' = [task EXCEPT ![w] = nextIndex] /\ nextIndex' = nextIndex + 1
      /\ GetConnection(w, "works", "waits", "rejected")
  BY DEF NextTask
<1>2. w \in Client /\ PoolsAgree /\ held[w] = HeldAt(at[w]) /\ PoolOf(w) \in Pool
  <2>1. w \in Client
    BY DEF Client
  <2> QED
    BY <1>1, <2>1, InAPool DEF PoolsIInv, PoolsAgree
<1>3. held[w] = 0 /\ HeldAt("works") = 1 /\ HeldAt("waits") = 0 /\ HeldAt("rejected") = 0
  BY <1>1, <1>2 DEF HeldAt
<1>4. /\ "works" \in Stage /\ "works" \notin Waiting /\ "waits" \in Waiting
      /\ "rejected" \in Stage /\ "rejected" \notin Waiting /\ at[w] \notin Waiting
  BY <1>1 DEF Stage, Waiting
<1>5. /\ PoolsAgree'
      /\ \E where \in {"works", "waits", "rejected"} :
            Moves(w, where) /\ (where = "rejected" => ~(Len(queue[PoolOf(w)]) < QueueLimit))
  BY <1>1, <1>2, <1>3, <1>4, Gets
<1>6. PICK where \in {"works", "waits", "rejected"} :
          Moves(w, where) /\ (where = "rejected" => ~(Len(queue[PoolOf(w)]) < QueueLimit))
  BY <1>5
<1>7. at'[w] = where /\ \A d \in Client : d # w => at'[d] = at[d]
  BY <1>2, <1>6 DEF Moves, PoolsAgree
<1>8. RefusedRests'
  BY <1>1, <1>2, <1>7, OthersGoOn
<1>9. RouteFits'
  <2>1. nextIndex \in 1 .. TaskCount /\ nextIndex' \in 1 .. TaskCount + 1
    BY <1>1, PoolsAssumption DEF PoolsIInv, RouteFits
  <2>2. task' \in [RouteWorker -> 0 .. TaskCount] /\ task'[w] \in 1 .. TaskCount
    BY <1>1, <2>1 DEF PoolsIInv, RouteFits
  <2>3. \A v \in RouteWorker : v # w => at'[v] = at[v] /\ task'[v] = task[v]
    BY <1>1, <1>7 DEF Client, PoolsIInv, RouteFits
  <2> QED
    BY <1>1, <1>7, <2>1, <2>2, <2>3 DEF PoolsIInv, RouteFits, ResultsInPlace
<1>10. ASSUME QueueHasRoom, NoneRejected PROVE NoneRejected'
  <2>1. where # "rejected"
    BY <1>1, <1>6, <1>10, RoomLeft
  <2>2. \A v \in RouteWorker : v # w => at'[v] = at[v]
    BY <1>7 DEF Client
  <2> QED
    BY <1>7, <1>10, <2>1, <2>2 DEF NoneRejected
<1> QED
  BY <1>5, <1>8, <1>9, <1>10 DEF PoolsIInv

LEMMA NoMoreTasksKeeps ==
  ASSUME PoolsIInv, NEW w \in RouteWorker, NoMoreTasks(w)
  PROVE  PoolsIInv' /\ (NoneRejected => NoneRejected')
<1>1. at[w] = "next" /\ Moves(w, "done") /\ UNCHANGED <<env, held, queue, RouteVars>>
  BY DEF NoMoreTasks, Moves
<1>2. w \in Client /\ PoolsAgree /\ held[w] = HeldAt(at[w]) /\ PoolOf(w) \in Pool
  <2>1. w \in Client
    BY DEF Client
  <2> QED
    BY <1>1, <2>1, InAPool DEF PoolsIInv, PoolsAgree
<1>3. /\ HeldAt("done") = held[w] /\ at[w] \notin Waiting
      /\ "done" \in Stage /\ "done" \notin Waiting
  BY <1>1, <1>2 DEF HeldAt, Stage, Waiting
<1>4. PoolsAgree'
  BY <1>1, <1>2, <1>3, MovesOn
<1>5. at'[w] = "done" /\ \A d \in Client : d # w => at'[d] = at[d]
  BY <1>1, <1>2 DEF Moves, PoolsAgree
<1>6. RefusedRests'
  BY <1>1, <1>2, <1>5, OthersGoOn
<1>7. \A v \in RouteWorker : at'[v] = IF v = w THEN "done" ELSE at[v]
  BY <1>5 DEF Client
<1>8. RouteFits' /\ (NoneRejected => NoneRejected')
  <2>1. RouteFits'
    BY <1>1, <1>7 DEF PoolsIInv, RouteFits, ResultsInPlace, RouteVars
  <2> QED
    BY <1>7, <2>1 DEF NoneRejected
<1> QED
  BY <1>4, <1>6, <1>8 DEF PoolsIInv

LEMMA QueryAnsweredKeeps ==
  ASSUME PoolsIInv, NEW w \in RouteWorker, QueryAnswered(w)
  PROVE  PoolsIInv' /\ (NoneRejected => NoneRejected')
<1>1. /\ at[w] = "works" /\ UNCHANGED <<env, task, nextIndex>> /\ ReleaseConnection(w, "next")
      /\ results' = [results EXCEPT ![task[w]] = task[w]]
  BY DEF QueryAnswered, PlaceOf
<1>2. w \in Client /\ PoolsAgree /\ held[w] = HeldAt(at[w]) /\ PoolOf(w) \in Pool
  <2>1. w \in Client
    BY DEF Client
  <2> QED
    BY <1>1, <2>1, InAPool DEF PoolsIInv, PoolsAgree
<1>3. held[w] > 0 /\ HeldAt("next") = held[w] - 1
  <2>1. held[w] = 1 /\ HeldAt("next") = 0
    BY <1>1, <1>2 DEF HeldAt
  <2> QED
    BY <2>1
<1>4. at[w] \notin Waiting /\ "next" \in Stage /\ "next" \notin Waiting
  BY <1>1 DEF Stage, Waiting
<1>5. /\ PoolsAgree' /\ at'[w] = "next"
      /\ \A d \in Client : d # w => at'[d] = at[d] \/ (at[d] \in Waiting /\ at'[d] = Served(at[d]))
  BY <1>1, <1>2, <1>3, <1>4, Releases
<1>6. /\ RefusedRests'
      /\ \A v \in RouteWorker : v # w => at'[v] = at[v] \/ (at[v] = "waits" /\ at'[v] = "works")
  BY <1>1, <1>2, <1>5, OthersGoOn
<1>7. RouteFits' /\ (NoneRejected => NoneRejected')
  <2>1. task[w] \in 1 .. TaskCount /\ results \in [1 .. TaskCount -> (1 .. TaskCount) \cup {NoAnswer}]
    BY <1>1 DEF PoolsIInv, RouteFits
  <2>2. results' \in [1 .. TaskCount -> (1 .. TaskCount) \cup {NoAnswer}] /\ ResultsInPlace'
    BY <1>1, <2>1 DEF PoolsIInv, RouteFits, ResultsInPlace
  <2>3. w <= WorkerCount(TaskCount)
    BY <1>1 DEF PoolsIInv, RouteFits
  <2>4. RouteFits'
    BY <1>1, <1>5, <1>6, <2>2, <2>3 DEF PoolsIInv, RouteFits
  <2> QED
    BY <1>5, <1>6, <2>4 DEF NoneRejected
<1> QED
  BY <1>5, <1>6, <1>7 DEF PoolsIInv

LEMMA EndRouteKeeps ==
  ASSUME PoolsIInv, EndRoute
  PROVE  PoolsIInv' /\ NoneRejected'
<1>1. /\ \A w \in RouteWorker : at[w] \in {"idle", "done", "rejected"}
      /\ at' = [c \in Client |-> IF c \in RouteWorker THEN "idle" ELSE at[c]]
      /\ UNCHANGED <<env, held, queue, RouteVars>>
  BY DEF EndRoute
<1>2. \A c \in Client : at'[c] = IF c \in RouteWorker THEN "idle" ELSE at[c]
  BY <1>1
<1>3. PoolsAgree /\ \A w \in RouteWorker : w \in Client
  BY DEF PoolsIInv, Client
<1>4. PoolsAgree'
  <2>1. at' \in [Client -> Stage]
    BY <1>1, <1>3 DEF PoolsAgree, Stage
  <2>2. \A c \in Client : held'[c] = HeldAt(at'[c])
    <3>1. HeldAt("idle") = 0 /\ HeldAt("done") = 0 /\ HeldAt("rejected") = 0
      BY DEF HeldAt
    <3> QED
      BY <1>1, <1>2, <1>3, <3>1 DEF PoolsAgree
  <2>3. ASSUME NEW p \in Pool PROVE QueueOf(p)' /\ CountsFit(p)'
    <3>1. QueueOf(p) /\ CountsFit(p)
      BY <1>3 DEF PoolsAgree
    <3>2. ClientsOf(p) \in SUBSET Client /\ ClientsOf(p)' = ClientsOf(p)
      BY <1>1, <1>3, Clients, PoolsStay DEF PoolsAgree
    <3>3. InUse(p)' = InUse(p)
      BY <1>1, <3>2 DEF InUse, Connections
    <3>4. \A c \in Client : at[c] \in Waiting => at'[c] = at[c]
      BY <1>1, <1>2 DEF Waiting
    <3>5. QueueOf(p)'
      BY <1>1, <3>1, <3>2, <3>4 DEF QueueOf
    <3> QED
      BY <1>1, <3>1, <3>3, <3>5 DEF CountsFit
  <2> QED
    BY <1>1, <1>3, <2>1, <2>2, <2>3 DEF PoolsAgree
<1>5. RefusedRests'
  BY <1>1, <1>2, PoolsStay DEF PoolsIInv, RefusedRests
<1>6. \A w \in RouteWorker : at'[w] = "idle"
  BY <1>2, <1>3
<1>7. RouteFits'
  BY <1>1, <1>6 DEF PoolsIInv, RouteFits, ResultsInPlace, RouteVars
<1> QED
  BY <1>4, <1>5, <1>6, <1>7 DEF PoolsIInv, NoneRejected

-----------------------------------------------------------------------------
\* With everyone idle, nothing is held and nobody waits.
AllAtRest ==
    /\ env \in [Roles -> {"none", "some", "all"}] /\ at = [c \in Client |-> "idle"]
    /\ held = [c \in Client |-> 0] /\ queue = [p \in Pool |-> <<>>]

LEMMA NothingHeld == AllAtRest => PoolsAgree /\ RefusedRests /\ NoneRejected
<1> SUFFICES ASSUME AllAtRest PROVE PoolsAgree /\ RefusedRests /\ NoneRejected
  OBVIOUS
<1> USE DEF AllAtRest
<1>1. at \in [Client -> Stage] /\ held \in [Client -> 0 .. 2] /\ queue \in [Pool -> Seq(Client)]
  BY DEF Stage
<1>2. \A c \in Client : held[c] = HeldAt(at[c])
  BY DEF HeldAt
<1>3. ASSUME NEW p \in Pool PROVE QueueOf(p) /\ CountsFit(p)
  <2>1. queue[p] = <<>> /\ Len(queue[p]) = 0
    BY DEF HeldAt
  <2>2. Connections(p) = {}
    BY DEF Connections, ClientsOf
  <2>3. InUse(p) = 0
    BY <2>2, FS_EmptySet DEF InUse
  <2> QED
    BY <2>1, <2>3, PoolsAssumption DEF QueueOf, CountsFit
<1> QED
  BY <1>1, <1>2, <1>3 DEF PoolsAgree, RefusedRests, NoneRejected, Client

LEMMA PoolsStart == PoolsInit => PoolsIInv /\ NoneRejected
<1> SUFFICES ASSUME PoolsInit PROVE PoolsIInv /\ NoneRejected
  OBVIOUS
<1>1. PoolsAgree /\ RefusedRests /\ NoneRejected
  BY NothingHeld DEF PoolsInit, AllAtRest
<1>2. RouteFits
  <2>1. task \in [RouteWorker -> 0 .. TaskCount] /\ nextIndex \in 1 .. TaskCount + 1
    BY PoolsAssumption DEF PoolsInit
  <2>2. results \in [1 .. TaskCount -> (1 .. TaskCount) \cup {NoAnswer}] /\ ResultsInPlace
    BY DEF PoolsInit, ResultsInPlace
  <2>3. \A w \in RouteWorker : at[w] = "idle"
    BY DEF PoolsInit, Client
  <2> QED
    BY <2>1, <2>2, <2>3 DEF RouteFits
<1> QED
  BY <1>1, <1>2 DEF PoolsIInv

LEMMA RestartKeeps ==
  ASSUME PoolsIInv, ProcessRestarts
  PROVE  PoolsIInv' /\ NoneRejected'
<1>1. /\ at' = [c \in Client |-> "idle"] /\ held' = [c \in Client |-> 0]
      /\ queue' = [p \in Pool |-> <<>>] /\ UNCHANGED <<env, RouteVars>>
  BY DEF ProcessRestarts
<1>2. env' \in [Roles -> {"none", "some", "all"}]
  BY <1>1 DEF PoolsIInv, PoolsAgree
<1>3. PoolsAgree' /\ RefusedRests' /\ NoneRejected'
  <2>1. AllAtRest'
    BY <1>1, <1>2 DEF AllAtRest
  <2> QED
    BY <2>1, NothingHeld, PTL
<1>4. \A w \in RouteWorker : at'[w] = "idle"
  BY <1>1 DEF Client
<1>5. RouteFits'
  BY <1>1, <1>4 DEF PoolsIInv, RouteFits, ResultsInPlace, RouteVars
<1> QED
  BY <1>3, <1>5 DEF PoolsIInv

LEMMA PoolsKeep ==
  PoolsIInv /\ [PoolsNext]_poolVars => PoolsIInv' /\ (QueueHasRoom /\ NoneRejected => NoneRejected')
<1> SUFFICES ASSUME PoolsIInv, [PoolsNext]_poolVars
             PROVE  PoolsIInv' /\ (QueueHasRoom /\ NoneRejected => NoneRejected')
  OBVIOUS
<1>1. CASE StartRoute
  BY <1>1, StartRouteKeeps
<1>2. ASSUME NEW t \in Transaction, BeginTransaction(t) \/ TransactionStep(t) \/ FailTransaction(t)
      PROVE  PoolsIInv' /\ (NoneRejected => NoneRejected')
  BY <1>2, TransactionsKeep
<1>3. ASSUME NEW w \in RouteWorker, RouteStep(w)
      PROVE  PoolsIInv' /\ (QueueHasRoom /\ NoneRejected => NoneRejected')
  BY <1>3, NextTaskKeeps, NoMoreTasksKeeps, QueryAnsweredKeeps DEF RouteStep
<1>4. CASE EndRoute
  BY <1>4, EndRouteKeeps
<1>5. CASE ProcessRestarts
  BY <1>5, RestartKeeps
<1>6. CASE UNCHANGED poolVars
  <2>1. PoolsAgree'
    <3>1. env' = env /\ at' = at /\ held' = held /\ queue' = queue
      BY <1>6 DEF poolVars
    <3>2. \A p : PoolOf(p)' = PoolOf(p) /\ ClientsOf(p)' = ClientsOf(p) /\ InUse(p)' = InUse(p)
      BY <3>1, PoolsStay DEF InUse, Connections
    <3>3. \A p \in Pool : QueueOf(p)' /\ CountsFit(p)'
      BY <3>1, <3>2 DEF PoolsIInv, PoolsAgree, QueueOf, CountsFit
    <3> QED
      BY <3>1, <3>3 DEF PoolsIInv, PoolsAgree
  <2>2. RefusedRests' /\ RouteFits' /\ (NoneRejected => NoneRejected')
    BY <1>6 DEF PoolsIInv, poolVars, RefusedRests, RouteFits, ResultsInPlace, NoneRejected, PoolOf, Resolve
  <2> QED
    BY <2>1, <2>2 DEF PoolsIInv
<1> QED
  BY <1>1, <1>2, <1>3, <1>4, <1>5, <1>6 DEF PoolsNext, NewRequest

LEMMA RoomStays == [PoolsNext]_poolVars /\ QueueHasRoom => QueueHasRoom'
<1> SUFFICES ASSUME [PoolsNext]_poolVars, QueueHasRoom PROVE QueueHasRoom'
  OBVIOUS
<1>1. env' = env
  BY DEF PoolsNext, NewRequest, StartRoute, BeginTransaction, TransactionStep, Commit, AskToReport, Report,
         EndFailed, FailTransaction, RouteStep, NextTask, NoMoreTasks, QueryAnswered, EndRoute,
         ProcessRestarts, poolVars
<1> QED
  BY <1>1 DEF QueueHasRoom, ClientsOf, PoolOf, Resolve

LEMMA PoolsTypes == PoolsIInv => PoolsTypeOK /\ ResultsInPlace
<1> SUFFICES ASSUME PoolsIInv PROVE PoolsTypeOK /\ ResultsInPlace
  OBVIOUS
<1>1. ResultsInPlace
  BY DEF PoolsIInv, RouteFits
<1>2. \A c \in Client : held[c] \in 0 .. 2
  BY DEF PoolsIInv, PoolsAgree
<1>3. \A p \in Pool : CountsFit(p)
  BY DEF PoolsIInv, PoolsAgree
<1> QED
  BY <1>1, <1>2, <1>3 DEF PoolsTypeOK, CountsFit

\* A connection that is asked for is one of the plan, is waited for in the order of the
\* requests, or is refused; and the answers of a route are in the order of its queries.
THEOREM ConnectionsAreCounted == PoolsSpec => [](PoolsTypeOK /\ ResultsInPlace)
<1> QED
  BY PoolsStart, PoolsKeep, PoolsTypes, PTL DEF PoolsSpec

\* No query of a route is rejected, for any number of queries, when the queue has room for
\* the few workers that run them and the transactions that share their pool.
THEOREM RoutesGetAnswers == QueueHasRoom /\ PoolsSpec => []PoolsInv
<1>1. PoolsIInv /\ NoneRejected => PoolsInv
  BY PoolsTypes DEF PoolsInv
<1> QED
  BY <1>1, PoolsStart, PoolsKeep, RoomStays, PTL DEF PoolsSpec

-----------------------------------------------------------------------------
(* Schema migrations.  The lock makes what a run has read stay true as long as   *)
(* it goes on: so the file it is in is the only one that is begun and not        *)
(* recorded, apart from those that a run was cut short in.                    *)

MigrationsState ==
    /\ file \in [Version -> Text \cup {NoText}] /\ recorded \in [Version -> Text \cup {NoText}]
    /\ done \in [Version -> Nat] /\ cut \subseteq Version
    /\ runner \in [Runner -> [at : {"idle", "lock", "read", "apply", "applying", "release", "failed"},
                              files : [Version -> Text \cup {NoText}], pending : SUBSET Version]]

\* Who is past the lock has it, and nobody else does.
LockIsHeld ==
    /\ namedLock = {} \/ \E x \in Runner : namedLock = {x}
    /\ \A x \in Runner :
          runner[x].at \in {"read", "apply", "applying", "release", "failed"} => namedLock = {x}

\* A file that a run was cut short in is begun, is not recorded, and stays so.
CutsStay ==
    \A u \in cut :
        /\ done[u] > 0 /\ recorded[u] = NoText /\ file[u] # NoText
        /\ \A x \in Runner : runner[x].at \in {"read", "apply", "applying"} => runner[x].files[u] # NoText

\* What a run is going to apply is what is pending, over nothing that was edited.
PendingIsTrue ==
    \A x \in Runner : runner[x].at \in {"apply", "applying"} =>
        /\ runner[x].pending = Pending(runner[x].files)
        /\ ~ChecksumDrift(runner[x].files)

\* The file that a run is in has been begun by this run.
Begun(x) ==
    /\ runner[x].pending # {}
    /\ done[FirstOf(runner[x].pending)] > 0 /\ FirstOf(runner[x].pending) \notin cut

\* Only a run leaves a file begun, and only as long as it is in it.
BegunByOne ==
    /\ \A x \in Runner : runner[x].at = "applying" => Begun(x)
    /\ \A v \in Version :
          recorded[v] = NoText /\ done[v] > 0 =>
              v \in cut \/ \E x \in Runner : runner[x].at = "applying" /\ v = FirstOf(runner[x].pending)

FilesStay == \A x \in Runner : runner[x].at \in {"read", "apply", "applying"} =>
    \A v \in Version : runner[x].files[v] # NoText => file[v] # NoText

MigrationsIInv ==
    /\ MigrationsState /\ LockIsHeld /\ CutsStay /\ PendingIsTrue /\ FilesStay /\ BegunByOne
    /\ RecordedIsDone /\ OnlyCutsFail
    /\ \A v \in Version : done[v] \in 0 .. Statements[v]

\* The first pending file is one of them, and no other comes before it.
LEMMA FirstIsFirst ==
  ASSUME NEW S \in SUBSET Version, S # {}
  PROVE  FirstOf(S) \in S /\ \A v \in S : FirstOf(S) <= v
<1>1. S \in SUBSET Nat
  BY MigrationsAssumption
<1>2. \E x \in S : \A y \in S : x <= y
  BY <1>1, LeastNat
<1> QED
  BY <1>2 DEF FirstOf, Min

\* The only one past the lock.
LEMMA OnlyOneRuns ==
  ASSUME LockIsHeld, NEW x \in Runner, NEW y \in Runner,
         runner[x].at \in {"read", "apply", "applying", "release", "failed"},
         runner[y].at \in {"read", "apply", "applying", "release", "failed"}
  PROVE  x = y
<1>1. namedLock = {x} /\ namedLock = {y}
  BY DEF LockIsHeld
<1> QED
  BY <1>1

LEMMA MigrationsStart == MigrationsInit => MigrationsIInv
<1> SUFFICES ASSUME MigrationsInit PROVE MigrationsIInv
  OBVIOUS
<1>1. \A v \in Version : file[v] = NoText /\ done[v] = 0 /\ recorded[v] = NoText
  BY DEF MigrationsInit
<1>2. \A x \in Runner : runner[x].at = "idle"
  BY DEF MigrationsInit, NoRun
<1>3. MigrationsState
  BY DEF MigrationsInit, MigrationsState, NoRun
<1>4. LockIsHeld /\ CutsStay /\ PendingIsTrue /\ FilesStay
  BY <1>2 DEF MigrationsInit, LockIsHeld, CutsStay, PendingIsTrue, FilesStay
<1>5. BegunByOne /\ RecordedIsDone /\ OnlyCutsFail
  BY <1>1, <1>2 DEF BegunByOne, RecordedIsDone, OnlyCutsFail
<1>6. \A v \in Version : done[v] \in 0 .. Statements[v]
  BY <1>1, MigrationsAssumption
<1> QED
  BY <1>3, <1>4, <1>5, <1>6 DEF MigrationsIInv

-----------------------------------------------------------------------------
\* A step of x that leaves the files of the directory and of the other runs.
OnlyMoves(x, now) ==
    /\ runner' = [runner EXCEPT ![x] = now]
    /\ \A y \in Runner : y # x => runner'[y] = runner[y]
    /\ runner'[x] = now

LEMMA Moved ==
  ASSUME MigrationsState, NEW x \in Runner, NEW now, runner' = [runner EXCEPT ![x] = now]
  PROVE  OnlyMoves(x, now)
BY DEF OnlyMoves, MigrationsState

\* The state of a run.
RunState == [at : {"idle", "lock", "read", "apply", "applying", "release", "failed"},
             files : [Version -> Text \cup {NoText}], pending : SUBSET Version]

LEMMA RunStates ==
  ASSUME MigrationsState, NEW x \in Runner
  PROVE  /\ runner[x] \in RunState /\ NoRun("idle") \in RunState /\ NoRun("lock") \in RunState
         /\ NoRun("release") \in RunState /\ NoRun("failed") \in RunState
BY DEF MigrationsState, RunState, NoRun

\* A run that ends, or waits for the lock, has nothing to know any more.
LEMMA EndsQuietly ==
  ASSUME MigrationsIInv, NEW x \in Runner, NEW place \in {"idle", "lock", "release"},
         runner' = [runner EXCEPT ![x] = NoRun(place)],
         runner[x].at # "applying", UNCHANGED <<file, done, recorded, cut>>
  PROVE  /\ MigrationsState' /\ CutsStay' /\ PendingIsTrue' /\ FilesStay' /\ BegunByOne'
         /\ RecordedIsDone' /\ OnlyCutsFail' /\ (\A v \in Version : done[v] \in 0 .. Statements[v])'
<1>1. OnlyMoves(x, NoRun(place)) /\ MigrationsState
  BY Moved DEF MigrationsIInv
<1>2. NoRun(place).at = place
  BY DEF NoRun
<1>3. MigrationsState'
  <2>1. NoRun(place) \in RunState
    BY <1>1, RunStates
  <2> QED
    BY <1>1, <2>1 DEF MigrationsState, RunState, OnlyMoves
<1>4. \A y \in Runner : runner'[y].at \in {"read", "apply", "applying", "failed"} => runner'[y] = runner[y]
  BY <1>1, <1>2 DEF OnlyMoves
<1>5. CutsStay' /\ FilesStay'
  BY <1>4 DEF MigrationsIInv, CutsStay, FilesStay
<1>6. PendingIsTrue'
  BY <1>4 DEF MigrationsIInv, PendingIsTrue, Pending, ChecksumDrift
<1>7. \A y \in Runner : runner[y].at = "applying" => runner'[y] = runner[y]
  BY <1>1 DEF OnlyMoves
<1>8. BegunByOne' /\ RecordedIsDone'
  <2>1. \A y \in Runner : runner[y].at = "applying" <=> runner'[y].at = "applying"
    BY <1>4, <1>7
  <2>2. \A y \in Runner : runner'[y].at = "applying" => Begun(y)'
    BY <1>4 DEF MigrationsIInv, BegunByOne, Begun
  <2> QED
    BY <1>7, <2>1, <2>2 DEF MigrationsIInv, BegunByOne, RecordedIsDone
<1>9. OnlyCutsFail'
  BY <1>4 DEF MigrationsIInv, OnlyCutsFail
<1> QED
  BY <1>3, <1>5, <1>6, <1>8, <1>9 DEF MigrationsIInv


LEMMA EditKeeps ==
  ASSUME MigrationsIInv, Edit
  PROVE  MigrationsIInv'
<1> USE DEF MigrationsIInv
<1>1. PICK v \in Version, text \in Text : file' = [file EXCEPT ![v] = text]
  BY DEF Edit, EditFile, AddFile
<1>2. UNCHANGED <<done, recorded, namedLock, runner, cut>>
  BY DEF Edit, EditFile, AddFile
<1>3. text # NoText
  BY MigrationsAssumption
<1>4. \A u \in Version : file[u] # NoText => file'[u] # NoText
  BY <1>1, <1>3 DEF MigrationsState
<1>5. MigrationsState'
  BY <1>1, <1>2 DEF MigrationsState
<1>6. LockIsHeld' /\ PendingIsTrue'
  BY <1>2 DEF LockIsHeld, PendingIsTrue, Pending, ChecksumDrift
<1>7. CutsStay' /\ FilesStay'
  BY <1>2, <1>4 DEF CutsStay, FilesStay, MigrationsState
<1>8. BegunByOne' /\ RecordedIsDone' /\ OnlyCutsFail'
  BY <1>2 DEF BegunByOne, Begun, RecordedIsDone, OnlyCutsFail
<1> QED
  BY <1>2, <1>5, <1>6, <1>7, <1>8

LEMMA StartKeeps ==
  ASSUME MigrationsIInv, NEW x \in Runner, StartUp(x) \/ LockTimesOut(x)
  PROVE  MigrationsIInv'
<1>1. PICK place \in {"idle", "lock"} : runner' = [runner EXCEPT ![x] = NoRun(place)]
  BY DEF StartUp, LockTimesOut
<1>2. runner[x].at \in {"idle", "lock"} /\ UNCHANGED <<file, done, recorded, namedLock, cut>>
  BY DEF StartUp, LockTimesOut
<1>3. OnlyMoves(x, NoRun(place)) /\ LockIsHeld /\ NoRun(place).at = place
  BY <1>1, Moved DEF MigrationsIInv, NoRun
<1>4. LockIsHeld'
  BY <1>2, <1>3 DEF LockIsHeld, OnlyMoves
<1> QED
  BY <1>1, <1>2, <1>4, EndsQuietly DEF MigrationsIInv

\* A run that ends lets the lock go.
LEMMA LockLetGo ==
  ASSUME MigrationsIInv, NEW x \in Runner, OnlyMoves(x, NoRun("idle")),
         runner[x].at \in {"read", "apply", "applying", "release", "failed"},
         namedLock' = namedLock \ {x}
  PROVE  LockIsHeld' /\ \A y \in Runner : runner'[y].at \in {"idle", "lock"}
<1>1. namedLock = {x} /\ namedLock' = {}
  BY DEF MigrationsIInv, LockIsHeld
<1>2. ASSUME NEW y \in Runner PROVE runner'[y].at \in {"idle", "lock"}
  <2>1. CASE y = x
    BY <2>1 DEF OnlyMoves, NoRun
  <2>2. CASE y # x
    <3>1. runner'[y] = runner[y] /\ runner[y] \in RunState
      BY <2>2, RunStates DEF OnlyMoves, MigrationsIInv
    <3>2. runner[y].at \notin {"read", "apply", "applying", "release", "failed"}
      BY <2>2, OnlyOneRuns DEF MigrationsIInv
    <3> QED
      BY <3>1, <3>2 DEF RunState
  <2> QED
    BY <2>1, <2>2
<1> QED
  BY <1>1, <1>2 DEF LockIsHeld

LEMMA EndKeeps ==
  ASSUME MigrationsIInv, NEW x \in Runner,
         AllApplied(x) \/ ReleaseLock(x) \/ (RunIsCut(x) /\ runner[x].at # "applying")
  PROVE  MigrationsIInv'
<1>1. PICK place \in {"idle", "release"} : runner' = [runner EXCEPT ![x] = NoRun(place)]
  BY DEF AllApplied, ReleaseLock, RunIsCut
<1>2. /\ runner[x].at \in {"read", "apply", "release", "failed"}
      /\ UNCHANGED <<file, done, recorded, cut>>
  BY DEF AllApplied, ReleaseLock, RunIsCut
<1>3. OnlyMoves(x, NoRun(place)) /\ LockIsHeld /\ NoRun(place).at = place
  BY <1>1, Moved DEF MigrationsIInv, NoRun
<1>4. LockIsHeld'
  <2>1. CASE AllApplied(x)
    BY <1>2, <1>3, <2>1 DEF AllApplied, LockIsHeld, OnlyMoves
  <2>2. CASE ReleaseLock(x) \/ RunIsCut(x)
    <3>1. namedLock' = namedLock \ {x} /\ runner' = [runner EXCEPT ![x] = NoRun("idle")]
      BY <2>2 DEF ReleaseLock, RunIsCut
    <3>2. OnlyMoves(x, NoRun("idle"))
      BY <3>1, Moved DEF MigrationsIInv
    <3> QED
      BY <1>2, <3>1, <3>2, LockLetGo
  <2> QED
    BY <2>1, <2>2
<1> QED
  BY <1>1, <1>2, <1>4, EndsQuietly DEF MigrationsIInv

\* A run that dies in a file leaves it begun, and that is noted.
LEMMA CutKeeps ==
  ASSUME MigrationsIInv, NEW x \in Runner, RunIsCut(x), runner[x].at = "applying"
  PROVE  MigrationsIInv'
<1> DEFINE v == FirstOf(runner[x].pending)
<1>1. /\ namedLock' = namedLock \ {x} /\ cut' = cut \cup {v}
      /\ runner' = [runner EXCEPT ![x] = NoRun("idle")] /\ UNCHANGED <<file, done, recorded>>
  BY DEF RunIsCut
<1>2. OnlyMoves(x, NoRun("idle"))
  BY <1>1, Moved DEF MigrationsIInv
<1>3. LockIsHeld' /\ \A y \in Runner : runner'[y].at \in {"idle", "lock"}
  BY <1>1, <1>2, LockLetGo
<1>4. /\ runner[x].pending \in SUBSET Version /\ runner[x].pending # {}
      /\ runner[x].pending = Pending(runner[x].files) /\ done[v] > 0
  BY RunStates DEF MigrationsIInv, BegunByOne, Begun, PendingIsTrue, RunState
<1>5. v \in runner[x].pending
  BY <1>4, FirstIsFirst
<1>6. v \in Version /\ recorded[v] = NoText /\ file[v] # NoText
  BY <1>4, <1>5 DEF Pending, MigrationsIInv, FilesStay
<1>7. MigrationsState'
  <2>1. runner'[x] \in RunState
    BY <1>2, RunStates DEF OnlyMoves, MigrationsIInv
  <2> QED
    BY <1>1, <1>6, <2>1 DEF MigrationsIInv, MigrationsState, RunState
<1>8. CutsStay' /\ FilesStay' /\ PendingIsTrue'
  BY <1>1, <1>3, <1>4, <1>6 DEF MigrationsIInv, CutsStay, FilesStay, PendingIsTrue
<1>9. \A u \in Version : recorded[u] = NoText /\ done[u] > 0 => u \in cut'
  <2>1. ASSUME NEW u \in Version, recorded[u] = NoText, done[u] > 0, u \notin cut PROVE u = v
    <3>1. PICK y \in Runner : runner[y].at = "applying" /\ u = FirstOf(runner[y].pending)
      BY <2>1 DEF MigrationsIInv, BegunByOne
    <3>2. y = x
      BY <3>1, OnlyOneRuns DEF MigrationsIInv
    <3> QED
      BY <3>1, <3>2
  <2> QED
    BY <1>1, <2>1
<1>10. BegunByOne' /\ RecordedIsDone' /\ OnlyCutsFail'
  BY <1>1, <1>3, <1>9 DEF MigrationsIInv, BegunByOne, RecordedIsDone, OnlyCutsFail
<1> QED
  BY <1>1, <1>3, <1>7, <1>8, <1>10 DEF MigrationsIInv

\* While x is past the lock, nobody else is.
LEMMA OthersWait ==
  ASSUME MigrationsIInv, NEW x \in Runner, NEW now, OnlyMoves(x, now),
         runner[x].at \in {"read", "apply", "applying", "release", "failed"} \/ namedLock = {}
  PROVE  \A y \in Runner : y # x => runner'[y].at \in {"idle", "lock"}
<1> SUFFICES ASSUME NEW y \in Runner, y # x PROVE runner'[y].at \in {"idle", "lock"}
  OBVIOUS
<1>1. runner'[y] = runner[y] /\ runner[y] \in RunState
  BY RunStates DEF OnlyMoves, MigrationsIInv
<1>2. runner[y].at \notin {"read", "apply", "applying", "release", "failed"}
  BY OnlyOneRuns DEF MigrationsIInv, LockIsHeld
<1> QED
  BY <1>1, <1>2 DEF RunState

\* The lock stays with x.
LEMMA LockStays ==
  ASSUME MigrationsIInv, NEW x \in Runner, NEW now, OnlyMoves(x, now), namedLock' = {x},
         \A y \in Runner : y # x => runner'[y].at \in {"idle", "lock"}
  PROVE  LockIsHeld'
BY DEF LockIsHeld

LEMMA GetLockKeeps ==
  ASSUME MigrationsIInv, NEW x \in Runner, GetLock(x)
  PROVE  MigrationsIInv'
<1>1. PICK now : now = [runner[x] EXCEPT !.at = "read", !.files = file]
  OBVIOUS
<1>2. runner[x] \in RunState /\ MigrationsState
  BY RunStates DEF MigrationsIInv
<1>3. now \in RunState /\ now.at = "read" /\ now.files = file
  BY <1>1, <1>2 DEF RunState, MigrationsState
<1>4. /\ namedLock = {} /\ namedLock' = {x} /\ runner[x].at = "lock"
      /\ runner' = [runner EXCEPT ![x] = now] /\ UNCHANGED <<file, done, recorded, cut>>
  BY <1>1 DEF GetLock, LockGranted
<1>5. OnlyMoves(x, now)
  BY <1>2, <1>4, Moved
<1>6. \A y \in Runner : y # x => runner'[y].at \in {"idle", "lock"}
  BY <1>4, <1>5, OthersWait
<1>7. LockIsHeld'
  BY <1>4, <1>5, <1>6, LockStays
<1>8. \A y \in Runner : runner'[y].at \in {"read", "apply", "applying", "failed"} => y = x
  BY <1>6
<1>9. runner'[x].at = "read" /\ runner'[x].files = file
  BY <1>3, <1>5 DEF OnlyMoves
<1>10. MigrationsState'
  BY <1>2, <1>3, <1>4 DEF MigrationsState, RunState
<1>11. CutsStay' /\ FilesStay' /\ PendingIsTrue'
  BY <1>4, <1>8, <1>9 DEF MigrationsIInv, CutsStay, FilesStay, PendingIsTrue
<1>12. \A y \in Runner : runner[y].at # "applying"
  BY <1>4 DEF MigrationsIInv, LockIsHeld
<1>13. BegunByOne' /\ RecordedIsDone' /\ OnlyCutsFail'
  BY <1>4, <1>8, <1>9, <1>12 DEF MigrationsIInv, BegunByOne, RecordedIsDone, OnlyCutsFail
<1> QED
  BY <1>4, <1>7, <1>10, <1>11, <1>13 DEF MigrationsIInv

LEMMA LoadAppliedKeeps ==
  ASSUME MigrationsIInv, NEW x \in Runner, LoadApplied(x)
  PROVE  MigrationsIInv'
<1>1. /\ runner[x].at = "read" /\ UNCHANGED <<file, done, recorded, namedLock, cut>>
      /\ runner[x] \in RunState /\ MigrationsState /\ namedLock = {x}
  BY RunStates DEF LoadApplied, MigrationsIInv, LockIsHeld
<1>2. CASE ChecksumDrift(runner[x].files)
  <2>1. runner' = [runner EXCEPT ![x] = NoRun("release")]
    BY <1>2 DEF LoadApplied
  <2>2. OnlyMoves(x, NoRun("release"))
    BY <1>1, <2>1, Moved
  <2>3. \A y \in Runner : y # x => runner'[y].at \in {"idle", "lock"}
    BY <1>1, <2>2, OthersWait
  <2>4. LockIsHeld'
    BY <1>1, <2>2, <2>3, LockStays
  <2> QED
    BY <1>1, <2>1, <2>4, EndsQuietly DEF MigrationsIInv
<1>3. CASE ~ChecksumDrift(runner[x].files)
  <2>1. PICK now : now = [runner[x] EXCEPT !.at = "apply", !.pending = Pending(runner[x].files)]
    OBVIOUS
  <2>2. now \in RunState /\ now.at = "apply" /\ now.files = runner[x].files
          /\ now.pending = Pending(runner[x].files)
    BY <1>1, <2>1 DEF RunState, Pending
  <2>3. runner' = [runner EXCEPT ![x] = now]
    BY <1>3, <2>1 DEF LoadApplied
  <2>4. OnlyMoves(x, now)
    BY <1>1, <2>3, Moved
  <2>5. \A y \in Runner : y # x => runner'[y].at \in {"idle", "lock"}
    BY <1>1, <2>4, OthersWait
  <2>6. LockIsHeld'
    BY <1>1, <2>4, <2>5, LockStays
  <2>7. \A y \in Runner : runner'[y].at \in {"read", "apply", "applying", "failed"} => y = x
    BY <2>5
  <2>8. runner'[x] = now
    BY <2>4 DEF OnlyMoves
  <2>9. MigrationsState'
    BY <1>1, <2>2, <2>3 DEF MigrationsState, RunState
  <2>10. CutsStay' /\ FilesStay'
    BY <1>1, <2>2, <2>7, <2>8 DEF MigrationsIInv, CutsStay, FilesStay
  <2>11. PendingIsTrue'
    BY <1>1, <1>3, <2>2, <2>7, <2>8 DEF PendingIsTrue, Pending, ChecksumDrift
  <2>12. \A y \in Runner : runner[y].at # "applying"
    BY <1>1, OnlyOneRuns DEF MigrationsIInv
  <2>13. BegunByOne' /\ RecordedIsDone' /\ OnlyCutsFail'
    BY <1>1, <2>2, <2>7, <2>8, <2>12 DEF MigrationsIInv, BegunByOne, RecordedIsDone, OnlyCutsFail
  <2> QED
    BY <1>1, <2>6, <2>9, <2>10, <2>11, <2>13 DEF MigrationsIInv
<1> QED
  BY <1>2, <1>3

\* What a run that applies a file knows of it.
LEMMA AboutToApply ==
  ASSUME MigrationsIInv, NEW x \in Runner, NEW v, v = FirstOf(runner[x].pending),
         runner[x].at \in {"apply", "applying"}, runner[x].pending # {}
  PROVE  /\ v \in Version /\ recorded[v] = NoText /\ runner[x].files[v] # NoText
         /\ runner[x].pending = Pending(runner[x].files)
         /\ \A u \in cut : v <= u /\ u \in runner[x].pending
         /\ runner[x].at = "apply" /\ done[v] > 0 => v \in cut
         /\ runner[x].at = "applying" => v \notin cut /\ done[v] > 0
<1>1. runner[x] \in RunState /\ runner[x].pending = Pending(runner[x].files)
  BY RunStates DEF MigrationsIInv, PendingIsTrue
<1>2. v \in runner[x].pending /\ \A u \in runner[x].pending : v <= u
  BY <1>1, FirstIsFirst DEF RunState
<1>3. v \in Version /\ recorded[v] = NoText /\ runner[x].files[v] # NoText
  BY <1>1, <1>2 DEF Pending
<1>4. \A u \in cut : u \in runner[x].pending
  BY <1>1 DEF MigrationsIInv, CutsStay, MigrationsState, Pending
<1>5. runner[x].at = "applying" => v \notin cut /\ done[v] > 0
  BY DEF MigrationsIInv, BegunByOne, Begun
<1>6. ASSUME runner[x].at = "apply", done[v] > 0, v \notin cut PROVE FALSE
  <2>1. PICK y \in Runner : runner[y].at = "applying"
    BY <1>3, <1>6 DEF MigrationsIInv, BegunByOne
  <2>2. y = x
    BY <1>6, <2>1, OnlyOneRuns DEF MigrationsIInv
  <2> QED
    BY <1>6, <2>1, <2>2
<1> QED
  BY <1>1, <1>2, <1>3, <1>4, <1>5, <1>6

LEMMA RefusedKeeps ==
  ASSUME MigrationsIInv, NEW x \in Runner, runner[x].at = "apply", cut # {},
         runner' = [runner EXCEPT ![x] = NoRun("failed")],
         UNCHANGED <<file, done, recorded, namedLock, cut>>
  PROVE  MigrationsIInv'
<1>1. namedLock = {x} /\ MigrationsState /\ OnlyMoves(x, NoRun("failed")) /\ NoRun("failed").at = "failed"
  BY Moved DEF MigrationsIInv, LockIsHeld, NoRun
<1>2. \A y \in Runner : y # x => runner'[y].at \in {"idle", "lock"}
  BY <1>1, OthersWait
<1>3. LockIsHeld'
  BY <1>1, <1>2, LockStays
<1>4. \A y \in Runner : runner'[y].at \notin {"read", "apply", "applying"}
  BY <1>1, <1>2 DEF OnlyMoves
<1>5. MigrationsState'
  <2>1. NoRun("failed") \in RunState
    BY <1>1, RunStates
  <2> QED
    BY <1>1, <2>1 DEF MigrationsState, RunState
<1>6. CutsStay' /\ FilesStay' /\ PendingIsTrue'
  BY <1>4 DEF MigrationsIInv, CutsStay, FilesStay, PendingIsTrue
<1>7. \A y \in Runner : runner[y].at # "applying"
  BY <1>1, OnlyOneRuns DEF MigrationsIInv
<1>8. BegunByOne' /\ RecordedIsDone' /\ OnlyCutsFail'
  BY <1>4, <1>7 DEF MigrationsIInv, BegunByOne, RecordedIsDone, OnlyCutsFail
<1> QED
  BY <1>3, <1>5, <1>6, <1>8 DEF MigrationsIInv

LEMMA ExecuteKeeps ==
  ASSUME MigrationsIInv, NEW x \in Runner, Execute(x)
  PROVE  MigrationsIInv'
<1>1. PICK v : v = FirstOf(runner[x].pending)
  OBVIOUS
<1>2. /\ runner[x].at \in {"apply", "applying"} /\ runner[x].pending # {}
      /\ runner[x].at = "apply" \/ done[v] < Statements[v]
      /\ UNCHANGED <<file, recorded, namedLock, cut>>
  BY <1>1 DEF Execute
<1>3. /\ v \in Version /\ recorded[v] = NoText
      /\ \A u \in cut : v <= u /\ u \in runner[x].pending
      /\ runner[x].at = "apply" /\ done[v] > 0 => v \in cut
      /\ runner[x].at = "applying" => v \notin cut /\ done[v] > 0
  BY <1>1, <1>2, AboutToApply
<1>4. CASE runner[x].at = "apply" /\ done[v] > 0
  <2>1. runner' = [runner EXCEPT ![x] = NoRun("failed")] /\ UNCHANGED done
    BY <1>1, <1>4 DEF Execute
  <2> QED
    BY <1>2, <1>3, <1>4, <2>1, RefusedKeeps
<1>5. CASE ~(runner[x].at = "apply" /\ done[v] > 0)
  <2>1. PICK now : now = [runner[x] EXCEPT !.at = "applying"]
    OBVIOUS
  <2>2. runner[x] \in RunState /\ MigrationsState /\ namedLock = {x}
    BY <1>2, RunStates DEF MigrationsIInv, LockIsHeld
  <2>3. now \in RunState /\ now.at = "applying" /\ now.files = runner[x].files
          /\ now.pending = runner[x].pending
    BY <2>1, <2>2 DEF RunState
  <2>4. runner' = [runner EXCEPT ![x] = now] /\ done' = [done EXCEPT ![v] = @ + 1]
    BY <1>1, <1>5, <2>1 DEF Execute
  <2>5. OnlyMoves(x, now)
    BY <2>2, <2>4, Moved
  <2>6. \A y \in Runner : y # x => runner'[y].at \in {"idle", "lock"}
    BY <1>2, <2>5, OthersWait
  <2>7. LockIsHeld'
    BY <1>2, <2>2, <2>5, <2>6, LockStays
  <2>8. \A y \in Runner : runner'[y].at \in {"read", "apply", "applying", "failed"} => y = x
    BY <2>6
  <2>9. runner'[x] = now
    BY <2>5 DEF OnlyMoves
  <2>10. done[v] \in Nat /\ done'[v] = done[v] + 1 /\ \A u \in Version : u # v => done'[u] = done[u]
    BY <1>3, <2>2, <2>4 DEF MigrationsState
  <2>11. v \notin cut
    <3>1. CASE runner[x].at = "apply"
      <4>1. done[v] = 0
        BY <1>5, <2>10, <3>1
      <4> QED
        BY <4>1 DEF MigrationsIInv, CutsStay
    <3>2. CASE runner[x].at = "applying"
      BY <1>3, <3>2
    <3> QED
      BY <1>2, <3>1, <3>2
  <2>12. MigrationsState'
    BY <1>2, <1>3, <2>2, <2>3, <2>4 DEF MigrationsState, RunState
  <2>13. CutsStay' /\ FilesStay'
    <3>1. \A u \in cut : done'[u] = done[u]
      BY <2>2, <2>10, <2>11 DEF MigrationsState
    <3> QED
      BY <1>2, <2>3, <2>8, <2>9, <3>1 DEF MigrationsIInv, CutsStay, FilesStay
  <2>14. PendingIsTrue'
    BY <1>2, <2>3, <2>8, <2>9 DEF MigrationsIInv, PendingIsTrue, Pending, ChecksumDrift
  <2>15. BegunByOne'
    <3>1. Begun(x)'
      BY <1>1, <1>2, <2>3, <2>9, <2>10, <2>11 DEF Begun
    <3>2. ASSUME NEW u \in Version, recorded'[u] = NoText, done'[u] > 0, u # v PROVE u \in cut
      <4>1. recorded[u] = NoText /\ done[u] > 0
        BY <1>2, <2>10, <3>2
      <4>2. ASSUME NEW y \in Runner, runner[y].at = "applying" PROVE u # FirstOf(runner[y].pending)
        <5>1. y = x
          BY <1>2, <4>2, OnlyOneRuns DEF MigrationsIInv
        <5> QED
          BY <1>1, <3>2, <5>1
      <4> QED
        BY <4>1, <4>2 DEF MigrationsIInv, BegunByOne
    <3>3. runner'[x].at = "applying" /\ v = FirstOf(runner'[x].pending)
      BY <1>1, <2>3, <2>9
    <3>4. \A u \in Version : recorded'[u] = NoText /\ done'[u] > 0 =>
            u \in cut' \/ \E y \in Runner : runner'[y].at = "applying" /\ u = FirstOf(runner'[y].pending)
      BY <1>2, <3>2, <3>3
    <3>5. \A y \in Runner : runner'[y].at = "applying" => Begun(y)'
      BY <2>8, <3>1
    <3> QED
      BY <3>4, <3>5 DEF BegunByOne
  <2>16. RecordedIsDone'
    <3>1. \A u \in Version : recorded'[u] # NoText => done'[u] = Statements[u]
      BY <1>2, <1>3, <2>10 DEF MigrationsIInv, RecordedIsDone
    <3>2. \A u \in Version : recorded'[u] = NoText /\ done'[u] > 0 =>
            u \in cut' \/ \E y \in Runner : runner'[y].at = "applying"
      BY <2>3, <2>9
    <3> QED
      BY <3>1, <3>2 DEF RecordedIsDone
  <2>17. OnlyCutsFail'
    BY <2>3, <2>8, <2>9 DEF OnlyCutsFail
  <2>18. ASSUME NEW u \in Version PROVE done'[u] \in 0 .. Statements[u]
    <3>1. done[u] \in 0 .. Statements[u] /\ Statements[u] \in Nat \ {0}
      BY MigrationsAssumption DEF MigrationsIInv
    <3>2. CASE u # v
      BY <2>10, <3>1, <3>2
    <3>3. CASE u = v
      BY <1>2, <1>5, <2>10, <3>1, <3>3
    <3> QED
      BY <3>2, <3>3
  <2> QED
    BY <2>7, <2>12, <2>13, <2>14, <2>15, <2>16, <2>17, <2>18 DEF MigrationsIInv
<1> QED
  BY <1>4, <1>5

LEMMA RecordKeeps ==
  ASSUME MigrationsIInv, NEW x \in Runner, Record(x)
  PROVE  MigrationsIInv'
<1>1. PICK v : v = FirstOf(runner[x].pending)
  OBVIOUS
<1>2. runner[x].at = "applying" /\ Executed(v) /\ UNCHANGED <<file, done, namedLock, cut>>
  BY <1>1 DEF Record
<1>3. runner[x].pending # {} /\ runner[x] \in RunState /\ MigrationsState /\ namedLock = {x}
  BY <1>2, RunStates DEF MigrationsIInv, BegunByOne, Begun, LockIsHeld
<1>4. /\ v \in Version /\ recorded[v] = NoText /\ v \notin cut
      /\ runner[x].pending = Pending(runner[x].files) /\ runner[x].files[v] # NoText
  BY <1>1, <1>2, <1>3, AboutToApply
<1>5. PICK now : now = [runner[x] EXCEPT !.at = "apply", !.pending = @ \ {v}]
  OBVIOUS
<1>6. now \in RunState /\ now.at = "apply" /\ now.files = runner[x].files
        /\ now.pending = runner[x].pending \ {v}
  BY <1>3, <1>5 DEF RunState
<1>7. runner' = [runner EXCEPT ![x] = now] /\ recorded' = [recorded EXCEPT ![v] = runner[x].files[v]]
  BY <1>1, <1>4, <1>5 DEF Record
<1>8. OnlyMoves(x, now)
  BY <1>3, <1>7, Moved
<1>9. \A y \in Runner : y # x => runner'[y].at \in {"idle", "lock"}
  BY <1>2, <1>8, OthersWait
<1>10. LockIsHeld'
  BY <1>2, <1>3, <1>8, <1>9, LockStays
<1>11. \A y \in Runner : runner'[y].at \in {"read", "apply", "applying", "failed"} => y = x
  BY <1>9
<1>12. runner'[x] = now
  BY <1>8 DEF OnlyMoves
<1>13. recorded'[v] = runner[x].files[v] /\ \A u \in Version : u # v => recorded'[u] = recorded[u]
  BY <1>3, <1>4, <1>7 DEF MigrationsState
<1>14. MigrationsState'
  BY <1>2, <1>3, <1>4, <1>6, <1>7 DEF MigrationsState, RunState
<1>15. CutsStay' /\ FilesStay'
  <2>1. \A u \in cut : recorded'[u] = recorded[u]
    BY <1>3, <1>4, <1>13 DEF MigrationsState
  <2> QED
    BY <1>2, <1>6, <1>11, <1>12, <2>1 DEF MigrationsIInv, CutsStay, FilesStay
<1>16. PendingIsTrue'
  <2>1. now.pending = Pending(now.files)'
    BY <1>4, <1>6, <1>13 DEF Pending
  <2>2. ~ChecksumDrift(runner[x].files)
    BY <1>2 DEF MigrationsIInv, PendingIsTrue
  <2>3. ~ChecksumDrift(now.files)'
    BY <1>4, <1>6, <1>13, <2>2 DEF ChecksumDrift
  <2> QED
    BY <1>11, <1>12, <2>1, <2>3 DEF PendingIsTrue
<1>17. RecordedIsDone' /\ BegunByOne'
  <2>1. ASSUME NEW u \in Version, recorded'[u] = NoText, done'[u] > 0 PROVE u \in cut'
    <3>1. u # v
      BY <1>4, <1>13, <2>1
    <3>2. recorded[u] = NoText /\ done[u] > 0
      BY <1>2, <1>13, <2>1, <3>1
    <3>3. ASSUME NEW y \in Runner, runner[y].at = "applying" PROVE u # FirstOf(runner[y].pending)
      <4>1. y = x
        BY <1>2, <3>3, OnlyOneRuns DEF MigrationsIInv
      <4> QED
        BY <1>1, <3>1, <4>1
    <3> QED
      BY <1>2, <3>2, <3>3 DEF MigrationsIInv, BegunByOne
  <2>2. \A u \in Version : recorded'[u] # NoText => done'[u] = Statements[u]
    BY <1>2, <1>13 DEF MigrationsIInv, RecordedIsDone, Executed
  <2>3. \A y \in Runner : runner'[y].at # "applying"
    BY <1>6, <1>11, <1>12
  <2> QED
    BY <2>1, <2>2, <2>3 DEF RecordedIsDone, BegunByOne
<1>18. OnlyCutsFail'
  BY <1>6, <1>11, <1>12 DEF OnlyCutsFail
<1> QED
  BY <1>2, <1>10, <1>14, <1>15, <1>16, <1>17, <1>18 DEF MigrationsIInv

LEMMA MigrationsKeep == MigrationsIInv /\ [MigrationsNext]_migrationVars => MigrationsIInv'
<1> SUFFICES ASSUME MigrationsIInv, [MigrationsNext]_migrationVars PROVE MigrationsIInv'
  OBVIOUS
<1>1. CASE Edit
  BY <1>1, EditKeeps
<1>2. CASE StartAny
  BY <1>2, StartKeeps DEF StartAny
<1>3. ASSUME NEW x \in Runner, RunStep(x) \/ LockTimesOut(x) \/ RunIsCut(x) PROVE MigrationsIInv'
  BY <1>3, GetLockKeeps, LoadAppliedKeeps, ExecuteKeeps, RecordKeeps, EndKeeps, StartKeeps, CutKeeps DEF RunStep
<1>4. CASE UNCHANGED migrationVars
  BY <1>4 DEF migrationVars, MigrationsIInv, MigrationsState, LockIsHeld, CutsStay, PendingIsTrue, FilesStay,
              Pending, ChecksumDrift, BegunByOne, Begun, RecordedIsDone, OnlyCutsFail
<1> QED
  BY <1>1, <1>2, <1>3, <1>4 DEF MigrationsNext

\* The schema is what schema_migrations says, and runs of the script never make each other
\* fail, for any migrations, edits of their files, runs and cuts.
THEOREM SchemaIsAsRecorded == MigrationsSpec => []MigrationsInv
<1>1. MigrationsIInv => MigrationsInv
  <2> SUFFICES ASSUME MigrationsIInv PROVE MigrationsTypeOK
    BY DEF MigrationsInv, MigrationsIInv
  <2>1. Cardinality(namedLock) <= 1 /\ namedLock \subseteq Runner
    <3>1. CASE namedLock = {}
      BY <3>1, FS_EmptySet
    <3>2. ASSUME NEW x \in Runner, namedLock = {x} PROVE Cardinality(namedLock) <= 1 /\ namedLock \subseteq Runner
      <4>1. Cardinality({x}) = 1
        BY FS_Singleton
      <4> QED
        BY <3>2, <4>1
    <3> QED
      BY <3>1, <3>2 DEF MigrationsIInv, LockIsHeld
  <2>2. \A x \in Runner : runner[x].at \in {"read", "apply", "applying", "release", "failed"} => x \in namedLock
    BY DEF MigrationsIInv, LockIsHeld
  <2> QED
    BY <2>1, <2>2 DEF MigrationsTypeOK, MigrationsIInv
<1> QED
  BY <1>1, MigrationsStart, MigrationsKeep, PTL DEF MigrationsSpec

NoFaultPassed ==
    \A v \in Version : done'[v] # done[v] =>
        /\ \A u \in cut : v <= u
        /\ \A x \in Runner, u \in Version :
              x \in namedLock /\ recorded[u] \notin {NoText, runner[x].files[u]}
                  => runner[x].files[u] = NoText \/ <<u, recorded[u]>> \in AcceptedPrior

\* "Later pending migrations are never attempted": no statement is executed past a file that a
\* run was cut short in, and none while an applied file differs from what was applied.
THEOREM NothingGoesPastAFault == MigrationsSpec => NothingPastAFault
<1>1. ASSUME MigrationsIInv, [MigrationsNext]_migrationVars,
             NEW v \in Version, done'[v] # done[v]
      PROVE  /\ \A u \in cut : v <= u
             /\ \A x \in Runner, u \in Version :
                   x \in namedLock /\ recorded[u] \notin {NoText, runner[x].files[u]}
                       => runner[x].files[u] = NoText \/ <<u, recorded[u]>> \in AcceptedPrior
  <2>1. PICK y \in Runner : Execute(y)
    BY <1>1 DEF MigrationsNext, migrationVars, Edit, EditFile, AddFile, StartAny, StartUp, RunStep, GetLock,
                LoadApplied, Record, AllApplied, ReleaseLock, LockTimesOut, RunIsCut
  <2>2. runner[y].at \in {"apply", "applying"} /\ runner[y].pending # {}
    BY <2>1 DEF Execute
  <2>3. v = FirstOf(runner[y].pending)
    BY <1>1, <2>1 DEF Execute, MigrationsIInv, MigrationsState
  <2>4. namedLock = {y} /\ ~ChecksumDrift(runner[y].files)
    BY <1>1, <2>2 DEF MigrationsIInv, LockIsHeld, PendingIsTrue
  <2>5. \A u \in cut : v <= u
    BY <1>1, <2>2, <2>3, AboutToApply
  <2>6. ASSUME NEW x \in Runner, NEW u \in Version, x \in namedLock,
               recorded[u] \notin {NoText, runner[x].files[u]}
        PROVE  runner[x].files[u] = NoText \/ <<u, recorded[u]>> \in AcceptedPrior
    BY <2>4, <2>6 DEF ChecksumDrift, IsAcceptedPriorChecksum
  <2> QED
    BY ONLY <2>5, <2>6
<1>2. MigrationsIInv /\ [MigrationsNext]_migrationVars => [NoFaultPassed]_migrationVars
  BY <1>1 DEF NoFaultPassed
<1>3. MigrationsSpec => [][NoFaultPassed]_migrationVars
  BY <1>2, MigrationsStart, MigrationsKeep, PTL DEF MigrationsSpec
<1> QED
  BY <1>3 DEF NothingPastAFault, NoFaultPassed

-----------------------------------------------------------------------------
(* Crawl.  The crawl holds no transaction around a slice, so what it counts  *)
(* is right only because of what each statement leaves for the next: the row *)
(* of a slice fits its stage and the target, who has seen the window end is  *)
(* right until somebody resets it, each request that is counted was made, and*)
(* each battle is the one run's that inserted it.                            *)

\* The leases of a slice last as long as it does.
SliceFitsLease == MaxSlice <= LeaseTTL

AtPlayer == {"reset", "consume", "fetch", "ingesting", "ingested"}

\* Nobody is leased twice by a slice.
Distinct(s) == \A i, j \in 1..Len(s) : s[i] = s[j] => i = j

\* The requests a slice has still to make.
ToMake(row) == IF row.at \in {"ingesting", "ingested"} THEN Len(row.todo) - 1 ELSE Len(row.todo)

\* A slice has players left where it needs one, each of them once, and they fit
\* in the target.
RowFits(row) ==
    /\ row \in Slice
    /\ row.at \in AtPlayer => row.todo # <<>>
    /\ row.at \notin AtPlayer \cup {"budget"} => row.todo = <<>>
    /\ Distinct(row.todo)
    /\ row.cursor.processed + ToMake(row) <= Target

RowsFit == \A w \in Worker :
    /\ RowFits(slice[w])
    /\ pc[w] = "work" => slice[w].at # "none" /\ mine[w] \in RunId
    /\ pc[w] # "work" => slice[w] = NoSlice

\* What is granted is what the row says, and who has seen the window end is right
\* as long as nobody has started a new one.
BudgetFits ==
    /\ granted = budget.used
    /\ \A w \in Worker : slice[w].saw => budget.over

\* The requests that a cursor or a slice counts were made.
RequestsMade ==
    /\ \A r \in RunId : cursor[r].processed <= made[r]
    /\ \A w \in Worker : pc[w] = "work" => slice[w].cursor.processed <= made[mine[w]]

\* Each battle is one run's, and no cursor or slice of a run counts more than its own.
Of(owner, r) == {b \in DOMAIN owner : owner[b] = r}
Shares(owner) ==
    /\ owner \in [stored -> RunId]
    /\ \A r \in RunId : cursor[r].ingested <= Cardinality(Of(owner, r))
    /\ \A w \in Worker : pc[w] = "work" =>
          slice[w].cursor.ingested <= Cardinality(Of(owner, mine[w]))
BattlesShared == \E owner \in [stored -> RunId] : Shares(owner)

CountsInv ==
    /\ CrawlTypeOK /\ RowsFit /\ BudgetFits /\ RequestsMade /\ BattlesShared

\* A player's lease lasts until the slice that has it must have ended.
LeasesLast == \A w \in Worker : \A p \in ToSet(slice[w].todo) :
    sched[p].leased /\ sched[p].left + elapsed[w] >= LeaseTTL

LeaseInv == OneCrawlPerPlayer /\ LeasesLast

-----------------------------------------------------------------------------
(* What the crawl does to the protocol of Workflow.                          *)

\* What a step of the crawl does to the protocol: a step of the protocol, or one of
\* a slice that has the lock, which keeps it.
InTheLock(w) ==
    /\ pc[w] \in Holding /\ pc' = [pc EXCEPT ![w] = pc'[w]] /\ pc'[w] \in Holding
    /\ mine' \in [Worker -> 0..MaxRuns] /\ run' \in [RunId -> Run]
    /\ UNCHANGED <<lock, nruns, elapsed, staleSeen>>

\* A step in the lock keeps what the protocol knows.
LEMMA InTheLockKeeps ==
  ASSUME TypeOK, NEW w \in Worker, InTheLock(w)
  PROVE  TypeOK' /\ (LockFollowsSlice => LockFollowsSlice')
<1>1. pc' \in [Worker -> PC] /\ \A v \in Worker : v # w => pc'[v] = pc[v]
  BY DEF InTheLock, TypeOK, Holding, PC
<1>2. TypeOK'
  BY <1>1 DEF InTheLock, TypeOK
<1>3. ASSUME LockFollowsSlice PROVE LockFollowsSlice'
  BY <1>1, <1>3 DEF InTheLock, LockFollowsSlice, InSlice
<1> QED
  BY <1>2, <1>3

\* The steps that the job adds to the protocol are of that kind.
LEMMA OwnStepsInTheLock ==
  ASSUME TypeOK, NEW w \in Worker,
         NoPrerequisites(w) \/ LosePrerequisites(w) \/ WriteCursor(w) \/ EndSlice(w) \/ AbortDriver(w)
  PROVE  InTheLock(w)
<1> USE DEF Holding
<1>1. CASE NoPrerequisites(w)
  BY <1>1 DEF NoPrerequisites, Goto, InTheLock, TypeOK
<1>2. CASE LosePrerequisites(w)
  <2>1. run' \in [RunId -> Run]
    BY <1>2, CompletedType DEF LosePrerequisites, Terminal, ErrorSummary, TypeOK
  <2> QED
    BY <1>2, <2>1, WorkflowAssumption DEF LosePrerequisites, Goto, InTheLock, TypeOK
<1>3. CASE WriteCursor(w)
  <2>1. run' \in [RunId -> Run]
    BY <1>3, WithCursorType DEF WriteCursor, TypeOK
  <2>2. pc' = pc /\ pc[w] = "work"
    BY <1>3 DEF WriteCursor, At
  <2> QED
    BY <1>3, <2>1, <2>2 DEF WriteCursor, InTheLock, TypeOK
<1>4. CASE EndSlice(w)
  BY <1>4, WorkflowAssumption DEF EndSlice, Goto, InTheLock, TypeOK
<1>5. CASE AbortDriver(w)
  <2>1. run' \in [RunId -> Run]
    <3>1. ASSUME NEW r \in RunId PROVE Completed(run, r, "failed", "job_error")[r] \in Run /\ run[r] \in Run
      BY CompletedType DEF Terminal, ErrorSummary, TypeOK
    <3> QED
      BY <1>5, <3>1 DEF AbortDriver
  <2> QED
    BY <1>5, <2>1, WorkflowAssumption DEF AbortDriver, InTheLock, TypeOK
<1> QED
  BY <1>1, <1>2, <1>3, <1>4, <1>5

\* A step of the crawl is a step of the protocol, or one of those.
LEMMA CrawlIsWorkflow ==
  ASSUME [CrawlNext]_vars
  PROVE  \/ [Next]_wfVars
         \/ \E w \in Worker : \/ NoPrerequisites(w) \/ LosePrerequisites(w) \/ WriteCursor(w)
                              \/ EndSlice(w) \/ AbortDriver(w)
<1>1. ASSUME NEW w \in Worker, JobStep(w)
      PROVE  \/ [Next]_wfVars
             \/ NoPrerequisites(w) \/ LosePrerequisites(w) \/ WriteCursor(w) \/ EndSlice(w) \/ AbortDriver(w)
  <2>1. CASE Housekeeping(w)
    BY <2>1 DEF Housekeeping, Next, Step
  <2>2. CASE Claim(w) \/ WriteFirstCursor(w) \/ MissingCursor(w) \/ Finalize(w) \/ \E r \in RunId : Load(w, r)
    <3>1. FALSE \in BOOLEAN /\ "succeeded" \in Terminal
      BY DEF Terminal
    <3> QED
      BY <2>2, <3>1 DEF Claim, WriteFirstCursor, MissingCursor, Finalize, Load, Next, Step
  <2>3. CASE \/ \E candidates \in SetToSeqs(Candidates) : Lease(w, candidates)
             \/ ReadBudget(w) \/ ResetWindow(w) \/ Consume(w) \/ Deny(w)
             \/ \E answer \in Answer, backoff \in BOOLEAN : FetchFails(w, answer, backoff)
             \/ FetchSucceeds(w) \/ Ingest(w) \/ RecordSuccess(w)
    <3>1. UNCHANGED wfVars
      BY <2>3 DEF Lease, ReadBudget, ResetWindow, Consume, Deny, FetchFails, FetchSucceeds, Ingest, RecordSuccess
    <3> QED
      BY <3>1, Zenon
  <2>4. CASE Reject(w)
    BY <2>4 DEF Reject, Next
  <2> QED
    BY <1>1, <2>1, <2>2, <2>3, <2>4 DEF JobStep
<1>2. ASSUME NEW w \in Worker, Fail(w)
      PROVE  [Next]_wfVars \/ AbortDriver(w)
  BY <1>2 DEF Fail, Next
<1>3. CASE Time
  BY <1>3 DEF Time, Next
<1>4. CASE (\E p \in Player : ComeDue(p) \/ BackoffEnds(p)) \/ WindowElapses
  BY <1>4 DEF ComeDue, BackoffEnds, WindowElapses
<1>5. CASE UNCHANGED vars
  BY <1>5 DEF vars
<1> QED
  BY <1>1, <1>2, <1>3, <1>4, <1>5 DEF CrawlNext

\* So every step of the crawl keeps what the protocol knows.
LEMMA ProtocolKept ==
  ASSUME TypeOK, [CrawlNext]_vars
  PROVE  TypeOK' /\ (SliceFitsTTL /\ LockFollowsSlice => LockFollowsSlice')
BY CrawlIsWorkflow, NextTypeOK, NextLockFollowsSlice, OwnStepsInTheLock, InTheLockKeeps

-----------------------------------------------------------------------------
(* What the crawl does to its slices.                                        *)

\* The steps of the crawl, by what they do to the slices: those that leave the job
\* alone, those that begin a slice and end it, and those of a slice.
Aside ==
    /\ UNCHANGED jobVars
    /\ \A v \in Worker :
         /\ pc'[v] = "work" <=> pc[v] = "work"
         /\ pc[v] = "work" => mine'[v] = mine[v] /\ elapsed'[v] = elapsed[v]

\* Nothing happens to the slices of the others.
OthersWork(w) == \A v \in Worker \ {w} :
    pc'[v] = pc[v] /\ mine'[v] = mine[v] /\ elapsed'[v] = elapsed[v] /\ slice'[v] = slice[v]

Enters(w) ==
    /\ UNCHANGED <<sched, due, budget, stored, cursor, granted, made>>
    /\ OthersWork(w) /\ pc'[w] = "work" /\ mine'[w] \in RunId
    /\ slice' = [slice EXCEPT ![w] = [NoSlice EXCEPT !.at = "loaded", !.cursor = cursor[mine'[w]]]]
    /\ pc[w] = "load"

Leaves(w) ==
    /\ UNCHANGED <<sched, due, budget, stored, cursor, granted, made>>
    /\ OthersWork(w) /\ pc'[w] # "work"
    /\ slice' = [slice EXCEPT ![w] = NoSlice]

OfSlice(w) ==
    \/ \E candidates \in SetToSeqs(Candidates) : Lease(w, candidates)
    \/ ReadBudget(w)
    \/ ResetWindow(w)
    \/ Consume(w)
    \/ Deny(w)
    \/ \E answer \in Answer, backoff \in BOOLEAN : FetchFails(w, answer, backoff)
    \/ FetchSucceeds(w)
    \/ Ingest(w)
    \/ RecordSuccess(w)
    \/ WriteCursor(w)

Passes ==
    \/ Time
    \/ \E p \in Player : ComeDue(p) \/ BackoffEnds(p)
    \/ WindowElapses

\* The steps of the protocol around a slice leave the job alone.
LEMMA HousekeepingAside ==
  ASSUME TypeOK, NEW w \in Worker,
         \/ Housekeeping(w) \/ Claim(w) \/ WriteFirstCursor(w) \/ NoPrerequisites(w) \/ MissingCursor(w)
  PROVE  Aside
<1> USE DEF TypeOK, Rests
<1>1. CASE Begin(w) /\ UNCHANGED jobVars
  BY <1>1 DEF Begin, Aside
<1>2. CASE (\E r \in RunId : Reclaim(w, r)) /\ UNCHANGED jobVars
  BY <1>2 DEF Reclaim, Aside
<1>3. CASE Acquire(w) /\ UNCHANGED jobVars
  BY <1>3 DEF Acquire, Goto, Aside
<1>4. CASE Refused(w) /\ UNCHANGED jobVars
  BY <1>4 DEF Refused, Goto, Aside
<1>5. CASE LoadNone(w) /\ UNCHANGED jobVars
  BY <1>5 DEF LoadNone, Goto, Aside
<1>6. CASE Release(w) /\ UNCHANGED jobVars
  BY <1>6 DEF Release, OutOfRuns, Aside
<1>7. CASE NextSlice(w) /\ UNCHANGED jobVars
  BY <1>7 DEF NextSlice, Goto, Aside
<1>8. CASE Claim(w)
  BY <1>8 DEF Claim, StartRun, Goto, Aside
<1>9. CASE WriteFirstCursor(w)
  BY <1>9 DEF WriteFirstCursor, FirstCursor, Goto, Aside
<1>10. CASE NoPrerequisites(w)
  BY <1>10 DEF NoPrerequisites, Goto, Aside
<1>11. CASE MissingCursor(w)
  BY <1>11 DEF MissingCursor, FailMissing, Goto, Aside
<1> QED
  BY <1>1, <1>2, <1>3, <1>4, <1>5, <1>6, <1>7, <1>8, <1>9, <1>10, <1>11 DEF Housekeeping

\* A slice is begun by loading a run that has a cursor.
LEMMA LoadEnters ==
  ASSUME TypeOK, NEW w \in Worker, NEW r \in RunId, Load(w, r)
  PROVE  Aside \/ Enters(w)
<1>1. mine' = [mine EXCEPT ![w] = r] /\ UNCHANGED <<elapsed, sched, due, budget, stored, cursor, granted, made>>
  BY DEF Load, LoadRun
<1>2. CASE run[r].cursor
  <2>1. pc' = [pc EXCEPT ![w] = "work"] /\ pc[w] = "load"
    BY <1>2 DEF Load, LoadRun, Goto
  <2>2. slice' = [slice EXCEPT ![w] = [NoSlice EXCEPT !.at = "loaded", !.cursor = cursor[mine'[w]]]]
    BY <1>1, <1>2 DEF Load, TypeOK
  <2>3. \A v \in Worker \ {w} : slice'[v] = slice[v]
    BY <2>2
  <2> QED
    BY <1>1, <2>1, <2>2, <2>3 DEF Enters, OthersWork, TypeOK
<1>3. CASE ~run[r].cursor
  <2>1. pc' = [pc EXCEPT ![w] = "missing"] /\ pc[w] = "load"
    BY <1>3 DEF Load, LoadRun, Goto
  <2>2. slice' = slice
    BY <1>3 DEF Load
  <2> QED
    BY <1>1, <2>1, <2>2 DEF Aside, jobVars, TypeOK
<1> QED
  BY <1>2, <1>3

\* A slice ends with its row, however it ends.
LEMMA EndsLeave ==
  ASSUME TypeOK, NEW w \in Worker,
         LosePrerequisites(w) \/ Finalize(w) \/ EndSlice(w) \/ Reject(w) \/ Fail(w)
  PROVE  Leaves(w)
<1>1. slice' = [slice EXCEPT ![w] = NoSlice] /\ UNCHANGED <<sched, due, budget, stored, cursor, granted, made>>
  BY DEF LosePrerequisites, Finalize, EndSlice, Reject, Fail
<1>2. \A v \in Worker \ {w} : slice'[v] = slice[v]
  BY <1>1
<1>3. \E next \in PC \ {"work"} : pc' = [pc EXCEPT ![w] = next]
  BY DEF LosePrerequisites, Finalize, EndSlice, Reject, Fail, Finish, Abort, AbortDriver, Crash, Goto, PC
<1>4. mine' = [mine EXCEPT ![w] = 0]
  BY DEF LosePrerequisites, Finalize, EndSlice, Reject, Fail, Finish, Abort, AbortDriver, Crash
<1>5. elapsed' = elapsed \/ elapsed' = [elapsed EXCEPT ![w] = 0]
  BY DEF LosePrerequisites, Finalize, EndSlice, Reject, Fail, Finish, Abort, AbortDriver, Crash
<1> QED
  BY <1>1, <1>2, <1>3, <1>4, <1>5 DEF Leaves, OthersWork, TypeOK

\* Every step of the crawl is of one of these kinds.
LEMMA CrawlSteps ==
  ASSUME TypeOK, [CrawlNext]_vars
  PROVE  \/ Aside
         \/ \E w \in Worker : Enters(w) \/ Leaves(w) \/ OfSlice(w)
         \/ Passes
<1>1. ASSUME NEW w \in Worker, JobStep(w)
      PROVE  Aside \/ Enters(w) \/ Leaves(w) \/ OfSlice(w)
  <2>1. CASE \/ Housekeeping(w) \/ Claim(w) \/ WriteFirstCursor(w) \/ NoPrerequisites(w) \/ MissingCursor(w)
    BY <2>1, HousekeepingAside
  <2>2. CASE \E r \in RunId : Load(w, r)
    BY <2>2, LoadEnters
  <2>3. CASE LosePrerequisites(w) \/ Finalize(w) \/ EndSlice(w) \/ Reject(w)
    BY <2>3, EndsLeave
  <2>4. CASE OfSlice(w)
    BY <2>4
  <2> QED
    BY <1>1, <2>1, <2>2, <2>3, <2>4 DEF JobStep, OfSlice
<1>2. ASSUME NEW w \in Worker, Fail(w)
      PROVE  Leaves(w)
  BY <1>2, EndsLeave
<1>3. CASE UNCHANGED vars
  BY <1>3 DEF vars, wfVars, Aside
<1> QED
  BY <1>1, <1>2, <1>3 DEF CrawlNext, Passes

-----------------------------------------------------------------------------
(* The loop of selectFairBatch, as a function of how often it has been       *)
(* around.                                                                   *)

\* The n-th of the strata is one of them.
LEMMA KeyIsOne ==
  ASSUME NEW S \in SUBSET Nat, IsFiniteSet(S), NEW n \in Nat, n < Cardinality(S)
  PROVE  KeyAt(S, n) \in S /\ Cardinality({t \in S : t < KeyAt(S, n)}) = n
<1> DEFINE Below(s) == {t \in S : t < s}
           Big == {s \in S : n <= Cardinality(Below(s))}
<1>1. \A s : IsFiniteSet(Below(s)) /\ Cardinality(Below(s)) \in Nat
  BY FS_Subset, FS_CardinalityType
<1>2. ASSUME NEW T \in SUBSET S, T # {}
      PROVE  \E m \in T : T \ {m} = {t \in T : t < m} /\ Cardinality(T \ {m}) = Cardinality(T) - 1
  <2>1. IsFiniteSet(T) /\ T \in SUBSET Nat
    BY <1>2, FS_Subset
  <2>2. PICK m \in T : \A y \in T : y <= m
    BY <1>2, <2>1, GreatestOfFinite
  <2>3. T \ {m} = {t \in T : t < m}
    <3>1. \A t \in T : t # m <=> t < m
      BY <2>1, <2>2
    <3> QED
      BY <3>1
  <2>4. Cardinality(T \ {m}) = Cardinality(T) - 1
    BY <2>1, FS_RemoveElement
  <2> QED
    BY <2>3, <2>4
<1>3. Big # {}
  <2>1. Cardinality(S) \in Nat /\ S # {}
    BY FS_CardinalityType, FS_EmptySet
  <2>2. PICK m \in S : S \ {m} = Below(m) /\ Cardinality(S \ {m}) = Cardinality(S) - 1
    BY <1>2, <2>1
  <2> QED
    BY <2>1, <2>2
<1>4. PICK k \in Big : \A y \in Big : k <= y
  <2>1. Big \in SUBSET Nat
    OBVIOUS
  <2> HIDE DEF Big
  <2> QED
    BY <1>3, <2>1, LeastNat
<1>5. Cardinality(Below(k)) = n
  <2>1. ASSUME Cardinality(Below(k)) > n PROVE FALSE
    <3>1. Below(k) # {} /\ Below(k) \in SUBSET S
      BY <2>1, FS_EmptySet
    <3>2. PICK m \in Below(k) : /\ Below(k) \ {m} = {t \in Below(k) : t < m}
                                /\ Cardinality(Below(k) \ {m}) = Cardinality(Below(k)) - 1
      BY <1>2, <3>1
    <3>3. Below(m) = Below(k) \ {m}
      <4>1. \A t \in S : t < m => t < k
        BY <3>2
      <4> QED
        BY <3>2, <4>1
    <3>4. n <= Cardinality(Below(m))
      BY <1>1, <2>1, <3>2, <3>3
    <3>5. m \in Big /\ m < k
      BY <3>4
    <3> QED
      BY <1>4, <3>5
  <2> QED
    BY <1>1, <1>4, <2>1
<1> QED
  BY <1>4, <1>5 DEF KeyAt

\* What the loop keeps: who was selected is at a place that is not left, and only they.
Candidacy(candidates, f) ==
    /\ f.left \in SUBSET (1..Len(candidates)) /\ f.cursor \in Nat /\ f.selected \in Seq(Player)
    /\ Distinct(f.selected)
    /\ \A j \in 1..Len(f.selected) :
          \E i \in (1..Len(candidates)) \ f.left : f.selected[j] = candidates[i]
    /\ \A i \in (1..Len(candidates)) \ f.left :
          \E j \in 1..Len(f.selected) : f.selected[j] = candidates[i]

\* The stratum whose turn it is, and what an iteration takes from it.
Turn(candidates, f) ==
    KeyAt(Strata(candidates, f.left), f.cursor % Cardinality(Strata(candidates, f.left)))
Selects(candidates, f, g, first) ==
    /\ Stratum[candidates[first]] = Turn(candidates, f)
    /\ g.left = f.left \ {first}
    /\ g.cursor = IF Strata(candidates, g.left) = Strata(candidates, f.left) THEN f.cursor + 1
                  ELSE IF Strata(candidates, g.left) = {} THEN 0
                  ELSE (f.cursor % Cardinality(Strata(candidates, f.left)))
                         % Cardinality(Strata(candidates, g.left))

\* The places of a list.
LEMMA PlacesFinite ==
  ASSUME NEW D, NEW list \in Seq(D)
  PROVE  Len(list) \in Nat /\ IsFiniteSet(1..Len(list))
<1>1. PICK n \in Nat : n = Len(list)
  OBVIOUS
<1>2. IsFiniteSet(1..n)
  BY FS_Interval
<1> QED
  BY <1>1, <1>2

\* The strata of some candidates are finitely many, and none only without candidates.
LEMMA StrataFinite ==
  ASSUME NEW candidates \in Seq(Player), NEW L \in SUBSET (1..Len(candidates))
  PROVE  /\ Strata(candidates, L) \in SUBSET Nat /\ IsFiniteSet(Strata(candidates, L))
         /\ Cardinality(Strata(candidates, L)) \in Nat
         /\ L # {} <=> Strata(candidates, L) # {}
         /\ Strata(candidates, L) # {} <=> Cardinality(Strata(candidates, L)) # 0
<1>1. \A i \in 1..Len(candidates) : candidates[i] \in Player /\ Stratum[candidates[i]] \in Nat
  BY CrawlAssumption DEF CrawlAssumption
<1>2. IsFiniteSet(1..Len(candidates)) /\ IsFiniteSet(L)
  <2>1. IsFiniteSet(1..Len(candidates))
    BY PlacesFinite
  <2> QED
    BY <2>1, FS_Subset
<1>3. PICK h : h = [i \in L |-> Stratum[candidates[i]]]
  OBVIOUS
<1>4. h \in Surjection(L, Strata(candidates, L))
  BY <1>3 DEF Surjection, Strata
<1>5. IsFiniteSet(Strata(candidates, L))
  BY <1>2, <1>4, FS_Surjection
<1>6. L # {} <=> Strata(candidates, L) # {}
  BY DEF Strata
<1>7. Strata(candidates, L) \in SUBSET Nat
  BY <1>1 DEF Strata
<1> QED
  BY <1>5, <1>6, <1>7, FS_CardinalityType, FS_EmptySet

\* An iteration selects one more candidate, of the stratum whose turn it is, and takes
\* its place.
LEMMA NextSelected ==
  ASSUME NEW candidates \in Seq(Player), Distinct(candidates), NEW size \in Nat, NEW f,
         Candidacy(candidates, f), Len(f.selected) < size, f.left # {}
  PROVE  /\ Candidacy(candidates, FairStep(candidates, size, f))
         /\ Len(FairStep(candidates, size, f).selected) = Len(f.selected) + 1
         /\ \E i \in f.left : Selects(candidates, f, FairStep(candidates, size, f), i)
<1> DEFINE strata == Strata(candidates, f.left)
           place == f.cursor % Cardinality(strata)
           key == KeyAt(strata, place)
           here == {i \in f.left : Stratum[candidates[i]] = key}
           first == FirstOfStratum(candidates, f.left, key)
           rest == Strata(candidates, f.left \ {first})
           g == FairStep(candidates, size, f)
<1>1. \A i \in 1..Len(candidates) : candidates[i] \in Player /\ Stratum[candidates[i]] \in Nat
  BY CrawlAssumption
<1>2. f.left \in SUBSET (1..Len(candidates)) /\ IsFiniteSet(f.left) /\ Len(candidates) \in Nat
  <2>1. IsFiniteSet(1..Len(candidates))
    BY PlacesFinite
  <2> QED
    BY SMTT(30), <2>1, FS_Subset DEF Candidacy
<1>3. /\ \A L \in SUBSET f.left : Strata(candidates, L) \in SUBSET Nat /\ IsFiniteSet(Strata(candidates, L))
      /\ strata # {}
  <2>1. f.left \in SUBSET (1..Len(candidates))
    BY DEF Candidacy
  <2>2. \A L \in SUBSET f.left : L \in SUBSET (1..Len(candidates))
    BY <2>1
  <2> QED
    BY <2>1, <2>2, StrataFinite
<1>4. /\ Cardinality(strata) \in Nat \ {0} /\ f.cursor \in Nat
      /\ place \in Nat /\ place < Cardinality(strata)
  <2>1. Cardinality(strata) \in Nat \ {0}
    BY <1>3, FS_CardinalityType, FS_EmptySet
  <2>2. f.cursor \in Nat
    BY DEF Candidacy
  <2> HIDE DEF strata
  <2>3. place \in Nat /\ place < Cardinality(strata)
    BY <2>1, <2>2
  <2> QED
    BY <2>1, <2>2, <2>3
<1>5. key \in strata
  BY <1>3, <1>4, KeyIsOne
<1>6. first \in here
  <2>1. here # {} /\ here \in SUBSET Nat
    <3> HIDE DEF key
    <3>1. PICK i \in f.left : key = Stratum[candidates[i]]
      BY <1>5 DEF Strata
    <3> QED
      BY <1>2, <3>1
  <2>2. \E x \in here : \A y \in here : x <= y
    <3> HIDE DEF here
    <3> QED
      BY <2>1, LeastNat
  <2> QED
    BY <2>2 DEF FirstOfStratum, Min
<1>7. /\ g.left = f.left \ {first} /\ g.selected = Append(f.selected, candidates[first])
      /\ g.cursor = IF rest = strata THEN f.cursor + 1
                    ELSE IF rest = {} THEN 0 ELSE place % Cardinality(rest)
  <2>1. ~(Len(f.selected) >= size \/ f.left = {})
    BY DEF Candidacy
  <2> QED
    BY <2>1 DEF FairStep
<1>8. g.cursor \in Nat
  <2>1. CASE rest = strata \/ rest = {}
    <3>1. g.cursor = f.cursor + 1 \/ g.cursor = 0
      BY <1>7, <2>1
    <3> HIDE DEF g
    <3> QED
      BY <1>4, <3>1
  <2>2. CASE rest # strata /\ rest # {}
    <3>1. Cardinality(rest) \in Nat \ {0}
      BY <1>3, <2>2, FS_CardinalityType, FS_EmptySet
    <3>2. g.cursor = place % Cardinality(rest)
      BY <1>7, <2>2
    <3> HIDE DEF rest, strata, place
    <3> QED
      BY <1>4, <3>1, <3>2
  <2> QED
    BY <2>1, <2>2
<1> HIDE DEF g, first, here
<1>9. first \in 1..Len(candidates) /\ first \in f.left /\ candidates[first] \in Player
  BY <1>1, <1>2, <1>6 DEF here
<1>10. /\ f.selected \in Seq(Player) /\ g.selected \in Seq(Player) /\ Len(g.selected) = Len(f.selected) + 1
       /\ \A j \in 1..Len(f.selected) : g.selected[j] = f.selected[j]
       /\ g.selected[Len(f.selected) + 1] = candidates[first]
  BY <1>7, <1>9 DEF Candidacy
<1>11. \A j \in 1..Len(f.selected) : f.selected[j] # candidates[first]
  BY <1>9 DEF Candidacy, Distinct
<1>12. Distinct(g.selected)
  <2>1. Distinct(f.selected)
    BY DEF Candidacy
  <2>2. \A j \in 1..Len(g.selected) : j = Len(f.selected) + 1 \/ j \in 1..Len(f.selected)
    BY <1>10
  <2> QED
    BY <1>10, <1>11, <2>1, <2>2 DEF Distinct
<1>13. \A j \in 1..Len(g.selected) :
          \E i \in (1..Len(candidates)) \ g.left : g.selected[j] = candidates[i]
  <2>1. \A j \in 1..Len(g.selected) : j = Len(f.selected) + 1 \/ j \in 1..Len(f.selected)
    BY <1>10
  <2> QED
    BY <1>7, <1>9, <1>10, <2>1 DEF Candidacy
<1>15. ASSUME NEW i \in (1..Len(candidates)) \ g.left
       PROVE  \E j \in 1..Len(g.selected) : g.selected[j] = candidates[i]
  <2>0. Len(f.selected) \in Nat
    BY <1>10
  <2>1. CASE i = first
    <3>1. Len(f.selected) + 1 \in 1..Len(g.selected)
      BY <1>10, <2>0
    <3> QED
      BY <1>10, <2>1, <3>1
  <2>2. CASE i # first
    <3>1. PICK j \in 1..Len(f.selected) : f.selected[j] = candidates[i]
      BY <1>7, <2>2 DEF Candidacy
    <3>2. j \in 1..Len(g.selected)
      BY <1>10, <2>0
    <3> QED
      BY <1>10, <3>1, <3>2
  <2> QED
    BY <2>1, <2>2
<1>14. Candidacy(candidates, g)
  BY <1>2, <1>7, <1>8, <1>10, <1>12, <1>13, <1>15 DEF Candidacy
<1>16. Selects(candidates, f, g, first)
  <2>1. Stratum[candidates[first]] = key
    BY <1>6 DEF here
  <2>2. Turn(candidates, f) = key
    BY DEF Turn
  <2>3. rest = Strata(candidates, g.left)
    BY <1>7
  <2> HIDE DEF key
  <2> QED
    BY <1>7, <2>1, <2>2, <2>3 DEF Selects
<1> QED
  BY <1>9, <1>10, <1>14, <1>16 DEF g

\* There is a function that goes on from s by F: up to the first number that had
\* none it would be that of the number before with one step more.
Iterates(R, D, F, s, N) ==
    /\ R \in [0..N -> D]
    /\ \A n \in 0..N : R[n] = IF n = 0 THEN s ELSE F[R[n - 1]]

\* There is such a function for any number of steps: the least without one would have it.
LEMMA IterationExists ==
  ASSUME NEW N \in Nat, NEW D, NEW F \in [D -> D], NEW s \in D
  PROVE  \E R : Iterates(R, D, F, s, N)
<1> DEFINE S == {m \in 0..N : ~ \E R : Iterates(R, D, F, s, m)}
<1>1. ASSUME S # {} PROVE FALSE
  <2>1. S \in SUBSET Nat
    OBVIOUS
  <2>2. PICK m \in S : \A x \in S : m <= x
    BY <1>1, <2>1, LeastNat
  <2>3. m # 0
    <3>1. Iterates([n \in 0..0 |-> s], D, F, s, 0)
      BY DEF Iterates
    <3> QED
      BY <2>2, <3>1
  <2>4. m - 1 \in 0..N /\ m - 1 \notin S /\ m \in 1..N
    BY <2>2, <2>3
  <2>5. PICK R : Iterates(R, D, F, s, m - 1)
    BY <2>4
  <2>6. PICK Q : Q = [n \in 0..m |-> IF n = m THEN F[R[m - 1]] ELSE R[n]]
    OBVIOUS
  <2>7. R \in [0..(m - 1) -> D] /\ R[m - 1] \in D
    BY <2>4, <2>5 DEF Iterates
  <2>8. Q \in [0..m -> D]
    BY <2>4, <2>6, <2>7
  <2>9. ASSUME NEW n \in 0..m PROVE Q[n] = IF n = 0 THEN s ELSE F[Q[n - 1]]
    <3>1. CASE n = m
      <4>1. Q[m] = F[R[m - 1]] /\ Q[m - 1] = R[m - 1]
        BY <2>4, <2>6
      <4> QED
        BY <2>3, <3>1, <4>1
    <3>2. CASE n # m
      <4>1. n \in 0..(m - 1)
        BY <2>4, <3>2
      <4>2. Q[n] = R[n] /\ R[n] = IF n = 0 THEN s ELSE F[R[n - 1]]
        BY <2>5, <2>6, <3>2, <4>1 DEF Iterates
      <4>3. n # 0 => Q[n - 1] = R[n - 1]
        BY <2>4, <2>6, <4>1
      <4> QED
        BY <4>2, <4>3
    <3> QED
      BY <3>1, <3>2
  <2>10. Iterates(Q, D, F, s, m)
    BY <2>8, <2>9 DEF Iterates
  <2> QED
    BY <2>2, <2>10
<1>2. N \notin S
  BY <1>1
<1> QED
  BY <1>2

\* The states of the loop over some candidates.
LoopState == [left : SUBSET Nat, cursor : Nat, selected : Seq(Player)]
LoopStart(candidates) == [left |-> DOMAIN candidates, cursor |-> 0, selected |-> <<>>]

\* The loop starts with all candidates left.
LEMMA StartIsCandidacy ==
  ASSUME NEW candidates \in Seq(Player)
  PROVE  LoopStart(candidates) \in LoopState /\ Candidacy(candidates, LoopStart(candidates))
<1>1. DOMAIN candidates = 1..Len(candidates) /\ Len(candidates) \in Nat
  OBVIOUS
<1>2. <<>> \in Seq(Player) /\ Len(<<>>) = 0 /\ 1..0 = {}
  OBVIOUS
<1> QED
  BY <1>1, <1>2 DEF LoopStart, LoopState, Candidacy, Distinct

\* An iteration of the loop, if only to do nothing, keeps that.
LEMMA StepIsCandidacy ==
  ASSUME NEW candidates \in Seq(Player), Distinct(candidates), NEW size \in Nat, NEW f \in LoopState,
         Candidacy(candidates, f)
  PROVE  FairStep(candidates, size, f) \in LoopState /\ Candidacy(candidates, FairStep(candidates, size, f))
<1>1. CASE Len(f.selected) >= size \/ f.left = {}
  BY <1>1 DEF FairStep
<1>2. CASE ~(Len(f.selected) >= size \/ f.left = {})
  <2>1. Len(f.selected) < size /\ f.left # {}
    BY <1>2 DEF LoopState
  <2>2. PICK g : g = FairStep(candidates, size, f)
    OBVIOUS
  <2>3. Candidacy(candidates, g)
    BY <2>1, <2>2, NextSelected
  <2>4. \E a, b, c : g = [left |-> a, cursor |-> b, selected |-> c]
    BY <1>2, <2>2 DEF FairStep
  <2>5. g \in LoopState
    BY <2>3, <2>4 DEF Candidacy, LoopState
  <2> QED
    BY <2>2, <2>3, <2>5
<1> QED
  BY <1>1, <1>2

\* FairLoop is what its definition says, and keeps that all along.
LEMMA LoopGoesOn ==
  ASSUME NEW candidates \in Seq(Player), Distinct(candidates), NEW size \in Nat
  PROVE  /\ FairLoop(candidates, size)[0] = LoopStart(candidates)
         /\ \A n \in 1..size : FairLoop(candidates, size)[n]
               = FairStep(candidates, size, FairLoop(candidates, size)[n - 1])
         /\ \A n \in 0..size : FairLoop(candidates, size)[n] \in LoopState
                               /\ Candidacy(candidates, FairLoop(candidates, size)[n])
<1> DEFINE D == {f \in LoopState : Candidacy(candidates, f)}
           F == [f \in D |-> FairStep(candidates, size, f)]
           start == LoopStart(candidates)
           L == FairLoop(candidates, size)
<1>1. start \in D
  BY StartIsCandidacy
<1>2. F \in [D -> D]
  BY StepIsCandidacy
<1>3. PICK R : Iterates(R, D, F, start, size)
  <2> HIDE DEF D, F, start
  <2> QED
    BY <1>1, <1>2, IterationExists
<1>4. R = [n \in 0..size |-> IF n = 0 THEN start ELSE FairStep(candidates, size, R[n - 1])]
  <2>1. ASSUME NEW n \in 0..size, n # 0 PROVE F[R[n - 1]] = FairStep(candidates, size, R[n - 1])
    <3>1. R[n - 1] \in D
      <4> HIDE DEF D
      <4> QED
        BY <1>3, <2>1 DEF Iterates
    <3> QED
      BY <3>1
  <2> HIDE DEF F, D, start
  <2> QED
    BY <1>3, <2>1 DEF Iterates
<1>5. L = [n \in 0..size |-> IF n = 0 THEN start ELSE FairStep(candidates, size, L[n - 1])]
  BY <1>4 DEF FairLoop, LoopStart
<1>6. L[0] = start /\ \A n \in 1..size : L[n] = FairStep(candidates, size, L[n - 1])
  <2> HIDE DEF L, start
  <2> QED
    BY <1>5
<1> DEFINE S == {n \in 0..size : L[n] \notin D}
<1>7. ASSUME S # {} PROVE FALSE
  <2> HIDE DEF D, L
  <2>1. S \in SUBSET Nat
    OBVIOUS
  <2>2. PICK n \in S : \A x \in S : n <= x
    BY <1>7, <2>1, LeastNat
  <2>3. n # 0
    BY <1>1, <1>6, <2>2
  <2>4. n \in 1..size /\ n - 1 \in 0..size /\ n - 1 \notin S
    BY <2>2, <2>3
  <2>5. L[n - 1] \in D
    BY <2>4
  <2>6. FairStep(candidates, size, L[n - 1]) \in D
    BY <2>5, StepIsCandidacy DEF D
  <2> QED
    BY <1>6, <2>2, <2>4, <2>6
<1>8. \A n \in 0..size : L[n] \in D
  <2> HIDE DEF D, L
  <2> QED
    BY <1>7
<1> QED
  BY <1>6, <1>8

\* A fair batch is of different candidates, and no more than were asked for.
LEMMA FairBatchFits ==
  ASSUME NEW candidates \in Seq(Player), Distinct(candidates), NEW size \in Nat
  PROVE  /\ FairBatch(candidates, size) \in Seq(Player) /\ Distinct(FairBatch(candidates, size))
         /\ Len(FairBatch(candidates, size)) <= size
         /\ \A j \in 1..Len(FairBatch(candidates, size)) :
               \E i \in 1..Len(candidates) : FairBatch(candidates, size)[j] = candidates[i]
<1> DEFINE L == FairLoop(candidates, size)
           S == {n \in 0..size : Len(L[n].selected) > n}
<1>1. /\ L[0] = LoopStart(candidates)
      /\ \A n \in 1..size : L[n] = FairStep(candidates, size, L[n - 1])
      /\ \A n \in 0..size : L[n] \in LoopState /\ Candidacy(candidates, L[n])
  BY LoopGoesOn
<1> HIDE DEF L
<1>2. ASSUME S # {} PROVE FALSE
  <2>1. S \in SUBSET Nat
    OBVIOUS
  <2>2. PICK n \in S : \A x \in S : n <= x
    BY <1>2, <2>1, LeastNat
  <2>3. n # 0
    <3>1. Len(L[0].selected) = 0
      BY <1>1 DEF LoopStart
    <3> QED
      BY <2>2, <3>1
  <2>4. n \in 1..size /\ n - 1 \in 0..size /\ n - 1 \notin S
    BY <2>2, <2>3
  <2>5. PICK f : f = L[n - 1]
    OBVIOUS
  <2>6. Candidacy(candidates, f) /\ Len(f.selected) \in Nat /\ Len(f.selected) <= n - 1
    BY <1>1, <2>4, <2>5 DEF LoopState
  <2>7. Len(FairStep(candidates, size, f).selected) <= n
    <3>1. CASE Len(f.selected) >= size \/ f.left = {}
      BY <2>4, <2>6, <3>1 DEF FairStep
    <3>2. CASE ~(Len(f.selected) >= size \/ f.left = {})
      <4>1. Len(FairStep(candidates, size, f).selected) = Len(f.selected) + 1
        <5>1. Len(f.selected) < size /\ f.left # {}
          BY <2>6, <3>2
        <5> QED
          BY <2>6, <5>1, NextSelected
      <4> QED
        BY <2>4, <2>6, <4>1
    <3> QED
      BY <3>1, <3>2
  <2>8. L[n] = FairStep(candidates, size, f) /\ Len(L[n].selected) \in Nat
    BY <1>1, <2>4, <2>5 DEF LoopState
  <2> QED
    BY <2>2, <2>4, <2>7, <2>8
<1>3. PICK f : f = L[size]
  OBVIOUS
<1>4. Candidacy(candidates, f) /\ Len(f.selected) \in Nat /\ Len(f.selected) <= size
  <2>1. size \in 0..size /\ size \notin S
    BY <1>2
  <2> QED
    BY <1>1, <1>3, <2>1 DEF LoopState
<1>5. FairBatch(candidates, size) = f.selected
  BY <1>3 DEF FairBatch, L
<1> QED
  BY <1>4, <1>5 DEF Candidacy

-----------------------------------------------------------------------------
(* The rows of the slices.                                                   *)

\* What a step of a slice makes of its row, and of those of the others.
Makes(w, row) ==
    /\ pc[w] = "work" /\ UNCHANGED <<pc, mine, elapsed>>
    /\ slice' \in [Worker -> Slice] /\ slice'[w] = row
    /\ \A v \in Worker \ {w} :
         slice'[v] = slice[v] \/ slice'[v] = [slice[v] EXCEPT !.saw = FALSE]

\* A worker without a slice has nothing to do.
LEMMA EmptySlice ==
  ASSUME CrawlAssumption
  PROVE  NoSlice \in Slice /\ NoSlice.todo = <<>> /\ NoSlice.at = "none" /\ RowFits(NoSlice)
         /\ NoSlice.cursor = NoCursor /\ NoCursor \in Cursor /\ NoSlice.saw = FALSE
<1>1. NoCursor \in Cursor /\ NoCursor.processed = 0
  BY DEF NoCursor, Cursor, CrawlAssumption
<1>2. NoSlice \in Slice /\ NoSlice.todo = <<>> /\ NoSlice.at = "none" /\ NoSlice.cursor = NoCursor /\ NoSlice.saw = FALSE
  BY <1>1 DEF NoSlice, Slice, Stages
<1>3. Len(<<>>) = 0 /\ 0 <= Target
  BY DEF CrawlAssumption
<1> QED
  BY <1>1, <1>2, <1>3 DEF RowFits, ToMake, Distinct, AtPlayer

\* A step that makes a fitting row of one slice leaves all of them fitting.
LEMMA MakesFit ==
  ASSUME CrawlAssumption, RowsFit, NEW w \in Worker, NEW row, RowFits(row), row.at # "none", Makes(w, row)
  PROVE  RowsFit'
<1>1. ASSUME NEW v \in Worker \ {w} PROVE RowFits(slice'[v]) /\ slice'[v].at = slice[v].at
                                           /\ (slice[v] = NoSlice => slice'[v] = NoSlice)
  <2>1. RowFits(slice[v])
    BY DEF RowsFit
  <2>2. PICK r : r = slice[v]
    OBVIOUS
  <2>3. PICK s : s = [r EXCEPT !.saw = FALSE]
    OBVIOUS
  <2>4. r \in Slice
    BY <2>1, <2>2 DEF RowFits
  <2>5. s.at = r.at /\ s.todo = r.todo /\ s.cursor = r.cursor /\ s \in Slice
    BY <2>3, <2>4 DEF Slice
  <2>6. RowFits(s)
    BY <2>1, <2>2, <2>5 DEF RowFits, ToMake
  <2>7. r = NoSlice => s = NoSlice
    <3>1. r.saw = FALSE => s = r
      BY <2>3, <2>4 DEF Slice
    <3> QED
      BY <3>1, EmptySlice
  <2> QED
    BY <2>1, <2>2, <2>3, <2>5, <2>6, <2>7 DEF Makes
<1>2. RowFits(slice'[w]) /\ slice'[w].at # "none"
  BY DEF Makes
<1>3. ASSUME NEW v \in Worker
      PROVE  /\ RowFits(slice'[v])
             /\ pc'[v] = "work" => slice'[v].at # "none" /\ mine'[v] \in RunId
             /\ pc'[v] # "work" => slice'[v] = NoSlice
  BY <1>1, <1>2 DEF Makes, RowsFit
<1> QED
  BY <1>3 DEF RowsFit, RowFits, Distinct, ToMake

\* A slice makes a row of its own, or leaves those of the others.
MakesFitting(w) == Makes(w, slice'[w]) /\ RowFits(slice'[w]) /\ slice'[w].at # "none"

\* An assignment to the row of one slice is such a step.
LEMMA OneRow ==
  ASSUME CrawlTypeOK, NEW w \in Worker, pc[w] = "work", UNCHANGED <<pc, mine, elapsed>>,
         NEW row, RowFits(row), row.at # "none", slice' = [slice EXCEPT ![w] = row]
  PROVE  MakesFitting(w) /\ slice'[w] = row
BY DEF CrawlTypeOK, MakesFitting, Makes, RowFits

\* What is known of the row of a slice.
LEMMA AtWork ==
  ASSUME CrawlTypeOK, RowsFit, NEW w \in Worker
  PROVE  /\ slice[w] \in Slice /\ RowFits(slice[w]) /\ slice[w].todo \in Seq(Player) /\ Len(slice[w].todo) \in Nat
         /\ slice[w].cursor \in Cursor /\ slice[w].cursor.processed \in 0..Target
         /\ slice[w].cursor.ingested \in Nat /\ slice[w].drained \in BOOLEAN /\ slice[w].saw \in BOOLEAN
         /\ slice[w].seen \subseteq Battle /\ slice[w].at \in Stages
         /\ slice[w].at \in AtPlayer => slice[w].todo # <<>> /\ Len(slice[w].todo) > 0
                                        /\ Now(w) \in Player /\ Now(w) = slice[w].todo[1]
<1>1. slice[w] \in Slice /\ RowFits(slice[w])
  BY DEF CrawlTypeOK, RowsFit
<1>2. slice[w].todo \in Seq(Player) /\ slice[w].cursor \in Cursor
  BY <1>1 DEF Slice
<1>3. slice[w].todo # <<>> => Len(slice[w].todo) > 0 /\ Head(slice[w].todo) \in Player /\ Head(slice[w].todo) = slice[w].todo[1]
  BY <1>2
<1> QED
  BY <1>1, <1>2, <1>3 DEF RowFits, Slice, Cursor, Now

\* The leasing transaction gives a slice different candidates, no more than it has room for.
LEMMA LeaseRow ==
  ASSUME CrawlAssumption, CrawlTypeOK, RowsFit, NEW w \in Worker,
         NEW candidates \in SetToSeqs(Candidates), Lease(w, candidates)
  PROVE  /\ MakesFitting(w) /\ slice[w].at = "loaded"
         /\ slice'[w].todo = FairBatch(candidates, Room(w)) /\ slice'[w].cursor = slice[w].cursor
         /\ slice'[w].saw = slice[w].saw /\ slice'[w].at \in {"budget", "drained"}
         /\ ToSet(slice'[w].todo) \subseteq Candidates
         /\ \A i \in 1..Len(slice'[w].todo) : slice'[w].todo[i] \in Candidates
<1> DEFINE chosen == FairBatch(candidates, Room(w))
<1>1. candidates \in Seq(Player) /\ Distinct(candidates)
      /\ Len(candidates) \in Nat /\ \A i \in 1..Len(candidates) : candidates[i] \in Candidates
  <2>1. Candidates \subseteq Player
    BY DEF Candidates, CrawlTypeOK
  <2>2. IsFiniteSet(Candidates)
    BY <2>1, FS_Subset DEF CrawlAssumption
  <2>3. PICK n \in Nat : n = Cardinality(Candidates)
    BY <2>2, FS_CardinalityType
  <2>4. candidates \in [1..n -> Candidates] /\ \A i, j \in 1..n : i # j => candidates[i] # candidates[j]
    BY <2>3 DEF SetToSeqs
  <2>5. candidates \in Seq(Player) /\ Len(candidates) = n
    BY <2>1, <2>4
  <2> QED
    BY <2>3, <2>4, <2>5 DEF Distinct
<1>2. Room(w) \in Nat /\ Room(w) <= Target - slice[w].cursor.processed
  <2>1. PICK n : n = slice[w].cursor.processed
    OBVIOUS
  <2>2. n \in 0..Target /\ n < Target
    BY <2>1, AtWork DEF Lease
  <2>3. Target \in Nat /\ SlicePlayers \in Nat
    BY DEF CrawlAssumption
  <2>4. Room(w) = IF Target - n < SlicePlayers THEN Target - n ELSE SlicePlayers
    BY <2>1 DEF Room
  <2> QED
    BY <2>1, <2>2, <2>3, <2>4
<1>3. chosen \in Seq(Player) /\ Distinct(chosen) /\ Len(chosen) <= Room(w) /\ Len(chosen) \in Nat
      /\ \A i \in 1..Len(chosen) : chosen[i] \in Candidates
  <2>1. \A i \in 1..Len(chosen) : \E j \in 1..Len(candidates) : chosen[i] = candidates[j]
    BY <1>1, <1>2, FairBatchFits
  <2>2. chosen \in Seq(Player) /\ Distinct(chosen) /\ Len(chosen) <= Room(w)
    BY <1>1, <1>2, FairBatchFits
  <2>3. Len(chosen) \in Nat
    BY <2>2
  <2> HIDE DEF chosen
  <2> QED
    BY <1>1, <2>1, <2>2, <2>3
<1>4. pc[w] = "work" /\ slice[w].at = "loaded" /\ UNCHANGED <<pc, mine, elapsed>>
  BY DEF Lease, At, wfVars
<1>5. slice' = [slice EXCEPT ![w].at = IF chosen = <<>> THEN "drained" ELSE "budget",
                             ![w].todo = chosen, ![w].drained = Len(chosen) < Room(w)]
  BY DEF Lease
<1> HIDE DEF chosen
<1>6. PICK s : s = slice[w]
  OBVIOUS
<1>7. PICK row : row = [s EXCEPT !.at = IF chosen = <<>> THEN "drained" ELSE "budget",
                                 !.todo = chosen, !.drained = Len(chosen) < Room(w)]
  OBVIOUS
<1>8. s \in Slice
  BY <1>6, AtWork
<1>9. /\ row.at = (IF chosen = <<>> THEN "drained" ELSE "budget") /\ row.todo = chosen
      /\ row.cursor = s.cursor /\ row.saw = s.saw /\ row \in Slice
  <2>1. row = [at |-> IF chosen = <<>> THEN "drained" ELSE "budget", todo |-> chosen,
               drained |-> Len(chosen) < Room(w), saw |-> s.saw, seen |-> s.seen, cursor |-> s.cursor]
    BY <1>7, <1>8 DEF Slice
  <2>2. (Len(chosen) < Room(w)) \in BOOLEAN
    OBVIOUS
  <2> QED
    BY <1>3, <1>8, <2>1, <2>2 DEF Slice, Stages
<1>10. RowFits(row)
  <2>1. row.cursor.processed + ToMake(row) <= Target
    BY SMTT(30), <1>2, <1>3, <1>6, <1>9, AtWork DEF ToMake, CrawlAssumption
  <2> QED
    BY <1>3, <1>9, <2>1 DEF RowFits, AtPlayer
<1>11. slice' = [slice EXCEPT ![w] = row]
  BY <1>5, <1>6, <1>7 DEF CrawlTypeOK
<1>12. MakesFitting(w) /\ slice'[w] = row
  BY <1>4, <1>9, <1>10, <1>11, OneRow
<1>13. ToSet(chosen) \subseteq Candidates
  BY <1>3 DEF ToSet
<1> QED
  BY <1>3, <1>4, <1>6, <1>9, <1>12, <1>13 DEF chosen

\* A row that only moves on keeps its players.
MovedTo(row, stage, saw) == [row EXCEPT !.at = stage, !.saw = saw]

\* A slice that only goes to another stage still fits.
LEMMA MovedRow ==
  ASSUME CrawlAssumption, NEW row, RowFits(row), row.at \in AtPlayer \cup {"budget"}, row.todo # <<>>,
         NEW stage \in {"reset", "consume", "fetch"}, row.at \notin {"ingesting", "ingested"},
         NEW saw \in BOOLEAN, NEW next, next = MovedTo(row, stage, saw)
  PROVE  RowFits(next) /\ next.at = stage /\ next.todo = row.todo /\ next.cursor = row.cursor /\ next.saw = saw
<1>1. row \in Slice
  BY DEF RowFits
<1>2. /\ next.at = stage /\ next.todo = row.todo /\ next.cursor = row.cursor /\ next.saw = saw
      /\ next \in Slice
  <2>1. next = [at |-> stage, todo |-> row.todo, drained |-> row.drained, saw |-> saw,
                seen |-> row.seen, cursor |-> row.cursor]
    BY <1>1 DEF Slice, MovedTo
  <2> QED
    BY <1>1, <2>1 DEF Slice, Stages
<1> QED
  BY <1>2 DEF RowFits, ToMake, AtPlayer

\* It does that when it reads the budget and when it takes a request from it,
LEMMA BudgetRow ==
  ASSUME CrawlAssumption, CrawlTypeOK, RowsFit, NEW w \in Worker, ReadBudget(w) \/ Consume(w)
  PROVE  /\ MakesFitting(w) /\ slice'[w].todo = slice[w].todo /\ slice'[w].cursor = slice[w].cursor
         /\ slice'[w].at \in {"reset", "consume", "fetch"}
         /\ ReadBudget(w) => slice'[w].saw = budget.over
         /\ Consume(w) => slice'[w].saw = slice[w].saw
<1>1. PICK s : s = slice[w]
  OBVIOUS
<1>2. RowFits(s) /\ s \in Slice /\ s.at \notin {"ingesting", "ingested"} /\ s.at \in AtPlayer \cup {"budget"} /\ s.todo # <<>>
      /\ s.saw \in BOOLEAN /\ pc[w] = "work" /\ UNCHANGED <<pc, mine, elapsed>>
  BY <1>1, AtWork DEF ReadBudget, Consume, At, AtPlayer, wfVars
<1>3. CASE ReadBudget(w)
  <2>1. PICK stage \in {"reset", "consume", "fetch"} : stage = IF budget.over THEN "reset" ELSE "consume"
    OBVIOUS
  <2>2. PICK saw \in BOOLEAN : saw = budget.over
    BY DEF CrawlTypeOK
  <2>3. PICK next : next = MovedTo(s, stage, saw)
    OBVIOUS
  <2>4. RowFits(next) /\ next.at = stage /\ next.todo = s.todo /\ next.cursor = s.cursor /\ next.saw = saw
    BY <1>2, <2>3, MovedRow
  <2>5. slice' = [slice EXCEPT ![w] = next]
    BY <1>1, <1>3, <2>1, <2>2, <2>3 DEF ReadBudget, CrawlTypeOK, MovedTo
  <2>6. MakesFitting(w) /\ slice'[w] = next
    BY <1>2, <2>4, <2>5, OneRow
  <2>7. ~Consume(w)
    BY <1>3 DEF ReadBudget, Consume, At
  <2> QED
    BY <1>1, <2>2, <2>4, <2>6, <2>7
<1>4. CASE Consume(w)
  <2>1. PICK next : next = MovedTo(s, "fetch", s.saw)
    OBVIOUS
  <2>2. RowFits(next) /\ next.at = "fetch" /\ next.todo = s.todo /\ next.cursor = s.cursor /\ next.saw = s.saw
    BY <1>2, <2>1, MovedRow
  <2>3. next = [s EXCEPT !.at = "fetch"]
    BY <1>2, <2>1 DEF Slice, MovedTo
  <2>4. slice' = [slice EXCEPT ![w] = next]
    BY <1>1, <1>4, <2>3 DEF Consume, Go, CrawlTypeOK
  <2>5. MakesFitting(w) /\ slice'[w] = next
    BY <1>2, <2>2, <2>4, OneRow
  <2>6. ~ReadBudget(w)
    BY <1>4 DEF ReadBudget, Consume, At
  <2> QED
    BY <1>1, <2>2, <2>5, <2>6
<1> QED
  BY <1>3, <1>4

\* and when it starts a new window: then nobody has seen the old one end any more.
LEMMA ResetRow ==
  ASSUME CrawlAssumption, CrawlTypeOK, RowsFit, NEW w \in Worker, ResetWindow(w)
  PROVE  /\ MakesFitting(w) /\ slice'[w].todo = slice[w].todo /\ slice'[w].cursor = slice[w].cursor
         /\ slice'[w].at = "consume"
         /\ slice[w].saw => \A v \in Worker : ~slice'[v].saw
         /\ ~slice[w].saw => ~slice'[w].saw /\ slice' = [slice EXCEPT ![w].at = "consume"]
<1>1. PICK s : s = slice[w]
  OBVIOUS
<1>2. RowFits(s) /\ s \in Slice /\ s.at \notin {"ingesting", "ingested"} /\ s.at \in AtPlayer \cup {"budget"} /\ s.todo # <<>>
      /\ s.saw \in BOOLEAN /\ pc[w] = "work" /\ UNCHANGED <<pc, mine, elapsed>>
  BY <1>1, AtWork DEF ResetWindow, At, AtPlayer, wfVars
<1>0. PICK no \in BOOLEAN : no = FALSE
  OBVIOUS
<1>3. PICK next : next = MovedTo(s, "consume", no)
  OBVIOUS
<1>4. RowFits(next) /\ next.at = "consume" /\ next.todo = s.todo /\ next.cursor = s.cursor /\ next.saw = FALSE
  BY <1>0, <1>2, <1>3, MovedRow
<1>5. CASE slice[w].saw
  <2>1. slice' = [v \in Worker |-> [slice[v] EXCEPT !.saw = FALSE, !.at = IF v = w THEN "consume" ELSE @]]
    BY <1>5 DEF ResetWindow, ResetMatches
  <2>2. slice'[w] = next
    BY <1>0, <1>1, <1>2, <1>3, <2>1 DEF Slice, MovedTo
  <2>3. ASSUME NEW v \in Worker \ {w}
        PROVE  slice'[v] = [slice[v] EXCEPT !.saw = FALSE] /\ ~slice'[v].saw /\ slice'[v] \in Slice
    <3>1. PICK r : r = slice[v]
      OBVIOUS
    <3>2. PICK q : q = [r EXCEPT !.saw = FALSE]
      OBVIOUS
    <3>3. slice'[v] = [r EXCEPT !.saw = FALSE, !.at = r.at] /\ r \in Slice
      BY <2>1, <3>1 DEF CrawlTypeOK
    <3>4. q = [r EXCEPT !.saw = FALSE, !.at = r.at] /\ q \in Slice /\ q.saw = FALSE
      BY <3>2, <3>3 DEF Slice
    <3> QED
      BY <3>1, <3>2, <3>3, <3>4
  <2>4. slice' \in [Worker -> Slice]
    <3>1. \A v \in Worker : slice'[v] \in Slice
      BY <1>4, <2>2, <2>3 DEF RowFits
    <3>2. DOMAIN slice' = Worker /\ slice' = [v \in DOMAIN slice' |-> slice'[v]]
      BY <2>1
    <3> QED
      BY <3>1, <3>2
  <2>5. Makes(w, next) 
    BY <1>2, <2>2, <2>3, <2>4 DEF Makes
  <2> QED
    BY <1>1, <1>4, <1>5, <2>2, <2>3, <2>5 DEF MakesFitting
<1>6. CASE ~slice[w].saw
  <2>1. slice' = [slice EXCEPT ![w].at = "consume"]
    BY <1>6 DEF ResetWindow, ResetMatches, Go
  <2>2. next = [s EXCEPT !.at = "consume"]
    BY <1>0, <1>1, <1>2, <1>3, <1>6 DEF Slice, MovedTo
  <2>3. slice' = [slice EXCEPT ![w] = next]
    BY <1>1, <2>1, <2>2 DEF CrawlTypeOK
  <2>4. MakesFitting(w) /\ slice'[w] = next
    BY <1>2, <1>4, <2>3, OneRow
  <2> QED
    BY <1>1, <1>4, <1>6, <2>1, <2>4
<1> QED
  BY <1>5, <1>6

\* The slice is done with a player.
LEMMA OnwardRow ==
  ASSUME CrawlAssumption, CrawlTypeOK, RowsFit, NEW w \in Worker, slice[w].at \in AtPlayer,
         pc[w] = "work", UNCHANGED <<pc, mine, elapsed>>,
         NEW counts \in Cursor, counts.processed + Len(slice[w].todo) - 1 <= Target, GoOn(w, counts)
  PROVE  /\ MakesFitting(w) /\ slice'[w].todo = Tail(slice[w].todo) /\ slice'[w].cursor = counts
         /\ slice'[w].at = "budget" /\ slice'[w].saw = FALSE
<1>1. PICK s : s = slice[w]
  OBVIOUS
<1>2. RowFits(s) /\ s.at \in AtPlayer
  BY <1>1, AtWork
<1>3. PICK next : next = Onward(s, counts)
  OBVIOUS
<1>4. /\ RowFits(next) /\ next.at = "budget" /\ next.todo = Tail(s.todo) /\ next.cursor = counts
      /\ next.saw = FALSE
  <2>0. counts.processed + Len(s.todo) - 1 <= Target /\ next = Onward(s, counts)
    BY <1>1, <1>3
  <2>1. s \in Slice /\ s.todo # <<>> /\ s.todo \in Seq(Player)
    BY <1>2 DEF RowFits, Slice
  <2>2. Tail(s.todo) \in Seq(Player) /\ Len(Tail(s.todo)) = Len(s.todo) - 1
        /\ \A i \in 1..Len(Tail(s.todo)) : Tail(s.todo)[i] = s.todo[i + 1]
    BY <2>1, HeadTailProperties
  <2>3. /\ next.at = "budget" /\ next.todo = Tail(s.todo) /\ next.saw = FALSE /\ next.seen = {}
        /\ next.cursor = counts /\ next.drained = s.drained /\ next \in Slice
    <3>1. next = [at |-> "budget", todo |-> Tail(s.todo), drained |-> s.drained, saw |-> FALSE,
                  seen |-> {}, cursor |-> counts]
      BY <2>0, <2>1 DEF Slice, Onward
    <3> QED
      BY <2>1, <2>2, <3>1 DEF Slice, Stages
  <2>4. Distinct(next.todo)
    <3>1. Distinct(s.todo) /\ Len(s.todo) \in Nat
      BY <1>2, <2>1 DEF RowFits
    <3>2. ASSUME NEW i \in 1..Len(next.todo), NEW j \in 1..Len(next.todo), next.todo[i] = next.todo[j]
          PROVE  i = j
      <4>0. PICK n \in Nat : n = Len(s.todo)
        BY <3>1
      <4>1. i + 1 \in 1..Len(s.todo) /\ j + 1 \in 1..Len(s.todo)
        <5>1. i \in 1..(n - 1) /\ j \in 1..(n - 1)
          BY <2>2, <2>3, <4>0
        <5> QED
          BY SMTT(60), <4>0, <5>1
      <4>2. s.todo[i + 1] = s.todo[j + 1]
        BY <2>2, <2>3, <3>2
      <4>3. i + 1 = j + 1
        BY <3>1, <4>1, <4>2 DEF Distinct
      <4> QED
        BY <4>3
    <3> QED
      BY <3>2 DEF Distinct
  <2>5. counts.processed \in 0..Target /\ Len(s.todo) \in Nat
    BY <2>1 DEF Cursor
  <2> QED
    BY <1>2, <2>0, <2>2, <2>3, <2>4, <2>5 DEF RowFits, ToMake, AtPlayer, CrawlAssumption
<1>5. slice' = [slice EXCEPT ![w] = next]
  BY <1>1, <1>3 DEF GoOn
<1>6. MakesFitting(w) /\ slice'[w] = next
  BY <1>4, <1>5, OneRow
<1> QED
  BY <1>1, <1>4, <1>6

\* A request counts.
LEMMA CountedCursor ==
  ASSUME CrawlAssumption, CrawlTypeOK, RowsFit, NEW w \in Worker, slice[w].at = "fetch"
  PROVE  /\ Counted(w) \in Cursor /\ Counted(w).processed = slice[w].cursor.processed + 1
         /\ Counted(w).ingested = slice[w].cursor.ingested
         /\ Counted(w).processed + Len(slice[w].todo) - 1 <= Target
<1>1. PICK c : c = slice[w].cursor
  OBVIOUS
<1>2. PICK n : n = Len(slice[w].todo)
  OBVIOUS
<1>3. c \in Cursor /\ c.processed \in 0..Target /\ n \in Nat /\ n > 0 /\ c.processed + n <= Target
  BY <1>1, <1>2, AtWork DEF RowFits, ToMake, AtPlayer
<1>4. Target \in Nat
  BY DEF CrawlAssumption
<1>5. c.processed + 1 \in 0..Target /\ c.processed + 1 + n - 1 <= Target
  BY <1>3, <1>4
<1>6. Counted(w) = [c EXCEPT !.processed = @ + 1]
  BY <1>1 DEF Counted
<1>7. Counted(w).processed = c.processed + 1 /\ Counted(w).ingested = c.ingested
      /\ Counted(w) \in Cursor
  BY <1>3, <1>5, <1>6 DEF Cursor
<1> QED
  BY <1>1, <1>2, <1>5, <1>7

\* A player that is done with, after a denial, a failure or a success, is no longer to do.
LEMMA PlayerRow ==
  ASSUME CrawlAssumption, CrawlTypeOK, RowsFit, NEW w \in Worker,
         \/ Deny(w) \/ RecordSuccess(w)
         \/ \E answer \in Answer, backoff \in BOOLEAN : FetchFails(w, answer, backoff)
  PROVE  /\ MakesFitting(w) /\ slice'[w].todo = Tail(slice[w].todo)
         /\ slice'[w].at = "budget" /\ slice'[w].saw = FALSE
         /\ Deny(w) \/ RecordSuccess(w) => slice'[w].cursor = slice[w].cursor
         /\ (\E answer \in Answer, backoff \in BOOLEAN : FetchFails(w, answer, backoff))
               => slice'[w].cursor = Counted(w) /\ slice[w].at = "fetch" /\ Request(w)
         /\ slice[w].at \in AtPlayer
<1>1. CASE Deny(w) \/ RecordSuccess(w)
  <2>1. /\ slice[w].at \in {"consume", "ingested"} /\ pc[w] = "work" /\ UNCHANGED <<pc, mine, elapsed>>
        /\ GoOn(w, slice[w].cursor)
    BY <1>1 DEF Deny, RecordSuccess, At, wfVars
  <2>2. slice[w].cursor \in Cursor /\ slice[w].cursor.processed + Len(slice[w].todo) - 1 <= Target
    <3>1. PICK c : c = slice[w].cursor
      OBVIOUS
    <3>2. PICK n : n = Len(slice[w].todo)
      OBVIOUS
    <3>3. c \in Cursor /\ c.processed \in 0..Target /\ n \in Nat /\ (c.processed + n <= Target \/ c.processed + (n - 1) <= Target)
      BY <3>1, <3>2, AtWork DEF RowFits, ToMake
    <3>4. Target \in Nat
      BY DEF CrawlAssumption
    <3> QED
      BY SMTT(60), <3>1, <3>2, <3>3, <3>4
  <2>3. ~(\E answer \in Answer, backoff \in BOOLEAN : FetchFails(w, answer, backoff))
    BY <2>1 DEF FetchFails, Request, At
  <2>4. slice[w].at \in AtPlayer
    BY <2>1 DEF AtPlayer
  <2> QED
    BY <2>1, <2>2, <2>3, <2>4, OnwardRow
<1>2. CASE \E answer \in Answer, backoff \in BOOLEAN : FetchFails(w, answer, backoff)
  <2>1. /\ slice[w].at = "fetch" /\ pc[w] = "work" /\ UNCHANGED <<pc, mine, elapsed>> /\ Request(w)
        /\ GoOn(w, Counted(w))
    BY <1>2 DEF FetchFails, Request, At, wfVars
  <2>2. ~Deny(w) /\ ~RecordSuccess(w)
    BY <2>1 DEF Deny, RecordSuccess, At
  <2>3. slice[w].at \in AtPlayer
    BY <2>1 DEF AtPlayer
  <2> QED
    BY <2>1, <2>2, <2>3, CountedCursor, OnwardRow
<1> QED
  BY <1>1, <1>2

\* A request that succeeds is counted, and its player is still to do.
LEMMA FetchRow ==
  ASSUME CrawlAssumption, CrawlTypeOK, RowsFit, NEW w \in Worker, FetchSucceeds(w)
  PROVE  /\ MakesFitting(w) /\ slice'[w].todo = slice[w].todo /\ slice'[w].at = "ingesting"
         /\ slice'[w].cursor = Counted(w) /\ slice[w].at = "fetch" /\ slice'[w].saw = slice[w].saw
<1>1. PICK s : s = slice[w]
  OBVIOUS
<1>2. RowFits(s) /\ s \in Slice /\ s.at = "fetch" /\ pc[w] = "work" /\ UNCHANGED <<pc, mine, elapsed>>
      /\ s.todo # <<>> /\ s.todo \in Seq(Player) /\ stored \subseteq Battle
  BY <1>1, AtWork DEF FetchSucceeds, Request, At, AtPlayer, wfVars, CrawlTypeOK
<1>3. PICK c : c = Counted(w)
  OBVIOUS
<1>4. c \in Cursor /\ c.processed + Len(s.todo) - 1 <= Target
  BY <1>1, <1>2, <1>3, CountedCursor
<1>5. PICK next : next = [s EXCEPT !.at = "ingesting", !.seen = stored, !.cursor = c]
  OBVIOUS
<1>10. next = [at |-> "ingesting", todo |-> s.todo, drained |-> s.drained, saw |-> s.saw,
               seen |-> stored, cursor |-> c]
  BY <1>2, <1>5 DEF Slice
<1>6. /\ next \in Slice /\ next.at = "ingesting" /\ next.todo = s.todo /\ next.cursor = c
      /\ next.saw = s.saw
  BY <1>2, <1>4, <1>10 DEF Slice, Stages
<1>7. RowFits(next)
  <2>1. PICK n \in Nat : n = Len(s.todo)
    BY <1>2
  <2>2. PICK m \in Nat : m = c.processed
    BY <1>4 DEF Cursor
  <2>3. Target \in Nat
    BY DEF CrawlAssumption
  <2>4. m + (n - 1) <= Target
    BY <1>4, <2>1, <2>2, <2>3
  <2>5. ToMake(next) = n - 1
    BY <1>6, <2>1 DEF ToMake
  <2>6. next.cursor.processed + ToMake(next) <= Target
    BY <1>6, <2>2, <2>4, <2>5
  <2> QED
    BY <1>2, <1>6, <2>6 DEF RowFits, AtPlayer
<1>8. slice' = [slice EXCEPT ![w] = next]
  <2>1. slice' = [slice EXCEPT ![w] = [s EXCEPT !.at = "ingesting", !.seen = stored, !.cursor = c]]
    BY <1>1, <1>3 DEF FetchSucceeds
  <2> QED
    BY <1>5, <2>1
<1>9. MakesFitting(w) /\ slice'[w] = next
  BY <1>2, <1>6, <1>7, <1>8, OneRow
<1> QED
  BY <1>1, <1>2, <1>3, <1>6, <1>9

\* So is the player whose battles are inserted and counted.
LEMMA IngestRow ==
  ASSUME CrawlAssumption, CrawlTypeOK, RowsFit, NEW w \in Worker, Ingest(w)
  PROVE  /\ MakesFitting(w) /\ slice'[w].todo = slice[w].todo /\ slice'[w].at = "ingested"
         /\ slice'[w].saw = slice[w].saw /\ slice[w].at = "ingesting"
         /\ slice'[w].cursor.processed = slice[w].cursor.processed
         /\ slice'[w].cursor.ingested = slice[w].cursor.ingested + Cardinality(ToInsert(w))
         /\ IsFiniteSet(ToInsert(w)) /\ ToInsert(w) \subseteq Battle
<1>1. PICK s : s = slice[w]
  OBVIOUS
<1>2. RowFits(s) /\ s \in Slice /\ s.at = "ingesting" /\ pc[w] = "work" /\ UNCHANGED <<pc, mine, elapsed>>
      /\ s.todo # <<>> /\ s.todo \in Seq(Player) /\ s.cursor \in Cursor /\ Now(w) \in Player
  BY <1>1, AtWork DEF Ingest, At, AtPlayer, wfVars
<1>3. ToInsert(w) \subseteq Battle /\ IsFiniteSet(ToInsert(w))
  <2>1. ToInsert(w) \subseteq Battle
    BY <1>2 DEF ToInsert, CrawlAssumption
  <2> QED
    BY <2>1, FS_Subset DEF CrawlAssumption
<1>4. PICK n \in Nat : n = Cardinality(ToInsert(w))
  BY <1>3, FS_CardinalityType
<1>5. PICK c : c = [processed |-> s.cursor.processed, ingested |-> s.cursor.ingested + n]
  OBVIOUS
<1>6. c \in Cursor /\ c.processed = s.cursor.processed /\ c.ingested = s.cursor.ingested + n
  BY SMTT(30), <1>2, <1>4, <1>5 DEF Cursor
<1>7. PICK next : next = [s EXCEPT !.at = "ingested", !.seen = {}, !.cursor = c]
  OBVIOUS
<1>12. next = [at |-> "ingested", todo |-> s.todo, drained |-> s.drained, saw |-> s.saw,
               seen |-> {}, cursor |-> c]
  BY <1>2, <1>7 DEF Slice
<1>8. /\ next \in Slice /\ next.at = "ingested" /\ next.todo = s.todo /\ next.cursor = c
      /\ next.saw = s.saw
  BY <1>2, <1>6, <1>12 DEF Slice, Stages
<1>9. RowFits(next)
  BY <1>2, <1>6, <1>8 DEF RowFits, AtPlayer, ToMake
<1>10. slice' = [slice EXCEPT ![w] = next]
  <2>1. slice' = [slice EXCEPT ![w].at = "ingested", ![w].seen = {}, ![w].cursor.ingested = @ + n]
    BY <1>4 DEF Ingest
  <2>2. [s.cursor EXCEPT !.ingested = @ + n] = c
    BY SMTT(30), <1>2, <1>5 DEF Cursor
  <2>3. PICK first : first = [slice EXCEPT ![w].at = "ingested"]
    OBVIOUS
  <2>4. PICK second : second = [first EXCEPT ![w].seen = {}]
    OBVIOUS
  <2>5. slice' = [second EXCEPT ![w].cursor.ingested = @ + n]
    BY <2>1, <2>3, <2>4
  <2>6. DOMAIN slice = Worker /\ DOMAIN first = Worker /\ DOMAIN second = Worker
    BY <2>3, <2>4 DEF CrawlTypeOK
  <2>7. first[w] = [s EXCEPT !.at = "ingested"]
    BY <1>1, <2>3, <2>6
  <2>8. second[w] = [s EXCEPT !.at = "ingested", !.seen = {}]
    BY <2>4, <2>6, <2>7
  <2>9. second[w].cursor = s.cursor
    BY <1>2, <2>8 DEF Slice
  <2>10. slice'[w] = next
    <3>1. slice'[w] = [second[w] EXCEPT !.cursor = [second[w].cursor EXCEPT !.ingested = @ + n]]
      BY <2>5, <2>6
    <3> QED
      BY <1>7, <2>2, <2>8, <2>9, <3>1
  <2>11. \A v \in Worker : v # w => slice'[v] = slice[v]
    BY <2>3, <2>4, <2>5, <2>6
  <2>12. slice' = [v \in Worker |-> slice'[v]]
    BY <2>5, <2>6
  <2> QED
    BY <2>6, <2>10, <2>11, <2>12
<1>11. MakesFitting(w) /\ slice'[w] = next
  BY <1>2, <1>8, <1>9, <1>10, OneRow
<1> QED
  BY <1>1, <1>2, <1>3, <1>4, <1>6, <1>8, <1>11

\* The cursor is written as the slice has it.
LEMMA WriteRow ==
  ASSUME CrawlAssumption, CrawlTypeOK, RowsFit, NEW w \in Worker, WriteCursor(w)
  PROVE  /\ MakesFitting(w) /\ slice'[w].todo = slice[w].todo /\ slice[w].todo = <<>> /\ slice'[w].at = "wrote"
         /\ slice'[w].saw = slice[w].saw /\ slice'[w].cursor = slice[w].cursor
<1>1. PICK s : s = slice[w]
  OBVIOUS
<1>2. RowFits(s) /\ s \in Slice /\ s.at = "budget" /\ pc[w] = "work" /\ UNCHANGED <<pc, mine, elapsed>>
      /\ s.todo = <<>>
  BY <1>1, AtWork DEF WriteCursor, At, wfVars
<1>3. PICK next : next = [s EXCEPT !.at = "wrote"]
  OBVIOUS
<1>4. next \in Slice /\ next.at = "wrote" /\ next.todo = s.todo /\ next.saw = s.saw /\ next.cursor = s.cursor
  BY <1>2, <1>3 DEF Slice, Stages
<1>5. RowFits(next)
  BY <1>2, <1>4 DEF RowFits, AtPlayer, ToMake
<1>6. slice' = [slice EXCEPT ![w] = next]
  BY <1>1, <1>3 DEF WriteCursor, Go, CrawlTypeOK
<1>7. MakesFitting(w) /\ slice'[w] = next
  BY <1>2, <1>4, <1>5, <1>6, OneRow
<1> QED
  BY <1>1, <1>2, <1>4, <1>7

\* All the steps of a slice make a fitting row of it.
LEMMA SliceMakes ==
  ASSUME CrawlAssumption, CrawlTypeOK, RowsFit, NEW w \in Worker, OfSlice(w)
  PROVE  MakesFitting(w)
BY LeaseRow, BudgetRow, ResetRow, PlayerRow, FetchRow, IngestRow, WriteRow DEF OfSlice

\* It does nothing to the players and the counters of the others.
LEMMA OthersKeep ==
  ASSUME CrawlAssumption, CrawlTypeOK, RowsFit, NEW w \in Worker, MakesFitting(w), NEW v \in Worker \ {w}
  PROVE  slice'[v].todo = slice[v].todo /\ slice'[v].cursor = slice[v].cursor
         /\ slice'[v].at = slice[v].at /\ (slice'[v].saw => slice[v].saw)
<1>1. slice'[v] = slice[v] \/ slice'[v] = [slice[v] EXCEPT !.saw = FALSE]
  BY DEF MakesFitting, Makes
<1>2. PICK row : row = slice[v]
  OBVIOUS
<1>3. row \in Slice
  BY <1>2, AtWork
<1>4. /\ [row EXCEPT !.saw = FALSE].todo = row.todo /\ [row EXCEPT !.saw = FALSE].cursor = row.cursor
      /\ [row EXCEPT !.saw = FALSE].at = row.at /\ [row EXCEPT !.saw = FALSE].saw = FALSE
  BY <1>3 DEF Slice
<1> QED
  BY <1>1, <1>2, <1>4

\* Time, due dates and windows leave the slices and the counters alone.
LEMMA PassesAside ==
  ASSUME TypeOK, Passes
  PROVE  UNCHANGED <<pc, mine, slice, stored, cursor, granted, made>>
BY DEF Passes, Time, Tick, ComeDue, BackoffEnds, WindowElapses, wfVars

\* Whatever happens, the rows of the slices fit.
LEMMA RowsKept ==
  ASSUME CrawlAssumption, CrawlTypeOK, RowsFit, [CrawlNext]_vars
  PROVE  RowsFit'
<1>0. TypeOK
  BY DEF CrawlTypeOK
<1>1. CASE Aside
  BY ZenonT(30), <1>1 DEF Aside, jobVars, RowsFit, RowFits, Distinct, ToMake
<1>2. ASSUME NEW w \in Worker, Enters(w) PROVE RowsFit'
  <2>1. PICK r \in RunId : r = mine'[w]
    BY <1>2 DEF Enters
  <2>2. cursor[r] \in Cursor
    BY <2>1 DEF CrawlTypeOK
  <2>3. PICK row : row = [NoSlice EXCEPT !.at = "loaded", !.cursor = cursor[r]]
    OBVIOUS
  <2>4. row = [at |-> "loaded", todo |-> <<>>, drained |-> FALSE, saw |-> FALSE, seen |-> {}, cursor |-> cursor[r]]
    BY <2>3 DEF NoSlice
  <2>5. row \in Slice /\ row.at = "loaded" /\ row.todo = <<>> /\ row.cursor.processed \in 0..Target
    BY <2>2, <2>4 DEF Slice, Stages, Cursor
  <2>6. Len(row.todo) = 0 /\ Target \in Nat
    BY <2>5 DEF CrawlAssumption
  <2>7. RowFits(row)
    BY <2>5, <2>6 DEF RowFits, AtPlayer, ToMake, Distinct
  <2>8. slice' = [slice EXCEPT ![w] = row]
    BY <1>2, <2>1, <2>3 DEF Enters
  <2>9. ASSUME NEW v \in Worker
        PROVE  /\ RowFits(slice'[v])
               /\ pc'[v] = "work" => slice'[v].at # "none" /\ mine'[v] \in RunId
               /\ pc'[v] # "work" => slice'[v] = NoSlice
    <3>1. CASE v = w
      BY <1>2, <2>5, <2>7, <2>8, <3>1 DEF Enters, CrawlTypeOK
    <3>2. CASE v # w
      BY <1>2, <2>8, <3>2 DEF Enters, OthersWork, RowsFit
    <3> QED
      BY <3>1, <3>2
  <2> QED
    BY <2>9 DEF RowsFit, RowFits, Distinct, ToMake
<1>3. ASSUME NEW w \in Worker, Leaves(w) PROVE RowsFit'
  <2>1. ASSUME NEW v \in Worker
        PROVE  /\ RowFits(slice'[v])
               /\ pc'[v] = "work" => slice'[v].at # "none" /\ mine'[v] \in RunId
               /\ pc'[v] # "work" => slice'[v] = NoSlice
    <3>1. CASE v = w
      BY <1>3, <3>1, EmptySlice DEF Leaves, CrawlTypeOK
    <3>2. CASE v # w
      BY <1>3, <3>2 DEF Leaves, OthersWork, RowsFit
    <3> QED
      BY <3>1, <3>2
  <2> QED
    BY <2>1 DEF RowsFit, RowFits, Distinct, ToMake
<1>4. ASSUME NEW w \in Worker, OfSlice(w) PROVE RowsFit'
  <2>1. PICK row : row = slice'[w]
    OBVIOUS
  <2>2. Makes(w, row) /\ RowFits(row) /\ row.at # "none"
    BY <1>4, <2>1, SliceMakes DEF MakesFitting
  <2> QED
    BY <2>2, MakesFit
<1>5. CASE Passes
  BY <1>0, <1>5, PassesAside DEF RowsFit, RowFits, Distinct, ToMake
<1> QED
  BY <1>0, <1>1, <1>2, <1>3, <1>4, <1>5, CrawlSteps

-----------------------------------------------------------------------------
\* The rows of the schedule.
Sched == [active : BOOLEAN, failures : 0..MaxFailures,
          backoff : BOOLEAN, leased : BOOLEAN, left : -1..LeaseTTL]

\* What becomes of a row of the schedule is one.
LEMMA SchedRows ==
  ASSUME CrawlAssumption, NEW row \in Sched, NEW backoff \in BOOLEAN
  PROVE  /\ Unleased(row) \in Sched /\ Failed(row, backoff) \in Sched
         /\ Succeeded(row) \in Sched /\ Deactivated(row) \in Sched
         /\ [row EXCEPT !.leased = TRUE, !.left = LeaseTTL] \in Sched
         /\ [row EXCEPT !.backoff = FALSE] \in Sched
         /\ row.left >= 0 => [row EXCEPT !.left = @ - 1] \in Sched
<1>0. LeaseTTL \in Nat /\ MaxFailures \in Nat
  BY DEF CrawlAssumption
<1>1. 0 \in 0..MaxFailures /\ 0 \in -1..LeaseTTL /\ LeaseTTL \in -1..LeaseTTL
  BY <1>0
<1>2. Unleased(row) \in Sched /\ Unleased(row).failures = row.failures
  BY <1>1 DEF Unleased, Sched
<1>3. PICK u : u = Unleased(row)
  OBVIOUS
<1>4. u \in Sched
  BY <1>2, <1>3
<1>5. Failed(row, backoff) = [u EXCEPT !.failures = IF @ < MaxFailures THEN @ + 1 ELSE @, !.backoff = backoff]
  BY <1>3 DEF Failed
<1>6. Failed(row, backoff) \in Sched
  <2>1. (IF u.failures < MaxFailures THEN u.failures + 1 ELSE u.failures) \in 0..MaxFailures
    BY <1>0, <1>4 DEF Sched
  <2> QED
    BY <1>4, <1>5, <2>1 DEF Sched
<1>7. Succeeded(row) \in Sched
  BY <1>1, <1>3, <1>4 DEF Succeeded, Sched
<1>8. Deactivated(row) \in Sched
  BY <1>1, <1>3, <1>4 DEF Deactivated, Sched
<1>9. [row EXCEPT !.leased = TRUE, !.left = LeaseTTL] \in Sched /\ [row EXCEPT !.backoff = FALSE] \in Sched
  BY <1>1 DEF Sched
<1>10. row.left >= 0 => [row EXCEPT !.left = @ - 1] \in Sched
  BY <1>0 DEF Sched
<1> QED
  BY <1>2, <1>6, <1>7, <1>8, <1>9, <1>10

\* Whatever happens, the schedule is one.
LEMMA SchedKept ==
  ASSUME CrawlAssumption, CrawlTypeOK, RowsFit, [CrawlNext]_vars
  PROVE  sched' \in [Player -> Sched] /\ due' \subseteq Player
<1>0. TypeOK /\ sched \in [Player -> Sched] /\ due \subseteq Player
  BY DEF CrawlTypeOK, Sched
<1>1. CASE UNCHANGED <<sched, due>>
  BY SMTT(30), <1>0, <1>1
<1>2. ASSUME NEW w \in Worker, NEW candidates, Lease(w, candidates)
      PROVE  sched' \in [Player -> Sched] /\ due' = due
  <2>1. ASSUME NEW p \in Player
        PROVE  sched[p] \in Sched /\ Unleased(sched[p]) \in Sched
               /\ [sched[p] EXCEPT !.leased = TRUE, !.left = LeaseTTL] \in Sched
    BY <1>0, SchedRows
  <2> QED
    BY <1>2, <2>1 DEF Lease
<1>3. ASSUME NEW w \in Worker, slice[w].at \in AtPlayer, NEW row \in Sched,
             sched' = [sched EXCEPT ![Now(w)] = row]
      PROVE  sched' \in [Player -> Sched]
  BY <1>0, <1>3
<1>4. ASSUME NEW w \in Worker, OfSlice(w) PROVE sched' \in [Player -> Sched] /\ due' \subseteq Player
  <2>1. CASE ReadBudget(w) \/ ResetWindow(w) \/ Consume(w) \/ FetchSucceeds(w) \/ Ingest(w) \/ WriteCursor(w)
    BY <1>0, <2>1 DEF ReadBudget, ResetWindow, Consume, FetchSucceeds, Ingest, WriteCursor
  <2>2. CASE Deny(w)
    <3>1. Now(w) \in Player
      BY <2>2, PlayerRow, AtWork
    <3>2. Failed(sched[Now(w)], FALSE) \in Sched
      BY <1>0, <3>1, SchedRows
    <3> QED
      BY <1>0, <2>2, <3>1, <3>2 DEF Deny
  <2>3. CASE RecordSuccess(w)
    <3>1. Now(w) \in Player
      BY <2>3, PlayerRow, AtWork
    <3>2. Succeeded(sched[Now(w)]) \in Sched
      BY <1>0, <3>1, SchedRows
    <3> QED
      BY <1>0, <2>3, <3>1, <3>2 DEF RecordSuccess
  <2>4. ASSUME NEW answer \in Answer, NEW backoff \in BOOLEAN, FetchFails(w, answer, backoff)
        PROVE  sched' \in [Player -> Sched] /\ due' = due
    <3>1. Now(w) \in Player
      BY ZenonT(30), <2>4, PlayerRow, AtWork
    <3>2. Failed(sched[Now(w)], backoff) \in Sched /\ Deactivated(sched[Now(w)]) \in Sched
      BY <1>0, <3>1, SchedRows
    <3>3. sched' = [sched EXCEPT ![Now(w)] = Deactivated(@)] \/ sched' = [sched EXCEPT ![Now(w)] = Failed(@, backoff)]
      BY <2>4 DEF FetchFails
    <3>4. due' = due
      BY <2>4 DEF FetchFails
    <3> QED
      BY <1>0, <3>1, <3>2, <3>3, <3>4
  <2> QED
    BY <1>0, <1>2, <1>4, <2>1, <2>2, <2>3, <2>4 DEF OfSlice
<1>5. CASE Time
  <2>1. ASSUME NEW p \in Player
        PROVE  sched[p] \in Sched /\ (sched[p].left >= 0 => [sched[p] EXCEPT !.left = @ - 1] \in Sched)
    BY <1>0, SchedRows
  <2>2. sched' \in [Player -> Sched] /\ due' = due
    BY <1>5, <2>1 DEF Time
  <2> QED
    BY <1>0, <2>2
<1>6. ASSUME NEW p \in Player, ComeDue(p) \/ BackoffEnds(p)
      PROVE  sched' \in [Player -> Sched] /\ due' \subseteq Player
  <2>1. CASE ComeDue(p)
    BY <1>0, <2>1 DEF ComeDue
  <2>2. CASE BackoffEnds(p)
    <3>1. [sched[p] EXCEPT !.backoff = FALSE] \in Sched
      BY <1>0, SchedRows
    <3> QED
      BY <1>0, <2>2, <3>1 DEF BackoffEnds
  <2> QED
    BY <1>6, <2>1, <2>2
<1>7. CASE WindowElapses
  BY <1>0, <1>7 DEF WindowElapses
<1>8. ASSUME Aside \/ \E w \in Worker : Enters(w) \/ Leaves(w)
      PROVE  UNCHANGED <<sched, due>>
  BY <1>8 DEF Aside, jobVars, Enters, Leaves
<1> QED
  BY <1>0, <1>1, <1>4, <1>5, <1>6, <1>7, <1>8, CrawlSteps DEF Passes

-----------------------------------------------------------------------------
(* The budget.  A slice may reset the window it has seen end long ago, but   *)
(* not one that another slice has started since.                             *)

\* What a slice has seen of the window stays with it.
LEMMA SeenStays ==
  ASSUME CrawlAssumption, CrawlTypeOK, RowsFit, [CrawlNext]_vars, NEW v \in Worker, slice'[v].saw
  PROVE  slice[v].saw \/ ReadBudget(v)
<1>0. TypeOK
  BY DEF CrawlTypeOK
<1>1. CASE Aside
  BY <1>1 DEF Aside, jobVars
<1>2. ASSUME NEW w \in Worker, Enters(w) PROVE slice[v].saw
  <2>1. v # w
    <3>1. PICK row : row = [NoSlice EXCEPT !.at = "loaded", !.cursor = cursor[mine'[w]]]
      OBVIOUS
    <3>2. row.saw = FALSE
      BY <3>1 DEF NoSlice
    <3>3. slice'[w] = row
      BY <1>2, <3>1 DEF Enters, CrawlTypeOK
    <3> QED
      BY <3>2, <3>3
  <2> QED
    BY <1>2, <2>1 DEF Enters, OthersWork
<1>3. ASSUME NEW w \in Worker, Leaves(w) PROVE slice[v].saw
  <2>1. v # w
    <3>1. slice'[w] = NoSlice
      BY <1>3 DEF Leaves, CrawlTypeOK
    <3> QED
      BY <3>1, EmptySlice
  <2> QED
    BY <1>3, <2>1 DEF Leaves, OthersWork
<1>4. ASSUME NEW w \in Worker, OfSlice(w) PROVE slice[v].saw \/ ReadBudget(v)
  <2>1. CASE v # w
    BY <1>4, <2>1, SliceMakes, OthersKeep
  <2>2. CASE v = w
    <3>1. OfSlice(v)
      BY <1>4, <2>2
    <3>2. CASE \E candidates \in SetToSeqs(Candidates) : Lease(v, candidates)
      BY <3>2, LeaseRow
    <3>3. CASE Consume(v)
      BY <3>3, BudgetRow
    <3>4. CASE ResetWindow(v)
      BY <3>4, ResetRow
    <3>5. CASE Deny(v) \/ RecordSuccess(v) \/ \E answer \in Answer, backoff \in BOOLEAN : FetchFails(v, answer, backoff)
      BY <3>5, PlayerRow
    <3>6. CASE FetchSucceeds(v)
      BY <3>6, FetchRow
    <3>7. CASE Ingest(v)
      BY <3>7, IngestRow
    <3>8. CASE WriteCursor(v)
      BY <3>8, WriteRow
    <3> QED
      BY <3>1, <3>2, <3>3, <3>4, <3>5, <3>6, <3>7, <3>8 DEF OfSlice
  <2> QED
    BY <2>1, <2>2
<1>5. CASE Passes
  BY <1>0, <1>5, PassesAside
<1> QED
  BY <1>0, <1>1, <1>2, <1>3, <1>4, <1>5, CrawlSteps

\* What is granted stays what the row says: only who has seen the window end resets it,
\* and the window has ended as long as anybody has.
LEMMA BudgetKeptInStep ==
  ASSUME CrawlAssumption, CrawlTypeOK, RowsFit, BudgetFits, [CrawlNext]_vars
  PROVE  BudgetFits' /\ budget' \in [over : BOOLEAN, used : 0..Ceiling] /\ granted' \in Nat
<1>0. TypeOK /\ budget \in [over : BOOLEAN, used : 0..Ceiling] /\ granted \in Nat /\ Ceiling \in Nat
  BY DEF CrawlTypeOK, CrawlAssumption
<1>1. \/ UNCHANGED <<budget, granted>>
      \/ \E w \in Worker : (ResetWindow(w) /\ slice[w].saw) \/ Consume(w)
      \/ WindowElapses
  <2>1. ASSUME NEW w \in Worker, OfSlice(w)
        PROVE  UNCHANGED <<budget, granted>> \/ (ResetWindow(w) /\ slice[w].saw) \/ Consume(w)
    BY <2>1 DEF OfSlice, Lease, ReadBudget, ResetWindow, ResetMatches, Deny, FetchFails, FetchSucceeds,
                Ingest, RecordSuccess, WriteCursor
  <2>2. ASSUME Passes PROVE UNCHANGED <<budget, granted>> \/ WindowElapses
    BY <2>2 DEF Passes, Time, ComeDue, BackoffEnds
  <2>3. ASSUME Aside \/ \E w \in Worker : Enters(w) \/ Leaves(w) PROVE UNCHANGED <<budget, granted>>
    BY <2>3 DEF Aside, jobVars, Enters, Leaves
  <2> QED
    BY SMTT(60), <1>0, <2>1, <2>2, <2>3, CrawlSteps
<1>2. CASE UNCHANGED <<budget, granted>>
  <2>2. ASSUME NEW v \in Worker, slice'[v].saw PROVE budget'.over
    <3>1. CASE slice[v].saw
      BY <1>2, <3>1 DEF BudgetFits
    <3>2. CASE ReadBudget(v)
      BY <1>2, <2>2, <3>2, BudgetRow
    <3> QED
      BY <2>2, <3>1, <3>2, SeenStays
  <2> QED
    BY <1>0, <1>2, <2>2 DEF BudgetFits
<1>3. ASSUME NEW w \in Worker, ResetWindow(w), slice[w].saw
      PROVE  BudgetFits' /\ budget' \in [over : BOOLEAN, used : 0..Ceiling] /\ granted' \in Nat
  <2>1. budget.over
    BY <1>3 DEF BudgetFits
  <2>2. budget' = [over |-> FALSE, used |-> 0] /\ granted' = 0
    BY <1>3, <2>1 DEF ResetWindow, ResetMatches
  <2>3. \A v \in Worker : ~slice'[v].saw
    BY <1>3, ResetRow
  <2>4. budget' \in [over : BOOLEAN, used : 0..Ceiling] /\ budget'.used = 0
    BY <1>0, <2>2
  <2> QED
    BY <2>2, <2>3, <2>4 DEF BudgetFits
<1>4. ASSUME NEW w \in Worker, Consume(w)
      PROVE  BudgetFits' /\ budget' \in [over : BOOLEAN, used : 0..Ceiling] /\ granted' \in Nat
  <2>1. budget' = [budget EXCEPT !.used = @ + 1] /\ granted' = granted + 1 /\ budget.used < Ceiling
    BY <1>4 DEF Consume
  <2>2. budget' \in [over : BOOLEAN, used : 0..Ceiling] /\ budget'.over = budget.over /\ budget'.used = budget.used + 1
    BY <1>0, <2>1
  <2>3. ASSUME NEW v \in Worker, slice'[v].saw PROVE budget'.over
    <3>1. CASE slice[v].saw
      BY <2>2, <3>1 DEF BudgetFits
    <3>2. CASE ReadBudget(v)
      <4>1. slice'[v].saw = budget.over
        BY <3>2, BudgetRow
      <4> QED
        BY <2>2, <2>3, <4>1
    <3> QED
      BY <2>3, <3>1, <3>2, SeenStays
  <2> QED
    BY <1>0, <2>1, <2>2, <2>3 DEF BudgetFits
<1>5. CASE WindowElapses
  <2>1. budget' = [budget EXCEPT !.over = TRUE] /\ granted' = granted
    BY <1>5 DEF WindowElapses
  <2>2. budget' \in [over : BOOLEAN, used : 0..Ceiling] /\ budget'.over = TRUE /\ budget'.used = budget.used
    BY <1>0, <2>1
  <2> QED
    BY <1>0, <2>1, <2>2 DEF BudgetFits
<1> QED
  BY <1>1, <1>2, <1>3, <1>4, <1>5

-----------------------------------------------------------------------------
(* Requests.                                                                 *)

\* The counters of a slice at work: taken from the cursor of its run, left alone,
\* or one higher for the request or the battles of a player.
LEMMA CountsOfSlice ==
  ASSUME CrawlAssumption, CrawlTypeOK, RowsFit, [CrawlNext]_vars, NEW v \in Worker, pc'[v] = "work"
  PROVE  /\ mine'[v] \in RunId
         /\ \/ slice'[v].cursor = cursor[mine'[v]] /\ UNCHANGED <<stored, cursor, made>>
            \/ pc[v] = "work" /\ mine'[v] = mine[v] /\ slice'[v].cursor = slice[v].cursor
            \/ pc[v] = "work" /\ mine'[v] = mine[v] /\ slice'[v].cursor = Counted(v) /\ Request(v)
               /\ slice[v].at = "fetch"
            \/ pc[v] = "work" /\ mine'[v] = mine[v] /\ Ingest(v)
<1>0. TypeOK
  BY DEF CrawlTypeOK
<1>a. mine'[v] \in RunId
  BY RowsKept DEF RowsFit
<1>1. CASE Aside
  <2>1. pc[v] = "work" /\ mine'[v] = mine[v] /\ slice' = slice
    BY <1>1 DEF Aside, jobVars
  <2>2. slice'[v].cursor = slice[v].cursor
    BY <2>1
  <2> QED
    BY <1>a, <2>1, <2>2
<1>2. ASSUME NEW w \in Worker, Enters(w)
      PROVE  \/ slice'[v].cursor = cursor[mine'[v]] /\ UNCHANGED <<stored, cursor, made>>
             \/ pc[v] = "work" /\ mine'[v] = mine[v] /\ slice'[v].cursor = slice[v].cursor
  <2>1. CASE v = w
    <3>1. PICK row : row = [NoSlice EXCEPT !.at = "loaded", !.cursor = cursor[mine'[w]]]
      OBVIOUS
    <3>2. row.cursor = cursor[mine'[w]]
      BY <3>1 DEF NoSlice
    <3>3. slice'[w] = row
      BY <1>2, <3>1 DEF Enters, CrawlTypeOK
    <3> QED
      BY <1>2, <2>1, <3>2, <3>3 DEF Enters
  <2>2. CASE v # w
    BY <1>2, <2>2 DEF Enters, OthersWork
  <2> QED
    BY <2>1, <2>2
<1>3. ASSUME NEW w \in Worker, Leaves(w)
      PROVE  pc[v] = "work" /\ mine'[v] = mine[v] /\ slice'[v].cursor = slice[v].cursor
  BY <1>3 DEF Leaves, OthersWork
<1>4. ASSUME NEW w \in Worker, OfSlice(w)
      PROVE  \/ pc[v] = "work" /\ mine'[v] = mine[v] /\ slice'[v].cursor = slice[v].cursor
             \/ pc[v] = "work" /\ mine'[v] = mine[v] /\ slice'[v].cursor = Counted(v) /\ Request(v)
                /\ slice[v].at = "fetch"
             \/ pc[v] = "work" /\ mine'[v] = mine[v] /\ Ingest(v)
  <2>0. pc[v] = "work" /\ mine'[v] = mine[v]
    BY <1>4, SliceMakes DEF MakesFitting, Makes
  <2>1. CASE v # w
    BY <1>4, <2>0, <2>1, SliceMakes, OthersKeep
  <2>2. CASE v = w
    <3>1. OfSlice(v)
      BY <1>4, <2>2
    <3>2. CASE \E candidates \in SetToSeqs(Candidates) : Lease(v, candidates)
      BY <2>0, <3>2, LeaseRow
    <3>3. CASE Consume(v) \/ ReadBudget(v)
      BY <2>0, <3>3, BudgetRow
    <3>4. CASE ResetWindow(v)
      BY <2>0, <3>4, ResetRow
    <3>5. CASE Deny(v) \/ RecordSuccess(v)
      BY <2>0, <3>5, PlayerRow
    <3>6. CASE \E answer \in Answer, backoff \in BOOLEAN : FetchFails(v, answer, backoff)
      BY <2>0, <3>6, PlayerRow
    <3>7. CASE FetchSucceeds(v)
      <4>1. Request(v)
        BY <3>7 DEF FetchSucceeds
      <4> QED
        BY <2>0, <3>7, <4>1, FetchRow
    <3>8. CASE WriteCursor(v)
      BY <2>0, <3>8, WriteRow
    <3>9. CASE Ingest(v)
      BY <2>0, <3>9
    <3> QED
      BY <3>1, <3>2, <3>3, <3>4, <3>5, <3>6, <3>7, <3>8, <3>9 DEF OfSlice
  <2> QED
    BY <2>1, <2>2
<1>5. CASE Passes
  <2>1. pc[v] = "work" /\ mine'[v] = mine[v] /\ slice' = slice
    BY <1>0, <1>5, PassesAside
  <2>2. slice'[v].cursor = slice[v].cursor
    BY <2>1
  <2> QED
    BY <1>a, <2>1, <2>2
<1> QED
  BY <1>0, <1>a, <1>1, <1>2, <1>3, <1>4, <1>5, CrawlSteps

\* What the step does to the counters that are kept.
LEMMA CountsKept ==
  ASSUME CrawlAssumption, CrawlTypeOK, RowsFit, [CrawlNext]_vars
  PROVE  /\ \/ cursor' = cursor
            \/ \E w \in Worker : pc[w] = "work" /\ cursor' = [cursor EXCEPT ![mine[w]] = slice[w].cursor]
                                 /\ UNCHANGED <<stored, made>>
         /\ \/ made' = made
            \/ \E w \in Worker : Request(w)
         /\ \/ stored' = stored
            \/ \E w \in Worker : Ingest(w)
<1>0. TypeOK
  BY DEF CrawlTypeOK
<1>1. CASE UNCHANGED <<stored, cursor, made>>
  BY <1>1
<1>2. ASSUME Aside \/ Passes \/ \E w \in Worker : Enters(w) \/ Leaves(w)
      PROVE  UNCHANGED <<stored, cursor, made>>
  BY ZenonT(60), <1>0, <1>2, PassesAside DEF Aside, jobVars, Enters, Leaves
<1>3. ASSUME NEW w \in Worker, OfSlice(w)
      PROVE  \/ UNCHANGED <<stored, cursor, made>>
             \/ Request(w) /\ UNCHANGED <<stored, cursor>>
             \/ Ingest(w) /\ UNCHANGED <<cursor, made>>
             \/ pc[w] = "work" /\ cursor' = [cursor EXCEPT ![mine[w]] = slice[w].cursor]
                /\ UNCHANGED <<stored, made>>
  BY <1>3 DEF OfSlice, Lease, ReadBudget, ResetWindow, Consume, Deny, FetchFails, FetchSucceeds,
              Ingest, RecordSuccess, WriteCursor, At
<1> QED
  BY <1>0, <1>1, <1>2, <1>3, CrawlSteps

\* A request is counted up to the target.
LEMMA RequestCounts ==
  ASSUME CrawlAssumption, CrawlTypeOK, RowsFit, NEW w \in Worker, Request(w)
  PROVE  /\ mine[w] \in RunId /\ made' \in [RunId -> 0..Target]
         /\ \A r \in RunId : made'[r] >= made[r]
         /\ made'[mine[w]] = made[mine[w]] + 1 \/ made'[mine[w]] = Target
<1>1. mine[w] \in RunId /\ pc[w] = "work" /\ Target \in Nat
  BY DEF Request, At, RowsFit, CrawlAssumption
<1>2. PICK n : n = made[mine[w]]
  OBVIOUS
<1>3. n \in 0..Target /\ made \in [RunId -> 0..Target]
  BY <1>1, <1>2 DEF CrawlTypeOK
<1>4. PICK m : m = IF n < Target THEN n + 1 ELSE n
  OBVIOUS
<1>5. m \in 0..Target /\ m >= n /\ (m = n + 1 \/ m = Target)
  BY <1>1, <1>3, <1>4
<1>6. made' = [made EXCEPT ![mine[w]] = m]
  BY <1>2, <1>4 DEF Request
<1>7. \A r \in RunId : made[r] \in Int
  BY <1>3
<1> QED
  BY <1>1, <1>2, <1>3, <1>5, <1>6, <1>7

\* The counters never get ahead of the requests that were made.
LEMMA RequestsKept ==
  ASSUME CrawlAssumption, CrawlTypeOK, RowsFit, RequestsMade, [CrawlNext]_vars
  PROVE  RequestsMade' /\ made' \in [RunId -> 0..Target] /\ cursor' \in [RunId -> Cursor]
<1>1. cursor' \in [RunId -> Cursor]
  <2>1. ASSUME NEW w \in Worker PROVE slice[w].cursor \in Cursor
    BY AtWork
  <2> QED
    BY <2>1, CountsKept DEF CrawlTypeOK
<1>2. made' \in [RunId -> 0..Target] /\ \A r \in RunId : made'[r] >= made[r] /\ made[r] \in 0..Target
  <2>1. made \in [RunId -> 0..Target] /\ Target \in Nat
    BY DEF CrawlTypeOK, CrawlAssumption
  <2>2. CASE made' = made
    BY <2>1, <2>2
  <2>3. CASE \E w \in Worker : Request(w)
    BY <2>1, <2>3, RequestCounts
  <2> QED
    BY <2>2, <2>3, CountsKept
<1>3. ASSUME NEW r \in RunId PROVE cursor'[r].processed <= made'[r]
  <2>0. cursor[r].processed <= made[r] /\ cursor[r].processed \in 0..Target /\ Target \in Nat
    BY DEF RequestsMade, CrawlTypeOK, Cursor, CrawlAssumption
  <2>1. CASE cursor' = cursor
    BY <1>2, <2>0, <2>1
  <2>2. ASSUME NEW w \in Worker, pc[w] = "work", cursor' = [cursor EXCEPT ![mine[w]] = slice[w].cursor], UNCHANGED made
        PROVE  cursor'[r].processed <= made'[r]
    <3>1. slice[w].cursor.processed <= made[mine[w]]
      BY <2>2 DEF RequestsMade
    <3> QED
      BY <2>0, <2>2, <3>1 DEF CrawlTypeOK
  <2> QED
    BY <2>1, <2>2, CountsKept
<1>4. ASSUME NEW v \in Worker, pc'[v] = "work" PROVE slice'[v].cursor.processed <= made'[mine'[v]]
  <2>0. mine'[v] \in RunId /\ Target \in Nat
    BY <1>4, CountsOfSlice DEF CrawlAssumption
  <2>1. CASE slice'[v].cursor = cursor[mine'[v]] /\ UNCHANGED <<stored, cursor, made>>
    BY <2>0, <2>1 DEF RequestsMade
  <2> DEFINE old == slice[v].cursor.processed
  <2>2. old \in 0..Target
    BY AtWork
  <2>3. ASSUME pc[v] = "work", mine'[v] = mine[v] PROVE old <= made[mine[v]] /\ mine[v] \in RunId
    BY <2>0, <2>3 DEF RequestsMade
  <2>4. CASE pc[v] = "work" /\ mine'[v] = mine[v] /\ slice'[v].cursor = slice[v].cursor
    <3>1. PICK r \in RunId : r = mine[v]
      BY <2>3, <2>4
    <3> QED
      BY <1>2, <2>0, <2>2, <2>3, <2>4, <3>1
  <2>5. CASE pc[v] = "work" /\ mine'[v] = mine[v] /\ slice'[v].cursor = Counted(v) /\ Request(v) /\ slice[v].at = "fetch"
    <3>1. slice'[v].cursor.processed = old + 1 /\ old + 1 \in 0..Target
      <4>1. Counted(v) \in Cursor /\ Counted(v).processed = old + 1
        BY <2>5, CountedCursor
      <4> QED
        BY <2>5, <4>1 DEF Cursor
    <3>2. PICK r \in RunId : r = mine[v]
      BY <2>3, <2>5
    <3>3. made'[r] = made[r] + 1 \/ made'[r] = Target
      BY <2>5, <3>2, RequestCounts
    <3>4. old <= made[r] /\ made[r] \in 0..Target
      BY <1>2, <2>3, <2>5, <3>2
    <3> HIDE DEF old
    <3> QED
      BY <2>0, <2>2, <2>5, <3>1, <3>2, <3>3, <3>4
  <2>6. CASE pc[v] = "work" /\ mine'[v] = mine[v] /\ Ingest(v)
    <3>1. slice'[v].cursor.processed = old
      BY <2>6, IngestRow
    <3>2. PICK r \in RunId : r = mine[v]
      BY <2>3, <2>6
    <3> QED
      BY <1>2, <2>0, <2>2, <2>3, <2>6, <3>1, <3>2
  <2> QED
    BY <1>4, <2>1, <2>4, <2>5, <2>6, CountsOfSlice
<1> QED
  BY <1>1, <1>2, <1>3, <1>4 DEF RequestsMade

-----------------------------------------------------------------------------
(* Battles.  Each belongs to the run that inserted it: it is the witness that*)
(* no two cursors claim the same battle.                                     *)

\* Battles of a run can be counted.
LEMMA StoredFinite ==
  ASSUME CrawlAssumption, CrawlTypeOK, NEW owner, DOMAIN owner = stored, NEW r
  PROVE  IsFiniteSet(stored) /\ IsFiniteSet(Of(owner, r)) /\ Cardinality(Of(owner, r)) \in Nat
<1>1. IsFiniteSet(stored)
  BY FS_Subset DEF CrawlTypeOK, CrawlAssumption
<1>2. Of(owner, r) \subseteq stored
  BY DEF Of
<1> QED
  BY <1>1, <1>2, FS_Subset, FS_CardinalityType

\* The battles that a run stores are its own.
Extends(next, owner, w) ==
    /\ next \in [stored' -> RunId]
    /\ \A r \in RunId : Cardinality(Of(next, r)) >= Cardinality(Of(owner, r))
    /\ Cardinality(Of(next, mine[w])) = Cardinality(Of(owner, mine[w])) + Cardinality(ToInsert(w))

\* Battles that are inserted are new, and become those of the run that inserts them.
LEMMA IngestExtends ==
  ASSUME CrawlAssumption, CrawlTypeOK, RowsFit, NEW w \in Worker, Ingest(w),
         NEW owner \in [stored -> RunId]
  PROVE  \E next : Extends(next, owner, w)
<1> DEFINE new == ToInsert(w)
           next == [b \in stored' |-> IF b \in stored THEN owner[b] ELSE mine[w]]
<1>1. stored' = stored \cup new /\ new \cap stored = {} /\ mine[w] \in RunId
  BY DEF Ingest, DuplicateKey, At, RowsFit
<1>2. IsFiniteSet(new) /\ Cardinality(new) \in Nat
  BY IngestRow, FS_CardinalityType
<1>3. DOMAIN owner = stored
  OBVIOUS
<1>4. next \in [stored' -> RunId]
  BY <1>1
<1>5. ASSUME NEW r \in RunId, r # mine[w] PROVE Of(next, r) = Of(owner, r)
  BY <1>1, <1>5 DEF Of
<1>6. Of(next, mine[w]) = Of(owner, mine[w]) \cup new
  BY <1>1 DEF Of
<1> HIDE DEF new, next
<1>7. ASSUME NEW r \in RunId PROVE IsFiniteSet(Of(owner, r)) /\ Cardinality(Of(owner, r)) \in Nat
  BY <1>3, StoredFinite
<1>8. Of(owner, mine[w]) \cap new = {}
  BY <1>1, <1>3 DEF Of
<1>9. Cardinality(Of(next, mine[w])) = Cardinality(Of(owner, mine[w])) + Cardinality(new)
  <2>1. Cardinality(Of(owner, mine[w]) \cap new) = 0
    BY <1>8, FS_EmptySet
  <2>2. Cardinality(Of(owner, mine[w]) \cup new)
          = Cardinality(Of(owner, mine[w])) + Cardinality(new) - Cardinality(Of(owner, mine[w]) \cap new)
    BY <1>1, <1>2, <1>7, FS_Union
  <2>3. Cardinality(Of(owner, mine[w])) \in Nat
    BY <1>1, <1>7
  <2> QED
    BY <1>2, <1>6, <2>1, <2>2, <2>3
<1>10. ASSUME NEW r \in RunId PROVE Cardinality(Of(next, r)) >= Cardinality(Of(owner, r))
  <2>1. Cardinality(Of(owner, r)) \in Nat
    BY <1>7
  <2> QED
    BY <1>2, <1>5, <1>9, <2>1
<1> QED
  BY <1>4, <1>9, <1>10 DEF Extends, new

\* Whatever happens, the battles can be shared between the runs.
LEMMA SharesKept ==
  ASSUME CrawlAssumption, CrawlTypeOK, RowsFit, BattlesShared, [CrawlNext]_vars
  PROVE  BattlesShared' /\ stored' \subseteq Battle
<1>1. PICK owner \in [stored -> RunId] : Shares(owner)
  BY DEF BattlesShared
<1>2. DOMAIN owner = stored /\ \A r \in RunId : Cardinality(Of(owner, r)) \in Nat
                             /\ cursor[r].ingested <= Cardinality(Of(owner, r))
  BY <1>1, StoredFinite DEF Shares
<1>3. ASSUME NEW v \in Worker, pc[v] = "work"
      PROVE  mine[v] \in RunId /\ slice[v].cursor.ingested \in Nat
             /\ slice[v].cursor.ingested <= Cardinality(Of(owner, mine[v]))
  BY <1>1, <1>3, AtWork DEF Shares, RowsFit
<1>4. \A r \in RunId : cursor[r].ingested \in Nat
  BY DEF CrawlTypeOK, Cursor
<1>5. ASSUME NEW r \in RunId, NEW bound \in Nat, bound >= Cardinality(Of(owner, r)), stored' = stored \/ cursor' = cursor
      PROVE  cursor'[r].ingested <= bound
  <2>0. cursor[r].ingested <= bound
    BY <1>2, <1>4, <1>5
  <2>1. CASE cursor' = cursor
    BY <2>0, <2>1
  <2>2. ASSUME NEW w \in Worker, pc[w] = "work", cursor' = [cursor EXCEPT ![mine[w]] = slice[w].cursor]
        PROVE  cursor'[r].ingested <= bound
    <3>1. CASE r = mine[w]
      <4>1. cursor'[r].ingested = slice[w].cursor.ingested
        BY <2>2, <3>1 DEF CrawlTypeOK
      <4>2. slice[w].cursor.ingested <= Cardinality(Of(owner, r))
        BY <1>3, <2>2, <3>1
      <4>3. slice[w].cursor.ingested \in Nat /\ Cardinality(Of(owner, r)) \in Nat
        BY <1>2, <1>3, <2>2
      <4> QED
        BY <1>5, <4>1, <4>2, <4>3
    <3>2. CASE r # mine[w]
      BY <2>0, <2>2, <3>2 DEF CrawlTypeOK
    <3> QED
      BY <3>1, <3>2
  <2> QED
    BY <2>1, <2>2, CountsKept
<1>6. CASE stored' = stored
  <2>1. ASSUME NEW v \in Worker, pc'[v] = "work"
        PROVE  slice'[v].cursor.ingested <= Cardinality(Of(owner, mine'[v]))
    <3>1. CASE slice'[v].cursor = cursor[mine'[v]]
      BY <1>2, <2>1, <3>1, CountsOfSlice
    <3>2. CASE pc[v] = "work" /\ mine'[v] = mine[v] /\ slice'[v].cursor = slice[v].cursor
      BY <1>3, <3>2
    <3>3. CASE pc[v] = "work" /\ mine'[v] = mine[v] /\ slice'[v].cursor = Counted(v) /\ slice[v].at = "fetch"
      <4>1. slice'[v].cursor.ingested = slice[v].cursor.ingested
        BY <3>3, CountedCursor
      <4> QED
        BY <1>3, <3>3, <4>1
    <3>4. CASE pc[v] = "work" /\ mine'[v] = mine[v] /\ Ingest(v)
      <4>1. ToInsert(v) = {}
        BY <1>6, <3>4 DEF Ingest, DuplicateKey
      <4>2. slice'[v].cursor.ingested = slice[v].cursor.ingested + 0
        BY <3>4, <4>1, IngestRow, FS_EmptySet
      <4> QED
        BY <1>3, <3>4, <4>2
    <3> QED
      BY <2>1, <3>1, <3>2, <3>3, <3>4, CountsOfSlice
  <2>2. ASSUME NEW r \in RunId PROVE cursor'[r].ingested <= Cardinality(Of(owner, r))
    <3>1. PICK bound \in Nat : bound = Cardinality(Of(owner, r))
      BY <1>2
    <3> QED
      BY <1>5, <1>6, <3>1
  <2>3. (Shares(owner))'
    BY <1>1, <1>6, <2>1, <2>2 DEF Shares
  <2> QED
    BY <1>1, <1>6, <2>3 DEF BattlesShared, CrawlTypeOK
<1>7. ASSUME NEW w \in Worker, Ingest(w) PROVE BattlesShared' /\ stored' \subseteq Battle
  <2>0. /\ UNCHANGED <<pc, mine, cursor>> /\ stored' = stored \cup ToInsert(w) /\ pc[w] = "work"
        /\ ToInsert(w) \subseteq Battle /\ IsFiniteSet(ToInsert(w))
        /\ slice'[w].cursor.ingested = slice[w].cursor.ingested + Cardinality(ToInsert(w))
    BY <1>7, IngestRow DEF Ingest, At, wfVars
  <2>1. PICK next : Extends(next, owner, w)
    BY <1>7, IngestExtends
  <2>2. next \in [stored' -> RunId]
    BY <2>1 DEF Extends
  <2>3. stored' \subseteq Battle
    BY <2>0 DEF CrawlTypeOK
  <2>4. ASSUME NEW r \in RunId
        PROVE  Cardinality(Of(next, r)) \in Nat /\ Cardinality(Of(next, r)) >= Cardinality(Of(owner, r))
    <3>1. IsFiniteSet(stored')
      BY <2>3, FS_Subset DEF CrawlAssumption
    <3>2. Of(next, r) \subseteq stored'
      BY <2>2 DEF Of
    <3> QED
      BY <2>1, <3>1, <3>2, FS_Subset, FS_CardinalityType DEF Extends
  <2>5. ASSUME NEW r \in RunId PROVE cursor'[r].ingested <= Cardinality(Of(next, r))
    <3>1. cursor'[r].ingested = cursor[r].ingested
      BY <2>0
    <3> QED
      BY <1>2, <1>4, <2>4, <3>1
  <2>6. ASSUME NEW v \in Worker, pc'[v] = "work"
        PROVE  slice'[v].cursor.ingested <= Cardinality(Of(next, mine'[v]))
    <3>0. pc[v] = "work" /\ mine'[v] = mine[v]
      BY <2>0, <2>6
    <3>1. PICK r \in RunId : r = mine[v]
      BY <1>3, <3>0
    <3>2. slice[v].cursor.ingested \in Nat /\ slice[v].cursor.ingested <= Cardinality(Of(owner, r))
      BY <1>3, <3>0, <3>1
    <3>3. CASE v = w
      <4>1. Cardinality(Of(next, r)) = Cardinality(Of(owner, r)) + Cardinality(ToInsert(w))
        BY <2>1, <3>1, <3>3 DEF Extends
      <4>2. Cardinality(ToInsert(w)) \in Nat /\ Cardinality(Of(owner, r)) \in Nat
        BY <1>2, <2>0, FS_CardinalityType
      <4> QED
        BY <2>0, <3>0, <3>1, <3>2, <3>3, <4>1, <4>2
    <3>4. CASE v # w
      <4>1. slice'[v].cursor = slice[v].cursor
        BY <1>7, <3>4, IngestRow, OthersKeep
      <4> QED
        BY <1>2, <2>4, <3>0, <3>1, <3>2, <4>1
    <3> QED
      BY <3>3, <3>4
  <2>7. (Shares(next))'
    BY <2>2, <2>5, <2>6 DEF Shares
  <2> QED
    BY SMTT(30), <2>2, <2>3, <2>7 DEF BattlesShared
<1> QED
  BY <1>6, <1>7, CountsKept

-----------------------------------------------------------------------------
\* So what the runs say they have ingested is stored.
Claimed == [r \in 1..MaxRuns |-> cursor[r].ingested]

\* IngestedUpTo sums up what the cursors claim.
LEMMA IngestedIsSum == CrawlTypeOK => SumsUp(IngestedUpTo, Claimed, MaxRuns)
<1> SUFFICES ASSUME CrawlTypeOK PROVE SumsUp(IngestedUpTo, Claimed, MaxRuns)
  OBVIOUS
<1>1. MaxRuns \in Nat /\ Claimed \in [1..MaxRuns -> Nat]
  BY WorkflowAssumption DEF Claimed, CrawlTypeOK, Cursor, RunId
<1>2. PICK R : SumsUp(R, Claimed, MaxRuns)
  BY <1>1, SumsExist
<1>3. R = [n \in 0..MaxRuns |-> IF n = 0 THEN 0 ELSE R[n - 1] + cursor[n].ingested]
  <2>1. R \in [0..MaxRuns -> Nat]
    BY <1>2 DEF SumsUp
  <2>2. ASSUME NEW n \in 0..MaxRuns
        PROVE  R[n] = IF n = 0 THEN 0 ELSE R[n - 1] + cursor[n].ingested
    <3>1. CASE n = 0
      BY <1>2, <3>1 DEF SumsUp
    <3>2. CASE n # 0
      <4>1. n \in 1..MaxRuns
        BY <1>1, <3>2
      <4>2. R[n] = R[n - 1] + Claimed[n]
        BY <1>2, <4>1 DEF SumsUp
      <4> QED
        BY <3>2, <4>1, <4>2 DEF Claimed
    <3> QED
      BY <3>1, <3>2
  <2> QED
    BY <2>1, <2>2
<1>4. IngestedUpTo = [n \in 0..MaxRuns |-> IF n = 0 THEN 0 ELSE IngestedUpTo[n - 1] + cursor[n].ingested]
  BY <1>3 DEF IngestedUpTo
<1> HIDE DEF IngestedUpTo
<1>5. \A n \in 0..MaxRuns : IngestedUpTo[n] = IF n = 0 THEN 0 ELSE IngestedUpTo[n - 1] + cursor[n].ingested
  BY <1>4
<1> DEFINE S == {n \in 0..MaxRuns : IngestedUpTo[n] # R[n]}
<1>6. ASSUME S # {} PROVE FALSE
  <2>1. S \in SUBSET Nat
    BY <1>1
  <2>2. PICK n \in S : \A x \in S : n <= x
    BY <1>6, <2>1, LeastNat
  <2>3. n # 0
    BY <1>2, <1>5, <2>2 DEF SumsUp
  <2>4. n \in 1..MaxRuns /\ n - 1 \in 0..MaxRuns /\ n - 1 \notin S
    BY <1>1, <2>2, <2>3
  <2>5. R[n - 1] = IngestedUpTo[n - 1]
    BY <2>4
  <2>6. R[n] = R[n - 1] + cursor[n].ingested
    <3>1. R[n] = IF n = 0 THEN 0 ELSE R[n - 1] + Claimed[n]
      BY <1>2, <2>2 DEF SumsUp
    <3> QED
      BY <2>3, <2>4, <3>1 DEF Claimed
  <2>7. IngestedUpTo[n] = IngestedUpTo[n - 1] + cursor[n].ingested
    BY <1>5, <2>3, <2>2
  <2> QED
    BY <2>2, <2>5, <2>6, <2>7
<1>7. IngestedUpTo = R
  BY <1>2, <1>4, <1>6 DEF SumsUp
<1> QED
  BY <1>2, <1>7

\* So the cursors together claim no more battles than are stored.
LEMMA BattlesCounted ==
  ASSUME CrawlAssumption, CrawlTypeOK, BattlesShared
  PROVE  IngestedUpTo[MaxRuns] <= Cardinality(stored)
<1>1. PICK owner \in [stored -> RunId] : Shares(owner)
  BY DEF BattlesShared
<1>2. DOMAIN owner = stored /\ IsFiniteSet(stored)
  BY <1>1, StoredFinite
<1> DEFINE R == IngestedUpTo
           To(n) == {b \in stored : owner[b] <= n}
           S == {n \in 0..MaxRuns : ~(R[n] <= Cardinality(To(n)))}
<1>3. MaxRuns \in Nat /\ RunId = 1..MaxRuns
  BY WorkflowAssumption DEF RunId
<1>4. SumsUp(R, Claimed, MaxRuns)
  BY IngestedIsSum
<1> HIDE DEF R
<1>5. R \in [0..MaxRuns -> Nat] /\ R[0] = 0 /\ \A n \in 1..MaxRuns : R[n] = R[n - 1] + Claimed[n]
  <2>1. \A n \in 1..MaxRuns : n \in 0..MaxRuns /\ n # 0
    BY <1>3
  <2>2. 0 \in 0..MaxRuns
    BY <1>3
  <2> QED
    BY <1>4, <2>1, <2>2 DEF SumsUp
<1>6. ASSUME NEW n \in 0..MaxRuns PROVE IsFiniteSet(To(n)) /\ Cardinality(To(n)) \in Nat
  BY <1>2, FS_Subset, FS_CardinalityType
<1>7. ASSUME NEW n \in 1..MaxRuns
      PROVE  Cardinality(To(n)) = Cardinality(To(n - 1)) + Cardinality(Of(owner, n))
  <2>1. To(n) = To(n - 1) \cup Of(owner, n)
    <3>1. \A b \in stored : owner[b] <= n <=> owner[b] <= n - 1 \/ owner[b] = n
      BY <1>3
    <3> QED
      BY <1>2, <3>1 DEF Of
  <2>2. To(n - 1) \cap Of(owner, n) = {}
    <3>1. \A b \in stored : ~(owner[b] <= n - 1 /\ owner[b] = n)
      BY <1>3
    <3> QED
      BY <1>2, <3>1 DEF Of
  <2>3. n - 1 \in 0..MaxRuns
    BY <1>3
  <2>4. IsFiniteSet(To(n - 1)) /\ Cardinality(To(n - 1)) \in Nat
        /\ IsFiniteSet(Of(owner, n)) /\ Cardinality(Of(owner, n)) \in Nat
    BY <1>2, <1>6, <2>3, StoredFinite
  <2> HIDE DEF To
  <2>5. Cardinality(To(n - 1) \cap Of(owner, n)) = 0
    BY <2>2, FS_EmptySet
  <2>6. Cardinality(To(n - 1) \cup Of(owner, n))
          = Cardinality(To(n - 1)) + Cardinality(Of(owner, n)) - Cardinality(To(n - 1) \cap Of(owner, n))
    BY <2>4, FS_Union
  <2> QED
    BY <2>1, <2>4, <2>5, <2>6
<1>8. ASSUME NEW n \in 1..MaxRuns
      PROVE  Claimed[n] <= Cardinality(Of(owner, n)) /\ Claimed[n] \in Nat /\ Cardinality(Of(owner, n)) \in Nat
  BY <1>1, <1>2, <1>3, StoredFinite DEF Shares, Claimed, CrawlTypeOK, Cursor
<1> HIDE DEF To
<1>9. ASSUME S # {} PROVE FALSE
  <2>1. S \in SUBSET Nat
    BY <1>3
  <2>2. PICK n \in S : \A x \in S : n <= x
    BY <1>9, <2>1, LeastNat
  <2>3. n # 0
    <3>1. 0 \in 0..MaxRuns
      BY <1>3
    <3>2. Cardinality(To(0)) \in Nat
      BY <1>6, <3>1
    <3> QED
      BY <1>5, <2>2, <3>2
  <2>4. n \in 1..MaxRuns /\ n - 1 \in 0..MaxRuns /\ n - 1 \notin S
    BY <1>3, <2>2, <2>3
  <2>5. R[n - 1] <= Cardinality(To(n - 1)) /\ R[n - 1] \in Nat /\ Cardinality(To(n - 1)) \in Nat
    BY <1>5, <1>6, <2>4
  <2>6. R[n] <= Cardinality(To(n))
    BY SMTT(30), <1>5, <1>7, <1>8, <2>4, <2>5
  <2> QED
    BY <2>2, <2>6
<1>10. MaxRuns \in 0..MaxRuns
  BY <1>3
<1>11. R[MaxRuns] <= Cardinality(To(MaxRuns))
  BY <1>9, <1>10
<1>12. To(MaxRuns) = stored
  <2>1. \A b \in stored : owner[b] <= MaxRuns
    BY <1>3
  <2> QED
    BY <2>1 DEF To
<1> QED
  BY <1>11, <1>12 DEF R

-----------------------------------------------------------------------------
(* Leases.  A player of a slice is leased as long as the slice can last, and *)
(* so no candidate.                                                          *)

\* What follows the first of different players is without it.
LEMMA SetOfTail ==
  ASSUME NEW s \in Seq(Player), Distinct(s)
  PROVE  /\ s = <<>> => ToSet(s) = {}
         /\ s # <<>> => ToSet(Tail(s)) \subseteq ToSet(s) \ {Head(s)}
         /\ ToSet(s) \subseteq Player
<1>1. DOMAIN s = 1..Len(s) /\ Len(s) \in Nat
  OBVIOUS
<1>2. s = <<>> => ToSet(s) = {}
  BY DEF ToSet
<1>3. ASSUME s # <<>> PROVE ToSet(Tail(s)) \subseteq ToSet(s) \ {Head(s)}
  <2>1. Tail(s) \in Seq(Player) /\ Len(Tail(s)) = Len(s) - 1 /\ Len(s) > 0 /\ Head(s) = s[1]
        /\ \A i \in 1..Len(Tail(s)) : Tail(s)[i] = s[i + 1]
    BY SMTT(30), <1>3, HeadTailProperties
  <2>2. PICK n \in Nat : n = Len(s)
    BY <1>1
  <2>3. DOMAIN Tail(s) = 1..(n - 1)
    BY <2>1, <2>2
  <2>4. ASSUME NEW i \in 1..(n - 1) PROVE Tail(s)[i] \in ToSet(s) \ {Head(s)}
    <3>1. i + 1 \in 1..n /\ 1 \in 1..n /\ i + 1 # 1
      BY <2>2
    <3>2. Tail(s)[i] = s[i + 1]
      BY <2>1, <2>2
    <3>3. s[i + 1] # s[1]
      BY <2>2, <3>1 DEF Distinct
    <3> QED
      BY <1>1, <2>1, <2>2, <3>1, <3>2, <3>3 DEF ToSet
  <2> QED
    BY <2>3, <2>4 DEF ToSet
<1> QED
  BY <1>1, <1>2, <1>3 DEF ToSet

\* The players of a slice, and those that follow the one it is at.
LEMMA SetOfRow ==
  ASSUME CrawlAssumption, CrawlTypeOK, RowsFit, NEW w \in Worker
  PROVE  /\ ToSet(slice[w].todo) \subseteq Player
         /\ pc[w] # "work" => ToSet(slice[w].todo) = {}
         /\ slice[w].todo = <<>> => ToSet(slice[w].todo) = {}
         /\ slice[w].at \in AtPlayer => /\ Now(w) \in ToSet(slice[w].todo)
                                        /\ ToSet(Tail(slice[w].todo)) \subseteq ToSet(slice[w].todo) \ {Now(w)}
<1>1. slice[w].todo \in Seq(Player) /\ Distinct(slice[w].todo)
  BY AtWork DEF RowFits
<1>2. pc[w] # "work" => slice[w].todo = <<>>
  BY EmptySlice DEF RowsFit
<1>3. slice[w].at \in AtPlayer => Now(w) \in ToSet(slice[w].todo)
  <2>1. slice[w].at \in AtPlayer => Len(slice[w].todo) > 0 /\ Now(w) = slice[w].todo[1]
    BY AtWork
  <2>2. Len(slice[w].todo) > 0 => 1 \in DOMAIN slice[w].todo
    BY <1>1
  <2> QED
    BY <2>1, <2>2 DEF ToSet
<1> QED
  BY <1>1, <1>2, <1>3, SetOfTail, AtWork DEF Now

\* Only the leasing transaction gives a slice players.
LEMMA OnlyLeaseAdds ==
  ASSUME CrawlAssumption, CrawlTypeOK, RowsFit, [CrawlNext]_vars, NEW v \in Worker
  PROVE  \/ \E candidates \in SetToSeqs(Candidates) : Lease(v, candidates)
         \/ ToSet(slice'[v].todo) \subseteq ToSet(slice[v].todo)
<1>0. TypeOK
  BY DEF CrawlTypeOK
<1>1. CASE Aside
  BY <1>1 DEF Aside, jobVars
<1>2. ASSUME NEW w \in Worker, Enters(w) \/ Leaves(w) PROVE ToSet(slice'[v].todo) \subseteq ToSet(slice[v].todo)
  <2>1. CASE v = w
    <3>1. CASE Leaves(w)
      <4>1. slice'[v] = NoSlice
        BY <2>1, <3>1 DEF Leaves, CrawlTypeOK
      <4>2. slice'[v].todo = <<>>
        BY <4>1, EmptySlice
      <4> QED
        BY <4>2, SetOfTail DEF ToSet
    <3>2. CASE Enters(w)
      <4>1. PICK row : row = [NoSlice EXCEPT !.at = "loaded", !.cursor = cursor[mine'[w]]]
        OBVIOUS
      <4>2. row.todo = <<>>
        BY <4>1 DEF NoSlice
      <4>3. slice'[v] = row
        BY <2>1, <3>2, <4>1 DEF Enters, CrawlTypeOK
      <4> QED
        BY <4>2, <4>3 DEF ToSet
    <3> QED
      BY <1>2, <3>1, <3>2
  <2>2. CASE v # w
    BY <1>2, <2>2 DEF Enters, Leaves, OthersWork
  <2> QED
    BY <2>1, <2>2
<1>3. ASSUME NEW w \in Worker, OfSlice(w)
      PROVE  \/ \E candidates \in SetToSeqs(Candidates) : Lease(v, candidates)
             \/ ToSet(slice'[v].todo) \subseteq ToSet(slice[v].todo)
  <2>1. CASE v # w
    BY <1>3, <2>1, SliceMakes, OthersKeep
  <2>2. CASE v = w
    <3>1. OfSlice(v)
      BY <1>3, <2>2
    <3>2. CASE \E candidates \in SetToSeqs(Candidates) : Lease(v, candidates)
      BY <3>2
    <3>3. CASE Consume(v) \/ ReadBudget(v)
      BY <3>3, BudgetRow
    <3>4. CASE ResetWindow(v)
      BY <3>4, ResetRow
    <3>5. CASE Deny(v) \/ RecordSuccess(v) \/ \E answer \in Answer, backoff \in BOOLEAN : FetchFails(v, answer, backoff)
      BY <3>5, PlayerRow, SetOfRow
    <3>6. CASE FetchSucceeds(v)
      BY <3>6, FetchRow
    <3>7. CASE WriteCursor(v)
      BY <3>7, WriteRow
    <3>8. CASE Ingest(v)
      BY <3>8, IngestRow
    <3> QED
      BY <3>1, <3>2, <3>3, <3>4, <3>5, <3>6, <3>7, <3>8 DEF OfSlice
  <2> QED
    BY <2>1, <2>2
<1>4. CASE Passes
  BY <1>0, <1>4, PassesAside
<1> QED
  BY <1>0, <1>1, <1>2, <1>3, <1>4, CrawlSteps

\* A slice that keeps a player keeps its clock, except when time passes.
LEMMA ClockStays ==
  ASSUME CrawlAssumption, CrawlTypeOK, RowsFit, [CrawlNext]_vars, NEW v \in Worker,
         NEW p \in ToSet(slice'[v].todo)
  PROVE  pc[v] = "work" /\ (elapsed'[v] = elapsed[v] \/ Time)
<1>0. TypeOK
  BY DEF CrawlTypeOK
<1>1. pc[v] = "work"
  <2>1. CASE \E candidates \in SetToSeqs(Candidates) : Lease(v, candidates)
    BY <2>1 DEF Lease, At
  <2>2. CASE ToSet(slice'[v].todo) \subseteq ToSet(slice[v].todo)
    BY <2>2, SetOfRow
  <2> QED
    BY <2>1, <2>2, OnlyLeaseAdds
<1>2. CASE Aside
  BY <1>1, <1>2 DEF Aside
<1>3. ASSUME NEW w \in Worker, Enters(w) \/ Leaves(w) PROVE elapsed'[v] = elapsed[v]
  <2>1. v # w
    <3>1. CASE Enters(w)
      BY <1>1, <3>1 DEF Enters
    <3>2. CASE Leaves(w)
      <4>1. slice'[w] = NoSlice
        BY <3>2 DEF Leaves, CrawlTypeOK
      <4>2. slice'[w].todo = <<>>
        BY <4>1, EmptySlice
      <4>3. ToSet(slice'[w].todo) = {}
        BY <4>2 DEF ToSet
      <4> QED
        BY <4>3
    <3> QED
      BY <1>3, <3>1, <3>2
  <2> QED
    BY <1>3, <2>1 DEF Enters, Leaves, OthersWork
<1>4. ASSUME NEW w \in Worker, OfSlice(w) PROVE elapsed' = elapsed
  BY <1>4, SliceMakes DEF MakesFitting, Makes
<1>5. ASSUME Passes PROVE elapsed' = elapsed \/ Time
  BY <1>5 DEF Passes, ComeDue, BackoffEnds, WindowElapses, wfVars
<1> QED
  BY <1>0, <1>1, <1>2, <1>3, <1>4, <1>5, CrawlSteps

\* A player in a slice is no candidate.
LEMMA LeasedIsNoCandidate ==
  ASSUME CrawlAssumption, CrawlTypeOK, RowsFit, SliceFitsLease, LeasesLast,
         NEW v \in Worker, NEW p \in ToSet(slice[v].todo)
  PROVE  p \in Player /\ p \notin Candidates /\ sched[p].leased /\ sched[p].left >= 0
         /\ sched[p].left \in Int /\ elapsed[v] \in Nat /\ sched[p].left + elapsed[v] >= LeaseTTL
         /\ elapsed[v] <= MaxSlice
<1>1. p \in Player
  BY SetOfRow
<1>2. sched[p].leased /\ sched[p].left + elapsed[v] >= LeaseTTL
  BY DEF LeasesLast
<1>3. sched[p].left \in -1..LeaseTTL /\ elapsed[v] \in 0..MaxSlice /\ MaxSlice \in Nat /\ LeaseTTL \in Nat
  BY <1>1, WorkflowAssumption DEF CrawlTypeOK, TypeOK, CrawlAssumption
<1>4. sched[p].left >= 0
  BY <1>2, <1>3 DEF SliceFitsLease
<1>5. sched[p].left \in Int /\ elapsed[v] \in Nat /\ elapsed[v] <= MaxSlice /\ ~(sched[p].left < 0)
  BY <1>3, <1>4
<1> QED
  BY <1>1, <1>2, <1>4, <1>5 DEF Candidates, Candidate

\* The lease of a player that stays in a slice is left alone.
LEMMA LeaseStays ==
  ASSUME CrawlAssumption, CrawlTypeOK, RowsFit, SliceFitsLease, LeaseInv, [CrawlNext]_vars,
         NEW v \in Worker, NEW p \in ToSet(slice[v].todo) \cap ToSet(slice'[v].todo)
  PROVE  Time \/ (sched'[p].leased = sched[p].leased /\ sched'[p].left = sched[p].left)
<1>0. TypeOK /\ p \in Player /\ p \notin Candidates /\ ~(sched[p].left < 0) /\ LeasesLast /\ OneCrawlPerPlayer
      /\ p \in ToSet(slice[v].todo)
  BY LeasedIsNoCandidate DEF CrawlTypeOK, LeaseInv
<1>1. ASSUME Aside \/ \E w \in Worker : Enters(w) \/ Leaves(w)
      PROVE  sched' = sched
  BY <1>1 DEF Aside, jobVars, Enters, Leaves
<1>2. ASSUME NEW w \in Worker, NEW candidates \in SetToSeqs(Candidates), Lease(w, candidates)
      PROVE  sched'[p] = sched[p]
  <2>1. slice'[w].todo = FairBatch(candidates, Room(w)) /\ ToSet(slice'[w].todo) \subseteq Candidates
    BY <1>2, LeaseRow
  <2>2. p \notin ToSet(FairBatch(candidates, Room(w)))
    BY <1>0, <2>1
  <2> QED
    BY <1>0, <1>2, <2>2 DEF Lease
<1>3. ASSUME NEW w \in Worker, slice[w].at \in AtPlayer, slice'[w].todo = Tail(slice[w].todo)
      PROVE  Now(w) # p
  <2>1. CASE w = v
    BY <1>3, <2>1, SetOfRow
  <2>2. CASE w # v
    <3>1. Now(w) \in ToSet(slice[w].todo)
      BY <1>3, SetOfRow
    <3>2. ToSet(slice[w].todo) \cap ToSet(slice[v].todo) = {}
      BY SMTT(30), <1>0, <2>2 DEF OneCrawlPerPlayer
    <3> QED
      BY <1>0, <3>1, <3>2
  <2> QED
    BY <2>1, <2>2
<1>4. ASSUME NEW w \in Worker, OfSlice(w) PROVE sched'[p] = sched[p]
  <2>1. CASE ReadBudget(w) \/ ResetWindow(w) \/ Consume(w) \/ FetchSucceeds(w) \/ Ingest(w) \/ WriteCursor(w)
    BY <2>1 DEF ReadBudget, ResetWindow, Consume, FetchSucceeds, Ingest, WriteCursor
  <2>2. CASE Deny(w) \/ RecordSuccess(w) \/ \E answer \in Answer, backoff \in BOOLEAN : FetchFails(w, answer, backoff)
    <3>1. slice[w].at \in AtPlayer /\ slice'[w].todo = Tail(slice[w].todo)
      BY <2>2, PlayerRow
    <3>2. Now(w) # p
      BY <1>3, <3>1
    <3>3. CASE Deny(w)
      BY <1>0, <3>2, <3>3 DEF Deny, CrawlTypeOK
    <3>4. CASE RecordSuccess(w)
      BY <1>0, <3>2, <3>4 DEF RecordSuccess, CrawlTypeOK
    <3>5. ASSUME NEW answer, NEW backoff, FetchFails(w, answer, backoff) PROVE sched'[p] = sched[p]
      <4>1. \E row : sched' = [sched EXCEPT ![Now(w)] = row]
        BY <3>5 DEF FetchFails
      <4> QED
        BY <1>0, <3>2, <4>1 DEF CrawlTypeOK
    <3> QED
      BY <2>2, <3>3, <3>4, <3>5
  <2> QED
    BY <1>2, <1>4, <2>1, <2>2 DEF OfSlice
<1>5. ASSUME Passes PROVE Time \/ (sched'[p].leased = sched[p].leased /\ sched'[p].left = sched[p].left)
  <2>1. ASSUME NEW q \in Player, BackoffEnds(q) PROVE sched'[p].leased = sched[p].leased /\ sched'[p].left = sched[p].left
    <3>1. CASE p = q
      <4>1. sched'[p] = [sched[p] EXCEPT !.backoff = FALSE]
        BY <1>0, <2>1, <3>1 DEF BackoffEnds, CrawlTypeOK
      <4>2. PICK row : row = sched[p]
        OBVIOUS
      <4>3. row \in Sched
        BY <1>0, <4>2 DEF CrawlTypeOK, Sched
      <4>4. [row EXCEPT !.backoff = FALSE].leased = row.leased /\ [row EXCEPT !.backoff = FALSE].left = row.left
        BY <4>3 DEF Sched
      <4> QED
        BY <4>1, <4>2, <4>4
    <3>2. CASE p # q
      BY <1>0, <2>1, <3>2 DEF BackoffEnds, CrawlTypeOK
    <3> QED
      BY <3>1, <3>2
  <2>2. ASSUME (\E q \in Player : ComeDue(q)) \/ WindowElapses PROVE sched' = sched
    BY <2>2 DEF ComeDue, WindowElapses
  <2>3. sched' = sched => sched'[p].leased = sched[p].leased /\ sched'[p].left = sched[p].left
    OBVIOUS
  <2>4. \/ Time \/ (\E q \in Player : ComeDue(q)) \/ WindowElapses
        \/ \E q \in Player : BackoffEnds(q)
    BY <1>5 DEF Passes
  <2>5. CASE (\E q \in Player : ComeDue(q)) \/ WindowElapses
    BY <2>2, <2>3, <2>5
  <2>6. CASE \E q \in Player : BackoffEnds(q)
    BY <2>1, <2>6
  <2> QED
    BY <2>4, <2>5, <2>6, Zenon
<1> QED
  BY <1>0, <1>1, <1>4, <1>5, CrawlSteps

\* As long as leases last as long as slices, nobody else can lease a player of a slice.
LEMMA LeasesKept ==
  ASSUME CrawlAssumption, CrawlTypeOK, RowsFit, SliceFitsLease, LeaseInv, [CrawlNext]_vars
  PROVE  LeaseInv'
<1>0. TypeOK /\ LeasesLast /\ OneCrawlPerPlayer
  BY DEF CrawlTypeOK, LeaseInv
<1> DEFINE Leasing(v) == \E candidates \in SetToSeqs(Candidates) : Lease(v, candidates)
<1>1. ASSUME NEW v \in Worker
      PROVE  Leasing(v) \/ ToSet(slice'[v].todo) \subseteq ToSet(slice[v].todo)
  BY OnlyLeaseAdds
<1>2. ASSUME NEW v \in Worker, Leasing(v)
      PROVE  /\ ToSet(slice'[v].todo) \subseteq Candidates
             /\ \A p \in ToSet(slice'[v].todo) : sched'[p].leased /\ sched'[p].left = LeaseTTL
             /\ elapsed' = elapsed /\ \A w \in Worker \ {v} : slice'[w].todo = slice[w].todo
  <2>1. PICK candidates \in SetToSeqs(Candidates) : Lease(v, candidates)
    BY <1>2
  <2>2. slice'[v].todo = FairBatch(candidates, Room(v)) /\ ToSet(slice'[v].todo) \subseteq Candidates
    BY <2>1, LeaseRow
  <2>3. ASSUME NEW p \in ToSet(slice'[v].todo) PROVE sched'[p].leased /\ sched'[p].left = LeaseTTL
    <3>1. p \in Player
      BY <2>2 DEF Candidates, CrawlTypeOK
    <3>3. PICK row : row = sched[p]
      OBVIOUS
    <3>2. sched'[p] = [row EXCEPT !.leased = TRUE, !.left = LeaseTTL]
      BY <2>1, <2>2, <3>1, <3>3 DEF Lease
    <3>4. row \in Sched
      BY <3>1, <3>3 DEF CrawlTypeOK, Sched
    <3>5. [row EXCEPT !.leased = TRUE, !.left = LeaseTTL].leased = TRUE
          /\ [row EXCEPT !.leased = TRUE, !.left = LeaseTTL].left = LeaseTTL
      BY SMTT(30), <3>4 DEF Sched
    <3> QED
      BY ONLY <3>2, <3>5
  <2>4. elapsed' = elapsed /\ \A w \in Worker \ {v} : slice'[w].todo = slice[w].todo
    <3>1. MakesFitting(v)
      BY <2>1, LeaseRow
    <3>2. \A w \in Worker \ {v} : slice'[w].todo = slice[w].todo
      BY <3>1, OthersKeep
    <3> QED
      BY <2>1, <3>2 DEF Lease, wfVars
  <2>5. ToSet(slice'[v].todo) \subseteq Candidates
    BY <2>2
  <2>6. \A p \in ToSet(slice'[v].todo) : sched'[p].leased /\ sched'[p].left = LeaseTTL
    BY ONLY <2>3
  <2> QED
    BY ONLY <2>4, <2>5, <2>6
<1> HIDE DEF Leasing
<1>3. ASSUME NEW v \in Worker, NEW w \in Worker, v # w, NEW p \in ToSet(slice'[v].todo) \cap ToSet(slice'[w].todo)
      PROVE  FALSE
  <2>1. ASSUME NEW u \in Worker, NEW x \in Worker, u # x, Leasing(u), p \in ToSet(slice'[u].todo) \cap ToSet(slice'[x].todo)
        PROVE  FALSE
    <3>1. p \in Candidates /\ p \in ToSet(slice[x].todo)
      BY <1>2, <2>1
    <3> QED
      BY <1>0, <3>1, LeasedIsNoCandidate
  <2>2. CASE Leasing(v) \/ Leasing(w)
    BY <1>3, <2>1, <2>2
  <2>3. CASE ~Leasing(v) /\ ~Leasing(w)
    <3>1. p \in ToSet(slice[v].todo) \cap ToSet(slice[w].todo)
      BY <1>1, <1>3, <2>3
    <3> QED
      BY <1>0, <1>3, <3>1 DEF OneCrawlPerPlayer
  <2> QED
    BY <2>2, <2>3
<1>4. ASSUME NEW v \in Worker, NEW p \in ToSet(slice'[v].todo)
      PROVE  sched'[p].leased /\ sched'[p].left + elapsed'[v] >= LeaseTTL
  <2>0. pc[v] = "work" /\ (elapsed'[v] = elapsed[v] \/ Time)
    BY <1>4, ClockStays
  <2>1. CASE Leasing(v)
    <3>1. elapsed[v] \in Nat /\ LeaseTTL \in Nat
      BY <1>0, WorkflowAssumption DEF TypeOK, CrawlAssumption
    <3> QED
      BY <1>2, <2>1, <3>1
  <2>2. CASE ~Leasing(v)
    <3>1. p \in ToSet(slice[v].todo) \cap ToSet(slice'[v].todo)
      BY <1>1, <2>2
    <3>2. p \in Player /\ sched[p].leased /\ sched[p].left >= 0
          /\ sched[p].left \in Int /\ elapsed[v] \in Nat /\ sched[p].left + elapsed[v] >= LeaseTTL
          /\ elapsed[v] <= MaxSlice
      BY <1>0, <3>1, LeasedIsNoCandidate
    <3>3. CASE ~Time
      <4>1. sched'[p].leased = sched[p].leased /\ sched'[p].left = sched[p].left
        BY <3>1, <3>3, LeaseStays
      <4> QED
        BY <2>0, <3>2, <3>3, <4>1
    <3>4. CASE Time
      <4>1. InSlice(v)
        BY <2>0 DEF InSlice, Holding
      <4>2. elapsed'[v] = elapsed[v] + 1
        BY <3>4, <4>1 DEF Time, Tick
      <4>3. PICK row : row = sched[p]
        OBVIOUS
      <4>4. sched'[p] = [row EXCEPT !.left = @ - 1]
        BY <3>2, <3>4, <4>3 DEF Time
      <4>5. row \in Sched
        BY <3>2, <4>3 DEF CrawlTypeOK, Sched
      <4>6. sched'[p].leased = row.leased /\ sched'[p].left = row.left - 1
        BY <4>4, <4>5 DEF Sched
      <4>7. LeaseTTL \in Nat
        BY DEF CrawlAssumption
      <4> QED
        BY <3>2, <4>2, <4>3, <4>6, <4>7
    <3> QED
      BY <3>3, <3>4
  <2> QED
    BY <2>1, <2>2
<1> QED
  BY <1>3, <1>4 DEF LeaseInv, OneCrawlPerPlayer, LeasesLast

\* And as long as the lock does, there is no other slice.
LEMMA LockKeepsApart ==
  ASSUME CrawlAssumption, CrawlTypeOK, RowsFit, LockFollowsSlice
  PROVE  OneCrawlPerPlayer
<1>1. ASSUME NEW v \in Worker, NEW w \in Worker, v # w
      PROVE  ToSet(slice[v].todo) \cap ToSet(slice[w].todo) = {}
  <2>1. ~(InSlice(v) /\ InSlice(w))
    BY <1>1, LockExcludes DEF MutualExclusion
  <2>2. pc[v] # "work" \/ pc[w] # "work"
    BY <2>1 DEF InSlice, Holding
  <2> QED
    BY <2>2, SetOfRow
<1> QED
  BY <1>1 DEF OneCrawlPerPlayer

-----------------------------------------------------------------------------
(* What holds of the crawl.                                                  *)

\* At first there are no slices, no leases and no battles.
LEMMA CrawlInitInv == CrawlInit => CountsInv /\ LeaseInv /\ LockFollowsSlice
<1> SUFFICES ASSUME CrawlInit PROVE CountsInv /\ LeaseInv /\ LockFollowsSlice
  OBVIOUS
<1>1. CrawlAssumption /\ Target \in Nat /\ Ceiling \in Nat /\ LeaseTTL \in Nat /\ MaxFailures \in Nat
  BY CrawlAssumption DEF CrawlAssumption
<1>2. Init /\ TypeOK
  BY InitTypeOK DEF CrawlInit
<1>3. slice = [w \in Worker |-> NoSlice] /\ \A w \in Worker : pc[w] = "idle"
  BY <1>2 DEF CrawlInit, Init
<1>4. NoSlice \in Slice /\ NoSlice.todo = <<>> /\ RowFits(NoSlice) /\ NoSlice.saw = FALSE
      /\ NoCursor \in Cursor /\ NoCursor.processed = 0 /\ NoCursor.ingested = 0
  BY <1>1, EmptySlice DEF NoCursor
<1>5. CrawlTypeOK
  <2>1. Idle \in Sched
    <3>1. 0 \in 0..MaxFailures /\ 0 \in -1..LeaseTTL
      BY <1>1
    <3> QED
      BY <3>1 DEF Idle, Sched
  <2>2. sched \in [Player -> Sched]
    BY <2>1 DEF CrawlInit
  <2>3. budget \in [over : BOOLEAN, used : 0..Ceiling]
    BY <1>1 DEF CrawlInit
  <2>4. cursor \in [RunId -> Cursor] /\ made \in [RunId -> 0..Target]
    BY <1>1, <1>4 DEF CrawlInit
  <2> QED
    BY <1>2, <1>3, <1>4, <2>2, <2>3, <2>4 DEF CrawlInit, CrawlTypeOK, Sched
<1>6. RowsFit
  BY <1>3, <1>4 DEF RowsFit, RowFits, Distinct, ToMake
<1>7. BudgetFits
  BY <1>3, <1>4 DEF BudgetFits, CrawlInit
<1>8. RequestsMade
  BY <1>3, <1>4 DEF RequestsMade, CrawlInit
<1>9. BattlesShared
  <2> DEFINE owner == [b \in {} |-> 1]
  <2>1. owner \in [stored -> RunId] /\ DOMAIN owner = {}
    BY DEF CrawlInit
  <2>2. ASSUME NEW r \in RunId PROVE cursor[r].ingested = 0
    BY <1>4 DEF CrawlInit
  <2>3. ASSUME NEW r PROVE Cardinality(Of(owner, r)) = 0
    <3>1. Of(owner, r) = {}
      BY <2>1 DEF Of
    <3> QED
      BY <3>1, FS_EmptySet
  <2> HIDE DEF owner
  <2>4. Shares(owner)
    BY <1>3, <2>1, <2>2, <2>3 DEF Shares
  <2> QED
    BY <2>1, <2>4 DEF BattlesShared
<1>10. \A w \in Worker : ToSet(slice[w].todo) = {}
  BY <1>3, <1>4 DEF ToSet
<1>11. LeaseInv
  BY <1>10 DEF LeaseInv, OneCrawlPerPlayer, LeasesLast
<1>12. LockFollowsSlice
  BY <1>3 DEF LockFollowsSlice, InSlice, Holding
<1> QED
  BY <1>5, <1>6, <1>7, <1>8, <1>9, <1>11, <1>12 DEF CountsInv

\* The counters, the rows and the budget fit after every step,
LEMMA CountsStep == CountsInv /\ [CrawlNext]_vars => CountsInv'
<1> SUFFICES ASSUME CountsInv, [CrawlNext]_vars PROVE CountsInv'
  OBVIOUS
<1>1. CrawlAssumption /\ CrawlTypeOK /\ RowsFit /\ BudgetFits /\ RequestsMade /\ BattlesShared /\ TypeOK
  BY CrawlAssumption DEF CountsInv, CrawlTypeOK
<1>2. RowsFit'
  BY <1>1, RowsKept
<1>3. TypeOK'
  BY <1>1, ProtocolKept
<1>4. slice' \in [Worker -> Slice]
  <2>1. \A w \in Worker : slice'[w] \in Slice
    BY <1>2 DEF RowsFit, RowFits
  <2>2. \E S : slice' \in [Worker -> S]
    <3>0. slice \in [Worker -> Slice]
      BY <1>1 DEF CrawlTypeOK
    <3>1. ASSUME NEW w \in Worker, Enters(w) \/ Leaves(w) PROVE \E row : slice' = [slice EXCEPT ![w] = row]
      BY <3>1 DEF Enters, Leaves
    <3>2. ASSUME NEW w \in Worker, OfSlice(w) PROVE slice' \in [Worker -> Slice]
      BY <1>1, <3>2, SliceMakes DEF MakesFitting, Makes
    <3>3. ASSUME Aside \/ Passes PROVE slice' = slice
      BY <1>1, <3>3, PassesAside DEF Aside, jobVars
    <3>4. ASSUME NEW w \in Worker, NEW row, slice' = [slice EXCEPT ![w] = row]
          PROVE  slice' \in [Worker -> Slice \cup {row}]
      BY <3>0, <3>4
    <3>5. CASE \E w \in Worker : Enters(w) \/ Leaves(w)
      <4>1. PICK w \in Worker : \E row : slice' = [slice EXCEPT ![w] = row]
        BY <3>1, <3>5
      <4>2. PICK row : slice' = [slice EXCEPT ![w] = row]
        BY <4>1
      <4> QED
        BY <3>4, <4>2
    <3>6. CASE (\E w \in Worker : OfSlice(w)) \/ Aside \/ Passes
      <4>1. slice' \in [Worker -> Slice]
        BY <3>0, <3>2, <3>3, <3>6
      <4> QED
        BY <4>1
    <3> QED
      BY <1>1, <3>5, <3>6, CrawlSteps
  <2> QED
    BY <2>1, <2>2
<1>5. sched' \in [Player -> Sched] /\ due' \subseteq Player
  BY <1>1, SchedKept
<1>6. BudgetFits' /\ budget' \in [over : BOOLEAN, used : 0..Ceiling] /\ granted' \in Nat
  BY <1>1, BudgetKeptInStep
<1>7. RequestsMade' /\ made' \in [RunId -> 0..Target] /\ cursor' \in [RunId -> Cursor]
  BY <1>1, RequestsKept
<1>8. BattlesShared' /\ stored' \subseteq Battle
  BY <1>1, SharesKept
<1>9. CrawlTypeOK'
  BY <1>3, <1>4, <1>5, <1>6, <1>7, <1>8 DEF CrawlTypeOK, Sched
<1> QED
  BY <1>2, <1>6, <1>7, <1>8, <1>9 DEF CountsInv

\* and so they keep within what was done and what is allowed.
LEMMA CountsHold == CountsInv => CrawlTypeOK /\ BudgetKept /\ CursorCovered
<1> SUFFICES ASSUME CountsInv PROVE CrawlTypeOK /\ BudgetKept /\ CursorCovered
  OBVIOUS
<1>1. CrawlAssumption /\ CrawlTypeOK /\ BudgetFits /\ RequestsMade /\ BattlesShared
  BY CrawlAssumption DEF CountsInv
<1>2. BudgetKept
  <2>1. budget.used \in 0..Ceiling /\ Ceiling \in Nat
    BY <1>1 DEF CrawlTypeOK, CrawlAssumption
  <2> QED
    BY <1>1, <2>1 DEF BudgetFits, BudgetKept
<1>3. IngestedUpTo[MaxRuns] <= Cardinality(stored)
  BY <1>1, BattlesCounted
<1> QED
  BY <1>1, <1>2, <1>3 DEF CursorCovered, RequestsMade

\* What the crawl has recorded was done, once, and within its limits: a cursor never claims
\* a request or a battle more than there was, and no more requests are granted in a window
\* than its ceiling, whatever overlaps, expires and fails (CursorCovered and BudgetKept,
\* rateBudget.ts and battleLogCrawlSync.ts).  This needs neither the lock nor the leases.
THEOREM CrawlIsCovered == CrawlSpec => [](CrawlTypeOK /\ BudgetKept /\ CursorCovered)
<1>1. CrawlInit => CountsInv
  BY CrawlInitInv
<1> QED
  BY <1>1, CountsStep, CountsHold, PTL DEF CrawlSpec

\* CrawlInv: in addition no two slices have the same player, as long as a slice fits in the TTL
\* of its lock row or in that of its leases ("no double-lease", PHASE4.md).  CrawlOverlap
\* shows what happens when it outlives both.
THEOREM CrawlHolds ==
  ASSUME SliceFitsTTL \/ SliceFitsLease
  PROVE  CrawlSpec => []CrawlInv
<1>1. CASE SliceFitsTTL
  <2>1. CrawlInit => CountsInv /\ LockFollowsSlice
    BY CrawlInitInv
  <2>2. CountsInv /\ LockFollowsSlice /\ [CrawlNext]_vars => LockFollowsSlice'
    <3> SUFFICES ASSUME CountsInv, LockFollowsSlice, [CrawlNext]_vars PROVE LockFollowsSlice'
      OBVIOUS
    <3>1. TypeOK
      BY DEF CountsInv, CrawlTypeOK
    <3> QED
      BY <1>1, <3>1, ProtocolKept
  <2>3. CountsInv /\ LockFollowsSlice => CrawlInv
    <3> SUFFICES ASSUME CountsInv, LockFollowsSlice PROVE CrawlInv
      OBVIOUS
    <3>1. CrawlAssumption /\ CrawlTypeOK /\ RowsFit
      BY CrawlAssumption DEF CountsInv
    <3>2. OneCrawlPerPlayer
      BY <3>1, LockKeepsApart
    <3> QED
      BY <3>2, CountsHold DEF CrawlInv
  <2> QED
    BY <2>1, <2>2, <2>3, CountsStep, PTL DEF CrawlSpec
<1>2. CASE SliceFitsLease
  <2>1. CrawlInit => CountsInv /\ LeaseInv
    BY CrawlInitInv
  <2>2. CountsInv /\ LeaseInv /\ [CrawlNext]_vars => LeaseInv'
    <3> SUFFICES ASSUME CountsInv, LeaseInv, [CrawlNext]_vars PROVE LeaseInv'
      OBVIOUS
    <3>1. CrawlAssumption /\ CrawlTypeOK /\ RowsFit
      BY CrawlAssumption DEF CountsInv
    <3> QED
      BY <1>2, <3>1, LeasesKept
  <2>3. CountsInv /\ LeaseInv => CrawlInv
    BY CountsHold DEF CrawlInv, LeaseInv
  <2> QED
    BY <2>1, <2>2, <2>3, CountsStep, PTL DEF CrawlSpec
<1> QED
  BY <1>1, <1>2

-----------------------------------------------------------------------------
(* The turns of selectFairBatch: the strata that are left take turns in the  *)
(* order of their keys, although the cursor is a place in a list that gets   *)
(* shorter.                                                                  *)

\* Two initial segments of a set with as many elements are one.
LEMMA SegmentsEqual ==
  ASSUME NEW S \in SUBSET Nat, IsFiniteSet(S), NEW x \in Nat, NEW y \in Nat,
         Cardinality({t \in S : t < x}) = Cardinality({t \in S : t <= y})
  PROVE  {t \in S : t < x} = {t \in S : t <= y}
<1> DEFINE A == {t \in S : t < x}
           B == {t \in S : t <= y}
<1>1. IsFiniteSet(A) /\ IsFiniteSet(B)
  BY FS_Subset
<1>2. A \subseteq B \/ B \subseteq A
  <2>1. CASE x > y
    <3>1. \A t \in S : t <= y => t < x
      BY <2>1
    <3> QED
      BY <3>1
  <2>2. CASE x <= y
    <3>1. \A t \in S : t < x => t <= y
      BY <2>2
    <3> QED
      BY <3>1
  <2> QED
    BY <2>1, <2>2
<1>3. Cardinality(A) = Cardinality(B)
  OBVIOUS
<1> HIDE DEF A, B
<1>4. A = B
  BY <1>1, <1>2, <1>3, FS_Subset
<1> QED
  BY <1>4 DEF A, B

\* The turn goes to the next stratum above, or starts again at the lowest.
GoesUp(T, old, new) == old < new /\ \A s \in T : s < new <=> s <= old
StartsAgain(S, T, old, new) == (\A s \in S : s <= old) /\ \A s \in T : new <= s

\* Division with a remainder, stated so that it can be cited.
Divides(c, k, r) == r = c % k

\* The remainder and the quotient, as facts that can be cited.
LEMMA RemainderIsOne ==
  ASSUME NEW c \in Nat, NEW k \in Nat, k > 0, NEW r \in Nat, NEW q \in Nat, c = k * q + r, r < k
  PROVE  Divides(c, k, r)
<1>1. c % k = r
  OBVIOUS
<1> QED
  BY <1>1 DEF Divides

\* A number is what it is divided by, so many times, and the remainder.
LEMMA QuotientExists ==
  ASSUME NEW c \in Nat, NEW k \in Nat, k > 0, NEW r \in Nat, Divides(c, k, r)
  PROVE  r < k /\ \E q \in Nat : c = k * q + r
<1> SUFFICES ASSUME r = c % k
             PROVE  r < k /\ \E q \in Nat : c = k * q + r
  BY DEF Divides
<1>1. PICK q : q = c \div k
  OBVIOUS
<1>2. q \in Nat /\ c = k * q + r
  BY <1>1
<1>3. r < k
  OBVIOUS
<1> QED
  BY <1>2, <1>3

\* The next number is at the next place of a round, or at the first of a new one.
LEMMA NextInRound ==
  ASSUME NEW c \in Nat, NEW k \in Nat, k > 0, NEW r \in Nat, Divides(c, k, r), NEW d \in Nat, d = c + 1
  PROVE  /\ r + 1 = k => Divides(d, k, 0)
         /\ r + 1 # k => Divides(d, k, r + 1)
<1>1. PICK q \in Nat : c = k * q + r
  BY QuotientExists
<1>2. r < k
  BY QuotientExists
<1>3. CASE r + 1 = k
  <2>1. PICK u \in Nat : u = q + 1
    OBVIOUS
  <2>2. d = k * u + 0
    BY <1>1, <1>3, <2>1
  <2> QED
    BY <1>3, <2>1, <2>2, RemainderIsOne
<1>4. CASE r + 1 # k
  <2>1. PICK u \in Nat : u = r + 1
    OBVIOUS
  <2>2. d = k * q + u /\ u < k
    BY <1>1, <1>2, <1>4, <2>1
  <2>3. Divides(d, k, u)
    BY <2>2, RemainderIsOne
  <2> QED
    BY <1>4, <2>1, <2>3
<1> QED
  BY <1>3, <1>4

\* The stratum the cursor is at, and where it is when a candidate was taken.
TurnAt(S, c) == KeyAt(S, c % Cardinality(S))
CursorAfter(S, T, c) == IF T = S THEN c + 1 ELSE (c % Cardinality(S)) % Cardinality(T)

\* Whether or not a stratum gave its last candidate, the cursor goes to the next one above,
\* or to the lowest when there is none.
LEMMA TurnGoesOn ==
  ASSUME NEW S \in SUBSET Nat, IsFiniteSet(S), S # {}, NEW c \in Nat,
         NEW old, old = TurnAt(S, c), NEW T, T = S \/ T = S \ {old}, T # {},
         NEW d, d = CursorAfter(S, T, c), NEW new, new = TurnAt(T, d)
  PROVE  old \in S /\ new \in T /\ (GoesUp(T, old, new) \/ StartsAgain(S, T, old, new))
<1> USE DEF TurnAt, CursorAfter
<1>1. PICK k \in Nat \ {0} : k = Cardinality(S)
  BY FS_CardinalityType, FS_EmptySet
<1>2. PICK place \in Nat : place = c % k /\ place < k
  BY <1>1
<1>3. old \in S /\ old \in Nat /\ Cardinality({t \in S : t < old}) = place
  BY <1>1, <1>2, KeyIsOne
<1> DEFINE Below == {t \in S : t < old}
           Upto == {t \in S : t <= old}
<1>4. IsFiniteSet(Below) /\ Upto = Below \cup {old} /\ old \notin Below
  <2>1. \A t \in S : t <= old <=> t < old \/ t = old
    BY <1>3
  <2>2. ~(old < old)
    BY <1>3
  <2> QED
    BY <1>3, <2>1, <2>2, FS_Subset
<1>5. Cardinality(Upto) = place + 1
  <2>1. Cardinality(Below \cup {old}) = Cardinality(Below) + 1
    BY <1>4, FS_AddElement
  <2> QED
    BY <1>3, <1>4, <2>1
<1>6. T \in SUBSET Nat /\ IsFiniteSet(T) /\ T \subseteq S
  BY FS_Subset
<1>7. PICK n \in Nat \ {0} : n = Cardinality(T)
  BY <1>6, FS_CardinalityType, FS_EmptySet
<1>8. T # S => n = k - 1
  <2>1. Cardinality(S \ {old}) = Cardinality(S) - 1
    BY <1>3, FS_RemoveElement
  <2> QED
    BY <1>1, <1>7, <2>1
<1>9. d = IF T = S THEN c + 1 ELSE place % n
  BY <1>1, <1>2, <1>7
<1>10. d % n = IF place + 1 = k THEN 0 ELSE IF T = S THEN place + 1 ELSE place
  <2>1. CASE T = S
    <3>1. n = k /\ d = c + 1
      BY <1>1, <1>7, <1>9, <2>1
    <3>2. (place + 1 = k => d % k = 0) /\ (place + 1 # k => d % k = place + 1)
      <4>1. d \in Nat /\ d = c + 1 /\ k > 0
        BY <1>1, <3>1
      <4> QED
        <5>1. Divides(c, k, place)
          BY <1>2 DEF Divides
        <5>2. (place + 1 = k => Divides(d, k, 0)) /\ (place + 1 # k => Divides(d, k, place + 1))
          BY <1>1, <1>2, <4>1, <5>1, NextInRound
        <5> QED
          BY <5>2 DEF Divides
    <3> QED
      BY <2>1, <3>1, <3>2
  <2>2. CASE T # S
    <3>1. n = k - 1 /\ d = place % n
      BY <1>8, <1>9, <2>2
    <3>2. CASE place + 1 = k
      <4>1. place = n
        BY <3>1, <3>2
      <4>2. n % n = 0 /\ 0 % n = 0
        OBVIOUS
      <4> QED
        BY <3>1, <3>2, <4>1, <4>2
    <3>3. CASE place + 1 # k
      <4>1. place < n
        BY <1>2, <3>1, <3>3
      <4>2. place % n = place
        BY <4>1
      <4> QED
        BY <2>2, <3>1, <3>3, <4>2
    <3> QED
      BY <3>2, <3>3
  <2> QED
    BY <2>1, <2>2
<1>11. PICK e \in Nat : e = d % n /\ e < n
  <2>1. n = k \/ (T # S /\ n = k - 1)
    BY <1>1, <1>7, <1>8
  <2>2. CASE place + 1 = k
    <3>1. d % n = 0
      BY <1>10, <2>2
    <3> QED
      BY <1>7, <3>1
  <2>3. CASE place + 1 # k /\ T = S
    <3>1. d % n = place + 1 /\ n = k
      BY <1>10, <2>1, <2>3
    <3>2. place + 1 \in Nat /\ place + 1 < k
      BY <1>2, <2>3
    <3> QED
      BY <3>1, <3>2
  <2>4. CASE place + 1 # k /\ T # S
    <3>1. d % n = place /\ n = k - 1
      BY <1>8, <1>10, <2>4
    <3>2. place < k - 1
      BY <1>2, <2>4
    <3> QED
      BY <1>2, <3>1, <3>2
  <2> QED
    BY <2>2, <2>3, <2>4
<1>12. new \in T /\ new \in Nat /\ Cardinality({t \in T : t < new}) = e
  <2>1. new = KeyAt(T, e) /\ e < Cardinality(T)
    BY <1>7, <1>11
  <2>2. KeyAt(T, e) \in T /\ Cardinality({t \in T : t < KeyAt(T, e)}) = e
    BY <1>6, <2>1, KeyIsOne
  <2> QED
    BY <1>6, <2>1, <2>2
<1>13. CASE place + 1 = k
  <2>1. Upto = S
    <3>1. Upto \subseteq S /\ Cardinality(Upto) = Cardinality(S)
      BY <1>1, <1>5, <1>13
    <3> QED
      BY <3>1, FS_Subset
  <2>2. \A s \in S : s <= old
    BY <2>1
  <2>3. {t \in T : t < new} = {}
    <3>1. e = 0
      BY <1>10, <1>11, <1>13
    <3>2. IsFiniteSet({t \in T : t < new})
      BY <1>6, FS_Subset
    <3> QED
      BY <1>12, <3>1, <3>2, FS_EmptySet
  <2>4. \A s \in T : new <= s
    BY <1>6, <1>12, <2>3
  <2> QED
    BY <1>3, <1>12, <2>2, <2>4 DEF StartsAgain
<1>14. CASE place + 1 # k
  <2>1. Cardinality({t \in T : t < new}) = Cardinality({t \in T : t <= old})
    <3>1. CASE T = S
      BY <1>5, <1>10, <1>11, <1>12, <1>14, <3>1
    <3>2. CASE T # S
      <4>1. T = S \ {old}
        BY <3>2
      <4>2. \A t \in S : t # old /\ t <= old <=> t < old
        BY <1>3
      <4>3. {t \in T : t <= old} = Below
        BY <4>1, <4>2
      <4> QED
        BY <1>3, <1>10, <1>11, <1>12, <1>14, <3>2, <4>3
    <3> QED
      BY <3>1, <3>2
  <2>2. {t \in T : t < new} = {t \in T : t <= old}
    BY <1>3, <1>6, <1>12, <2>1, SegmentsEqual
  <2>3. new \notin {t \in T : t < new}
    BY <1>12
  <2>4. old < new
    BY <1>3, <1>12, <2>2, <2>3
  <2>5. \A s \in T : s < new <=> s <= old
    BY <2>2
  <2> QED
    BY <1>3, <1>12, <2>4, <2>5 DEF GoesUp
<1> QED
  BY <1>13, <1>14

-----------------------------------------------------------------------------
(* A round: the strata below the one whose turn it is have given one         *)
(* candidate more.                                                           *)

\* How many each stratum has given.
Taken(candidates, f) ==
    [s \in Nat |-> Cardinality({i \in (1..Len(candidates)) \ f.left : Stratum[candidates[i]] = s})]

\* A round of the loop: the strata below the one whose turn it is have given once more
\* than the others; one that has no candidate left may have given less.
RoundOf(strata, turn, m, taken) ==
    \A s \in Nat : LET full == IF s < turn THEN m + 1 ELSE m
                   IN  taken[s] <= full /\ (s \in strata => taken[s] = full)

\* One stratum gave one more.
GaveOne(taken, given, key) ==
    \A s \in Nat : given[s] = IF s = key THEN taken[s] + 1 ELSE taken[s]

\* So a round goes on, or the next one begins.
LEMMA RoundGoesOn ==
  ASSUME NEW S \in SUBSET Nat, NEW T, NEW old \in S, T = S \/ T = S \ {old}, NEW new \in T,
         GoesUp(T, old, new) \/ StartsAgain(S, T, old, new),
         NEW m \in Nat, NEW taken \in [Nat -> Nat], NEW given \in [Nat -> Nat],
         RoundOf(S, old, m, taken), GaveOne(taken, given, old)
  PROVE  \E l \in Nat : RoundOf(T, new, l, given)
<1>1. old \in Nat /\ new \in Nat /\ T \subseteq S
  OBVIOUS
<1>2. taken[old] = m
  BY <1>1 DEF RoundOf
<1>3. \A s \in Nat : taken[s] \in Nat /\ given[s] \in Nat /\ given[s] = IF s = old THEN m + 1 ELSE taken[s]
  BY <1>1, <1>2 DEF GaveOne
<1>4. CASE GoesUp(T, old, new)
  <2>1. ASSUME NEW s \in Nat
        PROVE  LET full == IF s < new THEN m + 1 ELSE m
               IN  given[s] <= full /\ (s \in T => given[s] = full)
    <3>1. CASE s < old
      <4>1. s < new /\ s # old
        BY <1>1, <1>4, <3>1 DEF GoesUp
      <4>2. given[s] = taken[s] /\ taken[s] <= m + 1 /\ (s \in S => taken[s] = m + 1)
        BY <1>3, <3>1, <4>1 DEF RoundOf
      <4> QED
        BY <1>1, <4>1, <4>2
    <3>2. CASE s = old
      <4>1. s < new /\ given[s] = m + 1
        BY <1>3, <1>4, <3>2 DEF GoesUp
      <4> QED
        BY <4>1
    <3>3. CASE s > old
      <4>1. given[s] = taken[s] /\ taken[s] <= m /\ (s \in S => taken[s] = m)
        BY <1>1, <1>3, <3>3 DEF RoundOf
      <4>2. s \in T => ~(s < new)
        BY <1>1, <1>4, <3>3 DEF GoesUp
      <4> QED
        BY <1>1, <1>3, <4>1, <4>2
    <3> QED
      BY <1>1, <3>1, <3>2, <3>3
  <2> QED
    BY <2>1 DEF RoundOf
<1>5. CASE StartsAgain(S, T, old, new)
  <2>1. ASSUME NEW s \in Nat
        PROVE  LET full == IF s < new THEN (m + 1) + 1 ELSE m + 1
               IN  given[s] <= full /\ (s \in T => given[s] = full)
    <3>1. given[s] <= m + 1
      <4>1. taken[s] <= m + 1
        <5>1. s < old \/ ~(s < old)
          OBVIOUS
        <5>2. taken[s] <= IF s < old THEN m + 1 ELSE m
          BY DEF RoundOf
        <5> QED
          BY <1>3, <5>2
      <4> QED
        BY <1>3, <4>1
    <3>2. ASSUME s \in T PROVE given[s] = m + 1 /\ ~(s < new)
      <4>1. s <= old /\ new <= s
        BY <1>1, <1>5, <3>2 DEF StartsAgain
      <4>2. s # old => taken[s] = m + 1
        <5>1. s # old => s < old
          BY <1>1, <4>1
        <5> QED
          BY <1>1, <3>2, <5>1 DEF RoundOf
      <4> QED
        BY <1>1, <1>3, <4>1, <4>2
    <3> QED
      BY <1>3, <3>1, <3>2
  <2>2. m + 1 \in Nat
    OBVIOUS
  <2>3. RoundOf(T, new, m + 1, given)
    BY <2>1 DEF RoundOf
  <2> QED
    BY <2>2, <2>3
<1> QED
  BY <1>4, <1>5

\* What the loop keeps as it goes on: it is in a round.
InRound(candidates, f) ==
    f.left # {} => \E m \in Nat : RoundOf(Strata(candidates, f.left), Turn(candidates, f), m, Taken(candidates, f))

\* What a stratum has given is a number,
LEMMA TakenCounts ==
  ASSUME NEW candidates \in Seq(Player), NEW f, f.left \in SUBSET (1..Len(candidates))
  PROVE  Taken(candidates, f) \in [Nat -> Nat]
<1>1. ASSUME NEW s
      PROVE  Cardinality({i \in (1..Len(candidates)) \ f.left : Stratum[candidates[i]] = s}) \in Nat
  <2>1. IsFiniteSet(1..Len(candidates))
    BY PlacesFinite
  <2> QED
    BY <2>1, FS_Subset, FS_CardinalityType
<1> QED
  BY <1>1 DEF Taken

\* and it is one more for the stratum that gives a candidate.
LEMMA TakenOneMore ==
  ASSUME NEW candidates \in Seq(Player), NEW f, NEW g, NEW i,
         f.left \in SUBSET (1..Len(candidates)), i \in f.left, g.left = f.left \ {i},
         NEW key \in Nat, Stratum[candidates[i]] = key
  PROVE  GaveOne(Taken(candidates, f), Taken(candidates, g), key)
<1> DEFINE Gave(h, s) == {j \in (1..Len(candidates)) \ h.left : Stratum[candidates[j]] = s}
<1>1. ASSUME NEW s PROVE IsFiniteSet(Gave(f, s))
  <2>1. PICK P : P = 1..Len(candidates)
    OBVIOUS
  <2>2. IsFiniteSet(P)
    BY <2>1, PlacesFinite
  <2>3. PICK A : A = Gave(f, s)
    OBVIOUS
  <2>4. A \in SUBSET P
    BY <2>1, <2>3
  <2>5. IsFiniteSet(A)
    BY <2>2, <2>4, FS_Subset
  <2> HIDE DEF Gave
  <2> QED
    BY <2>3, <2>5
<1>2. ASSUME NEW s \in Nat
      PROVE  Cardinality(Gave(g, s)) = IF s = key THEN Cardinality(Gave(f, s)) + 1 ELSE Cardinality(Gave(f, s))
  <2>1. CASE s = key
    <3>1. Gave(g, s) = Gave(f, s) \cup {i} /\ i \notin Gave(f, s)
      BY <2>1
    <3>2. PICK A : A = Gave(f, s)
      OBVIOUS
    <3>3. IsFiniteSet(A)
      BY <1>1, <3>2
    <3>4. Cardinality(A \cup {i}) = Cardinality(A) + 1
      BY <3>1, <3>2, <3>3, FS_AddElement
    <3> HIDE DEF Gave
    <3> QED
      BY <2>1, <3>1, <3>2, <3>4
  <2>2. CASE s # key
    <3>1. Gave(g, s) = Gave(f, s)
      BY <2>2
    <3> QED
      BY <2>2, <3>1
  <2> QED
    BY <2>1, <2>2
<1>3. /\ Taken(candidates, f) = [s \in Nat |-> Cardinality(Gave(f, s))]
      /\ Taken(candidates, g) = [s \in Nat |-> Cardinality(Gave(g, s))]
  BY DEF Taken
<1> HIDE DEF Gave
<1> QED
  BY <1>2, <1>3 DEF GaveOne

\* A candidate that is taken may be the last of its stratum, and of no other.
LEMMA StrataOneLess ==
  ASSUME NEW candidates \in Seq(Player), NEW L \in SUBSET (1..Len(candidates)), NEW i \in L
  PROVE  \/ Strata(candidates, L \ {i}) = Strata(candidates, L)
         \/ Strata(candidates, L \ {i}) = Strata(candidates, L) \ {Stratum[candidates[i]]}
BY DEF Strata

\* An iteration of the loop keeps it in a round.
LEMMA StepInRound ==
  ASSUME NEW candidates \in Seq(Player), Distinct(candidates), NEW size \in Nat, NEW f,
         Candidacy(candidates, f), Len(f.selected) < size, f.left # {}, InRound(candidates, f)
  PROVE  InRound(candidates, FairStep(candidates, size, f))
<1>1. PICK g : g = FairStep(candidates, size, f)
  OBVIOUS
<1>2. PICK i \in f.left : Selects(candidates, f, g, i)
  BY <1>1, NextSelected
<1>3. f.left \in SUBSET (1..Len(candidates)) /\ f.cursor \in Nat
  BY DEF Candidacy
<1>4. PICK S : S = Strata(candidates, f.left)
  OBVIOUS
<1>5. PICK old : old = Turn(candidates, f)
  OBVIOUS
<1>6. PICK T : T = Strata(candidates, g.left)
  OBVIOUS
<1>7. PICK new : new = Turn(candidates, g)
  OBVIOUS
<1>8. Stratum[candidates[i]] = old /\ g.left = f.left \ {i} /\ g.left \in SUBSET (1..Len(candidates))
  BY <1>2, <1>3, <1>5 DEF Selects
<1>9. T = S \/ T = S \ {old}
  BY <1>3, <1>4, <1>6, <1>8, StrataOneLess
<1>10. S \in SUBSET Nat /\ IsFiniteSet(S) /\ S # {}
  BY <1>3, <1>4, StrataFinite
<1>11. PICK m \in Nat : RoundOf(S, old, m, Taken(candidates, f))
  BY <1>4, <1>5 DEF InRound
<1>12. ASSUME g.left # {} PROVE \E l \in Nat : RoundOf(T, new, l, Taken(candidates, g))
  <2>1. T # {}
    BY <1>6, <1>8, <1>12, StrataFinite
  <2>2. PICK c \in Nat : c = f.cursor
    BY <1>3
  <2>3. PICK d : d = g.cursor
    OBVIOUS
  <2>4. old = TurnAt(S, c) /\ new = TurnAt(T, d)
    BY <1>4, <1>5, <1>6, <1>7, <2>2, <2>3 DEF Turn, TurnAt
  <2>5. d = CursorAfter(S, T, c)
    BY <1>2, <1>4, <1>6, <2>1, <2>2, <2>3 DEF Selects, CursorAfter
  <2>6. old \in S /\ new \in T /\ (GoesUp(T, old, new) \/ StartsAgain(S, T, old, new))
    BY <1>9, <1>10, <2>1, <2>4, <2>5, TurnGoesOn
  <2>7. old \in Nat
    BY <1>10, <2>6
  <2>8. PICK taken : taken = Taken(candidates, f)
    OBVIOUS
  <2>9. PICK given : given = Taken(candidates, g)
    OBVIOUS
  <2>10. GaveOne(taken, given, old)
    BY <1>3, <1>8, <2>7, <2>8, <2>9, TakenOneMore
  <2>11. taken \in [Nat -> Nat] /\ given \in [Nat -> Nat]
    BY <1>3, <1>8, <2>8, <2>9, TakenCounts
  <2>12. RoundOf(S, old, m, taken)
    BY <1>11, <2>8
  <2>13. \E l \in Nat : RoundOf(T, new, l, given)
    BY <1>9, <1>10, <2>6, <2>10, <2>11, <2>12, RoundGoesOn
  <2> QED
    BY <2>9, <2>13
<1> QED
  BY <1>1, <1>6, <1>7, <1>12 DEF InRound

-----------------------------------------------------------------------------
(* The loop ends in a round, and that is what LeaseIsFair says of the batch. *)

\* It starts in the first.
LEMMA StartInRound ==
  ASSUME NEW candidates \in Seq(Player)
  PROVE  InRound(candidates, LoopStart(candidates))
<1>1. PICK f : f = LoopStart(candidates)
  OBVIOUS
<1>2. f.left = 1..Len(candidates) /\ f.cursor = 0
  BY <1>1 DEF LoopStart
<1>3. PICK S : S = Strata(candidates, f.left)
  OBVIOUS
<1>4. ASSUME f.left # {} PROVE RoundOf(S, Turn(candidates, f), 0, Taken(candidates, f))
  <2>1. S \in SUBSET Nat /\ IsFiniteSet(S) /\ S # {}
    BY <1>2, <1>3, <1>4, StrataFinite
  <2>2. PICK k \in Nat \ {0} : k = Cardinality(S)
    BY <2>1, FS_CardinalityType, FS_EmptySet
  <2>3. 0 % k = 0 /\ 0 < Cardinality(S)
    BY <2>2
  <2>4. Turn(candidates, f) = KeyAt(S, 0)
    BY <1>2, <1>3, <2>2, <2>3 DEF Turn
  <2>5. PICK turn : turn = KeyAt(S, 0)
    OBVIOUS
  <2>6. turn \in S /\ Cardinality({t \in S : t < turn}) = 0
    BY <2>1, <2>3, <2>5, KeyIsOne
  <2>7. {t \in S : t < turn} = {}
    <3>1. IsFiniteSet({t \in S : t < turn})
      BY <2>1, FS_Subset
    <3> QED
      BY <2>6, <3>1, FS_EmptySet
  <2>8. \A s \in Nat : Taken(candidates, f)[s] = 0
    <3>1. ASSUME NEW s \in Nat PROVE {i \in (1..Len(candidates)) \ f.left : Stratum[candidates[i]] = s} = {}
      BY <1>2
    <3>2. ASSUME NEW s \in Nat
          PROVE  Cardinality({i \in (1..Len(candidates)) \ f.left : Stratum[candidates[i]] = s}) = 0
      BY <3>1, FS_EmptySet
    <3> QED
      BY <3>2 DEF Taken
  <2>9. \A s \in S : ~(s < turn)
    BY <2>7
  <2>10. RoundOf(S, turn, 0, Taken(candidates, f))
    BY <2>8, <2>9 DEF RoundOf
  <2> QED
    BY <2>4, <2>5, <2>10
<1> QED
  BY <1>1, <1>3, <1>4 DEF InRound

\* The batch is filled, or nobody is left, and it ends in a round.
LEMMA LoopEndsFair ==
  ASSUME NEW candidates \in Seq(Player), Distinct(candidates), NEW size \in Nat
  PROVE  \E f : /\ FairBatch(candidates, size) = f.selected
                /\ Candidacy(candidates, f) /\ InRound(candidates, f)
                /\ f.left # {} => Len(f.selected) = size
<1> DEFINE L == FairLoop(candidates, size)
           Good(n) == InRound(candidates, L[n]) /\ (L[n].left # {} => Len(L[n].selected) = n)
           S == {n \in 0..size : ~Good(n)}
<1>1. /\ L[0] = LoopStart(candidates)
      /\ \A n \in 1..size : L[n] = FairStep(candidates, size, L[n - 1])
      /\ \A n \in 0..size : L[n] \in LoopState /\ Candidacy(candidates, L[n])
  BY LoopGoesOn
<1> HIDE DEF L
<1>2. ASSUME S # {} PROVE FALSE
  <2>1. S \in SUBSET Nat
    OBVIOUS
  <2>2. PICK n \in S : \A x \in S : n <= x
    <3> HIDE DEF S
    <3> QED
      BY <1>2, <2>1, LeastNat
  <2>3. n # 0
    <3>1. Len(L[0].selected) = 0
      BY <1>1 DEF LoopStart
    <3>2. InRound(candidates, L[0])
      BY <1>1, StartInRound
    <3> QED
      BY <2>2, <3>1, <3>2
  <2>4. n \in 1..size /\ n - 1 \in 0..size /\ n - 1 \notin S
    BY <2>2, <2>3
  <2>5. PICK f : f = L[n - 1]
    OBVIOUS
  <2>6. Candidacy(candidates, f) /\ InRound(candidates, f) /\ (f.left # {} => Len(f.selected) = n - 1)
    BY <1>1, <2>4, <2>5
  <2>7. PICK g : g = FairStep(candidates, size, f)
    OBVIOUS
  <2>8. InRound(candidates, g) /\ (g.left # {} => Len(g.selected) = n)
    <3>1. CASE f.left = {}
      <4>1. g = f
        BY <2>7, <3>1 DEF FairStep
      <4> QED
        BY <2>6, <3>1, <4>1
    <3>2. CASE f.left # {}
      <4>1. Len(f.selected) < size /\ Len(f.selected) = n - 1
        BY <2>4, <2>6, <3>2
      <4>2. Len(g.selected) = Len(f.selected) + 1
        BY <2>6, <2>7, <3>2, <4>1, NextSelected
      <4>3. InRound(candidates, g)
        BY <2>6, <2>7, <3>2, <4>1, StepInRound
      <4> QED
        BY <2>4, <4>1, <4>2, <4>3
    <3> QED
      BY <3>1, <3>2
  <2>9. L[n] = g
    BY <1>1, <2>4, <2>5, <2>7
  <2> QED
    BY <2>2, <2>8, <2>9
<1>3. Good(size)
  <2>1. size \in 0..size
    OBVIOUS
  <2> QED
    BY <1>2, <2>1
<1>4. FairBatch(candidates, size) = L[size].selected
  BY DEF FairBatch, L
<1>5. Candidacy(candidates, L[size])
  BY <1>1
<1> QED
  BY <1>3, <1>4, <1>5

\* Sets whose elements correspond have as many.
LEMMA OneToOne ==
  ASSUME NEW A, NEW B, NEW h \in [A -> B], \A i, j \in A : h[i] = h[j] => i = j,
         \A p \in B : \E i \in A : h[i] = p, IsFiniteSet(A)
  PROVE  IsFiniteSet(B) /\ Cardinality(B) = Cardinality(A)
<1>1. h \in Injection(A, B)
  BY DEF Injection, IsInjective
<1>2. h \in Surjection(A, B)
  BY DEF Surjection
<1>3. ExistsBijection(A, B)
  BY <1>1, <1>2 DEF Bijection, ExistsBijection
<1> QED
  BY <1>3, FS_Bijection

\* A sequence without repetition has as many members as places.
LEMMA DistinctCounts ==
  ASSUME NEW D, NEW s \in Seq(D), Distinct(s)
  PROVE  IsFiniteSet(ToSet(s)) /\ Cardinality(ToSet(s)) = Len(s)
<1>1. Len(s) \in Nat /\ DOMAIN s = 1..Len(s)
  OBVIOUS
<1>2. IsFiniteSet(1..Len(s)) /\ Cardinality(1..Len(s)) = Len(s)
  BY SMTT(30), <1>1, FS_Interval
<1>3. s \in [1..Len(s) -> ToSet(s)]
  BY DEF ToSet
<1>4. \A p \in ToSet(s) : \E i \in 1..Len(s) : s[i] = p
  BY <1>1 DEF ToSet
<1>5. \A i, j \in 1..Len(s) : s[i] = s[j] => i = j
  BY DEF Distinct
<1> QED
  BY ZenonT(30), <1>2, <1>3, <1>4, <1>5, OneToOne

\* What LeaseIsFair asks of a batch of some candidates.
IsFair(all, todo, size) ==
    LET leased == ToSet(todo)
        Got(s) == Cardinality({p \in leased : Stratum[p] = s})
    IN  /\ leased \subseteq all
        /\ Len(todo) = Cardinality(leased)
        /\ leased # all => Len(todo) = size
        /\ \A p \in leased, q \in all \ leased :
             \/ Got(Stratum[p]) <= Got(Stratum[q])
             \/ /\ Got(Stratum[p]) = Got(Stratum[q]) + 1
                /\ Stratum[p] < Stratum[q]

\* So a batch is fair.
LEMMA BatchIsFair ==
  ASSUME NEW candidates \in Seq(Player), Distinct(candidates), NEW size \in Nat
  PROVE  IsFair(ToSet(candidates), FairBatch(candidates, size), size)
<1>1. PICK f : /\ FairBatch(candidates, size) = f.selected
               /\ Candidacy(candidates, f) /\ InRound(candidates, f)
               /\ f.left # {} => Len(f.selected) = size
  BY LoopEndsFair
<1> DEFINE P == 1..Len(candidates)
           leased == ToSet(f.selected)
           Got(s) == Cardinality({p \in leased : Stratum[p] = s})
<1>2. /\ f.left \subseteq P /\ f.selected \in Seq(Player) /\ Distinct(f.selected)
      /\ \A j \in 1..Len(f.selected) : \E i \in P \ f.left : f.selected[j] = candidates[i]
      /\ \A i \in P \ f.left : \E j \in 1..Len(f.selected) : f.selected[j] = candidates[i]
  BY <1>1 DEF Candidacy
<1>3. \A p : p \in leased <=> \E i \in P \ f.left : p = candidates[i]
  <2>1. DOMAIN f.selected = 1..Len(f.selected)
    BY <1>2
  <2>2. \A p : p \in leased <=> \E j \in 1..Len(f.selected) : p = f.selected[j]
    BY <2>1 DEF ToSet
  <2>3. \A j \in 1..Len(f.selected) : \E i \in P \ f.left : f.selected[j] = candidates[i]
    BY <1>2
  <2>4. \A i \in P \ f.left : \E j \in 1..Len(f.selected) : f.selected[j] = candidates[i]
    BY <1>2
  <2> HIDE DEF leased, P
  <2>5. ASSUME NEW p \in leased PROVE \E i \in P \ f.left : p = candidates[i]
    BY <2>2, <2>3
  <2>6. ASSUME NEW i \in P \ f.left PROVE candidates[i] \in leased
    BY <2>2, <2>4
  <2> QED
    BY <2>5, <2>6
<1>4. ToSet(candidates) = {candidates[i] : i \in P}
  BY DEF ToSet
<1>5. Len(f.selected) = Cardinality(leased) /\ IsFiniteSet(leased)
  BY <1>2, DistinctCounts
<1> HIDE DEF leased
<1>6. leased \subseteq ToSet(candidates)
  BY <1>3, <1>4
<1>7. \A i \in f.left : candidates[i] \notin leased
  BY <1>2, <1>3 DEF Distinct
<1>8. ASSUME NEW q \in ToSet(candidates) \ leased PROVE \E i \in f.left : q = candidates[i]
  BY <1>3, <1>4, <1>8
<1>9. ASSUME NEW s \in Nat PROVE Got(s) = Taken(candidates, f)[s]
  <2> DEFINE A == {i \in P \ f.left : Stratum[candidates[i]] = s}
             B == {p \in leased : Stratum[p] = s}
             h == [i \in A |-> candidates[i]]
  <2>1. h \in [A -> B] /\ \A p \in B : \E i \in A : h[i] = p
    BY <1>3
  <2>2. IsFiniteSet(A)
    <3>1. IsFiniteSet(P)
      BY FS_Interval
    <3> QED
      BY <3>1, FS_Subset
  <2>3. \A i, j \in A : h[i] = h[j] => i = j
    BY DEF Distinct
  <2>5. Cardinality(B) = Cardinality(A)
    <3> HIDE DEF A, B, h
    <3> QED
      BY <2>1, <2>2, <2>3, OneToOne
  <2>4. Taken(candidates, f)[s] = Cardinality(A)
    BY DEF Taken
  <2> QED
    BY <2>4, <2>5
<1>10. ASSUME NEW p \in leased, NEW q \in ToSet(candidates) \ leased
       PROVE  \/ Got(Stratum[p]) <= Got(Stratum[q])
              \/ Got(Stratum[p]) = Got(Stratum[q]) + 1 /\ Stratum[p] < Stratum[q]
  <2>1. PICK i \in f.left : q = candidates[i]
    BY <1>8
  <2>2. p \in Player /\ q \in Player
    <3>1. \A j \in P : candidates[j] \in Player
      OBVIOUS
    <3>2. PICK j \in P : p = candidates[j]
      BY <1>3
    <3> QED
      BY <1>2, <2>1, <3>1, <3>2
  <2>3. PICK sp \in Nat : sp = Stratum[p]
    BY <2>2, CrawlAssumption DEF CrawlAssumption
  <2>4. PICK sq \in Nat : sq = Stratum[q]
    BY <2>2, CrawlAssumption DEF CrawlAssumption
  <2>5. PICK S : S = Strata(candidates, f.left)
    OBVIOUS
  <2>6. PICK turn : turn = Turn(candidates, f)
    OBVIOUS
  <2>7. PICK taken : taken = Taken(candidates, f)
    OBVIOUS
  <2>8. PICK m \in Nat : RoundOf(S, turn, m, taken)
    BY <1>1, <2>1, <2>5, <2>6, <2>7 DEF InRound
  <2>9. sq \in S
    BY <2>1, <2>4, <2>5 DEF Strata
  <2>10. /\ taken[sp] <= IF sp < turn THEN m + 1 ELSE m
         /\ taken[sq] = IF sq < turn THEN m + 1 ELSE m
    BY <2>8, <2>9 DEF RoundOf
  <2>11. Got(sp) = taken[sp] /\ Got(sq) = taken[sq]
    BY <1>9, <2>7
  <2>12. taken[sp] \in Nat /\ taken[sq] \in Nat
    BY ZenonT(30), <1>2, <2>7, TakenCounts
  <2>13. turn \in Nat
    <3>1. S \in SUBSET Nat /\ IsFiniteSet(S) /\ S # {}
      BY <1>2, <2>5, <2>9, StrataFinite
    <3>2. PICK k \in Nat \ {0} : k = Cardinality(S)
      BY <3>1, FS_CardinalityType, FS_EmptySet
    <3>3. PICK c \in Nat : c = f.cursor % k /\ c < k
      <4>1. f.cursor \in Nat
        BY <1>1 DEF Candidacy
      <4> QED
        BY <3>2, <4>1
    <3>4. turn = KeyAt(S, c)
      BY <2>5, <2>6, <3>2, <3>3 DEF Turn
    <3>5. KeyAt(S, c) \in S
      BY <3>1, <3>2, <3>3, KeyIsOne
    <3> QED
      BY <3>1, <3>4, <3>5
  <2> HIDE DEF Got
  <2>14. taken[sp] <= taken[sq] \/ (taken[sp] = taken[sq] + 1 /\ sp < sq)
    BY <2>10, <2>12, <2>13
  <2> QED
    BY <2>3, <2>4, <2>11, <2>14
<1>11. leased # ToSet(candidates) => Len(f.selected) = size
  <2>1. f.left = {} => leased = ToSet(candidates)
    BY <1>3, <1>4
  <2> QED
    BY <1>1, <2>1
<1>12. IsFair(ToSet(candidates), f.selected, size)
  BY <1>5, <1>6, <1>10, <1>11 DEF IsFair, leased
<1> QED
  BY <1>1, <1>12

\* Candidates in some order: each of them once.
LEMMA OrderOfCandidates ==
  ASSUME CrawlAssumption, CrawlTypeOK, NEW candidates \in SetToSeqs(Candidates)
  PROVE  candidates \in Seq(Player) /\ Distinct(candidates) /\ ToSet(candidates) = Candidates
<1>1. Candidates \subseteq Player /\ IsFiniteSet(Candidates)
  <2>1. Candidates \subseteq Player
    BY DEF Candidates, CrawlTypeOK
  <2> QED
    BY <2>1, FS_Subset DEF CrawlAssumption
<1>2. PICK n \in Nat : n = Cardinality(Candidates)
  BY <1>1, FS_CardinalityType
<1>3. candidates \in [1..n -> Candidates] /\ \A i, j \in 1..n : i # j => candidates[i] # candidates[j]
  BY <1>2 DEF SetToSeqs
<1>4. candidates \in Seq(Candidates) /\ candidates \in Seq(Player) /\ Len(candidates) = n
  BY <1>1, <1>3
<1>5. Distinct(candidates)
  BY <1>3, <1>4 DEF Distinct
<1>6. Cardinality(ToSet(candidates)) = Cardinality(Candidates)
  BY <1>2, <1>4, <1>5, DistinctCounts
<1>7. ToSet(candidates) \subseteq Candidates
  BY <1>3 DEF ToSet
<1>8. ToSet(candidates) = Candidates
  BY SMTT(30), <1>1, <1>6, <1>7, FS_Subset
<1> QED
  BY <1>4, <1>5, <1>8

\* Only the leasing transaction takes a slice to its first player, or finds none.
LEMMA OnlyLeaseBegins ==
  ASSUME CrawlAssumption, CrawlTypeOK, RowsFit, [CrawlNext]_vars, NEW w \in Worker,
         slice[w].at = "loaded", slice'[w].at \in {"budget", "drained"}
  PROVE  \E candidates \in SetToSeqs(Candidates) : Lease(w, candidates)
<1>0. TypeOK
  BY DEF CrawlTypeOK
<1>1. ~Aside /\ ~Passes
  BY <1>0, PassesAside DEF Aside, jobVars
<1>2. ASSUME NEW v \in Worker PROVE ~Enters(v) /\ ~Leaves(v)
  <2>1. CASE v = w
    <3>1. ASSUME Leaves(v) PROVE FALSE
      <4>1. slice'[w] = NoSlice
        BY <2>1, <3>1 DEF Leaves, CrawlTypeOK
      <4> QED
        BY <4>1, EmptySlice
    <3>2. ASSUME Enters(v) PROVE FALSE
      <4>1. PICK row : row = [NoSlice EXCEPT !.at = "loaded", !.cursor = cursor[mine'[w]]]
        OBVIOUS
      <4>2. row.at = "loaded"
        BY <4>1 DEF NoSlice
      <4>3. slice'[w] = row
        BY <2>1, <3>2, <4>1 DEF Enters, CrawlTypeOK
      <4> QED
        BY <4>2, <4>3
    <3> QED
      BY <3>1, <3>2
  <2>2. CASE v # w
    BY <2>2 DEF Enters, Leaves, OthersWork
  <2> QED
    BY <2>1, <2>2
<1>3. PICK v \in Worker : OfSlice(v)
  BY <1>0, <1>1, <1>2, CrawlSteps
<1>4. v = w
  <2>1. ASSUME v # w PROVE slice'[w].at = slice[w].at
    BY <1>3, <2>1, SliceMakes, OthersKeep
  <2> QED
    BY <2>1
<1> QED
  BY <1>3, <1>4 DEF OfSlice, ReadBudget, ResetWindow, Consume, Deny, FetchFails, FetchSucceeds,
                    Ingest, RecordSuccess, WriteCursor, Request, At

\* And so is what a slice leases, as it is such a batch of all candidates.
LEMMA LeaseStepIsFair ==
  ASSUME CountsInv, [CrawlNext]_vars, NEW w \in Worker,
         slice[w].at = "loaded", slice'[w].at \in {"budget", "drained"}
  PROVE  IsFair(Candidates, slice'[w].todo, Room(w))
<1>1. CrawlAssumption /\ CrawlTypeOK /\ RowsFit
  BY CrawlAssumption DEF CountsInv
<1>2. PICK candidates \in SetToSeqs(Candidates) : Lease(w, candidates)
  BY <1>1, OnlyLeaseBegins
<1>3. slice'[w].todo = FairBatch(candidates, Room(w))
  BY <1>1, <1>2, LeaseRow
<1>4. Room(w) \in Nat
  <2>1. PICK n : n = slice[w].cursor.processed
    OBVIOUS
  <2>2. n \in 0..Target
    BY <1>1, <2>1, AtWork
  <2>3. Target \in Nat /\ SlicePlayers \in Nat
    BY <1>1 DEF CrawlAssumption
  <2>4. Room(w) = IF Target - n < SlicePlayers THEN Target - n ELSE SlicePlayers
    BY <2>1 DEF Room
  <2> QED
    BY <2>2, <2>3, <2>4
<1>5. candidates \in Seq(Player) /\ Distinct(candidates) /\ ToSet(candidates) = Candidates
  BY <1>1, OrderOfCandidates
<1> QED
  BY <1>3, <1>4, <1>5, BatchIsFair

\* LeaseIsFair: a lease takes one candidate per stratum per round (fairness.ts), whatever the
\* strata are, however many candidates they have and in whatever order they are due: no
\* stratum gets two players more than one that has players left, the batch is filled, and a
\* longer stratum is an earlier one.
THEOREM LeasesAreFair == CrawlSpec => LeaseIsFair
<1> DEFINE Fair == \A w \in Worker :
              slice[w].at = "loaded" /\ slice'[w].at \in {"budget", "drained"}
                => IsFair(Candidates, slice'[w].todo, Room(w))
<1>1. CrawlInit => CountsInv
  BY CrawlInitInv
<1>2. CountsInv /\ [CrawlNext]_vars => [Fair]_vars
  <2> SUFFICES ASSUME CountsInv, [CrawlNext]_vars PROVE Fair
    OBVIOUS
  <2> QED
    BY LeaseStepIsFair
<1>3. LeaseIsFair <=> [][Fair]_vars
  BY DEF LeaseIsFair, IsFair
<1> HIDE DEF Fair
<1> QED
  BY <1>1, <1>2, <1>3, CountsStep, PTL DEF CrawlSpec
=============================================================================

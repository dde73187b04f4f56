---------------------- MODULE OutboundDispatcherProofs ----------------------
(***************************************************************************)
(* Two results for any number of items, any queue size and any behaviour of *)
(* the circuit, the adapter and the iterators: every item is reported       *)
(* exactly once, but for a dropped or refused stream whose iterator raises  *)
(* while it is drained, which is never reported; and items of a scope are   *)
(* delivered in order.  The second holds as long as there are at most       *)
(* _SCOPE_REAP_THRESHOLD scopes: beyond that, pruning the lock table may    *)
(* give two items of a scope different locks.                               *)
(***************************************************************************)
EXTENDS OutboundDispatcher, FiniteSetTheorems, SequenceTheorems, TLAPS

Ended == {"dropped", "done", "misrouted", "unreported"}
HoldingPlaces == {"refused", "skipping", "sending", "delivered", "failed"}
Started == HoldingPlaces \cup {"waiting"}
Claimed == Started \cup {"created"}   \* the task exists and was given a lock

(***************************************************************************)
(* The inductive invariant.                                                 *)
(***************************************************************************)
Typed ==
    /\ items \in Seq([scope : Scopes, kind : Kinds]) /\ Len(items) <= MaxItems
    /\ queue \in Seq(Items)
    /\ at \in [Items -> Places]
    /\ lockOf \in [Items -> Items \cup {0}]
    /\ table \in [Scopes -> Items \cup {0}]

\* The queue holds the queued items, in order of arrival.
QueueInv ==
    /\ \A i \in Items : at[i] = "new" <=> i > Len(items)
    /\ \A m, n \in 1 .. Len(queue) : m < n => queue[m] < queue[n]
    /\ \A m \in 1 .. Len(queue) : at[queue[m]] = "queued"
    /\ \A i \in Items :
         at[i] = "queued" => \E m \in 1 .. Len(queue) : queue[m] = i

\* The worker takes the items in order of arrival and their tasks start in it.
StartInv ==
    \A i, j \in Items : i < j =>
        /\ at[i] = "queued" => at[j] \in {"queued", "new"}
        /\ at[i] = "created" => at[j] \notin Started

\* A task has the lock _scope_locks still maps its scope to.
LockInv ==
    \A i \in Items : at[i] \in Claimed =>
        lockOf[i] # 0 /\ lockOf[i] = table[items[i].scope]

Base == Typed /\ QueueInv
IInv == Base /\ StartInv /\ LockInv /\ ScopeOrder

LEMMA InitInv == ASSUME Init PROVE IInv
BY OutboundAssumption
   DEF Init, IInv, Base, Typed, QueueInv, StartInv, LockInv, ScopeOrder, Enqueued,
       Items, Places, Claimed, Started, HoldingPlaces, Holding

(***************************************************************************)
(* A step of one task that leaves the queue and the locks alone.            *)
(***************************************************************************)
LEMMA TaskMovesBase ==
    ASSUME Base, NEW i \in Items, NEW p \in Places \ {"new", "queued"},
           Move(i, p), UNCHANGED <<items, queue, lockOf, table>>,
           at[i] \notin {"new", "queued"}
    PROVE  Base'
BY OutboundAssumption DEF Base, Typed, QueueInv, Items, Move

LEMMA TaskMoves ==
    ASSUME IInv, NEW i \in Items, NEW p \in Places \ {"new", "queued", "created"},
           Move(i, p), UNCHANGED <<items, queue, lockOf, table>>,
           at[i] \notin {"new", "queued"},
           at[i] \in Ended => p \in Ended,
           p \in Started \ HoldingPlaces => at[i] = "created",
           p \in Started => \A j \in Items : j < i => at[j] # "created",
           p \in HoldingPlaces =>
             \A j \in Items : j < i /\ SameScope(j, i) => at[j] \in Ended
    PROVE  IInv'
<1>1. Base'
  BY TaskMovesBase DEF IInv, Items
<1> USE OutboundAssumption DEF IInv, Base, Items, Move
<1>3. StartInv'
  BY DEF StartInv, Typed
<1>4. LockInv'
  BY DEF LockInv, Typed, Claimed, Started, HoldingPlaces, Ended, Places
<1>5. ScopeOrder'
  BY DEF ScopeOrder, Typed, SameScope, Holding, HoldingPlaces, Enqueued, Ended
<1> QED BY <1>1, <1>3, <1>4, <1>5

\* A step that moves no item, such as a retry.
LEMMA NothingMoves ==
    ASSUME IInv, UNCHANGED <<items, queue, at, lockOf, table>>
    PROVE  IInv'
BY DEF IInv, Base, Typed, QueueInv, StartInv, LockInv, ScopeOrder, SameScope,
       Holding, Enqueued, Claimed, Started, HoldingPlaces

(***************************************************************************)
(* The task of item i is dispatched: no earlier item of its scope can be    *)
(* queued, started or waiting for the same lock.                            *)
(***************************************************************************)
LEMMA BeginMoves ==
    ASSUME IInv, NEW i \in Items, Begin(i),
           UNCHANGED <<items, queue, lockOf, table>>,
           at[i] \in {"created", "waiting"},
           \A j \in Items : j < i => at[j] # "created",
           ~Locked(lockOf[i]),
           \A j \in Waiters(lockOf[i]) : i <= j
    PROVE  IInv'
<1>1. PICK p \in {"misrouted", "refused", "skipping", "sending"} : Move(i, p)
  BY DEF Begin
<1>2. ASSUME NEW j \in Items, j < i, SameScope(j, i)
      PROVE  at[j] \in Ended
  <2>1. at[j] \notin {"new", "queued"}
    BY <1>2 DEF IInv, Base, QueueInv, StartInv, Typed, Items
  <2>2. at[j] # "created"
    BY <1>2
  <2>3. at[j] \in Claimed => lockOf[j] = lockOf[i]
    BY <1>2 DEF IInv, Base, LockInv, Claimed, Started, SameScope
  <2>4. at[j] # "waiting"
    BY <1>2, <2>3 DEF Waiters, Claimed, Started, Items
  <2>5. at[j] \notin HoldingPlaces
    BY <2>3 DEF Locked, Holding, HoldingPlaces, Claimed, Started
  <2>6. at[j] \in Places
    BY DEF IInv, Base, Typed
  <2> QED BY <2>1, <2>2, <2>4, <2>5, <2>6 DEF Places, Ended, HoldingPlaces
<1> QED
  BY <1>1, <1>2, TaskMoves
     DEF Places, Started, HoldingPlaces, Ended

(***************************************************************************)
(* The steps that change the queue or the locks.                            *)
(***************************************************************************)
LEMMA QueuedItems ==
    ASSUME Base
    PROVE  /\ Len(queue) \in Nat /\ Len(items) \in Nat
           /\ \A m \in 1 .. Len(queue) :
                /\ queue[m] \in Items /\ queue[m] \in Nat
                /\ at[queue[m]] = "queued"
                /\ queue[m] \in 1 .. Len(items)
           /\ \A m, n \in 1 .. Len(queue) : m < n => queue[m] < queue[n]
<1>1. Len(queue) \in Nat /\ Len(items) \in Nat
  BY DEF Base, Typed
<1>2. \A m \in 1 .. Len(queue) : queue[m] \in Items
  BY ElementOfSeq DEF Base, Typed
<1>3. \A m \in 1 .. Len(queue) : at[queue[m]] = "queued"
  BY DEF Base, QueueInv
<1>4. \A m \in 1 .. Len(queue) : queue[m] <= Len(items)
  BY <1>1, <1>2, <1>3, OutboundAssumption DEF Base, QueueInv, Items
<1> QED BY <1>1, <1>2, <1>3, <1>4, OutboundAssumption DEF Base, QueueInv, Items

LEMMA EnqueueBase ==
    ASSUME Base, NEW s \in Scopes, NEW k \in Kinds, Enqueue(s, k)
    PROVE  Base'
<1> DEFINE i == Len(items) + 1
           full == Len(queue) >= QueueSize
           rest == IF full THEN Tail(queue) ELSE queue
<1>queued.
      /\ Len(queue) \in Nat /\ Len(items) \in Nat
      /\ \A m \in 1 .. Len(queue) :
           /\ queue[m] \in Items /\ queue[m] \in Nat
           /\ at[queue[m]] = "queued"
           /\ queue[m] \in 1 .. Len(items)
      /\ \A m, n \in 1 .. Len(queue) : m < n => queue[m] < queue[n]
  BY QueuedItems DEF IInv
<1> USE OutboundAssumption DEF Items
<1>1. /\ Len(items) < MaxItems /\ i \in Items /\ QueueSize > 0
      /\ items' = Append(items, [scope |-> s, kind |-> k])
      /\ queue' = Append(rest, i)
      /\ at' = [j \in Items |-> IF full /\ j = Head(queue) THEN "dropped"
                                ELSE IF j = i THEN "queued" ELSE at[j]]
      /\ UNCHANGED <<lockOf, table>>
  BY DEF Enqueue, Base, Typed
<1>2. full => queue # <<>> /\ Head(queue) \in Items /\ Head(queue) = queue[1]
              /\ at[Head(queue)] = "queued"
  BY <1>1 DEF Base, Typed, QueueInv
<1>3. at[i] = "new" /\ (full => Head(queue) # i)
  BY <1>1, <1>2 DEF Base, Typed, QueueInv
<1>4. /\ Len(items') = Len(items) + 1
      /\ \A j \in 1 .. Len(items) : items'[j] = items[j]
      /\ items' \in Seq([scope : Scopes, kind : Kinds])
  BY <1>1, AppendProperties DEF Base, Typed
<1>rest. rest \in Seq(Items)
  BY <1>2, HeadTailProperties DEF Base, Typed
<1>5. /\ Len(rest) = IF full THEN Len(queue) - 1 ELSE Len(queue)
      /\ \A m \in 1 .. Len(rest) :
           rest[m] = IF full THEN queue[m + 1] ELSE queue[m]
  BY <1>2, HeadTailProperties DEF Base, Typed
<1>typed. queue' \in Seq(Items)
  BY <1>1, <1>rest, AppendProperties
<1>6. /\ Len(rest) \in Nat /\ Len(queue') = Len(rest) + 1
      /\ \A m \in 1 .. Len(rest) : queue'[m] = rest[m]
      /\ queue'[Len(rest) + 1] = i
  BY <1>1, <1>rest, AppendProperties
<1>7. Typed'
  BY <1>1, <1>4, <1>typed DEF Base, Typed, Places
<1> HIDE DEF rest, full
<1>8. QueueInv'
  <2>1. \A j \in Items : at'[j] = "new" <=> j > Len(items')
    BY <1>1, <1>2, <1>3, <1>4 DEF Base, QueueInv, Typed
  <2>2. \A m \in 1 .. Len(rest) :
          rest[m] \in Nat /\ rest[m] <= Len(items) /\ at[rest[m]] = "queued"
    BY ONLY <1>5, <1>queued
  <2>3. \A m, n \in 1 .. Len(rest) : m < n => rest[m] < rest[n]
    BY ONLY <1>5, <1>queued
  <2>4. \A m, n \in 1 .. Len(queue') : m < n => queue'[m] < queue'[n]
    <3> SUFFICES ASSUME NEW m \in 1 .. Len(queue'),
                        NEW n \in 1 .. Len(queue'), m < n
                 PROVE  queue'[m] < queue'[n]
      OBVIOUS
    <3>1. m \in 1 .. Len(rest) /\ queue'[m] = rest[m] /\ rest[m] <= Len(items)
      BY ONLY <1>6, <2>2, m < n
    <3>2. CASE n = Len(rest) + 1
      <4>1. queue'[n] = Len(items) + 1
        BY <3>2, <1>6
      <4>2. rest[m] \in Nat /\ Len(items) \in Nat
        BY ONLY <3>1, <2>2, <1>queued
      <4> QED BY ONLY <4>1, <4>2, <3>1
    <3>3. CASE n # Len(rest) + 1
      <4>1. n \in 1 .. Len(rest) /\ queue'[n] = rest[n]
        BY ONLY <1>6, <3>3
      <4> QED BY ONLY <2>3, <3>1, <4>1, m < n
    <3> QED BY <3>2, <3>3
  <2>5. \A m \in 1 .. Len(rest) : full => rest[m] # Head(queue)
    <3>1. ASSUME NEW m \in 1 .. Len(rest), full
          PROVE  m + 1 \in 1 .. Len(queue) /\ 1 \in 1 .. Len(queue) /\ 1 < m + 1
      BY ONLY <3>1, <1>5, <1>queued
    <3>2. ASSUME NEW m \in 1 .. Len(rest), full
          PROVE  queue[1] < queue[m + 1] /\ queue[1] \in Nat
      BY ONLY <3>1, <3>2, <1>queued
    <3> QED BY <3>2, <1>2, <1>5
  <2>6. \A m \in 1 .. Len(queue') : at'[queue'[m]] = "queued"
    <3>1. \A m \in 1 .. Len(rest) : rest[m] \in Items /\ rest[m] # i
      BY ONLY <1>5, <2>2, <1>queued
    <3>2. \A m \in 1 .. Len(rest) : at'[rest[m]] = "queued"
      BY <3>1, <2>2, <2>5, <1>1
    <3>3. at'[i] = "queued"
      BY <1>1, <1>3
    <3>4. ASSUME NEW m \in 1 .. Len(queue') PROVE at'[queue'[m]] = "queued"
      <4>1. CASE m = Len(rest) + 1
        BY ONLY <4>1, <3>3, <1>6
      <4>2. CASE m # Len(rest) + 1
        <5>1. m \in 1 .. Len(rest) /\ queue'[m] = rest[m]
          BY ONLY <4>2, <3>4, <1>6
        <5> QED BY ONLY <5>1, <3>2
      <4> QED BY <4>1, <4>2
    <3> QED BY ONLY <3>4
  <2>7. ASSUME NEW j \in Items, at'[j] = "queued"
        PROVE  \E m \in 1 .. Len(queue') : queue'[m] = j
    <3>1. CASE j = i
      BY <3>1, <1>5, <1>6
    <3>2. CASE j # i
      <4>1. at[j] = "queued" /\ (full => j # Head(queue))
        BY <3>2, <2>7, <1>1
      <4>2. PICK m \in 1 .. Len(queue) : queue[m] = j
        BY <4>1 DEF Base, QueueInv
      <4>3. CASE full
        <5>1. m # 1 /\ m - 1 \in 1 .. Len(rest) /\ rest[m - 1] = j
          BY ONLY <4>1, <4>2, <4>3, <1>2, <1>5, <1>queued
        <5>2. queue'[m - 1] = j /\ m - 1 \in 1 .. Len(queue')
          BY ONLY <5>1, <1>6
        <5> QED BY <5>2
      <4>4. CASE ~full
        BY <4>2, <4>4, <1>5, <1>6
      <4> QED BY <4>3, <4>4
    <3> QED BY <3>1, <3>2
  <2> QED BY <2>1, <2>4, <2>6, <2>7 DEF QueueInv
<1> QED BY <1>7, <1>8 DEF Base

LEMMA EnqueueKeeps ==
    ASSUME IInv, NEW s \in Scopes, NEW k \in Kinds, Enqueue(s, k)
    PROVE  IInv'
<1> DEFINE i == Len(items) + 1
           full == Len(queue) >= QueueSize
<1>queued.
      /\ Len(queue) \in Nat /\ Len(items) \in Nat
      /\ \A m \in 1 .. Len(queue) :
           /\ queue[m] \in Items /\ queue[m] \in Nat
           /\ at[queue[m]] = "queued"
           /\ queue[m] \in 1 .. Len(items)
      /\ \A m, n \in 1 .. Len(queue) : m < n => queue[m] < queue[n]
  BY QueuedItems DEF IInv
<1> USE OutboundAssumption DEF Items
<1>1. /\ Len(items) < MaxItems /\ i \in Items /\ QueueSize > 0
      /\ items' = Append(items, [scope |-> s, kind |-> k])
      /\ queue' = Append(IF full THEN Tail(queue) ELSE queue, i)
      /\ at' = [j \in Items |-> IF full /\ j = Head(queue) THEN "dropped"
                                ELSE IF j = i THEN "queued" ELSE at[j]]
      /\ UNCHANGED <<lockOf, table>>
  BY DEF Enqueue, IInv, Base, Typed
<1>2. full => queue # <<>> /\ Head(queue) \in Items /\ Head(queue) = queue[1]
              /\ at[Head(queue)] = "queued"
  BY <1>1 DEF IInv, Base, Typed, QueueInv
<1>3. at[i] = "new" /\ (full => Head(queue) # i)
  BY <1>1, <1>2 DEF IInv, Base, Typed, QueueInv
<1>4. /\ Len(items') = Len(items) + 1
      /\ \A j \in 1 .. Len(items) : items'[j] = items[j]
      /\ items' \in Seq([scope : Scopes, kind : Kinds])
  BY <1>1, AppendProperties DEF IInv, Base, Typed
<1>5. Base'
  BY EnqueueBase DEF IInv
<1>9. StartInv'
  <2> SUFFICES ASSUME NEW a \in Items, NEW b \in Items, a < b
               PROVE  /\ at'[a] = "queued" => at'[b] \in {"queued", "new"}
                      /\ at'[a] = "created" => at'[b] \notin Started
    BY DEF StartInv
  <2>1. ASSUME full, b = Head(queue) PROVE at'[a] # "queued"
    <3>1. \A m \in 1 .. Len(queue) : queue[1] <= queue[m]
      BY ONLY <1>queued
    <3>2. at[a] # "queued"
      <4>1. ~(at[a] = "queued" /\ a < queue[1])
        BY <1>queued, <3>1 DEF IInv, Base, QueueInv
      <4> QED BY <2>1, <4>1, <1>2
    <3>3. a # i
      BY <2>1, <1>2, <1>3 DEF IInv, Base, QueueInv, Typed
    <3> QED BY <3>2, <3>3, <1>1
  <2>2. a = i => at[b] = "new"
    BY <1>1 DEF IInv, Base, QueueInv, Typed
  <2>3. at'[a] = "queued" => at'[b] \in {"queued", "new"}
    BY <2>1, <2>2, <1>1, <1>2 DEF IInv, Base, StartInv
  <2>4. at'[a] = "created" => at'[b] \notin Started
    BY <1>1, <1>2 DEF IInv, Base, StartInv, Started, HoldingPlaces
  <2> QED BY <2>3, <2>4
<1>10. \A j \in Items : at'[j] \in Claimed =>
           at'[j] = at[j] /\ j \in 1 .. Len(items)
  BY <1>1, <1>3 DEF Claimed, Started, HoldingPlaces, IInv, Base, QueueInv, Typed
<1>11. LockInv'
  BY <1>1, <1>4, <1>10 DEF IInv, Base, LockInv
<1>12. ScopeOrder'
  <2> SUFFICES ASSUME NEW a \in Enqueued', NEW b \in Enqueued', a < b,
                      items'[a].scope = items'[b].scope, at'[b] \in HoldingPlaces
               PROVE  at'[a] \in Ended
    BY DEF ScopeOrder, SameScope, Holding, HoldingPlaces, Ended
  <2>1. a \in Items /\ b \in Items
    BY <1>1, <1>4 DEF Enqueued, IInv, Base, Typed
  <2>2. at[b] = at'[b] /\ b \in Enqueued /\ a \in Enqueued
    BY <2>1, <1>10, <1>4 DEF Claimed, Started, Enqueued, IInv, Base, Typed
  <2>3. at[a] \in Ended
    BY <2>2, <1>4 DEF IInv, Base, ScopeOrder, SameScope, Holding, HoldingPlaces,
                      Enqueued, Ended
  <2>4. a # i
    BY <2>2 DEF Enqueued, IInv, Base, Typed
  <2> QED BY <2>1, <2>3, <2>4, <1>1, <1>2 DEF Ended
<1> QED BY <1>5, <1>9, <1>11, <1>12 DEF IInv

LEMMA WorkerTakesBase ==
    ASSUME Base, WorkerTakes
    PROVE  Base'
<1> DEFINE i == Head(queue)
           s == items[i].scope
           l == IF table[s] = 0 THEN i ELSE table[s]
           t == [table EXCEPT ![s] = l]
<1>queued.
      /\ Len(queue) \in Nat /\ Len(items) \in Nat
      /\ \A m \in 1 .. Len(queue) :
           /\ queue[m] \in Items /\ queue[m] \in Nat
           /\ at[queue[m]] = "queued"
           /\ queue[m] \in 1 .. Len(items)
      /\ \A m, n \in 1 .. Len(queue) : m < n => queue[m] < queue[n]
  BY QueuedItems DEF IInv
<1> USE OutboundAssumption DEF Items
<1>1. /\ queue # <<>> /\ queue' = Tail(queue)
      /\ at' = [at EXCEPT ![i] = "created"]
      /\ lockOf' = [lockOf EXCEPT ![i] = l]
      /\ UNCHANGED items
  BY DEF WorkerTakes, Move
<1>2. /\ i \in Items /\ i = queue[1] /\ at[i] = "queued"
      /\ i \in 1 .. Len(items) /\ s \in Scopes
  <2>1. i \in Items /\ i = queue[1] /\ at[i] = "queued" /\ i \in 1 .. Len(items)
    BY <1>1, <1>queued DEF Base, Typed
  <2>2. items[i] \in [scope : Scopes, kind : Kinds]
    BY <2>1, ElementOfSeq DEF Base, Typed
  <2> QED BY <2>1, <2>2
<1>3. table' \in [Scopes -> Items \cup {0}]
  <2>1. t \in [Scopes -> Items \cup {0}]
    BY <1>2 DEF Base, Typed
  <2> QED BY <2>1 DEF WorkerTakes, Reap
<1>typed. queue' \in Seq(Items)
  BY <1>1, HeadTailProperties DEF Base, Typed
<1>5. /\ Len(queue') = Len(queue) - 1
      /\ \A m \in 1 .. Len(queue') : queue'[m] = queue[m + 1]
  BY <1>1, HeadTailProperties DEF Base, Typed
<1>6. l \in Items /\ l # 0
  BY <1>2 DEF Base, Typed
<1>7. Typed'
  BY <1>1, <1>2, <1>3, <1>typed, <1>6 DEF Base, Typed, Places
<1>8. QueueInv'
  <2>1. \A j \in Items : at'[j] = "new" <=> j > Len(items')
    BY <1>1, <1>2 DEF Base, Typed, QueueInv
  <2>2. \A m, n \in 1 .. Len(queue') : m < n => queue'[m] < queue'[n]
    <3>1. ASSUME NEW m \in 1 .. Len(queue'), NEW n \in 1 .. Len(queue'), m < n
          PROVE  /\ queue'[m] = queue[m + 1] /\ queue'[n] = queue[n + 1]
                 /\ m + 1 \in 1 .. Len(queue) /\ n + 1 \in 1 .. Len(queue)
                 /\ m + 1 < n + 1
      BY ONLY <3>1, <1>5, <1>queued
    <3>2. ASSUME NEW m \in 1 .. Len(queue'), NEW n \in 1 .. Len(queue'), m < n
          PROVE  queue'[m] < queue'[n]
      <4>1. queue[m + 1] < queue[n + 1]
        BY ONLY <3>1, <3>2, <1>queued
      <4> QED BY <4>1, <3>1, <3>2
    <3> QED BY ONLY <3>2
  <2>3. \A m \in 1 .. Len(queue') : queue'[m] # i /\ at'[queue'[m]] = "queued"
    <3>1. \A m \in 1 .. Len(queue') :
             /\ queue'[m] # i
             /\ queue'[m] \in Items /\ at[queue'[m]] = "queued"
      BY ONLY <1>2, <1>5, <1>queued
    <3> QED BY <3>1, <1>1 DEF Base, Typed
  <2>4. ASSUME NEW j \in Items, at'[j] = "queued"
        PROVE  \E m \in 1 .. Len(queue') : queue'[m] = j
    <3>1. j # i /\ at[j] = "queued"
      BY <2>4, <1>1, <1>2 DEF Base, Typed
    <3>2. PICK m \in 1 .. Len(queue) : queue[m] = j
      BY <3>1 DEF Base, QueueInv
    <3>3. m - 1 \in 1 .. Len(queue') /\ queue'[m - 1] = j
      BY ONLY <3>1, <3>2, <1>2, <1>5, <1>queued
    <3> QED BY <3>3
  <2> QED BY <2>1, <2>2, <2>3, <2>4 DEF QueueInv
<1> QED BY <1>7, <1>8 DEF Base

\* With few enough scopes no lock is reaped: the worker gives the item at the
\* head of the queue the lock of its scope.
LEMMA WorkerTakesKeeps ==
    ASSUME IsFiniteSet(Scopes), Cardinality(Scopes) <= ReapThreshold,
           IInv, WorkerTakes
    PROVE  IInv'
<1> DEFINE i == Head(queue)
           s == items[i].scope
           l == IF table[s] = 0 THEN i ELSE table[s]
           t == [table EXCEPT ![s] = l]
<1>queued.
      /\ Len(queue) \in Nat /\ Len(items) \in Nat
      /\ \A m \in 1 .. Len(queue) :
           /\ queue[m] \in Items /\ queue[m] \in Nat
           /\ at[queue[m]] = "queued"
           /\ queue[m] \in 1 .. Len(items)
      /\ \A m, n \in 1 .. Len(queue) : m < n => queue[m] < queue[n]
  BY QueuedItems DEF IInv
<1> USE OutboundAssumption DEF Items
<1>1. /\ queue # <<>> /\ queue' = Tail(queue)
      /\ at' = [at EXCEPT ![i] = "created"]
      /\ lockOf' = [lockOf EXCEPT ![i] = l]
      /\ UNCHANGED items
  BY DEF WorkerTakes, Move
<1>2. /\ i \in Items /\ i = queue[1] /\ at[i] = "queued"
      /\ i \in 1 .. Len(items) /\ s \in Scopes
  <2>1. i \in Items /\ i = queue[1] /\ at[i] = "queued" /\ i \in 1 .. Len(items)
    BY <1>1, <1>queued DEF IInv, Base, Typed
  <2>2. items[i] \in [scope : Scopes, kind : Kinds]
    BY <2>1, ElementOfSeq DEF IInv, Base, Typed
  <2> QED BY <2>1, <2>2
<1>3. Cardinality(Present(t)) <= ReapThreshold
  <2>1. Present(t) \subseteq Scopes
    BY DEF Present
  <2>2. /\ Cardinality(Present(t)) <= Cardinality(Scopes)
        /\ Cardinality(Present(t)) \in Nat /\ Cardinality(Scopes) \in Nat
    BY <2>1, FS_Subset, FS_CardinalityType
  <2> QED BY <2>2
<1>4. table' = t
  <2>1. Cardinality(Present(t)) \in Nat
    BY FS_Subset, FS_CardinalityType DEF Present
  <2>2. ~(Cardinality(Present(t)) > ReapThreshold)
    BY <1>3, <2>1
  <2> QED BY <2>2 DEF WorkerTakes
<1>6. l \in Items /\ l # 0
  BY <1>2 DEF IInv, Base, Typed
<1>7. Base'
  BY WorkerTakesBase DEF IInv
<1>9. StartInv'
  <2> SUFFICES ASSUME NEW a \in Items, NEW b \in Items, a < b
               PROVE  /\ at'[a] = "queued" => at'[b] \in {"queued", "new"}
                      /\ at'[a] = "created" => at'[b] \notin Started
    BY DEF StartInv
  <2>1. b = i => at[a] # "queued"
    <3>1. \A m \in 1 .. Len(queue) : queue[1] <= queue[m]
      BY ONLY <1>queued
    <3> QED BY <1>2, <1>queued, <3>1 DEF IInv, Base, QueueInv
  <2>2. a = i => at[b] \in {"queued", "new"}
    BY <1>2 DEF IInv, Base, StartInv
  <2> QED
    BY <2>1, <2>2, <1>1, <1>2 DEF IInv, Base, StartInv, Typed, Started, HoldingPlaces
<1>10. LockInv'
  <2> SUFFICES ASSUME NEW j \in Items, at'[j] \in Claimed
               PROVE  lockOf'[j] # 0 /\ lockOf'[j] = table'[items'[j].scope]
    BY DEF LockInv
  <2>1. CASE j = i
    BY <2>1, <1>1, <1>2, <1>4, <1>6 DEF IInv, Base, Typed
  <2>2. CASE j # i
    <3>1. at[j] \in Claimed /\ lockOf'[j] = lockOf[j]
      BY <2>2, <1>1 DEF IInv, Base, Typed
    <3>2. lockOf[j] # 0 /\ lockOf[j] = table[items[j].scope]
      BY <3>1 DEF IInv, Base, LockInv
    <3>3. items[j].scope \in Scopes
      <4>1. j \in 1 .. Len(items)
        BY <3>1 DEF IInv, Base, Typed, QueueInv, Claimed, Started, HoldingPlaces
      <4>2. items[j] \in [scope : Scopes, kind : Kinds]
        BY <4>1, ElementOfSeq DEF IInv, Base, Typed
      <4> QED BY <4>2
    <3> QED BY <3>1, <3>2, <3>3, <1>1, <1>2, <1>4 DEF IInv, Base, Typed
  <2> QED BY <2>1, <2>2
<1>11. ScopeOrder'
  BY <1>1, <1>2 DEF IInv, Base, Typed, ScopeOrder, SameScope, Holding, Enqueued
<1> QED BY <1>7, <1>9, <1>10, <1>11 DEF IInv

LEMMA NextKeeps ==
    ASSUME IsFiniteSet(Scopes), Cardinality(Scopes) <= ReapThreshold,
           IInv, [Next]_vars
    PROVE  IInv'
<1>1. ASSUME NEW s \in Scopes, NEW k \in Kinds, Enqueue(s, k) PROVE IInv'
  BY <1>1, EnqueueKeeps
<1>2. CASE WorkerTakes
  BY <1>2, WorkerTakesKeeps
<1>3. CASE Stop \/ RecoveryElapses \/ UNCHANGED vars
  BY <1>3, NothingMoves DEF Stop, RecoveryElapses, taskVars, vars
<1>4. ASSUME NEW i \in Enqueued, Task(i) \/ Supersede(i) PROVE IInv'
  <2>1. i \in Items
    BY OutboundAssumption DEF Enqueued, Items, IInv, Base, Typed
  <2>2. CASE Supersede(i)
    BY <2>2, NothingMoves DEF Supersede, taskVars
  <2>3. CASE DropItem(i)
    BY <2>1, <2>3, TaskMoves
       DEF DropItem, Places, Ended, Started, HoldingPlaces
  <2>4. CASE StartTask(i)
    <3>1. \A j \in Items : j < i => at[j] # "created"
      BY <2>1, <2>4 DEF StartTask, Items
    <3>2. at[i] = "created" /\ UNCHANGED <<items, queue, lockOf, table>>
      BY <2>4 DEF StartTask, Rest
    <3>3. CASE Move(i, "waiting")
      BY <2>1, <3>1, <3>2, <3>3, TaskMoves
         DEF Places, Ended, Started, HoldingPlaces
    <3>4. CASE ~Locked(lockOf[i]) /\ Waiters(lockOf[i]) = {} /\ Begin(i)
      BY <2>1, <3>1, <3>2, <3>4, BeginMoves
    <3> QED BY <2>4, <3>3, <3>4 DEF StartTask
  <2>5. CASE Acquire(i)
    <3>1. \A j \in Items : j < i => at[j] # "created"
      BY <2>1, <2>5 DEF Acquire, IInv, StartInv, Started
    <3> QED
      BY <2>1, <2>5, <3>1, BeginMoves DEF Acquire, Rest
  <2>6. CASE Retry(i)
    BY <2>6, NothingMoves DEF Retry
  <2>7. ASSUME NEW p \in {"delivered", "failed"},
               at[i] \in {"sending", "skipping"}, Move(i, p),
               UNCHANGED <<items, queue, lockOf, table>>
        PROVE  IInv'
    <3>1. \A j \in Items : j < i => at[j] # "created"
      BY <2>1, <2>7 DEF IInv, Base, StartInv, Started, HoldingPlaces
    <3>2. ASSUME NEW j \in Items, j < i, SameScope(j, i)
          PROVE  at[j] \in Ended
      <4>1. j \in Enqueued
        BY <3>2, <2>1 DEF Enqueued, Items, IInv, Base, Typed
      <4> QED BY <4>1, <3>2, <2>7 DEF IInv, Base, ScopeOrder, Holding, Ended
    <3> QED
      BY <2>1, <2>7, <3>1, <3>2, TaskMoves
         DEF Places, Ended, Started, HoldingPlaces
  <2>8. CASE SendOk(i) \/ SendFails(i)
    BY <2>7, <2>8 DEF SendOk, SendFails, Rest
  <2>10. CASE DrainRaises(i)
    BY <2>1, <2>10, TaskMoves
       DEF DrainRaises, Rest, Places, Ended, Started, HoldingPlaces
  <2>9. CASE Report(i) \/ ReportFailure(i)
    <3>1. /\ Move(i, "done") /\ UNCHANGED <<items, queue, lockOf, table>>
          /\ at[i] \notin {"new", "queued"}
      BY <2>9 DEF Report, ReportFailure
    <3> QED
      BY <2>1, <3>1, TaskMoves DEF Places, Ended, Started, HoldingPlaces
  <2> QED
    BY <1>4, <2>2, <2>3, <2>4, <2>5, <2>6, <2>8, <2>9, <2>10 DEF Task, Send
<1> QED BY <1>1, <1>2, <1>3, <1>4 DEF Next

\* Within a scope an item is dispatched only after every earlier item of it
\* ended, whatever the queue drops, the circuit refuses and the adapter does,
\* while _scope_locks never grows past _SCOPE_REAP_THRESHOLD.
THEOREM OrderedBelowThreshold ==
    ASSUME IsFiniteSet(Scopes), Cardinality(Scopes) <= ReapThreshold
    PROVE  Spec => []ScopeOrder
<1>1. Init => IInv
  BY InitInv
<1>2. IInv /\ [Next]_vars => IInv'
  BY NextKeeps
<1>3. IInv => ScopeOrder
  BY DEF IInv
<1> QED BY <1>1, <1>2, <1>3, PTL DEF Spec

(***************************************************************************)
(* Reports.  An item's callback fires with the step that ends it: a queued, *)
(* dropped or running item has not been reported, and no item ends twice.   *)
(***************************************************************************)
FiredInv ==
    /\ fired \in [Items -> Nat]
    /\ \A i \in Items :
         fired[i] = IF at[i] = "done" /\ HasCallback(i) THEN 1 ELSE 0

RInv == Base /\ FiredInv

LEMMA EnqueueReports ==
    ASSUME RInv, NEW s \in Scopes, NEW k \in Kinds, Enqueue(s, k)
    PROVE  RInv'
<1> DEFINE full == Len(queue) >= QueueSize
<1>1. Base'
  BY EnqueueBase DEF RInv
<1>2. full => at[Head(queue)] = "queued" /\ Head(queue) \in Items
  BY QueuedItems, OutboundAssumption DEF RInv, Base, Typed
<1>3. at[Len(items) + 1] = "new" /\ Len(items) + 1 \in Items
  BY OutboundAssumption DEF RInv, Base, Typed, QueueInv, Enqueue, Items
<1>4. fired' = fired
  BY DEF Enqueue
<1>5. ASSUME NEW i \in Items
      PROVE  fired'[i] = IF at'[i] = "done" /\ HasCallback(i)' THEN 1 ELSE 0
  <2>1. at'[i] = "done" <=> at[i] = "done"
    BY <1>2, <1>3 DEF Enqueue
  <2>2. at[i] = "done" => items'[i] = items[i]
    <3>1. at[i] = "done" => i \in 1 .. Len(items)
      BY OutboundAssumption DEF RInv, Base, Typed, QueueInv, Items
    <3> QED BY <3>1, AppendProperties DEF Enqueue, RInv, Base, Typed
  <2> QED BY <2>1, <2>2, <1>4 DEF RInv, FiredInv, HasCallback
<1> QED BY <1>1, <1>4, <1>5 DEF RInv, FiredInv

LEMMA WorkerTakesReports ==
    ASSUME RInv, WorkerTakes
    PROVE  RInv'
<1>1. Base'
  BY WorkerTakesBase DEF RInv
<1>2. at[Head(queue)] = "queued" /\ Head(queue) \in Items
  BY QueuedItems DEF WorkerTakes, RInv, Base, Typed
<1>3. fired' = fired /\ items' = items
      /\ at' = [at EXCEPT ![Head(queue)] = "created"]
  BY DEF WorkerTakes, Move
<1> QED
  BY <1>1, <1>2, <1>3 DEF RInv, Base, Typed, FiredInv, HasCallback

\* A task moves: the callback fires exactly when it ends.
LEMMA TaskReports ==
    ASSUME RInv, NEW i \in Items, NEW p \in Places \ {"new", "queued"},
           Move(i, p), UNCHANGED <<items, queue, lockOf, table>>,
           at[i] \notin {"new", "queued", "done"},
           IF p = "done" THEN Fire(i) ELSE UNCHANGED fired
    PROVE  RInv'
<1>1. Base'
  BY TaskMovesBase DEF RInv
<1>2. fired[i] = 0
  BY DEF RInv, FiredInv
<1>3. at' = [at EXCEPT ![i] = p]
  BY DEF Move
<1>4. CASE p = "done"
  <2>1. fired' = IF HasCallback(i) THEN [fired EXCEPT ![i] = @ + 1] ELSE fired
    BY <1>4 DEF Fire
  <2>2. fired' \in [Items -> Nat]
    BY <2>1, <1>2 DEF RInv, FiredInv
  <2>3. ASSUME NEW j \in Items
        PROVE  fired'[j] = IF at'[j] = "done" /\ HasCallback(j)' THEN 1 ELSE 0
    BY <2>1, <1>2, <1>3, <1>4 DEF RInv, Base, Typed, FiredInv, HasCallback
  <2> QED BY <1>1, <2>2, <2>3 DEF RInv, FiredInv
<1>5. CASE p # "done"
  BY <1>1, <1>2, <1>3, <1>5 DEF RInv, Base, Typed, FiredInv, HasCallback
<1> QED BY <1>4, <1>5

LEMMA NextReports ==
    ASSUME RInv, [Next]_vars
    PROVE  RInv'
<1>1. ASSUME NEW s \in Scopes, NEW k \in Kinds, Enqueue(s, k) PROVE RInv'
  BY <1>1, EnqueueReports
<1>2. CASE WorkerTakes
  BY <1>2, WorkerTakesReports
<1>3. ASSUME UNCHANGED <<items, queue, at, lockOf, table, fired>> PROVE RInv'
  BY <1>3 DEF RInv, Base, Typed, QueueInv, FiredInv, HasCallback
<1>4. CASE Stop \/ RecoveryElapses \/ UNCHANGED vars
  BY <1>3, <1>4 DEF Stop, RecoveryElapses, taskVars, vars
<1>5. ASSUME NEW i \in Enqueued, Task(i) \/ Supersede(i) PROVE RInv'
  <2>1. i \in Items
    BY OutboundAssumption DEF Enqueued, Items, RInv, Base, Typed
  <2>2. CASE Supersede(i) \/ Retry(i)
    BY <2>2, <1>3 DEF Supersede, Retry, taskVars
  <2>3. CASE DropItem(i) \/ Report(i) \/ ReportFailure(i)
    <3>1. /\ Move(i, "done") /\ Fire(i)
          /\ UNCHANGED <<items, queue, lockOf, table>>
          /\ at[i] \notin {"new", "queued", "done"}
      BY <2>3 DEF DropItem, Report, ReportFailure
    <3> QED BY <2>1, <3>1, TaskReports DEF Places
  <2>4. CASE StartTask(i) \/ Acquire(i)
    <3>1. PICK p \in {"waiting", "misrouted", "refused", "skipping", "sending"} :
            Move(i, p)
      BY <2>4 DEF StartTask, Acquire, Begin
    <3>2. /\ UNCHANGED <<items, queue, lockOf, table, fired>>
          /\ at[i] \notin {"new", "queued", "done"}
      BY <2>4 DEF StartTask, Acquire, Rest
    <3> QED BY <2>1, <3>1, <3>2, TaskReports DEF Places
  <2>5. CASE SendOk(i) \/ SendFails(i)
    <3>1. PICK p \in {"delivered", "failed"} : Move(i, p)
      BY <2>5 DEF SendOk, SendFails
    <3>2. /\ UNCHANGED <<items, queue, lockOf, table, fired>>
          /\ at[i] \notin {"new", "queued", "done"}
      BY <2>5 DEF SendOk, SendFails, Rest
    <3> QED BY <2>1, <3>1, <3>2, TaskReports DEF Places
  <2>6. CASE DrainRaises(i)
    BY <2>1, <2>6, TaskReports DEF DrainRaises, Rest, Places
  <2> QED BY <1>5, <2>2, <2>3, <2>4, <2>5, <2>6 DEF Task, Send
<1> QED BY <1>1, <1>2, <1>4, <1>5 DEF Next

\* However an item ends, delivered, skipped, refused, failed or dropped from
\* the full queue, and whatever stop() and retries do in between, its callback
\* fires exactly once; only a misrouted item, and a dropped or refused stream
\* whose iterator raised while it was drained, end without it.
THEOREM ReportsOnce == Spec => []ReportedOnce
<1>1. Init => RInv
  BY OutboundAssumption
     DEF Init, RInv, Base, Typed, QueueInv, FiredInv, Items, Places
<1>2. RInv /\ [Next]_vars => RInv'
  BY NextReports
<1>3. RInv => ReportedOnce
  BY OutboundAssumption
     DEF RInv, Base, Typed, FiredInv, ReportedOnce, Enqueued, Items
<1> QED BY <1>1, <1>2, <1>3, PTL DEF Spec
=============================================================================

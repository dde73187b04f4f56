------------------------- MODULE OutboundDispatcher -------------------------
(***************************************************************************)
(* The outbound dispatcher of one platform bot: a bounded drop-oldest queue, *)
(* a worker that turns each item into a task, a lock per scope that those    *)
(* tasks take, delivery with retries behind the platform's circuit breaker,  *)
(* and the _on_dispatched callback that tells the pool how the item ended.   *)
(*                                                                         *)
(* One action is what a task runs between two suspension points; draining    *)
(* an iterator, which may raise, belongs to the step it precedes, sending a  *)
(* notice to the step it follows.                                           *)
(* A lock is named after the item whose arrival created it.                  *)
(* A definition A_Word is a deliberate fault in A, used to show that the    *)
(* properties notice it; no specification uses it.                          *)
(***************************************************************************)
EXTENDS CircuitBreaker, Sequences, FiniteSets

CONSTANTS
    Scopes,
    MaxItems,       \* bound: items enqueued
    QueueSize,      \* OUTBOUND_QUEUE_MAXSIZE
    ReapThreshold,  \* _SCOPE_REAP_THRESHOLD
    MaxAttempts,    \* _MAX_ATTEMPTS
    Supersedes,     \* the pool may mark a streaming item _superseded
    Raises,         \* the _on_dispatched callback and a drained iterator may raise
    Stops           \* stop() may be called

ASSUME OutboundAssumption ==
    /\ MaxItems \in Nat /\ QueueSize \in Nat \ {0}
    /\ ReapThreshold \in Nat /\ MaxAttempts \in Nat \ {0}
    /\ Supersedes \in BOOLEAN /\ Raises \in BOOLEAN /\ Stops \in BOOLEAN

Items == 1 .. MaxItems
\* "media": audio, audio_stream, voice_stream and attachment, which carry no
\* OutboundMessage and hence no callback.
Kinds == {"send", "streaming", "media"}

VARIABLES
    items,       \* scope and kind of every item enqueued so far
    queue,       \* _queue
    at,          \* where each item is
    lockOf,      \* the lock its task was given
    table,       \* _scope_locks: lock of each scope, 0 if absent
    attempt,     \* retries of each item
    fired,       \* how often each item's callback was fired
    superseded,  \* items whose outbound is marked _superseded, until their task
                 \* is dispatched: the mark is read there and nowhere else
    running,     \* the worker task exists
    leaked       \* history: an item ended without telling the circuit while
                 \* the probe slot was taken

taskVars == <<items, queue, at, lockOf, table, attempt, fired>>
vars == <<cbVars, taskVars, superseded, running, leaked>>

Places == {"new", "queued", "dropped", "created", "waiting", "refused",
           "skipping", "sending", "delivered", "failed", "done", "misrouted",
           "unreported"}

\* Type invariant.
TypeOK ==
    /\ CBTypeOK
    /\ items \in Seq([scope : Scopes, kind : Kinds]) /\ Len(items) <= MaxItems
    /\ queue \in Seq(Items) /\ Len(queue) <= QueueSize
    /\ at \in [Items -> Places]
    /\ lockOf \in [Items -> Items \cup {0}]
    /\ table \in [Scopes -> Items \cup {0}]
    /\ attempt \in [Items -> 0 .. MaxAttempts - 1]
    /\ fired \in [Items -> Nat]
    /\ superseded \in SUBSET Items
    /\ running \in BOOLEAN /\ leaked \in BOOLEAN

Init ==
    /\ CBInit
    /\ items = <<>> /\ queue = <<>>
    /\ at = [i \in Items |-> "new"]
    /\ lockOf = [i \in Items |-> 0]
    /\ table = [s \in Scopes |-> 0]
    /\ attempt = [i \in Items |-> 0]
    /\ fired = [i \in Items |-> 0]
    /\ superseded = {} /\ running = TRUE /\ leaked = FALSE

Enqueued == 1 .. Len(items)
SameScope(i, j) == items[i].scope = items[j].scope
HasCallback(i) == items[i].kind # "media"
Holding(i) == at[i] \in {"refused", "skipping", "sending", "delivered", "failed"}
Locked(l) == \E i \in Items : Holding(i) /\ lockOf[i] = l
Waiters(l) == {i \in Items : at[i] = "waiting" /\ lockOf[i] = l}
Streaming(i) == items[i].kind = "streaming"
Move(i, p) == at' = [at EXCEPT ![i] = p]
Fire(i) == fired' = IF HasCallback(i) THEN [fired EXCEPT ![i] = @ + 1] ELSE fired

(***************************************************************************)
(* The callers: enqueue*, the pool's supersession, stop().                  *)
(***************************************************************************)
\* Fault: a full queue turns the new item away instead of dropping the oldest.
Enqueue_DropsNewest(s, k) ==
    /\ Len(items) < MaxItems
    /\ LET i == Len(items) + 1
       IN  /\ items' = Append(items, [scope |-> s, kind |-> k])
           /\ queue' = IF Len(queue) < QueueSize THEN Append(queue, i) ELSE queue
           /\ Move(i, "queued")
    /\ UNCHANGED <<cbVars, lockOf, table, attempt, fired, superseded, running,
                   leaked>>

\* Fault: the dropped item is forgotten, without cleanup.
Enqueue_NoCleanup(s, k) ==
    /\ Len(items) < MaxItems
    /\ LET i == Len(items) + 1
           full == Len(queue) >= QueueSize
       IN  /\ items' = Append(items, [scope |-> s, kind |-> k])
           /\ queue' = Append(IF full THEN Tail(queue) ELSE queue, i)
           /\ at' = [j \in Items |->
                        IF full /\ j = Head(queue) THEN "done"
                        ELSE IF j = i THEN "queued" ELSE at[j]]
    /\ UNCHANGED <<cbVars, lockOf, table, attempt, fired, superseded, running,
                   leaked>>

Enqueue(s, k) ==
    /\ Len(items) < MaxItems
    /\ LET i == Len(items) + 1
           full == Len(queue) >= QueueSize
       IN  /\ items' = Append(items, [scope |-> s, kind |-> k])
           /\ queue' = Append(IF full THEN Tail(queue) ELSE queue, i)
           /\ at' = [j \in Items |->
                        IF full /\ j = Head(queue) THEN "dropped"
                        ELSE IF j = i THEN "queued" ELSE at[j]]
    /\ UNCHANGED <<cbVars, lockOf, table, attempt, fired, superseded, running,
                   leaked>>

\* _drop_item_async, a task of its own.
DropItem(i) ==
    /\ at[i] = "dropped"
    /\ Move(i, "done")
    /\ Fire(i)
    /\ UNCHANGED <<cbVars, items, queue, lockOf, table, attempt, superseded,
                   running, leaked>>

\* pool._inflight_stream_outbound is cleared by the callback.
Supersede(i) ==
    /\ Supersedes
    /\ at[i] \in {"queued", "created", "waiting"}
    /\ Streaming(i) /\ fired[i] = 0
    /\ superseded' = superseded \cup {i}
    /\ UNCHANGED <<cbVars, taskVars, running, leaked>>

Stop ==
    /\ Stops /\ running
    /\ running' = FALSE
    /\ UNCHANGED <<cbVars, taskVars, superseded, leaked>>

(***************************************************************************)
(* _worker_loop: queue to task, with the scope's lock.                      *)
(***************************************************************************)
Reap(t) == [s \in Scopes |-> IF t[s] # 0 /\ Locked(t[s]) THEN t[s] ELSE 0]
Present(t) == {s \in Scopes : t[s] # 0}

\* Fault: every item gets a lock of its own.
WorkerTakes_FreshLock ==
    /\ running /\ queue # <<>>
    /\ LET i == Head(queue)
       IN  /\ Move(i, "created")
           /\ lockOf' = [lockOf EXCEPT ![i] = i]
           /\ table' = [table EXCEPT ![items[i].scope] = i]
    /\ queue' = Tail(queue)
    /\ UNCHANGED <<cbVars, items, attempt, fired, superseded, running,
                   leaked>>

WorkerTakes ==
    /\ running /\ queue # <<>>
    /\ LET i == Head(queue)
           s == items[i].scope
           l == IF table[s] = 0 THEN i ELSE table[s]
           t == [table EXCEPT ![s] = l]
       IN  /\ Move(i, "created")
           /\ lockOf' = [lockOf EXCEPT ![i] = l]
           /\ table' = IF Cardinality(Present(t)) > ReapThreshold
                       THEN Reap(t) ELSE t
    /\ queue' = Tail(queue)
    /\ UNCHANGED <<cbVars, items, attempt, fired, superseded, running,
                   leaked>>

(***************************************************************************)
(* _process_locked: asyncio.Lock is fair, tasks start in creation order.    *)
(***************************************************************************)
\* dispatch_outbound_item up to its first suspension.
Begin(i) ==
    \/ Move(i, "misrouted") /\ UNCHANGED cbVars
    \/ Reject /\ Move(i, "refused")
    \/ Admit /\ Move(i, IF i \in superseded THEN "skipping" ELSE "sending")

Rest == <<items, queue, lockOf, table, attempt, fired, running, leaked>>

StartTask(i) ==
    /\ at[i] = "created" /\ \A j \in 1 .. i - 1 : at[j] # "created"
    /\ \/ /\ ~Locked(lockOf[i]) /\ Waiters(lockOf[i]) = {}
          /\ Begin(i)
          /\ superseded' = superseded \ {i}
       \/ /\ Locked(lockOf[i]) \/ Waiters(lockOf[i]) # {}
          /\ Move(i, "waiting")
          /\ UNCHANGED <<cbVars, superseded>>
    /\ UNCHANGED Rest

Acquire(i) ==
    /\ at[i] = "waiting" /\ ~Locked(lockOf[i])
    /\ \A j \in Waiters(lockOf[i]) : i <= j
    /\ Begin(i)
    /\ superseded' = superseded \ {i}
    /\ UNCHANGED Rest

(***************************************************************************)
(* _send_with_retry and _handle_post_send.                                  *)
(***************************************************************************)
\* Fault: a delivered streaming probe does not report to the circuit.
SendOk_Unrecorded(i) ==
    /\ at[i] = "sending"
    /\ Move(i, "delivered")
    /\ UNCHANGED <<cbVars, Rest, superseded>>

SendOk(i) ==
    /\ at[i] = "sending"
    /\ RecordSuccess
    /\ Move(i, "delivered")
    /\ UNCHANGED <<Rest, superseded>>

\* A transient error of a "send" item; an iterator cannot be replayed.
Retry(i) ==
    /\ at[i] = "sending" /\ items[i].kind = "send"
    /\ attempt[i] + 1 < MaxAttempts
    /\ attempt' = [attempt EXCEPT ![i] = @ + 1]
    /\ UNCHANGED <<cbVars, items, queue, at, lockOf, table, fired, superseded,
                   running, leaked>>

\* An error of the adapter, or of the iterator a superseded item drains: the
\* drain runs inside the try of _send_with_retry.
SendFails(i) ==
    /\ \/ at[i] = "sending"
       \/ Raises /\ at[i] = "skipping"
    /\ Move(i, "failed")
    /\ UNCHANGED <<cbVars, Rest, superseded>>

\* Delivered, skipped, or refused by the open circuit.
Report(i) ==
    /\ at[i] \in {"delivered", "skipping", "refused"}
    /\ Move(i, "done")
    /\ Fire(i)
    /\ leaked' = (leaked \/ (at[i] = "skipping" /\ probe))
    /\ UNCHANGED <<cbVars, items, queue, lockOf, table, attempt, superseded,
                   running>>

\* A dropped or refused item's iterator is drained before its callback: when
\* that raises, as the iterator of a failed turn does, the callback is never
\* called.  Without a callback it makes no difference.
DrainRaises(i) ==
    /\ Raises /\ Streaming(i)
    /\ at[i] \in {"dropped", "refused"}
    /\ Move(i, "unreported")
    /\ UNCHANGED <<cbVars, Rest, superseded>>

\* The callback, then record_failure, then the error notice to the user; when
\* the callback raises, neither of the two happens.
ReportFailure(i) ==
    /\ at[i] = "failed"
    /\ Move(i, "done")
    /\ Fire(i)
    /\ \/ RecordFailure /\ UNCHANGED leaked
       \/ /\ Raises /\ HasCallback(i)
          /\ leaked' = (leaked \/ probe)
          /\ UNCHANGED cbVars
    /\ UNCHANGED <<items, queue, lockOf, table, attempt, superseded, running>>

Send(i) == SendOk(i) \/ Retry(i) \/ SendFails(i)
Task(i) ==
    \/ DropItem(i) \/ StartTask(i) \/ Acquire(i) \/ Send(i)
    \/ Report(i) \/ DrainRaises(i) \/ ReportFailure(i)

RecoveryElapses ==
    Elapse /\ UNCHANGED <<taskVars, superseded, running, leaked>>

Next ==
    \/ \E s \in Scopes, k \in Kinds : Enqueue(s, k)
    \/ Stop \/ WorkerTakes \/ RecoveryElapses
    \/ \E i \in Enqueued : Task(i) \/ Supersede(i)

(***************************************************************************)
(* The event loop runs every ready task; an adapter call ends.              *)
(***************************************************************************)
Fairness ==
    /\ WF_vars(WorkerTakes)
    /\ \A i \in Items : WF_vars(i \in Enqueued /\ Task(i))

Spec == Init /\ [][Next]_vars
FairSpec == Spec /\ Fairness

(***************************************************************************)
(* Properties.                                                              *)
(***************************************************************************)
\* workers-tooling.md: "tasks within the same scope are ordered": an item is
\* dispatched only once every earlier item of its scope ended or was dropped.
ScopeOrder ==
    \A i, j \in Enqueued :
        i < j /\ SameScope(i, j) /\ Holding(j)
            => at[i] \in {"dropped", "done", "misrouted", "unreported"}

\* The pool hears exactly once, by the callback, how each of its items ended,
\* be it delivered, skipped, refused, failed or dropped from the full queue;
\* except that it never hears of an item that was misrouted, nor of a dropped
\* or refused stream whose iterator raised while it was drained (unreported).
ReportedOnce ==
    \A i \in Enqueued :
        /\ fired[i] <= 1
        /\ at[i] = "done" /\ HasCallback(i) => fired[i] = 1

\* Every enqueued item ends, unless stop() is called.
EveryItemEnds ==
    \A i \in Items :
        at[i] = "queued" ~> (at[i] \in {"done", "misrouted", "unreported"} \/ ~running)

\* The platform's circuit does not stay HALF_OPEN with its probe slot taken,
\* unless an item that may hold the slot was skipped after the circuit let it
\* through, or its callback raised.
HalfOpenEnds ==
    state = "HALF_OPEN" ~> (state # "HALF_OPEN" \/ ~probe \/ leaked)
=============================================================================

------------------------------ MODULE OmpPool ------------------------------
(***************************************************************************)
(* The pool of omp workers and the jobs that run on it                     *)
(* (src/src/factory/adapters/omp/omp_pool.py, omp_worker.py,               *)
(* _rpc_bridge.py).                                                        *)
(*                                                                         *)
(* A semaphore of Cap slots bounds the jobs at work; a job takes the       *)
(* worker released last from the free list or starts one, replaces a       *)
(* worker that was started with another system prompt, selects its         *)
(* session, runs its prompt, publishes one result and gives the worker     *)
(* back.  Every call of the omp client runs in a thread, so other jobs go  *)
(* on meanwhile; a job is at the label of the call it waits for.  Jobs are  *)
(* numbered as they arrive; the worker started for job j and the session   *)
(* a client creates for it are named j.                                    *)
(*                                                                         *)
(* Shutdown (cancelling the jobs, aclose) is left out.                     *)
(* Bounds: MaxJobs; MaxFaults, on crashes, cancels and calls that fail.    *)
(* A definition A_Word is a deliberate fault in A.                         *)
(***************************************************************************)
EXTENDS Integers, Sequences, FiniteSets

CONSTANTS
  Cap,         \* OMP_POOL_CAP
  MaxJobs,     \* jobs of the run
  Prompts,     \* system prompts
  Sessions,    \* sessions the hub may ask to resume
  None,        \* no worker, no session
  MaxFaults    \* crashes, cancels and failing calls

ASSUME OmpPoolAssumption ==
  /\ Cap \in Nat \ {0}
  /\ MaxJobs \in Nat
  /\ None \notin Nat \cup Prompts \cup Sessions
  /\ MaxFaults \in Nat

Jobs == 1 .. MaxJobs
Workers == Jobs

VARIABLES
  sem,      \* OmpPool._sem: slots left
  queue,    \* jobs waiting for a slot, in order
  free,     \* OmpPool._free, the last one released at the end
  all,      \* OmpPool._all
  out,      \* OmpPool._checked_out
  up,       \* workers whose client process runs
  prompt,   \* _PoolWorker.system_prompt
  sess,     \* _PoolWorker.session_file
  pc,       \* where the task of a job is
  want,     \* the system prompt of a job
  ask,      \* the session of a job, None for a new one
  has,      \* the worker a job holds
  fresh,    \* was the worker respawned for this job's prompt?
  results,  \* JobResults published for a job
  dying,    \* workers a cancel is about to stop
  strays,   \* history: workers a failing call of the client left running
  faults

vars == <<sem, queue, free, all, out, up, prompt, sess, pc, want, ask,
          has, fresh, results, dying, strays, faults>>

Init ==
  /\ sem = Cap
  /\ queue = << >> /\ free = << >>
  /\ all = {} /\ out = {} /\ up = {}
  /\ prompt = [w \in Workers |-> None]
  /\ sess = [w \in Workers |-> None]
  /\ pc = [j \in Jobs |-> "idle"]
  /\ want = [j \in Jobs |-> None]
  /\ ask = [j \in Jobs |-> None]
  /\ has = [j \in Jobs |-> None]
  /\ fresh = [j \in Jobs |-> FALSE]
  /\ results = [j \in Jobs |-> 0]
  /\ dying = {} /\ strays = {}
  /\ faults = 0

Fault == faults < MaxFaults /\ faults' = faults + 1
Goto(j, l) == pc' = [pc EXCEPT ![j] = l]

\* The labels of a job that holds a slot, and of one with a worker in
\* _checked_out.
Holding == {"granted", "disposing", "starting", "selecting", "running",
            "closing", "failing"}
Using   == {"selecting", "running", "closing", "failing"}
Holders == {j \in Jobs : pc[j] \in Holding}
Last(s)  == s[Len(s)]
Front(s) == SubSeq(s, 1, Len(s) - 1)

\* asyncio.Semaphore.release by the task of j, which ends: the slot goes to
\* the first waiter if there is one, the task's locals are gone.
EndAndReleaseSlot(j) ==
  /\ IF queue = << >>
       THEN /\ sem' = sem + 1
            /\ pc' = [pc EXCEPT ![j] = "done"]
            /\ UNCHANGED queue
       ELSE /\ queue' = Tail(queue)
            /\ pc' = [pc EXCEPT ![j] = "done", ![Head(queue)] = "granted"]
            /\ UNCHANGED sem
  /\ want' = [want EXCEPT ![j] = None]
  /\ ask' = [ask EXCEPT ![j] = None]
  /\ fresh' = [fresh EXCEPT ![j] = FALSE]
  /\ has' = [has EXCEPT ![j] = None]

\* OmpWorker.handle and the semaphore.
Arrive(j, p, s) ==
  /\ pc[j] = "idle"
  /\ \A k \in Jobs : k < j => pc[k] # "idle"
  /\ want' = [want EXCEPT ![j] = p]
  /\ ask' = [ask EXCEPT ![j] = s]
  /\ IF sem > 0
       THEN sem' = sem - 1 /\ Goto(j, "granted") /\ UNCHANGED queue
       ELSE queue' = Append(queue, j) /\ Goto(j, "waiting") /\ UNCHANGED sem
  /\ UNCHANGED <<free, all, out, up, prompt, sess, has, fresh, results,
                 dying, strays, faults>>

\* acquire with a slot: no free worker, one with another prompt, or one that
\* fits.
TakeNone(j) ==
  /\ pc[j] = "granted" /\ free = << >>
  /\ Goto(j, "starting")
  /\ UNCHANGED <<sem, queue, free, all, out, up, prompt, sess, want,
                 ask, has, fresh, results, dying, strays,
                 faults>>

TakeOther(j) ==
  LET w == Last(free) IN
  /\ pc[j] = "granted" /\ free # << >>
  /\ prompt[w] # want[j]
  /\ free' = Front(free)
  /\ all' = all \ {w}
  /\ has' = [has EXCEPT ![j] = w]
  /\ fresh' = [fresh EXCEPT ![j] = TRUE]
  /\ Goto(j, "disposing")
  /\ UNCHANGED <<sem, queue, out, up, prompt, sess, want, ask, results,
                 dying, strays, faults>>

\* Fault: the worker is looked at, not popped.
TakeFit_Peeks(j) ==
  LET w == Last(free) IN
  /\ pc[j] = "granted" /\ free # << >>
  /\ prompt[w] = want[j]
  /\ out' = out \cup {w}
  /\ has' = [has EXCEPT ![j] = w]
  /\ Goto(j, "selecting")
  /\ UNCHANGED <<sem, queue, free, all, up, prompt, sess, want, ask, fresh,
                 results, dying, strays, faults>>

TakeFit(j) ==
  LET w == Last(free) IN
  /\ pc[j] = "granted" /\ free # << >>
  /\ prompt[w] = want[j]
  /\ free' = Front(free)
  /\ out' = out \cup {w}
  /\ has' = [has EXCEPT ![j] = w]
  /\ Goto(j, "selecting")
  /\ UNCHANGED <<sem, queue, all, up, prompt, sess, want, ask, fresh,
                 results, dying, strays, faults>>

\* Fault: the worker is forgotten without client.stop.
Disposed_Running(j) ==
  /\ pc[j] = "disposing"
  /\ prompt' = [prompt EXCEPT ![has[j]] = None]
  /\ sess' = [sess EXCEPT ![has[j]] = None]
  /\ has' = [has EXCEPT ![j] = None]
  /\ Goto(j, "starting")
  /\ UNCHANGED <<sem, queue, free, all, out, up, want, ask, fresh, results, dying, strays, faults>>

\* client.stop raised in place of stopping: the process may go on.
StopRaises(w) == Fault /\ strays' = strays \cup {w} /\ UNCHANGED up

\* _dispose_worker: the old client has stopped, or an OSError or RuntimeError
\* of its stop was swallowed.  The pool has forgotten the worker already.
Disposed(j) ==
  /\ pc[j] = "disposing"
  /\ \/ up' = up \ {has[j]} /\ UNCHANGED <<strays, faults>>
     \/ StopRaises(has[j])
  /\ prompt' = [prompt EXCEPT ![has[j]] = None]
  /\ sess' = [sess EXCEPT ![has[j]] = None]
  /\ has' = [has EXCEPT ![j] = None]
  /\ Goto(j, "starting")
  /\ UNCHANGED <<sem, queue, free, all, out, want, ask, fresh, results, dying>>

\* Any other error of stop ends acquire and frees the slot.
DisposeFails(j) ==
  /\ pc[j] = "disposing"
  /\ StopRaises(has[j])
  /\ prompt' = [prompt EXCEPT ![has[j]] = None]
  /\ sess' = [sess EXCEPT ![has[j]] = None]
  /\ EndAndReleaseSlot(j)
  /\ results' = [results EXCEPT ![j] = @ + 1]
  /\ UNCHANGED <<free, all, out, dying>>

\* _start_worker: a new client, or an error that frees the slot.
Started(j) ==
  /\ pc[j] = "starting"
  /\ all' = all \cup {j}
  /\ out' = out \cup {j}
  /\ up' = up \cup {j}
  /\ prompt' = [prompt EXCEPT ![j] = want[j]]
  /\ has' = [has EXCEPT ![j] = j]
  /\ Goto(j, "selecting")
  /\ UNCHANGED <<sem, queue, free, sess, want, ask, fresh, results, dying, strays, faults>>

\* Fault: an error in _start_worker keeps the slot.
StartFails_LeaksSlot(j) ==
  /\ pc[j] = "starting"
  /\ Fault
  /\ Goto(j, "done")
  /\ results' = [results EXCEPT ![j] = @ + 1]
  /\ UNCHANGED <<sem, queue, free, all, out, up, prompt, sess, want, ask, has,
                 fresh, dying, strays>>

\* No client was started, or one that is stopped again, which may raise.
StartFails(j) ==
  /\ pc[j] = "starting"
  /\ Fault
  /\ \/ UNCHANGED <<up, strays>>
     \/ up' = up \cup {j} /\ strays' = strays \cup {j}
  /\ EndAndReleaseSlot(j)
  /\ results' = [results EXCEPT ![j] = @ + 1]
  /\ UNCHANGED <<free, all, out, prompt, sess, dying>>

\* Fault: new_session is only called on a worker that has no session.
Selected_NoNewSession(j) ==
  LET w == has[j] IN
  /\ pc[j] = "selecting" /\ w \in up
  /\ sess' = [sess EXCEPT ![w] = IF fresh[j] \/ @ = None THEN j
                                 ELSE IF ask[j] = None THEN @ ELSE ask[j]]
  /\ Goto(j, "running")
  /\ UNCHANGED <<sem, queue, free, all, out, up, prompt, want, ask, has,
                 fresh, results, dying, strays, faults>>

\* acquire: switch_session, or new_session when none was asked for or the
\* worker is new for its prompt.
Selected(j) ==
  LET w == has[j] IN
  /\ pc[j] = "selecting" /\ w \in up
  /\ sess' = [sess EXCEPT ![w] = IF fresh[j] \/ ask[j] = None
                                   THEN j ELSE ask[j]]
  /\ Goto(j, "running")
  /\ UNCHANGED <<sem, queue, free, all, out, up, prompt, want, ask, has,
                 fresh, results, dying, strays, faults>>

\* The call fails, always so on a client that is not running: the slot is
\* freed, the worker stays in _all and is never taken again.
SelectFails(j) ==
  LET w == has[j] IN
  /\ pc[j] = "selecting"
  /\ IF w \in up THEN Fault /\ strays' = strays \cup {w}
                 ELSE UNCHANGED <<strays, faults>>
  /\ out' = out \ {w}
  /\ prompt' = [prompt EXCEPT ![w] = None]
  /\ sess' = [sess EXCEPT ![w] = None]
  /\ EndAndReleaseSlot(j)
  /\ results' = [results EXCEPT ![j] = @ + 1]
  /\ UNCHANGED <<free, all, up, dying>>

\* RpcBridge.run: prompt_and_wait returned and the outcome was published.
PromptDone(j) ==
  /\ pc[j] = "running" /\ has[j] \in up
  /\ results' = [results EXCEPT ![j] = @ + 1]
  /\ Goto(j, "closing")
  /\ UNCHANGED <<sem, queue, free, all, out, up, prompt, sess, want,
                 ask, has, fresh, dying, strays, faults>>

\* prompt_and_wait raised: the client stopped or gave up.
PromptFails(j) ==
  /\ pc[j] = "running"
  /\ IF has[j] \in up THEN Fault ELSE UNCHANGED faults
  /\ Goto(j, "failing")
  /\ UNCHANGED <<sem, queue, free, all, out, up, prompt, sess, want,
                 ask, has, fresh, results, dying, strays>>

\* The steer subscription could not be removed: _run_job publishes an error
\* although the outcome was published.
CloseFails(j) ==
  /\ pc[j] = "closing"
  /\ Fault
  /\ Goto(j, "failing")
  /\ UNCHANGED <<sem, queue, free, all, out, up, prompt, sess, want,
                 ask, has, fresh, results, dying, strays>>

\* OmpPool.release and the end of _run_job, after publish_job_error when the
\* job failed.
Release(j) ==
  LET w == has[j] IN
  /\ pc[j] \in {"closing", "failing"}
  /\ out' = out \ {w}
  /\ free' = Append(free, w)
  /\ EndAndReleaseSlot(j)
  /\ results' = [results EXCEPT ![j] = IF pc[j] = "failing" THEN @ + 1 ELSE @]
  /\ UNCHANGED <<all, up, prompt, sess, dying, strays,
                 faults>>

---------------------------------------------------------------------------
(* The client processes (external) and the cancel token.                   *)

Crash(w) ==
  /\ w \in up
  /\ Fault
  /\ up' = up \ {w}
  /\ UNCHANGED <<sem, queue, free, all, out, prompt, sess, pc, want,
                 ask, has, fresh, results, dying, strays>>

\* _handle_steer_msg: the token is seen while the prompt runs, the client is
\* stopped in a thread afterwards.
CancelSeen(j) ==
  /\ pc[j] = "running" /\ has[j] \notin dying
  /\ Fault
  /\ dying' = dying \cup {has[j]}
  /\ UNCHANGED <<sem, queue, free, all, out, up, prompt, sess, pc, want,
                 ask, has, fresh, results, strays>>

\* The client has stopped, or its stop raised in the NATS callback.
CancelStops(w) ==
  /\ w \in dying
  /\ dying' = dying \ {w}
  /\ \/ up' = up \ {w} /\ UNCHANGED faults
     \/ w \in up /\ Fault /\ UNCHANGED up
  /\ UNCHANGED <<sem, queue, free, all, out, prompt, sess, pc, want,
                 ask, has, fresh, results, strays>>

JobStep(j) ==
  \/ TakeNone(j) \/ TakeOther(j) \/ TakeFit(j) \/ Disposed(j)
  \/ DisposeFails(j) \/ Started(j) \/ StartFails(j) \/ Selected(j) \/ SelectFails(j)
  \/ PromptDone(j) \/ PromptFails(j) \/ CloseFails(j) \/ Release(j)

Next ==
  \/ \E j \in Jobs, p \in Prompts, s \in Sessions \cup {None} : Arrive(j, p, s)
  \/ \E j \in Jobs : JobStep(j) \/ CancelSeen(j)
  \/ \E w \in Workers : Crash(w) \/ CancelStops(w)

Spec == Init /\ [][Next]_vars

\* Every call of the client returns or raises (request_timeout), and a thread
\* that was started runs.
FairSpec == /\ Spec
            /\ \A j \in Jobs : WF_vars(JobStep(j))
            /\ \A w \in Workers : WF_vars(CancelStops(w))

---------------------------------------------------------------------------
(* Properties.                                                             *)

Ran == {"running", "closing", "failing"}

TypeOK ==
  /\ sem \in 0 .. Cap /\ queue \in Seq(Jobs) /\ free \in Seq(Workers)
  /\ all \subseteq Workers /\ out \subseteq Workers
  /\ up \subseteq Workers /\ dying \subseteq Workers
  /\ prompt \in [Workers -> Prompts \cup {None}]
  /\ sess \in [Workers -> Sessions \cup Jobs \cup {None}]
  /\ pc \in [Jobs -> Holding \cup {"idle", "waiting", "done"}]
  /\ want \in [Jobs -> Prompts \cup {None}]
  /\ ask \in [Jobs -> Sessions \cup {None}]
  /\ has \in [Jobs -> Workers \cup {None}]
  /\ fresh \in [Jobs -> BOOLEAN]
  /\ results \in [Jobs -> 0 .. 2]
  /\ strays \subseteq Workers /\ faults \in Nat

\* No slot leaks and none is released twice, on any path out of a job: start
\* or selection fails, prompt raises, a cancel stops the client
\* (OmpPool.acquire, release).
SlotsAccounted == sem + Cardinality(Holders) = Cap

\* A worker serves one job at a time and is never free while it does: it is
\* held by one job, or once in the free list, or in neither
\* (OmpPool._checked_out and _free).
NoSharedWorker ==
  /\ \A j, k \in Jobs : pc[j] \in Using /\ pc[k] \in Using /\ j # k
                          => has[j] # has[k]
  /\ \A j \in Jobs : pc[j] \in Using =>
       /\ has[j] \in out
       /\ \A i \in DOMAIN free : free[i] # has[j]
  /\ \A i, k \in DOMAIN free : free[i] = free[k] => i = k

\* A prompt runs in its own conversation, under its own system prompt: the
\* worker that other conversations used before is on the session the hub
\* asked for or on a new one, never on a session of another job
\* (OmpPool.acquire).
OwnConversation ==
  \A j \in Jobs : pc[j] \in Ran =>
     /\ prompt[has[j]] = want[j]
     /\ sess[has[j]] \in {ask[j], j}

\* The pool's processes alive are at most Cap: a worker is started only when
\* no free one is left (OmpPool.acquire, OMP_POOL_CAP).  Not counted are the
\* processes a failing call leaves behind, each of them uncounted by the pool
\* too: of a worker whose session could not be selected (it stays in _all),
\* and of one whose client.stop raised (_dispose_worker and the clean-up of
\* _start_worker swallow the error, and neither keeps it in _all).
ProcessesBounded == Cardinality(up \ strays) <= Cap

\* Every job of the worker is reported, whatever fails: no slot is awaited
\* for ever (OmpWorker._run_job).
EveryJobReports == \A j \in Jobs : pc[j] # "idle" ~> results[j] > 0
=============================================================================

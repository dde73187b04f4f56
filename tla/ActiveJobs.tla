----------------------------- MODULE ActiveJobs -----------------------------
(***************************************************************************)
(* The registry of active jobs                                             *)
(* (src/src/factory/infrastructure/stores/jobs/active_jobs_kv.py,          *)
(* active_jobs_refresher.py, active_jobs_result_listener.py,               *)
(* core/pool/pool_active_jobs.py, dashboard_jobs_rpc.py), for the jobs of  *)
(* one pool: a KV bucket with a key per job and an index key that names    *)
(* the job of the pool, and the hub's table of the jobs it refreshes.      *)
(*                                                                         *)
(* A turn opens its entry before it works and closes it afterwards; a job  *)
(* of the dashboard is published first and opened then, and nobody closes  *)
(* it but its result.  Every call of the KV is a step: its effect, and     *)
(* what the task does until its next call.  A task is at the label of the  *)
(* call it makes next.                                                     *)
(*                                                                         *)
(* Left out: parallel mode (no index), heartbeats (not wired), cancelling a *)
(* turn from the dashboard.                                                *)
(* Bound: MaxFaults, on failing calls, cancels, lost results and lapses    *)
(* of a key that is refreshed.                                             *)
(* A definition A_Word is a deliberate fault in A.                         *)
(***************************************************************************)
EXTENDS Integers, FiniteSets

CONSTANTS
  Turns,       \* jobs of the pool's turns
  Launches,    \* jobs started from the dashboard
  None,
  MaxFaults

Listener == "listener"

Jobs == Turns \cup Launches
Closers == Jobs \cup {Listener}

ASSUME ActiveJobsAssumption ==
  /\ Turns \cap Launches = {}
  /\ None \notin Jobs
  /\ Listener \notin Jobs \cup {None}
  /\ MaxFaults \in Nat

VARIABLES
  keys,      \* the jobs with a key in the bucket
  idx,       \* the value of the index key, None when there is none
  tracked,   \* RegistryCoordinator._jobs
  at,        \* where a task is
  on,        \* the job a task closes
  sweep,     \* the rest of the refresher's snapshot
  now,       \* the job it refreshes, None between two jobs
  put,       \* has it put the job key?
  sent,      \* jobs whose result was published
  results,   \* results on the way to the hub
  missed,    \* history: launches whose result came too early or was lost
  disturbed, \* history: was a key of a job at work taken away?
  faults

vars == <<keys, idx, tracked, at, on, sweep, now, put, sent, results, missed,
          disturbed, faults>>

Init ==
  /\ keys = {} /\ idx = None
  /\ tracked = {}
  /\ at = [t \in Closers |-> "idle"]
  /\ on = [t \in Closers |-> IF t \in Jobs THEN t ELSE None]
  /\ sweep = {} /\ now = None /\ put = FALSE
  /\ sent = {} /\ results = {} /\ missed = {} /\ disturbed = FALSE
  /\ faults = 0

Fault == faults < MaxFaults /\ faults' = faults + 1
Goto(t, l) == at' = [at EXCEPT ![t] = l]

Opening == {"put", "create", "winner", "record"}
Closing == {"get", "owner", "unindex", "delete", "forget"}

---------------------------------------------------------------------------
(* open: KvActiveJobsStore.open and RegistryCoordinator.open.              *)

\* guarded_process_one reaches _open_active_job; handle_jobs_launch has
\* published the job.
Begin(j) ==
  /\ at[j] = "idle"
  /\ Goto(j, "put")
  /\ UNCHANGED <<keys, idx, tracked, on, sweep, now, put, sent, results,
                 missed, disturbed, faults>>

PutJob(j) ==
  /\ at[j] = "put"
  /\ keys' = keys \cup {j}
  /\ Goto(j, "create")
  /\ UNCHANGED <<idx, tracked, on, sweep, now, put, sent, results, missed,
                 disturbed, faults>>

\* Fault: the index key is written whoever holds it.
CreateIndex_Steals(j) ==
  /\ at[j] = "create"
  /\ idx' = j
  /\ Goto(j, "record")
  /\ UNCHANGED <<keys, tracked, on, sweep, now, put, sent, results, missed,
                 disturbed, faults>>

\* kv.create succeeds only when the index key is absent.
CreateIndex(j) ==
  /\ at[j] = "create"
  /\ IF idx = None THEN idx' = j /\ Goto(j, "record")
                   ELSE Goto(j, "winner") /\ UNCHANGED idx
  /\ UNCHANGED <<keys, tracked, on, sweep, now, put, sent, results, missed,
                 disturbed, faults>>

\* RegistryConflictError unless the winner is this job: the run goes on
\* unregistered.
ReadWinner(j) ==
  /\ at[j] = "winner"
  /\ Goto(j, IF idx = j THEN "record" ELSE "unregistered")
  /\ UNCHANGED <<keys, idx, tracked, on, sweep, now, put, sent, results,
                 missed, disturbed, faults>>

\* Nobody closes a launch after its open.
Record(j) ==
  /\ at[j] = "record"
  /\ tracked' = tracked \cup {j}
  /\ Goto(j, IF j \in Turns THEN "running" ELSE "done")
  /\ UNCHANGED <<keys, idx, on, sweep, now, put, sent, results, missed,
                 disturbed, faults>>

\* A call fails, and the run goes on unregistered; or the turn is cancelled
\* here, outside the try whose finally would close the entry.
OpenFails(j) ==
  /\ at[j] \in Opening
  /\ Fault
  /\ \/ (at[j] # "record" /\ Goto(j, "unregistered"))
     \/ (j \in Turns /\ Goto(j, "done"))
  /\ UNCHANGED <<keys, idx, tracked, on, sweep, now, put, sent, results,
                 missed, disturbed>>

---------------------------------------------------------------------------
(* close: KvActiveJobsStore.close and RegistryCoordinator.close.           *)

\* The turn is over, however it ended.
TurnEnds(j) ==
  /\ j \in Turns /\ at[j] = "running"
  /\ Goto(j, "get")
  /\ UNCHANGED <<keys, idx, tracked, on, sweep, now, put, sent, results,
                 missed, disturbed, faults>>

\* The run of a job that is not registered is over.
RunEnds(j) ==
  /\ j \in Jobs /\ at[j] = "unregistered"
  /\ Goto(j, "done")
  /\ UNCHANGED <<keys, idx, tracked, on, sweep, now, put, sent, results,
                 missed, disturbed, faults>>

GetJob(t) ==
  /\ at[t] = "get"
  /\ Goto(t, IF on[t] \in keys THEN "owner" ELSE "forget")
  /\ UNCHANGED <<keys, idx, tracked, on, sweep, now, put, sent, results,
                 missed, disturbed, faults>>

GetOwner(t) ==
  /\ at[t] = "owner"
  /\ Goto(t, IF idx = on[t] THEN "unindex" ELSE "delete")
  /\ UNCHANGED <<keys, idx, tracked, on, sweep, now, put, sent, results,
                 missed, disturbed, faults>>

DeleteIndex(t) ==
  /\ at[t] = "unindex"
  /\ idx' = None
  /\ disturbed' = (disturbed \/ idx \notin {on[t], None})
  /\ Goto(t, "delete")
  /\ UNCHANGED <<keys, tracked, on, sweep, now, put, sent, results, missed,
                 faults>>

DeleteJob(t) ==
  /\ at[t] = "delete"
  /\ keys' = keys \ {on[t]}
  /\ Goto(t, "forget")
  /\ UNCHANGED <<idx, tracked, on, sweep, now, put, sent, results, missed,
                 disturbed, faults>>

\* Fault: the job is only forgotten after a close that worked.
CloseFails_KeepsTracked(t) ==
  /\ at[t] \in Closing \ {"forget"}
  /\ Fault
  /\ Goto(t, IF t \in Jobs THEN "done" ELSE "idle")
  /\ on' = [on EXCEPT ![t] = IF t \in Jobs THEN t ELSE None]
  /\ UNCHANGED <<keys, idx, tracked, sweep, now, put, sent, results, missed,
                 disturbed>>

\* A call fails or the turn is cancelled: the finally goes on.
CloseFails(t) ==
  /\ at[t] \in Closing \ {"forget"}
  /\ Fault
  /\ Goto(t, "forget")
  /\ UNCHANGED <<keys, idx, tracked, on, sweep, now, put, sent, results,
                 missed, disturbed>>

Forget(t) ==
  /\ at[t] = "forget"
  /\ tracked' = tracked \ {on[t]}
  /\ on' = [on EXCEPT ![t] = IF t \in Jobs THEN t ELSE None]
  /\ Goto(t, IF t \in Jobs THEN "done" ELSE "idle")
  /\ UNCHANGED <<keys, idx, sweep, now, put, sent, results, missed,
                 disturbed, faults>>

---------------------------------------------------------------------------
(* Results of the workers (external), the listener, a cancelled launch.    *)

PublishResult(j) ==
  /\ j \notin sent
  /\ \/ at[j] \in {"running", "unregistered"}
     \/ j \in Launches /\ at[j] # "idle"
  /\ sent' = sent \cup {j}
  /\ results' = results \cup {j}
  /\ UNCHANGED <<keys, idx, tracked, at, on, sweep, now, put, missed,
                 disturbed, faults>>

\* ResultCloseListener._handle.
Handle(j) ==
  /\ at[Listener] = "idle" /\ j \in results
  /\ results' = results \ {j}
  /\ at' = [at EXCEPT ![Listener] = "get"]
  /\ on' = [on EXCEPT ![Listener] = j]
  /\ missed' = IF j \in Launches /\ at[j] \in Opening
                 THEN missed \cup {j} ELSE missed
  /\ UNCHANGED <<keys, idx, tracked, sweep, now, put, sent, disturbed, faults>>

LoseResult(j) ==
  /\ j \in results
  /\ Fault
  /\ results' = results \ {j}
  /\ missed' = missed \cup ({j} \cap Launches)
  /\ UNCHANGED <<keys, idx, tracked, at, on, sweep, now, put, sent, disturbed>>

\* handle_jobs_cancel of a launch, whose own task is over: the entry is
\* closed, the job runs on until the worker sees the token.
CancelJob(j) ==
  /\ j \in Launches \cap tracked /\ at[j] = "done"
  /\ Fault
  /\ Goto(j, "get")
  /\ UNCHANGED <<keys, idx, tracked, on, sweep, now, put, sent, results,
                 missed, disturbed>>

---------------------------------------------------------------------------
(* refresh_all and the time-to-live of the bucket.                         *)

StartSweep ==
  /\ sweep = {} /\ now = None
  /\ sweep' = tracked
  /\ tracked # {}
  /\ UNCHANGED <<keys, idx, tracked, at, on, now, put, sent, results, missed,
                 disturbed, faults>>

\* refresh: a job without a key is left alone.
RefreshGet(j) ==
  /\ j \in sweep /\ now = None
  /\ sweep' = sweep \ {j}
  /\ now' = IF j \in keys THEN j ELSE None
  /\ put' = FALSE
  /\ UNCHANGED <<keys, idx, tracked, at, on, sent, results, missed,
                 disturbed, faults>>

RefreshJob ==
  /\ now # None /\ ~put
  /\ keys' = keys \cup {now}
  /\ put' = TRUE
  /\ UNCHANGED <<idx, tracked, at, on, sweep, now, sent, results, missed,
                 disturbed, faults>>

RefreshIndex ==
  /\ now # None /\ put
  /\ idx' = now
  /\ disturbed' = (disturbed \/ idx \notin {now, None} \/ now \notin tracked)
  /\ now' = None /\ put' = FALSE
  /\ UNCHANGED <<keys, tracked, at, on, sweep, sent, results, missed,
                 faults>>

\* A put fails: the rest of this job's refresh is skipped.
RefreshFails ==
  /\ now # None
  /\ Fault
  /\ now' = None /\ put' = FALSE
  /\ UNCHANGED <<keys, idx, tracked, at, on, sweep, sent, results, missed,
                 disturbed>>

\* A key that nobody refreshes lapses; one that is refreshed only when the
\* hub is cut off for longer than the time-to-live.  No call is that slow.
LapseJob(j) ==
  /\ j \in keys /\ at[j] \notin Opening
  /\ IF j \in tracked THEN Fault ELSE UNCHANGED faults
  /\ disturbed' = (disturbed \/ j \in tracked)
  /\ keys' = keys \ {j}
  /\ UNCHANGED <<idx, tracked, at, on, sweep, now, put, sent, results,
                 missed>>

LapseIndex ==
  /\ idx # None /\ at[idx] \notin Opening
  /\ IF tracked = {} THEN UNCHANGED faults ELSE Fault
  /\ disturbed' = (disturbed \/ tracked # {})
  /\ idx' = None
  /\ UNCHANGED <<keys, tracked, at, on, sweep, now, put, sent, results,
                 missed>>

OpenStep(j) ==
  PutJob(j) \/ CreateIndex(j) \/ ReadWinner(j) \/ Record(j) \/ OpenFails(j)

CloseStep(t) ==
  \/ GetJob(t) \/ GetOwner(t) \/ DeleteIndex(t) \/ DeleteJob(t)
  \/ CloseFails(t) \/ Forget(t)

Refresh ==
  \/ StartSweep \/ RefreshJob \/ RefreshIndex \/ RefreshFails
  \/ \E j \in Jobs : RefreshGet(j)

Next ==
  \/ \E j \in Jobs :
       \/ Begin(j) \/ OpenStep(j) \/ TurnEnds(j) \/ RunEnds(j)
       \/ PublishResult(j) \/ Handle(j) \/ LoseResult(j) \/ CancelJob(j)
       \/ LapseJob(j)
  \/ \E t \in Closers : CloseStep(t)
  \/ Refresh \/ LapseIndex

Spec == Init /\ [][Next]_vars

\* Calls return or raise, turns and runs end, the listener takes what it
\* hears, the refresher goes on and the bucket drops what nobody refreshes.
FairSpec ==
  /\ Spec
  /\ \A j \in Jobs : WF_vars(OpenStep(j) \/ TurnEnds(j) \/ RunEnds(j))
  /\ \A t \in Closers : WF_vars(CloseStep(t))
  /\ WF_vars(\E j \in Jobs : Handle(j))
  /\ WF_vars(Refresh)
  /\ \A j \in Jobs : WF_vars(LapseJob(j) /\ UNCHANGED faults)
  /\ WF_vars(LapseIndex /\ UNCHANGED faults)

---------------------------------------------------------------------------
(* Properties.                                                             *)

TypeOK ==
  /\ keys \subseteq Jobs /\ idx \in Jobs \cup {None}
  /\ tracked \subseteq Jobs
  /\ at \in [Closers -> Opening \cup Closing \cup
                        {"idle", "unregistered", "running", "done"}]
  /\ on \in [Closers -> Jobs \cup {None}]
  /\ \A t \in Closers : at[t] \in Closing => on[t] \in Jobs
  /\ sweep \subseteq Jobs /\ now \in Jobs \cup {None}
  /\ put \in BOOLEAN
  /\ sent \subseteq Jobs /\ results \subseteq sent
  /\ missed \subseteq Launches
  /\ faults \in Nat

\* The registered jobs nobody is closing.
Live == {j \in tracked : \A t \in Closers : at[t] \in Closing => on[t] # j}

\* A registered job holds the index of its pool, so at most one is registered
\* at a time, although opens, two closes of one job and refreshes interleave
\* call by call and calls fail; but for a launch that nobody will close, and
\* after a late call of a finished job or a lapse took the index away
\* (KvActiveJobsStore.open, close; RegistryCoordinator).
IndexOwned ==
  missed = {} /\ ~disturbed => \A j \in Live : idx = j /\ j \in keys

\* The job is over: a turn ended, the worker reported a launch.
Over(j) == at[j] = "done" /\ (j \in Launches => j \in sent)

\* When all jobs are over, the registry empties, whatever calls failed:
\* what is not closed is no longer refreshed and lapses; but for a launch
\* whose result came before its open or was lost, which the hub refreshes for
\* ever (RegistryCoordinator.close, refresh_all, handle_jobs_launch).
RegistryEmpties ==
  (\A j \in Jobs : Over(j)) /\ missed = {}
    ~> (keys = {} /\ idx = None /\ tracked = {}) \/ missed # {}
=============================================================================

------------------------------ MODULE CliPool ------------------------------
(***************************************************************************)
(* The pool of persistent CLI processes and the worker that feeds it       *)
(* (src/src/factory/core/cli, src/src/factory/adapters/clipool).           *)
(*                                                                         *)
(* The worker runs every job in a task of its own; the control operations  *)
(* (reset, resume_and_reset, switch_cwd) run one at a time; the idle       *)
(* reaper is a third kind of task.  All of them share one event loop: a    *)
(* task runs from one await to the next without interruption, which is     *)
(* what Running says: while a task stands at a label of Sync, only that    *)
(* task may step.  The awaits are the labels of a task outside Sync.       *)
(*                                                                         *)
(* A process is a record; entries[p] is its number, 0 when the pool has    *)
(* none.  A session is named by the number of the process that opened it.  *)
(* An answer is one item of stdout (the lines up to the result event); a   *)
(* timeout while stdin is drained has the effects of one while stdout is   *)
(* read and is not kept apart.  Time is abstract: a sweep of the reaper    *)
(* finds any of the unlocked processes idle for too long.                  *)
(*                                                                         *)
(* Bounds: MaxJobs, MaxProcs, MaxEvents.                                   *)
(* A definition A_Word is a deliberate fault in A.                         *)
(***************************************************************************)
EXTENDS Integers, Sequences, FiniteSets

CONSTANTS
  Pools,        \* pool ids
  MaxJobs,      \* jobs sent to the worker, numbered as they arrive
  Prompts,      \* what a process is started with: the system prompt (the
                \* model configuration too, which only streams compare)
  StreamFlags,  \* the values of a job's "stream" flag
  Ops,          \* the control operations the hub sends
  None,         \* no pool, no prompt
  MaxProcs,     \* processes started in a run
  MaxEvents     \* what disturbs the turns: deaths, failed spawns and
                \* publishes, control operations, sweeps, jobs given up

ASSUME CliPoolAssumption ==
  /\ None \notin Pools \cup Prompts
  /\ StreamFlags \subseteq BOOLEAN /\ StreamFlags # {}
  /\ Ops \subseteq {"reset", "resume", "switch"}
  /\ {MaxJobs, MaxProcs, MaxEvents} \subseteq Nat

VARIABLES
  procs,      \* the processes started so far
  entries,    \* CliPool._entries: pool -> process, 0 when absent
  resume,     \* CliPool._resume_session_ids: pool -> session, 0 when absent
  override,   \* is a cwd override stored for the pool?
  task,       \* the tasks: jobs, reaper, control
  result,     \* the JobResult published for a job
  due,        \* pools the reaper still has to kill in this sweep
  left,       \* jobs the hub gave up on (timeout or cancel), unknown here
  cut,        \* processes whose answer was left half read
  barred,     \* history: pool -> sessions the last reset discarded, ...
  late,       \* ... and those it found in the hands of a spawn under way
  events      \* the disturbances so far

cliVars == <<procs, entries, resume, override, task, result, due, left, cut,
          barred, events>>

Jobs    == 1 .. MaxJobs
Reaper  == MaxJobs + 1
Control == MaxJobs + 2
Tasks   == 1 .. MaxJobs + 2
NoJob   == 0        \* nobody holds the lock
Refused == 0        \* in stdout: the CLI's "No conversation found"
Open    == 0        \* no JobResult yet; an answered job has the number of
Failed  == -1       \* the job whose prompt the answer is to
Empty   == -2       \* success without text
Ids     == 1 .. MaxProcs

Idle == [pc |-> "idle", pool |-> None, stream |-> FALSE, prompt |-> None,
         proc |-> 0, prey |-> 0, next |-> "idle", asked |-> 0, with |-> 0,
         retry |-> FALSE]

CliInit ==
  /\ procs = << >>
  /\ entries = [p \in Pools |-> 0]
  /\ resume = [p \in Pools |-> 0]
  /\ override = [p \in Pools |-> FALSE]
  /\ task = [t \in Tasks |-> Idle]
  /\ result = [j \in Jobs |-> Open]
  /\ due = {}
  /\ left = {}
  /\ cut = {}
  /\ barred = [p \in Pools |-> {}]
  /\ late = [p \in Pools |-> {}]
  /\ events = 0

---------------------------------------------------------------------------
(* One event loop.                                                         *)

\* "reaping" is not one: the reaper may be awaiting the kill of a process of
\* some pool outside Pools, its snapshot being of them all.
Sync == {"resume", "setresume", "send", "spawn", "lock", "write", "retry",
         "fail", "empty", "reset", "switch", "override", "acked"}

Running == {t \in Tasks : task[t].pc \in Sync}
Turn(t) == Running \subseteq {t}

Alive(n)  == n # 0 /\ procs[n].alive
Served(p) == Alive(entries[p])
Sid(n)    == IF procs[n].from # 0 /\ ~procs[n].stale THEN procs[n].from
                                                     ELSE n
Readers(n) == {j \in Jobs : task[j].pc = "reading" /\ task[j].proc = n}
Known(p)  == {procs[n].sess : n \in {m \in DOMAIN procs : procs[m].pool = p}}
               \ {0}

Disturb  == events < MaxEvents /\ events' = events + 1
MoveTo(t, pc) == task' = [task EXCEPT ![t].pc = pc]

\* Fault: without an entry there is nothing to do.
KillThen_ReturnsEarly(t, p, preserve, next) ==
  LET n == entries[p] IN
  /\ entries' = [entries EXCEPT ![p] = 0]
  /\ override' = [override EXCEPT ![p] = FALSE]
  /\ resume' = [resume EXCEPT ![p] =
        IF n = 0 THEN @
        ELSE IF ~preserve THEN 0
        ELSE IF procs[n].sess # 0 THEN procs[n].sess ELSE @]
  /\ task' = [task EXCEPT ![t].pc = IF Alive(n) THEN "killing" ELSE next,
                          ![t].prey = IF Alive(n) THEN n ELSE 0,
                          ![t].next = IF Alive(n) THEN next ELSE "idle"]

\* Fault: the entry is evicted and its process left alone
\* (_sync_evict_entry).
KillThen_Evicts(t, p, preserve, next) ==
  LET n == entries[p] IN
  /\ entries' = [entries EXCEPT ![p] = 0]
  /\ override' = [override EXCEPT ![p] = FALSE]
  /\ resume' = [resume EXCEPT ![p] =
        IF ~preserve THEN 0
        ELSE IF n # 0 /\ procs[n].sess # 0 THEN procs[n].sess ELSE @]
  /\ MoveTo(t, next)

\* CliPool._kill(p): the entry is popped at once, by pool and not by process;
\* only a live process is waited for, after which the task goes on at next.
KillThen(t, p, preserve, next) ==
  LET n == entries[p] IN
  /\ entries' = [entries EXCEPT ![p] = 0]
  /\ override' = [override EXCEPT ![p] = FALSE]
  /\ resume' = [resume EXCEPT ![p] =
        IF ~preserve THEN 0
        ELSE IF n # 0 /\ procs[n].sess # 0 THEN procs[n].sess ELSE @]
  /\ task' = [task EXCEPT ![t].pc = IF Alive(n) THEN "killing" ELSE next,
                          ![t].prey = IF Alive(n) THEN n ELSE 0,
                          ![t].next = IF Alive(n) THEN next ELSE "idle"]

\* terminate() was sent; the process ends by itself or by kill() after
\* kill_timeout.
Killed(t) ==
  /\ Turn(t)
  /\ task[t].pc = "killing"
  /\ procs' = [procs EXCEPT ![task[t].prey].alive = FALSE]
  /\ task' = [task EXCEPT ![t].pc = task[t].next, ![t].prey = 0,
                          ![t].next = "idle"]
  /\ UNCHANGED <<entries, resume, override, result, due, left, cut, barred,
                 late, events>>

Unlock(j) == [n \in DOMAIN procs |->
                IF procs[n].lock = j THEN [procs[n] EXCEPT !.lock = NoJob]
                                     ELSE procs[n]]

\* The JobResult of j is published and its task ends.
Finish(j, r) ==
  /\ result' = [result EXCEPT ![j] = r]
  /\ task' = [task EXCEPT ![j] = [Idle EXCEPT !.pc = "done",
                                              !.pool = task[j].pool]]

---------------------------------------------------------------------------
(* A job: resume_direct, then send or send_streaming, then the publish.    *)

\* The hub waits for one job of a pool at a time.
Awaited(p) == {j \in Jobs \ left : task[j].pool = p /\ result[j] = Open}

\* CliPoolNatsWorker.handle: the job becomes a task.  s is the session the
\* hub asks for (0: none).
Arrive(j, p, st, pr, s) ==
  /\ Turn(j)
  /\ task[j].pc = "idle"
  /\ \A k \in 1 .. j - 1 : task[k].pc # "idle"
  /\ Awaited(p) = {}
  /\ task' = [task EXCEPT ![j].pc = IF s = 0 THEN "send" ELSE "resume",
                          ![j].pool = p, ![j].stream = st, ![j].prompt = pr,
                          ![j].asked = s]
  /\ UNCHANGED <<procs, entries, resume, override, result, due, left, cut,
                 barred, late, events>>

\* resume_direct: nothing to do when the live process holds that session.
ResumeDirect(t) ==
  LET p == task[t].pool
      done == IF t = Control THEN "acked" ELSE "send"
  IN
  /\ Turn(t)
  /\ task[t].pc = "resume"
  /\ IF Served(p) /\ procs[entries[p]].sess = task[t].asked
       THEN /\ MoveTo(t, done)
            /\ UNCHANGED <<entries, resume, override>>
       ELSE KillThen(t, p, FALSE, "setresume")
  /\ UNCHANGED <<procs, result, due, left, cut, barred, late, events>>

SetResume(t) ==
  LET p == task[t].pool IN
  /\ Turn(t)
  /\ task[t].pc = "setresume"
  /\ resume' = [resume EXCEPT ![p] = task[t].asked]
  /\ barred' = [barred EXCEPT ![p] = @ \ {task[t].asked}]
  /\ late' = [late EXCEPT ![p] = @ \ {task[t].asked}]
  /\ MoveTo(t, IF t = Control THEN "acked" ELSE "send")
  /\ UNCHANGED <<procs, entries, override, result, due, left, cut, events>>

\* send() up to the lock: a missing or dead process is spawned, one with
\* another system prompt is killed first.
Send(j) ==
  LET p == task[j].pool
      n == entries[p]
  IN
  /\ Turn(j)
  /\ task[j].pc = "send"
  /\ \/ /\ ~Alive(n)
        /\ MoveTo(j, "spawn")
        /\ UNCHANGED <<entries, resume, override>>
     \/ /\ Alive(n) /\ procs[n].prompt # task[j].prompt
        /\ KillThen(j, p, FALSE, "spawn")
     \/ /\ Alive(n) /\ procs[n].prompt = task[j].prompt
        /\ task' = [task EXCEPT ![j].pc = "lock", ![j].proc = n]
        /\ UNCHANGED <<entries, resume, override>>
  /\ UNCHANGED <<procs, result, due, left, cut, barred, late, events>>

\* _spawn up to its first await: the scheduled session is taken.
Spawn(j) ==
  LET p == task[j].pool IN
  /\ Turn(j)
  /\ task[j].pc = "spawn"
  /\ resume' = [resume EXCEPT ![p] = 0]
  /\ task' = [task EXCEPT ![j].pc = "spawning", ![j].with = resume[p]]
  /\ UNCHANGED <<procs, entries, override, result, due, left, cut, barred,
                 late, events>>

\* The process survived its first 100 ms: it becomes the pool's entry,
\* whatever the entry is by now.
Spawned(j) ==
  LET n == Len(procs) + 1 IN
  /\ Turn(j)
  /\ task[j].pc = "spawning"
  /\ n <= MaxProcs
  /\ \E gone \in IF task[j].with = 0 THEN {FALSE} ELSE BOOLEAN :
       procs' = Append(procs,
                  [pool |-> task[j].pool, prompt |-> task[j].prompt,
                   from |-> task[j].with, stale |-> gone, sess |-> 0,
                   alive |-> TRUE, turns |-> 0, lock |-> NoJob,
                   todo |-> << >>, out |-> << >>])
  /\ entries' = [entries EXCEPT ![task[j].pool] = n]
  /\ task' = [task EXCEPT ![j].pc = "lock", ![j].proc = n, ![j].with = 0]
  /\ UNCHANGED <<resume, override, result, due, left, cut, barred, late,
                 events>>

\* No process, or one that ended at once: an error result, and the session
\* that was to be resumed is no longer scheduled.
SpawnFails(j) ==
  /\ Turn(j)
  /\ task[j].pc = "spawning"
  /\ Disturb
  /\ Finish(j, Failed)
  /\ UNCHANGED <<procs, entries, resume, override, due, left, cut, barred,
                 late>>

Queued(n) == {j \in Jobs : task[j].pc = "queued" /\ task[j].proc = n}

\* entry._lock: taken at once when free and nobody waits for it.
Lock(j) ==
  LET n == task[j].proc
      free == procs[n].lock = NoJob
  IN
  /\ Turn(j)
  /\ \/ /\ task[j].pc = "lock"
        /\ ~free \/ Queued(n) # {}
        /\ MoveTo(j, "queued")
        /\ UNCHANGED procs
     \/ /\ \/ task[j].pc = "lock" /\ Queued(n) = {}
           \/ task[j].pc = "queued"
        /\ free
        /\ procs' = [procs EXCEPT ![n].lock = j]
        /\ MoveTo(j, "write")
  /\ UNCHANGED <<entries, resume, override, result, due, left, cut, barred,
                 late, events>>

\* Under the lock: a dead process is an error; else the prompt is written.
\* A streaming turn releases the lock before its answer is read; its first
\* turn on a resumed process waits 50 ms to see whether the CLI refuses it.
Write(j) ==
  LET n == task[j].proc
      st == task[j].stream
  IN
  /\ Turn(j)
  /\ task[j].pc = "write"
  /\ IF ~procs[n].alive
       THEN /\ procs' = Unlock(j)
            /\ Finish(j, Failed)
       ELSE /\ procs' = [procs EXCEPT ![n].todo = Append(@, j),
                                      ![n].turns = IF st THEN @ + 1 ELSE @,
                                      ![n].lock = IF st THEN NoJob ELSE j]
            /\ MoveTo(j, IF /\ st /\ ~task[j].retry
                          /\ procs[n].from # 0 /\ procs[n].turns = 0
                         THEN "guard" ELSE "reading")
            /\ UNCHANGED result
  /\ UNCHANGED <<entries, resume, override, due, left, cut, barred, late,
                 events>>

\* The stale resume guard of a streaming turn.
Guarded(j) ==
  LET n == task[j].proc IN
  /\ Turn(j)
  /\ task[j].pc = "guard"
  /\ IF procs[n].alive
       THEN /\ MoveTo(j, "reading")
            /\ UNCHANGED <<entries, resume, override>>
       ELSE KillThen(j, task[j].pool, FALSE, "retry")
  /\ UNCHANGED <<procs, result, due, left, cut, barred, late, events>>

\* The one retry after a refused resume.
Retry(j) ==
  /\ Turn(j)
  /\ task[j].pc = "retry"
  /\ procs' = Unlock(j)
  /\ task' = [task EXCEPT ![j].pc = "send", ![j].retry = TRUE]
  /\ UNCHANGED <<entries, resume, override, result, due, left, cut, barred,
                 late, events>>

\* A blocking turn is over, whatever its result: turn_count and the lock.
Settle(j) == [Unlock(j) EXCEPT ![task[j].proc].turns = @ + 1]

\* The first answer waiting in stdout is read as the answer to j.
ReadAnswer(j) ==
  LET n == task[j].proc
      a == Head(procs[n].out)
  IN
  /\ Turn(j)
  /\ task[j].pc = "reading"
  /\ procs[n].out # << >> /\ a # Refused
  /\ procs' = [IF task[j].stream THEN procs ELSE Settle(j)
                 EXCEPT ![n].out = Tail(@), ![n].sess = Sid(n)]
  /\ Finish(j, a)
  /\ UNCHANGED <<entries, resume, override, due, left, cut, barred, late,
                 events>>

\* "No conversation found": a blocking turn tries again once, on a process
\* that resumed a session and has not answered before.
ReadRefusal(j) ==
  LET n == task[j].proc
      took == [procs EXCEPT ![n].out = Tail(@)]
  IN
  /\ Turn(j)
  /\ task[j].pc = "reading"
  /\ procs[n].out # << >> /\ Head(procs[n].out) = Refused
  /\ IF ~task[j].stream /\ ~task[j].retry /\ procs[n].turns = 0
       THEN /\ procs' = took
            /\ KillThen(j, task[j].pool, FALSE, "retry")
            /\ UNCHANGED result
       ELSE /\ procs' = [IF task[j].stream THEN procs ELSE Settle(j)
                           EXCEPT ![n].out = Tail(@)]
            /\ Finish(j, Failed)
            /\ UNCHANGED <<entries, resume, override>>
  /\ UNCHANGED <<due, left, cut, barred, late, events>>

\* stdout ended: a blocking turn kills the pool's entry and keeps the
\* session; a stream just ends, which the worker publishes as a success
\* without text.
ReadEof(j) ==
  LET n == task[j].proc IN
  /\ Turn(j)
  /\ task[j].pc = "reading"
  /\ ~procs[n].alive /\ procs[n].out = << >>
  /\ IF task[j].stream
       THEN /\ MoveTo(j, "empty")
            /\ UNCHANGED <<entries, resume, override>>
       ELSE KillThen(j, task[j].pool, TRUE, "fail")
  /\ UNCHANGED <<procs, result, due, left, cut, barred, late, events>>

\* Fault: the timeout of a blocking turn keeps the process.
ReadTimeout_KeepsProcess(j) ==
  LET n == task[j].proc
      p == task[j].pool
  IN
  /\ Turn(j)
  /\ task[j].pc = "reading"
  /\ procs[n].alive /\ procs[n].out = << >>
  /\ IF task[j].stream /\ entries[p] = n
       THEN KillThen(j, p, FALSE, "empty")
       ELSE /\ MoveTo(j, IF task[j].stream THEN "empty" ELSE "fail")
            /\ UNCHANGED <<entries, resume, override>>
  /\ UNCHANGED <<procs, result, due, left, cut, barred, late, events>>

\* Nothing came for max_idle_retries * default_timeout seconds.
ReadTimeout(j) ==
  LET n == task[j].proc
      p == task[j].pool
  IN
  /\ Turn(j)
  /\ task[j].pc = "reading"
  /\ procs[n].alive /\ procs[n].out = << >>
  /\ IF ~task[j].stream
       THEN KillThen(j, p, TRUE, "fail")
       ELSE IF entries[p] = n
              THEN KillThen(j, p, FALSE, "empty")
              ELSE /\ MoveTo(j, "empty")
                   /\ UNCHANGED <<entries, resume, override>>
  /\ UNCHANGED <<procs, result, due, left, cut, barred, late, events>>

\* Two tasks wait for the same stdout: the second readline raises.  The
\* process and the prompt it was given stay.
ReadConflict(j) ==
  LET n == task[j].proc IN
  /\ Turn(j)
  /\ task[j].pc = "reading"
  /\ procs[n].alive /\ procs[n].out = << >>
  /\ Readers(n) # {j}
  /\ procs' = IF task[j].stream THEN procs ELSE Settle(j)
  /\ Finish(j, Failed)
  /\ UNCHANGED <<entries, resume, override, due, left, cut, barred, late,
                 events>>

\* Publishing a piece of the answer raises: the iterator is dropped and the
\* rest of the answer stays in stdout.
PublishFails(j) ==
  LET n == task[j].proc IN
  /\ Turn(j)
  /\ task[j].pc = "reading" /\ task[j].stream
  /\ procs[n].out # << >> /\ Head(procs[n].out) # Refused
  /\ Disturb
  /\ cut' = cut \cup {n}
  /\ Finish(j, Failed)
  /\ UNCHANGED <<procs, entries, resume, override, due, left, barred, late>>

\* Fault: a failed turn does not release the lock.
Fail_KeepsLock(j) ==
  /\ Turn(j)
  /\ task[j].pc \in {"fail", "empty"}
  /\ Finish(j, IF task[j].pc = "fail" THEN Failed ELSE Empty)
  /\ UNCHANGED <<procs, entries, resume, override, due, left, cut, barred,
                 late, events>>

\* The end of a failed blocking turn, and of a stream without an answer.
Fail(j) ==
  /\ Turn(j)
  /\ task[j].pc \in {"fail", "empty"}
  /\ procs' = Unlock(j)
  /\ Finish(j, IF task[j].pc = "fail" THEN Failed ELSE Empty)
  /\ UNCHANGED <<entries, resume, override, due, left, cut, barred, late,
                 events>>

---------------------------------------------------------------------------
(* The control operations and the reaper.                                  *)

\* _handle_control -> dispatch_control; s is the session of a resume.
ControlCmd(op, p, s) ==
  /\ Turn(Control)
  /\ task[Control].pc = "idle"
  /\ op = "resume" <=> s # 0
  /\ Disturb
  /\ task' = [task EXCEPT ![Control].pc = op, ![Control].pool = p,
                          ![Control].asked = s]
  /\ UNCHANGED <<procs, entries, resume, override, result, due, left, cut,
                 barred, late>>

\* reset and the first half of switch_cwd.  The entry and the scheduled
\* session go; a spawn under way has popped its session already and is not
\* stopped: it will register the process that resumes it.
Reset ==
  LET p == task[Control].pool
      S == {n \in DOMAIN procs : procs[n].pool = p}
      W == {task[j].with : j \in Jobs}
  IN
  /\ Turn(Control)
  /\ task[Control].pc \in {"reset", "switch"}
  /\ KillThen(Control, p, FALSE,
              IF task[Control].pc = "reset" THEN "acked" ELSE "override")
  /\ barred' = [barred EXCEPT ![p] = S \ W]
  /\ late' = [late EXCEPT ![p] = S \cap W]
  /\ UNCHANGED <<procs, result, due, left, cut, events>>

ControlAck ==
  /\ Turn(Control)
  /\ task[Control].pc = "acked"
  /\ task' = [task EXCEPT ![Control] = Idle]
  /\ UNCHANGED <<procs, entries, resume, override, result, due, left, cut,
                 barred, late, events>>

Override ==
  /\ Turn(Control)
  /\ task[Control].pc = "override"
  /\ override' = [override EXCEPT ![task[Control].pool] = TRUE]
  /\ MoveTo(Control, "acked")
  /\ UNCHANGED <<procs, entries, resume, result, due, left, cut, barred, late,
                 events>>

\* _idle_reaper: the snapshot holds the dead entries and those of the
\* unlocked ones whose last_activity is older than the TTL (old).
Sweep(old) ==
  /\ Turn(Reaper)
  /\ task[Reaper].pc = "idle"
  /\ Disturb
  /\ old \subseteq {p \in Pools : /\ Served(p)
                                  /\ procs[entries[p]].lock = NoJob}
  /\ due' = {p \in Pools : entries[p] # 0 /\ ~Served(p)} \cup old
  /\ MoveTo(Reaper, "reaping")
  /\ UNCHANGED <<procs, entries, resume, override, result, left, cut, barred,
                 late>>

\* Fault: a reaped process does not leave its session behind.
Reap_Discards ==
  /\ Turn(Reaper)
  /\ task[Reaper].pc = "reaping"
  /\ \/ \E p \in due : /\ due' = due \ {p}
                       /\ KillThen(Reaper, p, FALSE, "reaping")
     \/ /\ due = {}
        /\ MoveTo(Reaper, "idle")
        /\ UNCHANGED <<due, entries, resume, override>>
  /\ UNCHANGED <<procs, result, left, cut, barred, late, events>>

\* The listed pools are killed one after the other, each await apart.
Reap ==
  /\ Turn(Reaper)
  /\ task[Reaper].pc = "reaping"
  /\ \/ \E p \in due : /\ due' = due \ {p}
                       /\ KillThen(Reaper, p, TRUE, "reaping")
     \/ /\ due = {}
        /\ MoveTo(Reaper, "idle")
        /\ UNCHANGED <<due, entries, resume, override>>
  /\ UNCHANGED <<procs, result, left, cut, barred, late, events>>

---------------------------------------------------------------------------
(* The CLI processes and the hub (external).                               *)

Answer(n) ==
  /\ Running = {}
  /\ procs[n].alive /\ procs[n].todo # << >>
  /\ procs' = [procs EXCEPT
       ![n].todo  = Tail(@),
       ![n].out   = Append(@, IF procs[n].stale THEN Refused
                                                ELSE Head(procs[n].todo)),
       ![n].alive = ~procs[n].stale]
  /\ UNCHANGED <<entries, resume, override, task, result, due, left, cut,
                 barred, late, events>>

Die(n) ==
  /\ Running = {}
  /\ procs[n].alive
  /\ Disturb
  /\ procs' = [procs EXCEPT ![n].alive = FALSE]
  /\ UNCHANGED <<entries, resume, override, task, result, due, left, cut,
                 barred, late>>

\* ClaudeRpcDriver stops waiting (600 s, or the turn was cancelled): the
\* worker is not told.
HubGivesUp(j) ==
  /\ Running = {}
  /\ task[j].pc # "idle" /\ result[j] = Open
  /\ j \notin left
  /\ Disturb
  /\ left' = left \cup {j}
  /\ UNCHANGED <<procs, entries, resume, override, task, result, due, cut,
                 barred, late>>

JobStep(j) ==
  \/ ResumeDirect(j) \/ SetResume(j) \/ Send(j) \/ Spawn(j) \/ Spawned(j)
  \/ SpawnFails(j) \/ Lock(j) \/ Write(j) \/ Guarded(j) \/ Retry(j)
  \/ ReadAnswer(j) \/ ReadRefusal(j) \/ ReadEof(j) \/ ReadTimeout(j)
  \/ ReadConflict(j) \/ PublishFails(j) \/ Fail(j)

ControlStep == ResumeDirect(Control) \/ SetResume(Control) \/ Reset
                 \/ Override \/ ControlAck

CliNext ==
  \/ \E j \in Jobs, p \in Pools, st \in StreamFlags, pr \in Prompts :
       \E s \in Known(p) \cup {0} : Arrive(j, p, st, pr, s)
  \/ \E j \in Jobs : JobStep(j)
  \/ \E t \in Tasks : Killed(t)
  \/ \E op \in Ops, p \in Pools :
       \E s \in Known(p) \cup {0} : ControlCmd(op, p, s)
  \/ ControlStep
  \/ \E old \in SUBSET Pools : Sweep(old)
  \/ Reap
  \/ \E n \in DOMAIN procs : Answer(n) \/ Die(n)
  \/ \E j \in Jobs : HubGivesUp(j)

CliSpec == CliInit /\ [][CliNext]_cliVars

\* A step the event loop has ready is taken in the end; a wait for the lock
\* ends because asyncio.Lock serves its waiters.
CliFairSpec ==
  /\ CliSpec
  /\ \A j \in Jobs : WF_cliVars(JobStep(j))
  /\ \A t \in Tasks : WF_cliVars(Killed(t))
  /\ WF_cliVars(ControlStep)
  /\ WF_cliVars(Reap)

---------------------------------------------------------------------------
(* Properties.                                                             *)

Proc == [pool : Pools, prompt : Prompts, from : 0 .. MaxProcs,
         stale : BOOLEAN, sess : 0 .. MaxProcs, alive : BOOLEAN,
         turns : Nat, lock : 0 .. MaxJobs, todo : Seq(Jobs),
         out : Seq(Jobs \cup {Refused})]

\* The types of the state, and: a lock is held by a job that is at work on
\* that process, so no lock outlives its turn.
CliTypeOK ==
  /\ procs \in Seq(Proc) /\ Len(procs) <= MaxProcs
  /\ entries \in [Pools -> 0 .. Len(procs)]
  /\ resume \in [Pools -> 0 .. Len(procs)]
  /\ override \in [Pools -> BOOLEAN]
  /\ result \in [Jobs -> Empty .. MaxJobs]
  /\ due \subseteq Pools /\ left \subseteq Jobs /\ cut \subseteq Ids
  /\ \A n \in DOMAIN procs : procs[n].lock # NoJob =>
       /\ task[procs[n].lock].proc = n
       /\ task[procs[n].lock].pc \in
            {"write", "reading", "killing", "retry", "fail"}

\* A turn of the pool the hub no longer waits for may still be at work.
Overlapped(p) == \E j \in left : task[j].pool = p

\* A job is answered with the answer to its own prompt: a timeout, an end of
\* stdout, a respawn or a reset never leaves an unread answer where the next
\* job of the pool reads it (send, send_streaming, _kill, _reset).  The two
\* exceptions are a job the hub gave up on, whose task goes on, and a stream
\* whose publish failed, whose process is kept (publish_streaming_job).
AnswersMatch ==
  \A j \in Jobs : result[j] \in Jobs =>
     \/ result[j] = j
     \/ Overlapped(task[j].pool)
     \/ \E n \in cut : procs[n].pool = task[j].pool

\* Every live process is its pool's entry or is being killed, so stop() and
\* the reaper can reach it: kills, respawns, resets and sweeps that overlap
\* never lose one (_kill, _spawn).  Two jobs of one pool that spawn at the
\* same time do, the second overwrites the entry of the first.
NoStrayProcess ==
  \A n \in DOMAIN procs : procs[n].alive =>
     \/ entries[procs[n].pool] = n
     \/ \E t \in Tasks : task[t].prey = n
     \/ Overlapped(procs[n].pool)

\* What the last reset or switch of folder discarded: every session the pool
\* had had by then, the one a spawn under way was about to resume included.
Discarded(p) == barred[p] \cup late[p]

\* What a reset or a switch of folder discarded is not resumed any more,
\* unless the hub asks for it: no kill that preserves the session, from a
\* timeout or the reaper, puts it back (_kill, _maybe_preserve_session).  In
\* one case it does come back, and only that session can: when the reset runs
\* between the pop of the scheduled session (cli_pool_spawn.py:144) and the
\* registration of the new process (209), the spawn goes on with it.
DiscardedStaysDiscarded ==
  \A p \in Pools :
     /\ resume[p] \in Discarded(p) => resume[p] \in late[p]
     /\ Served(p) /\ procs[entries[p]].from \in Discarded(p) =>
          procs[entries[p]].from \in late[p]

\* The session of a pool: of its entry, scheduled, or in a spawn under way.
Held(p) ==
  (Known(p) \cap (IF entries[p] = 0 THEN {} ELSE {procs[entries[p]].sess}))
    \cup {resume[p]} \cup {task[j].with : j \in {k \in Jobs : task[k].pool = p}}

\* Where a task goes on once the process it waits for is dead.
Aim(t) == IF task[t].pc = "killing" THEN task[t].next ELSE task[t].pc

\* The conversation of a pool goes on after the reaper, a timeout or a
\* crash under a blocking turn took its process: a session is dropped only by
\* a kill that means to (reset, switch, resume, another prompt, a stream
\* without output, a refused resume), by a failed spawn, by a spawn over a
\* process found dead, or when a resume was scheduled after the next spawn had
\* begun.
SessionKept ==
  [][\A p \in Pools :
       \/ Held(p) \subseteq Held(p)'
       \/ \E j \in Jobs : /\ task[j].pool = p
                          /\ task'[j].pc # task[j].pc
                          /\ task[j].pc \in {"send", "spawning", "guard",
                                             "resume", "setresume"}
       \/ \E j \in Jobs : /\ task[j].pool = p /\ task[j].pc = "reading"
                          /\ Aim(j)' \in {"empty", "retry"}
       \/ task[Control].pc # task'[Control].pc
       \/ entries[p] # 0 /\ resume[p] # 0
    ]_cliVars

\* Every job the worker takes is reported to the hub, whatever processes die,
\* hang or are killed under it: no lock, no kill and no wait for an answer
\* keeps it for ever (send, send_streaming, publish_job_failure).
EveryJobReports ==
  \A j \in Jobs : task[j].pc # "idle" ~> result[j] # Open
=============================================================================

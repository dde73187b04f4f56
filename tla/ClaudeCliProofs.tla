-------------------------- MODULE ClaudeCliProofs --------------------------
(***************************************************************************)
(* The claude-cli backend: its circuit as the turns of the hub use it, and  *)
(* the pool of its processes.                                               *)
(*                                                                         *)
(* The circuit breaker's own invariants hold whatever its callers do; the   *)
(* turns of the hub are such callers; and at most one provider call of a     *)
(* HALF_OPEN period runs while no release frees another probe's slot.        *)
(*                                                                         *)
(* A step of the process pool is of one of a few kinds (StepKinds): what it  *)
(* does to the processes, the entries and the task that takes it.  The      *)
(* parts of the inductive invariant CliInv are shown for the kinds.         *)
(***************************************************************************)
EXTENDS CliPool, CircuitTurns, TLAPS

(***************************************************************************)
(* The circuit breaker alone.                                               *)
(***************************************************************************)
BreakerInv == CBTypeOK /\ CountMatchesState /\ ProbeOnlyHalfOpen

LEMMA InitBreaker == CBInit => BreakerInv
<1>. SUFFICES ASSUME CBInit PROVE BreakerInv
  OBVIOUS
<1>1. failures \in 0 .. MaxFailures /\ failures < Threshold
  BY ThresholdAssumption DEF CBInit
<1>2. CBTypeOK
  BY <1>1 DEF CBInit, CBTypeOK
<1>3. CountMatchesState
  BY <1>1 DEF CBInit, CountMatchesState
<1>4. ProbeOnlyHalfOpen
  BY Zenon DEF CBInit, ProbeOnlyHalfOpen
<1>. QED
  BY <1>2, <1>3, <1>4 DEF BreakerInv

\* The methods that neither count nor reset.
LEMMA StepUncounted ==
  ASSUME BreakerInv, Elapse \/ Admit \/ Reject \/ ReleaseProbe \/ UNCHANGED cbVars
  PROVE  BreakerInv'
<1>. USE DEF BreakerInv, CBTypeOK, CountMatchesState, ProbeOnlyHalfOpen
<1>1. CASE Elapse
  BY <1>1 DEF Elapse
<1>2. CASE Admit
  <2>1. CASE UNCHANGED cbVars
    BY <2>1 DEF cbVars
  <2>2. CASE MayProbe /\ ~probe /\ state' = "HALF_OPEN" /\ probe' = TRUE
             /\ UNCHANGED <<failures, elapsed>>
    BY <2>2 DEF MayProbe
  <2>. QED
    BY <1>2, <2>1, <2>2 DEF Admit
<1>3. CASE Reject
  BY <1>3 DEF Reject, MayProbe, cbVars
<1>4. CASE ReleaseProbe
  BY <1>4 DEF ReleaseProbe
<1>5. CASE UNCHANGED cbVars
  BY <1>5 DEF cbVars
<1>. QED
  BY <1>1, <1>2, <1>3, <1>4, <1>5

LEMMA StepSuccess ==
  ASSUME BreakerInv, RecordSuccess
  PROVE  BreakerInv'
<1>1. CASE state # "HALF_OPEN"
  BY <1>1, StepUncounted DEF RecordSuccess
<1>2. CASE state = "HALF_OPEN"
  <2>1. CBInit'
    BY <1>2 DEF RecordSuccess, CBInit
  <2>2. failures' \in 0 .. MaxFailures /\ failures' < Threshold
    BY <2>1, ThresholdAssumption DEF CBInit
  <2>3. CBTypeOK'
    BY <2>1, <2>2 DEF CBInit, CBTypeOK
  <2>4. CountMatchesState'
    BY <2>1, <2>2 DEF CBInit, CountMatchesState
  <2>5. ProbeOnlyHalfOpen'
    BY <2>1, Zenon DEF CBInit, ProbeOnlyHalfOpen
  <2>. QED
    BY <2>3, <2>4, <2>5 DEF BreakerInv
<1>. QED
  BY <1>1, <1>2

LEMMA StepFailure ==
  ASSUME BreakerInv, RecordFailure
  PROVE  BreakerInv'
<1>1. failures \in 0 .. MaxFailures /\ failures < MaxFailures
  BY DEF BreakerInv, CBTypeOK, RecordFailure
<1>2. failures' \in 0 .. MaxFailures /\ failures' = failures + 1
  BY <1>1, ThresholdAssumption DEF RecordFailure
<1>3. state' \in {"CLOSED", "OPEN"} /\ elapsed' = FALSE /\ probe' = FALSE
  BY DEF RecordFailure
<1>4. CBTypeOK'
  BY <1>2, <1>3 DEF CBTypeOK
<1>5. ProbeOnlyHalfOpen'
  BY <1>3, Zenon DEF ProbeOnlyHalfOpen
<1>6. state' = "CLOSED" <=> failures' < Threshold
  <2>1. state = "CLOSED" <=> failures < Threshold
    BY DEF BreakerInv, CountMatchesState
  <2>2. state' = "CLOSED" <=> state = "CLOSED" /\ failures + 1 < Threshold
    BY DEF RecordFailure
  <2>. QED
    BY <1>1, <1>2, <2>1, <2>2, ThresholdAssumption
<1>. QED
  BY <1>4, <1>5, <1>6 DEF BreakerInv, CountMatchesState

LEMMA StepBreaker == BreakerInv /\ [CBNext]_cbVars => BreakerInv'
  BY StepUncounted, StepSuccess, StepFailure DEF CBNext

\* Any sequence of calls of the breaker's methods keeps the failure count and
\* the state consistent, and the probe slot free outside HALF_OPEN.
THEOREM BreakerCorrect == CBSpec => [](CountMatchesState /\ ProbeOnlyHalfOpen)
<1>1. BreakerInv => CountMatchesState /\ ProbeOnlyHalfOpen
  BY DEF BreakerInv
<1>. QED
  BY <1>1, InitBreaker, StepBreaker, PTL DEF CBSpec

(***************************************************************************)
(* The turns that use it: every step makes at most one call of a method.    *)
(***************************************************************************)
LEMMA StepIsBreakerStep == [Next]_vars => [CBNext]_cbVars
<1>. SUFFICES ASSUME [Next]_vars PROVE [CBNext]_cbVars
  OBVIOUS
<1>1. CASE RecoveryElapses
  BY <1>1 DEF RecoveryElapses, CBNext
<1>2. ASSUME NEW t \in Turns, Step(t) PROVE [CBNext]_cbVars
  BY <1>2 DEF Step, Gate, Lose, EnqueueStream, CallProvider, ProviderOk,
              ProviderFails, CallCancelled, DispatchResponse, CBNext
<1>3. CASE UNCHANGED vars
  BY <1>3 DEF vars
<1>. QED
  BY <1>1, <1>2, <1>3 DEF Next

\* The hub's turns only ever use the circuit through its methods.
THEOREM TurnsUseBreaker == Spec => CBSpec
<1>1. Init => CBInit
  BY DEF Init
<1>. QED
  BY <1>1, StepIsBreakerStep, PTL DEF Spec, CBSpec

\* In the running system the circuit is CLOSED exactly while fewer failures
\* than the threshold were recorded since it last closed.
THEOREM CountAlwaysMatches == Spec => []CountMatchesState
  BY TurnsUseBreaker, BreakerCorrect, PTL

\* Every variable keeps its type, the breaker's included.
THEOREM TypeCorrect == Spec => []TypeOK
<1>1. Init => TypeOK /\ BreakerInv
  BY InitBreaker DEF Init, TypeOK, BreakerInv
<1>2. TypeOK /\ BreakerInv /\ [Next]_vars => (TypeOK /\ BreakerInv)'
  <2>. SUFFICES ASSUME TypeOK, BreakerInv, [Next]_vars
                PROVE  TypeOK' /\ BreakerInv'
    OBVIOUS
  <2>1. BreakerInv'
    BY StepBreaker, StepIsBreakerStep
  <2>2. CBTypeOK'
    BY <2>1 DEF BreakerInv
  <2>3. ASSUME NEW t \in Turns, Step(t)
        PROVE  /\ probers' \in SUBSET Turns
               /\ stolen' \in BOOLEAN /\ leaked' \in BOOLEAN
    <3>1. probers' \in SUBSET Turns
      BY <2>3 DEF TypeOK, Step, Gate, Lose, EnqueueStream, CallProvider, ProviderOk,
                  ProviderFails, CallCancelled, DispatchResponse, ProbersAfter
    <3>2. stolen' \in BOOLEAN /\ leaked' \in BOOLEAN
      BY <2>3, Zenon DEF TypeOK, Step, Gate, Lose, EnqueueStream, CallProvider, ProviderOk,
                  ProviderFails, CallCancelled, DispatchResponse, Harmless
    <3>. QED
      BY <3>1, <3>2
  <2>4. ASSUME NEW t \in Turns, Step(t)
        PROVE  pc' \in [Turns -> {"new", "refused", "queued", "outbox", "calling",
                                  "returned", "done", "gone"}]
    BY <2>4 DEF TypeOK, Step, Gate, Lose, EnqueueStream, CallProvider, ProviderOk,
                ProviderFails, CallCancelled, DispatchResponse, Returned, Goto
  <2>5. CASE RecoveryElapses \/ UNCHANGED vars
    <3>1. UNCHANGED <<pc, probers, stolen, leaked>>
      BY <2>5 DEF RecoveryElapses, vars
    <3>2. pc' = pc /\ probers' = probers /\ stolen' = stolen /\ leaked' = leaked
      BY <3>1
    <3>. QED
      <4>1. pc' \in [Turns -> {"new", "refused", "queued", "outbox", "calling",
                              "returned", "done", "gone"}]
        BY <3>2 DEF TypeOK
      <4>2. probers' \in SUBSET Turns
        BY <3>2 DEF TypeOK
      <4>3. stolen' \in BOOLEAN /\ leaked' \in BOOLEAN
        BY <3>2, Zenon DEF TypeOK
      <4>. QED
        BY <2>1, <2>2, <4>1, <4>2, <4>3, Zenon DEF TypeOK
  <2>. QED
    BY <2>1, <2>2, <2>3, <2>4, <2>5 DEF Next, TypeOK
<1>. QED
  BY <1>1, <1>2, PTL DEF Spec

(***************************************************************************)
(* A provider call begun in HALF_OPEN holds the probe slot until the        *)
(* HALF_OPEN period ends: complete() never releases the slot, stream() does  *)
(* when it is cancelled, and stolen says that the slot was not its own.      *)
(***************************************************************************)
ProbeInv ==
    ~stolen => /\ probers # {} => state = "HALF_OPEN" /\ probe
               /\ \A s, t \in probers : s = t

LEMMA StepProbe ==
  ASSUME ProbeInv, BreakerInv, [Next]_vars
  PROVE  ProbeInv'
<1>. USE DEF ProbeInv, ProbersAfter, Harmless
<1>1. CASE RecoveryElapses
  BY <1>1 DEF RecoveryElapses, Elapse
<1>2. ASSUME NEW t \in Turns, Gate(t) PROVE ProbeInv'
  BY <1>2 DEF Gate, Reject, Admit, MayProbe, cbVars
<1>3. ASSUME NEW t \in Turns, Lose(t) PROVE ProbeInv'
  BY <1>3 DEF Lose, cbVars
<1>4. ASSUME NEW t \in Turns, CallProvider(t) PROVE ProbeInv'
  BY <1>4 DEF CallProvider, Reject, Admit, MayProbe, cbVars
<1>5. ASSUME NEW t \in Turns, ProviderOk(t) \/ DispatchResponse(t)
      PROVE  ProbeInv'
  BY <1>5 DEF ProviderOk, DispatchResponse, RecordSuccess, cbVars
<1>6. ASSUME NEW t \in Turns, ProviderFails(t) PROVE ProbeInv'
  BY <1>6 DEF ProviderFails, RecordFailure
<1>7. ASSUME NEW t \in Turns, CallCancelled(t) PROVE ProbeInv'
  <2>1. CASE t \in Streams
    <3>1. probers' \subseteq probers \ {t}
      BY <1>7 DEF CallCancelled
    <3>2. stolen' \/ probers \ {t} = {}
      BY <1>7, <2>1, Zenon DEF CallCancelled
    <3>. QED
      BY <3>1, <3>2
  <2>2. CASE t \notin Streams
    BY <1>7, <2>2 DEF CallCancelled, cbVars
  <2>. QED
    BY <2>1, <2>2
<1>8. ASSUME NEW t \in Turns, EnqueueStream(t) PROVE ProbeInv'
  BY <1>8 DEF EnqueueStream
<1>9. CASE UNCHANGED vars
  BY <1>9 DEF vars, cbVars
<1>. QED
  BY <1>1, <1>2, <1>3, <1>4, <1>5, <1>6, <1>7, <1>8, <1>9 DEF Next, Step

\* is_open() never lets a second provider call through in a HALF_OPEN period
\* while the first is running, however the turns and streams interleave, are
\* lost or cancelled, unless a cancelled stream releases a slot not its own.
THEOREM OneProbe == Spec => []OneProbeInFlight
<1>1. Init => ProbeInv /\ BreakerInv
  BY InitBreaker DEF Init, ProbeInv
<1>2. ProbeInv /\ BreakerInv /\ [Next]_vars => (ProbeInv /\ BreakerInv)'
  BY StepProbe, StepBreaker, StepIsBreakerStep
<1>3. ProbeInv => OneProbeInFlight
  BY DEF ProbeInv, OneProbeInFlight
<1>. QED
  BY <1>1, <1>2, <1>3, PTL DEF Spec

(***************************************************************************)
(* The process pool.                                                        *)
(***************************************************************************)
\* Where a job has a process in its hand.
AtProc == {"lock", "queued", "write", "reading", "guard"}
JobPlaces == AtProc \cup {"idle", "resume", "setresume", "send", "spawn",
               "spawning", "killing", "retry", "fail", "empty", "done"}

ProcRec == [pool : Pools, prompt : Prompts \cup {None}, from : Nat, stale : BOOLEAN,
            sess : Nat, alive : BOOLEAN, turns : Nat, lock : Nat,
            todo : Seq(Jobs), out : Seq(Jobs \cup {Refused})]
Labels == JobPlaces \cup {"reset", "switch", "override", "acked", "reaping"}
TaskRec == [pc : Labels, pool : Pools \cup {None}, stream : BOOLEAN,
            prompt : Prompts \cup {None}, proc : Nat, prey : Nat,
            next : Labels, asked : Nat, with : Nat, retry : BOOLEAN]

ProcsTyped == procs \in Seq(ProcRec)
TasksTyped == task \in [Tasks -> TaskRec]
RestTyped ==
  /\ entries \in [Pools -> 0 .. Len(procs)] /\ resume \in [Pools -> Nat]
  /\ result \in [Jobs -> Int]
  /\ due \subseteq Pools /\ left \subseteq Jobs /\ cut \subseteq DOMAIN procs
  /\ barred \in [Pools -> SUBSET DOMAIN procs]

\* Who is bound to what.
TaskOk(t) ==
  /\ task[t].prey # 0 => task[t].pc = "killing"
  /\ task[t].pc = "killing" => task[t].prey \in DOMAIN procs /\ task[t].next # "killing"
  /\ task[t].with # 0 => task[t].pc = "spawning"
  /\ task[t].pc # "idle" => task[t].pool \in Pools \/ t = Reaper

JobOk(j) ==
  /\ task[j].pc \in JobPlaces
  /\ task[j].pc = "killing" =>
       task[j].next \in {"setresume", "spawn", "retry", "fail", "empty"}
  /\ task[j].pc = "idle" => task[j].pool = None /\ j \notin left
  /\ task[j].pc # "done" => result[j] = Open
  /\ task[j].pc \in AtProc => /\ task[j].proc \in DOMAIN procs
                             /\ procs[task[j].proc].pool = task[j].pool

Links ==
  /\ \A p \in Pools : entries[p] # 0 => procs[entries[p]].pool = p
  /\ \A t \in Tasks : TaskOk(t)
  /\ \A j \in Jobs : JobOk(j)

Base == ProcsTyped /\ TasksTyped /\ RestTyped /\ Links

(***************************************************************************)
(* What the actions do, field by field.                                     *)
(***************************************************************************)
\* Only task t moves.
Only(t) == \A u \in Tasks : u # t => task'[u] = task[u]

Moves(t, l) ==
  /\ Only(t) /\ task'[t].pc = l
  /\ task'[t].pool = task[t].pool /\ task'[t].proc = task[t].proc
  /\ task'[t].with = task[t].with /\ task'[t].prey = task[t].prey
  /\ task'[t].next = task[t].next

\* _kill of pool p on behalf of t, which goes on at l.
Kills(t, p, preserve, l) ==
  /\ Only(t)
  /\ task'[t].pool = task[t].pool /\ task'[t].proc = task[t].proc
  /\ task'[t].with = task[t].with
  /\ IF Alive(entries[p])
       THEN /\ task'[t].pc = "killing" /\ task'[t].prey = entries[p]
            /\ task'[t].next = l
       ELSE task'[t].pc = l /\ task'[t].prey = 0
  /\ entries' = [entries EXCEPT ![p] = 0]
  /\ resume' \in [Pools -> Nat]
  /\ \A q \in Pools \ {p} : resume'[q] = resume[q]
  /\ ~preserve => resume'[p] = 0
  /\ \/ resume'[p] \in {0, resume[p]}
     \/ entries[p] # 0 /\ resume'[p] = procs[entries[p]].sess
  /\ preserve /\ (entries[p] = 0 \/ procs[entries[p]].sess = 0) =>
       resume'[p] = resume[p]
  /\ preserve /\ entries[p] # 0 /\ procs[entries[p]].sess # 0 =>
       resume'[p] = procs[entries[p]].sess

Finishes(j, r) ==
  /\ Only(j) /\ task'[j].pc = "done"
  /\ task'[j].pool = task[j].pool
  /\ task'[j].with = 0 /\ task'[j].prey = 0
  /\ result' = [result EXCEPT ![j] = r]

Like(a, b) ==
  /\ a.pool = b.pool /\ a.prompt = b.prompt /\ a.from = b.from
  /\ a.stale = b.stale /\ a.sess = b.sess /\ a.alive = b.alive
  /\ a.todo = b.todo /\ a.out = b.out

\* Nothing but locks and counters changes, of all processes but n.
SameBut(n) ==
  /\ DOMAIN procs' = DOMAIN procs
  /\ \A m \in DOMAIN procs : m # n => Like(procs'[m], procs[m])
SameProcs == SameBut(0)

\* Processes keep what they were started with; none comes to life again, none
\* changes its session.
Lasting ==
  /\ Len(procs) <= Len(procs') /\ DOMAIN procs \subseteq DOMAIN procs'
  /\ \A n \in DOMAIN procs :
       /\ procs'[n].pool = procs[n].pool
       /\ procs'[n].from = procs[n].from /\ procs'[n].stale = procs[n].stale
       /\ procs'[n].alive => procs[n].alive
       /\ procs'[n].sess \in {procs[n].sess, Sid(n)}

LEMMA TaskSets ==
  /\ Jobs \subseteq Tasks /\ Reaper \in Tasks /\ Control \in Tasks
  /\ Reaper \notin Jobs /\ Control \notin Jobs /\ Reaper # Control
  /\ Jobs \subseteq Nat \ {0} /\ MaxJobs \in Nat
  BY CliPoolAssumption DEF Jobs, Reaper, Control, Tasks

LEMMA ProcsFacts ==
  ASSUME ProcsTyped
  PROVE  /\ Len(procs) \in Nat /\ DOMAIN procs = 1 .. Len(procs)
         /\ \A n \in DOMAIN procs : procs[n] \in ProcRec
  BY DEF ProcsTyped

LEMMA MoveFacts ==
  ASSUME TasksTyped, NEW t \in Tasks, NEW l \in Labels, MoveTo(t, l)
  PROVE  Moves(t, l) /\ TasksTyped'
<1>1. task' = [task EXCEPT ![t] = [task[t] EXCEPT !.pc = l]]
  BY DEF MoveTo
<1>2. task[t] \in TaskRec
  BY DEF TasksTyped
<1>3. [task[t] EXCEPT !.pc = l] \in TaskRec
  BY <1>2 DEF TaskRec
<1>. QED
  BY <1>1, <1>2, <1>3 DEF TasksTyped, Moves, Only, TaskRec

LEMMA KillFacts ==
  ASSUME ProcsTyped, TasksTyped, RestTyped, NEW t \in Tasks, NEW p \in Pools,
         NEW preserve \in BOOLEAN, NEW l \in Labels,
         KillThen(t, p, preserve, l)
  PROVE  Kills(t, p, preserve, l) /\ TasksTyped'
<1> DEFINE n == entries[p]
           x == IF Alive(n) THEN "killing" ELSE l
           y == IF Alive(n) THEN n ELSE 0
           z == IF Alive(n) THEN l ELSE "idle"
<1>1. n \in Nat /\ (n # 0 => n \in DOMAIN procs /\ procs[n].sess \in Nat)
  BY ProcsFacts DEF RestTyped, ProcRec
<1>2. task' = [task EXCEPT ![t] = [task[t] EXCEPT !.pc = x, !.prey = y, !.next = z]]
  BY DEF KillThen
<1>3. task[t] \in TaskRec
  BY DEF TasksTyped
<1>4. x \in Labels /\ y \in Nat /\ z \in Labels
  <2>1. CASE Alive(n)
    BY <1>1, <2>1 DEF Labels, JobPlaces
  <2>2. CASE ~Alive(n)
    BY <1>1, <2>2 DEF Labels, JobPlaces
  <2>. QED
    BY <2>1, <2>2
<1>5. /\ entries' = [entries EXCEPT ![p] = 0]
      /\ \/ ~preserve /\ resume' = [resume EXCEPT ![p] = 0]
         \/ /\ preserve /\ n # 0 /\ procs[n].sess # 0
            /\ resume' = [resume EXCEPT ![p] = procs[n].sess]
         \/ /\ preserve /\ ~(n # 0 /\ procs[n].sess # 0)
            /\ resume' = [resume EXCEPT ![p] = resume[p]]
  <2>1. CASE ~preserve
    BY <2>1, Zenon DEF KillThen
  <2>2. CASE preserve /\ n # 0 /\ procs[n].sess # 0
    BY <2>2, Zenon DEF KillThen
  <2>3. CASE preserve /\ ~(n # 0 /\ procs[n].sess # 0)
    BY <2>3, Zenon DEF KillThen
  <2>. QED
    BY <2>1, <2>2, <2>3, Zenon
<1>6. /\ x = IF Alive(n) THEN "killing" ELSE l
      /\ y = IF Alive(n) THEN n ELSE 0
      /\ z = IF Alive(n) THEN l ELSE "idle"
  OBVIOUS
<1> HIDE DEF x, y, z
<1>7. [task[t] EXCEPT !.pc = x, !.prey = y, !.next = z] \in TaskRec
  BY <1>3, <1>4 DEF TaskRec
<1>8. /\ TasksTyped' /\ Only(t)
      /\ task'[t].pool = task[t].pool /\ task'[t].proc = task[t].proc
      /\ task'[t].with = task[t].with
      /\ IF Alive(n) THEN /\ task'[t].pc = "killing" /\ task'[t].prey = n
                          /\ task'[t].next = l
                     ELSE task'[t].pc = l /\ task'[t].prey = 0
  <2>1. /\ Only(t) /\ TasksTyped'
        /\ task'[t].pc = x /\ task'[t].prey = y /\ task'[t].next = z
        /\ task'[t].pool = task[t].pool /\ task'[t].proc = task[t].proc
        /\ task'[t].with = task[t].with
    BY <1>2, <1>3, <1>7 DEF TasksTyped, TaskRec, Only
  <2>. QED
    BY <1>6, <2>1
<1>9. /\ resume' \in [Pools -> Nat]
      /\ \A q \in Pools \ {p} : resume'[q] = resume[q]
  BY <1>1, <1>5 DEF RestTyped
<1>10. CASE ~preserve /\ resume' = [resume EXCEPT ![p] = 0]
  <2>1. resume'[p] = 0
    BY <1>10 DEF RestTyped
  <2>2. resume'[p] \in {0, resume[p]}
    BY <2>1
  <2>. QED
    BY <1>5, <1>8, <1>9, <1>10, <2>1, <2>2, Zenon DEF Kills
<1>11. CASE /\ preserve /\ n # 0 /\ procs[n].sess # 0
            /\ resume' = [resume EXCEPT ![p] = procs[n].sess]
  <2>1. resume'[p] = procs[n].sess
    BY <1>11 DEF RestTyped
  <2>. QED
    BY <1>5, <1>8, <1>9, <1>11, <2>1, Zenon DEF Kills
<1>12. CASE /\ preserve /\ ~(n # 0 /\ procs[n].sess # 0)
            /\ resume' = [resume EXCEPT ![p] = resume[p]]
  <2>1. resume'[p] = resume[p]
    BY <1>12 DEF RestTyped
  <2>2. resume'[p] \in {0, resume[p]}
    BY <2>1
  <2>. QED
    BY <1>5, <1>8, <1>9, <1>12, <2>1, <2>2, Zenon DEF Kills
<1>. QED
  BY <1>5, <1>10, <1>11, <1>12, Zenon

LEMMA FinishFacts ==
  ASSUME TasksTyped, result \in [Jobs -> Int], NEW j \in Jobs, NEW r \in Int,
         Finish(j, r)
  PROVE  Finishes(j, r) /\ TasksTyped' /\ result' \in [Jobs -> Int]
<1>1. task' = [task EXCEPT ![j] = [Idle EXCEPT !.pc = "done", !.pool = task[j].pool]]
  BY DEF Finish
<1>2. task[j] \in TaskRec /\ j \in Tasks
  BY TaskSets DEF TasksTyped
<1>3. [Idle EXCEPT !.pc = "done", !.pool = task[j].pool] \in TaskRec
  <2>1. Idle \in [pc : {"idle"}, pool : {None}, stream : BOOLEAN, prompt : {None},
                 proc : Nat, prey : Nat, next : {"idle"}, asked : Nat,
                 with : Nat, retry : BOOLEAN]
    BY DEF Idle
  <2>2. task[j].pool \in Pools \cup {None}
    BY <1>2 DEF TaskRec
  <2>. QED
    BY <2>1, <2>2 DEF TaskRec, Labels, JobPlaces
<1>4. result' = [result EXCEPT ![j] = r]
  BY DEF Finish
<1>. QED
  BY <1>1, <1>2, <1>3, <1>4 DEF TasksTyped, Finishes, Only, Idle

LEMMA SetProc ==
  ASSUME NEW q \in Seq(ProcRec), NEW n \in DOMAIN q, NEW r \in ProcRec
  PROVE  /\ [q EXCEPT ![n] = r] \in Seq(ProcRec)
         /\ Len([q EXCEPT ![n] = r]) = Len(q)
         /\ DOMAIN [q EXCEPT ![n] = r] = DOMAIN q
         /\ [q EXCEPT ![n] = r][n] = r
         /\ \A m \in DOMAIN q : m # n => [q EXCEPT ![n] = r][m] = q[m]
  OBVIOUS

\* The processes in q are those of procs but for locks and counters.
Alike(q) ==
  /\ q \in Seq(ProcRec) /\ Len(q) = Len(procs) /\ DOMAIN q = DOMAIN procs
  /\ \A m \in DOMAIN procs : Like(q[m], procs[m])

LEMMA AlikeItself == ProcsTyped => Alike(procs)
  BY DEF Alike, ProcsTyped, Like

LEMMA UnlockFacts ==
  ASSUME ProcsTyped, NEW j \in Jobs
  PROVE  Alike(Unlock(j))
<1> DEFINE q == Unlock(j)
<1>1. \A n \in DOMAIN procs :
        /\ q[n] \in ProcRec
        /\ q[n] \in {procs[n], [procs[n] EXCEPT !.lock = NoJob]}
  BY ProcsFacts DEF Unlock, ProcRec, NoJob
<1>2. q = [n \in 1 .. Len(procs) |-> q[n]]
  BY ProcsFacts DEF Unlock
<1>3. q \in Seq(ProcRec) /\ Len(q) = Len(procs) /\ DOMAIN q = DOMAIN procs
  BY <1>1, <1>2, ProcsFacts
<1> HIDE DEF q
<1>4. \A n \in DOMAIN procs : Like(q[n], procs[n])
  BY <1>1, ProcsFacts DEF Like, ProcRec
<1>. QED
  BY <1>3, <1>4 DEF Alike, q

LEMMA SettleFacts ==
  ASSUME ProcsTyped, NEW j \in Jobs, task[j].proc \in DOMAIN procs
  PROVE  Alike(Settle(j))
<1> DEFINE n == task[j].proc
           u == Unlock(j)
           r == [u[n] EXCEPT !.turns = @ + 1]
<1>1. Alike(u)
  BY UnlockFacts
<1>2. Settle(j) = [u EXCEPT ![n] = r]
  BY DEF Settle
<1> HIDE DEF u
<1>3. u[n] \in ProcRec /\ n \in DOMAIN u /\ u \in Seq(ProcRec)
  BY <1>1, ProcsFacts DEF Alike
<1>4. r \in ProcRec /\ Like(r, u[n])
  <2>0. u[n].turns \in Nat
    BY <1>3 DEF ProcRec
  <2>1. u[n].turns + 1 \in Nat
    BY <2>0
  <2>. QED
    BY <1>3, <2>1 DEF ProcRec, Like
<1> HIDE DEF r
<1> DEFINE q == [u EXCEPT ![n] = r]
<1>5. /\ q \in Seq(ProcRec) /\ Len(q) = Len(u) /\ DOMAIN q = DOMAIN u
      /\ q[n] = r /\ \A m \in DOMAIN u : m # n => q[m] = u[m]
  BY <1>3, <1>4, SetProc
<1> HIDE DEF q
<1>6. \A m \in DOMAIN procs : Like(q[m], u[m]) /\ Like(u[m], procs[m])
  BY <1>1, <1>4, <1>5 DEF Alike, Like
<1>7. \A m \in DOMAIN procs : Like(q[m], procs[m])
  BY <1>6 DEF Like
<1>. QED
  BY <1>1, <1>2, <1>5, <1>7 DEF Alike, q

LEMMA AlikeFacts ==
  ASSUME ProcsTyped, Alike(procs')
  PROVE  ProcsTyped' /\ SameProcs /\ Lasting /\ Len(procs') = Len(procs)
<1>1. ProcsTyped' /\ SameProcs
  BY DEF Alike, ProcsTyped, SameProcs, SameBut
<1>2. Len(procs) \in Nat
  BY ProcsFacts
<1>. QED
  BY <1>1, <1>2 DEF Alike, Like, Lasting

LEMMA SetTask ==
  ASSUME TasksTyped, NEW t \in Tasks, NEW r \in TaskRec,
         task' = [task EXCEPT ![t] = r]
  PROVE  TasksTyped' /\ Only(t) /\ task'[t] = r
  BY DEF TasksTyped, Only

LEMMA LikeItself == \A r : Like(r, r)
  BY DEF Like

LEMMA NoProcess == ASSUME ProcsTyped PROVE 0 \notin DOMAIN procs
  BY ProcsFacts

LEMMA ArriveFacts ==
  ASSUME Base, NEW j \in Jobs, NEW p \in Pools, NEW st \in StreamFlags,
         NEW pr \in Prompts, NEW s \in Known(p) \cup {0}, Arrive(j, p, st, pr, s)
  PROVE  /\ TasksTyped' /\ Only(j)
         /\ task'[j].pc \in {"send", "resume"} /\ task'[j].pool = p
         /\ task'[j].with = task[j].with /\ task'[j].prey = task[j].prey
<1> DEFINE l == IF s = 0 THEN "send" ELSE "resume"
<1>1. task[j] \in TaskRec /\ j \in Tasks
  BY TaskSets DEF Base, TasksTyped
<1>2. s \in Nat
  BY ProcsFacts DEF Base, Known, ProcRec
<1>3. l \in {"send", "resume"} /\ l \in Labels
  BY DEF Labels, JobPlaces
<1>4. st \in BOOLEAN
  BY CliPoolAssumption
<1>5. task' = [task EXCEPT ![j] = [task[j] EXCEPT !.pc = l, !.pool = p, !.stream = st,
                                        !.prompt = pr, !.asked = s]]
  BY DEF Arrive
<1> HIDE DEF l
<1>6. [task[j] EXCEPT !.pc = l, !.pool = p, !.stream = st, !.prompt = pr,
                      !.asked = s] \in TaskRec
  BY <1>1, <1>2, <1>3, <1>4 DEF TaskRec
<1>7. /\ TasksTyped' /\ Only(j)
      /\ task'[j] = [task[j] EXCEPT !.pc = l, !.pool = p, !.stream = st,
                                    !.prompt = pr, !.asked = s]
  BY <1>1, <1>5, <1>6, SetTask DEF Base
<1>. QED
  BY <1>1, <1>3, <1>7 DEF TaskRec

\* A job takes the process of its pool, a new one, or the session to resume.
LEMMA HandFacts ==
  ASSUME TasksTyped, NEW j \in Jobs, NEW l \in Labels, NEW n \in Nat, NEW w \in Nat,
         task' = [task EXCEPT ![j].pc = l, ![j].proc = n, ![j].with = w]
  PROVE  /\ TasksTyped' /\ Only(j)
         /\ task'[j].pc = l /\ task'[j].proc = n /\ task'[j].with = w
         /\ task'[j].pool = task[j].pool /\ task'[j].prey = task[j].prey
<1> DEFINE r == [task[j] EXCEPT !.pc = l, !.proc = n, !.with = w]
<1>1. task[j] \in TaskRec /\ j \in Tasks
  BY TaskSets DEF TasksTyped
<1>2. /\ r \in TaskRec /\ r.pc = l /\ r.proc = n /\ r.with = w
      /\ r.pool = task[j].pool /\ r.prey = task[j].prey
  BY <1>1 DEF TaskRec
<1>3. task' = [task EXCEPT ![j] = r]
  OBVIOUS
<1> HIDE DEF r
<1>4. TasksTyped' /\ Only(j) /\ task'[j] = r
  BY <1>1, <1>2, <1>3, SetTask, Zenon
<1>. QED
  BY <1>2, <1>4, Zenon

LEMMA TakeFacts ==
  ASSUME TasksTyped, NEW j \in Jobs, NEW n \in Nat,
         task' = [task EXCEPT ![j].pc = "lock", ![j].proc = n]
  PROVE  /\ TasksTyped' /\ Only(j)
         /\ task'[j].pc = "lock" /\ task'[j].proc = n
         /\ task'[j].pool = task[j].pool /\ task'[j].prey = task[j].prey
         /\ task'[j].with = task[j].with
<1> DEFINE r == [task[j] EXCEPT !.pc = "lock", !.proc = n]
<1>1. task[j] \in TaskRec /\ j \in Tasks
  BY TaskSets DEF TasksTyped
<1>2. /\ r \in TaskRec /\ r.pc = "lock" /\ r.proc = n /\ r.with = task[j].with
      /\ r.pool = task[j].pool /\ r.prey = task[j].prey
  BY <1>1 DEF TaskRec, Labels, JobPlaces, AtProc
<1>3. task' = [task EXCEPT ![j] = r]
  OBVIOUS
<1> HIDE DEF r
<1>4. TasksTyped' /\ Only(j) /\ task'[j] = r
  BY <1>1, <1>2, <1>3, SetTask, Zenon
<1>. QED
  BY <1>2, <1>4, Zenon

LEMMA SpawnFacts ==
  ASSUME Base, NEW j \in Jobs, Spawn(j)
  PROVE  /\ TasksTyped' /\ Only(j) /\ task[j].pool \in Pools
         /\ task'[j].pc = "spawning" /\ task'[j].with = resume[task[j].pool]
         /\ task'[j].pool = task[j].pool /\ task'[j].prey = task[j].prey
         /\ resume' = [resume EXCEPT ![task[j].pool] = 0]
<1>1. task[j] \in TaskRec /\ j \in Tasks /\ task[j].pool \in Pools
  BY TaskSets DEF Base, TasksTyped, Links, TaskOk, Spawn
<1>2. resume[task[j].pool] \in Nat
  BY <1>1 DEF Base, RestTyped
<1>3. task' = [task EXCEPT ![j] =
                 [task[j] EXCEPT !.pc = "spawning", !.with = resume[task[j].pool]]]
  BY DEF Spawn
<1>4. [task[j] EXCEPT !.pc = "spawning", !.with = resume[task[j].pool]] \in TaskRec
  BY <1>1, <1>2 DEF TaskRec, Labels, JobPlaces
<1>5. /\ TasksTyped' /\ Only(j)
      /\ task'[j] = [task[j] EXCEPT !.pc = "spawning",
                                    !.with = resume[task[j].pool]]
  BY <1>1, <1>3, <1>4, SetTask DEF Base
<1>6. resume' = [resume EXCEPT ![task[j].pool] = 0]
  BY DEF Spawn
<1>7. /\ task'[j].pc = "spawning" /\ task'[j].with = resume[task[j].pool]
      /\ task'[j].pool = task[j].pool /\ task'[j].prey = task[j].prey
  BY <1>1, <1>5 DEF TaskRec
<1>. QED
  BY <1>1, <1>5, <1>6, <1>7

LEMMA SpawnedFacts ==
  ASSUME Base, NEW j \in Jobs, Spawned(j)
  PROVE  LET n == Len(procs) + 1
             p == task[j].pool
         IN  /\ ProcsTyped' /\ TasksTyped' /\ Only(j) /\ p \in Pools
             /\ task'[j].pc = "lock" /\ task'[j].proc = n /\ task'[j].with = 0
             /\ task'[j].pool = p /\ task'[j].prey = task[j].prey
             /\ entries' = [entries EXCEPT ![p] = n]
             /\ Len(procs') = n /\ n \in DOMAIN procs' /\ n \notin DOMAIN procs
             /\ \A m \in DOMAIN procs : m \in DOMAIN procs' /\ procs'[m] = procs[m]
             /\ procs'[n].pool = p /\ procs'[n].from = task[j].with
             /\ procs'[n].sess = 0 /\ procs'[n].alive
             /\ procs'[n].todo = <<>> /\ procs'[n].out = <<>>
<1> DEFINE n == Len(procs) + 1
           p == task[j].pool
           new(gone) == [pool |-> task[j].pool, prompt |-> task[j].prompt,
                   from |-> task[j].with, stale |-> gone, sess |-> 0,
                   alive |-> TRUE, turns |-> 0, lock |-> NoJob,
                   todo |-> << >>, out |-> << >>]
<1>1. task[j] \in TaskRec /\ j \in Tasks /\ p \in Pools /\ task[j].pc = "spawning"
  BY TaskSets DEF Base, TasksTyped, Links, TaskOk, Spawned
<1>2. PICK gone \in BOOLEAN : procs' = Append(procs, new(gone))
  BY DEF Spawned
<1>3. task' = [task EXCEPT ![j].pc = "lock", ![j].proc = n, ![j].with = 0]
  BY DEF Spawned
<1>4. n \in Nat /\ Len(procs) \in Nat
  BY ProcsFacts DEF Base
<1>5. new(gone) \in ProcRec
  BY <1>1 DEF TaskRec, ProcRec, NoJob
<1>6. /\ TasksTyped' /\ Only(j)
      /\ task'[j].pc = "lock" /\ task'[j].proc = n /\ task'[j].with = 0
      /\ task'[j].pool = p /\ task'[j].prey = task[j].prey
  <2>1. "lock" \in Labels
    BY DEF Labels, JobPlaces, AtProc
  <2>. QED
    BY <1>3, <1>4, <2>1, HandFacts DEF Base
<1>7. /\ new(gone).pool = p /\ new(gone).from = task[j].with
      /\ new(gone).sess = 0 /\ new(gone).alive
      /\ new(gone).todo = <<>> /\ new(gone).out = <<>>
  OBVIOUS
<1>8. entries' = [entries EXCEPT ![p] = n]
  BY DEF Spawned
<1> HIDE DEF new
<1>9. /\ ProcsTyped' /\ Len(procs') = n /\ DOMAIN procs' = 1 .. n
      /\ procs'[n] = new(gone)
      /\ \A m \in 1 .. Len(procs) : procs'[m] = procs[m]
  BY <1>2, <1>4, <1>5 DEF Base, ProcsTyped
<1>10. DOMAIN procs = 1 .. Len(procs)
  BY DEF Base, ProcsTyped
<1>. QED
  BY <1>1, <1>4, <1>6, <1>7, <1>8, <1>9, <1>10

\* The tasks that write to or read from a process.
LEMMA WriteFacts ==
  ASSUME Base, NEW j \in Jobs, Write(j)
  PROVE  LET n == task[j].proc
         IN  /\ n \in DOMAIN procs /\ ProcsTyped' /\ TasksTyped'
             /\ \/ /\ ~procs[n].alive /\ SameProcs /\ Finishes(j, Failed)
                   /\ result' \in [Jobs -> Int]
                \/ /\ procs[n].alive /\ SameBut(n)
                   /\ Like(procs'[n], [procs[n] EXCEPT !.todo = Append(@, j)])
                   /\ Moves(j, "guard") \/ Moves(j, "reading")
                   /\ UNCHANGED result
<1> DEFINE n == task[j].proc
<1>1. n \in DOMAIN procs /\ j \in Tasks /\ task[j].stream \in BOOLEAN
  BY TaskSets DEF Base, TasksTyped, Links, JobOk, Write, AtProc, TaskRec
<1>2. CASE ~procs[n].alive
  <2>1. procs' = Unlock(j) /\ Finish(j, Failed)
    BY <1>2 DEF Write
  <2>2. Failed \in Int
    BY DEF Failed
  <2>. QED
    BY <1>1, <1>2, <2>1, <2>2, UnlockFacts, AlikeFacts, FinishFacts DEF Base, RestTyped
<1>3. CASE procs[n].alive
  <2> DEFINE r == [procs[n] EXCEPT !.todo = Append(@, j),
                     !.turns = IF task[j].stream THEN @ + 1 ELSE @,
                     !.lock = IF task[j].stream THEN NoJob ELSE j]
  <2>1. procs' = [procs EXCEPT ![n] = r] /\ UNCHANGED result
    BY <1>3 DEF Write
  <2>2. procs[n] \in ProcRec
    BY <1>1, ProcsFacts DEF Base
  <2>3. r \in ProcRec /\ Like(r, [procs[n] EXCEPT !.todo = Append(@, j)])
    <3>1. Append(procs[n].todo, j) \in Seq(Jobs)
      BY <2>2 DEF ProcRec
    <3>2. /\ (IF task[j].stream THEN procs[n].turns + 1 ELSE procs[n].turns) \in Nat
          /\ (IF task[j].stream THEN NoJob ELSE j) \in Nat
      BY <2>2, TaskSets DEF ProcRec, NoJob
    <3>. QED
      BY <2>2, <3>1, <3>2 DEF ProcRec, Like
  <2> HIDE DEF r
  <2>4. /\ ProcsTyped' /\ SameBut(n) /\ procs'[n] = r
    BY <1>1, <2>1, <2>3, SetProc, LikeItself DEF Base, ProcsTyped, SameBut
  <2>5. \E l \in {"guard", "reading"} : MoveTo(j, l)
    BY <1>3 DEF Write
  <2>6. (Moves(j, "guard") \/ Moves(j, "reading")) /\ TasksTyped'
    BY <1>1, <2>5, MoveFacts DEF Base, Labels, JobPlaces, AtProc
  <2>. QED
    BY <1>1, <1>3, <2>1, <2>3, <2>4, <2>6
<1>. QED
  BY <1>2, <1>3

\* Processes other than n stay as they are, n keeps all but what it is read
\* or written.
SameButIo(n) ==
  /\ n \in DOMAIN procs /\ SameBut(n)
  /\ procs'[n].pool = procs[n].pool /\ procs'[n].prompt = procs[n].prompt
  /\ procs'[n].from = procs[n].from /\ procs'[n].stale = procs[n].stale

LEMMA ReadAnswerFacts ==
  ASSUME Base, NEW j \in Jobs, ReadAnswer(j)
  PROVE  LET n == task[j].proc
         IN  /\ ProcsTyped' /\ TasksTyped' /\ SameButIo(n)
             /\ procs[n].out \in Seq(Jobs \cup {Refused}) /\ procs[n].out # <<>>
             /\ Head(procs[n].out) # Refused
             /\ procs'[n].out = Tail(procs[n].out) /\ procs'[n].sess = Sid(n)
             /\ procs'[n].alive = procs[n].alive /\ procs'[n].todo = procs[n].todo
             /\ Finishes(j, Head(procs[n].out)) /\ result' \in [Jobs -> Int]
<1> DEFINE n == task[j].proc
           q == IF task[j].stream THEN procs ELSE Settle(j)
           r == [q[n] EXCEPT !.out = Tail(@), !.sess = Sid(n)]
<1>1. /\ n \in DOMAIN procs /\ j \in Tasks
      /\ procs[n].out # <<>> /\ Head(procs[n].out) # Refused
  BY TaskSets DEF Base, TasksTyped, Links, JobOk, ReadAnswer, AtProc, TaskRec
<1>2. procs' = [q EXCEPT ![n] = r] /\ Finish(j, Head(procs[n].out))
  BY DEF ReadAnswer
<1>3. Alike(q)
  BY <1>1, AlikeItself, SettleFacts DEF Base
<1> HIDE DEF q
<1>4. procs[n] \in ProcRec /\ n \in Nat
  BY <1>1, ProcsFacts DEF Base
<1>5. /\ q \in Seq(ProcRec) /\ n \in DOMAIN q /\ q[n] \in ProcRec
      /\ Like(q[n], procs[n])
  BY <1>1, <1>3, ProcsFacts DEF Base, Alike
<1>6. /\ procs[n].out \in Seq(Jobs \cup {Refused})
      /\ Tail(procs[n].out) \in Seq(Jobs \cup {Refused})
      /\ Head(procs[n].out) \in Jobs \cup {Refused}
  BY <1>1, <1>4 DEF ProcRec
<1>7. Sid(n) \in Nat
  BY <1>4 DEF Sid, ProcRec
<1>8. /\ r \in ProcRec /\ r.out = Tail(procs[n].out) /\ r.sess = Sid(n)
      /\ r.pool = procs[n].pool /\ r.prompt = procs[n].prompt
      /\ r.from = procs[n].from /\ r.stale = procs[n].stale
      /\ r.alive = procs[n].alive /\ r.todo = procs[n].todo
  <2>1. q[n].out = procs[n].out
    BY <1>5 DEF Like
  <2>. QED
    BY <1>5, <1>6, <1>7, <2>1 DEF ProcRec, Like
<1> HIDE DEF r
<1>9. /\ ProcsTyped' /\ DOMAIN procs' = DOMAIN q /\ procs'[n] = r
      /\ \A m \in DOMAIN q : m # n => procs'[m] = q[m]
  BY <1>2, <1>5, <1>8, SetProc, Zenon DEF ProcsTyped
<1>10. SameButIo(n)
  BY <1>1, <1>3, <1>8, <1>9 DEF SameButIo, SameBut, Alike
<1>11. Head(procs[n].out) \in Int
  BY <1>6, TaskSets DEF Refused
<1>12. Finishes(j, Head(procs[n].out)) /\ TasksTyped' /\ result' \in [Jobs -> Int]
  BY <1>2, <1>11, FinishFacts DEF Base, RestTyped
<1>. QED
  BY <1>1, <1>6, <1>8, <1>9, <1>10, <1>12

LEMMA ReadRefusalFacts ==
  ASSUME Base, NEW j \in Jobs, ReadRefusal(j)
  PROVE  LET n == task[j].proc
             p == task[j].pool
         IN  /\ p \in Pools /\ ProcsTyped' /\ TasksTyped' /\ SameButIo(n)
             /\ procs[n].out \in Seq(Jobs \cup {Refused}) /\ procs[n].out # <<>>
             /\ procs'[n].out = Tail(procs[n].out)
             /\ procs'[n].sess = procs[n].sess
             /\ procs'[n].alive = procs[n].alive /\ procs'[n].todo = procs[n].todo
             /\ \/ Kills(j, p, FALSE, "retry") /\ UNCHANGED result
                \/ /\ Finishes(j, Failed) /\ result' \in [Jobs -> Int]
                   /\ UNCHANGED <<entries, resume>>
<1> DEFINE n == task[j].proc
           p == task[j].pool
           q == IF task[j].stream THEN procs ELSE Settle(j)
           r == [q[n] EXCEPT !.out = Tail(@)]
           r0 == [procs[n] EXCEPT !.out = Tail(@)]
<1>1. /\ n \in DOMAIN procs /\ j \in Tasks /\ p \in Pools
      /\ procs[n].out # <<>>
  BY TaskSets DEF Base, TasksTyped, Links, JobOk, TaskOk, ReadRefusal, AtProc, TaskRec
<1>2. \/ /\ procs' = [procs EXCEPT ![n] = r0] /\ UNCHANGED result
         /\ KillThen(j, p, FALSE, "retry")
      \/ /\ procs' = [q EXCEPT ![n] = r] /\ Finish(j, Failed)
         /\ UNCHANGED <<entries, resume>>
  BY DEF ReadRefusal
<1>3. Alike(q) /\ Alike(procs)
  BY <1>1, AlikeItself, SettleFacts DEF Base
<1> HIDE DEF q
<1>4. procs[n] \in ProcRec
  BY <1>1, ProcsFacts DEF Base
<1>5. /\ procs[n].out \in Seq(Jobs \cup {Refused})
      /\ Tail(procs[n].out) \in Seq(Jobs \cup {Refused})
  BY <1>1, <1>4 DEF ProcRec
<1> DEFINE Took(x) == [x EXCEPT !.out = Tail(@)]
<1>6. ASSUME NEW s, Alike(s), procs' = [s EXCEPT ![n] = Took(s[n])]
      PROVE  /\ ProcsTyped' /\ SameButIo(n)
             /\ procs'[n].out = Tail(procs[n].out)
             /\ procs'[n].sess = procs[n].sess
             /\ procs'[n].alive = procs[n].alive /\ procs'[n].todo = procs[n].todo
  <2>1. /\ s \in Seq(ProcRec) /\ n \in DOMAIN s /\ s[n] \in ProcRec
        /\ Like(s[n], procs[n])
    BY <1>1, <1>6, ProcsFacts DEF Base, Alike
  <2> DEFINE x == Took(s[n])
  <2>2. /\ x \in ProcRec /\ x.out = Tail(procs[n].out) /\ x.sess = procs[n].sess
        /\ x.pool = procs[n].pool /\ x.prompt = procs[n].prompt
        /\ x.from = procs[n].from /\ x.stale = procs[n].stale
        /\ x.alive = procs[n].alive /\ x.todo = procs[n].todo
    <3>1. s[n].out = procs[n].out
      BY <2>1 DEF Like
    <3>. QED
      BY <2>1, <1>5, <3>1 DEF ProcRec, Like
  <2>0. procs' = [s EXCEPT ![n] = x]
    BY <1>6
  <2> HIDE DEF x
  <2>3. /\ ProcsTyped' /\ DOMAIN procs' = DOMAIN s /\ procs'[n] = x
        /\ \A m \in DOMAIN s : m # n => procs'[m] = s[m]
    BY <2>0, <2>1, <2>2, SetProc, Zenon DEF ProcsTyped
  <2>4. SameButIo(n)
    BY <1>1, <1>6, <2>2, <2>3 DEF SameButIo, SameBut, Alike
  <2>. QED
    BY <2>2, <2>3, <2>4
<1>7. CASE /\ procs' = [procs EXCEPT ![n] = r0] /\ UNCHANGED result
           /\ KillThen(j, p, FALSE, "retry")
  <2>1. Kills(j, p, FALSE, "retry") /\ TasksTyped'
    <3>1. "retry" \in Labels
      BY DEF Labels, JobPlaces
    <3>. QED
      BY <1>1, <1>7, <3>1, KillFacts DEF Base
  <2>. QED
    BY <1>1, <1>3, <1>5, <1>6, <1>7, <2>1
<1>8. CASE /\ procs' = [q EXCEPT ![n] = r] /\ Finish(j, Failed)
           /\ UNCHANGED <<entries, resume>>
  <2>1. Finishes(j, Failed) /\ TasksTyped' /\ result' \in [Jobs -> Int]
    BY <1>8, FinishFacts DEF Base, RestTyped, Failed
  <2>. QED
    BY <1>1, <1>3, <1>5, <1>6, <1>8, <2>1
<1>. QED
  BY <1>2, <1>7, <1>8

\* What Answer, Die and Killed do to a process n.
LEMMA OneProc ==
  ASSUME ProcsTyped, NEW n \in DOMAIN procs, NEW r \in ProcRec,
         procs' = [procs EXCEPT ![n] = r]
  PROVE  /\ ProcsTyped' /\ SameBut(n) /\ procs'[n] = r
         /\ Len(procs') = Len(procs)
  BY SetProc, LikeItself, Zenon DEF ProcsTyped, SameBut

LEMMA DiesFacts ==
  ASSUME ProcsTyped, NEW n \in DOMAIN procs,
         procs' = [procs EXCEPT ![n].alive = FALSE]
  PROVE  /\ ProcsTyped' /\ SameButIo(n) /\ ~procs'[n].alive
         /\ procs'[n].sess = procs[n].sess
         /\ procs'[n].todo = procs[n].todo /\ procs'[n].out = procs[n].out
<1> DEFINE r == [procs[n] EXCEPT !.alive = FALSE]
<1>1. procs[n] \in ProcRec
  BY ProcsFacts
<1>2. /\ r \in ProcRec /\ ~r.alive /\ r.sess = procs[n].sess
      /\ r.todo = procs[n].todo /\ r.out = procs[n].out
      /\ r.pool = procs[n].pool /\ r.prompt = procs[n].prompt
      /\ r.from = procs[n].from /\ r.stale = procs[n].stale
  BY <1>1 DEF ProcRec
<1>3. procs' = [procs EXCEPT ![n] = r]
  OBVIOUS
<1> HIDE DEF r
<1>. QED
  BY <1>2, <1>3, OneProc DEF SameButIo

LEMMA AnswerFacts ==
  ASSUME Base, NEW n \in DOMAIN procs, Answer(n)
  PROVE  /\ ProcsTyped' /\ SameButIo(n) /\ procs[n].todo # <<>>
         /\ procs[n].todo \in Seq(Jobs)
         /\ procs'[n].sess = procs[n].sess
         /\ procs[n].alive /\ (procs'[n].alive => ~procs[n].stale)
         /\ procs'[n].todo = Tail(procs[n].todo)
         /\ procs'[n].out = Append(procs[n].out,
                               IF procs[n].stale THEN Refused
                                                 ELSE Head(procs[n].todo))
<1> DEFINE a == IF procs[n].stale THEN Refused ELSE Head(procs[n].todo)
           r == [procs[n] EXCEPT !.todo = Tail(@), !.out = Append(@, a),
                                 !.alive = ~procs[n].stale]
<1>1. procs[n] \in ProcRec /\ procs[n].todo # <<>> /\ procs[n].alive
  BY ProcsFacts DEF Base, Answer
<1>2. /\ procs[n].todo \in Seq(Jobs) /\ procs[n].out \in Seq(Jobs \cup {Refused})
      /\ procs[n].stale \in BOOLEAN
  BY <1>1 DEF ProcRec
<1>3. Tail(procs[n].todo) \in Seq(Jobs) /\ Head(procs[n].todo) \in Jobs
  BY <1>1, <1>2
<1>4. Append(procs[n].out, a) \in Seq(Jobs \cup {Refused})
  BY <1>2, <1>3
<1>5. procs' = [procs EXCEPT ![n] = r]
  BY DEF Answer
<1> HIDE DEF a
<1>6. /\ r \in ProcRec /\ r.alive = ~procs[n].stale /\ r.sess = procs[n].sess
      /\ r.todo = Tail(procs[n].todo) /\ r.out = Append(procs[n].out, a)
      /\ r.pool = procs[n].pool /\ r.prompt = procs[n].prompt
      /\ r.from = procs[n].from /\ r.stale = procs[n].stale
  BY <1>1, <1>2, <1>3, <1>4 DEF ProcRec
<1> HIDE DEF r
<1>7. ProcsTyped' /\ SameBut(n) /\ procs'[n] = r
  BY <1>5, <1>6, OneProc DEF Base
<1>. QED
  BY <1>1, <1>2, <1>6, <1>7 DEF SameButIo, a

LEMMA KilledFacts ==
  ASSUME Base, NEW t \in Tasks, Killed(t)
  PROVE  LET n == task[t].prey
         IN  /\ n \in DOMAIN procs /\ ProcsTyped' /\ SameButIo(n)
             /\ ~procs'[n].alive /\ procs'[n].sess = procs[n].sess
             /\ procs'[n].todo = procs[n].todo /\ procs'[n].out = procs[n].out
             /\ TasksTyped' /\ Only(t)
             /\ task'[t].pc = task[t].next /\ task'[t].prey = 0
             /\ task'[t].pool = task[t].pool /\ task'[t].proc = task[t].proc
             /\ task'[t].with = task[t].with
<1> DEFINE r == [task[t] EXCEPT !.pc = task[t].next, !.prey = 0, !.next = "idle"]
<1>1. task[t].prey \in DOMAIN procs /\ task[t] \in TaskRec
  BY DEF Base, TasksTyped, Links, TaskOk, Killed
<1>2. /\ r \in TaskRec /\ r.pc = task[t].next /\ r.prey = 0
      /\ r.pool = task[t].pool /\ r.proc = task[t].proc /\ r.with = task[t].with
  BY <1>1 DEF TaskRec, Labels, JobPlaces
<1>3. task' = [task EXCEPT ![t] = r]
  BY DEF Killed
<1> HIDE DEF r
<1>4. TasksTyped' /\ Only(t) /\ task'[t] = r
  BY <1>2, <1>3, SetTask, Zenon DEF Base
<1>5. procs' = [procs EXCEPT ![task[t].prey].alive = FALSE]
  BY DEF Killed
<1>. QED
  BY <1>1, <1>2, <1>4, <1>5, DiesFacts DEF Base

LEMMA RetryFacts ==
  ASSUME Base, NEW j \in Jobs, Retry(j)
  PROVE  /\ ProcsTyped' /\ SameProcs /\ Lasting /\ Len(procs') = Len(procs)
         /\ TasksTyped' /\ Moves(j, "send")
<1> DEFINE r == [task[j] EXCEPT !.pc = "send", !.retry = TRUE]
<1>1. task[j] \in TaskRec /\ j \in Tasks
  BY TaskSets DEF Base, TasksTyped
<1>2. /\ r \in TaskRec /\ r.pc = "send" /\ r.prey = task[j].prey
      /\ r.pool = task[j].pool /\ r.proc = task[j].proc
      /\ r.with = task[j].with /\ r.next = task[j].next
  BY <1>1 DEF TaskRec, Labels, JobPlaces
<1>3. task' = [task EXCEPT ![j] = r]
  BY DEF Retry
<1> HIDE DEF r
<1>4. TasksTyped' /\ Only(j) /\ task'[j] = r
  BY <1>1, <1>2, <1>3, SetTask, Zenon DEF Base
<1>5. Alike(procs')
  BY UnlockFacts DEF Base, Retry
<1>. QED
  BY <1>2, <1>4, <1>5, AlikeFacts DEF Base, Moves

LEMMA ControlFacts ==
  ASSUME Base
  PROVE  /\ \A op \in Ops, p \in Pools : \A s \in Known(p) \cup {0} :
              ControlCmd(op, p, s) =>
                /\ TasksTyped' /\ Only(Control)
                /\ task'[Control].pc = op /\ task'[Control].pool = p
                /\ task'[Control].with = task[Control].with
                /\ task'[Control].prey = task[Control].prey
         /\ ControlAck =>
              /\ TasksTyped' /\ Only(Control) /\ task'[Control] = Idle
<1>1. task[Control] \in TaskRec /\ Control \in Tasks
  BY TaskSets DEF Base, TasksTyped
<1>2. ASSUME NEW op \in Ops, NEW p \in Pools, NEW s \in Known(p) \cup {0},
             ControlCmd(op, p, s)
      PROVE  /\ TasksTyped' /\ Only(Control)
             /\ task'[Control].pc = op /\ task'[Control].pool = p
             /\ task'[Control].with = task[Control].with
             /\ task'[Control].prey = task[Control].prey
  <2> DEFINE r == [task[Control] EXCEPT !.pc = op, !.pool = p, !.asked = s]
  <2>1. op \in Labels
    BY CliPoolAssumption DEF Labels, JobPlaces
  <2>2. s \in Nat
    BY ProcsFacts DEF Base, Known, ProcRec
  <2>3. /\ r \in TaskRec /\ r.pc = op /\ r.pool = p
        /\ r.with = task[Control].with /\ r.prey = task[Control].prey
    BY <1>1, <2>1, <2>2 DEF TaskRec
  <2>4. task' = [task EXCEPT ![Control] = r]
    BY <1>2 DEF ControlCmd
  <2> HIDE DEF r
  <2>5. TasksTyped' /\ Only(Control) /\ task'[Control] = r
    BY <1>1, <2>3, <2>4, SetTask, Zenon DEF Base
  <2>. QED
    BY <2>3, <2>5
<1>3. ASSUME ControlAck
      PROVE  TasksTyped' /\ Only(Control) /\ task'[Control] = Idle
  <2>1. Idle \in TaskRec
    BY DEF Idle, TaskRec, Labels, JobPlaces
  <2>. QED
    BY <1>1, <1>3, <2>1, SetTask, Zenon DEF Base, ControlAck
<1>. QED
  BY <1>2, <1>3

LEMMA IoLasts ==
  ASSUME ProcsTyped, ProcsTyped', NEW n \in DOMAIN procs, SameButIo(n),
         procs'[n].alive => procs[n].alive,
         procs'[n].sess \in {procs[n].sess, Sid(n)}
  PROVE  Lasting /\ Len(procs') = Len(procs)
<1>1. DOMAIN procs = 1 .. Len(procs) /\ Len(procs) \in Nat
  BY DEF ProcsTyped
<1>2. DOMAIN procs' = 1 .. Len(procs') /\ Len(procs') \in Nat
  BY DEF ProcsTyped
<1>3. Len(procs') = Len(procs)
  BY <1>1, <1>2 DEF SameButIo, SameBut
<1>. QED
  BY <1>1, <1>3 DEF SameButIo, SameBut, Like, Lasting

LEMMA Steady ==
  ASSUME Base, ProcsTyped', TasksTyped', Lasting, NEW t \in Tasks, Only(t),
         \/ entries' = entries
         \/ \E p \in Pools : entries' = [entries EXCEPT ![p] = 0],
         resume' \in [Pools -> Nat], result' \in [Jobs -> Int],
         \A j \in Jobs : j # t => result'[j] = result[j],
         due' \subseteq Pools, left' = left, cut' \subseteq DOMAIN procs,
         barred' \in [Pools -> SUBSET DOMAIN procs],
         TaskOk(t)', t \in Jobs => JobOk(t)'
  PROVE  Base'
<1>1. /\ Len(procs) \in Nat /\ Len(procs') \in Nat /\ Len(procs) <= Len(procs')
      /\ DOMAIN procs \subseteq DOMAIN procs' /\ DOMAIN procs = 1 .. Len(procs)
  BY ProcsFacts DEF Base, ProcsTyped, Lasting
<1>2. /\ entries' \in [Pools -> 0 .. Len(procs)]
      /\ \A p \in Pools : entries'[p] \in {0, entries[p]}
  <2>1. entries \in [Pools -> 0 .. Len(procs)] /\ 0 \in 0 .. Len(procs)
    BY <1>1 DEF Base, RestTyped
  <2>2. CASE entries' = entries
    BY <2>1, <2>2
  <2>3. ASSUME NEW p \in Pools, entries' = [entries EXCEPT ![p] = 0]
        PROVE  /\ entries' \in [Pools -> 0 .. Len(procs)]
               /\ \A q \in Pools : entries'[q] \in {0, entries[q]}
    BY <2>1, <2>3
  <2>. QED
    BY <2>2, <2>3
<1>3. RestTyped'
  <2>1. 0 .. Len(procs) \subseteq 0 .. Len(procs')
    BY <1>1
  <2>2. entries' \in [Pools -> 0 .. Len(procs')]
    BY <1>2, <2>1
  <2>3. barred' \in [Pools -> SUBSET DOMAIN procs'] /\ cut' \subseteq DOMAIN procs'
    BY <1>1
  <2>. QED
    BY <2>2, <2>3 DEF Base, RestTyped
<1>4. ASSUME NEW p \in Pools, entries'[p] # 0 PROVE procs'[entries'[p]].pool = p
  <2>1. entries'[p] = entries[p] /\ entries[p] \in 0 .. Len(procs)
    BY <1>2, <1>4 DEF Base, RestTyped
  <2>2. entries[p] \in DOMAIN procs /\ procs[entries[p]].pool = p
    BY <1>1, <1>4, <2>1 DEF Base, Links
  <2>. QED
    BY <2>1, <2>2 DEF Lasting
<1>5. ASSUME NEW u \in Tasks PROVE TaskOk(u)'
  BY <1>1, <1>5 DEF Base, Links, TaskOk, Only
<1>6. ASSUME NEW j \in Jobs PROVE JobOk(j)'
  BY <1>1, <1>6, TaskSets DEF Base, Links, JobOk, Only, Lasting
<1>. QED
  BY <1>3, <1>4, <1>5, <1>6 DEF Base, Links


LEMMA JobFacts ==
  ASSUME Base, NEW j \in Jobs, task[j].pc # "idle"
  PROVE  /\ j \in Tasks /\ j # Reaper /\ j # Control
         /\ task[j].pool \in Pools /\ TaskOk(j) /\ JobOk(j)
         /\ task[j] \in TaskRec
  BY TaskSets DEF Base, TasksTyped, Links, TaskOk

LEMMA UnchangedLasts ==
  ASSUME ProcsTyped, procs' = procs
  PROVE  ProcsTyped' /\ SameProcs /\ Lasting /\ Len(procs') = Len(procs)
  BY AlikeItself, AlikeFacts DEF Alike

(***************************************************************************)
(* The kinds of step a job takes.                                           *)
(***************************************************************************)
Tame(t) ==
  ProcsTyped' /\ TasksTyped' /\ Lasting /\ Only(t) /\ left' = left /\ due' = due

\* The job goes on to another label.
Walks(j) ==
  /\ SameProcs /\ Moves(j, task'[j].pc)
  /\ UNCHANGED <<entries, resume, result, cut, barred>>
  /\ \/ task[j].pc \in {"resume", "retry"} /\ task'[j].pc = "send"
     \/ task[j].pc = "send" /\ task'[j].pc = "spawn" /\ ~Served(task[j].pool)
     \/ task[j].pc \in {"lock", "queued"} /\ task'[j].pc \in {"queued", "write"}
     \/ task[j].pc = "guard" /\ task'[j].pc = "reading"
     \/ /\ task[j].pc = "reading" /\ task'[j].pc = "empty"
        /\ ~procs[task[j].proc].alive \/ entries[task[j].pool] # task[j].proc

\* resume_direct schedules the session.
Schedules(t) ==
  /\ SameProcs /\ UNCHANGED <<entries, result, cut>>
  /\ task[t].pc = "setresume"
  /\ Moves(t, IF t = Control THEN "acked" ELSE "send")
  /\ resume' = [resume EXCEPT ![task[t].pool] = task[t].asked]
  /\ barred' = [barred EXCEPT ![task[t].pool] = @ \ {task[t].asked}]

\* It takes the live process of its pool,
Takes(j) ==
  /\ SameProcs /\ UNCHANGED <<entries, resume, result, cut, barred>>
  /\ task[j].pc = "send" /\ task'[j].pc = "lock"
  /\ task'[j].pool = task[j].pool /\ task'[j].with = task[j].with
  /\ task'[j].prey = task[j].prey
  /\ Served(task[j].pool) /\ task'[j].proc = entries[task[j].pool]

\* the session for a new one,
Begins(j) ==
  /\ SameProcs /\ UNCHANGED <<entries, result, cut, barred>>
  /\ task[j].pc = "spawn" /\ task'[j].pc = "spawning"
  /\ task'[j].pool = task[j].pool /\ task'[j].prey = task[j].prey
  /\ task'[j].with = resume[task[j].pool]
  /\ resume' = [resume EXCEPT ![task[j].pool] = 0]

\* or the new one.
Starts(j) ==
  LET n == Len(procs) + 1
      p == task[j].pool
  IN
  /\ UNCHANGED <<resume, result, cut, barred>>
  /\ task[j].pc = "spawning" /\ task'[j].pc = "lock"
  /\ task'[j].proc = n /\ task'[j].with = 0
  /\ task'[j].pool = p /\ task'[j].prey = task[j].prey
  /\ entries' = [entries EXCEPT ![p] = n]
  /\ Len(procs') = n /\ n \in DOMAIN procs' /\ n \notin DOMAIN procs
  /\ \A m \in DOMAIN procs : m \in DOMAIN procs' /\ procs'[m] = procs[m]
  /\ procs'[n].pool = p /\ procs'[n].from = task[j].with
  /\ procs'[n].sess = 0 /\ procs'[n].alive
  /\ procs'[n].todo = <<>> /\ procs'[n].out = <<>>

\* It writes its prompt.
Writes(j) ==
  LET n == task[j].proc IN
  /\ n \in DOMAIN procs /\ SameBut(n)
  /\ Like(procs'[n], [procs[n] EXCEPT !.todo = Append(@, j)])
  /\ UNCHANGED <<entries, resume, result, cut, barred>>
  /\ task[j].pc = "write" /\ task'[j].pc \in {"guard", "reading"}
  /\ Moves(j, task'[j].pc)

\* It reads what waits in stdout.
Reads(n, a) ==
  /\ SameButIo(n)
  /\ procs[n].out \in Seq(Jobs \cup {Refused}) /\ procs[n].out # <<>>
  /\ a = Head(procs[n].out) /\ procs'[n].out = Tail(procs[n].out)
  /\ procs'[n].alive = procs[n].alive /\ procs'[n].todo = procs[n].todo
  /\ procs'[n].sess = IF a = Refused THEN procs[n].sess ELSE Sid(n)

\* It kills the process of its pool.
Cause(j, preserve, l) ==
  \/ task[j].pc = "resume" /\ ~preserve /\ l = "setresume"
  \/ task[j].pc = "send" /\ ~preserve /\ l = "spawn"
  \/ task[j].pc \in {"guard", "reading"} /\ ~preserve /\ l = "retry"
  \/ task[j].pc = "reading" /\ preserve /\ l = "fail"
  \/ task[j].pc = "reading" /\ ~preserve /\ l = "empty"

Fells(j) ==
  /\ \/ SameProcs
     \/ task[j].pc = "reading" /\ Reads(task[j].proc, Refused)
  /\ UNCHANGED <<result, cut, barred>>
  /\ \E preserve \in BOOLEAN, l \in JobPlaces :
       Kills(j, task[j].pool, preserve, l) /\ Cause(j, preserve, l)

\* It ends without an answer, or with one.
Ends(j) ==
  /\ UNCHANGED <<entries, resume, barred>>
  /\ result' \in [Jobs -> Int]
  /\ \/ /\ SameProcs /\ cut' = cut
        /\ Finishes(j, Failed) \/ Finishes(j, Empty)
        /\ \/ task[j].pc \in {"spawning", "fail", "empty"}
           \/ task[j].pc = "write" /\ ~procs[task[j].proc].alive
           \/ /\ task[j].pc = "reading"
              /\ \E k \in Jobs : /\ k # j /\ task[k].pc = "reading"
                                 /\ task[k].proc = task[j].proc
     \/ /\ SameProcs /\ task[j].pc = "reading"
        /\ cut' = cut \cup {task[j].proc} /\ Finishes(j, Failed)
     \/ /\ task[j].pc = "reading" /\ cut' = cut
        /\ \E a \in Jobs \cup {Refused} :
             /\ Reads(task[j].proc, a)
             /\ Finishes(j, IF a = Refused THEN Failed ELSE a)

JobDoes(j) ==
  /\ Tame(j)
  /\ Walks(j) \/ Schedules(j) \/ Takes(j) \/ Begins(j) \/ Starts(j)
      \/ Writes(j) \/ Fells(j) \/ Ends(j)

\* A label the job stands at and one it moves to.
LEMMA MoveKind ==
  ASSUME Base, NEW j \in Jobs, NEW l \in JobPlaces, MoveTo(j, l), procs' = procs,
         UNCHANGED <<left, due>>
  PROVE  Tame(j) /\ SameProcs /\ Moves(j, l)
  BY TaskSets, UnchangedLasts, MoveFacts DEF Base, Tame, Labels, Moves

LEMMA KillKind ==
  ASSUME Base, NEW j \in Jobs, task[j].pc # "idle", NEW preserve \in BOOLEAN,
         NEW l \in JobPlaces, KillThen(j, task[j].pool, preserve, l),
         Cause(j, preserve, l),
         procs' = procs, UNCHANGED <<result, cut, barred, left, due>>
  PROVE  Tame(j) /\ Fells(j)
<1>1. task[j].pool \in Pools /\ j \in Tasks /\ l \in Labels
  BY JobFacts DEF Labels
<1>2. Kills(j, task[j].pool, preserve, l) /\ TasksTyped'
  BY <1>1, KillFacts DEF Base
<1>3. Tame(j) /\ SameProcs
  BY <1>2, UnchangedLasts DEF Base, Tame, Kills
<1>4. \E y \in BOOLEAN, k \in JobPlaces :
         Kills(j, task[j].pool, y, k) /\ Cause(j, y, k)
  BY <1>2, Zenon
<1>. QED
  BY <1>3, <1>4 DEF Fells

LEMMA EndKind ==
  ASSUME Base, NEW j \in Jobs, NEW r \in Int, Finish(j, r), Alike(procs'),
         UNCHANGED <<left, due>>
  PROVE  Tame(j) /\ SameProcs /\ Finishes(j, r) /\ result' \in [Jobs -> Int]
  BY AlikeFacts, FinishFacts DEF Base, RestTyped, Tame, Finishes

LEMMA ResumeDirectKind ==
  ASSUME Base, NEW j \in Jobs, ResumeDirect(j)
  PROVE  Tame(j) /\ (Walks(j) \/ Fells(j))
<1>1. task[j].pc = "resume" /\ j # Control
  BY TaskSets DEF ResumeDirect
<1>2. CASE MoveTo(j, "send") /\ UNCHANGED <<entries, resume, override>>
  <2>1. Tame(j) /\ SameProcs /\ Moves(j, "send")
    BY <1>2, MoveKind DEF ResumeDirect, JobPlaces
  <2>. QED
    BY <1>1, <1>2, <2>1 DEF ResumeDirect, Walks, Moves
<1>3. CASE KillThen(j, task[j].pool, FALSE, "setresume")
  <2>1. "setresume" \in JobPlaces /\ Cause(j, FALSE, "setresume")
    BY <1>1 DEF JobPlaces, Cause
  <2>. QED
    BY <1>1, <1>3, <2>1, KillKind DEF ResumeDirect
<1>. QED
  BY <1>1, <1>2, <1>3 DEF ResumeDirect

LEMMA SetResumeKind ==
  ASSUME Base, NEW t \in Tasks, SetResume(t)
  PROVE  Tame(t) /\ Schedules(t)
<1> DEFINE l == IF t = Control THEN "acked" ELSE "send"
<1>1. l \in Labels
  BY DEF Labels, JobPlaces
<1>2. MoveTo(t, l)
  BY DEF SetResume
<1> HIDE DEF l
<1>3. Moves(t, l) /\ TasksTyped'
  BY <1>1, <1>2, MoveFacts DEF Base
<1>. QED
  BY <1>3, UnchangedLasts DEF Base, SetResume, Tame, Schedules, Moves, l

LEMMA SendKind ==
  ASSUME Base, NEW j \in Jobs, Send(j)
  PROVE  Tame(j) /\ (Walks(j) \/ Takes(j) \/ Fells(j))
<1> DEFINE p == task[j].pool
           n == entries[p]
<1>1. task[j].pc = "send" /\ p \in Pools
  BY JobFacts DEF Send
<1>2. CASE ~Alive(n) /\ MoveTo(j, "spawn") /\ UNCHANGED <<entries, resume, override>>
  <2>1. Tame(j) /\ SameProcs /\ Moves(j, "spawn")
    BY <1>2, MoveKind DEF Send, JobPlaces
  <2>. QED
    BY <1>1, <1>2, <2>1 DEF Send, Walks, Moves, Served
<1>3. CASE KillThen(j, p, FALSE, "spawn")
  <2>1. "spawn" \in JobPlaces /\ Cause(j, FALSE, "spawn")
    BY <1>1 DEF JobPlaces, Cause
  <2>. QED
    BY <1>1, <1>3, <2>1, KillKind DEF Send
<1>4. CASE /\ Alive(n) /\ UNCHANGED <<entries, resume, override>>
           /\ task' = [task EXCEPT ![j].pc = "lock", ![j].proc = n]
  <2>1. n \in Nat
    BY <1>1, ProcsFacts DEF Base, RestTyped
  <2>2. /\ TasksTyped' /\ Only(j)
        /\ task'[j].pc = "lock" /\ task'[j].proc = n
        /\ task'[j].pool = task[j].pool /\ task'[j].prey = task[j].prey
        /\ task'[j].with = task[j].with
    BY <1>4, <2>1, TakeFacts DEF Base
  <2>3. procs' = procs /\ UNCHANGED <<result, due, left, cut, barred>>
    BY DEF Send
  <2>. QED
    BY <1>1, <1>4, <2>2, <2>3, UnchangedLasts DEF Base, Tame, Takes, Served
<1>. QED
  BY <1>2, <1>3, <1>4 DEF Send

LEMMA SpawnKind ==
  ASSUME Base, NEW j \in Jobs, Spawn(j)
  PROVE  Tame(j) /\ Begins(j)
<1>1. /\ procs' = procs /\ UNCHANGED <<entries, result, due, left, cut, barred>>
      /\ task[j].pc = "spawn"
  BY DEF Spawn
<1>. QED
  BY <1>1, SpawnFacts, UnchangedLasts DEF Base, Tame, Begins

LEMMA SpawnedKind ==
  ASSUME Base, NEW j \in Jobs, Spawned(j)
  PROVE  Tame(j) /\ Starts(j)
<1> DEFINE n == Len(procs) + 1
<1>1. /\ ProcsTyped' /\ TasksTyped' /\ Only(j)
      /\ Len(procs') = n /\ n \in DOMAIN procs' /\ n \notin DOMAIN procs
      /\ \A m \in DOMAIN procs : m \in DOMAIN procs' /\ procs'[m] = procs[m]
  BY SpawnedFacts
<1>2. Len(procs) \in Nat /\ \A m \in DOMAIN procs : procs[m].sess \in {procs[m].sess, Sid(m)}
  BY ProcsFacts DEF Base
<1>3. Lasting
  BY <1>1, <1>2 DEF Lasting
<1>4. /\ task[j].pc = "spawning"
      /\ UNCHANGED <<resume, result, due, left, cut, barred>>
  BY DEF Spawned
<1>. QED
  BY <1>1, <1>3, <1>4, SpawnedFacts DEF Tame, Starts

LEMMA LockKind ==
  ASSUME Base, NEW j \in Jobs, Lock(j)
  PROVE  Tame(j) /\ Walks(j)
<1> DEFINE n == task[j].proc
<1>1. /\ task[j].pc \in {"lock", "queued"}
      /\ UNCHANGED <<entries, resume, result, due, left, cut, barred>>
  BY DEF Lock
<1>2. j \in Tasks /\ n \in DOMAIN procs
  BY <1>1, JobFacts DEF JobOk, AtProc
<1>3. CASE MoveTo(j, "queued") /\ procs' = procs
  <2>1. Tame(j) /\ SameProcs /\ Moves(j, "queued")
    BY <1>1, <1>3, MoveKind DEF JobPlaces, AtProc
  <2>. QED
    BY <1>1, <2>1 DEF Walks, Moves
<1>4. CASE MoveTo(j, "write") /\ procs' = [procs EXCEPT ![n].lock = j]
  <2> DEFINE r == [procs[n] EXCEPT !.lock = j]
  <2>1. procs[n] \in ProcRec /\ j \in Nat
    BY <1>2, TaskSets, ProcsFacts DEF Base
  <2>2. r \in ProcRec /\ Like(r, procs[n])
    BY <2>1 DEF ProcRec, Like
  <2>3. procs' = [procs EXCEPT ![n] = r]
    BY <1>4
  <2> HIDE DEF r
  <2>4. ProcsTyped' /\ SameBut(n) /\ procs'[n] = r /\ Len(procs') = Len(procs)
    BY <1>2, <2>2, <2>3, OneProc DEF Base
  <2>5. Alike(procs')
    BY <2>2, <2>4 DEF Alike, SameBut, ProcsTyped
  <2>6. Moves(j, "write") /\ TasksTyped'
    BY <1>2, <1>4, MoveFacts DEF Base, Labels, JobPlaces, AtProc
  <2>. QED
    BY <1>1, <2>5, <2>6, AlikeFacts DEF Base, Tame, Walks, Moves
<1>. QED
  BY <1>3, <1>4 DEF Lock

LEMMA WriteKind ==
  ASSUME Base, NEW j \in Jobs, Write(j)
  PROVE  Tame(j) /\ (Writes(j) \/ Ends(j))
<1> DEFINE n == task[j].proc
<1>1. /\ task[j].pc = "write"
      /\ UNCHANGED <<entries, resume, due, left, cut, barred>>
  BY DEF Write
<1>2. n \in DOMAIN procs /\ ProcsTyped' /\ TasksTyped' /\ procs[n] \in ProcRec
  BY WriteFacts, ProcsFacts DEF Base
<1>3. CASE /\ ~procs[n].alive /\ SameProcs /\ Finishes(j, Failed)
           /\ result' \in [Jobs -> Int]
  <2>1. ~procs[n].alive /\ procs' = Unlock(j)
    BY <1>3 DEF Write
  <2>2. Lasting
    BY <2>1, UnlockFacts, AlikeFacts DEF Base
  <2>. QED
    BY <1>1, <1>2, <1>3, <2>2 DEF Tame, Ends, Finishes
<1>4. CASE /\ procs[n].alive /\ SameBut(n)
           /\ Like(procs'[n], [procs[n] EXCEPT !.todo = Append(@, j)])
           /\ Moves(j, "guard") \/ Moves(j, "reading")
           /\ UNCHANGED result
  <2>1. /\ procs'[n].pool = procs[n].pool /\ procs'[n].prompt = procs[n].prompt
        /\ procs'[n].from = procs[n].from /\ procs'[n].stale = procs[n].stale
        /\ procs'[n].alive = procs[n].alive /\ procs'[n].sess = procs[n].sess
    BY <1>2, <1>4 DEF Like, ProcRec
  <2>2. Lasting
    BY <1>2, <1>4, <2>1, IoLasts DEF Base, SameButIo
  <2>. QED
    BY <1>1, <1>2, <1>4, <2>2 DEF Tame, Writes, Moves
<1>. QED
  BY <1>3, <1>4, WriteFacts

LEMMA GuardedKind ==
  ASSUME Base, NEW j \in Jobs, Guarded(j)
  PROVE  Tame(j) /\ (Walks(j) \/ Fells(j))
<1>1. task[j].pc = "guard" /\ procs' = procs
      /\ UNCHANGED <<result, due, left, cut, barred>>
  BY DEF Guarded
<1>2. CASE MoveTo(j, "reading") /\ UNCHANGED <<entries, resume, override>>
  <2>1. Tame(j) /\ SameProcs /\ Moves(j, "reading")
    BY <1>1, <1>2, MoveKind DEF JobPlaces, AtProc
  <2>. QED
    BY <1>1, <1>2, <2>1 DEF Walks, Moves
<1>3. CASE KillThen(j, task[j].pool, FALSE, "retry")
  <2>1. "retry" \in JobPlaces /\ Cause(j, FALSE, "retry")
    BY <1>1 DEF JobPlaces, Cause
  <2>. QED
    BY <1>1, <1>3, <2>1, KillKind
<1>. QED
  BY <1>2, <1>3 DEF Guarded

LEMMA RetryKind ==
  ASSUME Base, NEW j \in Jobs, Retry(j)
  PROVE  Tame(j) /\ Walks(j)
<1>1. /\ task[j].pc = "retry"
      /\ UNCHANGED <<entries, resume, result, due, left, cut, barred>>
  BY DEF Retry
<1>. QED
  BY <1>1, RetryFacts DEF Tame, Walks, Moves

LEMMA ReadAnswerKind ==
  ASSUME Base, NEW j \in Jobs, ReadAnswer(j)
  PROVE  Tame(j) /\ Ends(j)
<1> DEFINE n == task[j].proc
           a == Head(procs[n].out)
<1>1. /\ task[j].pc = "reading"
      /\ UNCHANGED <<entries, resume, due, left, cut, barred>>
  BY DEF ReadAnswer
<1>2. /\ ProcsTyped' /\ TasksTyped' /\ SameButIo(n)
      /\ procs[n].out \in Seq(Jobs \cup {Refused}) /\ procs[n].out # <<>>
      /\ a # Refused
      /\ procs'[n].out = Tail(procs[n].out) /\ procs'[n].sess = Sid(n)
      /\ procs'[n].alive = procs[n].alive /\ procs'[n].todo = procs[n].todo
      /\ Finishes(j, a) /\ result' \in [Jobs -> Int]
  BY ReadAnswerFacts
<1>3. n \in DOMAIN procs
  BY <1>2 DEF SameButIo
<1>4. Lasting
  BY <1>2, <1>3, IoLasts DEF Base
<1>5. a \in Jobs \cup {Refused} /\ Reads(n, a)
  BY <1>2 DEF Reads
<1>. QED
  BY <1>1, <1>2, <1>4, <1>5 DEF Tame, Ends, Finishes

LEMMA ReadRefusalKind ==
  ASSUME Base, NEW j \in Jobs, ReadRefusal(j)
  PROVE  Tame(j) /\ (Fells(j) \/ Ends(j))
<1> DEFINE n == task[j].proc
           p == task[j].pool
<1>1. /\ task[j].pc = "reading" /\ Head(procs[n].out) = Refused
      /\ UNCHANGED <<due, left, cut, barred>>
  BY DEF ReadRefusal
<1>2. /\ p \in Pools /\ ProcsTyped' /\ TasksTyped' /\ SameButIo(n)
      /\ procs[n].out \in Seq(Jobs \cup {Refused}) /\ procs[n].out # <<>>
      /\ procs'[n].out = Tail(procs[n].out)
      /\ procs'[n].sess = procs[n].sess
      /\ procs'[n].alive = procs[n].alive /\ procs'[n].todo = procs[n].todo
      /\ \/ Kills(j, p, FALSE, "retry") /\ UNCHANGED result
         \/ /\ Finishes(j, Failed) /\ result' \in [Jobs -> Int]
            /\ UNCHANGED <<entries, resume>>
  BY ReadRefusalFacts
<1>3. n \in DOMAIN procs
  BY <1>2 DEF SameButIo
<1>4. Lasting
  BY <1>2, <1>3, IoLasts DEF Base
<1>5. Reads(n, Refused)
  BY <1>1, <1>2 DEF Reads
<1>6. CASE Kills(j, p, FALSE, "retry") /\ UNCHANGED result
  <2>1. "retry" \in JobPlaces /\ Cause(j, FALSE, "retry") /\ FALSE \in BOOLEAN
    BY <1>1 DEF JobPlaces, Cause
  <2>2. \E y \in BOOLEAN, k \in JobPlaces : Kills(j, p, y, k) /\ Cause(j, y, k)
    BY <1>6, <2>1, Zenon
  <2>. QED
    BY <1>1, <1>2, <1>4, <1>5, <1>6, <2>2 DEF Tame, Fells, Kills
<1>7. CASE /\ Finishes(j, Failed) /\ result' \in [Jobs -> Int]
           /\ UNCHANGED <<entries, resume>>
  <2>1. Finishes(j, IF Refused = Refused THEN Failed ELSE Refused)
    BY <1>7
  <2>. QED
    BY <1>1, <1>2, <1>4, <1>5, <1>7, <2>1 DEF Tame, Ends, Finishes
<1>. QED
  BY <1>2, <1>6, <1>7

LEMMA ReadEndKind ==
  ASSUME Base, NEW j \in Jobs, ReadEof(j) \/ ReadTimeout(j)
  PROVE  Tame(j) /\ (Walks(j) \/ Fells(j))
<1> DEFINE n == task[j].proc
           p == task[j].pool
<1>1. /\ task[j].pc = "reading" /\ procs' = procs
      /\ UNCHANGED <<result, due, left, cut, barred>>
  BY DEF ReadEof, ReadTimeout
<1>2. CASE /\ MoveTo(j, "empty") /\ UNCHANGED <<entries, resume, override>>
           /\ ~procs[n].alive \/ entries[p] # n
  <2>1. Tame(j) /\ SameProcs /\ Moves(j, "empty")
    BY <1>1, <1>2, MoveKind DEF JobPlaces
  <2>. QED
    BY <1>1, <1>2, <2>1 DEF Walks, Moves
<1>3. CASE KillThen(j, p, TRUE, "fail")
  <2>1. "fail" \in JobPlaces /\ Cause(j, TRUE, "fail")
    BY <1>1 DEF JobPlaces, Cause
  <2>. QED
    BY <1>1, <1>3, <2>1, KillKind
<1>4. CASE KillThen(j, p, FALSE, "empty")
  <2>1. "empty" \in JobPlaces /\ Cause(j, FALSE, "empty")
    BY <1>1 DEF JobPlaces, Cause
  <2>. QED
    BY <1>1, <1>4, <2>1, KillKind
<1>5. CASE ReadEof(j)
  BY <1>2, <1>3, <1>5 DEF ReadEof
<1>6. CASE ReadTimeout(j)
  BY <1>2, <1>3, <1>4, <1>6 DEF ReadTimeout
<1>. QED
  BY <1>5, <1>6

LEMMA GiveUpKind ==
  ASSUME Base, NEW j \in Jobs,
         SpawnFails(j) \/ ReadConflict(j) \/ PublishFails(j) \/ Fail(j)
  PROVE  Tame(j) /\ Ends(j)
<1> DEFINE n == task[j].proc
<1>1. Failed \in Int /\ Empty \in Int
  BY DEF Failed, Empty
<1>2. Alike(procs) /\ Alike(Unlock(j))
  BY AlikeItself, UnlockFacts DEF Base
<1>3. CASE SpawnFails(j)
  <2>1. /\ task[j].pc = "spawning" /\ Finish(j, Failed) /\ procs' = procs
        /\ UNCHANGED <<entries, resume, due, left, cut, barred>>
    BY <1>3 DEF SpawnFails
  <2>2. Tame(j) /\ SameProcs /\ Finishes(j, Failed) /\ result' \in [Jobs -> Int]
    BY <1>1, <1>2, <2>1, EndKind
  <2>. QED
    BY <2>1, <2>2 DEF Ends
<1>4. CASE ReadConflict(j)
  <2>1. /\ task[j].pc = "reading" /\ Finish(j, Failed) /\ Readers(n) # {j}
        /\ UNCHANGED <<entries, resume, due, left, cut, barred>>
        /\ procs' = procs \/ procs' = Settle(j)
    BY <1>4 DEF ReadConflict
  <2>2. n \in DOMAIN procs
    BY <2>1, JobFacts DEF JobOk, AtProc
  <2>3. Alike(procs')
    BY <1>2, <2>1, <2>2, SettleFacts DEF Base
  <2>4. Tame(j) /\ SameProcs /\ Finishes(j, Failed) /\ result' \in [Jobs -> Int]
    BY <1>1, <2>1, <2>3, EndKind
  <2>5. \E k \in Jobs : k # j /\ task[k].pc = "reading" /\ task[k].proc = n
    BY <2>1 DEF Readers
  <2>. QED
    BY <2>1, <2>4, <2>5 DEF Ends
<1>5. CASE PublishFails(j)
  <2>1. /\ task[j].pc = "reading" /\ Finish(j, Failed) /\ procs' = procs
        /\ cut' = cut \cup {n}
        /\ UNCHANGED <<entries, resume, due, left, barred>>
    BY <1>5 DEF PublishFails
  <2>2. Tame(j) /\ SameProcs /\ Finishes(j, Failed) /\ result' \in [Jobs -> Int]
    BY <1>1, <1>2, <2>1, EndKind
  <2>. QED
    BY <2>1, <2>2 DEF Ends
<1>6. CASE Fail(j)
  <2>1. PICK r \in {Failed, Empty} : Finish(j, r)
    BY <1>6 DEF Fail
  <2>2. /\ task[j].pc \in {"fail", "empty"} /\ procs' = Unlock(j)
        /\ UNCHANGED <<entries, resume, due, left, cut, barred>>
    BY <1>6 DEF Fail
  <2>3. Tame(j) /\ SameProcs /\ Finishes(j, r) /\ result' \in [Jobs -> Int]
    BY <1>1, <1>2, <2>1, <2>2, EndKind
  <2>. QED
    BY <2>1, <2>2, <2>3 DEF Ends
<1>. QED
  BY <1>3, <1>4, <1>5, <1>6

LEMMA JobKinds ==
  ASSUME Base, NEW j \in Jobs, JobStep(j)
  PROVE  JobDoes(j)
<1>1. j \in Tasks
  BY TaskSets
<1>. QED
  BY <1>1, ResumeDirectKind, SetResumeKind, SendKind, SpawnKind, SpawnedKind, LockKind,
     WriteKind, GuardedKind, RetryKind, ReadAnswerKind, ReadRefusalKind,
     ReadEndKind, GiveUpKind DEF JobStep, JobDoes

(***************************************************************************)
(* The steps of the other tasks and of the world.                           *)
(***************************************************************************)
Arrives(j) ==
  /\ Only(j) /\ UNCHANGED <<procs, entries, resume, result, cut, barred, left>>
  /\ task[j].pc = "idle" /\ task'[j].pc \in {"send", "resume"}
  /\ task'[j].with = task[j].with /\ task'[j].prey = task[j].prey
  /\ task'[j].pool \in Pools /\ Awaited(task'[j].pool) = {}

Calm(t) ==
  /\ ProcsTyped' /\ TasksTyped' /\ Lasting /\ Only(t)
  /\ left' = left /\ cut' = cut /\ result' = result /\ due' \subseteq Pools

\* The reaper or a control operation moves on.
Attends(t) ==
  /\ t \in {Reaper, Control}
  /\ SameProcs /\ UNCHANGED <<entries, resume, barred>>
  /\ task'[t].pc # "killing" /\ task'[t].prey = 0 /\ task'[t].with = 0
  /\ task[t].prey = 0
  /\ task'[t].pc # "idle" => task'[t].pool \in Pools \/ t = Reaper

\* A control operation or the reaper kills the process of a pool.
Resets ==
  LET p == task[Control].pool IN
  /\ SameProcs /\ p \in Pools
  /\ task[Control].pc \in {"resume", "reset", "switch"}
  /\ \E l \in {"setresume", "acked", "override"} : Kills(Control, p, FALSE, l)
  /\ \/ barred' = barred
     \/ barred' = [barred EXCEPT ![p] = {n \in DOMAIN procs : procs[n].pool = p}
                                          \ {task[j].with : j \in Jobs}]

Reaps ==
  /\ SameProcs /\ barred' = barred /\ task[Reaper].pc = "reaping"
  /\ \E p \in Pools : Kills(Reaper, p, TRUE, "reaping")

\* The process a task waits for is dead.
Buries(t) ==
  LET n == task[t].prey IN
  /\ SameButIo(n) /\ ~procs'[n].alive /\ procs'[n].sess = procs[n].sess
  /\ procs'[n].todo = procs[n].todo /\ procs'[n].out = procs[n].out
  /\ UNCHANGED <<entries, resume, barred>>
  /\ task[t].pc = "killing" /\ task'[t].pc = task[t].next /\ task'[t].prey = 0
  /\ task'[t].pool = task[t].pool /\ task'[t].proc = task[t].proc
  /\ task'[t].with = task[t].with

TaskDoes(t) ==
  /\ Calm(t)
  /\ \/ Attends(t)
     \/ t = Control /\ (Schedules(t) \/ Resets)
     \/ t = Reaper /\ Reaps
     \/ Buries(t)

\* A process answers or dies, or the hub gives up.
Ages(n) ==
  /\ ProcsTyped' /\ SameButIo(n)
  /\ UNCHANGED <<entries, resume, task, result, cut, barred, left>>
  /\ procs'[n].sess = procs[n].sess
  /\ \/ /\ ~procs'[n].alive
        /\ procs'[n].todo = procs[n].todo /\ procs'[n].out = procs[n].out
     \/ /\ procs[n].todo # <<>> /\ procs[n].todo \in Seq(Jobs)
        /\ procs[n].alive /\ (procs'[n].alive => ~procs[n].stale)
        /\ procs'[n].todo = Tail(procs[n].todo)
        /\ procs'[n].out = Append(procs[n].out,
              IF procs[n].stale THEN Refused ELSE Head(procs[n].todo))

Leaves(j) ==
  /\ UNCHANGED <<procs, entries, resume, task, result, cut, barred>>
  /\ task[j].pc # "idle" /\ left' = left \cup {j}

LEMMA StaffKill ==
  ASSUME Base, NEW t \in {Reaper, Control}, NEW p \in Pools, NEW preserve \in BOOLEAN,
         NEW l \in Labels, KillThen(t, p, preserve, l), procs' = procs,
         UNCHANGED <<result, cut, left>>, due' \subseteq Pools
  PROVE  Calm(t) /\ SameProcs /\ Kills(t, p, preserve, l)
<1>1. t \in Tasks
  BY TaskSets
<1>. QED
  BY <1>1, UnchangedLasts, KillFacts DEF Base, Calm, Kills

LEMMA StaffMoves ==
  ASSUME Base, NEW t \in {Reaper, Control}, NEW l \in Labels, MoveTo(t, l),
         l # "killing", task[t].pc \notin {"killing", "spawning"},
         task[t].pc # "idle" \/ t = Reaper,
         procs' = procs, due' \subseteq Pools,
         UNCHANGED <<entries, resume, barred, result, cut, left>>
  PROVE  Calm(t) /\ Attends(t)
<1>1. t \in Tasks
  BY TaskSets
<1>2. TaskOk(t)
  BY <1>1 DEF Base, Links
<1>3. Moves(t, l) /\ TasksTyped'
  BY <1>1, MoveFacts DEF Base
<1>4. task[t].prey = 0 /\ task[t].with = 0
  BY <1>2 DEF TaskOk
<1>5. task[t].pool \in Pools \/ t = Reaper
  BY <1>2 DEF TaskOk
<1>. QED
  BY <1>3, <1>4, <1>5, UnchangedLasts DEF Base, Calm, Attends, Moves

LEMMA KilledKind ==
  ASSUME Base, NEW t \in Tasks, Killed(t)
  PROVE  Calm(t) /\ Buries(t)
<1> DEFINE n == task[t].prey
<1>1. /\ task[t].pc = "killing"
      /\ UNCHANGED <<entries, resume, result, due, left, cut, barred>>
  BY DEF Killed
<1>2. /\ n \in DOMAIN procs /\ ProcsTyped' /\ SameButIo(n)
      /\ ~procs'[n].alive /\ procs'[n].sess = procs[n].sess
      /\ TasksTyped' /\ Only(t)
  BY KilledFacts
<1>3. Lasting
  BY <1>2, IoLasts DEF Base
<1>4. due' \subseteq Pools
  BY <1>1 DEF Base, RestTyped
<1>. QED
  BY <1>1, <1>2, <1>3, <1>4, KilledFacts DEF Calm, Buries

LEMMA ControlKind ==
  ASSUME Base,
         ControlStep \/ \E op \in Ops, p \in Pools : \E s \in Known(p) \cup {0} :
                          ControlCmd(op, p, s)
  PROVE  TaskDoes(Control) /\ task'[Control].pc # task[Control].pc
<1> DEFINE p == task[Control].pool
<1>0. /\ Control \in {Reaper, Control} /\ Control \in Tasks /\ Control # Reaper
      /\ due \subseteq Pools /\ TaskOk(Control) /\ TRUE \in BOOLEAN /\ FALSE \in BOOLEAN
  BY TaskSets DEF Base, RestTyped, Links
<1>1. ASSUME NEW op \in Ops, NEW q \in Pools, NEW s \in Known(q) \cup {0},
             ControlCmd(op, q, s)
      PROVE  TaskDoes(Control) /\ task'[Control].pc # task[Control].pc
  <2>1. /\ TasksTyped' /\ Only(Control)
        /\ task'[Control].pc = op /\ task'[Control].pool = q
        /\ task'[Control].with = task[Control].with
        /\ task'[Control].prey = task[Control].prey
    BY <1>1, ControlFacts
  <2>2. op \in {"reset", "resume", "switch"}
    BY CliPoolAssumption
  <2>3. /\ task[Control].pc = "idle" /\ procs' = procs
        /\ UNCHANGED <<entries, resume, result, due, left, cut, barred>>
    BY <1>1 DEF ControlCmd
  <2>4. task[Control].prey = 0 /\ task[Control].with = 0
    BY <1>0, <2>3 DEF TaskOk
  <2>. QED
    BY <1>0, <2>1, <2>2, <2>3, <2>4, UnchangedLasts DEF Base, TaskDoes, Calm, Attends
<1>2. CASE ControlAck
  <2>1. /\ TasksTyped' /\ Only(Control) /\ task'[Control] = Idle
    BY <1>2, ControlFacts
  <2>2. Idle.pc = "idle" /\ Idle.prey = 0 /\ Idle.with = 0
    BY DEF Idle
  <2>3. /\ task[Control].pc = "acked" /\ procs' = procs
        /\ UNCHANGED <<entries, resume, result, due, left, cut, barred>>
    BY <1>2 DEF ControlAck
  <2>4. task[Control].prey = 0
    BY <1>0, <2>3 DEF TaskOk
  <2>. QED
    BY <1>0, <2>1, <2>2, <2>3, <2>4, UnchangedLasts DEF Base, TaskDoes, Calm, Attends
<1>3. CASE Override
  <2>1. /\ task[Control].pc = "override" /\ procs' = procs
        /\ UNCHANGED <<entries, resume, result, due, left, cut, barred>>
        /\ MoveTo(Control, "acked")
    BY <1>3 DEF Override
  <2>2. "acked" \in Labels /\ "acked" # "killing"
    BY DEF Labels
  <2>3. Calm(Control) /\ Attends(Control)
    BY <1>0, <2>1, <2>2, StaffMoves
  <2>4. task'[Control].pc = "acked"
    BY <1>0, <2>1, <2>2, MoveFacts DEF Base, Moves
  <2>. QED
    BY <2>1, <2>3, <2>4 DEF TaskDoes
<1>4. CASE SetResume(Control)
  <2>1. Tame(Control) /\ Schedules(Control)
    BY <1>0, <1>4, SetResumeKind
  <2>. QED
    BY <1>0, <2>1 DEF TaskDoes, Calm, Tame, Schedules, Moves
<1>5. CASE Reset
  <2> DEFINE l == IF task[Control].pc = "reset" THEN "acked" ELSE "override"
  <2>1. /\ task[Control].pc \in {"reset", "switch"} /\ procs' = procs
        /\ UNCHANGED <<result, due, left, cut>>
        /\ KillThen(Control, p, FALSE, l)
        /\ barred' = [barred EXCEPT ![p] = {n \in DOMAIN procs : procs[n].pool = p}
                                             \ {task[j].with : j \in Jobs}]
    BY <1>5 DEF Reset
  <2>2. p \in Pools /\ l \in Labels /\ l \in {"setresume", "acked", "override"}
    BY <1>0, <2>1 DEF Labels, TaskOk
  <2> HIDE DEF l
  <2>3. Calm(Control) /\ SameProcs /\ Kills(Control, p, FALSE, l)
    BY <1>0, <2>1, <2>2, StaffKill
  <2>4. Resets
    BY <2>1, <2>2, <2>3 DEF Resets
  <2>5. task'[Control].pc \in {"killing", "setresume", "acked", "override"}
    BY <2>2, <2>3 DEF Kills
  <2>. QED
    BY <2>1, <2>3, <2>4, <2>5 DEF TaskDoes
<1>6. CASE ResumeDirect(Control)
  <2>0. /\ task[Control].pc = "resume" /\ procs' = procs
        /\ UNCHANGED <<result, due, left, cut, barred>>
    BY <1>6 DEF ResumeDirect
  <2>1. CASE MoveTo(Control, "acked") /\ UNCHANGED <<entries, resume, override>>
    <3>2. "acked" \in Labels /\ "acked" # "killing"
      BY DEF Labels
    <3>3. Calm(Control) /\ Attends(Control)
      BY <1>0, <2>0, <2>1, <3>2, StaffMoves
    <3>4. task'[Control].pc = "acked"
      BY <1>0, <2>1, <3>2, MoveFacts DEF Base, Moves
    <3>. QED
      BY <2>0, <3>3, <3>4 DEF TaskDoes
  <2>2. CASE KillThen(Control, p, FALSE, "setresume")
    <3>2. p \in Pools /\ "setresume" \in Labels
      BY <1>0, <2>0 DEF Labels, JobPlaces, TaskOk
    <3>3. Calm(Control) /\ SameProcs /\ Kills(Control, p, FALSE, "setresume")
      BY <1>0, <2>0, <2>2, <3>2, StaffKill
    <3>4. Resets
      BY <2>0, <3>2, <3>3 DEF Resets
    <3>5. task'[Control].pc \in {"killing", "setresume"}
      BY <3>3 DEF Kills
    <3>. QED
      BY <2>0, <3>3, <3>4, <3>5 DEF TaskDoes
  <2>. QED
    BY <1>6, <2>1, <2>2 DEF ResumeDirect
<1>. QED
  BY <1>1, <1>2, <1>3, <1>4, <1>5, <1>6 DEF ControlStep

LEMMA ReaperKind ==
  ASSUME Base, Reap \/ \E old \in SUBSET Pools : Sweep(old)
  PROVE  TaskDoes(Reaper)
<1>0. /\ Reaper \in {Reaper, Control} /\ Reaper \in Tasks
      /\ due \subseteq Pools /\ TaskOk(Reaper) /\ TRUE \in BOOLEAN
      /\ "reaping" \in Labels /\ "idle" \in Labels
  BY TaskSets DEF Base, RestTyped, Links, Labels, JobPlaces
<1>1. ASSUME NEW old \in SUBSET Pools, Sweep(old)
      PROVE  TaskDoes(Reaper)
  <2>1. /\ task[Reaper].pc = "idle" /\ MoveTo(Reaper, "reaping") /\ procs' = procs
        /\ UNCHANGED <<entries, resume, barred, result, cut, left>>
        /\ due' \subseteq Pools
    BY <1>1 DEF Sweep
  <2>2. Calm(Reaper) /\ Attends(Reaper)
    BY <1>0, <2>1, StaffMoves
  <2>. QED
    BY <2>2 DEF TaskDoes
<1>2. CASE Reap
  <2>1. /\ task[Reaper].pc = "reaping" /\ procs' = procs
        /\ UNCHANGED <<barred, result, cut, left>>
    BY <1>2 DEF Reap
  <2>2. CASE /\ due = {} /\ MoveTo(Reaper, "idle")
             /\ UNCHANGED <<due, entries, resume, override>>
    <3>1. Calm(Reaper) /\ Attends(Reaper)
      BY <1>0, <2>1, <2>2, StaffMoves
    <3>. QED
      BY <3>1 DEF TaskDoes
  <2>3. ASSUME NEW p \in due, due' = due \ {p}, KillThen(Reaper, p, TRUE, "reaping")
        PROVE  TaskDoes(Reaper)
    <3>1. p \in Pools /\ due' \subseteq Pools
      BY <1>0, <2>3
    <3>2. Calm(Reaper) /\ SameProcs /\ Kills(Reaper, p, TRUE, "reaping")
      BY <1>0, <2>1, <2>3, <3>1, StaffKill
    <3>. QED
      BY <2>1, <3>1, <3>2 DEF TaskDoes, Reaps
  <2>. QED
    BY <1>2, <2>2, <2>3 DEF Reap
<1>. QED
  BY <1>1, <1>2

LEMMA WorldKind ==
  ASSUME Base
  PROVE  /\ \A n \in DOMAIN procs : Answer(n) \/ Die(n) =>
               Ages(n) /\ Lasting /\ due' = due
         /\ \A j \in Jobs : HubGivesUp(j) => Leaves(j) /\ due' = due
         /\ \A j \in Jobs, p \in Pools, st \in StreamFlags, pr \in Prompts :
              \A s \in Known(p) \cup {0} :
                Arrive(j, p, st, pr, s) => Arrives(j) /\ TasksTyped' /\ due' = due
<1>1. ASSUME NEW n \in DOMAIN procs, Answer(n) PROVE Ages(n) /\ Lasting /\ due' = due
  <2>1. /\ ProcsTyped' /\ SameButIo(n) /\ procs[n].alive
        /\ procs'[n].sess = procs[n].sess
    BY <1>1, AnswerFacts
  <2>2. Lasting
    BY <2>1, IoLasts DEF Base
  <2>3. UNCHANGED <<entries, resume, task, result, due, cut, barred, left>>
    BY <1>1 DEF Answer
  <2>. QED
    BY <1>1, <2>2, <2>3, AnswerFacts DEF Ages
<1>2. ASSUME NEW n \in DOMAIN procs, Die(n) PROVE Ages(n) /\ Lasting /\ due' = due
  <2>1. /\ ProcsTyped' /\ SameButIo(n) /\ ~procs'[n].alive
        /\ procs'[n].sess = procs[n].sess
        /\ procs'[n].todo = procs[n].todo /\ procs'[n].out = procs[n].out
    BY <1>2, DiesFacts DEF Base, Die
  <2>2. Lasting
    BY <2>1, IoLasts DEF Base
  <2>. QED
    BY <1>2, <2>1, <2>2 DEF Ages, Die
<1>3. ASSUME NEW j \in Jobs, HubGivesUp(j) PROVE Leaves(j) /\ due' = due
  BY <1>3 DEF HubGivesUp, Leaves
<1>4. ASSUME NEW j \in Jobs, NEW p \in Pools, NEW st \in StreamFlags, NEW pr \in Prompts,
             NEW s \in Known(p) \cup {0}, Arrive(j, p, st, pr, s)
      PROVE  Arrives(j) /\ TasksTyped' /\ due' = due
  <2>1. /\ task[j].pc = "idle" /\ Awaited(p) = {}
        /\ UNCHANGED <<procs, entries, resume, result, due, cut, barred, left>>
    BY <1>4 DEF Arrive
  <2>2. /\ TasksTyped' /\ Only(j)
        /\ task'[j].pc \in {"send", "resume"} /\ task'[j].pool = p
        /\ task'[j].with = task[j].with /\ task'[j].prey = task[j].prey
    BY <1>4, ArriveFacts
  <2>. QED
    BY <2>1, <2>2 DEF Arrives
<1>. QED
  BY <1>1, <1>2, <1>3, <1>4

(***************************************************************************)
(* Types and links are kept.                                                *)
(***************************************************************************)
LEMMA JobBase ==
  ASSUME Base, NEW j \in Jobs, JobDoes(j)
  PROVE  Base'
<1> DEFINE p == task[j].pool
           n == task[j].proc
<1>1. task[j].pc # "idle"
  BY DEF JobDoes, Walks, Schedules, Takes, Begins, Starts, Writes, Fells, Cause, Ends
<1>2. /\ j \in Tasks /\ p \in Pools /\ TaskOk(j) /\ JobOk(j) /\ task[j] \in TaskRec
      /\ j # Control
  BY <1>1, JobFacts
<1>3. Tame(j) /\ ProcsTyped' /\ TasksTyped' /\ Lasting /\ Only(j) /\ left' = left
      /\ due' \subseteq Pools
  BY DEF JobDoes, Tame, Base, RestTyped
<1>4. /\ entries \in [Pools -> 0 .. Len(procs)] /\ resume \in [Pools -> Nat]
      /\ result \in [Jobs -> Int] /\ cut \subseteq DOMAIN procs
      /\ barred \in [Pools -> SUBSET DOMAIN procs]
      /\ DOMAIN procs \subseteq DOMAIN procs'
      /\ DOMAIN procs = 1 .. Len(procs) /\ Len(procs) \in Nat
  BY <1>3, ProcsFacts DEF Base, RestTyped, Lasting
<1>5. CASE Walks(j)
  <2>1. TaskOk(j)'
    BY <1>2, <1>5 DEF TaskOk, Walks, Moves, JobPlaces, AtProc
  <2>2. JobOk(j)'
    BY <1>2, <1>3, <1>4, <1>5 DEF JobOk, Walks, Moves, JobPlaces, AtProc, Lasting
  <2>. QED
    BY <1>2, <1>3, <1>4, <1>5, <2>1, <2>2, Steady DEF Walks
<1>6. CASE Schedules(j)
  <2>0. task'[j].pc = "send" /\ Moves(j, "send")
    BY <1>2, <1>6 DEF Schedules, Moves
  <2>1. TaskOk(j)'
    BY <1>2, <1>6, <2>0 DEF TaskOk, Schedules, Moves, JobPlaces, AtProc
  <2>2. JobOk(j)'
    BY <1>2, <1>3, <1>4, <1>6, <2>0 DEF JobOk, Schedules, Moves, JobPlaces, AtProc
  <2>3. task[j].asked \in Nat
    BY <1>2 DEF TaskRec
  <2>4. /\ resume' \in [Pools -> Nat] /\ barred' \in [Pools -> SUBSET DOMAIN procs]
        /\ result' = result /\ entries' = entries /\ cut' = cut
    BY <1>4, <1>6, <2>3 DEF Schedules
  <2>. QED
    BY <1>2, <1>3, <1>4, <2>1, <2>2, <2>4, Steady
<1>7. CASE Takes(j)
  <2>0. entries[p] \in DOMAIN procs /\ procs[entries[p]].pool = p
    BY <1>2, <1>4, <1>7 DEF Takes, Served, Alive, Base, Links
  <2>1. TaskOk(j)'
    BY <1>2, <1>7 DEF TaskOk, Takes
  <2>2. JobOk(j)'
    BY <1>2, <1>3, <1>4, <1>7, <2>0 DEF JobOk, Takes, JobPlaces, AtProc, Lasting
  <2>. QED
    BY <1>2, <1>3, <1>4, <1>7, <2>1, <2>2, Steady DEF Takes
<1>8. CASE Begins(j)
  <2>1. TaskOk(j)'
    BY <1>2, <1>8 DEF TaskOk, Begins
  <2>2. JobOk(j)'
    BY <1>2, <1>3, <1>4, <1>8 DEF JobOk, Begins, JobPlaces, AtProc
  <2>3. resume' \in [Pools -> Nat]
    BY <1>4, <1>8 DEF Begins
  <2>. QED
    BY <1>2, <1>3, <1>4, <1>8, <2>1, <2>2, <2>3, Steady DEF Begins
<1>9. CASE Writes(j)
  <2>1. TaskOk(j)'
    BY <1>2, <1>9 DEF TaskOk, Writes, Moves
  <2>2. JobOk(j)'
    BY <1>2, <1>3, <1>4, <1>9 DEF JobOk, Writes, Moves, JobPlaces, AtProc, Lasting
  <2>. QED
    BY <1>2, <1>3, <1>4, <1>9, <2>1, <2>2, Steady DEF Writes
<1>10. CASE Fells(j)
  <2>1. PICK preserve \in BOOLEAN, l \in JobPlaces :
          Kills(j, p, preserve, l) /\ Cause(j, preserve, l)
    BY <1>10 DEF Fells
  <2>2. l \in {"setresume", "spawn", "retry", "fail", "empty"}
    BY <2>1 DEF Cause
  <2>3. task[j].pc \notin {"killing", "spawning", "idle", "done"}
    BY <2>1 DEF Cause
  <2>4. Alive(entries[p]) => entries[p] \in DOMAIN procs
    BY <1>2, <1>4 DEF Alive
  <2>5. TaskOk(j)'
    <3>1. CASE Alive(entries[p])
      BY <1>2, <1>4, <2>1, <2>2, <2>3, <2>4, <3>1 DEF TaskOk, Kills
    <3>2. CASE ~Alive(entries[p])
      BY <1>2, <1>4, <2>1, <2>2, <2>3, <3>2 DEF TaskOk, Kills
    <3>. QED
      BY <3>1, <3>2
  <2>6. UNCHANGED <<result, cut, barred>>
    BY <1>10 DEF Fells
  <2>7. JobOk(j)'
    <3>1. CASE Alive(entries[p])
      BY <1>2, <1>3, <2>1, <2>2, <2>3, <2>6, <3>1 DEF JobOk, Kills, JobPlaces, AtProc
    <3>2. CASE ~Alive(entries[p])
      BY <1>2, <1>3, <2>1, <2>2, <2>3, <2>6, <3>2 DEF JobOk, Kills, JobPlaces, AtProc
    <3>. QED
      BY <3>1, <3>2
  <2>8. entries' = [entries EXCEPT ![p] = 0] /\ resume' \in [Pools -> Nat]
    BY <2>1, Zenon DEF Kills
  <2>. QED
    BY <1>2, <1>3, <1>4, <2>5, <2>6, <2>7, <2>8, Steady
<1>11. CASE Ends(j)
  <2>1. /\ task'[j].pc = "done" /\ task'[j].pool = p
        /\ task'[j].with = 0 /\ task'[j].prey = 0
        /\ \E r : result' = [result EXCEPT ![j] = r]
    BY <1>11 DEF Ends, Finishes
  <2>2. TaskOk(j)'
    BY <1>2, <2>1 DEF TaskOk
  <2>3. JobOk(j)'
    BY <1>2, <1>3, <2>1 DEF JobOk, JobPlaces, AtProc
  <2>4. \A k \in Jobs : k # j => result'[k] = result[k]
    BY <1>4, <2>1
  <2>5. task[j].pc = "reading" => n \in DOMAIN procs
    BY <1>2 DEF JobOk, AtProc
  <2>6. cut' \subseteq DOMAIN procs
    BY <1>4, <1>11, <2>5 DEF Ends
  <2>7. UNCHANGED <<entries, resume, barred>> /\ result' \in [Jobs -> Int]
    BY <1>11 DEF Ends
  <2>. QED
    BY <1>2, <1>3, <1>4, <2>2, <2>3, <2>4, <2>6, <2>7, Steady
<1>12. CASE Starts(j)
  <2> DEFINE e == Len(procs) + 1
  <2>1. /\ entries' = [entries EXCEPT ![p] = e] /\ Len(procs') = e
        /\ procs'[e].pool = p /\ task'[j].pc = "lock" /\ task'[j].proc = e
        /\ task'[j].with = 0 /\ task'[j].pool = p /\ task'[j].prey = task[j].prey
        /\ task[j].pc = "spawning" /\ UNCHANGED <<resume, result, cut, barred>>
        /\ e \in DOMAIN procs'
    BY <1>12 DEF Starts
  <2> HIDE DEF e
  <2>2. e \in Nat /\ 0 .. Len(procs) \subseteq 0 .. e /\ e \in 0 .. e
    BY <1>4 DEF e
  <2>3. entries' \in [Pools -> 0 .. Len(procs')]
    BY <1>4, <2>1, <2>2
  <2>4. RestTyped'
    BY <1>3, <1>4, <2>1, <2>3 DEF Base, RestTyped
  <2>5. ASSUME NEW q \in Pools, entries'[q] # 0 PROVE procs'[entries'[q]].pool = q
    <3>1. CASE q = p
      BY <1>4, <2>1, <3>1
    <3>2. CASE q # p
      <4>1. entries'[q] = entries[q] /\ entries[q] \in DOMAIN procs
        BY <1>4, <2>1, <2>5, <3>2
      <4>. QED
        BY <1>3, <2>5, <4>1 DEF Base, Links, Lasting
    <3>. QED
      BY <3>1, <3>2
  <2>6. TaskOk(j)'
    BY <1>2, <2>1 DEF TaskOk
  <2>7. JobOk(j)'
    BY <1>2, <1>3, <2>1 DEF JobOk, JobPlaces, AtProc
  <2>8. ASSUME NEW u \in Tasks PROVE TaskOk(u)'
    BY <1>3, <1>4, <2>6, <2>8 DEF Base, Links, TaskOk, Only
  <2>9. ASSUME NEW k \in Jobs PROVE JobOk(k)'
    <3>1. CASE k # j
      <4>1. task'[k] = task[k] /\ JobOk(k) /\ result' = result
        BY <1>3, <2>1, <3>1, TaskSets DEF Base, Links, Only
      <4>2. /\ task[k].proc \in DOMAIN procs =>
                 /\ task[k].proc \in DOMAIN procs'
                 /\ procs'[task[k].proc].pool = procs[task[k].proc].pool
            /\ left' = left
        BY <1>3 DEF Lasting
      <4>. QED
        BY <4>1, <4>2 DEF JobOk
    <3>. QED
      BY <2>7, <3>1
  <2>. QED
    BY <1>3, <2>4, <2>5, <2>8, <2>9 DEF Base, Links
<1>. QED
  BY <1>5, <1>6, <1>7, <1>8, <1>9, <1>10, <1>11, <1>12 DEF JobDoes

LEMMA TaskBase ==
  ASSUME Base, NEW t \in Tasks, TaskDoes(t)
  PROVE  Base'
<1>1. /\ ProcsTyped' /\ TasksTyped' /\ Lasting /\ Only(t) /\ left' = left
      /\ cut' = cut /\ result' = result /\ due' \subseteq Pools
  BY DEF TaskDoes, Calm
<1>2. /\ entries \in [Pools -> 0 .. Len(procs)] /\ resume \in [Pools -> Nat]
      /\ result \in [Jobs -> Int] /\ cut \subseteq DOMAIN procs
      /\ barred \in [Pools -> SUBSET DOMAIN procs]
      /\ DOMAIN procs \subseteq DOMAIN procs'
      /\ DOMAIN procs = 1 .. Len(procs) /\ Len(procs) \in Nat
      /\ TaskOk(t) /\ task[t] \in TaskRec
  BY <1>1, ProcsFacts DEF Base, RestTyped, Lasting, Links, TasksTyped
<1>3. Reaper \notin Jobs /\ Control \notin Jobs
  BY TaskSets
<1>4. CASE Attends(t)
  BY <1>1, <1>2, <1>3, <1>4, Steady DEF Attends, TaskOk
<1>5. CASE t = Control /\ Schedules(t)
  <2>1. task[t].asked \in Nat
    BY <1>2 DEF TaskRec
  <2>2. resume' \in [Pools -> Nat] /\ barred' \in [Pools -> SUBSET DOMAIN procs]
        /\ entries' = entries
    BY <1>2, <1>5, <2>1 DEF Schedules
  <2>3. TaskOk(t)'
    BY <1>2, <1>5 DEF TaskOk, Schedules, Moves
  <2>. QED
    BY <1>1, <1>2, <1>3, <1>5, <2>2, <2>3, Steady
<1>6. ASSUME NEW p \in Pools, NEW l \in Labels, NEW preserve \in BOOLEAN,
             Kills(t, p, preserve, l), t \notin Jobs,
             l \notin {"killing", "spawning"},
             task[t].pc \notin {"idle", "killing", "spawning"},
             barred' \in [Pools -> SUBSET DOMAIN procs]
      PROVE  Base'
  <2>1. Alive(entries[p]) => entries[p] \in DOMAIN procs
    BY <1>2 DEF Alive
  <2>2. TaskOk(t)'
    <3>1. CASE Alive(entries[p])
      BY <1>2, <1>6, <2>1, <3>1 DEF TaskOk, Kills
    <3>2. CASE ~Alive(entries[p])
      BY <1>2, <1>6, <3>2 DEF TaskOk, Kills
    <3>. QED
      BY <3>1, <3>2
  <2>3. entries' = [entries EXCEPT ![p] = 0] /\ resume' \in [Pools -> Nat]
    BY <1>6, Zenon DEF Kills
  <2>. QED
    BY <1>1, <1>2, <1>6, <2>2, <2>3, Steady
<1>7. CASE t = Control /\ Resets
  <2>1. PICK l \in {"setresume", "acked", "override"} :
          Kills(Control, task[Control].pool, FALSE, l)
    BY <1>7 DEF Resets
  <2>2. /\ task[Control].pool \in Pools /\ l \in Labels /\ FALSE \in BOOLEAN
        /\ l \notin {"killing", "spawning"}
        /\ task[Control].pc \notin {"idle", "killing", "spawning"}
    BY <1>7 DEF Resets, Labels, JobPlaces
  <2>3. barred' \in [Pools -> SUBSET DOMAIN procs]
    BY <1>2, <1>7 DEF Resets
  <2>. QED
    BY <1>3, <1>6, <1>7, <2>1, <2>2, <2>3
<1>8. CASE t = Reaper /\ Reaps
  <2>1. PICK p \in Pools : Kills(Reaper, p, TRUE, "reaping")
    BY <1>8 DEF Reaps
  <2>2. "reaping" \in Labels /\ TRUE \in BOOLEAN
    BY DEF Labels
  <2>3. task[Reaper].pc = "reaping" /\ barred' = barred
    BY <1>8 DEF Reaps
  <2>. QED
    BY <1>2, <1>3, <1>6, <1>8, <2>1, <2>2, <2>3
<1>9. CASE Buries(t)
  <2>1. task'[t].pc = task[t].next /\ task[t].pc = "killing" /\ task'[t].prey = 0
        /\ task'[t].pool = task[t].pool /\ task'[t].with = task[t].with
        /\ UNCHANGED <<entries, resume, barred>>
    BY <1>9 DEF Buries
  <2>2. TaskOk(t)'
    BY <1>2, <2>1 DEF TaskOk
  <2>3. t \in Jobs => JobOk(t)'
    <3>1. ASSUME t \in Jobs PROVE JobOk(t)
      BY <3>1 DEF Base, Links
    <3>. QED
      BY <1>1, <1>2, <2>1, <3>1 DEF JobOk, JobPlaces, AtProc
  <2>. QED
    BY <1>1, <1>2, <2>1, <2>2, <2>3, Steady
<1>. QED
  BY <1>4, <1>5, <1>7, <1>8, <1>9 DEF TaskDoes

LEMMA WorldBase ==
  ASSUME Base, due' = due
  PROVE  /\ \A n \in DOMAIN procs : Ages(n) /\ Lasting => Base'
         /\ \A j \in Jobs : Leaves(j) => Base'
         /\ \A j \in Jobs : Arrives(j) /\ TasksTyped' => Base'
<1>1. /\ entries \in [Pools -> 0 .. Len(procs)] /\ resume \in [Pools -> Nat]
      /\ result \in [Jobs -> Int] /\ cut \subseteq DOMAIN procs /\ due \subseteq Pools
      /\ barred \in [Pools -> SUBSET DOMAIN procs]
  BY DEF Base, RestTyped
<1>2. ASSUME NEW n \in DOMAIN procs, Ages(n), Lasting PROVE Base'
  <2>1. Control \in Tasks /\ Control \notin Jobs
    BY TaskSets
  <2>2. /\ ProcsTyped' /\ TasksTyped'
        /\ UNCHANGED <<entries, resume, task, result, cut, barred, left>>
    BY <1>2 DEF Ages, Base, TasksTyped
  <2>3. Only(Control) /\ TaskOk(Control)'
    BY <1>2, <2>1, <2>2 DEF Base, Links, TaskOk, Only, Lasting
  <2>. QED
    BY <1>1, <1>2, <2>1, <2>2, <2>3, Steady
<1>3. ASSUME NEW j \in Jobs, Leaves(j) PROVE Base'
  BY <1>3 DEF Leaves, Base, ProcsTyped, TasksTyped, RestTyped, Links, TaskOk, JobOk
<1>4. ASSUME NEW j \in Jobs, Arrives(j), TasksTyped' PROVE Base'
  <2>0. UNCHANGED <<procs, entries, resume, result, cut, barred, left>>
    BY <1>4 DEF Arrives
  <2>1. ProcsTyped' /\ Lasting /\ j \in Tasks /\ Only(j) /\ DOMAIN procs' = DOMAIN procs
    BY <1>4, TaskSets, UnchangedLasts DEF Base, Arrives
  <2>2. TaskOk(j) /\ JobOk(j)
    BY <2>1 DEF Base, Links
  <2>3. /\ task[j].pc = "idle" /\ task'[j].pc \in {"send", "resume"}
        /\ task'[j].with = task[j].with /\ task'[j].prey = task[j].prey
        /\ task'[j].pool \in Pools
    BY <1>4 DEF Arrives
  <2>4. TaskOk(j)'
    BY <2>2, <2>3 DEF TaskOk
  <2>5. JobOk(j)'
    BY <2>0, <2>2, <2>3 DEF JobOk, JobPlaces, AtProc
  <2>. QED
    BY <1>1, <1>4, <2>0, <2>1, <2>4, <2>5, Steady
<1>. QED
  BY <1>2, <1>3, <1>4

(***************************************************************************)
(* Every step is of one of these kinds.                                     *)
(***************************************************************************)
StepKinds ==
  \/ \E j \in Jobs : JobDoes(j)
  \/ \E t \in Tasks : TaskDoes(t)
  \/ \E n \in DOMAIN procs : Ages(n) /\ Lasting
  \/ \E j \in Jobs : Leaves(j) \/ Arrives(j)

LEMMA Kinds ==
  ASSUME Base, CliNext
  PROVE  StepKinds /\ Base'
<1>0. Control \in Tasks /\ Reaper \in Tasks
  BY TaskSets
<1>1. ASSUME NEW j \in Jobs, JobStep(j) PROVE StepKinds /\ Base'
  BY <1>1, JobKinds, JobBase DEF StepKinds
<1>2. ASSUME NEW t \in Tasks, TaskDoes(t) PROVE StepKinds /\ Base'
  BY <1>2, TaskBase DEF StepKinds
<1>3. ASSUME NEW t \in Tasks, Killed(t) PROVE StepKinds /\ Base'
  BY <1>2, <1>3, KilledKind DEF TaskDoes
<1>4. CASE ControlStep \/ \E op \in Ops, p \in Pools : \E s \in Known(p) \cup {0} :
                            ControlCmd(op, p, s)
  BY <1>0, <1>2, <1>4, ControlKind
<1>5. CASE Reap \/ \E old \in SUBSET Pools : Sweep(old)
  BY <1>0, <1>2, <1>5, ReaperKind
<1>6. ASSUME NEW n \in DOMAIN procs, Answer(n) \/ Die(n) PROVE StepKinds /\ Base'
  BY <1>6, WorldKind, WorldBase DEF StepKinds
<1>7. ASSUME NEW j \in Jobs, HubGivesUp(j) PROVE StepKinds /\ Base'
  BY <1>7, WorldKind, WorldBase DEF StepKinds
<1>8. ASSUME NEW j \in Jobs, NEW p \in Pools, NEW st \in StreamFlags, NEW pr \in Prompts,
             NEW s \in Known(p) \cup {0}, Arrive(j, p, st, pr, s)
      PROVE  StepKinds /\ Base'
  BY <1>8, WorldKind, WorldBase DEF StepKinds
<1>. QED
  BY <1>1, <1>3, <1>4, <1>5, <1>6, <1>7, <1>8 DEF CliNext

\* A job that was at work before, or has only now come, is at work.
Working(j) == task[j].pc \notin {"idle", "done"}

\* Jobs keep their pool; what the hub gave up on or left half read stays so.
Persist ==
  /\ left \subseteq left' /\ cut \subseteq cut'
  /\ \A k \in Jobs : task[k].pc # "idle" =>
       task'[k].pool = task[k].pool /\ task'[k].pc # "idle"

LEMMA JobSteps ==
  ASSUME Base, NEW j \in Jobs, JobDoes(j)
  PROVE  /\ Working(j) /\ task'[j].pool = task[j].pool /\ task'[j].pc # "idle"
         /\ task[j].pc # "killing" /\ task[j].pool \in Pools
         /\ Only(j) /\ Lasting /\ left' = left /\ j \in Tasks
         /\ cut \subseteq cut' /\ j # Control
<1>1. j # Control /\ j \in Tasks
  BY TaskSets
<1>2. Only(j) /\ Lasting /\ left' = left
  BY DEF JobDoes, Tame
<1>8. task[j].pc # "idle" => task[j].pool \in Pools
  BY JobFacts
<1>3. CASE Walks(j)
  BY <1>1, <1>2, <1>8, <1>3 DEF Walks, Working, Moves
<1>4. CASE Schedules(j)
  BY <1>1, <1>2, <1>8, <1>4 DEF Schedules, Working, Moves
<1>5. CASE Takes(j) \/ Begins(j) \/ Starts(j) \/ Writes(j)
  BY <1>1, <1>2, <1>8, <1>5 DEF Takes, Begins, Starts, Writes, Working, Moves
<1>6. CASE Fells(j)
  <2>1. PICK preserve \in BOOLEAN, l \in JobPlaces :
          Kills(j, task[j].pool, preserve, l) /\ Cause(j, preserve, l)
    BY <1>6 DEF Fells
  <2>2. cut' = cut
    BY <1>6 DEF Fells
  <2>. QED
    BY <1>1, <1>2, <1>8, <2>1, <2>2 DEF Cause, Kills, Working
<1>7. CASE Ends(j)
  BY <1>1, <1>2, <1>8, <1>7 DEF Ends, Finishes, Working
<1>. QED
  BY <1>3, <1>4, <1>5, <1>6, <1>7 DEF JobDoes

LEMMA TaskSteps ==
  ASSUME Base, NEW t \in Tasks, TaskDoes(t)
  PROVE  /\ t \in Jobs => /\ Buries(t) /\ Working(t) /\ task'[t].pool = task[t].pool
                          /\ task'[t].pc = task[t].next
                          /\ task[t].next \in {"setresume", "spawn", "retry", "fail", "empty"}
         /\ Only(t) /\ Lasting /\ left' = left /\ cut' = cut /\ result' = result
<1>1. Control \notin Jobs /\ Reaper \notin Jobs
  BY TaskSets
<1>2. ASSUME t \in Jobs PROVE JobOk(t)
  BY <1>2 DEF Base, Links
<1>. QED
  BY <1>1, <1>2 DEF TaskDoes, Calm, Attends, Buries, JobOk, Working

LEMMA WorkGoesOn ==
  ASSUME Base, StepKinds
  PROVE  /\ Persist
         /\ \A k \in Jobs : Working(k)' => Working(k) \/ Arrives(k)
         /\ Lasting
<1>1. ASSUME NEW j \in Jobs, JobDoes(j)
      PROVE  Persist /\ Lasting /\ \A k \in Jobs : Working(k)' => Working(k)
  BY <1>1, JobSteps, TaskSets DEF Only, Persist, Working
<1>2. ASSUME NEW t \in Tasks, TaskDoes(t)
      PROVE  Persist /\ Lasting /\ \A k \in Jobs : Working(k)' => Working(k)
  BY <1>2, TaskSteps, TaskSets DEF Only, Persist, Working
<1>3. ASSUME NEW n \in DOMAIN procs, Ages(n), Lasting
      PROVE  Persist /\ Lasting /\ \A k \in Jobs : Working(k)' => Working(k)
  BY <1>3 DEF Ages, Persist, Working
<1>4. ASSUME NEW j \in Jobs, Leaves(j)
      PROVE  Persist /\ Lasting /\ \A k \in Jobs : Working(k)' => Working(k)
  BY <1>4, UnchangedLasts DEF Base, Leaves, Persist, Working
<1>5. ASSUME NEW j \in Jobs, Arrives(j)
      PROVE  Persist /\ Lasting /\ \A k \in Jobs : Working(k)' => Working(k) \/ k = j
  BY <1>5, UnchangedLasts, TaskSets DEF Base, Arrives, Persist, Working, Only
<1>. QED
  BY <1>1, <1>2, <1>3, <1>4, <1>5 DEF StepKinds

LEMMA StaysOverlapped ==
  ASSUME Base, Persist, NEW p, Overlapped(p)
  PROVE  Overlapped(p)'
<1>1. PICK j \in left : task[j].pool = p
  BY DEF Overlapped
<1>2. j \in Jobs /\ j \in left' /\ task[j].pc # "idle"
  BY <1>1 DEF Base, RestTyped, Links, JobOk, Persist
<1>. QED
  BY <1>1, <1>2 DEF Overlapped, Persist

(***************************************************************************)
(* One job of a pool at a time.                                             *)
(***************************************************************************)
\* Unless the hub gave up on one, a single job of a pool is at work,
One ==
  \A j, k \in Jobs : /\ Working(j) /\ Working(k) /\ task[j].pool = task[k].pool
                     /\ ~Overlapped(task[j].pool)
                     => j = k

\* and while it starts a process the pool has none.
Unserved ==
  \A j \in Jobs : ~Overlapped(task[j].pool) /\ Aim(j) \in {"spawn", "spawning"} =>
    ~Served(task[j].pool)

LEMMA OneStays ==
  ASSUME Base, One, StepKinds
  PROVE  One'
<1>1. Persist /\ \A k \in Jobs : Working(k)' => Working(k) \/ Arrives(k)
  BY WorkGoesOn
<1>2. SUFFICES ASSUME NEW j \in Jobs, NEW k \in Jobs, Working(j)', Working(k)',
                      task'[j].pool = task'[k].pool, ~Overlapped(task[j].pool)', j # k
               PROVE  FALSE
  BY DEF One
<1>3. ASSUME NEW i \in Jobs, NEW h \in Jobs, i # h, Arrives(i), Working(h)',
             task'[i].pool = task'[h].pool, ~Overlapped(task[h].pool)'
      PROVE  FALSE
  <2>1. task'[h] = task[h] /\ Working(h)
    BY <1>3, TaskSets DEF Arrives, Only, Working
  <2>2. result[h] = Open
    BY <2>1 DEF Base, Links, JobOk, Working
  <2>3. h \in left
    BY <1>3, <2>1, <2>2 DEF Arrives, Awaited
  <2>4. Overlapped(task[h].pool)
    BY <2>3 DEF Overlapped
  <2>. QED
    BY <1>1, <1>3, <2>1, <2>4, StaysOverlapped DEF Overlapped
<1>4. CASE Arrives(j) \/ Arrives(k)
  BY <1>2, <1>3, <1>4 DEF Overlapped
<1>5. CASE Working(j) /\ Working(k)
  <2>1. task'[j].pool = task[j].pool /\ task'[k].pool = task[k].pool
    BY <1>1, <1>5 DEF Persist, Working
  <2>2. ~Overlapped(task[j].pool)
    BY <1>1, <1>2, <2>1, StaysOverlapped DEF Overlapped
  <2>. QED
    BY <1>2, <1>5, <2>1, <2>2 DEF One
<1>. QED
  BY <1>1, <1>2, <1>4, <1>5

LEMMA KillsEntry ==
  ASSUME Base, NEW t \in Tasks, NEW p \in Pools, NEW preserve \in BOOLEAN,
         NEW l \in Labels, Kills(t, p, preserve, l)
  PROVE  /\ entries'[p] = 0 /\ \A q \in Pools : q # p => entries'[q] = entries[q]
         /\ Alive(entries[p]) => task'[t].prey = entries[p]
<1>1. entries' = [entries EXCEPT ![p] = 0]
  BY Zenon DEF Kills
<1>2. Alive(entries[p]) => task'[t].prey = entries[p]
  BY DEF Kills
<1>3. entries \in [Pools -> 0 .. Len(procs)]
  BY DEF Base, RestTyped
<1>. QED
  BY <1>1, <1>2, <1>3

\* An entry stays, is dropped with its process in the hands of a task, or is
\* replaced by a new process.
LEMMA EntrySteps ==
  ASSUME Base, StepKinds, NEW p \in Pools
  PROVE  \/ entries'[p] = entries[p]
         \/ /\ entries'[p] = 0
            /\ Alive(entries[p]) => \E t \in Tasks : task'[t].prey = entries[p]
         \/ \E j \in Jobs : JobDoes(j) /\ Starts(j) /\ task[j].pool = p
<1>1. ASSUME NEW t \in Tasks, NEW q \in Pools, NEW preserve \in BOOLEAN,
             NEW l \in Labels, Kills(t, q, preserve, l)
      PROVE  \/ entries'[p] = entries[p]
             \/ /\ entries'[p] = 0
                /\ Alive(entries[p]) => \E u \in Tasks : task'[u].prey = entries[p]
  BY <1>1, KillsEntry
<1>2. ASSUME NEW j \in Jobs, JobDoes(j), Fells(j)
      PROVE  \/ entries'[p] = entries[p]
             \/ /\ entries'[p] = 0
                /\ Alive(entries[p]) => \E u \in Tasks : task'[u].prey = entries[p]
  <2>1. PICK preserve \in BOOLEAN, l \in JobPlaces :
          Kills(j, task[j].pool, preserve, l)
    BY <1>2 DEF Fells
  <2>. QED
    BY <1>1, <1>2, <2>1, JobSteps DEF Labels
<1>3. ASSUME NEW j \in Jobs, JobDoes(j), Starts(j)
      PROVE  entries'[p] = entries[p] \/ task[j].pool = p
  <2>1. entries' = [entries EXCEPT ![task[j].pool] = Len(procs) + 1]
    BY <1>3 DEF Starts
  <2>2. entries \in [Pools -> 0 .. Len(procs)]
    BY DEF Base, RestTyped
  <2>. QED
    BY <2>1, <2>2
<1>4. ASSUME NEW j \in Jobs, JobDoes(j), ~Fells(j), ~Starts(j)
      PROVE  entries' = entries
  BY <1>4 DEF JobDoes, Walks, Schedules, Takes, Begins, Writes, Ends
<1>5. ASSUME NEW t \in Tasks, TaskDoes(t)
      PROVE  \/ entries'[p] = entries[p]
             \/ /\ entries'[p] = 0
                /\ Alive(entries[p]) => \E u \in Tasks : task'[u].prey = entries[p]
  <2>1. CASE t = Control /\ Resets
    <3>1. PICK l \in {"setresume", "acked", "override"} :
            Kills(Control, task[Control].pool, FALSE, l)
      BY <2>1 DEF Resets
    <3>2. l \in Labels /\ task[Control].pool \in Pools /\ FALSE \in BOOLEAN
      BY <2>1 DEF Resets, Labels, JobPlaces
    <3>. QED
      BY <1>1, <2>1, <3>1, <3>2
  <2>2. CASE t = Reaper /\ Reaps
    <3>1. PICK q \in Pools : Kills(Reaper, q, TRUE, "reaping")
      BY <2>2 DEF Reaps
    <3>2. "reaping" \in Labels /\ TRUE \in BOOLEAN
      BY DEF Labels
    <3>. QED
      BY <1>1, <2>2, <3>1, <3>2
  <2>3. CASE Attends(t) \/ Schedules(t) \/ Buries(t)
    BY <2>3 DEF Attends, Schedules, Buries
  <2>. QED
    BY <1>5, <2>1, <2>2, <2>3 DEF TaskDoes
<1>6. ASSUME \/ \E n \in DOMAIN procs : Ages(n) /\ Lasting
             \/ \E j \in Jobs : Leaves(j) \/ Arrives(j)
      PROVE  entries' = entries
  BY <1>6 DEF Ages, Leaves, Arrives
<1>. QED
  BY <1>2, <1>3, <1>4, <1>5, <1>6 DEF StepKinds

LEMMA ServedStays ==
  ASSUME Base, StepKinds, NEW p \in Pools, Served(p)'
  PROVE  \/ Served(p) /\ entries'[p] = entries[p]
         \/ \E j \in Jobs : JobDoes(j) /\ Starts(j) /\ task[j].pool = p
<1>1. entries[p] # 0 => entries[p] \in DOMAIN procs
  BY ProcsFacts DEF Base, RestTyped
<1>2. Lasting
  BY WorkGoesOn
<1>. QED
  BY <1>1, <1>2, EntrySteps DEF Served, Alive, Lasting

LEMMA AimSteps ==
  ASSUME Base, StepKinds, NEW j \in Jobs, Aim(j)' \in {"spawn", "spawning"}
  PROVE  \/ Aim(j) \in {"spawn", "spawning"}
         \/ ~Served(task[j].pool)
         \/ entries'[task[j].pool] = 0
<1>1. CASE task'[j] = task[j]
  BY <1>1 DEF Aim
<1>2. CASE JobDoes(j)
  <2>1. CASE Fells(j)
    <3>1. PICK preserve \in BOOLEAN, l \in JobPlaces :
            Kills(j, task[j].pool, preserve, l) /\ Cause(j, preserve, l)
      BY <2>1 DEF Fells
    <3>. QED
      BY <1>2, <3>1, JobSteps, KillsEntry DEF Labels
  <2>2. CASE Walks(j)
    BY <2>2 DEF Walks, Aim
  <2>3. CASE Schedules(j)
    BY <2>3 DEF Schedules, Moves, Aim
  <2>4. CASE Takes(j) \/ Begins(j) \/ Starts(j) \/ Writes(j)
    BY <2>4 DEF Takes, Begins, Starts, Writes, Aim
  <2>5. CASE Ends(j)
    BY <2>5 DEF Ends, Finishes, Aim
  <2>. QED
    BY <1>2, <2>1, <2>2, <2>3, <2>4, <2>5 DEF JobDoes
<1>3. CASE TaskDoes(j)
  <2>1. Buries(j) /\ task[j].next \in {"setresume", "spawn", "retry", "fail", "empty"}
    BY <1>3, TaskSteps, TaskSets
  <2>. QED
    BY <2>1 DEF Buries, Aim
<1>4. CASE Arrives(j)
  BY <1>4 DEF Arrives, Aim
<1>. QED
  BY <1>1, <1>2, <1>3, <1>4, TaskSets, JobSteps, TaskSteps
     DEF StepKinds, Only, Ages, Leaves, Arrives

LEMMA UnservedStays ==
  ASSUME Base, Base', One', Unserved, StepKinds
  PROVE  Unserved'
<1>1. SUFFICES ASSUME NEW j \in Jobs, ~Overlapped(task[j].pool)',
                      Aim(j)' \in {"spawn", "spawning"}, Served(task[j].pool)'
               PROVE  FALSE
  BY DEF Unserved, Served, Overlapped
<1>2. Working(j)' /\ task'[j].pc # "lock"
  BY <1>1 DEF Aim, Working
<1>3. Working(j) /\ task'[j].pool = task[j].pool /\ task[j].pool \in Pools
  <2>1. ~Arrives(j)
    BY <1>1 DEF Arrives, Aim
  <2>2. Working(j) /\ Persist
    BY <1>2, <2>1, WorkGoesOn
  <2>. QED
    BY <2>2, JobFacts DEF Persist, Working
<1>4. ~Overlapped(task[j].pool)
  BY <1>1, <1>3, WorkGoesOn, StaysOverlapped DEF Overlapped
<1>5. Served(task[j].pool) => entries'[task[j].pool] # entries[task[j].pool]
  <2>1. entries'[task[j].pool] # 0
    BY <1>1, <1>3 DEF Served, Alive
  <2>2. Aim(j) \in {"spawn", "spawning"} => ~Served(task[j].pool)
    BY <1>4 DEF Unserved
  <2>3. CASE Served(task[j].pool)
    BY <1>1, <2>1, <2>2, <2>3, AimSteps
  <2>. QED
    BY <2>3
<1>6. PICK i \in Jobs : JobDoes(i) /\ Starts(i) /\ task[i].pool = task[j].pool
  BY <1>1, <1>3, <1>5, ServedStays DEF Served, Alive
<1>7. task'[i].pc = "lock" /\ task'[i].pool = task[i].pool
  BY <1>6 DEF Starts
<1>. QED
  BY <1>1, <1>2, <1>3, <1>6, <1>7 DEF One, Working, Overlapped

(***************************************************************************)
(* No process is lost.                                                      *)
(***************************************************************************)
LEMMA PreySteps ==
  ASSUME Base, StepKinds, NEW t \in Tasks, NEW n \in DOMAIN procs,
         task[t].prey = n
  PROVE  task'[t].prey = n \/ ~procs'[n].alive
<1>1. n # 0 /\ task[t].pc = "killing"
  BY NoProcess DEF Base, Links, TaskOk
<1>2. CASE \E j \in Jobs : JobDoes(j)
  BY <1>1, <1>2, JobSteps DEF Only
<1>3. ASSUME NEW u \in Tasks, TaskDoes(u)
      PROVE  task'[t].prey = n \/ ~procs'[n].alive
  <2>1. CASE u # t
    BY <1>3, <2>1, TaskSteps DEF Only
  <2>2. CASE u = t
    BY <1>1, <1>3, <2>2 DEF TaskDoes, Attends, Schedules, Resets, Reaps, Buries
  <2>. QED
    BY <2>1, <2>2
<1>4. CASE \/ \E m \in DOMAIN procs : Ages(m) /\ Lasting
           \/ \E j \in Jobs : Leaves(j)
  BY <1>4 DEF Ages, Leaves
<1>5. ASSUME NEW j \in Jobs, Arrives(j)
      PROVE  task'[t].prey = n
  BY <1>5 DEF Arrives, Only
<1>. QED
  BY <1>2, <1>3, <1>4, <1>5 DEF StepKinds

\* The new processes of a step.
LEMMA ProcSteps ==
  ASSUME Base, StepKinds, NEW n \in DOMAIN procs' \ DOMAIN procs
  PROVE  \E j \in Jobs : JobDoes(j) /\ Starts(j) /\ n = Len(procs) + 1
<1>1. ASSUME NEW j \in Jobs, JobDoes(j), ~Starts(j)
      PROVE  DOMAIN procs' = DOMAIN procs
  <2>1. \E m : SameBut(m)
    BY <1>1 DEF JobDoes, Walks, Schedules, Takes, Begins, Writes, Fells, Ends, SameProcs,
                Reads, SameButIo
  <2>. QED
    BY <2>1 DEF SameBut
<1>2. ASSUME NEW j \in Jobs, JobDoes(j), Starts(j)
      PROVE  n = Len(procs) + 1
  <2>1. /\ DOMAIN procs' = 1 .. Len(procs') /\ Len(procs') = Len(procs) + 1
        /\ DOMAIN procs = 1 .. Len(procs) /\ Len(procs) \in Nat
    BY <1>2, ProcsFacts DEF JobDoes, Tame, Starts, Base, ProcsTyped
  <2>. QED
    BY <2>1
<1>3. ASSUME NEW t \in Tasks, TaskDoes(t)
      PROVE  DOMAIN procs' = DOMAIN procs
  BY <1>3 DEF TaskDoes, Attends, Schedules, Resets, Reaps, Buries, SameButIo, SameBut,
              SameProcs
<1>4. CASE \/ \E m \in DOMAIN procs : Ages(m) /\ Lasting
           \/ \E j \in Jobs : Leaves(j) \/ Arrives(j)
  BY <1>4 DEF Ages, Leaves, Arrives, SameButIo, SameBut
<1>. QED
  BY <1>1, <1>2, <1>3, <1>4 DEF StepKinds

LEMMA StrayStays ==
  ASSUME Base, Base', Unserved, NoStrayProcess, StepKinds
  PROVE  NoStrayProcess'
<1>1. SUFFICES ASSUME NEW n \in DOMAIN procs', procs'[n].alive,
                      ~Overlapped(procs[n].pool)'
               PROVE  entries'[procs'[n].pool] = n \/ \E t \in Tasks : task'[t].prey = n
  BY DEF NoStrayProcess
<1>2. CASE n \notin DOMAIN procs
  <2>1. PICK j \in Jobs : JobDoes(j) /\ Starts(j) /\ n = Len(procs) + 1
    BY <1>2, ProcSteps
  <2>2. procs'[n].pool = task[j].pool /\ entries' = [entries EXCEPT ![task[j].pool] = n]
    BY <2>1 DEF Starts
  <2>3. task[j].pool \in Pools /\ entries \in [Pools -> 0 .. Len(procs)]
    BY <2>1, JobSteps DEF Base, RestTyped
  <2>. QED
    BY <2>2, <2>3
<1>3. CASE n \in DOMAIN procs
  <2> DEFINE q == procs[n].pool
  <2>1. /\ procs[n].alive /\ procs'[n].pool = q /\ Persist /\ q \in Pools /\ n # 0
    BY <1>1, <1>3, WorkGoesOn, NoProcess, ProcsFacts DEF Lasting, Base, ProcRec
  <2>2. ~Overlapped(q)
    BY <1>1, <2>1, StaysOverlapped DEF Overlapped
  <2>3. CASE entries[q] = n
    <3>1. Served(q) /\ Alive(entries[q])
      BY <2>1, <2>3 DEF Served, Alive
    <3>2. ASSUME NEW j \in Jobs, JobDoes(j), Starts(j), task[j].pool = q
          PROVE  FALSE
      BY <2>2, <3>1, <3>2 DEF Unserved, Starts, Aim
    <3>. QED
      BY <2>1, <2>3, <3>1, <3>2, EntrySteps
  <2>4. ASSUME NEW t \in Tasks, task[t].prey = n
        PROVE  task'[t].prey = n
    BY <1>1, <1>3, <2>4, PreySteps
  <2>. QED
    BY <1>3, <2>1, <2>2, <2>3, <2>4 DEF NoStrayProcess
<1>. QED
  BY <1>2, <1>3

(***************************************************************************)
(* What a reset discards.                                                   *)
(***************************************************************************)
\* No discarded session is scheduled, taken by a spawn or that of the entry,
\* and a process has the session it was started with or its own.
Discard ==
  /\ \A n \in DOMAIN procs : procs[n].sess \in {0, Sid(n)}
  /\ \A p \in Pools :
       /\ resume[p] \notin barred[p]
       /\ entries[p] # 0 => /\ entries[p] \notin barred[p]
                            /\ procs[entries[p]].from \notin barred[p]
  /\ \A j \in Jobs, p \in Pools : task[j].pool = p => task[j].with \notin barred[p]

Recalls(p, x) ==
  \/ x \in {0, resume[p]}
  \/ entries[p] # 0 /\ x = procs[entries[p]].sess

LEMMA KillsResume ==
  ASSUME NEW t, NEW p \in Pools, NEW preserve \in BOOLEAN,
         NEW l, Kills(t, p, preserve, l), NEW q \in Pools
  PROVE  Recalls(q, resume'[q]) /\ (~preserve => resume'[p] = 0)
<1>1. /\ \A x \in Pools \ {p} : resume'[x] = resume[x]
      /\ ~preserve => resume'[p] = 0
      /\ \/ resume'[p] \in {0, resume[p]}
         \/ entries[p] # 0 /\ resume'[p] = procs[entries[p]].sess
  BY Zenon DEF Kills
<1>. QED
  BY <1>1 DEF Recalls

LEMMA ResumeSteps ==
  ASSUME Base, StepKinds, NEW p \in Pools
  PROVE  Recalls(p, resume'[p]) \/ resume'[p] \notin barred'[p]
<1>0. barred \in [Pools -> SUBSET DOMAIN procs] /\ resume \in [Pools -> Nat]
  BY DEF Base, RestTyped
<1>1. ASSUME NEW t \in Tasks, Schedules(t)
      PROVE  Recalls(p, resume'[p]) \/ resume'[p] \notin barred'[p]
  BY <1>0, <1>1 DEF Schedules, Recalls
<1>2. ASSUME NEW j \in Jobs, JobDoes(j)
      PROVE  Recalls(p, resume'[p]) \/ resume'[p] \notin barred'[p]
  <2>1. CASE Fells(j)
    <3>1. PICK preserve \in BOOLEAN, l \in JobPlaces :
            Kills(j, task[j].pool, preserve, l)
      BY <2>1 DEF Fells
    <3>. QED
      BY <1>2, <3>1, JobSteps, KillsResume
  <2>2. CASE Begins(j)
    BY <1>0, <2>2 DEF Begins, Recalls
  <2>3. CASE Schedules(j)
    BY <1>1, <2>3, TaskSets
  <2>4. CASE ~Fells(j) /\ ~Begins(j) /\ ~Schedules(j)
    BY <1>2, <2>4 DEF JobDoes, Walks, Takes, Starts, Writes, Ends, Recalls
  <2>. QED
    BY <2>1, <2>2, <2>3, <2>4
<1>3. ASSUME NEW t \in Tasks, TaskDoes(t)
      PROVE  Recalls(p, resume'[p]) \/ resume'[p] \notin barred'[p]
  <2>1. CASE Resets
    BY <2>1, KillsResume DEF Resets
  <2>2. CASE Reaps
    BY <2>2, KillsResume DEF Reaps
  <2>3. CASE Attends(t) \/ Buries(t)
    BY <2>3 DEF Attends, Buries, Recalls
  <2>. QED
    BY <1>1, <1>3, <2>1, <2>2, <2>3 DEF TaskDoes
<1>4. CASE \/ \E n \in DOMAIN procs : Ages(n) /\ Lasting
           \/ \E j \in Jobs : Leaves(j) \/ Arrives(j)
  BY <1>4 DEF Ages, Leaves, Arrives, Recalls
<1>. QED
  BY <1>2, <1>3, <1>4 DEF StepKinds

LEMMA WithSteps ==
  ASSUME Base, StepKinds, NEW j \in Jobs
  PROVE  \/ task'[j].with \in {0, task[j].with}
         \/ Begins(j) /\ task'[j].with = resume[task[j].pool] /\ Working(j)
<1>1. CASE JobDoes(j)
  BY <1>1, JobSteps DEF JobDoes, Walks, Schedules, Takes, Begins, Starts, Writes, Fells,
            Ends, Moves, Kills, Finishes
<1>2. CASE TaskDoes(j)
  BY <1>2, TaskSteps, TaskSets DEF Buries
<1>3. CASE Arrives(j)
  BY <1>3 DEF Arrives
<1>. QED
  BY <1>1, <1>2, <1>3, JobSteps, TaskSteps, TaskSets
     DEF StepKinds, Only, Ages, Leaves, Arrives

LEMMA BarredSteps ==
  ASSUME Base, StepKinds, NEW p \in Pools
  PROVE  \/ barred'[p] \subseteq barred[p]
         \/ /\ entries'[p] = 0 /\ resume'[p] = 0
            /\ \A j \in Jobs : task[j].with \notin barred'[p]
            /\ \A j \in Jobs : task'[j] = task[j]
<1>0. barred \in [Pools -> SUBSET DOMAIN procs]
  BY DEF Base, RestTyped
<1>1. ASSUME NEW t \in Tasks, Schedules(t)
      PROVE  barred'[p] \subseteq barred[p]
  BY <1>0, <1>1 DEF Schedules
<1>2. ASSUME NEW j \in Jobs, JobDoes(j)
      PROVE  barred'[p] \subseteq barred[p]
  BY <1>1, <1>2, TaskSets DEF JobDoes, Walks, Takes, Begins, Starts, Writes, Fells, Ends
<1>3. CASE TaskDoes(Control) /\ Resets
  <2>1. PICK l \in {"setresume", "acked", "override"} :
          Kills(Control, task[Control].pool, FALSE, l)
    BY <1>3 DEF Resets
  <2>2. l \in Labels /\ FALSE \in BOOLEAN /\ Control \in Tasks /\ Control \notin Jobs
    BY TaskSets DEF Labels, JobPlaces
  <2>3. /\ task[Control].pool \in Pools
        /\ \/ barred' = barred
           \/ barred' = [barred EXCEPT ![task[Control].pool] =
                           {n \in DOMAIN procs : procs[n].pool = task[Control].pool}
                             \ {task[j].with : j \in Jobs}]
    BY <1>3 DEF Resets
  <2>4. entries'[task[Control].pool] = 0 /\ resume'[task[Control].pool] = 0
    BY <2>1, <2>2, <2>3, KillsEntry, KillsResume
  <2>5. \A j \in Jobs : task'[j] = task[j]
    BY <1>3, <2>2, TaskSets, TaskSteps DEF Only
  <2>6. \/ barred'[p] = barred[p]
        \/ /\ p = task[Control].pool
           /\ barred'[p] = {n \in DOMAIN procs : procs[n].pool = p}
                             \ {task[j].with : j \in Jobs}
    BY <1>0, <2>3
  <2>. QED
    BY <2>4, <2>5, <2>6
<1>4. ASSUME NEW t \in Tasks, TaskDoes(t), ~Resets
      PROVE  barred'[p] \subseteq barred[p]
  BY <1>1, <1>4 DEF TaskDoes, Attends, Reaps, Buries
<1>5. CASE \/ \E n \in DOMAIN procs : Ages(n) /\ Lasting
           \/ \E j \in Jobs : Leaves(j) \/ Arrives(j)
  BY <1>5 DEF Ages, Leaves, Arrives
<1>6. ASSUME NEW t \in Tasks, TaskDoes(t), Resets
      PROVE  TaskDoes(Control) \/ barred'[p] \subseteq barred[p]
  BY <1>1, <1>6 DEF TaskDoes, Attends, Reaps, Buries
<1>. QED
  BY <1>2, <1>3, <1>4, <1>5, <1>6 DEF StepKinds

LEMMA DiscardStays ==
  ASSUME Base, Base', Discard, StepKinds
  PROVE  Discard'
<1>0. /\ barred \in [Pools -> SUBSET DOMAIN procs]
      /\ barred' \in [Pools -> SUBSET DOMAIN procs']
      /\ 0 \notin DOMAIN procs /\ 0 \notin DOMAIN procs' /\ Lasting /\ Persist
      /\ entries \in [Pools -> 0 .. Len(procs)] /\ DOMAIN procs = 1 .. Len(procs)
      /\ Len(procs) \in Nat
  BY WorkGoesOn, ProcsFacts DEF Base, RestTyped, ProcsTyped
<1>1. ASSUME NEW n \in DOMAIN procs' PROVE procs'[n].sess \in {0, Sid(n)'}
  <2>1. CASE n \in DOMAIN procs
    BY <1>0, <2>1 DEF Discard, Lasting, Sid
  <2>2. CASE n \notin DOMAIN procs
    BY <1>1, <2>2, ProcSteps DEF Starts
  <2>. QED
    BY <2>1, <2>2
<1>2. ASSUME NEW p \in Pools, entries[p] # 0
      PROVE  procs[entries[p]].sess \notin barred[p]
  BY <1>0, <1>2 DEF Discard, Sid
<1>3. ASSUME NEW p \in Pools PROVE resume'[p] \notin barred'[p]
  <2>1. Recalls(p, resume'[p]) => resume'[p] \notin barred[p]
    BY <1>0, <1>2 DEF Recalls, Discard
  <2>. QED
    BY <1>0, <2>1, ResumeSteps, BarredSteps
<1>4. ASSUME NEW p \in Pools, entries'[p] # 0
      PROVE  entries'[p] \notin barred'[p] /\ procs'[entries'[p]].from \notin barred'[p]
  <2>0. barred'[p] \subseteq barred[p]
    BY <1>4, BarredSteps
  <2>1. CASE entries'[p] = entries[p]
    <3>1. entries[p] \in DOMAIN procs
      BY <1>0, <1>4, <2>1
    <3>. QED
      BY <1>0, <1>4, <2>0, <2>1, <3>1 DEF Discard, Lasting
  <2>2. ASSUME NEW j \in Jobs, JobDoes(j), Starts(j), task[j].pool = p
        PROVE  entries'[p] \notin barred'[p] /\ procs'[entries'[p]].from \notin barred'[p]
    <3>1. entries'[p] = Len(procs) + 1 /\ procs'[Len(procs) + 1].from = task[j].with
      BY <1>0, <2>2 DEF Starts
    <3>2. task[j].with \notin barred[p]
      BY <2>2 DEF Discard
    <3>3. Len(procs) + 1 \notin barred[p]
      BY <1>0
    <3>. QED
      BY <2>0, <3>1, <3>2, <3>3
  <2>. QED
    BY <1>4, <2>1, <2>2, EntrySteps
<1>5. ASSUME NEW j \in Jobs, NEW p \in Pools, task'[j].pool = p
      PROVE  task'[j].with \notin barred'[p]
  <2>1. CASE barred'[p] \subseteq barred[p]
    <3>1. task[j].pool = p \/ task[j].with = 0
      BY <1>0, <1>5, TaskSets DEF Persist, Base, Links, TaskOk
    <3>2. Begins(j) /\ Working(j) => task[j].pool = p
      BY <1>0, <1>5 DEF Persist, Working
    <3>. QED
      BY <1>0, <2>1, <3>1, <3>2, WithSteps DEF Discard
  <2>2. CASE /\ \A k \in Jobs : task[k].with \notin barred'[p]
             /\ \A k \in Jobs : task'[k] = task[k]
    BY <2>2
  <2>. QED
    BY <2>1, <2>2, BarredSteps
<1>. QED
  BY <1>1, <1>3, <1>4, <1>5 DEF Discard

(***************************************************************************)
(* What a process owes.                                                     *)
(***************************************************************************)
\* No turn of the pool was given up, none left half read.
Clean(p) == ~Overlapped(p) /\ \A n \in cut : procs[n].pool # p

Quiet(n) == procs[n].todo = <<>> /\ procs[n].out = <<>>
Owing(n, j) ==
  \/ procs[n].todo = <<j>> /\ procs[n].out = <<>>
  \/ procs[n].todo = <<>> /\ procs[n].out \in {<<j>>, <<Refused>>}
Awaiting(j) == task[j].pc \in {"reading", "guard"}

\* In such a pool a process has nothing to write before it got a prompt, then
\* the one answer to the prompt of the job that waits for it;
HandOwed(j) ==
  /\ task[j].pc \in {"lock", "queued", "write"} => Quiet(task[j].proc)
  /\ Awaiting(j) => Owing(task[j].proc, j)

\* when no job waits for it, a live entry has nothing to write.
EntryOwed(p) ==
  Served(p) => \/ Quiet(entries[p])
               \/ \E j \in Jobs : Awaiting(j) /\ task[j].proc = entries[p]

Owed ==
  /\ \A j \in Jobs : Clean(task[j].pool) => HandOwed(j)
  /\ \A p \in Pools : Clean(p) => EntryOwed(p)

LEMMA CleanBefore ==
  ASSUME Base, StepKinds, NEW p, Clean(p)'
  PROVE  Clean(p)
<1>1. Persist /\ Lasting /\ cut \subseteq DOMAIN procs
  BY WorkGoesOn DEF Base, RestTyped
<1>2. ~Overlapped(p)
  BY <1>1, StaysOverlapped DEF Clean
<1>3. ASSUME NEW n \in cut PROVE procs[n].pool # p
  BY <1>1, <1>3 DEF Clean, Persist, Lasting
<1>. QED
  BY <1>2, <1>3 DEF Clean

\* What goes in and out of a process.
Writing(n) == \E j \in Jobs : JobDoes(j) /\ Writes(j) /\ task[j].proc = n
Reading(n) == \E j \in Jobs, a \in Jobs \cup {Refused} :
                /\ JobDoes(j) /\ task[j].pc = "reading" /\ task[j].proc = n
                /\ Reads(n, a)
Still(n) == procs'[n].todo = procs[n].todo /\ procs'[n].out = procs[n].out
Answering(n) ==
  /\ procs[n].todo # <<>> /\ procs[n].todo \in Seq(Jobs)
  /\ procs'[n].todo = Tail(procs[n].todo)
  /\ UNCHANGED task
  /\ \E a \in {Refused, Head(procs[n].todo)} :
       procs'[n].out = Append(procs[n].out, a)

LEMMA IoSteps ==
  ASSUME Base, StepKinds, NEW n \in DOMAIN procs
  PROVE  Still(n) \/ Writing(n) \/ Reading(n) \/ Answering(n)
<1>0. n # 0
  BY NoProcess DEF Base
<1>1. ASSUME SameProcs \/ procs' = procs PROVE Still(n)
  BY <1>0, <1>1 DEF SameProcs, SameBut, Like, Still
<1>2. ASSUME NEW m, SameButIo(m) \/ SameBut(m), m # n PROVE Still(n)
  BY <1>2 DEF SameButIo, SameBut, Like, Still
<1>3. ASSUME NEW j \in Jobs, JobDoes(j)
      PROVE  Still(n) \/ Writing(n) \/ Reading(n)
  <2>1. CASE Walks(j) \/ Schedules(j) \/ Takes(j) \/ Begins(j)
    BY <1>1, <2>1 DEF Walks, Schedules, Takes, Begins
  <2>2. CASE Starts(j)
    BY <2>2 DEF Starts, Still
  <2>3. CASE Writes(j)
    BY <1>2, <1>3, <2>3 DEF Writes, Writing
  <2>4. ASSUME task[j].pc = "reading", NEW a \in Jobs \cup {Refused},
               Reads(task[j].proc, a)
        PROVE  Still(n) \/ Reading(n)
    <3>1. CASE task[j].proc = n
      BY <1>3, <2>4, <3>1 DEF Reading
    <3>2. CASE task[j].proc # n
      BY <1>2, <2>4, <3>2 DEF Reads
    <3>. QED
      BY <3>1, <3>2
  <2>5. CASE Fells(j)
    BY <1>1, <2>4, <2>5 DEF Fells
  <2>6. CASE Ends(j)
    BY <1>1, <2>4, <2>6 DEF Ends
  <2>. QED
    BY <1>3, <2>1, <2>2, <2>3, <2>5, <2>6 DEF JobDoes
<1>4. ASSUME NEW t \in Tasks, TaskDoes(t) PROVE Still(n)
  <2>1. CASE Attends(t) \/ Schedules(t) \/ Resets \/ Reaps
    BY <1>1, <2>1 DEF Attends, Schedules, Resets, Reaps
  <2>2. CASE Buries(t)
    BY <1>2, <2>2 DEF Buries, Still
  <2>. QED
    BY <1>4, <2>1, <2>2 DEF TaskDoes
<1>5. ASSUME NEW m \in DOMAIN procs, Ages(m) PROVE Still(n) \/ Answering(n)
  <2>1. CASE m # n
    BY <1>2, <1>5, <2>1 DEF Ages
  <2>2. CASE m = n
    BY <1>5, <2>2 DEF Ages, Still, Answering
  <2>. QED
    BY <2>1, <2>2
<1>6. ASSUME NEW j \in Jobs, Leaves(j) \/ Arrives(j) PROVE Still(n)
  BY <1>1, <1>6 DEF Leaves, Arrives
<1>. QED
  BY <1>3, <1>4, <1>5, <1>6 DEF StepKinds

\* Two jobs do not have the same process in their hands.
LEMMA OneHand ==
  ASSUME Base, One, NEW j \in Jobs, NEW k \in Jobs, ~Overlapped(task[j].pool),
         task[j].pc \in AtProc, task[k].pc \in AtProc, task[j].proc = task[k].proc
  PROVE  j = k
<1>1. task[j].pool = task[k].pool
  BY DEF Base, Links, JobOk
<1>. QED
  BY <1>1 DEF One, Working, AtProc

LEMMA OwingReads ==
  ASSUME NEW n, NEW j \in Jobs, NEW a \in Jobs \cup {Refused}, Owing(n, j), Reads(n, a)
  PROVE  Quiet(n)' /\ a \in {j, Refused}
<1>1. procs[n].todo = <<>> /\ procs[n].out \in {<<j>>, <<Refused>>}
  BY DEF Owing, Reads
<1>2. a = Head(procs[n].out) /\ procs'[n].out = Tail(procs[n].out)
      /\ procs'[n].todo = <<>>
  BY <1>1 DEF Reads
<1>3. CASE procs[n].out = <<j>>
  BY <1>2, <1>3 DEF Quiet
<1>4. CASE procs[n].out = <<Refused>>
  BY <1>2, <1>4 DEF Quiet
<1>. QED
  BY <1>1, <1>3, <1>4

LEMMA OwingAnswers ==
  ASSUME NEW n, NEW j \in Jobs, Owing(n, j), Answering(n)
  PROVE  Owing(n, j)'
<1>1. procs[n].todo = <<j>> /\ procs[n].out = <<>>
  BY DEF Owing, Answering
<1>2. procs'[n].todo = <<>>
  BY <1>1 DEF Answering
<1>3. PICK a \in {Refused, j} : procs'[n].out = Append(<<>>, a)
  BY <1>1 DEF Answering
<1>4. procs'[n].out \in {<<j>>, <<Refused>>}
  BY <1>3
<1>. QED
  BY <1>2, <1>4 DEF Owing

LEMMA HandStays ==
  ASSUME Base, One, Owed, StepKinds, NEW j \in Jobs, Clean(task[j].pool)'
  PROVE  HandOwed(j)'
<1> DEFINE n == task[j].proc
           p == task[j].pool
<1>1. SUFFICES ASSUME task'[j].pc \in AtProc PROVE HandOwed(j)'
  BY DEF HandOwed, Awaiting, AtProc
<1>2. /\ Working(j) /\ task'[j].pool = p /\ p \in Pools /\ JobOk(j)
  <2>1. ~Arrives(j)
    BY <1>1 DEF Arrives, AtProc
  <2>2. Working(j)' /\ Persist
    BY <1>1, WorkGoesOn DEF Working, AtProc
  <2>. QED
    BY <2>1, <2>2, WorkGoesOn, JobFacts DEF Working, Persist
<1>3. Clean(p) /\ ~Overlapped(p) /\ HandOwed(j) /\ EntryOwed(p)
  <2>1. PICK q \in Pools : q = p
    BY <1>2
  <2>2. Clean(q)'
    BY <1>2, <2>1 DEF Clean, Overlapped
  <2>. QED
    BY <1>2, <2>1, <2>2, CleanBefore DEF Owed, Clean
<1>4. CASE task'[j] = task[j]
  <2>1. n \in DOMAIN procs
    BY <1>1, <1>2, <1>4 DEF JobOk
  <2>2. CASE Still(n)
    BY <1>3, <1>4, <2>2 DEF HandOwed, Still, Quiet, Owing, Awaiting
  <2>3. ASSUME NEW k \in Jobs, JobDoes(k), task[k].proc = n, task[k].pc \in AtProc,
               task'[k].pc # task[k].pc
        PROVE  FALSE
    BY <1>1, <1>3, <1>4, <2>3, OneHand
  <2>4. CASE Writing(n)
    BY <2>3, <2>4 DEF Writing, Writes, AtProc
  <2>5. CASE Reading(n)
    <3>1. PICK k \in Jobs, a \in Jobs \cup {Refused} :
            JobDoes(k) /\ task[k].pc = "reading" /\ task[k].proc = n /\ Reads(n, a)
      BY <2>5 DEF Reading
    <3>2. j = k
      BY <1>1, <1>3, <1>4, <3>1, OneHand DEF AtProc
    <3>3. ~Walks(k) /\ ~Schedules(k) /\ ~Takes(k) /\ ~Begins(k) /\ ~Starts(k) /\ ~Writes(k)
      BY <1>4, <3>1, <3>2 DEF Walks, Schedules, Takes, Begins, Starts, Writes
    <3>4. ~Ends(k)
      BY <1>4, <3>1, <3>2 DEF Ends, Finishes
    <3>5. ~Fells(k)
      BY <1>4, <3>1, <3>2 DEF Fells, Kills, Cause
    <3>. QED
      BY <3>1, <3>3, <3>4, <3>5 DEF JobDoes
  <2>6. CASE Answering(n)
    <3>1. ~Quiet(n)
      BY <2>6 DEF Answering, Quiet
    <3>2. Awaiting(j) /\ Owing(n, j)
      BY <1>1, <1>3, <1>4, <3>1 DEF HandOwed, Awaiting, AtProc
    <3>3. PICK m \in DOMAIN procs : m = n
      BY <2>1
    <3>4. Owing(m, j)'
      BY <2>6, <3>2, <3>3, OwingAnswers
    <3>. QED
      BY <1>4, <3>2, <3>3, <3>4 DEF HandOwed, Awaiting, Owing
  <2>. QED
    BY <2>1, <2>2, <2>4, <2>5, <2>6, IoSteps
<1>5. CASE JobDoes(j)
  <2>1. CASE Walks(j)
    <3>1. task'[j].proc = n /\ SameProcs /\ n # 0 /\ n \in DOMAIN procs
      BY <1>1, <1>2, <2>1, NoProcess DEF Walks, Moves, JobOk, AtProc, Base
    <3>2. Still(n)
      BY <3>1 DEF SameProcs, SameBut, Like, Still
    <3>3. \/ task[j].pc \in {"lock", "queued"} /\ task'[j].pc \in {"queued", "write"}
          \/ task[j].pc = "guard" /\ task'[j].pc = "reading"
      BY <1>1, <2>1 DEF Walks, AtProc
    <3>. QED
      BY <1>3, <3>1, <3>2, <3>3 DEF HandOwed, Awaiting, Still, Quiet, Owing
  <2>2. CASE Takes(j)
    <3>1. task[j].pc = "send" /\ Served(p) /\ SameProcs /\ entries[p] # 0
          /\ entries[p] \in DOMAIN procs /\ procs[entries[p]].pool = p
          /\ task'[j].proc = entries[p] /\ task'[j].pc = "lock"
      BY <1>2, <2>2, ProcsFacts DEF Takes, Served, Alive, Base, Links, RestTyped
    <3>2. ASSUME NEW k \in Jobs, Awaiting(k), task[k].proc = entries[p] PROVE FALSE
      <4>1. task[k].pool = p /\ Working(k)
        BY <3>1, <3>2 DEF Base, Links, JobOk, Awaiting, AtProc, Working
      <4>. QED
        BY <1>2, <1>3, <3>1, <3>2, <4>1 DEF One, Awaiting
    <3>3. Quiet(entries[p])
      BY <1>3, <3>1, <3>2 DEF EntryOwed
    <3>4. Still(entries[p])
      BY <3>1 DEF SameProcs, SameBut, Like, Still
    <3>. QED
      BY <3>1, <3>3, <3>4 DEF HandOwed, Awaiting, Still, Quiet
  <2>3. CASE Starts(j)
    BY <2>3 DEF Starts, HandOwed, Awaiting, Quiet
  <2>4. CASE Writes(j)
    <3>1. Quiet(n) /\ n \in DOMAIN procs /\ procs[n] \in ProcRec
      BY <1>2, <1>3, <2>4, ProcsFacts DEF Writes, HandOwed, Base
    <3>2. procs'[n].todo = Append(procs[n].todo, j) /\ procs'[n].out = procs[n].out
      BY <2>4, <3>1 DEF Writes, Like, ProcRec
    <3>3. procs'[n].todo = <<j>> /\ procs'[n].out = <<>>
      BY <3>1, <3>2 DEF Quiet
    <3>. QED
      BY <2>4, <3>3 DEF Writes, Moves, HandOwed, Awaiting, Owing
  <2>5. CASE Schedules(j) \/ Begins(j)
    BY <1>1, <2>5, TaskSets DEF Schedules, Begins, Moves, AtProc
  <2>6. CASE Ends(j)
    BY <1>1, <2>6 DEF Ends, Finishes, AtProc
  <2>7. CASE Fells(j)
    BY <1>1, <2>7 DEF Fells, Kills, Cause, AtProc
  <2>. QED
    BY <1>5, <2>1, <2>2, <2>3, <2>4, <2>5, <2>6, <2>7 DEF JobDoes
<1>6. CASE TaskDoes(j)
  BY <1>1, <1>6, TaskSteps, TaskSets DEF AtProc
<1>7. CASE Arrives(j)
  BY <1>1, <1>7 DEF Arrives, AtProc
<1>. QED
  BY <1>4, <1>5, <1>6, <1>7, TaskSets, JobSteps, TaskSteps
     DEF StepKinds, Only, Ages, Leaves, Arrives

LEMMA EntryStays ==
  ASSUME Base, Base', One, Owed, StepKinds, NEW p \in Pools, Clean(p)'
  PROVE  EntryOwed(p)'
<1> DEFINE e == entries[p]
<1>1. Clean(p) /\ ~Overlapped(p) /\ EntryOwed(p) /\ Persist
  BY CleanBefore, WorkGoesOn DEF Owed, Clean
<1>2. SUFFICES ASSUME Served(p)' PROVE EntryOwed(p)'
  BY DEF EntryOwed
<1>3. ASSUME NEW j \in Jobs, JobDoes(j), Starts(j), task[j].pool = p
      PROVE  EntryOwed(p)'
  <2>1. entries \in [Pools -> 0 .. Len(procs)]
    BY DEF Base, RestTyped
  <2>2. entries'[p] = Len(procs) + 1
    BY <1>3, <2>1 DEF Starts
  <2>3. procs'[Len(procs) + 1].todo = <<>> /\ procs'[Len(procs) + 1].out = <<>>
    BY <1>3 DEF Starts
  <2>. QED
    BY <2>2, <2>3 DEF EntryOwed, Quiet
<1>4. CASE Served(p) /\ entries'[p] = e
  <2>1. e \in DOMAIN procs /\ procs[e].pool = p /\ procs[e].alive /\ e # 0
    BY <1>4, ProcsFacts DEF Served, Alive, Base, Links, RestTyped
  <2>2. CASE Quiet(e)
    <3>1. CASE Still(e)
      BY <1>4, <2>2, <3>1 DEF EntryOwed, Still, Quiet
    <3>2. CASE Writing(e)
      BY <1>4, <3>2 DEF EntryOwed, Writing, Writes, Moves, Awaiting
    <3>3. CASE Reading(e) \/ Answering(e)
      BY <2>2, <3>3 DEF Reading, Reads, Answering, Quiet
    <3>. QED
      BY <2>1, <3>1, <3>2, <3>3, IoSteps
  <2>3. ASSUME NEW j \in Jobs, Awaiting(j), task[j].proc = e
        PROVE  EntryOwed(p)'
    <3>1. /\ task[j].pool = p /\ task[j].pc \in {"reading", "guard"}
          /\ task[j].pc \in AtProc
      BY <2>1, <2>3 DEF Base, Links, JobOk, Awaiting, AtProc
    <3>2. Owing(e, j)
      BY <1>1, <2>3, <3>1 DEF Owed, HandOwed
    <3>3. CASE task'[j] = task[j]
      BY <1>4, <2>3, <3>3 DEF EntryOwed, Awaiting
    <3>4. CASE JobDoes(j)
      <4>1. CASE Walks(j)
        BY <1>4, <2>1, <2>3, <3>1, <4>1 DEF Walks, Moves, EntryOwed, Awaiting
      <4>2. CASE Fells(j)
        <5>1. PICK preserve \in BOOLEAN, l \in JobPlaces :
                Kills(j, task[j].pool, preserve, l)
          BY <4>2 DEF Fells
        <5>. QED
          BY <1>4, <2>1, <3>1, <3>4, <5>1, JobSteps, KillsEntry DEF Labels
      <4>3. CASE Ends(j)
        <5>1. ASSUME NEW k \in Jobs, k # j, task[k].pc = "reading", task[k].proc = e
              PROVE  FALSE
          BY <1>1, <2>3, <3>1, <5>1, OneHand DEF AtProc
        <5>2. ASSUME NEW a \in Jobs \cup {Refused}, Reads(e, a)
              PROVE  EntryOwed(p)'
          <6>1. PICK m \in DOMAIN procs : m = e
            BY <2>1
          <6>2. Quiet(m)'
            BY <3>2, <5>2, <6>1, OwingReads
          <6>. QED
            BY <1>4, <6>1, <6>2 DEF EntryOwed, Quiet
        <5>3. CASE cut' = cut \cup {e}
          <6>1. procs'[e].pool = p
            BY <2>1, WorkGoesOn DEF Lasting
          <6>. QED
            BY <5>3, <6>1 DEF Clean
        <5>. QED
          BY <2>3, <3>1, <4>3, <5>1, <5>2, <5>3 DEF Ends
      <4>4. CASE Schedules(j) \/ Takes(j) \/ Begins(j) \/ Starts(j) \/ Writes(j)
        BY <3>1, <4>4 DEF Schedules, Takes, Begins, Starts, Writes
      <4>. QED
        BY <3>4, <4>1, <4>2, <4>3, <4>4 DEF JobDoes
    <3>5. CASE TaskDoes(j)
      BY <3>1, <3>5, TaskSteps, TaskSets DEF Buries
    <3>6. CASE Arrives(j)
      BY <3>1, <3>6 DEF Arrives
    <3>. QED
      BY <3>3, <3>4, <3>5, <3>6, TaskSets, JobSteps, TaskSteps
         DEF StepKinds, Only, Ages, Leaves, Arrives
  <2>. QED
    BY <1>1, <1>4, <2>2, <2>3 DEF EntryOwed
<1>. QED
  BY <1>2, <1>3, <1>4, ServedStays

LEMMA OwedStays ==
  ASSUME Base, Base', One, Owed, StepKinds
  PROVE  Owed'
  BY HandStays, EntryStays DEF Owed

LEMMA AnswersStay ==
  ASSUME Base, Base', One, Owed, AnswersMatch, StepKinds
  PROVE  AnswersMatch'
<1>0. Open \notin Jobs /\ Failed \notin Jobs /\ Empty \notin Jobs
  BY TaskSets DEF Open, Failed, Empty
<1>1. SUFFICES ASSUME NEW j \in Jobs, result'[j] \in Jobs, result'[j] # j
               PROVE  ~Clean(task[j].pool)'
  BY DEF AnswersMatch, Clean, Overlapped
<1>2. SUFFICES ASSUME task[j].pc # "idle" PROVE ~Clean(task[j].pool)
  <2>1. task'[j].pc # "idle"
    BY <1>0, <1>1 DEF Base, Links, JobOk
  <2>2. CASE task[j].pc = "idle"
    <3>1. Working(j)'
      <4>1. CASE JobDoes(j)
        BY <2>2, <4>1, JobSteps DEF Working
      <4>2. CASE TaskDoes(j)
        BY <2>2, <4>2, TaskSteps, TaskSets DEF Working
      <4>3. CASE Arrives(j)
        BY <4>3 DEF Arrives, Working
      <4>4. CASE task'[j] = task[j]
        BY <2>1, <2>2, <4>4
      <4>. QED
        BY <4>1, <4>2, <4>3, <4>4, TaskSets, JobSteps, TaskSteps
           DEF StepKinds, Only, Ages, Leaves, Arrives
    <3>. QED
      BY <1>0, <1>1, <3>1 DEF Base, Links, JobOk, Working
  <2>3. CASE task[j].pc # "idle"
    <3>1. task'[j].pool = task[j].pool /\ task[j].pool \in Pools
      BY <2>3, WorkGoesOn, JobFacts DEF Persist
    <3>2. PICK q \in Pools : q = task[j].pool
      BY <3>1
    <3>3. ~Clean(q)'
      BY <2>3, <3>2, CleanBefore
    <3>. QED
      BY <3>1, <3>2, <3>3 DEF Clean, Overlapped
  <2>. QED
    BY <2>2, <2>3
<1>3. CASE result'[j] = result[j]
  BY <1>1, <1>3 DEF AnswersMatch, Clean
<1>4. CASE JobDoes(j) /\ Ends(j)
  <2>1. PICK a \in Jobs \cup {Refused} :
          /\ Reads(task[j].proc, a) /\ task[j].pc = "reading"
          /\ result' = [result EXCEPT ![j] = IF a = Refused THEN Failed ELSE a]
    <3>1. /\ ~Finishes(j, Failed) /\ ~Finishes(j, Empty)
      BY <1>0, <1>1 DEF Finishes, Base, RestTyped
    <3>. QED
      BY <1>4, <3>1 DEF Ends, Finishes
  <2>2. result'[j] = IF a = Refused THEN Failed ELSE a
    BY <2>1 DEF Base, RestTyped
  <2>3. a \notin {j, Refused}
    BY <1>0, <1>1, <2>2
  <2>4. ~Owing(task[j].proc, j)
    BY <2>1, <2>3, OwingReads
  <2>. QED
    BY <2>1, <2>4 DEF Owed, HandOwed, Awaiting
<1>5. ASSUME NEW k \in Jobs, JobDoes(k), k # j \/ ~Ends(k)
      PROVE  result'[j] = result[j]
  <2>1. CASE Ends(k)
    <3>1. \E r : result' = [result EXCEPT ![k] = r]
      BY <2>1 DEF Ends, Finishes
    <3>. QED
      BY <1>5, <2>1, <3>1 DEF Base, RestTyped
  <2>2. CASE ~Ends(k)
    BY <1>5, <2>2 DEF JobDoes, Walks, Schedules, Takes, Begins, Starts, Writes, Fells
  <2>. QED
    BY <2>1, <2>2
<1>6. ASSUME NEW t \in Tasks, TaskDoes(t) PROVE result' = result
  BY <1>6, TaskSteps
<1>. QED
  BY <1>3, <1>4, <1>5, <1>6 DEF StepKinds, Ages, Leaves, Arrives

(***************************************************************************)
(* What becomes of a session.                                               *)
(***************************************************************************)
Past == AtProc \cup {"fail", "empty", "done"}

\* A process was given to a job of its pool.
Given(p, j) ==
  /\ task[j].pool = p /\ task[j].with = 0 /\ task[j].pc # "idle"
  /\ Aim(j) \in Past

Witness == \A p \in Pools : entries[p] # 0 => \E j \in Jobs : Given(p, j)

LEMMA WitnessStays ==
  ASSUME Base, Witness, StepKinds
  PROVE  Witness'
<1>1. SUFFICES ASSUME NEW p \in Pools, entries'[p] # 0
               PROVE  \E j \in Jobs : Given(p, j)'
  BY DEF Witness
<1>2. ASSUME NEW j \in Jobs, JobDoes(j), Starts(j), task[j].pool = p
      PROVE  Given(p, j)'
  BY <1>2 DEF Starts, Given, Aim, Past, AtProc
<1>3. ASSUME NEW j \in Jobs, Given(p, j), entries'[p] = entries[p]
      PROVE  Given(p, j)'
  <2>1. CASE task'[j] = task[j]
    BY <1>3, <2>1 DEF Given, Aim
  <2>2. CASE JobDoes(j)
    <3>1. task[j].pc \in Past /\ task[j].pc # "done" /\ task[j].pool = p
      BY <1>3, <2>2, JobSteps DEF Given, Aim, Working
    <3>2. CASE Walks(j) \/ Writes(j)
      BY <1>3, <3>1, <3>2 DEF Walks, Writes, Moves, Given, Aim, Past, AtProc
    <3>3. CASE Fells(j)
      <4>1. PICK preserve \in BOOLEAN, l \in JobPlaces :
              Kills(j, task[j].pool, preserve, l)
        BY <3>3 DEF Fells
      <4>. QED
        BY <1>1, <1>3, <2>2, <3>1, <4>1, JobSteps, KillsEntry DEF Labels
    <3>4. CASE Ends(j)
      BY <3>1, <3>4 DEF Ends, Finishes, Given, Aim, Past
    <3>5. CASE Schedules(j) \/ Takes(j) \/ Begins(j) \/ Starts(j)
      BY <3>1, <3>5 DEF Schedules, Takes, Begins, Starts, Past, AtProc
    <3>. QED
      BY <2>2, <3>2, <3>3, <3>4, <3>5 DEF JobDoes
  <2>3. CASE TaskDoes(j)
    <3>1. /\ Buries(j) /\ task'[j].pc = task[j].next
          /\ task[j].next \in {"setresume", "spawn", "retry", "fail", "empty"}
      BY <2>3, TaskSteps, TaskSets
    <3>. QED
      BY <1>3, <3>1 DEF Buries, Given, Aim
  <2>4. CASE Arrives(j)
    BY <1>3, <2>4 DEF Arrives, Given
  <2>. QED
    BY <2>1, <2>2, <2>3, <2>4, TaskSets, JobSteps, TaskSteps
       DEF StepKinds, Only, Ages, Leaves, Arrives
<1>. QED
  BY <1>1, <1>2, <1>3, EntrySteps DEF Witness

Holds(p, x) ==
  \/ x = resume[p]
  \/ \E j \in Jobs : task[j].pool = p /\ x = task[j].with
  \/ entries[p] # 0 /\ x # 0 /\ x = procs[entries[p]].sess

LEMMA HeldBefore ==
  ASSUME NEW p \in Pools, NEW x \in Held(p)
  PROVE  Holds(p, x)
  BY DEF Held, Known, Holds

LEMMA HeldAfter ==
  ASSUME Base', NEW p \in Pools, NEW x, Holds(p, x)'
  PROVE  x \in Held(p)'
<1>1. ASSUME entries'[p] # 0
      PROVE  entries'[p] \in DOMAIN procs' /\ procs'[entries'[p]].pool = p
  BY <1>1 DEF Base, Links, RestTyped, ProcsTyped
<1>. QED
  BY <1>1 DEF Holds, Held, Known

\* When SessionKept excuses a step.
Excused(p) ==
  \/ \E j \in Jobs : /\ task[j].pool = p
                     /\ task'[j].pc # task[j].pc
                     /\ task[j].pc \in {"send", "spawning", "guard",
                                        "resume", "setresume"}
  \/ \E j \in Jobs : /\ task[j].pool = p /\ task[j].pc = "reading"
                     /\ Aim(j)' \in {"empty", "retry"}
  \/ task[Control].pc # task'[Control].pc
  \/ entries[p] # 0 /\ resume[p] # 0

\* Nothing of the pool changes but for what a process reads,
LEMMA HoldsStays ==
  ASSUME Base, Discard, Lasting, NEW p \in Pools, NEW x, Holds(p, x),
         entries'[p] = entries[p], resume'[p] = resume[p],
         \A k \in Jobs : task[k].pool = p =>
            task'[k].pool = p /\ task'[k].with = task[k].with
  PROVE  Holds(p, x)'
<1>1. ASSUME entries[p] # 0, x # 0, x = procs[entries[p]].sess
      PROVE  x = procs'[entries'[p]].sess
  <2>1. entries[p] \in DOMAIN procs
    BY <1>1, ProcsFacts DEF Base, RestTyped
  <2>. QED
    BY <1>1, <2>1 DEF Discard, Lasting
<1>. QED
  BY <1>1 DEF Holds

\* and a kill that keeps the session schedules it.
LEMMA KeepsHeld ==
  ASSUME Base, NEW t \in Tasks, NEW p \in Pools, NEW q \in Pools, NEW l \in Labels,
         Kills(t, q, TRUE, l), NEW x, Holds(p, x), Discard, Lasting,
         Witness, ~(entries[p] # 0 /\ resume[p] # 0)
  PROVE  Holds(p, x)'
<1>1. \A k \in Tasks : task'[k].pool = task[k].pool /\ task'[k].with = task[k].with
  BY DEF Kills, Only
<1>2. \A k \in Jobs : task'[k].pool = task[k].pool /\ task'[k].with = task[k].with
  BY <1>1, TaskSets
<1>3. entries'[q] = 0 /\ \A y \in Pools : y # q => entries'[y] = entries[y]
  BY KillsEntry
<1>4. /\ \A y \in Pools \ {q} : resume'[y] = resume[y]
      /\ (entries[q] = 0 \/ procs[entries[q]].sess = 0) => resume'[q] = resume[q]
      /\ entries[q] # 0 /\ procs[entries[q]].sess # 0 =>
           resume'[q] = procs[entries[q]].sess
  BY Zenon DEF Kills
<1>5. CASE p # q
  BY <1>2, <1>3, <1>4, <1>5, HoldsStays
<1>6. CASE p = q
  <2>1. CASE entries[p] # 0 /\ procs[entries[p]].sess # 0
    <3>1. resume'[p] = procs[entries[p]].sess /\ resume[p] = 0
      BY <1>4, <1>6, <2>1
    <3>2. PICK j \in Jobs : Given(p, j)
      BY <2>1 DEF Witness
    <3>. QED
      BY <1>2, <3>1, <3>2 DEF Holds, Given
  <2>2. CASE entries[p] = 0 \/ procs[entries[p]].sess = 0
    BY <1>2, <1>4, <1>6, <2>2 DEF Holds
  <2>. QED
    BY <2>1, <2>2
<1>. QED
  BY <1>5, <1>6

LEMMA SessionStep ==
  ASSUME Base, Discard, Witness, StepKinds, NEW p \in Pools, NEW x,
         Holds(p, x), ~Excused(p)
  PROVE  Holds(p, x)'
<1>0. /\ Lasting /\ Persist
      /\ \A k \in Jobs : task[k].pool = p => task[k].pc # "idle" /\ task'[k].pool = p
      /\ resume \in [Pools -> Nat]
      /\ ~(entries[p] # 0 /\ resume[p] # 0)
  BY WorkGoesOn, CliPoolAssumption DEF Base, Links, JobOk, Persist, RestTyped, Excused
<1>1. ASSUME NEW j \in Jobs, JobDoes(j), Fells(j)
      PROVE  Holds(p, x)'
  <2>1. PICK preserve \in BOOLEAN, l \in JobPlaces :
          Kills(j, task[j].pool, preserve, l) /\ Cause(j, preserve, l)
    BY <1>1 DEF Fells
  <2>2. l \in Labels /\ j \in Tasks /\ task[j].pool \in Pools
    BY <1>1, JobSteps DEF Labels
  <2>3. CASE preserve
    <3>1. Kills(j, task[j].pool, TRUE, l)
      BY <2>1, <2>3, Zenon
    <3>. QED
      BY <1>0, <2>2, <3>1, KeepsHeld
  <2>4. CASE ~preserve /\ task[j].pool = p
    <3>1. Aim(j)' = l /\ task'[j].pc \in {"killing", l}
      BY <2>1 DEF Kills, Aim, Cause
    <3>. QED
      BY <2>1, <2>4, <3>1 DEF Cause, Excused
  <2>5. CASE task[j].pool # p
    <3>1. entries'[p] = entries[p]
      BY <2>1, <2>2, <2>5, KillsEntry
    <3>2. resume'[p] = resume[p]
      BY <2>1, <2>5, Zenon DEF Kills
    <3>3. \A k \in Jobs : task'[k].with = task[k].with
      BY <2>1, TaskSets DEF Kills, Only
    <3>. QED
      BY <1>0, <3>1, <3>2, <3>3, HoldsStays
  <2>. QED
    BY <2>3, <2>4, <2>5
<1>2. ASSUME NEW j \in Jobs, JobDoes(j), task[j].pool # p, ~Fells(j)
      PROVE  Holds(p, x)'
  <2>1. \A k \in Jobs : task[k].pool = p => task'[k].with = task[k].with
    BY <1>2, JobSteps, TaskSets DEF Only
  <2>2. entries'[p] = entries[p] /\ resume'[p] = resume[p]
    <3>1. entries \in [Pools -> 0 .. Len(procs)]
      BY DEF Base, RestTyped
    <3>. QED
      BY <1>0, <1>2, <3>1 DEF JobDoes, Walks, Schedules, Takes, Begins, Starts, Writes, Ends
  <2>. QED
    BY <1>0, <2>1, <2>2, HoldsStays
<1>3. ASSUME NEW j \in Jobs, JobDoes(j), task[j].pool = p, ~Fells(j)
      PROVE  Holds(p, x)'
  <2>1. CASE Walks(j) \/ Writes(j) \/ Takes(j)
    <3>1. task'[j].with = task[j].with /\ entries' = entries /\ resume' = resume
      BY <2>1 DEF Walks, Writes, Takes, Moves
    <3>2. \A k \in Jobs : task'[k].with = task[k].with
      BY <1>3, <3>1, JobSteps, TaskSets DEF Only
    <3>. QED
      BY <1>0, <3>1, <3>2, HoldsStays
  <2>2. CASE Schedules(j) \/ Starts(j)
    BY <1>3, <2>2, TaskSets DEF Schedules, Starts, Moves, Excused
  <2>3. CASE Begins(j)
    <3>1. /\ task'[j].with = resume[p] /\ resume'[p] = 0 /\ task'[j].pool = p
          /\ entries' = entries /\ task[j].with = 0 /\ SameProcs
      BY <1>0, <1>3, <2>3, TaskSets DEF Begins, Base, Links, TaskOk
    <3>2. CASE x = resume[p] \/ x = 0
      BY <3>1, <3>2 DEF Holds
    <3>3. ASSUME NEW k \in Jobs, task[k].pool = p, x = task[k].with, x # 0
          PROVE  Holds(p, x)'
      <4>1. k # j
        BY <3>1, <3>3
      <4>2. task'[k] = task[k]
        BY <1>3, <4>1, JobSteps, TaskSets DEF Only
      <4>. QED
        BY <3>3, <4>2 DEF Holds
    <3>4. CASE entries[p] # 0 /\ x # 0 /\ x = procs[entries[p]].sess
      <4>1. entries[p] \in DOMAIN procs
        BY <3>4, ProcsFacts DEF Base, RestTyped
      <4>2. procs'[entries[p]].sess = x
        BY <3>1, <3>4, <4>1 DEF SameProcs, SameBut, Like
      <4>. QED
        BY <3>1, <3>4, <4>2 DEF Holds
    <3>. QED
      BY <3>2, <3>3, <3>4 DEF Holds
  <2>4. CASE Ends(j)
    <3>1. task[j].pc # "spawning"
      BY <1>3, <2>4 DEF Ends, Finishes, Excused
    <3>2. task[j].with = 0 /\ task'[j].with = 0
      BY <1>3, <2>4, <3>1, TaskSets DEF Ends, Finishes, Base, Links, TaskOk
    <3>3. \A k \in Jobs : task'[k].with = task[k].with
      BY <1>3, <3>2, JobSteps, TaskSets DEF Only
    <3>4. entries' = entries /\ resume' = resume
      BY <2>4 DEF Ends
    <3>. QED
      BY <1>0, <3>3, <3>4, HoldsStays
  <2>. QED
    BY <1>3, <2>1, <2>2, <2>3, <2>4 DEF JobDoes
<1>4. ASSUME NEW t \in Tasks, TaskDoes(t) PROVE Holds(p, x)'
  <2>1. CASE t = Control /\ (Schedules(t) \/ Resets)
    <3>1. task'[Control].pc = task[Control].pc
      BY DEF Excused
    <3>. QED
      BY <2>1, <3>1 DEF Schedules, Resets, Moves, Kills
  <2>2. CASE t = Reaper /\ Reaps
    <3>1. PICK q \in Pools : Kills(Reaper, q, TRUE, "reaping")
      BY <2>2 DEF Reaps
    <3>2. "reaping" \in Labels
      BY DEF Labels
    <3>. QED
      BY <1>0, <1>4, <2>2, <3>1, <3>2, KeepsHeld
  <2>3. CASE Attends(t) \/ Buries(t)
    <3>1. entries' = entries /\ resume' = resume
      BY <2>3 DEF Attends, Buries
    <3>2. t \in Jobs => task'[t].with = task[t].with
      BY <2>3, TaskSets DEF Attends, Buries
    <3>3. \A k \in Jobs : task'[k].with = task[k].with
      BY <1>4, <3>2, TaskSteps, TaskSets DEF Only
    <3>. QED
      BY <1>0, <3>1, <3>3, HoldsStays
  <2>. QED
    BY <1>4, <2>1, <2>2, <2>3 DEF TaskDoes
<1>5. CASE \/ \E n \in DOMAIN procs : Ages(n) /\ Lasting
           \/ \E j \in Jobs : Leaves(j)
  BY <1>0, <1>5, HoldsStays DEF Ages, Leaves
<1>6. ASSUME NEW j \in Jobs, Arrives(j) PROVE Holds(p, x)'
  <2>1. \A k \in Jobs : task[k].pool = p => task'[k].with = task[k].with
    BY <1>0, <1>6, TaskSets DEF Arrives, Only
  <2>. QED
    BY <1>0, <1>6, <2>1, HoldsStays DEF Arrives
<1>. QED
  BY <1>1, <1>2, <1>3, <1>4, <1>5, <1>6 DEF StepKinds

(***************************************************************************)
(* The theorems.                                                            *)
(***************************************************************************)
CliInv ==
  /\ Base /\ One /\ Unserved /\ NoStrayProcess
  /\ Discard /\ Owed /\ AnswersMatch /\ Witness

LEMMA CliStarts == CliInit => CliInv
<1>1. SUFFICES ASSUME CliInit PROVE CliInv
  OBVIOUS
<1>2. /\ procs = << >> /\ left = {} /\ cut = {} /\ due = {}
      /\ entries = [p \in Pools |-> 0] /\ resume = [p \in Pools |-> 0]
      /\ result = [j \in Jobs |-> Open] /\ barred = [p \in Pools |-> {}]
      /\ task = [t \in Tasks |-> Idle]
  BY <1>1 DEF CliInit
<1>3. /\ Idle.pc = "idle" /\ Idle.pool = None /\ Idle.prey = 0 /\ Idle.with = 0
      /\ Idle \in TaskRec
  BY DEF Idle, TaskRec, Labels, JobPlaces
<1>4. DOMAIN procs = {} /\ Len(procs) = 0 /\ ProcsTyped
  BY <1>2 DEF ProcsTyped
<1>5. \A t \in Tasks : task[t] = Idle
  BY <1>2
<1>6. \A j \in Jobs : task[j] = Idle /\ result[j] = Open
  BY <1>2, TaskSets
<1>7. \A p \in Pools : entries[p] = 0 /\ resume[p] = 0 /\ barred[p] = {}
  BY <1>2
<1>8. Base
  <2>1. TasksTyped /\ RestTyped
    BY <1>2, <1>3, <1>4 DEF TasksTyped, RestTyped, Open
  <2>2. Links
    BY <1>2, <1>3, <1>5, <1>6, <1>7 DEF Links, TaskOk, JobOk, JobPlaces, AtProc
  <2>. QED
    BY <1>4, <2>1, <2>2 DEF Base
<1>9. One /\ Unserved /\ NoStrayProcess /\ Witness
  BY <1>3, <1>4, <1>6, <1>7 DEF One, Unserved, NoStrayProcess, Witness, Working, Aim
<1>10. Discard
  BY <1>3, <1>4, <1>6, <1>7 DEF Discard
<1>11. Owed /\ AnswersMatch
  BY <1>3, <1>6, <1>7, TaskSets DEF Owed, HandOwed, EntryOwed, Awaiting, Served, Alive,
                                    AnswersMatch, Open
<1>. QED
  BY <1>8, <1>9, <1>10, <1>11 DEF CliInv

LEMMA CliStays == CliInv /\ [CliNext]_cliVars => CliInv'
<1>1. ASSUME CliInv, CliNext PROVE CliInv'
  <2>1. Base' /\ StepKinds
    BY <1>1, Kinds DEF CliInv
  <2>2. One'
    BY <1>1, <2>1, OneStays DEF CliInv
  <2>. QED
    BY <1>1, <2>1, <2>2, UnservedStays, StrayStays, DiscardStays, OwedStays,
       AnswersStay, WitnessStays DEF CliInv
<1>2. ASSUME CliInv, UNCHANGED cliVars PROVE CliInv'
  <2>0. UNCHANGED <<procs, entries, resume, task, result, due, left, cut, barred>>
    BY <1>2 DEF cliVars
  <2>1. Base'
    BY <1>2, <2>0 DEF CliInv, Base, ProcsTyped, TasksTyped, RestTyped, Links, TaskOk, JobOk
  <2>2. One' /\ Unserved' /\ NoStrayProcess'
    BY <1>2, <2>0 DEF CliInv, One, Working, Unserved, Aim, Served, Alive, Overlapped,
       NoStrayProcess
  <2>3. Discard' /\ Witness'
    BY <1>2, <2>0 DEF CliInv, Discard, Sid, Witness, Given, Aim
  <2>4. Owed'
    BY <1>2, <2>0 DEF CliInv, Owed, Clean, Overlapped, HandOwed, EntryOwed, Served, Alive,
       Quiet, Owing, Awaiting
  <2>5. AnswersMatch'
    BY <1>2, <2>0 DEF CliInv, AnswersMatch, Overlapped
  <2>. QED
    BY <2>1, <2>2, <2>3, <2>4, <2>5 DEF CliInv
<1>. QED
  BY <1>1, <1>2

\* The inductive invariant of the process pool: any jobs, control commands,
\* sweeps, deaths and give-ups, in any order of the event loop.
THEOREM CliInvariant == CliSpec => []CliInv
  BY CliStarts, CliStays, PTL DEF CliSpec

\* send and send_streaming never report to a job what was written for another:
\* before a prompt is written its process has nothing unread (HandOwed), unless
\* a turn of the pool was given up by the hub or left half read.
THEOREM AnswersReachTheirJob == CliSpec => []AnswersMatch
<1>1. CliInv => AnswersMatch
  BY DEF CliInv
<1>. QED
  BY <1>1, CliInvariant, PTL

\* _spawn overwrites an entry only where none is served (Unserved), and _kill
\* keeps what it took out of the table until it is dead: stop() and the reaper
\* reach every live process of a pool whose jobs come one after the other.
THEOREM NoProcessIsLost == CliSpec => []NoStrayProcess
<1>1. CliInv => NoStrayProcess
  BY DEF CliInv
<1>. QED
  BY <1>1, CliInvariant, PTL

\* What reset and switch_cwd discarded is neither scheduled nor resumed again,
\* whatever _maybe_preserve_session keeps and whatever a sweep kills: the one
\* session that can come back is the one a spawn under way had popped when the
\* reset ran (_spawn).
THEOREM ResetsAreFinal == CliSpec => []DiscardedStaysDiscarded
<1>1. CliInv => DiscardedStaysDiscarded
  BY DEF CliInv, Discard, DiscardedStaysDiscarded, Discarded, Served, Alive
<1>. QED
  BY <1>1, CliInvariant, PTL

\* No step drops the session of a pool but those SessionKept names: in all the
\* others it is that of the entry, scheduled, or in a spawn under way.
THEOREM SessionsGoOn == CliSpec => SessionKept
<1>1. ASSUME CliInv, CliInv', CliNext, NEW p \in Pools, ~Excused(p)
      PROVE  Held(p) \subseteq Held(p)'
  <2>1. Base /\ Base' /\ Discard /\ Witness /\ StepKinds
    BY <1>1, Kinds DEF CliInv
  <2>. QED
    BY <1>1, <2>1, HeldBefore, SessionStep, HeldAfter
<1>2. CliInv /\ CliInv' /\ CliNext =>
        \A p \in Pools :
          \/ Held(p) \subseteq Held(p)'
          \/ \E j \in Jobs : /\ task[j].pool = p
                             /\ task'[j].pc # task[j].pc
                             /\ task[j].pc \in {"send", "spawning", "guard",
                                                "resume", "setresume"}
          \/ \E j \in Jobs : /\ task[j].pool = p /\ task[j].pc = "reading"
                             /\ Aim(j)' \in {"empty", "retry"}
          \/ task[Control].pc # task'[Control].pc
          \/ entries[p] # 0 /\ resume[p] # 0
  BY <1>1 DEF Excused
<1>. QED
  BY <1>2, CliInvariant, PTL DEF CliSpec, SessionKept
=============================================================================

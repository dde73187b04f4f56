--------------------------- MODULE OmpPoolProofs ---------------------------
(***************************************************************************)
(* The pool of omp workers for any cap, number of jobs, prompts, sessions   *)
(* and faults: no slot leaks, the processes alive are bounded, no worker is *)
(* shared, and a prompt runs in the conversation of its job.                *)
(***************************************************************************)
EXTENDS OmpPool, FiniteSetTheorems, SequenceTheorems, TLAPS

Labels == Holding \cup {"idle", "waiting", "done"}

\* The labels of a job that holds a worker, and of one that may have started
\* one.
Keeping == Using \cup {"disposing"}
Began   == Using \cup {"done"}

(***************************************************************************)
(* The inductive invariant.                                                 *)
(***************************************************************************)
Typed ==
  /\ sem \in Nat /\ queue \in Seq(Jobs) /\ free \in Seq(Workers)
  /\ pc \in [Jobs -> Labels]
  /\ has \in [Jobs -> Workers \cup {None}]
  /\ want \in [Jobs -> Prompts \cup {None}]
  /\ ask \in [Jobs -> Sessions \cup {None}]
  /\ prompt \in [Workers -> Prompts \cup {None}]
  /\ sess \in [Workers -> Sessions \cup Jobs \cup {None}]

\* The jobs in the queue wait, each in one place.
Queued ==
  /\ \A i \in 1 .. Len(queue) : pc[queue[i]] = "waiting"
  /\ \A i, k \in 1 .. Len(queue) : queue[i] = queue[k] => i = k

\* A worker is named after a job that started it, is held by one job at most
\* and is not in the free list then, nor twice when it is.
Owned ==
  /\ \A j \in Jobs : pc[j] \in Keeping =>
       /\ has[j] \in Workers /\ pc[has[j]] \in Began
       /\ \A i \in 1 .. Len(free) : free[i] # has[j]
       /\ \A k \in Jobs : k # j /\ pc[k] \in Keeping => has[k] # has[j]
  /\ \A j \in Jobs : pc[j] \in Using => has[j] \in out
  /\ \A i \in 1 .. Len(free) : pc[free[i]] \in Began
  /\ \A i, k \in 1 .. Len(free) : free[i] = free[k] => i = k

\* A worker has its job's prompt from the moment it is taken, and its session
\* from the moment the session is selected.
Suited ==
  /\ \A j \in Jobs : pc[j] \in Using => prompt[has[j]] = want[j]
  /\ \A j \in Jobs : pc[j] \in Ran => sess[has[j]] \in {ask[j], j}

IInv == Typed /\ Queued /\ Owned /\ Suited /\ SlotsAccounted

(***************************************************************************)
(* The slots.                                                               *)
(***************************************************************************)
LEMMA HoldersFinite == IsFiniteSet(Holders) /\ IsFiniteSet(Holders')
<1>1. IsFiniteSet(Jobs)
  BY FS_Interval, OmpPoolAssumption DEF Jobs
<1>2. Holders \subseteq Jobs /\ Holders' \subseteq Jobs
  BY DEF Holders
<1>. QED
  BY <1>1, <1>2, FS_Subset

LEMMA InitInv == ASSUME Init PROVE IInv
<1>1. Typed
  BY OmpPoolAssumption DEF Init, Typed, Labels
<1>2. Queued
  BY DEF Init, Queued
<1>3. Owned /\ Suited
  BY DEF Init, Owned, Suited, Keeping, Using, Ran
<1>4. SlotsAccounted
  <2>1. Holders = {}
    BY DEF Init, Holders, Holding
  <2>. QED
    BY <2>1, FS_EmptySet, OmpPoolAssumption DEF Init, SlotsAccounted
<1>. QED
  BY <1>1, <1>2, <1>3, <1>4 DEF IInv

\* A job that keeps its slot, at another label.
LEMMA MoveKeeps ==
  ASSUME IInv, NEW j \in Jobs, pc[j] \in Holding, NEW l \in Holding, Goto(j, l),
         UNCHANGED <<sem, queue>>
  PROVE  /\ sem' \in Nat /\ queue' \in Seq(Jobs) /\ pc' \in [Jobs -> Labels]
         /\ pc'[j] = l /\ \A k \in Jobs \ {j} : pc'[k] = pc[k]
         /\ Queued' /\ SlotsAccounted'
<1>1. /\ pc' \in [Jobs -> Labels] /\ sem' \in Nat /\ queue' \in Seq(Jobs)
      /\ pc'[j] = l /\ \A k \in Jobs \ {j} : pc'[k] = pc[k]
  BY DEF IInv, Typed, Goto, Labels
<1>2. Holders' = Holders
  BY <1>1 DEF Holders
<1>3. SlotsAccounted'
  BY <1>2 DEF IInv, SlotsAccounted
<1>4. Queued'
  <2>1. \A i \in 1 .. Len(queue) : queue[i] \in Jobs
    BY ElementOfSeq DEF IInv, Typed
  <2>2. pc[j] # "waiting"
    BY DEF Holding
  <2>. QED
    BY <1>1, <2>1, <2>2 DEF IInv, Queued
<1>. QED
  BY <1>1, <1>3, <1>4

\* A job that ends: the first waiter gets its slot.
LEMMA EndKeeps ==
  ASSUME IInv, NEW j \in Jobs, pc[j] \in Holding, EndAndReleaseSlot(j)
  PROVE  /\ sem' \in Nat /\ queue' \in Seq(Jobs) /\ pc' \in [Jobs -> Labels]
         /\ pc'[j] = "done"
         /\ \A k \in Jobs \ {j} : \/ pc'[k] = pc[k]
                                  \/ pc[k] = "waiting" /\ pc'[k] = "granted"
         /\ Queued' /\ SlotsAccounted'
<1>. DEFINE q == Head(queue)
<1>1. /\ sem \in Nat /\ Len(queue) \in Nat /\ queue \in Seq(Jobs)
      /\ pc \in [Jobs -> Labels] /\ pc[j] # "waiting" /\ j \in Holders
      /\ "done" \notin Holding /\ "waiting" \notin Holding /\ "granted" \in Holding
      /\ sem + Cardinality(Holders) = Cap /\ Cap \in Nat
      /\ \A i \in 1 .. Len(queue) : queue[i] \in Jobs
  BY OmpPoolAssumption, ElementOfSeq DEF IInv, Typed, Holding, Holders, SlotsAccounted
<1>2. /\ Cardinality(Holders) \in Nat
      /\ IsFiniteSet(Holders \ {j})
      /\ Cardinality(Holders \ {j}) = Cardinality(Holders) - 1
  BY <1>1, HoldersFinite, FS_CardinalityType, FS_RemoveElement
<1>3. CASE queue = << >>
  <2>1. sem' = sem + 1 /\ pc' = [pc EXCEPT ![j] = "done"] /\ queue' = queue
    BY <1>3 DEF EndAndReleaseSlot
  <2>2. Holders' = Holders \ {j}
    BY <1>1, <2>1 DEF Holders
  <2>3. SlotsAccounted'
    BY <1>1, <1>2, <2>1, <2>2 DEF SlotsAccounted
  <2>4. Queued'
    BY <1>1, <2>1 DEF IInv, Queued
  <2>. QED
    BY <1>1, <2>1, <2>3, <2>4 DEF Labels
<1>4. CASE queue # << >>
  <2>1. /\ sem' = sem /\ queue' = Tail(queue)
        /\ pc' = [pc EXCEPT ![j] = "done", ![q] = "granted"]
    BY <1>4 DEF EndAndReleaseSlot
  <2>2. /\ queue' \in Seq(Jobs) /\ Len(queue') = Len(queue) - 1
        /\ \A i \in 1 .. Len(queue') : queue'[i] = queue[i + 1]
        /\ q = queue[1] /\ 1 \in 1 .. Len(queue)
    BY <1>1, <1>4, <2>1, HeadTailProperties, EmptySeq
  <2>3. q \in Jobs /\ pc[q] = "waiting" /\ q # j
    BY <1>1, <2>2 DEF IInv, Queued
  <2>4. /\ pc' \in [Jobs -> Labels] /\ pc'[j] = "done" /\ pc'[q] = "granted"
        /\ \A k \in Jobs \ {j, q} : pc'[k] = pc[k]
    BY <1>1, <2>1, <2>3 DEF Labels, Holding
  <2>5. Holders' = (Holders \ {j}) \cup {q}
    BY <1>1, <2>3, <2>4 DEF Holders
  <2>6. q \notin Holders \ {j}
    BY <1>1, <2>3 DEF Holders
  <2>7. SlotsAccounted'
    <3>1. Cardinality(Holders') = Cardinality(Holders \ {j}) + 1
      BY <1>2, <2>5, <2>6, FS_AddElement
    <3>. QED
      BY <1>1, <1>2, <2>1, <3>1 DEF SlotsAccounted
  <2>8. \A i \in 1 .. Len(queue') : i + 1 \in 1 .. Len(queue) /\ i + 1 # 1 /\ i \in Nat
    BY <1>1, <2>2
  <2>9. \A i \in 1 .. Len(queue') : queue'[i] # q /\ queue'[i] # j /\ pc'[queue'[i]] = "waiting"
    BY <1>1, <2>2, <2>4, <2>8 DEF IInv, Queued
  <2>10. ASSUME NEW i \in 1 .. Len(queue'), NEW k \in 1 .. Len(queue'), queue'[i] = queue'[k]
         PROVE  i = k
    <3>1. queue[i + 1] = queue[k + 1]
      BY <2>2, <2>10
    <3>2. i + 1 = k + 1
      BY <2>8, <3>1 DEF IInv, Queued
    <3>. QED
      BY <2>8, <3>2
  <2>. QED
    BY <1>1, <2>1, <2>2, <2>3, <2>4, <2>7, <2>9, <2>10 DEF Queued
<1>. QED
  BY <1>3, <1>4

(***************************************************************************)
(* The steps of a job.                                                      *)
(***************************************************************************)
LEMMA LabelSets ==
  /\ Ran \subseteq Using /\ Using \subseteq Keeping /\ Using \subseteq Began
  /\ Keeping \subseteq Holding
  /\ \A l \in {"idle", "waiting", "granted", "starting"} : l \notin Keeping \cup Began
  /\ "disposing" \notin Using \cup Began /\ "done" \notin Keeping /\ "selecting" \notin Ran
BY DEF Ran, Using, Keeping, Began, Holding

LEMMA FreeAreJobs ==
  ASSUME IInv PROVE \A i \in 1 .. Len(free) : free[i] \in Jobs /\ free[i] \in Workers
BY ElementOfSeq DEF IInv, Typed, Workers

\* A step of job j that leaves the workers alone, before j has one: the
\* others may only go from waiting to granted.
LEMMA NewcomerKeeps ==
  ASSUME IInv, NEW j \in Jobs,
         UNCHANGED <<free, out, prompt, sess>>,
         pc[j] \notin Began, pc'[j] \notin Using,
         pc'[j] \notin Keeping \/ (has'[j] = has[j] /\ pc[j] \in Keeping),
         \A k \in Jobs \ {j} :
           /\ pc'[k] = pc[k] \/ (pc[k] = "waiting" /\ pc'[k] = "granted")
           /\ has'[k] = has[k] /\ want'[k] = want[k] /\ ask'[k] = ask[k]
  PROVE  Owned' /\ Suited'
<1>1. \A k \in Jobs : pc'[k] \in Keeping => pc[k] \in Keeping /\ has'[k] = has[k]
  BY LabelSets
<1>2. \A k \in Jobs : pc'[k] \in Using => k # j /\ pc'[k] = pc[k]
  BY LabelSets
<1>3. \A k \in Jobs : pc[k] \in Began => pc'[k] \in Began
  BY LabelSets
<1>4. Owned'
  BY <1>1, <1>2, <1>3, LabelSets, FreeAreJobs DEF IInv, Owned, Workers
<1>5. Suited'
  BY <1>2, LabelSets DEF IInv, Suited
<1>. QED
  BY <1>4, <1>5

LEMMA ArriveStep ==
  ASSUME IInv, NEW j \in Jobs, NEW p \in Prompts, NEW s \in Sessions \cup {None},
         Arrive(j, p, s)
  PROVE  IInv'
<1>1. /\ pc[j] = "idle" /\ sem \in Nat /\ queue \in Seq(Jobs) /\ Len(queue) \in Nat
      /\ pc \in [Jobs -> Labels]
      /\ UNCHANGED <<free, out, prompt, sess, has>>
      /\ want' = [want EXCEPT ![j] = p] /\ ask' = [ask EXCEPT ![j] = s]
      /\ \A i \in 1 .. Len(queue) : queue[i] \in Jobs /\ queue[i] # j
  BY ElementOfSeq DEF IInv, Typed, Queued, Arrive
<1>2. /\ pc' \in [Jobs -> Labels] /\ pc'[j] \in {"granted", "waiting"}
      /\ \A k \in Jobs \ {j} : pc'[k] = pc[k]
  BY <1>1 DEF Arrive, Goto, Labels, Holding
<1>3. ASSUME sem > 0
      PROVE  sem' \in Nat /\ queue' \in Seq(Jobs) /\ Queued' /\ SlotsAccounted'
  <2>1. sem' = sem - 1 /\ pc'[j] = "granted" /\ queue' = queue
    BY <1>1, <1>3 DEF Arrive, Goto
  <2>2. Holders' = Holders \cup {j} /\ j \notin Holders
    BY <1>1, <1>2, <2>1 DEF Holders, Holding
  <2>3. Cardinality(Holders') = Cardinality(Holders) + 1 /\ Cardinality(Holders) \in Nat
    BY <2>2, HoldersFinite, FS_AddElement, FS_CardinalityType
  <2>4. SlotsAccounted'
    BY <1>1, <2>1, <2>3, OmpPoolAssumption DEF IInv, SlotsAccounted
  <2>5. Queued'
    BY <1>1, <1>2, <2>1 DEF IInv, Queued
  <2>. QED
    BY <1>1, <1>3, <2>1, <2>4, <2>5
<1>4. ASSUME ~(sem > 0)
      PROVE  sem' \in Nat /\ queue' \in Seq(Jobs) /\ Queued' /\ SlotsAccounted'
  <2>1. sem' = sem /\ pc'[j] = "waiting" /\ queue' = Append(queue, j)
    BY <1>1, <1>4 DEF Arrive, Goto
  <2>2. Holders' = Holders
    BY <1>1, <1>2, <2>1 DEF Holders, Holding
  <2>3. SlotsAccounted'
    BY <2>1, <2>2 DEF IInv, SlotsAccounted
  <2>4. /\ queue' \in Seq(Jobs) /\ Len(queue') = Len(queue) + 1
        /\ \A i \in 1 .. Len(queue) : queue'[i] = queue[i]
        /\ queue'[Len(queue) + 1] = j
    BY <1>1, <2>1, AppendProperties
  <2>5. \A i \in 1 .. Len(queue') :
          \/ i \in 1 .. Len(queue) /\ queue'[i] = queue[i] /\ queue'[i] # j
          \/ i = Len(queue) + 1 /\ queue'[i] = j
    BY <1>1, <2>4
  <2>6. Queued'
    BY <1>1, <1>2, <2>1, <2>5 DEF IInv, Queued
  <2>. QED
    BY <1>1, <2>1, <2>3, <2>4, <2>6
<1>5. sem' \in Nat /\ queue' \in Seq(Jobs) /\ Queued' /\ SlotsAccounted'
  BY <1>3, <1>4
<1>6. Typed'
  BY <1>1, <1>2, <1>5 DEF IInv, Typed
<1>7. pc[j] \notin Began /\ pc'[j] \notin Using /\ pc'[j] \notin Keeping
  BY <1>1, <1>2, LabelSets
<1>8. Owned' /\ Suited'
  BY <1>1, <1>2, <1>7, NewcomerKeeps
<1>. QED
  BY <1>5, <1>6, <1>8 DEF IInv

LEMMA TakeNoneStep == ASSUME IInv, NEW j \in Jobs, TakeNone(j) PROVE IInv'
<1>1. /\ pc[j] = "granted" /\ Goto(j, "starting")
      /\ UNCHANGED <<sem, queue, free, out, prompt, sess, want, ask, has>>
  BY DEF TakeNone
<1>2. pc[j] \in Holding /\ "starting" \in Holding
  BY <1>1 DEF Holding
<1>3. /\ sem' \in Nat /\ queue' \in Seq(Jobs) /\ pc' \in [Jobs -> Labels]
      /\ pc'[j] = "starting" /\ \A k \in Jobs \ {j} : pc'[k] = pc[k]
      /\ Queued' /\ SlotsAccounted'
  BY <1>1, <1>2, MoveKeeps
<1>4. Typed'
  BY <1>1, <1>3 DEF IInv, Typed
<1>5. pc[j] \notin Began /\ pc'[j] \notin Using /\ pc'[j] \notin Keeping
  BY <1>1, <1>3, LabelSets
<1>6. Owned' /\ Suited'
  BY <1>1, <1>3, <1>5, NewcomerKeeps
<1>. QED
  BY <1>3, <1>4, <1>6 DEF IInv

LEMMA FrontProperties ==
  ASSUME NEW S, NEW s \in Seq(S), s # << >>
  PROVE  /\ Front(s) \in Seq(S) /\ Len(Front(s)) = Len(s) - 1
         /\ \A i \in 1 .. Len(s) - 1 : Front(s)[i] = s[i]
<1>. DEFINE n == Len(s) - 1
<1>1. n \in Nat /\ 1 \in Int /\ n \in Int /\ Len(s) = n + 1
  BY EmptySeq
<1>2. \A i \in 1 .. n : s[i] \in S
  BY <1>1, ElementOfSeq
<1>. HIDE DEF n
<1>3. /\ SubSeq(s, 1, n) \in Seq(S)
      /\ Len(SubSeq(s, 1, n)) = IF 1 <= n THEN n - 1 + 1 ELSE 0
      /\ \A i \in 1 .. n - 1 + 1 : SubSeq(s, 1, n)[i] = s[1 + i - 1]
  BY <1>1, <1>2, SubSeqProperties
<1>4. /\ (IF 1 <= n THEN n - 1 + 1 ELSE 0) = n
      /\ \A i \in 1 .. n : i \in 1 .. n - 1 + 1 /\ 1 + i - 1 = i
  BY <1>1
<1>5. Len(SubSeq(s, 1, n)) = n /\ \A i \in 1 .. n : SubSeq(s, 1, n)[i] = s[i]
  BY <1>3, <1>4
<1>. QED
  BY <1>3, <1>5 DEF n, Front

\* A job takes the worker at the end of the free list.
LEMMA TakeKeeps ==
  ASSUME IInv, NEW j \in Jobs, pc[j] = "granted", free # << >>,
         NEW l \in {"disposing", "selecting"}, Goto(j, l),
         free' = Front(free), has' = [has EXCEPT ![j] = Last(free)],
         l = "disposing" => UNCHANGED out,
         l = "selecting" => /\ out' = out \cup {Last(free)}
                            /\ prompt[Last(free)] = want[j],
         UNCHANGED <<sem, queue, prompt, sess, want, ask>>
  PROVE  IInv'
<1>. DEFINE w == Last(free)
<1>1. pc[j] \in Holding /\ l \in Holding /\ l \in Keeping
  BY DEF Holding, Keeping, Using
<1>2. /\ sem' \in Nat /\ queue' \in Seq(Jobs) /\ pc' \in [Jobs -> Labels]
      /\ pc'[j] = l /\ \A k \in Jobs \ {j} : pc'[k] = pc[k]
      /\ Queued' /\ SlotsAccounted'
  BY <1>1, MoveKeeps
<1>3. /\ free \in Seq(Workers) /\ Len(free) \in Nat /\ Len(free) > 0
      /\ has \in [Jobs -> Workers \cup {None}]
  BY EmptySeq DEF IInv, Typed
<1>4. /\ w \in Workers /\ w \in Jobs /\ pc[w] \in Began /\ w # j
      /\ Len(free) \in 1 .. Len(free) /\ free[Len(free)] = w
  BY <1>3, FreeAreJobs, LabelSets DEF Last, IInv, Owned
<1>5. /\ free' \in Seq(Workers) /\ Len(free') = Len(free) - 1
      /\ \A i \in 1 .. Len(free') : free'[i] = free[i] /\ i \in 1 .. Len(free)
                                    /\ i # Len(free)
  <2>1. /\ free' \in Seq(Workers) /\ Len(free') = Len(free) - 1
        /\ \A i \in 1 .. Len(free) - 1 : free'[i] = free[i]
    BY <1>3, FrontProperties
  <2>. QED
    BY <1>3, <2>1
<1>6. /\ has' \in [Jobs -> Workers \cup {None}]
      /\ has'[j] = w /\ \A k \in Jobs \ {j} : has'[k] = has[k]
  BY <1>3, <1>4
<1>7. \A k \in Jobs : pc[k] \in Keeping => k # j /\ has[k] # w
  BY <1>4, LabelSets DEF IInv, Owned
<1>8. Typed'
  BY <1>2, <1>5, <1>6 DEF IInv, Typed
<1>9. \A k \in Jobs : pc[k] \in Began => pc'[k] = pc[k]
  BY <1>2, LabelSets
<1>10. \A k \in Jobs \ {j} : pc'[k] \in Keeping =>
         /\ pc[k] \in Keeping /\ has'[k] = has[k] /\ has[k] # w
  BY <1>2, <1>6, <1>7
<1>11. Owned'
  <2>1. \A k \in Jobs : pc'[k] \in Keeping =>
          has'[k] \in Workers /\ pc'[has'[k]] \in Began
    BY <1>4, <1>6, <1>9, <1>10 DEF IInv, Owned, Workers
  <2>2. \A k \in Jobs : pc'[k] \in Keeping => \A i \in 1 .. Len(free') : free'[i] # has'[k]
    <3>1. \A i, k \in 1 .. Len(free) : free[i] = free[k] => i = k
      BY DEF IInv, Owned
    <3>2. \A i \in 1 .. Len(free') : free'[i] # w
      BY <1>4, <1>5, <3>1
    <3>3. \A k \in Jobs : pc[k] \in Keeping => \A i \in 1 .. Len(free) : free[i] # has[k]
      BY DEF IInv, Owned
    <3>. QED
      BY <1>5, <1>6, <1>10, <3>2, <3>3
  <2>3. \A k, m \in Jobs : pc'[k] \in Keeping /\ m # k /\ pc'[m] \in Keeping =>
          has'[m] # has'[k]
    BY <1>6, <1>10 DEF IInv, Owned
  <2>4. \A k \in Jobs : pc'[k] \in Using => has'[k] \in out'
    BY <1>2, <1>6, LabelSets DEF IInv, Owned
  <2>5. \A i \in 1 .. Len(free') : pc'[free'[i]] \in Began
    BY <1>5, <1>9, FreeAreJobs DEF IInv, Owned
  <2>6. \A i, k \in 1 .. Len(free') : free'[i] = free'[k] => i = k
    <3>1. \A i, k \in 1 .. Len(free) : free[i] = free[k] => i = k
      BY DEF IInv, Owned
    <3>. SUFFICES ASSUME NEW i \in 1 .. Len(free'), NEW k \in 1 .. Len(free'),
                         free'[i] = free'[k]
                  PROVE  i = k
      OBVIOUS
    <3>2. /\ i \in 1 .. Len(free) /\ k \in 1 .. Len(free)
          /\ free[i] = free'[i] /\ free[k] = free'[k]
      BY ONLY <1>5, i \in 1 .. Len(free'), k \in 1 .. Len(free')
    <3>. QED
      BY ONLY <3>1, <3>2, free'[i] = free'[k]
  <2>. QED
    BY <2>1, <2>2, <2>3, <2>4, <2>5, <2>6 DEF Owned
<1>12. Suited'
  BY <1>2, <1>6, LabelSets DEF IInv, Suited
<1>. QED
  BY <1>2, <1>8, <1>11, <1>12 DEF IInv

LEMMA TakeStep == ASSUME IInv, NEW j \in Jobs, TakeOther(j) \/ TakeFit(j) PROVE IInv'
<1>1. CASE TakeOther(j)
  BY <1>1, TakeKeeps DEF TakeOther
<1>2. CASE TakeFit(j)
  BY <1>2, TakeKeeps DEF TakeFit
<1>. QED
  BY <1>1, <1>2

\* A step of the job that holds a worker: it changes that worker alone, and
\* keeps it or gives it up, perhaps to the free list.
LEMMA OwnerKeeps ==
  ASSUME IInv, NEW j \in Jobs, pc[j] \in Keeping,
         free' = free \/ (free' = Append(free, has[j]) /\ pc'[j] = "done"),
         \A k \in Jobs \ {j} :
           /\ pc'[k] = pc[k] \/ (pc[k] = "waiting" /\ pc'[k] = "granted")
           /\ has'[k] = has[k] /\ want'[k] = want[k] /\ ask'[k] = ask[k],
         \A w \in Workers \ {has[j]} : prompt'[w] = prompt[w] /\ sess'[w] = sess[w],
         out \ {has[j]} \subseteq out',
         pc[j] \in Began => pc'[j] \in Began,
         pc'[j] \in Keeping =>
           /\ has'[j] = has[j] /\ pc[j] \in Using
           /\ has[j] \in out' /\ prompt'[has[j]] = want'[j],
         pc'[j] \in Ran => sess'[has[j]] \in {ask'[j], j}
  PROVE  Owned' /\ Suited'
<1>. DEFINE w == has[j]
<1>1. /\ \A k \in Jobs : pc[k] \in Keeping => has[k] \in Workers /\ pc[has[k]] \in Began
      /\ \A k \in Jobs : pc[k] \in Keeping => \A i \in 1 .. Len(free) : free[i] # has[k]
      /\ \A k, m \in Jobs : pc[k] \in Keeping /\ m # k /\ pc[m] \in Keeping => has[m] # has[k]
      /\ \A k \in Jobs : pc[k] \in Using => has[k] \in out
      /\ \A i \in 1 .. Len(free) : pc[free[i]] \in Began
      /\ \A i, k \in 1 .. Len(free) : free[i] = free[k] => i = k
  BY DEF IInv, Owned
<1>2. \A k \in Jobs : pc'[k] \in Keeping => pc[k] \in Keeping /\ has'[k] = has[k]
  BY LabelSets
<1>3. \A k \in Jobs \ {j} : pc'[k] \in Keeping =>
        pc'[k] = pc[k] /\ has[k] # w /\ has[k] \in Workers
  BY <1>1, LabelSets
<1>4. \A k \in Jobs : pc[k] \in Began => pc'[k] \in Began
  BY LabelSets
<1>5. /\ w \in Workers /\ pc[w] \in Began /\ w \in Jobs
  BY <1>1 DEF Workers
<1>6. \A i \in 1 .. Len(free') :
        \/ i \in 1 .. Len(free) /\ free'[i] = free[i] /\ free[i] # w
        \/ i = Len(free) + 1 /\ free'[i] = w /\ pc'[j] \notin Keeping
  <2>1. free \in Seq(Workers) /\ Len(free) \in Nat
    BY DEF IInv, Typed
  <2>2. CASE free' = free
    BY <1>1, <2>2
  <2>3. CASE free' = Append(free, w) /\ pc'[j] = "done"
    <3>1. /\ Len(free') = Len(free) + 1
          /\ \A i \in 1 .. Len(free) : free'[i] = free[i]
          /\ free'[Len(free) + 1] = w
      BY <1>5, <2>1, <2>3, AppendProperties
    <3>2. \A i \in 1 .. Len(free') : i \in 1 .. Len(free) \/ i = Len(free) + 1
      BY <2>1, <3>1
    <3>. QED
      BY <1>1, <2>3, <3>1, <3>2, LabelSets
  <2>. QED
    BY <2>2, <2>3
<1>7. Owned'
  <2>1. \A k \in Jobs : pc'[k] \in Keeping => has'[k] \in Workers /\ pc'[has'[k]] \in Began
    BY <1>1, <1>2, <1>4 DEF Workers
  <2>2. \A k \in Jobs : pc'[k] \in Keeping => \A i \in 1 .. Len(free') : free'[i] # has'[k]
    BY <1>1, <1>2, <1>3, <1>6
  <2>3. \A k, m \in Jobs : pc'[k] \in Keeping /\ m # k /\ pc'[m] \in Keeping =>
          has'[m] # has'[k]
    BY <1>1, <1>2
  <2>4. \A k \in Jobs : pc'[k] \in Using => has'[k] \in out'
    BY <1>1, <1>2, <1>3, LabelSets
  <2>5. \A i \in 1 .. Len(free') : pc'[free'[i]] \in Began
    BY <1>1, <1>4, <1>5, <1>6, FreeAreJobs
  <2>6. \A i, k \in 1 .. Len(free') : free'[i] = free'[k] => i = k
    BY <1>1, <1>6
  <2>. QED
    BY <2>1, <2>2, <2>3, <2>4, <2>5, <2>6 DEF Owned
<1>8. Suited'
  BY <1>2, <1>3, LabelSets DEF IInv, Suited
<1>. QED
  BY <1>7, <1>8

LEMMA DisposedStep == ASSUME IInv, NEW j \in Jobs, Disposed(j) PROVE IInv'
<1>1. /\ pc[j] = "disposing" /\ Goto(j, "starting")
      /\ UNCHANGED <<sem, queue, free, out, want, ask>>
      /\ prompt' = [prompt EXCEPT ![has[j]] = None]
      /\ sess' = [sess EXCEPT ![has[j]] = None]
      /\ has' = [has EXCEPT ![j] = None]
  BY DEF Disposed
<1>2. pc[j] \in Holding /\ "starting" \in Holding /\ pc[j] \in Keeping
  BY <1>1 DEF Holding, Keeping
<1>3. /\ sem' \in Nat /\ queue' \in Seq(Jobs) /\ pc' \in [Jobs -> Labels]
      /\ pc'[j] = "starting" /\ \A k \in Jobs \ {j} : pc'[k] = pc[k]
      /\ Queued' /\ SlotsAccounted'
  BY <1>1, <1>2, MoveKeeps
<1>4. Typed'
  BY <1>1, <1>3 DEF IInv, Typed
<1>5. /\ pc[j] \notin Began /\ pc'[j] \notin Keeping /\ pc'[j] \notin Ran
      /\ \A k \in Jobs \ {j} : has'[k] = has[k]
      /\ \A w \in Workers \ {has[j]} : prompt'[w] = prompt[w] /\ sess'[w] = sess[w]
  BY <1>1, <1>3, LabelSets DEF IInv, Typed
<1>6. Owned' /\ Suited'
  BY <1>1, <1>2, <1>3, <1>5, OwnerKeeps
<1>. QED
  BY <1>3, <1>4, <1>6 DEF IInv

LEMMA StartedStep == ASSUME IInv, NEW j \in Jobs, Started(j) PROVE IInv'
<1>1. /\ pc[j] = "starting" /\ Goto(j, "selecting")
      /\ UNCHANGED <<sem, queue, free, sess, want, ask>>
      /\ out' = out \cup {j}
      /\ prompt' = [prompt EXCEPT ![j] = want[j]]
      /\ has' = [has EXCEPT ![j] = j]
  BY DEF Started
<1>2. pc[j] \in Holding /\ "selecting" \in Holding /\ j \in Workers
  BY <1>1 DEF Holding, Workers
<1>3. /\ sem' \in Nat /\ queue' \in Seq(Jobs) /\ pc' \in [Jobs -> Labels]
      /\ pc'[j] = "selecting" /\ \A k \in Jobs \ {j} : pc'[k] = pc[k]
      /\ Queued' /\ SlotsAccounted'
  BY <1>1, <1>2, MoveKeeps
<1>4. Typed'
  BY <1>1, <1>2, <1>3 DEF IInv, Typed
<1>5. /\ has'[j] = j /\ prompt'[j] = want[j] /\ pc'[j] \in Began /\ pc[j] \notin Began
      /\ pc'[j] \notin Ran
      /\ \A k \in Jobs \ {j} : has'[k] = has[k] /\ prompt'[k] = prompt[k]
  BY <1>1, <1>2, <1>3, LabelSets DEF IInv, Typed, Workers, Began, Using
<1>6. \A k \in Jobs : pc[k] \in Began => k # j /\ pc'[k] \in Began
  BY <1>3, <1>5
<1>7. \A k \in Jobs : pc[k] \in Keeping => has[k] # j /\ has[k] \in Jobs
  BY <1>5 DEF IInv, Owned, Workers
<1>8. \A i \in 1 .. Len(free) : free[i] # j
  BY <1>5 DEF IInv, Owned
<1>9. Owned'
  <2>1. \A k \in Jobs : pc'[k] \in Keeping => has'[k] \in Workers /\ pc'[has'[k]] \in Began
    BY <1>2, <1>3, <1>5, <1>6 DEF IInv, Owned, Workers
  <2>2. \A k \in Jobs : pc'[k] \in Keeping => \A i \in 1 .. Len(free') : free'[i] # has'[k]
    BY <1>1, <1>3, <1>5, <1>8 DEF IInv, Owned
  <2>3. \A k, m \in Jobs : pc'[k] \in Keeping /\ m # k /\ pc'[m] \in Keeping =>
          has'[m] # has'[k]
    BY <1>3, <1>5, <1>7 DEF IInv, Owned
  <2>4. \A k \in Jobs : pc'[k] \in Using => has'[k] \in out'
    BY <1>1, <1>3, <1>5 DEF IInv, Owned
  <2>5. \A i \in 1 .. Len(free') : pc'[free'[i]] \in Began
    BY <1>1, <1>6, FreeAreJobs DEF IInv, Owned
  <2>6. \A i, k \in 1 .. Len(free') : free'[i] = free'[k] => i = k
    BY <1>1 DEF IInv, Owned
  <2>. QED
    BY <2>1, <2>2, <2>3, <2>4, <2>5, <2>6 DEF Owned
<1>10. Suited'
  BY <1>1, <1>3, <1>5, <1>7, LabelSets DEF IInv, Suited
<1>. QED
  BY <1>3, <1>4, <1>9, <1>10 DEF IInv

LEMMA EndTyped ==
  ASSUME IInv, NEW j \in Jobs, EndAndReleaseSlot(j)
  PROVE  /\ has' \in [Jobs -> Workers \cup {None}]
         /\ want' \in [Jobs -> Prompts \cup {None}]
         /\ ask' \in [Jobs -> Sessions \cup {None}]
         /\ has'[j] = None
         /\ \A k \in Jobs \ {j} : has'[k] = has[k] /\ want'[k] = want[k] /\ ask'[k] = ask[k]
BY DEF IInv, Typed, EndAndReleaseSlot

LEMMA StartFailsStep == ASSUME IInv, NEW j \in Jobs, StartFails(j) PROVE IInv'
<1>1. /\ pc[j] = "starting" /\ EndAndReleaseSlot(j)
      /\ UNCHANGED <<free, out, prompt, sess>>
  BY DEF StartFails
<1>2. pc[j] \in Holding
  BY <1>1 DEF Holding
<1>3. /\ sem' \in Nat /\ queue' \in Seq(Jobs) /\ pc' \in [Jobs -> Labels]
      /\ pc'[j] = "done"
      /\ \A k \in Jobs \ {j} : pc'[k] = pc[k] \/ (pc[k] = "waiting" /\ pc'[k] = "granted")
      /\ Queued' /\ SlotsAccounted'
  BY <1>1, <1>2, EndKeeps
<1>4. Typed'
  BY <1>1, <1>3, EndTyped DEF IInv, Typed
<1>5. pc[j] \notin Began /\ pc'[j] \notin Using /\ pc'[j] \notin Keeping
  BY <1>1, <1>3, LabelSets
<1>6. Owned' /\ Suited'
  BY <1>1, <1>3, <1>5, EndTyped, NewcomerKeeps
<1>. QED
  BY <1>3, <1>4, <1>6 DEF IInv

\* The ends of a job that held a worker: DisposeFails, SelectFails, Release.
LEMMA UseEnds ==
  ASSUME IInv, NEW j \in Jobs, pc[j] \in Keeping, EndAndReleaseSlot(j),
         free' = free \/ free' = Append(free, has[j]),
         out \ {has[j]} \subseteq out',
         \/ UNCHANGED <<prompt, sess>>
         \/ /\ prompt' = [prompt EXCEPT ![has[j]] = None]
            /\ sess' = [sess EXCEPT ![has[j]] = None]
  PROVE  IInv'
<1>1. pc[j] \in Holding /\ pc[j] \in Keeping
  BY LabelSets
<1>2. /\ sem' \in Nat /\ queue' \in Seq(Jobs) /\ pc' \in [Jobs -> Labels]
      /\ pc'[j] = "done"
      /\ \A k \in Jobs \ {j} : pc'[k] = pc[k] \/ (pc[k] = "waiting" /\ pc'[k] = "granted")
      /\ Queued' /\ SlotsAccounted'
  BY <1>1, EndKeeps
<1>3. has[j] \in Workers
  BY <1>1 DEF IInv, Owned
<1>4. /\ prompt' \in [Workers -> Prompts \cup {None}]
      /\ sess' \in [Workers -> Sessions \cup Jobs \cup {None}]
      /\ \A w \in Workers \ {has[j]} : prompt'[w] = prompt[w] /\ sess'[w] = sess[w]
  <2>1. /\ prompt \in [Workers -> Prompts \cup {None}]
        /\ sess \in [Workers -> Sessions \cup Jobs \cup {None}]
    BY DEF IInv, Typed
  <2>2. CASE UNCHANGED <<prompt, sess>>
    BY <2>1, <2>2
  <2>3. CASE /\ prompt' = [prompt EXCEPT ![has[j]] = None]
             /\ sess' = [sess EXCEPT ![has[j]] = None]
    BY <1>3, <2>1, <2>3
  <2>. QED
    BY <2>2, <2>3
<1>5. free' \in Seq(Workers)
  <2>1. free \in Seq(Workers)
    BY DEF IInv, Typed
  <2>2. Append(free, has[j]) \in Seq(Workers)
    BY <1>3, <2>1, AppendProperties
  <2>. QED
    BY <2>1, <2>2
<1>6. Typed'
  BY <1>2, <1>4, <1>5, EndTyped DEF Typed
<1>7. pc'[j] \in Began /\ pc'[j] \notin Keeping /\ pc'[j] \notin Ran
  BY <1>2, LabelSets DEF Began
<1>8. Owned' /\ Suited'
  BY <1>1, <1>2, <1>4, <1>7, EndTyped, OwnerKeeps
<1>. QED
  BY <1>2, <1>6, <1>8 DEF IInv

\* The steps of a job that goes on with its worker: Selected, PromptDone,
\* PromptFails, CloseFails.
LEMMA UseGoesOn ==
  ASSUME IInv, NEW j \in Jobs, pc[j] \in Using, NEW l \in Ran, Goto(j, l),
         UNCHANGED <<sem, queue, free, out, prompt, want, ask, has>>,
         \/ UNCHANGED sess /\ pc[j] \in Ran
         \/ \E s \in {ask[j], j} : sess' = [sess EXCEPT ![has[j]] = s]
  PROVE  IInv'
<1>1. pc[j] \in Holding /\ l \in Holding /\ pc[j] \in Keeping /\ l \in Using
      /\ l \in Began /\ has[j] \in Workers
  BY LabelSets DEF IInv, Owned
<1>2. /\ sem' \in Nat /\ queue' \in Seq(Jobs) /\ pc' \in [Jobs -> Labels]
      /\ pc'[j] = l /\ \A k \in Jobs \ {j} : pc'[k] = pc[k]
      /\ Queued' /\ SlotsAccounted'
  BY <1>1, MoveKeeps
<1>3. /\ sess' \in [Workers -> Sessions \cup Jobs \cup {None}]
      /\ sess'[has[j]] \in {ask[j], j}
      /\ \A w \in Workers \ {has[j]} : sess'[w] = sess[w]
  <2>1. sess \in [Workers -> Sessions \cup Jobs \cup {None}] /\ ask[j] \in Sessions \cup {None}
    BY DEF IInv, Typed
  <2>2. CASE UNCHANGED sess /\ pc[j] \in Ran
    BY <2>1, <2>2 DEF IInv, Suited
  <2>3. CASE \E s \in {ask[j], j} : sess' = [sess EXCEPT ![has[j]] = s]
    BY <1>1, <2>1, <2>3
  <2>. QED
    BY <2>2, <2>3
<1>4. Typed'
  BY <1>2, <1>3 DEF IInv, Typed
<1>5. has[j] \in out /\ prompt[has[j]] = want[j]
  BY DEF IInv, Owned, Suited
<1>6. Owned' /\ Suited'
  BY <1>1, <1>2, <1>3, <1>5, OwnerKeeps
<1>. QED
  BY <1>2, <1>4, <1>6 DEF IInv

LEMMA UseStep ==
  ASSUME IInv, NEW j \in Jobs,
         \/ DisposeFails(j) \/ Selected(j) \/ SelectFails(j) \/ PromptDone(j)
         \/ PromptFails(j) \/ CloseFails(j) \/ Release(j)
  PROVE  IInv'
<1>1. {"selecting", "running", "closing", "failing"} = Using
      /\ {"running", "closing", "failing"} = Ran
  BY DEF Using, Ran
<1>2. CASE Selected(j)
  <2>1. PICK s \in {ask[j], j} : sess' = [sess EXCEPT ![has[j]] = s]
    BY <1>2 DEF Selected
  <2>2. pc[j] \in Using /\ "running" \in Ran
    BY <1>1, <1>2 DEF Selected
  <2>. QED
    BY <1>2, <2>1, <2>2, UseGoesOn DEF Selected
<1>3. CASE PromptDone(j)
  <2>1. pc[j] \in Using /\ pc[j] \in Ran /\ "closing" \in Ran
    BY <1>1, <1>3 DEF PromptDone
  <2>. QED
    BY <1>3, <2>1, UseGoesOn DEF PromptDone
<1>4. CASE PromptFails(j)
  <2>1. pc[j] \in Using /\ pc[j] \in Ran /\ "failing" \in Ran
    BY <1>1, <1>4 DEF PromptFails
  <2>. QED
    BY <1>4, <2>1, UseGoesOn DEF PromptFails
<1>5. CASE CloseFails(j)
  <2>1. pc[j] \in Using /\ pc[j] \in Ran /\ "failing" \in Ran
    BY <1>1, <1>5 DEF CloseFails
  <2>. QED
    BY <1>5, <2>1, UseGoesOn DEF CloseFails
<1>6. CASE SelectFails(j)
  <2>1. pc[j] \in Keeping
    BY <1>1, <1>6, LabelSets DEF SelectFails
  <2>. QED
    BY <1>6, <2>1, UseEnds DEF SelectFails
<1>7. CASE Release(j)
  <2>1. pc[j] \in Keeping
    BY <1>1, <1>7, LabelSets DEF Release
  <2>. QED
    BY <1>7, <2>1, UseEnds DEF Release
<1>8. CASE DisposeFails(j)
  <2>1. pc[j] \in Keeping
    BY <1>8 DEF DisposeFails, Keeping
  <2>. QED
    BY <1>8, <2>1, UseEnds DEF DisposeFails
<1>. QED
  BY <1>2, <1>3, <1>4, <1>5, <1>6, <1>7, <1>8

\* A crash, a cancel and a stutter leave slots, workers and jobs alone.
LEMMA QuietStep ==
  ASSUME IInv, UNCHANGED <<sem, queue, free, out, prompt, sess, pc, want, ask, has>>
  PROVE  IInv'
<1>1. Typed' /\ Queued'
  BY DEF IInv, Typed, Queued
<1>2. Owned' /\ Suited'
  BY DEF IInv, Owned, Suited
<1>3. SlotsAccounted'
  BY DEF IInv, SlotsAccounted, Holders
<1>. QED
  BY <1>1, <1>2, <1>3 DEF IInv

LEMMA InvStep == ASSUME IInv, [Next]_vars PROVE IInv'
<1>1. ASSUME NEW j \in Jobs, JobStep(j) PROVE IInv'
  BY <1>1, TakeNoneStep, TakeStep, DisposedStep, StartedStep, StartFailsStep,
     UseStep DEF JobStep
<1>2. ASSUME NEW j \in Jobs, CancelSeen(j) PROVE IInv'
  BY <1>2, QuietStep DEF CancelSeen
<1>3. ASSUME NEW w \in Workers, Crash(w) \/ CancelStops(w) PROVE IInv'
  BY <1>3, QuietStep DEF Crash, CancelStops
<1>4. CASE UNCHANGED vars
  BY <1>4, QuietStep DEF vars
<1>. QED
  BY <1>1, <1>2, <1>3, <1>4, ArriveStep DEF Next

LEMMA IInvHolds == Spec => []IInv
BY InitInv, InvStep, PTL DEF Spec

(***************************************************************************)
(* The theorems.                                                            *)
(***************************************************************************)

\* Whatever fails, crashes or is cancelled, the semaphore's slots and the
\* jobs that hold one add up to the cap.
THEOREM NoSlotLeaks == Spec => []SlotsAccounted
BY IInvHolds, PTL DEF IInv

\* A worker serves one job at a time, is checked out then, and is never in
\* the free list meanwhile nor twice in it.
THEOREM WorkersUnshared == Spec => []NoSharedWorker
<1>1. ASSUME IInv PROVE NoSharedWorker
  <2>1. DOMAIN free = 1 .. Len(free)
    BY <1>1 DEF IInv, Typed
  <2>2. \A j, k \in Jobs : pc[j] \in Using /\ pc[k] \in Using /\ j # k => has[j] # has[k]
    BY <1>1, LabelSets DEF IInv, Owned
  <2>3. \A j \in Jobs : pc[j] \in Using =>
          has[j] \in out /\ \A i \in 1 .. Len(free) : free[i] # has[j]
    BY <1>1, LabelSets DEF IInv, Owned
  <2>4. \A i, k \in 1 .. Len(free) : free[i] = free[k] => i = k
    BY <1>1 DEF IInv, Owned
  <2>. QED
    BY <2>1, <2>2, <2>3, <2>4 DEF NoSharedWorker
<1>. QED
  BY <1>1, IInvHolds, PTL

\* A prompt runs under its job's system prompt and in the session its job
\* asked for, or a new one: reuse of a worker mixes no conversations.
THEOREM ConversationsApart == Spec => []OwnConversation
<1>1. ASSUME IInv PROVE OwnConversation
  BY <1>1, LabelSets DEF IInv, Suited, OwnConversation
<1>. QED
  BY <1>1, IInvHolds, PTL

(***************************************************************************)
(* The processes alive.  A job past "granted" counts for one worker, which  *)
(* it has, is about to start or is about to stop: with the free ones these  *)
(* never exceed the cap, as a job only starts a worker when none is free.   *)
(* A running worker that is neither free nor held is one a failing call     *)
(* left behind.                                                             *)
(***************************************************************************)
Busy == {j \in Jobs : pc[j] \in Keeping \cup {"starting"}}
FreeWorkers == {free[i] : i \in 1 .. Len(free)}
HeldWorkers == {has[j] : j \in {k \in Jobs : pc[k] \in Keeping}}
Tracked == FreeWorkers \cup HeldWorkers

WithinCap == Len(free) + Cardinality(Busy) <= Cap
Stranded == up \ Tracked \subseteq strays

LEMMA FinitePools ==
  ASSUME IInv
  PROVE  /\ IsFiniteSet(Busy) /\ IsFiniteSet(Busy') /\ IsFiniteSet(Workers)
         /\ Cardinality(Busy) \in Nat /\ Cardinality(Busy') \in Nat
         /\ Len(free) \in Nat /\ Cap \in Nat
<1>1. IsFiniteSet(Jobs)
  BY FS_Interval, OmpPoolAssumption DEF Jobs
<1>2. Busy \subseteq Jobs /\ Busy' \subseteq Jobs
  BY DEF Busy
<1>3. IsFiniteSet(Busy) /\ IsFiniteSet(Busy')
  BY <1>1, <1>2, FS_Subset
<1>4. Len(free) \in Nat
  BY DEF IInv, Typed
<1>. QED
  BY <1>1, <1>3, <1>4, FS_CardinalityType, OmpPoolAssumption DEF Workers

\* What a step of job j does to the others.
Others(j) ==
  \A k \in Jobs \ {j} :
    /\ pc'[k] = pc[k] \/ (pc[k] = "waiting" /\ pc'[k] = "granted")
    /\ has'[k] = has[k]

LEMMA StepOthers ==
  ASSUME IInv, NEW j \in Jobs, JobStep(j)
  PROVE  Others(j) /\ pc[j] \in Holding
<1>1. /\ pc \in [Jobs -> Labels] /\ has \in [Jobs -> Workers \cup {None}]
  BY DEF IInv, Typed
<1>2. pc[j] \in Holding
  BY DEF JobStep, TakeNone, TakeOther, TakeFit, Disposed, DisposeFails, Started,
         StartFails, Selected, SelectFails, PromptDone, PromptFails, CloseFails, Release,
         Holding
<1>3. CASE EndAndReleaseSlot(j)
  <2>1. \A k \in Jobs \ {j} : has'[k] = has[k]
    BY <1>1, <1>3 DEF EndAndReleaseSlot
  <2>. QED
    BY <1>2, <1>3, <2>1, EndKeeps DEF Others
<1>4. CASE TakeNone(j) \/ TakeOther(j) \/ TakeFit(j) \/ Disposed(j) \/ Started(j)
           \/ Selected(j) \/ PromptDone(j) \/ PromptFails(j) \/ CloseFails(j)
  BY <1>1, <1>2, <1>4
  DEF TakeNone, TakeOther, TakeFit, Disposed, Started, Selected, PromptDone, PromptFails,
      CloseFails, Goto, Others
<1>. QED
  BY <1>2, <1>3, <1>4 DEF JobStep, DisposeFails, StartFails, SelectFails, Release

LEMMA OthersKeep ==
  ASSUME NEW j \in Jobs, Others(j)
  PROVE  /\ Busy' \ {j} = Busy \ {j}
         /\ HeldWorkers \ {has[j]} \subseteq HeldWorkers'
         /\ pc[j] \notin Keeping => HeldWorkers \subseteq HeldWorkers'
         /\ pc'[j] \in Keeping => has'[j] \in HeldWorkers'
         /\ \A k \in Jobs \ {j} : pc[k] = "done" => pc'[k] = "done"
<1>1. \A k \in Jobs \ {j} : /\ k \in Busy' <=> k \in Busy
                            /\ pc[k] \in Keeping => pc'[k] \in Keeping /\ has'[k] = has[k]
                            /\ pc[k] = "done" => pc'[k] = "done"
  BY LabelSets DEF Others, Busy
<1>2. Busy \subseteq Jobs /\ Busy' \subseteq Jobs
  BY DEF Busy
<1>. QED
  BY <1>1, <1>2 DEF HeldWorkers

(***************************************************************************)
(* The cap.                                                                 *)
(***************************************************************************)
LEMMA BusyShrinks ==
  ASSUME IInv, WithinCap, NEW j \in Jobs, Others(j), j \in Busy' => j \in Busy,
         free' = free
  PROVE  WithinCap'
<1>1. Busy' \subseteq Busy
  BY OthersKeep
<1>2. Cardinality(Busy') <= Cardinality(Busy)
  BY <1>1, FinitePools, FS_Subset
<1>. QED
  BY <1>2, FinitePools DEF WithinCap

LEMMA StepWithinCap ==
  ASSUME IInv, IInv', WithinCap, NEW j \in Jobs, JobStep(j)
  PROVE  WithinCap'
<1>1. Others(j) /\ Busy' \ {j} = Busy \ {j}
  BY StepOthers, OthersKeep
<1>2. pc \in [Jobs -> Labels] /\ free \in Seq(Workers)
  BY DEF IInv, Typed
<1>3. CASE TakeNone(j)
  <2>1. free' = << >> /\ Busy' \subseteq Holders'
    BY <1>3, LabelSets DEF TakeNone, Busy, Holders, Holding
  <2>2. Cardinality(Busy') <= Cardinality(Holders') /\ Cardinality(Holders') \in Nat
    BY <2>1, HoldersFinite, FS_Subset, FS_CardinalityType
  <2>3. sem' \in Nat /\ sem' + Cardinality(Holders') = Cap
    BY DEF IInv, Typed, SlotsAccounted
  <2>4. Cardinality(Busy') <= Cap
    BY ONLY <2>2, <2>3, FinitePools, IInv
  <2>. QED
    BY <2>1, <2>4, FinitePools DEF WithinCap
<1>4. CASE TakeOther(j) \/ TakeFit(j)
  <2>1. j \notin Busy /\ j \in Busy'
    BY <1>2, <1>4, LabelSets DEF TakeOther, TakeFit, Goto, Busy, Keeping, Using
  <2>2. Busy' = Busy \cup {j}
    BY <1>1, <2>1
  <2>3. Cardinality(Busy') = Cardinality(Busy) + 1
    BY <2>1, <2>2, FinitePools, FS_AddElement
  <2>4. Len(free') = Len(free) - 1
    BY <1>2, <1>4, FrontProperties DEF TakeOther, TakeFit
  <2>. QED
    BY <2>3, <2>4, FinitePools DEF WithinCap
<1>5. CASE Release(j)
  <2>1. j \in Busy /\ j \notin Busy'
    BY <1>5, StepOthers, EndKeeps, LabelSets DEF Release, Busy, Using, Keeping
  <2>2. Busy' = Busy \ {j}
    BY <1>1, <2>1
  <2>3. Cardinality(Busy') = Cardinality(Busy) - 1
    BY <2>1, <2>2, FinitePools, FS_RemoveElement
  <2>4. Len(free') = Len(free) + 1
    <3>1. has[j] \in Workers
      BY <1>5 DEF Release, IInv, Owned, Keeping, Using
    <3>. QED
      BY <1>2, <1>5, <3>1 DEF Release
  <2>. QED
    BY <2>3, <2>4, FinitePools DEF WithinCap
<1>6. CASE DisposeFails(j) \/ StartFails(j) \/ SelectFails(j)
  <2>1. pc'[j] = "done" /\ free' = free
    BY <1>6, StepOthers, EndKeeps DEF DisposeFails, StartFails, SelectFails
  <2>. QED
    BY <1>1, <2>1, BusyShrinks, LabelSets DEF Busy
<1>7. CASE Disposed(j) \/ Started(j) \/ Selected(j) \/ PromptDone(j) \/ PromptFails(j)
           \/ CloseFails(j)
  <2>1. j \in Busy /\ free' = free
    BY <1>7 DEF Disposed, Started, Selected, PromptDone, PromptFails, CloseFails, Busy,
                Keeping, Using
  <2>. QED
    BY <1>1, <2>1, BusyShrinks
<1>. QED
  BY <1>3, <1>4, <1>5, <1>6, <1>7 DEF JobStep

(***************************************************************************)
(* Who runs without being tracked.                                          *)
(***************************************************************************)
LEMMA TakenTracked ==
  ASSUME IInv, NEW j \in Jobs, TakeOther(j) \/ TakeFit(j)
  PROVE  Tracked \subseteq Tracked'
<1>1. free \in Seq(Workers) /\ free # << >> /\ has \in [Jobs -> Workers \cup {None}]
      /\ pc \in [Jobs -> Labels]
  BY DEF IInv, Typed, TakeOther, TakeFit
<1>2. /\ Len(free) \in Nat /\ Len(free') = Len(free) - 1
      /\ \A i \in 1 .. Len(free) - 1 : free'[i] = free[i]
  BY <1>1, FrontProperties DEF TakeOther, TakeFit
<1>3. pc[j] = "granted" /\ pc'[j] \in Keeping /\ has'[j] = free[Len(free)]
  BY <1>1 DEF TakeOther, TakeFit, Goto, Last, Keeping, Using
<1>4. HeldWorkers \subseteq HeldWorkers' /\ free[Len(free)] \in HeldWorkers'
  BY <1>3, StepOthers, OthersKeep, LabelSets DEF JobStep
<1>5. FreeWorkers \subseteq FreeWorkers' \cup {free[Len(free)]}
  <2>. SUFFICES ASSUME NEW i \in 1 .. Len(free), i # Len(free)
                PROVE  free[i] \in FreeWorkers'
    BY DEF FreeWorkers
  <2>1. i \in 1 .. Len(free') /\ free'[i] = free[i]
    BY <1>2
  <2>. QED
    BY <2>1 DEF FreeWorkers
<1>. QED
  BY <1>4, <1>5 DEF Tracked

LEMMA ReleasedTracked ==
  ASSUME IInv, NEW j \in Jobs, Release(j)
  PROVE  Tracked \subseteq Tracked'
<1>1. free \in Seq(Workers) /\ has[j] \in Workers /\ free' = Append(free, has[j])
  BY DEF Release, IInv, Typed, Owned, Keeping, Using
<1>2. /\ Len(free) \in Nat /\ Len(free') = Len(free) + 1
      /\ \A i \in 1 .. Len(free) : free'[i] = free[i]
      /\ free'[Len(free) + 1] = has[j]
  BY <1>1, AppendProperties
<1>3. HeldWorkers \ {has[j]} \subseteq HeldWorkers'
  BY StepOthers, OthersKeep DEF JobStep
<1>4. FreeWorkers \subseteq FreeWorkers' /\ has[j] \in FreeWorkers'
  <2>1. \A i \in 1 .. Len(free) : i \in 1 .. Len(free')
    BY <1>2
  <2>2. Len(free) + 1 \in 1 .. Len(free')
    BY <1>2
  <2>. QED
    BY <1>2, <2>1, <2>2 DEF FreeWorkers
<1>. QED
  BY <1>3, <1>4 DEF Tracked

LEMMA StepStranded ==
  ASSUME IInv, Stranded, NEW j \in Jobs, JobStep(j)
  PROVE  Stranded'
<1>1. /\ Others(j) /\ HeldWorkers \ {has[j]} \subseteq HeldWorkers'
      /\ pc[j] \notin Keeping => HeldWorkers \subseteq HeldWorkers'
      /\ pc'[j] \in Keeping => has'[j] \in HeldWorkers'
  BY StepOthers, OthersKeep
<1>2. pc \in [Jobs -> Labels] /\ has \in [Jobs -> Workers \cup {None}]
  BY DEF IInv, Typed
<1>3. CASE TakeOther(j) \/ TakeFit(j) \/ Release(j)
  <2>1. Tracked \subseteq Tracked' /\ up' = up /\ strays' = strays
    BY <1>3, TakenTracked, ReleasedTracked DEF TakeOther, TakeFit, Release
  <2>. QED
    BY <2>1 DEF Stranded
<1>4. CASE Disposed(j) \/ DisposeFails(j)
  <2>1. /\ free' = free
        /\ \/ up' = up \ {has[j]} /\ strays' = strays
           \/ up' = up /\ strays' = strays \cup {has[j]}
    BY <1>4 DEF Disposed, DisposeFails, StopRaises
  <2>2. Tracked \ {has[j]} \subseteq Tracked'
    BY <1>1, <2>1 DEF Tracked, FreeWorkers
  <2>. QED
    BY <2>1, <2>2 DEF Stranded
<1>5. CASE Started(j)
  <2>1. /\ up' = up \cup {j} /\ free' = free /\ strays' = strays
        /\ pc[j] = "starting" /\ pc'[j] = "selecting" /\ has'[j] = j
    BY <1>2, <1>5 DEF Started, Goto
  <2>2. HeldWorkers \subseteq HeldWorkers' /\ j \in HeldWorkers'
    BY <1>1, <2>1, LabelSets DEF Keeping, Using
  <2>3. Tracked \cup {j} \subseteq Tracked'
    BY <2>1, <2>2 DEF Tracked, FreeWorkers
  <2>. QED
    BY <2>1, <2>3 DEF Stranded
<1>6. CASE TakeNone(j) \/ StartFails(j)
  <2>1. /\ free' = free /\ pc[j] \in {"granted", "starting"}
        /\ \/ up' = up /\ strays' = strays
           \/ up' = up \cup {j} /\ strays' = strays \cup {j}
    BY <1>6 DEF TakeNone, StartFails
  <2>2. HeldWorkers \subseteq HeldWorkers'
    BY <1>1, <2>1, LabelSets DEF Keeping, Using
  <2>3. Tracked \subseteq Tracked'
    BY <2>1, <2>2 DEF Tracked, FreeWorkers
  <2>. QED
    BY <2>1, <2>3 DEF Stranded
<1>7. CASE Selected(j) \/ PromptDone(j) \/ PromptFails(j) \/ CloseFails(j)
  <2>1. /\ UNCHANGED <<up, free, strays, has>> /\ pc'[j] \in Keeping
    BY <1>2, <1>7
    DEF Selected, PromptDone, PromptFails, CloseFails, Goto, Keeping, Using
  <2>2. HeldWorkers \subseteq HeldWorkers'
    BY <1>1, <2>1
  <2>. QED
    BY <2>1, <2>2 DEF Stranded, Tracked, FreeWorkers
<1>8. CASE SelectFails(j)
  <2>1. /\ up' = up /\ free' = free /\ strays \subseteq strays'
        /\ has[j] \in up => has[j] \in strays'
    BY <1>8 DEF SelectFails
  <2>2. Tracked \ {has[j]} \subseteq Tracked'
    BY <1>1, <2>1 DEF Tracked, FreeWorkers
  <2>. QED
    BY <2>1, <2>2 DEF Stranded
<1>. QED
  BY <1>3, <1>4, <1>5, <1>6, <1>7, <1>8 DEF JobStep

LEMMA TrackedBounded ==
  ASSUME IInv
  PROVE  /\ IsFiniteSet(Tracked)
         /\ Cardinality(Tracked) <= Len(free) + Cardinality(Busy)
<1>. DEFINE K == {k \in Jobs : pc[k] \in Keeping}
            f == [i \in 1 .. Len(free) |-> free[i]]
            h == [k \in K |-> has[k]]
<1>1. Len(free) \in Nat /\ IsFiniteSet(Busy)
  BY FinitePools
<1>2. IsFiniteSet(1 .. Len(free)) /\ Cardinality(1 .. Len(free)) = Len(free)
  <2>1. 1 \in Int /\ Len(free) \in Int
    BY <1>1
  <2>2. /\ IsFiniteSet(1 .. Len(free))
        /\ Cardinality(1 .. Len(free)) = IF 1 > Len(free) THEN 0 ELSE Len(free) - 1 + 1
    BY ONLY <2>1, FS_Interval
  <2>. QED
    BY <1>1, <2>2
<1>3. f \in Surjection(1 .. Len(free), FreeWorkers)
  BY DEF Surjection, FreeWorkers
<1>4. IsFiniteSet(FreeWorkers) /\ Cardinality(FreeWorkers) <= Len(free)
  BY <1>2, <1>3, FS_Surjection
<1>5. K \subseteq Busy
  BY DEF Busy
<1>6. IsFiniteSet(K) /\ Cardinality(K) <= Cardinality(Busy)
  BY <1>1, <1>5, FS_Subset
<1>7. h \in Surjection(K, HeldWorkers)
  BY DEF Surjection, HeldWorkers
<1>. HIDE DEF K, h, f
<1>8. IsFiniteSet(HeldWorkers) /\ Cardinality(HeldWorkers) <= Cardinality(K)
  BY <1>6, <1>7, FS_Surjection
<1>9. /\ IsFiniteSet(Tracked)
      /\ Cardinality(Tracked) = Cardinality(FreeWorkers) + Cardinality(HeldWorkers)
                                 - Cardinality(FreeWorkers \cap HeldWorkers)
  BY <1>4, <1>8, FS_Union DEF Tracked
<1>10. IsFiniteSet(FreeWorkers \cap HeldWorkers)
  BY <1>4, FS_Subset
<1>11. /\ Cardinality(FreeWorkers) \in Nat /\ Cardinality(HeldWorkers) \in Nat
       /\ Cardinality(FreeWorkers \cap HeldWorkers) \in Nat
       /\ Cardinality(K) \in Nat /\ Cardinality(Busy) \in Nat
  BY <1>1, <1>4, <1>6, <1>8, <1>10, FS_CardinalityType
<1>. QED
  BY ONLY <1>1, <1>4, <1>6, <1>8, <1>9, <1>11

LEMMA BoundFollows ==
  ASSUME IInv, WithinCap, Stranded
  PROVE  ProcessesBounded
<1>1. /\ IsFiniteSet(Tracked)
      /\ Cardinality(Tracked) <= Len(free) + Cardinality(Busy)
  BY TrackedBounded
<1>2. up \ strays \subseteq Tracked
  BY DEF Stranded
<1>3. /\ IsFiniteSet(up \ strays)
      /\ Cardinality(up \ strays) <= Cardinality(Tracked)
  BY <1>1, <1>2, FS_Subset
<1>4. Cardinality(up \ strays) \in Nat /\ Cardinality(Tracked) \in Nat
  BY <1>1, <1>3, FS_CardinalityType
<1>5. Len(free) + Cardinality(Busy) <= Cap
  BY DEF WithinCap
<1>. QED
  BY <1>1, <1>3, <1>4, <1>5, FinitePools DEF ProcessesBounded

\* A step that only the clients, an arrival or a cancel takes.
LEMMA OutsideKeeps ==
  ASSUME IInv, IInv', WithinCap, Stranded,
         \/ \E j \in Jobs, p \in Prompts, s \in Sessions \cup {None} : Arrive(j, p, s)
         \/ \E j \in Jobs : CancelSeen(j)
         \/ \E w \in Workers : Crash(w) \/ CancelStops(w)
         \/ UNCHANGED vars
  PROVE  WithinCap' /\ Stranded'
<1>1. UNCHANGED <<free, has, strays>> /\ up' \subseteq up
  BY DEF Arrive, CancelSeen, Crash, CancelStops, vars
<1>2. \A k \in Jobs : \/ pc'[k] = pc[k]
                      \/ pc[k] = "idle" /\ pc'[k] \in {"granted", "waiting"}
  BY DEF Arrive, Goto, CancelSeen, Crash, CancelStops, vars, IInv, Typed
<1>3. Busy' = Busy /\ HeldWorkers' = HeldWorkers
  BY <1>1, <1>2, LabelSets DEF Busy, HeldWorkers
<1>4. Tracked' = Tracked
  BY <1>1, <1>3 DEF Tracked, FreeWorkers
<1>5. WithinCap'
  BY <1>1, <1>3 DEF WithinCap
<1>6. Stranded'
  BY <1>1, <1>4 DEF Stranded
<1>. QED
  BY <1>5, <1>6

LEMMA InitBounded == ASSUME Init PROVE WithinCap /\ Stranded
<1>1. Busy = {} /\ Len(free) = 0 /\ up = {}
  BY LabelSets DEF Init, Busy, Keeping, Using
<1>. QED
  BY <1>1, FS_EmptySet, OmpPoolAssumption DEF WithinCap, Stranded

\* The omp processes alive never exceed OMP_POOL_CAP, but for those of workers
\* that a failing call left running outside the free list: whose session could
\* not be selected, or whose client.stop raised.  acquire starts a worker only
\* when no free one is left.
THEOREM CapBoundsProcesses == Spec => []ProcessesBounded
<1>1. IInv /\ WithinCap /\ Stranded /\ [Next]_vars => WithinCap' /\ Stranded'
  BY InvStep, StepWithinCap, StepStranded, OutsideKeeps DEF Next
<1>2. IInv /\ WithinCap /\ Stranded => ProcessesBounded
  BY BoundFollows
<1>. QED
  BY <1>1, <1>2, InitBounded, IInvHolds, PTL DEF Spec
=============================================================================

--------------------------- MODULE PoolTurnsProofs ---------------------------
(***************************************************************************)
(* Theorems about PoolTurns for every value of its constants.  In both      *)
(* modes the types of its variables, that no message vanishes, and that     *)
(* turns do not overlap before the first /stop.  In the default             *)
(* (let-it-finish) mode that no turn is orphaned, the session is stable     *)
(* during a turn, a pending resume is fired first, /stop silences the turn  *)
(* in progress, and the pool implements the sequential service of           *)
(* ScopeQueue.                                                              *)
(***************************************************************************)
EXTENDS PoolTurns, SequenceTheorems, TLAPS

(***************************************************************************)
(* Types.  TypeOK is not inductive: what the loop puts back or appends must *)
(* be known to be a message, and the turn it awaits must exist.             *)
(***************************************************************************)
Awaited ==
    /\ lpc \in {"turn", "reap", "unwind"} => turn # 0
    /\ lpc = "unwind" => newMsg # 0
    /\ \A k \in TurnIds : waiter[k] = "got" => held[k] # 0
TypeInv == TypeOK /\ Awaited

LEMMA InitType == Init => TypeInv
<1>. SUFFICES ASSUME Init PROVE TypeInv
  OBVIOUS
<1>. USE DEF Init
<1>1. InTypes /\ StopTypes
  BY PoolAssumption, EmptySeq DEF InTypes, StopTypes
<1>2. LoopTypes
  BY EmptySeq DEF LoopTypes, LoopPcs
<1>3. TurnTypes
  BY PoolAssumption, EmptySeq DEF TurnTypes, Phases
<1>4. WaitTypes
  BY DEF WaitTypes
<1>5. OutTypes
  BY EmptySeq DEF OutTypes
<1>6. Awaited
  BY DEF Awaited
<1>. QED
  BY <1>1, <1>2, <1>3, <1>4, <1>5, <1>6 DEF TypeInv, TypeOK

\* A step keeps the types of the groups of variables it leaves alone.
LEMMA Untouched ==
    /\ InTypes /\ UNCHANGED inVars => InTypes'
    /\ LoopTypes /\ UNCHANGED loopVars => LoopTypes'
    /\ TurnTypes /\ UNCHANGED turnVars => TurnTypes'
    /\ WaitTypes /\ UNCHANGED waitVars => WaitTypes'
    /\ OutTypes /\ UNCHANGED outVars => OutTypes'
    /\ StopTypes /\ UNCHANGED <<stopVars, session, dropped>> => StopTypes'
<1>1. InTypes /\ UNCHANGED inVars => InTypes'
  BY DEF InTypes, inVars
<1>2. LoopTypes /\ UNCHANGED loopVars => LoopTypes'
  BY DEF LoopTypes, loopVars
<1>3. TurnTypes /\ UNCHANGED turnVars => TurnTypes'
  BY DEF TurnTypes, turnVars
<1>4. WaitTypes /\ UNCHANGED waitVars => WaitTypes'
  BY DEF WaitTypes, waitVars
<1>5. OutTypes /\ UNCHANGED outVars => OutTypes'
  BY DEF OutTypes, outVars
<1>6. StopTypes /\ UNCHANGED <<stopVars, session, dropped>> => StopTypes'
  BY DEF StopTypes, stopVars
<1>. QED
  BY <1>1, <1>2, <1>3, <1>4, <1>5, <1>6

LEMMA SubmitType ==
  ASSUME TypeInv, SubmitPlain \/ SubmitReply
  PROVE  TypeInv'
<1>. USE DEF TypeInv, TypeOK
<1>1. submitted + 1 \in Msgs /\ submitted + 1 \in 0 .. MaxMsgs
  BY PoolAssumption DEF InTypes, SubmitPlain, SubmitReply, Submit, Msgs
<1>2. InTypes'
  BY <1>1, AppendProperties DEF InTypes, SubmitPlain, SubmitReply, Submit
<1>3. LoopTypes'
  BY DEF LoopTypes, LoopPcs, SubmitPlain, SubmitReply, Submit
<1>4. StopTypes'
  BY <1>1, Untouched DEF StopTypes, SubmitPlain, SubmitReply, ResumeSession, stopVars
<1>5. TurnTypes' /\ WaitTypes' /\ OutTypes'
  BY Untouched DEF SubmitPlain, SubmitReply
<1>6. Awaited'
  BY DEF Awaited, SubmitPlain, SubmitReply, Submit, turnVars, waitVars
<1>. QED
  BY <1>2, <1>3, <1>4, <1>5, <1>6

LEMMA StopType == ASSUME TypeInv, Stop PROVE TypeInv'
<1>. USE DEF TypeInv, TypeOK
<1>1. StopTypes'
  BY PoolAssumption DEF StopTypes, Stop
<1>2. LoopTypes'
  BY DEF LoopTypes, LoopPcs, Stop, CancelLoop
<1>3. TurnTypes'
  BY DEF TurnTypes, Stop, CancelLoop
<1>4. InTypes' /\ WaitTypes' /\ OutTypes'
  BY Untouched DEF Stop
<1>5. Awaited'
  BY DEF Awaited, Stop, CancelLoop, waitVars
<1>. QED
  BY <1>1, <1>2, <1>3, <1>4, <1>5

LEMMA EnqueueType ==
  ASSUME outbox \in Seq(Item), NEW k \in TurnIds,
         NEW kind \in {"answer", "stream", "error", "notice"}, Enqueue(k, kind)
  PROVE  outbox' \in Seq(Item)
<1>1. [turn |-> k, kind |-> kind] \in Item
  BY DEF Item
<1>. QED
  BY <1>1, AppendProperties DEF Enqueue

LEMMA AgentType ==
  ASSUME TypeInv, NEW k \in TurnIds, AgentStep(k)
  PROVE  TypeInv'
<1>. USE DEF TypeInv, TypeOK
<1>1. UNCHANGED <<inVars, loopVars, waitVars, turn, session, stopVars, dropped>>
  BY DEF AgentStep, OpenJob, Answer, PostDone, Fail, TimeOut, ResetBackend,
         Crash, CloseJob, Unwind
<1>2. InTypes' /\ LoopTypes' /\ WaitTypes' /\ StopTypes'
  BY <1>1, Untouched
<1>3. TurnTypes'
  BY DEF TurnTypes, Phases, AgentStep, OpenJob, Answer, PostDone, Fail,
         TimeOut, ResetBackend, Crash, CloseJob, Unwind, Finish
<1>4. OutTypes'
  <2>1. CASE Answer(k)
    BY <2>1, EnqueueType DEF OutTypes, Answer
  <2>2. CASE Fail(k) \/ ResetBackend(k)
    BY <2>2, EnqueueType DEF OutTypes, Fail, ResetBackend
  <2>3. CASE UNCHANGED outVars
    BY <2>3, Untouched
  <2>. QED
    BY <2>1, <2>2, <2>3
    DEF AgentStep, OpenJob, PostDone, TimeOut, Crash, CloseJob, Unwind
<1>5. Awaited'
  BY <1>1 DEF Awaited, waitVars, loopVars
<1>. QED
  BY <1>2, <1>3, <1>4, <1>5

LEMMA WaiterType ==
  ASSUME TypeInv, NEW k \in TurnIds, WaiterTakes(k)
  PROVE  TypeInv'
<1>. USE DEF TypeInv, TypeOK
<1>1. Head(inbox) \in Msgs /\ Tail(inbox) \in Seq(Msgs)
  BY HeadTailProperties DEF InTypes, WaiterTakes
<1>2. InTypes'
  BY <1>1 DEF InTypes, WaiterTakes
<1>3. WaitTypes'
  BY <1>1 DEF WaitTypes, WaiterTakes
<1>4. LoopTypes' /\ TurnTypes' /\ OutTypes' /\ StopTypes'
  BY Untouched DEF WaiterTakes
<1>5. Awaited'
  <2>1. Head(inbox) # 0
    BY <1>1 DEF Msgs
  <2>. QED
    BY <2>1 DEF Awaited, WaiterTakes, WaitTypes, loopVars, turnVars
<1>. QED
  BY <1>2, <1>3, <1>4, <1>5

LEMMA SendType ==
  ASSUME TypeInv, StartSend \/ FinishSend
  PROVE  TypeInv'
<1>. USE DEF TypeInv, TypeOK
<1>1. UNCHANGED <<inVars, loopVars, turnVars, waitVars, session, stopVars, dropped>>
  BY DEF StartSend, FinishSend
<1>2. OutTypes'
  <2>1. CASE StartSend
    BY <2>1 DEF OutTypes, StartSend
  <2>2. CASE FinishSend
    <3>1. Head(outbox) \in Item /\ Tail(outbox) \in Seq(Item)
      BY <2>2, HeadTailProperties DEF OutTypes, FinishSend
    <3>2. Head(outbox).turn \in TurnIds
      BY <3>1 DEF Item
    <3>. QED
      BY <2>2, <3>1, <3>2 DEF OutTypes, FinishSend
  <2>. QED
    BY <2>1, <2>2
<1>3. Awaited'
  BY <1>1 DEF Awaited, loopVars, turnVars, waitVars
<1>. QED
  BY <1>1, <1>2, <1>3, Untouched

LEMMA NextRoundType ==
  ASSUME NEW inb \in Seq(Msgs), LoopTypes, NextRound(inb)
  PROVE  /\ inbox' \in Seq(Msgs) /\ buf' \in Seq(Msgs)
         /\ newMsg' = 0 /\ lpc' \in {"none", "collect"}
  BY EmptySeq DEF NextRound

\* Starting a turn, or discarding the buffer when no agent is registered.
LEMMA FirstTurnType ==
  ASSUME TypeInv,
         (StartTurn /\ UNCHANGED inbox /\ UNCHANGED dropped) \/ NoAgent
  PROVE  /\ inbox' \in Seq(Msgs) /\ buf' \in Seq(Msgs)
         /\ lpc' \in {"none", "turn"}
         /\ lpc' = "turn" => turn' # 0
         /\ dropped' \in SUBSET Msgs
         /\ TurnTypes' /\ WaitTypes'
         /\ \A k \in TurnIds : waiter'[k] = "got" => held'[k] # 0
<1>. USE DEF TypeInv, TypeOK
<1>1. CASE StartTurn /\ UNCHANGED inbox /\ UNCHANGED dropped
  <2>1. TurnTypes'
    <3>1. turn' \in 0 .. MaxMsgs
      BY <1>1, PoolAssumption DEF TurnTypes, StartTurn
    <3>2. msgsOf' \in [TurnIds -> Seq(Msgs)]
      BY <1>1 DEF TurnTypes, LoopTypes, StartTurn
    <3>3. phase' \in [TurnIds -> Phases]
      BY <1>1 DEF TurnTypes, Phases, StartTurn
    <3>. QED
      BY <1>1, <3>1, <3>2, <3>3 DEF TurnTypes, StartTurn
  <2>2. turn' # 0
    BY <1>1 DEF TurnTypes, StartTurn
  <2>3. WaitTypes' /\ \A k \in TurnIds : waiter'[k] = "got" => held'[k] # 0
    BY <1>1 DEF WaitTypes, StartTurn, Awaited
  <2>. QED
    BY <1>1, <2>1, <2>2, <2>3 DEF StartTurn, InTypes, LoopTypes, StopTypes
<1>2. CASE NoAgent
  <2>1. Elems(buf) \subseteq Msgs /\ Elems(inbox) \subseteq Msgs
    BY ElementOfSeq DEF Elems, InTypes, LoopTypes
  <2>2. inbox' \in Seq(Msgs) /\ buf' \in Seq(Msgs)
    BY <1>2, EmptySeq DEF NoAgent
  <2>3. TurnTypes' /\ WaitTypes'
    BY <1>2, Untouched DEF NoAgent
  <2>. QED
    BY <1>2, <2>1, <2>2, <2>3 DEF NoAgent, StopTypes, Awaited, waitVars
<1>. QED
  BY <1>1, <1>2

LEMMA RaiseCancelledType ==
  ASSUME TypeInv, RaiseCancelled
  PROVE  /\ lpc' \in {"none", "notice"} /\ lstop' = FALSE /\ newMsg' = 0
         /\ last' = 0 /\ buf' \in Seq(Msgs) /\ outbox' \in Seq(Item)
  BY EmptySeq, EnqueueType DEF RaiseCancelled, TypeInv, TypeOK, LoopTypes, OutTypes

LEMMA LoseBufferType ==
  ASSUME TypeInv, LoseBuffer
  PROVE  dropped' \in SUBSET Msgs
<1>1. Elems(buf) \subseteq Msgs
  BY ElementOfSeq DEF Elems, TypeInv, TypeOK, LoopTypes
<1>. QED
  BY <1>1 DEF LoseBuffer, TypeInv, TypeOK, LoopTypes, StopTypes

LEMMA LoopType == ASSUME TypeInv, LoopStep PROVE TypeInv'
<1>. USE DEF TypeInv, TypeOK
<1>1. CASE LoopStart
  <2>1. InTypes' /\ LoopTypes' /\ Awaited'
    BY <1>1, NextRoundType
    DEF LoopStart, InTypes, LoopTypes, LoopPcs, Awaited, turnVars, waitVars
  <2>. QED
    BY <1>1, <2>1, Untouched DEF LoopStart
<1>2. CASE CollectMore
  <2>1. InTypes' /\ LoopTypes' /\ Awaited'
    BY <1>2, EmptySeq, ConcatProperties
    DEF CollectMore, InTypes, LoopTypes, Awaited, turnVars, waitVars
  <2>. QED
    BY <1>2, <2>1, Untouched DEF CollectMore
<1>3. CASE CollectDone
  <2>1. InTypes' /\ LoopTypes' /\ TurnTypes' /\ WaitTypes' /\ Awaited' /\ StopTypes'
    <3>1. CASE FirstTurn /\ UNCHANGED resuming
      <4>1. last' \in TurnIds \cup {0}
        BY <3>1, PoolAssumption
        DEF FirstTurn, StartTurn, NoAgent, LoopTypes, TurnTypes, TurnIds
      <4>2. /\ inbox' \in Seq(Msgs) /\ buf' \in Seq(Msgs)
            /\ lpc' \in {"none", "turn"}
            /\ lpc' = "turn" => turn' # 0
            /\ dropped' \in SUBSET Msgs
            /\ TurnTypes' /\ WaitTypes'
            /\ \A k \in TurnIds : waiter'[k] = "got" => held'[k] # 0
        BY <3>1, FirstTurnType DEF FirstTurn
      <4>3. pending' = 0 /\ UNCHANGED <<submitted, lstop, newMsg, resuming,
                                        session, stops, stopped>>
        BY <1>3, <3>1 DEF CollectDone, stopVars
      <4>4. InTypes' /\ StopTypes'
        BY <4>2, <4>3 DEF InTypes, StopTypes
      <4>5. LoopTypes'
        BY <4>1, <4>2, <4>3 DEF LoopTypes, LoopPcs
      <4>6. Awaited'
        BY <4>2 DEF Awaited
      <4>. QED
        BY <4>2, <4>4, <4>5, <4>6
    <3>2. CASE lpc' = "resume" /\ resuming' = pending
               /\ UNCHANGED <<inbox, buf, last, dropped, turnVars, waitVars>>
      BY <1>3, <3>2, Untouched
      DEF CollectDone, InTypes, LoopTypes, LoopPcs, Awaited, waitVars
    <3>. QED
      BY <1>3, <3>1, <3>2 DEF CollectDone
  <2>. QED
    BY <1>3, <2>1, Untouched DEF CollectDone
<1>4. CASE Resumed
  <2>1. InTypes' /\ LoopTypes' /\ TurnTypes' /\ WaitTypes' /\ Awaited' /\ StopTypes'
    BY <1>4, FirstTurnType
    DEF Resumed, ResumeSession, FirstTurn, StartTurn, NoAgent, InTypes, LoopTypes,
        LoopPcs, TurnTypes, TurnIds, Awaited, StopTypes, stopVars
  <2>. QED
    BY <1>4, <2>1, Untouched DEF Resumed
<1>5. CASE FollowDone
  <2>1. LoopTypes' /\ TurnTypes' /\ WaitTypes' /\ Awaited'
    BY <1>5, FirstTurnType
    DEF FollowDone, StartTurn, LoopTypes, LoopPcs, Awaited, inVars
  <2>. QED
    BY <1>5, <2>1, Untouched DEF FollowDone
<1>6. CASE TurnReturned
  <2>1. InTypes' /\ LoopTypes' /\ OutTypes' /\ Awaited'
    <3>1. CASE RaiseCancelled /\ UNCHANGED inbox
      BY <1>6, <3>1, RaiseCancelledType
      DEF TurnReturned, InTypes, LoopTypes, LoopPcs, OutTypes, Awaited, waitVars
    <3>2. CASE /\ lpc' = "none" /\ newMsg' = 0 /\ buf' = <<>> /\ last' = 0
               /\ UNCHANGED <<inbox, lstop, outbox>>
      BY <1>6, <3>2, EmptySeq
      DEF TurnReturned, InTypes, LoopTypes, LoopPcs, OutTypes, Awaited, waitVars
    <3>3. CASE NextRound(inbox) /\ last' = turn /\ UNCHANGED <<lstop, outbox>>
      BY <1>6, <3>3, NextRoundType
      DEF TurnReturned, InTypes, LoopTypes, LoopPcs, OutTypes, Awaited, waitVars,
          TurnTypes, TurnIds
    <3>. QED
      BY <1>6, <3>1, <3>2, <3>3 DEF TurnReturned
  <2>. QED
    BY <1>6, <2>1, Untouched DEF TurnReturned
<1>7. CASE RaceAgentDone
  <2>1. turn \in TurnIds
    BY <1>7 DEF RaceAgentDone, Awaited, TurnTypes, TurnIds
  <2>2. InTypes' /\ LoopTypes'
    <3>1. CASE waiter[turn] = "waiting"
      BY <1>7, <3>1 DEF RaceAgentDone, InTypes, LoopTypes, LoopPcs
    <3>2. CASE waiter[turn] = "got"
      <4>1. held[turn] \in Msgs
        BY <2>1, <3>2 DEF WaitTypes, Awaited
      <4>2. Append(inbox, held[turn]) \in Seq(Msgs)
        BY <4>1, AppendProperties DEF InTypes
      <4>. QED
        BY <1>7, <2>1, <3>2, <4>2, NextRoundType
        DEF RaceAgentDone, InTypes, LoopTypes, LoopPcs
    <3>. QED
      BY <1>7, <3>1, <3>2 DEF RaceAgentDone
  <2>3. WaitTypes' /\ Awaited'
    BY <1>7, <2>1 DEF RaceAgentDone, NextRound, WaitTypes, Awaited, turnVars
  <2>. QED
    BY <1>7, <2>2, <2>3, Untouched DEF RaceAgentDone
<1>8. CASE Reaped
  <2>1. turn \in TurnIds
    BY <1>8 DEF Reaped, Awaited, TurnTypes, TurnIds
  <2>2. InTypes' /\ LoopTypes' /\ Awaited'
    BY <1>8, <2>1, NextRoundType
    DEF Reaped, InTypes, LoopTypes, LoopPcs, Awaited, waitVars
  <2>. QED
    BY <1>8, <2>2, Untouched DEF Reaped
<1>9. CASE CancelInFlight
  <2>1. turn \in TurnIds
    BY <1>9 DEF CancelInFlight, Awaited, TurnTypes, TurnIds
  <2>2. held[turn] \in Msgs /\ held[turn] # 0
    BY <1>9, <2>1 DEF CancelInFlight, WaitTypes, Awaited
  <2>3. LoopTypes' /\ WaitTypes'
    BY <1>9, <2>2 DEF CancelInFlight, LoopTypes, LoopPcs, WaitTypes
  <2>4. TurnTypes' /\ OutTypes'
    BY <1>9 DEF CancelInFlight, TurnTypes, OutTypes
  <2>5. Awaited'
    BY <1>9, <2>1, <2>2 DEF CancelInFlight, Awaited, TurnIds, WaitTypes
  <2>. QED
    BY <1>9, <2>3, <2>4, <2>5, Untouched DEF CancelInFlight
<1>10. CASE Unwound
  <2>1. newMsg \in Msgs
    BY <1>10 DEF Unwound, LoopTypes, Awaited
  <2>2. LoopTypes'
    <3>1. Append(buf, newMsg) \in Seq(Msgs)
      BY <2>1, AppendProperties DEF LoopTypes
    <3>. QED
      BY <1>10, <3>1, EmptySeq DEF Unwound, LoopTypes, LoopPcs
  <2>3. StopTypes'
    BY <1>10, LoseBufferType DEF Unwound, StopTypes, stopVars
  <2>4. Awaited'
    BY <1>10 DEF Unwound, Awaited, waitVars
  <2>. QED
    BY <1>10, <2>2, <2>3, <2>4, Untouched DEF Unwound
<1>11. CASE LoopCancelled
  <2>1. LoopTypes' /\ OutTypes'
    BY <1>11, RaiseCancelledType DEF LoopCancelled, LoopTypes, LoopPcs, OutTypes
  <2>2. StopTypes'
    BY <1>11, LoseBufferType DEF LoopCancelled, StopTypes, stopVars
  <2>3. Awaited'
    BY <1>11, RaiseCancelledType DEF LoopCancelled, Awaited, waitVars
  <2>. QED
    BY <1>11, <2>1, <2>2, <2>3, Untouched DEF LoopCancelled
<1>12. CASE LoopExit
  <2>1. LoopTypes' /\ Awaited'
    BY <1>12 DEF LoopExit, LoopTypes, LoopPcs, Awaited, waitVars
  <2>. QED
    BY <1>12, <2>1, Untouched DEF LoopExit
<1>. QED
  BY <1>1, <1>2, <1>3, <1>4, <1>5, <1>6, <1>7, <1>8, <1>9, <1>10, <1>11, <1>12
  DEF LoopStep

LEMMA StepType == TypeInv /\ [Next]_vars => TypeInv'
<1>. SUFFICES ASSUME TypeInv, [Next]_vars PROVE TypeInv'
  OBVIOUS
<1>1. CASE UNCHANGED vars
  BY <1>1, Untouched DEF vars, TypeInv, TypeOK, Awaited, loopVars, turnVars, waitVars
<1>. QED
  BY <1>1, SubmitType, StopType, AgentType, WaiterType, LoopType, SendType DEF Next

\* Every variable keeps the values the code gives it: in particular the loop
\* only ever puts back, appends or awaits a message and a turn that exist.
THEOREM TypeCorrect == Spec => []TypeOK
<1>1. TypeInv => TypeOK
  BY DEF TypeInv
<1>. QED
  BY <1>1, InitType, StepType, PTL DEF Spec

(***************************************************************************)
(* Let-it-finish mode.  A live agent task is always the last one created,   *)
(* and process_loop is suspended on it: only the loop's own steps create    *)
(* tasks, and it leaves "turn" only when the task is done.                  *)
(***************************************************************************)
SequentialInv ==
    /\ TypeInv
    /\ lpc \notin {"reap", "unwind", "follow"}
    /\ \A k \in TurnIds : k > turn => phase[k] = "unborn"
    /\ \A k \in TurnIds : Live(k) => k = turn /\ lpc = "turn"
    /\ lpc \in {"collect", "resume"} => buf # <<>>
    /\ \A k \in TurnIds : waiter[k] = "none"

LEMMA InitSequential == Init => SequentialInv
<1>. SUFFICES ASSUME Init PROVE SequentialInv
  OBVIOUS
<1>. QED
  BY InitType DEF Init, SequentialInv, Live

LEMMA StepSequential ==
  ASSUME ~CancelOnNew, SequentialInv, [Next]_vars
  PROVE  SequentialInv'
<1>. USE DEF SequentialInv, Live
<1>1. TypeInv'
  BY StepType
<1>2. phase \in [TurnIds -> Phases] /\ turn \in 0 .. MaxMsgs /\ TurnIds \subseteq Nat
  BY PoolAssumption DEF TypeInv, TypeOK, TurnTypes, TurnIds
<1>3. \A k \in TurnIds : waiter'[k] = "none"
  BY DEF Next, vars, waitVars, SubmitPlain, SubmitReply, Stop, AgentStep, OpenJob,
         Answer, PostDone, Fail, TimeOut, ResetBackend, Crash, CloseJob, Unwind,
         WaiterTakes, LoopStep, LoopStart, CollectMore, CollectDone, Resumed,
         FirstTurn, StartTurn, NoAgent, FollowDone, TurnReturned, RaceAgentDone,
         Reaped, CancelInFlight, Unwound, LoopCancelled, LoopExit, StartSend,
         FinishSend
<1>4. CASE SubmitPlain \/ SubmitReply \/ Stop
  BY <1>1, <1>3, <1>4
  DEF SubmitPlain, SubmitReply, Submit, Stop, CancelLoop, Idle, turnVars
<1>5. ASSUME NEW j \in TurnIds, AgentStep(j)
      PROVE  SequentialInv'
  <2>1. UNCHANGED <<lpc, turn, buf>>
    BY <1>5 DEF AgentStep, OpenJob, Answer, PostDone, Fail, TimeOut,
                ResetBackend, Crash, CloseJob, Unwind, loopVars
  <2>2. Live(j)
    BY <1>5 DEF AgentStep, OpenJob, Answer, PostDone, Fail, TimeOut,
                ResetBackend, Crash, CloseJob, Unwind
  <2>3. \A k \in TurnIds : k # j => phase'[k] = phase[k]
    BY <1>2, <1>5 DEF AgentStep, OpenJob, Answer, PostDone, Fail, TimeOut,
                ResetBackend, Crash, CloseJob, Unwind, Finish
  <2>. QED
    BY <1>1, <1>3, <1>2, <2>1, <2>2, <2>3
<1>6. ASSUME NEW j \in TurnIds, WaiterTakes(j)
      PROVE  SequentialInv'
  BY <1>1, <1>3, <1>6 DEF WaiterTakes, loopVars, turnVars
<1>7. CASE LoopStep
  <2>1. CASE LoopStart \/ LoopExit
    BY <1>1, <1>3, <1>2, <2>1 DEF LoopStart, NextRound, LoopExit, turnVars
  <2>2. CASE CollectMore
    <3>1. buf \o inbox # <<>>
      BY <2>2, ConcatEqualIffEmpty
      DEF CollectMore, TypeInv, TypeOK, InTypes, LoopTypes
    <3>. QED
      BY <1>1, <1>3, <2>2, <3>1 DEF CollectMore, turnVars
  <2>3. CASE CollectDone \/ Resumed
    BY <1>1, <1>3, <1>2, <2>3
    DEF CollectDone, Resumed, FirstTurn, StartTurn, NoAgent, turnVars
  <2>4. CASE TurnReturned
    BY <1>1, <1>3, <1>2, <2>4
    DEF TurnReturned, RaiseCancelled, NextRound, turnVars
  <2>5. CASE LoopCancelled
    BY <1>1, <1>3, <1>2, <2>5, <1>7 DEF LoopCancelled, RaiseCancelled, turnVars
  <2>6. CASE FollowDone \/ RaceAgentDone \/ Reaped \/ CancelInFlight \/ Unwound
    BY <2>6 DEF FollowDone, RaceAgentDone, Reaped, CancelInFlight, Unwound
  <2>. QED
    BY <1>7, <2>1, <2>3, <2>4, <2>5, <2>6, <2>2 DEF LoopStep
<1>8. CASE StartSend \/ FinishSend \/ UNCHANGED vars
  BY <1>1, <1>3, <1>8 DEF StartSend, FinishSend, vars, loopVars, turnVars
<1>. QED
  BY <1>4, <1>5, <1>6, <1>7, <1>8 DEF Next

\* In the default mode Pool.cancel() and is_idle always see the running agent:
\* a live agent task is the one process_loop awaits, so there is at most one.
THEOREM NoOrphanInDefaultMode ==
  ASSUME ~CancelOnNew
  PROVE  Spec => []NoOrphanTurn
<1>1. SequentialInv => NoOrphanTurn
  BY DEF SequentialInv, NoOrphanTurn
<1>2. SequentialInv /\ [Next]_vars => SequentialInv'
  BY StepSequential
<1>. QED
  BY <1>1, <1>2, InitSequential, PTL DEF Spec

\* In the default mode a reply-to resume never switches the backend session
\* under a running agent task, neither at submit nor in process_loop.
THEOREM SessionStableInDefaultMode ==
  ASSUME ~CancelOnNew
  PROVE  Spec => SessionStableDuringTurn
<1>1. SequentialInv /\ [Next]_vars
        => [session' # session => \A k \in TurnIds : ~Live(k)]_vars
  BY DEF SequentialInv, Live, Idle, Next, vars, stopVars, SubmitPlain, SubmitReply,
         Stop, AgentStep, OpenJob, Answer, PostDone, Fail, TimeOut, ResetBackend,
         Crash, CloseJob, Unwind, WaiterTakes, LoopStep, LoopStart, CollectMore,
         CollectDone, Resumed, FollowDone, TurnReturned, RaceAgentDone, Reaped,
         CancelInFlight, Unwound, LoopCancelled, LoopExit, StartSend, FinishSend
<1>2. SequentialInv /\ [Next]_vars => SequentialInv'
  BY StepSequential
<1>. QED
  BY <1>1, <1>2, InitSequential, PTL DEF Spec, SessionStableDuringTurn

(***************************************************************************)
(* Let-it-finish mode implements ScopeQueue.  The loop's buffer is the head *)
(* of what waits until a turn starts, and is the batch served afterwards.   *)
(***************************************************************************)
LEMMA PrefixAndRest ==
  ASSUME NEW b \in Seq(Msgs), NEW r \in Seq(Msgs), b # <<>>
  PROVE  /\ Len(b) \in 1 .. Len(b \o r)
         /\ SubSeq(b \o r, 1, Len(b)) = b
         /\ SubSeq(b \o r, Len(b) + 1, Len(b \o r)) = r
<1>1. Len(b) \in Nat \ {0} /\ Len(r) \in Nat /\ Len(b \o r) = Len(b) + Len(r)
  BY EmptySeq, LenProperties, ConcatProperties
<1>2. SubSeq(b \o r, 1, Len(b)) = b
  BY <1>1, SubSeqOfConcat1, SubSeqFull
<1>3. SubSeq(b \o r, Len(b) + 1, Len(b \o r)) = r
  <2>1. CASE r = <<>>
    BY <1>1, <2>1, SubSeqEmpty, EmptySeq
  <2>2. CASE r # <<>>
    <3>1. Len(r) \in Nat \ {0}
      BY <2>2, EmptySeq
    <3>2. SubSeq(b \o r, Len(b) + 1, Len(b) + Len(r)) = SubSeq(r, 1, Len(r))
      BY <1>1, <3>1, SubSeqOfConcat2
    <3>. QED
      BY <1>1, <3>2, SubSeqFull
  <2>. QED
    BY <2>1, <2>2
<1>. QED
  BY <1>1, <1>2, <1>3

LEMMA DropAll ==
  ASSUME NEW s \in Seq(Msgs), s # <<>>
  PROVE  Len(s) \in 1 .. Len(s) /\ SubSeq(s, Len(s) + 1, Len(s)) = <<>>
  BY EmptySeq, SubSeqEmpty

LEMMA AppendToConcat ==
  ASSUME NEW b \in Seq(Msgs), NEW r \in Seq(Msgs), NEW e \in Msgs
  PROVE  Append(b \o r, e) = b \o Append(r, e)
<1>1. <<e>> \in Seq(Msgs) /\ b \o r \in Seq(Msgs)
  BY ConcatProperties
<1>2. Append(b \o r, e) = (b \o r) \o <<e>> /\ Append(r, e) = r \o <<e>>
  BY <1>1, AppendIsConcat
<1>3. (b \o r) \o <<e>> = b \o (r \o <<e>>)
  BY <1>1, ConcatAssociative
<1>. QED
  BY <1>2, <1>3

LEMMA InitScope == Init => Scope!Init
<1>. SUFFICES ASSUME Init PROVE Scope!Init
  OBVIOUS
<1>1. <<>> \o <<>> = <<>>
  BY ConcatEmptySeq, EmptySeq
<1>. QED
  BY <1>1 DEF Init, Scope!Init, Waiting, Serving

LEMMA StepScope ==
  ASSUME ~CancelOnNew, SequentialInv, [Next]_vars
  PROVE  [Scope!Next]_(Scope!aVars)
<1>. DEFINE Gathering == lpc \in {"collect", "resume"}
<1>. USE DEF Scope!aVars, Scope!Next
<1>1. /\ inbox \in Seq(Msgs) /\ buf \in Seq(Msgs) /\ turn \in 0 .. MaxMsgs
      /\ phase \in [TurnIds -> Phases] /\ msgsOf \in [TurnIds -> Seq(Msgs)]
      /\ submitted \in 0 .. MaxMsgs
  BY DEF SequentialInv, TypeInv, TypeOK, InTypes, LoopTypes, TurnTypes
<1>2. (IF Gathering THEN buf ELSE <<>>) \in Seq(Msgs)
  BY <1>1, EmptySeq
<1>3. CASE SubmitPlain \/ SubmitReply
  <2>1. /\ submitted < MaxMsgs /\ submitted' = submitted + 1
        /\ submitted + 1 \in Msgs
    BY <1>1, <1>3, PoolAssumption DEF SubmitPlain, SubmitReply, Submit, Msgs
  <2>2. inbox' = Append(inbox, submitted + 1)
    BY <1>3 DEF SubmitPlain, SubmitReply, Submit
  <2>3. Gathering' = Gathering /\ buf' = buf
    BY <1>3 DEF SubmitPlain, SubmitReply, Submit, Idle
  <2>4. Waiting' = Append(Waiting, submitted + 1)
    BY <1>1, <1>2, <2>1, <2>2, <2>3, AppendToConcat DEF Waiting
  <2>5. Serving' = Serving
    BY <1>3 DEF SubmitPlain, SubmitReply, turnVars, Serving, Live
  <2>. QED
    BY <2>1, <2>4, <2>5 DEF Scope!Arrive
<1>4. CASE Stop
  BY <1>4 DEF Stop, CancelLoop, inVars, Waiting, Serving, Live
<1>5. ASSUME NEW k \in TurnIds, AgentStep(k)
      PROVE  [Scope!Next]_(Scope!aVars)
  <2>1. Waiting' = Waiting /\ submitted' = submitted /\ turn' = turn /\ msgsOf' = msgsOf
    BY <1>5 DEF AgentStep, OpenJob, Answer, PostDone, Fail, TimeOut, ResetBackend,
                Crash, CloseJob, Unwind, inVars, loopVars, Waiting
  <2>2. Serving' \in {Serving, <<>>}
    <3>1. k = turn /\ Live(k)
      BY <1>5 DEF SequentialInv, Live, AgentStep, OpenJob, Answer, PostDone, Fail,
                  TimeOut, ResetBackend, Crash, CloseJob, Unwind
    <3>. QED
      BY <2>1, <3>1 DEF Serving, Live, TurnIds
  <2>. QED
    BY <2>1, <2>2 DEF Scope!End
<1>6. ASSUME NEW k \in TurnIds, WaiterTakes(k)
      PROVE  FALSE
  BY <1>6 DEF SequentialInv, WaiterTakes
<1>7. CASE LoopStep
  <2>1. submitted' = submitted
    BY <1>7 DEF LoopStep, LoopStart, CollectMore, CollectDone, Resumed, FollowDone,
                TurnReturned, RaceAgentDone, Reaped, CancelInFlight, Unwound,
                LoopCancelled, LoopExit, inVars
  <2>2. <<>> \in Seq(Msgs) /\ \A q \in Seq(Msgs) : <<>> \o q = q /\ q \o <<>> = q
    BY EmptySeq, ConcatEmptySeq
  <2>3. lpc # "turn" => Serving = <<>>
    BY <1>1 DEF SequentialInv, Serving, TurnIds
  <2>4. CASE LoopStart \/ CollectMore \/ TurnReturned \/ LoopExit
    <3>1. Waiting' = Waiting
      <4>1. CASE LoopStart \/ LoopExit
        BY <1>1, <2>2, <4>1 DEF LoopStart, LoopExit, NextRound, Waiting, inVars
      <4>2. CASE CollectMore
        BY <1>1, <2>2, <4>2, ConcatProperties
        DEF CollectMore, Waiting, SequentialInv
      <4>3. CASE TurnReturned
        BY <1>1, <2>2, <4>3 DEF TurnReturned, RaiseCancelled, NextRound, Waiting
      <4>. QED
        BY <2>4, <4>1, <4>2, <4>3
    <3>2. Serving' = Serving
      BY <2>4 DEF LoopStart, CollectMore, TurnReturned, LoopExit, turnVars,
                  Serving, Live
    <3>. QED
      BY <2>1, <3>1, <3>2
  <2>5. CASE CollectDone \/ Resumed
    <3>1. Gathering /\ buf # <<>> /\ Waiting = buf \o inbox /\ Waiting \in Seq(Msgs)
      BY <1>1, <2>5, ConcatProperties DEF CollectDone, Resumed, Waiting, SequentialInv
    <3>2. CASE StartTurn /\ UNCHANGED inbox
      <4>1. turn + 1 \in TurnIds /\ turn + 1 # 0
        BY <1>1, <3>2, PoolAssumption DEF StartTurn, TurnIds
      <4>2. turn' = turn + 1 /\ msgsOf'[turn'] = buf /\ phase'[turn'] = "open"
        BY <1>1, <3>2, <4>1 DEF StartTurn
      <4>3. Serving' = buf /\ Waiting' = inbox
        BY <1>1, <2>2, <3>2, <4>1, <4>2 DEF StartTurn, Serving, Waiting, Live
      <4>4. Serving = <<>>
        BY <2>3, <3>1
      <4>. QED
        BY <1>1, <2>1, <3>1, <4>3, <4>4, PrefixAndRest DEF Scope!Begin, Scope!Rest
    <3>3. CASE NoAgent
      <4>1. Serving' = Serving /\ Waiting' = <<>>
        BY <2>2, <3>3 DEF NoAgent, turnVars, Serving, Waiting, Live
      <4>2. Waiting # <<>>
        BY <1>1, <3>1, ConcatEqualIffEmpty
      <4>. QED
        BY <2>1, <3>1, <4>1, <4>2, DropAll DEF Scope!Discard, Scope!Rest
    <3>4. CASE lpc' = "resume" /\ UNCHANGED <<inbox, buf, turnVars>>
      BY <2>1, <3>1, <3>4 DEF Waiting, Serving, Live, turnVars
    <3>. QED
      BY <2>5, <3>2, <3>3, <3>4 DEF CollectDone, Resumed, FirstTurn
  <2>6. CASE LoopCancelled
    <3>1. Serving' = Serving /\ Waiting' = inbox /\ inbox' = inbox
      BY <1>1, <2>2, <2>6
      DEF LoopCancelled, RaiseCancelled, inVars, turnVars, Serving, Waiting, Live
    <3>2. CASE Gathering
      <4>1. Waiting = buf \o inbox /\ buf # <<>>
        BY <3>2 DEF Waiting, SequentialInv
      <4>. QED
        BY <1>1, <2>1, <3>1, <4>1, PrefixAndRest DEF Scope!Discard, Scope!Rest
    <3>3. CASE ~Gathering
      BY <1>1, <2>1, <2>2, <3>1, <3>3 DEF Waiting
    <3>. QED
      BY <3>2, <3>3
  <2>7. CASE FollowDone \/ RaceAgentDone \/ Reaped \/ CancelInFlight \/ Unwound
    BY <2>7 DEF FollowDone, RaceAgentDone, Reaped, CancelInFlight, Unwound,
                SequentialInv
  <2>. QED
    BY <1>7, <2>4, <2>5, <2>6, <2>7 DEF LoopStep
<1>8. CASE StartSend \/ FinishSend \/ UNCHANGED vars
  BY <1>8 DEF StartSend, FinishSend, vars, inVars, loopVars, turnVars, Waiting,
              Serving, Live
<1>. QED
  BY <1>3, <1>4, <1>5, <1>6, <1>7, <1>8 DEF Next

\* In the default mode the pool serves the messages of its scope one batch at a
\* time in arrival order, whatever /stop, timeouts and errors do.
THEOREM DefaultModeImplementsScope ==
  ASSUME ~CancelOnNew
  PROVE  Spec => ScopeSpec
<1>1. SequentialInv /\ [Next]_vars => SequentialInv'
  BY StepSequential
<1>2. SequentialInv /\ [Next]_vars => [Scope!Next]_(Scope!aVars)
  BY StepScope
<1>. QED
  BY <1>1, <1>2, InitSequential, InitScope, PTL DEF Spec, ScopeSpec, Scope!Spec

(***************************************************************************)
(* Let-it-finish mode with a backend that answers at once (no stream).  A   *)
(* stopped turn was still working, so nothing of it is queued, and its task *)
(* is cancelled or already past the point where it could answer.            *)
(***************************************************************************)
NotAnswered(k) ==
    /\ k \notin answered
    /\ \A i \in 1 .. Len(outbox) :
          outbox[i].turn = k => outbox[i].kind \in {"error", "notice"}

SilentInv ==
    /\ SequentialInv
    /\ \A i \in 1 .. Len(outbox) : outbox[i].kind # "stream"
    /\ \A k \in TurnIds : phase[k] \in {"unborn", "open", "work"} => NotAnswered(k)
    /\ \A k \in stopped :
          /\ NotAnswered(k)
          /\ phase[k] # "unborn"
          /\ kill[k] \/ phase[k] \in {"close", "done"}

LEMMA InitSilent == Init => SilentInv
<1>. SUFFICES ASSUME Init PROVE SilentInv
  OBVIOUS
<1>. QED
  BY InitSequential, EmptySeq DEF Init, SilentInv, NotAnswered

\* What an append to the scope's outbound queue does to NotAnswered.
LEMMA EnqueueSilent ==
  ASSUME outbox \in Seq(Item), NEW j \in TurnIds,
         NEW kind \in {"answer", "error", "notice"}, Enqueue(j, kind),
         UNCHANGED answered,
         \A i \in 1 .. Len(outbox) : outbox[i].kind # "stream"
  PROVE  /\ \A i \in 1 .. Len(outbox') : outbox'[i].kind # "stream"
         /\ \A k \in TurnIds :
               NotAnswered(k) /\ (k # j \/ kind # "answer") => NotAnswered(k)'
<1>1. [turn |-> j, kind |-> kind] \in Item
  BY DEF Item
<1>2. /\ Len(outbox') = Len(outbox) + 1 /\ Len(outbox) \in Nat
      /\ \A i \in 1 .. Len(outbox) : outbox'[i] = outbox[i]
      /\ outbox'[Len(outbox) + 1] = [turn |-> j, kind |-> kind]
  BY <1>1, AppendProperties, LenProperties DEF Enqueue
<1>3. \A i \in 1 .. Len(outbox') : i \in 1 .. Len(outbox) \/ i = Len(outbox) + 1
  BY <1>2
<1>. QED
  BY <1>2, <1>3 DEF NotAnswered

LEMMA StepSilent ==
  ASSUME ~CancelOnNew, ~Streaming, SilentInv, [Next]_vars
  PROVE  SilentInv'
<1>. USE DEF SilentInv
<1>1. SequentialInv'
  BY StepSequential
<1>2. /\ outbox \in Seq(Item) /\ stopped \in SUBSET TurnIds
      /\ phase \in [TurnIds -> Phases] /\ kill \in [TurnIds -> BOOLEAN]
      /\ turn \in 0 .. MaxMsgs /\ last \in TurnIds \cup {0}
  BY DEF SequentialInv, TypeInv, TypeOK, OutTypes, StopTypes, TurnTypes, LoopTypes
<1>3. CASE SubmitPlain \/ SubmitReply
  BY <1>1, <1>3
  DEF SubmitPlain, SubmitReply, turnVars, outVars, stopVars, NotAnswered
<1>4. CASE Stop
  <2>1. UNCHANGED <<outbox, answered, phase>>
    BY <1>4 DEF Stop, outVars
  <2>2. \A k \in TurnIds : kill[k] => kill'[k]
    BY <1>2, <1>4 DEF Stop, CancelLoop
  <2>3. ASSUME NEW k \in TurnIds, InProgress(k)
        PROVE  phase[k] \in {"open", "work"} /\ kill'[k]
    <3>1. phase[k] \in {"open", "work"}
      BY <2>3, <1>2, ElementOfSeq DEF InProgress, Elems, Item
    <3>2. k = turn /\ lpc = "turn"
      BY <3>1 DEF SequentialInv, Live
    <3>. QED
      BY <1>2, <1>4, <3>1, <3>2 DEF Stop, CancelLoop, AwaitsTurn, Idle
  <2>4. stopped' = stopped \cup {k \in TurnIds : InProgress(k)}
    BY <1>4 DEF Stop
  <2>. QED
    BY <1>1, <1>2, <2>1, <2>2, <2>3, <2>4 DEF NotAnswered
<1>5. ASSUME NEW j \in TurnIds, AgentStep(j)
      PROVE  SilentInv'
  <2>1. /\ stopped' = stopped
        /\ \A k \in TurnIds : k # j => phase'[k] = phase[k] /\ kill'[k] = kill[k]
    BY <1>2, <1>5 DEF AgentStep, OpenJob, Answer, PostDone, Fail, TimeOut,
         ResetBackend, Crash, CloseJob, Unwind, Finish, stopVars
  <2>2. CASE Answer(j)
    <3>1. j \notin stopped /\ phase'[j] = "post" /\ UNCHANGED answered
      BY <1>2, <2>2 DEF Answer
    <3>2. Enqueue(j, "answer")
      BY <2>2 DEF Answer
    <3>. QED
      BY <1>1, <1>2, <2>1, <3>1, <3>2, EnqueueSilent
  <2>3. CASE Fail(j) \/ ResetBackend(j)
    <3>1. phase'[j] = "close" /\ UNCHANGED <<answered, kill>> /\ Enqueue(j, "error")
      BY <1>2, <2>3 DEF Fail, ResetBackend, Finish
    <3>. QED
      BY <1>1, <1>2, <2>1, <3>1, EnqueueSilent
  <2>4. CASE OpenJob(j) \/ PostDone(j) \/ TimeOut(j) \/ Crash(j) \/ CloseJob(j) \/ Unwind(j)
    <3>1. UNCHANGED <<outbox, answered>>
      BY <2>4 DEF OpenJob, PostDone, TimeOut, Crash, CloseJob, Unwind, outVars
    <3>2. /\ phase'[j] # "unborn"
          /\ phase'[j] \in {"open", "work"} => phase[j] \in {"open", "work"}
          /\ kill[j] \/ phase[j] \in {"close", "done"}
               => phase'[j] \in {"close", "done"}
      BY <1>2, <2>4 DEF OpenJob, PostDone, TimeOut, Crash, CloseJob, Unwind, Finish
    <3>. QED
      BY <1>1, <1>2, <2>1, <3>1, <3>2 DEF NotAnswered
  <2>. QED
    BY <1>5, <2>2, <2>3, <2>4 DEF AgentStep
<1>6. ASSUME NEW j \in TurnIds, WaiterTakes(j)
      PROVE  SilentInv'
  BY <1>1, <1>6 DEF WaiterTakes, turnVars, outVars, stopVars, NotAnswered
<1>7. CASE LoopStep
  <2>1. UNCHANGED <<answered, stopped, kill>>
    BY <1>7 DEF LoopStep, LoopStart, CollectMore, CollectDone, Resumed, FirstTurn,
         StartTurn, NoAgent, FollowDone, TurnReturned, RaceAgentDone, Reaped,
         CancelInFlight, Unwound, LoopCancelled, LoopExit, outVars, stopVars,
         turnVars, SequentialInv
  <2>2. phase' = phase \/ (turn + 1 \in TurnIds /\ turn' = turn + 1 /\ StartTurn)
    BY <1>2, <1>7, PoolAssumption
    DEF LoopStep, LoopStart, CollectMore, CollectDone, Resumed, FirstTurn,
        StartTurn, NoAgent, FollowDone, TurnReturned, RaceAgentDone, Reaped,
        CancelInFlight, Unwound, LoopCancelled, LoopExit, turnVars, TurnIds
  <2>3. CASE outbox' = outbox
    <3>1. \A k \in TurnIds : phase'[k] # phase[k] => phase[k] = "unborn" /\ phase'[k] = "open"
      BY <1>2, <2>2, PoolAssumption DEF StartTurn, SequentialInv, TurnIds
    <3>. QED
      BY <1>1, <1>2, <2>1, <2>3, <3>1 DEF NotAnswered
  <2>4. CASE RaiseCancelled /\ phase' = phase
    <3>1. outbox' = outbox \/ (last \in TurnIds /\ Enqueue(last, "notice"))
      BY <1>2, <2>4 DEF RaiseCancelled
    <3>2. CASE outbox' = outbox
      BY <2>3, <3>2
    <3>3. CASE last \in TurnIds /\ Enqueue(last, "notice")
      BY <1>1, <1>2, <2>1, <2>4, <3>3, EnqueueSilent
    <3>. QED
      BY <3>1, <3>2, <3>3
  <2>. QED
    BY <1>7, <2>3, <2>4 DEF LoopStep, LoopStart, CollectMore, CollectDone, Resumed,
       FollowDone, TurnReturned, RaceAgentDone, Reaped, CancelInFlight, Unwound,
       LoopCancelled, LoopExit, outVars, turnVars
<1>8. CASE StartSend \/ UNCHANGED vars
  BY <1>1, <1>8 DEF StartSend, vars, turnVars, outVars, stopVars, NotAnswered
<1>9. CASE FinishSend
  <2>1. UNCHANGED <<phase, kill, stopped>> /\ outbox # <<>> /\ outbox' = Tail(outbox)
    BY <1>9 DEF FinishSend, turnVars, stopVars
  <2>2. /\ \A i \in 1 .. Len(outbox') : i + 1 \in 1 .. Len(outbox)
                                       /\ outbox'[i] = outbox[i + 1]
        /\ 1 \in 1 .. Len(outbox) /\ Head(outbox) = outbox[1]
    BY <1>2, <2>1, HeadTailProperties, EmptySeq, LenProperties
  <2>3. \A k \in TurnIds : NotAnswered(k) => NotAnswered(k)'
    BY <1>9, <2>2 DEF FinishSend, NotAnswered
  <2>. QED
    BY <1>1, <1>2, <2>1, <2>2, <2>3
<1>. QED
  BY <1>3, <1>4, <1>5, <1>6, <1>7, <1>8, <1>9 DEF Next

\* In the default mode, when the backend does not stream, /stop silences the
\* turn: a turn the backend was working on at a /stop never delivers an answer.
THEOREM StopSilencesDefaultMode ==
  ASSUME ~CancelOnNew, ~Streaming
  PROVE  Spec => []StoppedTurnStaysSilent
<1>1. SilentInv => StoppedTurnStaysSilent
  BY DEF SilentInv, NotAnswered, StoppedTurnStaysSilent
<1>2. SilentInv /\ [Next]_vars => SilentInv'
  BY StepSilent
<1>. QED
  BY <1>1, <1>2, InitSilent, PTL DEF Spec

(***************************************************************************)
(* Both modes.  Until the first /stop a live agent task is the one its loop *)
(* awaits: the loop starts a task only when it awaits none.                 *)
(***************************************************************************)
AwaitInv ==
    /\ TypeInv
    /\ \A k \in TurnIds : k > turn => phase[k] = "unborn"
    /\ stops = 0 => NoOrphanTurn /\ ~lstop

LEMMA InitAwait == Init => AwaitInv
<1>. SUFFICES ASSUME Init PROVE AwaitInv
  OBVIOUS
<1>. QED
  BY InitType DEF Init, AwaitInv, NoOrphanTurn, Live

\* Starting a turn while none is live keeps the invariant.
LEMMA StartAwait ==
  ASSUME AwaitInv, TypeInv', StartTurn, stops' = stops, lstop' = lstop,
         stops = 0 => \A k \in TurnIds : ~Live(k)
  PROVE  AwaitInv'
<1>1. turn \in 0 .. MaxMsgs /\ phase \in [TurnIds -> Phases] /\ MaxMsgs \in Nat
  BY PoolAssumption DEF AwaitInv, TypeInv, TypeOK, TurnTypes
<1>2. turn + 1 \in TurnIds /\ turn' = turn + 1 /\ lpc' = "turn"
  BY <1>1 DEF StartTurn, TurnIds
<1>3. \A k \in TurnIds : k # turn' => phase'[k] = phase[k]
  BY <1>1, <1>2 DEF StartTurn
<1>4. \A k \in TurnIds : k > turn' => phase'[k] = "unborn"
  BY <1>1, <1>2, <1>3 DEF AwaitInv, TurnIds
<1>. QED
  BY <1>2, <1>3, <1>4 DEF AwaitInv, NoOrphanTurn, Live

LEMMA LoopAwait == ASSUME AwaitInv, TypeInv', LoopStep PROVE AwaitInv'
<1>. USE DEF AwaitInv, NoOrphanTurn, Live
<1>1. phase \in [TurnIds -> Phases] /\ turn \in 0 .. MaxMsgs
  BY DEF TypeInv, TypeOK, TurnTypes
<1>2. CASE LoopStart \/ CollectMore \/ LoopExit
  BY <1>2 DEF LoopStart, NextRound, CollectMore, LoopExit, turnVars, stopVars
<1>3. CASE CollectDone \/ Resumed \/ FollowDone
  <2>1. /\ stops' = stops /\ lstop' = lstop
        /\ stops = 0 => \A k \in TurnIds : ~Live(k)
    BY <1>3 DEF CollectDone, Resumed, FollowDone, stopVars
  <2>2. CASE StartTurn
    BY <2>1, <2>2, StartAwait
  <2>3. CASE UNCHANGED turnVars
    BY <2>1, <2>3 DEF turnVars
  <2>. QED
    BY <1>3, <2>2, <2>3
    DEF CollectDone, Resumed, FollowDone, FirstTurn, NoAgent
<1>4. CASE TurnReturned \/ RaceAgentDone \/ Unwound
  <2>1. /\ UNCHANGED <<turnVars, stops>>
        /\ stops = 0 => \A k \in TurnIds : ~Live(k)
    BY <1>4 DEF TurnReturned, RaceAgentDone, Unwound, stopVars
  <2>2. stops = 0 => ~lstop'
    BY <1>4 DEF TurnReturned, RaceAgentDone, Unwound, RaiseCancelled
  <2>. QED
    BY <2>1, <2>2 DEF turnVars
<1>5. CASE Reaped
  BY <1>5 DEF Reaped, NextRound, turnVars, stopVars
<1>6. CASE CancelInFlight
  BY <1>6 DEF CancelInFlight, stopVars
<1>7. CASE LoopCancelled
  BY <1>7 DEF LoopCancelled, RaiseCancelled, turnVars, stopVars
<1>. QED
  BY <1>2, <1>3, <1>4, <1>5, <1>6, <1>7 DEF LoopStep

LEMMA StepAwait == ASSUME AwaitInv, [Next]_vars PROVE AwaitInv'
<1>. USE DEF AwaitInv, NoOrphanTurn, Live
<1>1. TypeInv'
  BY StepType
<1>2. CASE SubmitPlain \/ SubmitReply
  BY <1>1, <1>2 DEF SubmitPlain, SubmitReply, Submit, Idle, turnVars, stopVars
<1>3. CASE Stop
  <2>1. stops' # 0
    BY <1>3 DEF Stop, TypeInv, TypeOK, StopTypes
  <2>. QED
    BY <1>1, <1>3, <2>1 DEF Stop
<1>4. ASSUME NEW j \in TurnIds, AgentStep(j)
      PROVE  AwaitInv'
  <2>1. UNCHANGED <<lpc, turn, lstop, stops>> /\ Live(j)
    BY <1>4 DEF AgentStep, OpenJob, Answer, PostDone, Fail, TimeOut, ResetBackend,
                Crash, CloseJob, Unwind, loopVars, stopVars
  <2>2. \A k \in TurnIds : k # j => phase'[k] = phase[k]
    BY <1>4 DEF AgentStep, OpenJob, Answer, PostDone, Fail, TimeOut, ResetBackend,
                Crash, CloseJob, Unwind, Finish, TypeInv, TypeOK, TurnTypes
  <2>. QED
    BY <1>1, <2>1, <2>2
<1>5. ASSUME NEW j \in TurnIds, WaiterTakes(j)
      PROVE  AwaitInv'
  BY <1>1, <1>5 DEF WaiterTakes, loopVars, turnVars, stopVars
<1>6. CASE LoopStep
  BY <1>1, <1>6, LoopAwait
<1>7. CASE StartSend \/ FinishSend \/ UNCHANGED vars
  BY <1>1, <1>7 DEF StartSend, FinishSend, vars, loopVars, turnVars, stopVars
<1>. QED
  BY <1>2, <1>3, <1>4, <1>5, <1>6, <1>7 DEF Next

\* Two turns of a pool never run at once before the first /stop, also when new
\* messages cancel the turn in flight: process_loop awaits the cancelled task
\* before it starts the next.  (After a /stop cancel-in-flight mode may leave a
\* task behind; the default mode never does, see NoOrphanInDefaultMode.)
THEOREM OneTurnUntilStopped ==
  Spec => [](stops = 0 => OneTurnAtATime)
<1>1. AwaitInv => (stops = 0 => OneTurnAtATime)
  BY DEF AwaitInv, NoOrphanTurn, OneTurnAtATime
<1>2. AwaitInv /\ [Next]_vars => AwaitInv'
  BY StepAwait
<1>. QED
  BY <1>1, <1>2, InitAwait, PTL DEF Spec

(***************************************************************************)
(* Both modes.  No message vanishes.  Where a message may be is not enough: *)
(* what is overwritten must be known to hold nothing, and the buffer the    *)
(* loop drops after a turn must have been merged into that turn.            *)
(***************************************************************************)
Placed ==
    /\ newMsg # 0 => lpc = "unwind"
    /\ lpc \in {"none", "ready", "notice"} => buf = <<>>
    /\ lpc \in {"turn", "reap", "unwind"} => Elems(buf) \subseteq Elems(msgsOf[turn])
    /\ \A k \in TurnIds :
          /\ waiter[k] # "got" => held[k] = 0
          /\ k > turn => waiter[k] = "none" /\ msgsOf[k] = <<>>
MessageInv == TypeInv /\ Placed /\ MessagesAccountedFor

\* Where message m may be: one disjunct of MessagesAccountedFor each.
Holds(m) ==
    \/ m \in Elems(inbox) \/ m \in Elems(buf) \/ m = newMsg \/ m \in dropped
    \/ \E k \in TurnIds : held[k] = m \/ m \in Elems(msgsOf[k])

LEMMA ElemsEmpty == Elems(<<>>) = {}
  BY DEF Elems

LEMMA ElemsAppend ==
  ASSUME NEW S, NEW s \in Seq(S), NEW e \in S
  PROVE  Elems(Append(s, e)) = Elems(s) \cup {e}
<1>1. Len(s) \in Nat /\ Len(Append(s, e)) = Len(s) + 1
  OBVIOUS
<1>2. \A i \in 1 .. Len(s) : Append(s, e)[i] = s[i]
  OBVIOUS
<1>3. Append(s, e)[Len(s) + 1] = e
  OBVIOUS
<1>4. 1 .. (Len(s) + 1) = (1 .. Len(s)) \cup {Len(s) + 1}
  BY <1>1
<1>. QED
  BY <1>1, <1>2, <1>3, <1>4 DEF Elems

LEMMA ElemsConcat ==
  ASSUME NEW S, NEW s \in Seq(S), NEW t \in Seq(S)
  PROVE  Elems(s \o t) = Elems(s) \cup Elems(t)
<1>1. Len(s) \in Nat /\ Len(t) \in Nat /\ Len(s \o t) = Len(s) + Len(t)
  OBVIOUS
<1>2. \A i \in 1 .. Len(s) : (s \o t)[i] = s[i]
  OBVIOUS
<1>3. \A i \in 1 .. Len(t) : (s \o t)[Len(s) + i] = t[i]
  OBVIOUS
<1>4. ASSUME NEW i \in 1 .. (Len(s) + Len(t))
      PROVE  i \in 1 .. Len(s) \/ \E j \in 1 .. Len(t) : i = Len(s) + j
  <2>1. CASE i > Len(s)
    <3>1. i - Len(s) \in 1 .. Len(t) /\ i = Len(s) + (i - Len(s))
      BY <1>1, <2>1
    <3>. QED
      BY <3>1
  <2>. QED
    BY <1>1, <2>1
<1>5. \A j \in 1 .. Len(t) : Len(s) + j \in 1 .. (Len(s) + Len(t))
  BY <1>1
<1>6. \A i \in 1 .. Len(s) : i \in 1 .. (Len(s) + Len(t))
  BY <1>1
<1>7. Elems(s \o t) \subseteq Elems(s) \cup Elems(t)
  <2>. SUFFICES ASSUME NEW i \in 1 .. (Len(s) + Len(t))
                PROVE  (s \o t)[i] \in Elems(s) \cup Elems(t)
    BY <1>1 DEF Elems
  <2>. QED
    BY <1>2, <1>3, <1>4 DEF Elems
<1>8. Elems(s) \subseteq Elems(s \o t)
  BY <1>1, <1>2, <1>6 DEF Elems
<1>9. Elems(t) \subseteq Elems(s \o t)
  <2>. SUFFICES ASSUME NEW j \in 1 .. Len(t) PROVE t[j] \in Elems(s \o t)
    BY DEF Elems
  <2>. QED
    BY <1>1, <1>3, <1>5 DEF Elems
<1>. QED
  BY <1>7, <1>8, <1>9

LEMMA ElemsTail ==
  ASSUME NEW S, NEW s \in Seq(S), s # <<>>
  PROVE  Elems(s) = {Head(s)} \cup Elems(Tail(s))
<1>1. Tail(s) \in Seq(S) /\ Len(s) \in Nat \ {0} /\ Len(Tail(s)) = Len(s) - 1
  OBVIOUS
<1>2. \A i \in 1 .. (Len(s) - 1) : Tail(s)[i] = s[i + 1]
  OBVIOUS
<1>3. Head(s) = s[1] /\ 1 \in 1 .. Len(s)
  BY <1>1
<1>4. \A i \in 1 .. Len(s) : i # 1 => i - 1 \in 1 .. (Len(s) - 1) /\ i = (i - 1) + 1
  BY <1>1
<1>5. \A i \in 1 .. (Len(s) - 1) : i + 1 \in 1 .. Len(s)
  BY <1>1
<1>6. Elems(s) \subseteq {Head(s)} \cup Elems(Tail(s))
  <2>. SUFFICES ASSUME NEW i \in 1 .. Len(s), i # 1
                PROVE  s[i] \in Elems(Tail(s))
    BY <1>3 DEF Elems
  <2>1. i - 1 \in 1 .. Len(Tail(s)) /\ s[i] = Tail(s)[i - 1]
    BY <1>1, <1>2, <1>4
  <2>. QED
    BY <2>1 DEF Elems
<1>7. Elems(Tail(s)) \subseteq Elems(s)
  BY <1>1, <1>2, <1>5 DEF Elems
<1>. QED
  BY <1>3, <1>6, <1>7 DEF Elems

LEMMA InitMessage == Init => MessageInv
<1>. SUFFICES ASSUME Init PROVE MessageInv
  OBVIOUS
<1>1. Placed
  BY DEF Init, Placed
<1>2. MessagesAccountedFor
  BY DEF Init, MessagesAccountedFor
<1>. QED
  BY <1>1, <1>2, InitType DEF MessageInv

\* StartTurn puts the buffer into the new turn.
LEMMA StartTurnMerges ==
  ASSUME TypeInv, Placed, StartTurn
  PROVE  /\ turn + 1 \in TurnIds /\ turn' = turn + 1
         /\ msgsOf'[turn + 1] = buf
         /\ \A k \in TurnIds : k # turn + 1 =>
               msgsOf'[k] = msgsOf[k] /\ waiter'[k] = waiter[k]
         /\ msgsOf[turn + 1] = <<>> /\ held[turn + 1] = 0
         /\ UNCHANGED <<buf, held>>
<1>1. turn \in 0 .. MaxMsgs /\ msgsOf \in [TurnIds -> Seq(Msgs)] /\ MaxMsgs \in Nat
  BY PoolAssumption DEF TypeInv, TypeOK, TurnTypes
<1>2. waiter \in [TurnIds -> {"none", "waiting", "got", "cancelled"}]
  BY DEF TypeInv, TypeOK, WaitTypes
<1>3. turn + 1 \in TurnIds /\ turn + 1 > turn
  BY <1>1 DEF StartTurn, TurnIds
<1>. QED
  BY <1>1, <1>2, <1>3 DEF StartTurn, Placed

LEMMA StartTurnPlaced ==
  ASSUME TypeInv, Placed, StartTurn, newMsg = 0, newMsg' = newMsg
  PROVE  Placed'
<1>1. turn \in 0 .. MaxMsgs /\ MaxMsgs \in Nat
  BY PoolAssumption DEF TypeInv, TypeOK, TurnTypes
<1>2. \A k \in TurnIds : k > turn + 1 => k > turn /\ k # turn + 1
  BY <1>1 DEF TurnIds
<1>3. lpc' = "turn"
  BY DEF StartTurn
<1>. QED
  BY <1>2, <1>3, StartTurnMerges DEF Placed

LEMMA StepPlaced ==
  ASSUME TypeInv, Placed, [Next]_vars
  PROVE  Placed'
<1>. USE DEF Placed
<1>1. /\ turn \in 0 .. MaxMsgs
      /\ waiter \in [TurnIds -> {"none", "waiting", "got", "cancelled"}]
      /\ held \in [TurnIds -> Msgs \cup {0}]
      /\ buf \in Seq(Msgs) /\ inbox \in Seq(Msgs)
  BY DEF TypeInv, TypeOK, TurnTypes, WaitTypes, LoopTypes, InTypes
<1>2. CASE SubmitPlain \/ SubmitReply \/ Stop
  BY <1>2 DEF SubmitPlain, SubmitReply, Submit, Stop, CancelLoop, turnVars,
              waitVars, Idle
<1>3. ASSUME NEW j \in TurnIds, AgentStep(j)
      PROVE  Placed'
  BY <1>3 DEF AgentStep, OpenJob, Answer, PostDone, Fail, TimeOut, ResetBackend,
              Crash, CloseJob, Unwind, loopVars, waitVars
<1>4. ASSUME NEW j \in TurnIds, WaiterTakes(j)
      PROVE  Placed'
  <2>1. ~(j > turn)
    BY <1>4 DEF WaiterTakes
  <2>. QED
    BY <1>1, <1>4, <2>1 DEF WaiterTakes, loopVars, turnVars
<1>5. CASE LoopStart \/ CollectMore \/ LoopExit
  BY <1>5 DEF LoopStart, NextRound, CollectMore, LoopExit, turnVars, waitVars
<1>6. CASE CollectDone \/ Resumed \/ FollowDone
  <2>1. newMsg = 0 /\ newMsg' = newMsg
    BY <1>6 DEF CollectDone, Resumed, FollowDone
  <2>2. CASE StartTurn
    BY <2>1, <2>2, StartTurnPlaced
  <2>3. CASE NoAgent
    BY <2>1, <2>3 DEF NoAgent, turnVars, waitVars
  <2>. QED
    BY <1>6, <2>1, <2>2, <2>3
    DEF CollectDone, Resumed, FollowDone, FirstTurn, turnVars, waitVars
<1>7. CASE TurnReturned
  BY <1>7 DEF TurnReturned, RaiseCancelled, NextRound, turnVars, waitVars
<1>8. CASE Reaped
  BY <1>8 DEF Reaped, NextRound, turnVars, waitVars
<1>9. CASE LoopCancelled \/ Unwound
  BY <1>9 DEF LoopCancelled, RaiseCancelled, Unwound, turnVars, waitVars
<1>10. CASE RaceAgentDone \/ CancelInFlight
  <2>1. /\ msgsOf' = msgsOf /\ turn' = turn
        /\ \A k \in TurnIds : waiter'[k] # waiter[k] \/ held'[k] # held[k] =>
              k = turn
        /\ turn \in TurnIds => waiter'[turn] # "got" /\ (waiter[turn] # "got" => held[turn] = 0)
    BY <1>1, <1>10 DEF RaceAgentDone, CancelInFlight, turnVars
  <2>2. \A k \in TurnIds : /\ waiter'[k] # "got" => held'[k] = 0
                           /\ k > turn' => waiter'[k] = "none" /\ msgsOf'[k] = <<>>
    BY <1>1, <1>10, <2>1 DEF RaceAgentDone, CancelInFlight, TurnIds
  <2>. QED
    BY <1>10, <2>1, <2>2 DEF RaceAgentDone, CancelInFlight, NextRound
<1>11. CASE StartSend \/ FinishSend \/ UNCHANGED vars
  BY <1>11 DEF StartSend, FinishSend, vars, loopVars, turnVars, waitVars
<1>. QED
  BY <1>2, <1>3, <1>4, <1>5, <1>6, <1>7, <1>8, <1>9, <1>10, <1>11
  DEF Next, LoopStep

\* A step moves a message, but never out of every place at once.
LEMMA StepHolds ==
  ASSUME TypeInv, Placed, [Next]_vars, NEW m \in Msgs, Holds(m)
  PROVE  Holds(m)'
<1>. USE DEF Holds
<1>1. /\ turn \in 0 .. MaxMsgs /\ m # 0
      /\ waiter \in [TurnIds -> {"none", "waiting", "got", "cancelled"}]
      /\ held \in [TurnIds -> Msgs \cup {0}]
      /\ buf \in Seq(Msgs) /\ inbox \in Seq(Msgs)
      /\ submitted \in 0 .. MaxMsgs /\ newMsg \in Msgs \cup {0}
  BY DEF TypeInv, TypeOK, TurnTypes, WaitTypes, LoopTypes, InTypes, Msgs
<1>2. CASE SubmitPlain \/ SubmitReply
  <2>1. submitted + 1 \in Msgs
    BY <1>1, <1>2, PoolAssumption DEF SubmitPlain, SubmitReply, Submit, Msgs
  <2>2. inbox' = Append(inbox, submitted + 1)
    BY <1>2 DEF SubmitPlain, SubmitReply, Submit
  <2>3. Elems(Append(inbox, submitted + 1)) = Elems(inbox) \cup {submitted + 1}
    BY ONLY <1>1, <2>1, ElemsAppend
  <2>. QED
    BY <1>2, <2>2, <2>3 DEF SubmitPlain, SubmitReply, turnVars, waitVars, stopVars
<1>3. CASE Stop
  BY <1>3 DEF Stop, inVars, waitVars
<1>4. ASSUME NEW j \in TurnIds, AgentStep(j)
      PROVE  Holds(m)'
  BY <1>4 DEF AgentStep, OpenJob, Answer, PostDone, Fail, TimeOut, ResetBackend,
              Crash, CloseJob, Unwind, inVars, loopVars, waitVars
<1>5. ASSUME NEW j \in TurnIds, WaiterTakes(j)
      PROVE  Holds(m)'
  <2>1. Elems(inbox) = {Head(inbox)} \cup Elems(inbox')
    BY <1>1, <1>5, ElemsTail DEF WaiterTakes
  <2>2. held'[j] = Head(inbox) /\ held[j] = 0
    BY <1>1, <1>5 DEF WaiterTakes, Placed
  <2>3. \A k \in TurnIds : k # j => held'[k] = held[k]
    BY <1>1, <1>5 DEF WaiterTakes
  <2>. QED
    BY <1>1, <1>5, <2>1, <2>2, <2>3 DEF WaiterTakes, loopVars, turnVars
<1>6. CASE LoopStart
  BY <1>6, ElemsEmpty DEF LoopStart, NextRound, Placed, turnVars, waitVars
<1>7. CASE CollectMore
  BY <1>1, <1>7, ElemsConcat DEF CollectMore, turnVars, waitVars
<1>8. CASE CollectDone \/ Resumed \/ FollowDone
  <2>1. CASE StartTurn
    BY <1>8, <2>1, StartTurnMerges, ElemsEmpty
    DEF CollectDone, Resumed, FollowDone, FirstTurn, NoAgent, inVars
  <2>2. CASE NoAgent
    BY <1>8, <2>2
    DEF CollectDone, Resumed, FollowDone, NoAgent, StartTurn, turnVars, waitVars
  <2>. QED
    BY <1>8, <2>1, <2>2
    DEF CollectDone, Resumed, FollowDone, FirstTurn, turnVars, waitVars
<1>9. CASE TurnReturned \/ Reaped
  <2>1. turn \in TurnIds
    BY <1>1, <1>9, PoolAssumption
    DEF TurnReturned, Reaped, TypeInv, Awaited, TurnIds
  <2>2. Elems(buf) \subseteq Elems(msgsOf[turn]) /\ newMsg = 0
    BY <1>9 DEF TurnReturned, Reaped, Placed
  <2>. QED
    BY <1>1, <1>9, <2>1, <2>2
    DEF TurnReturned, Reaped, RaiseCancelled, NextRound, turnVars, waitVars
<1>10. CASE RaceAgentDone \/ CancelInFlight
  <2>1. turn \in TurnIds /\ UNCHANGED <<msgsOf, dropped>>
    BY <1>1, <1>10, PoolAssumption
    DEF RaceAgentDone, CancelInFlight, TypeInv, Awaited, TurnIds, turnVars
  <2>2. Elems(buf) \subseteq Elems(msgsOf[turn]) /\ newMsg = 0
    BY <1>10 DEF RaceAgentDone, CancelInFlight, Placed
  <2>3. \A k \in TurnIds : k # turn => held'[k] = held[k]
    BY <1>1, <1>10 DEF RaceAgentDone, CancelInFlight
  <2>4. held[turn] # 0 => held[turn] \in Msgs
    BY <1>1, <2>1
  <2>5. CASE RaceAgentDone /\ waiter[turn] = "waiting"
    BY <2>1, <2>5 DEF RaceAgentDone
  <2>6. CASE RaceAgentDone /\ waiter[turn] = "got"
    <3>1. held[turn] \in Msgs
      BY <2>1, <2>4, <2>6 DEF TypeInv, Awaited
    <3>2. buf' = Append(inbox, held[turn])
      BY <2>6 DEF RaceAgentDone, NextRound
    <3>3. Elems(Append(inbox, held[turn])) = Elems(inbox) \cup {held[turn]}
      BY ONLY <1>1, <3>1, ElemsAppend
    <3>. QED
      BY <1>1, <2>1, <2>2, <2>3, <3>2, <3>3
  <2>7. CASE CancelInFlight
    BY <1>1, <2>1, <2>2, <2>3, <2>7 DEF CancelInFlight, inVars
  <2>. QED
    BY <1>10, <2>5, <2>6, <2>7 DEF RaceAgentDone
<1>11. CASE Unwound
  <2>1. newMsg \in Msgs
    BY <1>1, <1>11 DEF Unwound, TypeInv, Awaited
  <2>2. Elems(Append(buf, newMsg)) = Elems(buf) \cup {newMsg}
    BY <1>1, <2>1, ElemsAppend
  <2>. QED
    BY <1>1, <1>11, <2>2 DEF Unwound, LoseBuffer, inVars, turnVars, waitVars
<1>12. CASE LoopCancelled
  <2>1. CASE lpc = "turn"
    <3>1. turn \in TurnIds /\ Elems(buf) \subseteq Elems(msgsOf[turn]) /\ newMsg = 0
      BY <1>1, <2>1, PoolAssumption DEF TypeInv, Awaited, Placed, TurnIds
    <3>. QED
      BY <1>1, <1>12, <2>1, <3>1
      DEF LoopCancelled, RaiseCancelled, inVars, turnVars, waitVars
  <2>2. CASE lpc # "turn"
    BY <1>1, <1>12, <2>2
    DEF LoopCancelled, LoseBuffer, inVars, turnVars, waitVars
  <2>. QED
    BY <2>1, <2>2
<1>13. CASE LoopExit \/ StartSend \/ FinishSend \/ UNCHANGED vars
  BY <1>13
  DEF LoopExit, StartSend, FinishSend, vars, inVars, loopVars, turnVars, waitVars
<1>. QED
  BY <1>2, <1>3, <1>4, <1>5, <1>6, <1>7, <1>8, <1>9, <1>10, <1>11, <1>12, <1>13
  DEF Next, LoopStep

LEMMA StepMessage == ASSUME MessageInv, [Next]_vars PROVE MessageInv'
<1>1. TypeInv' /\ Placed'
  BY StepType, StepPlaced DEF MessageInv
<1>2. ASSUME NEW m \in 1 .. submitted' PROVE Holds(m)'
  <2>1. m \in Msgs /\ submitted \in Nat
    BY <1>1, PoolAssumption DEF TypeInv, TypeOK, InTypes, Msgs, MessageInv
  <2>2. CASE m \in 1 .. submitted
    <3>1. Holds(m)
      BY <2>2 DEF MessageInv, MessagesAccountedFor, Holds
    <3>. QED
      BY <2>1, <3>1, StepHolds DEF MessageInv
  <2>3. CASE m \notin 1 .. submitted
    <3>1. SubmitPlain \/ SubmitReply
      BY <2>3
      DEF Next, AgentStep, LoopStep, Stop, OpenJob, Answer, PostDone, Fail, TimeOut,
          ResetBackend, Crash, CloseJob, Unwind, WaiterTakes, LoopStart,
          CollectMore, CollectDone, Resumed, FollowDone, TurnReturned,
          RaceAgentDone, Reaped, CancelInFlight, Unwound, LoopCancelled,
          LoopExit, StartSend, FinishSend, vars, inVars
    <3>2. m = submitted + 1 /\ inbox' = Append(inbox, m)
      BY <2>1, <2>3, <3>1 DEF SubmitPlain, SubmitReply, Submit
    <3>3. Elems(inbox') = Elems(inbox) \cup {m}
      BY <2>1, <3>2, ElemsAppend DEF MessageInv, TypeInv, TypeOK, InTypes
    <3>. QED
      BY <3>3 DEF Holds
  <2>. QED
    BY <2>2, <2>3
<1>. QED
  BY <1>1, <1>2 DEF MessageInv, MessagesAccountedFor, Holds

\* No message submitted to a pool vanishes, in either mode and whatever is
\* cancelled or crashes: it is queued, in the loop's or a waiter's hands, part
\* of a turn, or among those the code discards on purpose.
THEOREM NoMessageVanishes == Spec => []MessagesAccountedFor
<1>1. MessageInv => MessagesAccountedFor
  BY DEF MessageInv
<1>2. MessageInv /\ [Next]_vars => MessageInv'
  BY StepMessage
<1>. QED
  BY <1>1, <1>2, InitMessage, PTL DEF Spec

(***************************************************************************)
(* Let-it-finish mode, reply-to resumes.  The loop fires the pending resume *)
(* before the buffer becomes a turn; one that arrives while resume_session  *)
(* runs belongs to a message submitted later than everything collected.     *)
(***************************************************************************)
Known ==
    /\ pending <= submitted
    /\ Elems(inbox) \subseteq 1 .. submitted
    /\ Elems(buf) \subseteq 1 .. submitted
    /\ \A k \in TurnIds : Elems(msgsOf[k]) \subseteq 1 .. submitted
ResumeInv ==
    /\ SequentialInv /\ Known
    /\ lpc = "resume" => pending \notin Elems(buf)
    /\ ResumeFiredBeforeTurn

LEMMA InitResume == Init => ResumeInv
<1>. SUFFICES ASSUME Init PROVE ResumeInv
  OBVIOUS
<1>1. Known
  BY ElemsEmpty DEF Init, Known
<1>. QED
  BY <1>1, InitSequential DEF Init, ResumeInv, ResumeFiredBeforeTurn

LEMMA StepKnown ==
  ASSUME SequentialInv, ~CancelOnNew, Known, [Next]_vars
  PROVE  Known'
<1>. USE DEF Known
<1>1. /\ submitted \in Nat /\ pending \in Nat
      /\ inbox \in Seq(Msgs) /\ buf \in Seq(Msgs) /\ turn \in 0 .. MaxMsgs
      /\ msgsOf \in [TurnIds -> Seq(Msgs)]
  BY PoolAssumption
  DEF SequentialInv, TypeInv, TypeOK, InTypes, LoopTypes, TurnTypes, Msgs
<1>2. 1 .. submitted \subseteq 1 .. (submitted + 1)
  BY <1>1
<1>3. CASE SubmitPlain \/ SubmitReply
  <2>1. submitted' = submitted + 1 /\ inbox' = Append(inbox, submitted + 1)
    BY <1>3 DEF SubmitPlain, SubmitReply, Submit
  <2>2. submitted + 1 \in Msgs
    BY <1>1, <1>3, PoolAssumption DEF SubmitPlain, SubmitReply, Submit, Msgs
  <2>3. Elems(Append(inbox, submitted + 1)) = Elems(inbox) \cup {submitted + 1}
    BY ONLY <1>1, <2>2, ElemsAppend
  <2>4. submitted + 1 \in 1 .. (submitted + 1)
    BY <1>1
  <2>5. pending' <= submitted + 1
    BY <1>1, <1>3 DEF SubmitPlain, SubmitReply
  <2>6. UNCHANGED <<buf, msgsOf>>
    BY <1>3 DEF SubmitPlain, SubmitReply, turnVars
  <2>. QED
    BY <1>2, <2>1, <2>3, <2>4, <2>5, <2>6
<1>4. CASE Stop \/ LoopExit \/ StartSend \/ FinishSend \/ UNCHANGED vars
  BY <1>4
  DEF Stop, LoopExit, StartSend, FinishSend, vars, inVars, loopVars, turnVars
<1>5. ASSUME NEW j \in TurnIds, AgentStep(j)
      PROVE  Known'
  BY <1>5 DEF AgentStep, OpenJob, Answer, PostDone, Fail, TimeOut, ResetBackend,
              Crash, CloseJob, Unwind, inVars, loopVars
<1>6. ASSUME NEW j \in TurnIds, WaiterTakes(j)
      PROVE  Known'
  BY <1>6 DEF WaiterTakes, SequentialInv
<1>7. CASE LoopStart \/ TurnReturned
  BY <1>7, ElemsEmpty
  DEF LoopStart, TurnReturned, NextRound, RaiseCancelled, turnVars
<1>8. CASE CollectMore
  <2>1. Elems(buf \o inbox) = Elems(buf) \cup Elems(inbox)
    BY ONLY <1>1, ElemsConcat
  <2>. QED
    BY <1>8, <2>1, ElemsEmpty DEF CollectMore, turnVars
<1>9. CASE CollectDone \/ Resumed
  <2>1. submitted' = submitted /\ pending' <= submitted
    BY <1>1, <1>9 DEF CollectDone, Resumed
  <2>2. CASE StartTurn /\ UNCHANGED inbox
    <3>1. \A k \in TurnIds : msgsOf'[k] = msgsOf[k] \/ msgsOf'[k] = buf
      BY <1>1, <2>2 DEF StartTurn
    <3>. QED
      BY <2>1, <2>2, <3>1 DEF StartTurn
  <2>3. CASE NoAgent
    BY <2>1, <2>3, ElemsEmpty DEF NoAgent, turnVars
  <2>4. CASE UNCHANGED <<inbox, buf, turnVars>>
    BY <2>1, <2>4 DEF turnVars
  <2>. QED
    BY <1>9, <2>2, <2>3, <2>4 DEF CollectDone, Resumed, FirstTurn
<1>10. CASE LoopCancelled
  BY <1>10, ElemsEmpty DEF LoopCancelled, RaiseCancelled, inVars, turnVars
<1>11. CASE FollowDone \/ RaceAgentDone \/ Reaped \/ CancelInFlight \/ Unwound
  BY <1>11
  DEF SequentialInv, FollowDone, RaceAgentDone, Reaped, CancelInFlight, Unwound
<1>. QED
  BY <1>3, <1>4, <1>5, <1>6, <1>7, <1>8, <1>9, <1>10, <1>11 DEF Next, LoopStep

LEMMA StepResume ==
  ASSUME ~CancelOnNew, ResumeInv, [Next]_vars
  PROVE  ResumeInv'
<1>1. SequentialInv' /\ Known'
  BY StepSequential, StepKnown DEF ResumeInv
<1>2. /\ submitted \in Nat /\ submitted + 1 \notin 1 .. submitted
      /\ 0 \notin 1 .. submitted
      /\ msgsOf \in [TurnIds -> Seq(Msgs)] /\ phase \in [TurnIds -> Phases]
      /\ turn \in 0 .. MaxMsgs
  BY DEF ResumeInv, SequentialInv, TypeInv, TypeOK, InTypes, TurnTypes
<1>3. SequentialInv /\ Known
  BY DEF ResumeInv
<1>. DEFINE Fired == /\ lpc = "resume" => pending \notin Elems(buf)
                     /\ ResumeFiredBeforeTurn
<1>4. Fired
  BY DEF ResumeInv
<1>. SUFFICES Fired'
  BY <1>1 DEF ResumeInv
<1>. USE DEF ResumeFiredBeforeTurn
<1>5. CASE SubmitPlain \/ SubmitReply
  <2>1. UNCHANGED <<buf, phase, msgsOf>> /\ (lpc' = "resume" => lpc = "resume")
    BY <1>5 DEF SubmitPlain, SubmitReply, Submit, turnVars
  <2>2. pending' = pending \/ pending' = submitted + 1
    BY <1>5 DEF SubmitPlain, SubmitReply
  <2>. QED
    BY <1>2, <1>3, <1>4, <2>1, <2>2 DEF Known
<1>6. CASE Stop \/ StartSend \/ FinishSend \/ UNCHANGED vars
  BY <1>4, <1>6
  DEF Stop, CancelLoop, StartSend, FinishSend, vars, inVars, loopVars, turnVars
<1>7. ASSUME NEW j \in TurnIds, AgentStep(j)
      PROVE  Fired'
  <2>1. UNCHANGED <<lpc, pending, buf, msgsOf>>
    BY <1>7 DEF AgentStep, OpenJob, Answer, PostDone, Fail, TimeOut, ResetBackend,
                Crash, CloseJob, Unwind, inVars, loopVars
  <2>2. \A k \in TurnIds : phase'[k] = "open" => phase[k] = "open"
    BY <1>2, <1>7 DEF AgentStep, OpenJob, Answer, PostDone, Fail, TimeOut,
                      ResetBackend, Crash, CloseJob, Unwind, Finish
  <2>. QED
    BY <1>4, <2>1, <2>2
<1>8. ASSUME NEW j \in TurnIds, WaiterTakes(j)
      PROVE  Fired'
  BY <1>3, <1>8 DEF WaiterTakes, SequentialInv
<1>9. CASE LoopStart \/ CollectMore \/ TurnReturned \/ LoopCancelled \/ LoopExit
  BY <1>3, <1>4, <1>9
  DEF LoopStart, CollectMore, TurnReturned, LoopCancelled, LoopExit, NextRound,
      RaiseCancelled, inVars, turnVars, SequentialInv
<1>10. CASE CollectDone \/ Resumed
  <2>1. CASE StartTurn
    <3>1. pending \notin Elems(buf) /\ pending' = pending /\ lpc' = "turn"
      BY <1>2, <1>3, <1>4, <1>10, <2>1 DEF CollectDone, Resumed, StartTurn, Known
    <3>2. \A k \in TurnIds : phase'[k] = "open" =>
             \/ phase[k] = "open" /\ msgsOf'[k] = msgsOf[k]
             \/ msgsOf'[k] = buf
      BY <1>2, <2>1 DEF StartTurn
    <3>. QED
      BY <1>4, <3>1, <3>2
  <2>2. CASE ~StartTurn
    <3>1. UNCHANGED <<phase, msgsOf>> /\ pending' \in {0, pending}
      BY <1>10, <2>2 DEF CollectDone, Resumed, FirstTurn, NoAgent, turnVars
    <3>2. lpc' = "resume" => pending' = 0 /\ buf' = buf
      BY <1>10, <2>2 DEF CollectDone, Resumed, FirstTurn, NoAgent
    <3>. QED
      BY <1>2, <1>3, <1>4, <3>1, <3>2 DEF Known
  <2>. QED
    BY <2>1, <2>2
<1>11. CASE FollowDone \/ RaceAgentDone \/ Reaped \/ CancelInFlight \/ Unwound
  BY <1>3, <1>11
  DEF SequentialInv, FollowDone, RaceAgentDone, Reaped, CancelInFlight, Unwound
<1>. QED
  BY <1>5, <1>6, <1>7, <1>8, <1>9, <1>10, <1>11 DEF Next, LoopStep

\* In the default mode no turn begins while the reply-to resume one of its
\* messages asked for is still pending, also when another reply arrives while
\* resume_session runs.
THEOREM ResumeFiredInDefaultMode ==
  ASSUME ~CancelOnNew
  PROVE  Spec => []ResumeFiredBeforeTurn
<1>1. ResumeInv => ResumeFiredBeforeTurn
  BY DEF ResumeInv
<1>2. ResumeInv /\ [Next]_vars => ResumeInv'
  BY StepResume
<1>. QED
  BY <1>1, <1>2, InitResume, PTL DEF Spec
=============================================================================

------------------------------ MODULE PoolTurns ------------------------------
(***************************************************************************)
(* One conversation pool of the hub: its inbox, the process_loop task that  *)
(* consumes it, the agent tasks (turns) that loop creates, the inbox        *)
(* waiters of cancel-in-flight mode, /stop, reply-to session resume, and    *)
(* the scope's outbound queue as far as a turn depends on it.               *)
(*                                                                         *)
(* Granularity: one action is what an asyncio task runs between two         *)
(* suspension points.  Messages are numbered in order of submission.  The   *)
(* order in which asyncio wakes several getters of one queue is left open.  *)
(* A definition A_Word is a deliberate fault in A, used to show that the    *)
(* properties notice it; no specification uses it.                          *)
(***************************************************************************)
EXTENDS Naturals, Sequences

CONSTANTS
    MaxMsgs,      \* bound: messages submitted to the pool
    MaxStops,     \* bound: /stop commands
    CancelOnNew,  \* pool.cancel_on_new_message
    Streaming,    \* agent.process returns an async iterator, not a Response
    TurnTimeout,  \* pool._turn_timeout is set
    Crashes       \* an exception outside the pool-turn errors may be raised

ASSUME PoolAssumption ==
    /\ MaxMsgs \in Nat \ {0} /\ MaxStops \in Nat
    /\ CancelOnNew \in BOOLEAN /\ Streaming \in BOOLEAN
    /\ TurnTimeout \in BOOLEAN /\ Crashes \in BOOLEAN

Msgs == 1 .. MaxMsgs
\* Every turn takes at least one message nobody took before, so there are at
\* most MaxMsgs turns and the bound in StartTurn is never what stops a run.
TurnIds == 1 .. MaxMsgs

VARIABLES
    submitted,   \* how many messages were submitted
    inbox,       \* pool._inbox
    lpc,         \* where process_loop is suspended; "none": no live task
    lstop,       \* a CancelledError will be thrown at process_loop's next step
    buf,         \* the loop's buffer of collected messages
    newMsg,      \* the message that interrupted the current turn, 0 if none
    last,        \* turn whose message is process_loop's _last_msg, 0 if none
    turn,        \* number of agent tasks created; the loop awaits the latest
    msgsOf,      \* messages merged into each turn
    phase,       \* where each agent task is suspended
    ending,      \* how each agent task ends
    kill,        \* cancel() was requested on the agent task
    waiter,      \* inbox_waiter task of each turn
    held,        \* the message an inbox_waiter took
    pending,     \* pool._pending_session_id, by the message that asked for it
    resuming,    \* the loop's _pending while resume_session runs, 0 if none
    session,     \* backend session, by the message whose reply-to resumed it
    outbox,      \* replies of this scope queued in the outbound dispatcher
    sending,     \* the head of outbox is being delivered
    inflight,    \* pool._inflight_stream_outbound, by its turn
    superseded,  \* turns whose outbound carries the _superseded mark
    stops,       \* /stop commands so far
    dropped,     \* history: messages the code discards
    answered,    \* history: turns whose answer reached the adapter
    stopped      \* history: turns in progress when a /stop was issued

inVars == <<submitted, inbox, pending>>
loopVars == <<lpc, lstop, buf, newMsg, last, resuming>>
turnVars == <<turn, msgsOf, phase, ending, kill>>
waitVars == <<waiter, held>>
outVars == <<outbox, sending, inflight, superseded, answered>>
stopVars == <<stops, stopped>>
vars == <<inVars, loopVars, turnVars, waitVars, outVars, stopVars,
          session, dropped>>

Item == [turn : TurnIds, kind : {"answer", "stream", "error", "notice"}]
LoopPcs == {"none", "ready", "collect", "resume", "turn", "reap", "unwind",
            "follow", "notice"}
Phases == {"unborn", "open", "work", "post", "reset", "close", "done"}

InTypes ==
    /\ submitted \in 0 .. MaxMsgs
    /\ inbox \in Seq(Msgs)
    /\ pending \in Msgs \cup {0}
LoopTypes ==
    /\ lpc \in LoopPcs /\ lstop \in BOOLEAN
    /\ buf \in Seq(Msgs)
    /\ newMsg \in Msgs \cup {0} /\ resuming \in Msgs \cup {0}
    /\ last \in TurnIds \cup {0}
TurnTypes ==
    /\ turn \in 0 .. MaxMsgs
    /\ msgsOf \in [TurnIds -> Seq(Msgs)]
    /\ phase \in [TurnIds -> Phases]
    /\ ending \in [TurnIds -> {"ok", "cancelled", "crash"}]
    /\ kill \in [TurnIds -> BOOLEAN]
WaitTypes ==
    /\ waiter \in [TurnIds -> {"none", "waiting", "got", "cancelled"}]
    /\ held \in [TurnIds -> Msgs \cup {0}]
OutTypes ==
    /\ outbox \in Seq(Item) /\ sending \in BOOLEAN
    /\ inflight \in TurnIds \cup {0}
    /\ superseded \in SUBSET TurnIds /\ answered \in SUBSET TurnIds
StopTypes ==
    /\ stops \in 0 .. MaxStops
    /\ stopped \in SUBSET TurnIds
    /\ dropped \in SUBSET Msgs /\ session \in Msgs \cup {0}

\* Type invariant.
TypeOK ==
    /\ InTypes /\ LoopTypes /\ TurnTypes /\ WaitTypes /\ OutTypes /\ StopTypes

Init ==
    /\ submitted = 0 /\ inbox = <<>> /\ pending = 0
    /\ lpc = "none" /\ lstop = FALSE /\ buf = <<>> /\ newMsg = 0 /\ last = 0
    /\ turn = 0
    /\ msgsOf = [k \in TurnIds |-> <<>>]
    /\ phase = [k \in TurnIds |-> "unborn"]
    /\ ending = [k \in TurnIds |-> "ok"]
    /\ kill = [k \in TurnIds |-> FALSE]
    /\ waiter = [k \in TurnIds |-> "none"] /\ held = [k \in TurnIds |-> 0]
    /\ outbox = <<>> /\ sending = FALSE /\ inflight = 0 /\ superseded = {}
    /\ answered = {} /\ session = 0 /\ resuming = 0
    /\ stops = 0 /\ stopped = {} /\ dropped = {}

Live(k) == phase[k] \notin {"unborn", "done"}
Idle == lpc = "none"                                          \* pool.is_idle
Elems(s) == {s[i] : i \in 1 .. Len(s)}
Enqueue(k, kind) == outbox' = Append(outbox, [turn |-> k, kind |-> kind])

(***************************************************************************)
(* The hub's side: submit, reply-to, /stop.                                 *)
(***************************************************************************)
\* Fault: submit does not look whether a process_loop is running.
Submit_AlwaysStarts ==
    /\ submitted < MaxMsgs
    /\ submitted' = submitted + 1
    /\ inbox' = Append(inbox, submitted + 1)
    /\ lpc' = "ready" /\ last' = 0

Submit ==
    /\ submitted < MaxMsgs
    /\ submitted' = submitted + 1
    /\ inbox' = Append(inbox, submitted + 1)
    /\ lpc' = IF Idle THEN "ready" ELSE lpc
    /\ last' = IF Idle THEN 0 ELSE last

SubmitPlain ==
    /\ Submit
    /\ UNCHANGED <<pending, lstop, buf, newMsg, resuming, turnVars, waitVars, outVars,
                   session, stopVars, dropped>>

\* pool.resume_session: accepted or rejected by the backend.
ResumeSession(m) == session' \in {session, m}

\* Fault: the busy check before resume_session is missing.
SubmitReply_EvenWhenBusy ==
    /\ Submit
    /\ ResumeSession(submitted + 1)
    /\ UNCHANGED <<pending, lstop, buf, newMsg, resuming, turnVars, waitVars,
                   outVars, stopVars, dropped>>

\* The message replies to an older one: resume that message's session now if
\* the pool is idle, else leave the session for process_loop.
SubmitReply ==
    /\ Submit
    /\ \/ /\ Idle
          /\ ResumeSession(submitted + 1)
          /\ UNCHANGED pending
       \/ /\ ~Idle
          /\ pending' = submitted + 1
          /\ UNCHANGED session
    /\ UNCHANGED <<lstop, buf, newMsg, resuming, turnVars, waitVars, outVars,
                   stopVars, dropped>>

\* The backend still works on turn k's answer.
InProgress(k) ==
    \/ phase[k] \in {"open", "work"}
    \/ k \notin superseded
       /\ [turn |-> k, kind |-> "stream"] \in Elems(outbox)

\* asyncio's Task.cancel() on the loop task: it cancels the task the loop
\* directly awaits, else the CancelledError is thrown into the loop itself.
\* In "reap" and "unwind" the loop suppresses the CancelledError.
AwaitsTurn == (lpc = "turn" /\ ~CancelOnNew) \/ lpc = "unwind"
\* Fault: the loop shields the agent task it awaits.
CancelLoop_LeavesAgent ==
    /\ lstop' = (lpc \in {"ready", "collect", "resume", "follow"})
    /\ lpc' = IF lpc \in {"turn", "notice"} THEN "none" ELSE lpc
    /\ UNCHANGED kill

CancelLoop ==
    /\ kill' = IF AwaitsTurn /\ phase[turn] # "done"
               THEN [kill EXCEPT ![turn] = TRUE] ELSE kill
    /\ lstop' = \/ lstop
                \/ lpc \in {"ready", "collect", "resume", "follow"}
                \/ lpc = "turn" /\ (CancelOnNew \/ phase[turn] = "done")
    /\ lpc' = IF lpc = "notice" THEN "none" ELSE lpc

Stop ==
    /\ stops < MaxStops
    /\ stops' = stops + 1
    /\ stopped' = stopped \cup {k \in TurnIds : InProgress(k)}
    /\ IF Idle THEN UNCHANGED <<lpc, lstop, kill>> ELSE CancelLoop
    /\ UNCHANGED <<inVars, buf, newMsg, last, resuming, turn, msgsOf, phase, ending,
                   waitVars, outVars, session, dropped>>

(***************************************************************************)
(* The agent task: guarded_process_one.                                     *)
(***************************************************************************)
OpenJob(k) ==
    /\ phase[k] = "open" /\ ~kill[k]
    /\ phase' = [phase EXCEPT ![k] = "work"]
    /\ UNCHANGED <<inVars, loopVars, turn, msgsOf, ending, kill, waitVars,
                   outVars, session, stopVars, dropped>>

\* The agent returned; its Response or its (still unconsumed) iterator is put
\* on the outbound queue.
Answer(k) ==
    /\ phase[k] = "work" /\ ~kill[k]
    /\ phase' = [phase EXCEPT ![k] = "post"]
    /\ Enqueue(k, IF Streaming THEN "stream" ELSE "answer")
    /\ inflight' = IF Streaming THEN k ELSE inflight
    /\ UNCHANGED <<inVars, loopVars, turn, msgsOf, ending, kill, waitVars,
                   sending, superseded, answered, session, stopVars, dropped>>

Finish(k, how) ==
    /\ phase' = [phase EXCEPT ![k] = "close"]
    /\ ending' = [ending EXCEPT ![k] = how]

PostDone(k) ==
    /\ phase[k] = "post" /\ ~kill[k]
    /\ Finish(k, "ok")
    /\ UNCHANGED <<inVars, loopVars, turn, msgsOf, kill, waitVars, outVars,
                   session, stopVars, dropped>>

\* A pool-turn error, before or after the answer was dispatched: generic reply.
Fail(k) ==
    /\ phase[k] \in {"work", "post"} /\ ~kill[k]
    /\ Finish(k, "ok")
    /\ Enqueue(k, "error")
    /\ UNCHANGED <<inVars, loopVars, turn, msgsOf, kill, waitVars, sending,
                   inflight, superseded, answered, session, stopVars, dropped>>

TimeOut(k) ==
    /\ TurnTimeout
    /\ phase[k] \in {"work", "post"} /\ ~kill[k]
    /\ phase' = [phase EXCEPT ![k] = "reset"]
    /\ UNCHANGED <<inVars, loopVars, turn, msgsOf, ending, kill, waitVars,
                   outVars, session, stopVars, dropped>>

ResetBackend(k) ==
    /\ phase[k] = "reset" /\ ~kill[k]
    /\ Finish(k, "ok")
    /\ Enqueue(k, "error")
    /\ UNCHANGED <<inVars, loopVars, turn, msgsOf, kill, waitVars, sending,
                   inflight, superseded, answered, session, stopVars, dropped>>

Crash(k) ==
    /\ Crashes
    /\ phase[k] \in {"work", "post", "reset"} /\ ~kill[k]
    /\ Finish(k, "crash")
    /\ UNCHANGED <<inVars, loopVars, turn, msgsOf, kill, waitVars, outVars,
                   session, stopVars, dropped>>

CloseJob(k) ==
    /\ phase[k] = "close" /\ ~kill[k]
    /\ phase' = [phase EXCEPT ![k] = "done"]
    /\ UNCHANGED <<inVars, loopVars, turn, msgsOf, ending, kill, waitVars,
                   outVars, session, stopVars, dropped>>

\* Fault: the agent task swallows the CancelledError and goes on.
Unwind_Swallows(k) ==
    /\ Live(k) /\ kill[k]
    /\ kill' = [kill EXCEPT ![k] = FALSE]
    /\ UNCHANGED <<inVars, loopVars, turn, msgsOf, phase, ending, waitVars,
                   outVars, session, stopVars, dropped>>

\* CancelledError in the agent task: the finally clause closes the job, unless
\* the task was still opening it or already closing it.
Unwind(k) ==
    /\ Live(k) /\ kill[k]
    /\ kill' = [kill EXCEPT ![k] = FALSE]
    /\ ending' = [ending EXCEPT ![k] = "cancelled"]
    /\ phase' = [phase EXCEPT ![k] =
                    IF @ \in {"open", "close"} THEN "done" ELSE "close"]
    /\ UNCHANGED <<inVars, loopVars, turn, msgsOf, waitVars, outVars,
                   session, stopVars, dropped>>

AgentStep(k) ==
    \/ OpenJob(k) \/ Answer(k) \/ PostDone(k) \/ Fail(k) \/ TimeOut(k)
    \/ ResetBackend(k) \/ Crash(k) \/ CloseJob(k) \/ Unwind(k)

\* inbox_waiter: Queue.get() of turn k's race.
WaiterTakes(k) ==
    /\ waiter[k] = "waiting" /\ inbox # <<>>
    /\ waiter' = [waiter EXCEPT ![k] = "got"]
    /\ held' = [held EXCEPT ![k] = Head(inbox)]
    /\ inbox' = Tail(inbox)
    /\ UNCHANGED <<submitted, pending, loopVars, turnVars, outVars, session,
                   stopVars, dropped>>

(***************************************************************************)
(* process_loop and _process_with_cancel.                                   *)
(***************************************************************************)
\* Fault: one message is collected, the rest of the inbox is cleared.
NextRound_TakesOne(inb) ==
    /\ newMsg' = 0
    /\ inbox' = <<>>
    /\ buf' = IF inb = <<>> THEN <<>> ELSE <<Head(inb)>>
    /\ lpc' = IF inb = <<>> THEN "none" ELSE "collect"

\* Top of the while loop: leave when the inbox is empty, else collect().
NextRound(inb) ==
    /\ newMsg' = 0
    /\ inbox' = <<>>
    /\ buf' = inb
    /\ lpc' = IF inb = <<>> THEN "none" ELSE "collect"

LoopStart ==
    /\ lpc = "ready" /\ ~lstop
    /\ NextRound(inbox)
    /\ UNCHANGED <<resuming, submitted, pending, lstop, last, turnVars, waitVars, outVars,
                   session, stopVars, dropped>>

\* The debounce window is still open: collect() or drain_followups().
CollectMore ==
    /\ lpc \in {"collect", "follow"} /\ ~lstop /\ inbox # <<>>
    /\ buf' = buf \o inbox
    /\ inbox' = <<>>
    /\ UNCHANGED <<resuming, submitted, pending, lpc, lstop, newMsg, last, turnVars,
                   waitVars, outVars, session, stopVars, dropped>>

\* Create the agent task for the merged buffer (and its inbox waiter).
StartTurn ==
    /\ turn < MaxMsgs
    /\ turn' = turn + 1
    /\ msgsOf' = [msgsOf EXCEPT ![turn + 1] = buf]
    /\ phase' = [phase EXCEPT ![turn + 1] = "open"]
    /\ waiter' = IF CancelOnNew
                 THEN [waiter EXCEPT ![turn + 1] = "waiting"] ELSE waiter
    /\ lpc' = "turn"
    /\ UNCHANGED <<ending, kill, held, buf>>

\* No agent of that name is registered: buffer and inbox are discarded.
NoAgent ==
    /\ lpc' = "none"
    /\ dropped' = dropped \cup Elems(buf) \cup Elems(inbox)
    /\ inbox' = <<>> /\ buf' = <<>>
    /\ UNCHANGED <<last, turnVars, waitVars>>

FirstTurn ==
    \/ StartTurn /\ last' = turn + 1 /\ UNCHANGED <<inbox, dropped>>
    \/ NoAgent

\* Fault: the pending reply-to resume is not fired.
CollectDone_SkipsResume ==
    /\ lpc = "collect" /\ ~lstop
    /\ FirstTurn
    /\ UNCHANGED <<submitted, pending, resuming, lstop, newMsg, outVars,
                   session, stopVars>>

CollectDone ==
    /\ lpc = "collect" /\ ~lstop
    /\ \/ /\ pending # 0
          /\ lpc' = "resume"
          /\ resuming' = pending
          /\ UNCHANGED <<inbox, buf, last, dropped, turnVars, waitVars>>
       \/ pending = 0 /\ FirstTurn /\ UNCHANGED resuming
    /\ pending' = 0
    /\ UNCHANGED <<submitted, lstop, newMsg, outVars, session, stopVars>>

\* resume_session returned: accepted or rejected, then on to the agent.
Resumed ==
    /\ lpc = "resume" /\ ~lstop
    /\ ResumeSession(resuming)
    /\ resuming' = 0
    /\ FirstTurn
    /\ UNCHANGED <<submitted, pending, lstop, newMsg, outVars, stopVars>>

\* The re-dispatch of a cancel-in-flight does not go back to the loop's top.
FollowDone ==
    /\ lpc = "follow" /\ ~lstop
    /\ StartTurn
    /\ UNCHANGED <<resuming, inVars, lstop, newMsg, last, outVars, session, stopVars,
                   dropped>>

LoseBuffer == dropped' = dropped \cup Elems(buf) \cup ({newMsg} \ {0})

\* The CancelledError handler of process_loop, and its finally clause.
RaiseCancelled ==
    /\ lstop' = FALSE
    /\ newMsg' = 0 /\ buf' = <<>>
    /\ last' = 0
    /\ IF last = 0
       THEN lpc' = "none" /\ UNCHANGED outbox
       ELSE lpc' = "notice" /\ Enqueue(last, "notice")

\* Let-it-finish mode: `await agent_task` returned or raised.
TurnReturned ==
    /\ lpc = "turn" /\ ~CancelOnNew /\ phase[turn] = "done"
    /\ \/ /\ ending[turn] = "cancelled" \/ lstop
          /\ RaiseCancelled
          /\ UNCHANGED inbox
       \/ /\ ending[turn] = "crash" /\ ~lstop
          /\ lpc' = "none" /\ newMsg' = 0 /\ buf' = <<>> /\ last' = 0
          /\ UNCHANGED <<inbox, lstop, outbox>>
       \/ /\ ending[turn] = "ok" /\ ~lstop
          /\ NextRound(inbox)
          /\ last' = turn
          /\ UNCHANGED <<lstop, outbox>>
    /\ UNCHANGED <<resuming, submitted, pending, turnVars, waitVars, sending, inflight,
                   superseded, answered, session, stopVars, dropped>>

\* Fault: the message the inbox waiter took is not put back.
RaceAgentDone_LosesMessage ==
    /\ lpc = "turn" /\ CancelOnNew /\ ~lstop /\ phase[turn] = "done"
    /\ waiter' = [waiter EXCEPT ![turn] = "cancelled"]
    /\ held' = [held EXCEPT ![turn] = 0]
    /\ NextRound(inbox)
    /\ last' = turn
    /\ UNCHANGED <<resuming, submitted, pending, lstop, turnVars, outVars,
                   session, stopVars, dropped>>

\* Cancel-in-flight mode: asyncio.wait() saw the agent task done.
RaceAgentDone ==
    /\ lpc = "turn" /\ CancelOnNew /\ ~lstop /\ phase[turn] = "done"
    /\ \/ /\ waiter[turn] = "waiting"
          /\ waiter' = [waiter EXCEPT ![turn] = "cancelled"]
          /\ lpc' = "reap"
          /\ UNCHANGED <<inbox, held, newMsg, buf, last>>
       \/ /\ waiter[turn] = "got"
          /\ waiter' = [waiter EXCEPT ![turn] = "cancelled"]
          /\ held' = [held EXCEPT ![turn] = 0]
          /\ NextRound(Append(inbox, held[turn]))
          /\ last' = turn
    /\ UNCHANGED <<resuming, submitted, pending, lstop, turnVars, outVars, session,
                   stopVars, dropped>>

\* `await inbox_waiter` of the cancelled waiter returned.
Reaped ==
    /\ lpc = "reap"
    /\ NextRound(inbox)
    /\ last' = turn
    /\ UNCHANGED <<resuming, submitted, pending, lstop, turnVars, waitVars, outVars,
                   session, stopVars, dropped>>

\* asyncio.wait() saw only the new message: supersede, cancel, await the agent.
CancelInFlight ==
    /\ lpc = "turn" /\ CancelOnNew /\ ~lstop
    /\ phase[turn] # "done" /\ waiter[turn] = "got"
    /\ newMsg' = held[turn]
    /\ held' = [held EXCEPT ![turn] = 0]
    /\ waiter' = [waiter EXCEPT ![turn] = "cancelled"]
    /\ superseded' = superseded \cup ({inflight} \ {0})
    /\ inflight' = 0
    /\ kill' = [kill EXCEPT ![turn] = TRUE]
    /\ lpc' = "unwind"
    /\ UNCHANGED <<resuming, inVars, lstop, buf, last, turn, msgsOf, phase, ending,
                   outbox, sending, answered, session, stopVars, dropped>>

\* Fault: the loop does not await the cancelled agent task.
Unwound_AtOnce ==
    /\ lpc = "unwind"
    /\ lpc' = "follow"
    /\ buf' = Append(buf, newMsg)
    /\ newMsg' = 0
    /\ UNCHANGED <<resuming, inVars, lstop, last, turnVars, waitVars, outVars,
                   session, stopVars, dropped>>

\* The cancelled agent task is done: collect follow-ups, or die with its error.
Unwound ==
    /\ lpc = "unwind" /\ phase[turn] = "done"
    /\ \/ /\ ending[turn] # "crash"
          /\ lpc' = "follow"
          /\ buf' = Append(buf, newMsg)
          /\ UNCHANGED <<dropped, last>>
       \/ /\ ending[turn] = "crash"
          /\ lpc' = "none" /\ buf' = <<>> /\ last' = 0
          /\ LoseBuffer
    /\ newMsg' = 0
    /\ UNCHANGED <<resuming, inVars, lstop, turnVars, waitVars, outVars, session,
                   stopVars>>

\* CancelledError thrown into the loop itself.
LoopCancelled ==
    /\ lstop /\ ~(lpc = "turn" /\ ~CancelOnNew)
    /\ RaiseCancelled
    /\ IF lpc = "turn" THEN UNCHANGED dropped ELSE LoseBuffer
    /\ resuming' = 0
    /\ UNCHANGED <<inVars, turnVars, waitVars, sending, inflight, superseded,
                   answered, session, stopVars>>

\* The shielded safe_dispatch of the notice returned.
LoopExit ==
    /\ lpc = "notice"
    /\ lpc' = "none"
    /\ UNCHANGED <<resuming, inVars, lstop, buf, newMsg, last, turnVars, waitVars,
                   outVars, session, stopVars, dropped>>

LoopStep ==
    \/ LoopStart \/ CollectMore \/ CollectDone \/ Resumed \/ FollowDone
    \/ TurnReturned \/ RaceAgentDone \/ Reaped \/ CancelInFlight \/ Unwound
    \/ LoopCancelled \/ LoopExit

(***************************************************************************)
(* The scope's outbound queue, one item at a time under the scope lock.     *)
(***************************************************************************)
SkipSend ==
    Head(outbox).kind = "stream" /\ Head(outbox).turn \in superseded

StartSend ==
    /\ outbox # <<>> /\ ~sending /\ ~SkipSend
    /\ sending' = TRUE
    /\ UNCHANGED <<inVars, loopVars, turnVars, waitVars, outbox, inflight,
                   superseded, answered, session, stopVars, dropped>>

\* Delivered, or drained without sending when superseded; the _on_dispatched
\* callback of a stream clears pool._inflight_stream_outbound.
FinishSend ==
    /\ outbox # <<>> /\ (sending \/ SkipSend)
    /\ sending' = FALSE
    /\ outbox' = Tail(outbox)
    /\ answered' = IF sending /\ Head(outbox).kind \in {"answer", "stream"}
                   THEN answered \cup {Head(outbox).turn} ELSE answered
    /\ inflight' = IF Head(outbox).kind = "stream"
                      /\ inflight = Head(outbox).turn
                   THEN 0 ELSE inflight
    /\ UNCHANGED <<inVars, loopVars, turnVars, waitVars, superseded, session,
                   stopVars, dropped>>

Next ==
    \/ SubmitPlain \/ SubmitReply \/ Stop
    \/ \E k \in TurnIds : AgentStep(k) \/ WaiterTakes(k)
    \/ LoopStep
    \/ StartSend \/ FinishSend

(***************************************************************************)
(* Every ready asyncio task is run by the event loop.  The agent's own work *)
(* is bounded only by the turn timeout, so no fairness on Answer and Fail.  *)
(***************************************************************************)
Fairness ==
    /\ WF_vars(LoopStep)
    /\ \A k \in TurnIds :
         /\ WF_vars(WaiterTakes(k))
         /\ WF_vars(OpenJob(k) \/ PostDone(k) \/ ResetBackend(k)
                    \/ CloseJob(k) \/ Unwind(k) \/ TimeOut(k))

Spec == Init /\ [][Next]_vars
FairSpec == Spec /\ Fairness

(***************************************************************************)
(* Properties.                                                              *)
(***************************************************************************)
\* README: "Sequential per scope (asyncio.Task)": two agent tasks of one pool
\* are never live at once.
OneTurnAtATime ==
    \A j, k \in TurnIds : Live(j) /\ Live(k) => j = k

\* A live agent task is always the one its process_loop awaits, so that
\* Pool.cancel() can reach it and is_idle does not lie.
NoOrphanTurn ==
    \A k \in TurnIds : Live(k) => k = turn /\ lpc \in {"turn", "unwind"}

\* No submitted message vanishes: it is queued, in somebody's hands, in a
\* turn, or was explicitly discarded.
MessagesAccountedFor ==
    \A m \in 1 .. submitted :
        \/ m \in Elems(inbox) \cup Elems(buf) \cup {newMsg} \cup dropped
        \/ \E k \in TurnIds : held[k] = m \/ m \in Elems(msgsOf[k])

\* /stop cancels the turn being processed: a turn the backend was still
\* working on when /stop was issued never delivers its answer.
StoppedTurnStaysSilent == stopped \cap answered = {}

\* "Fire any pending reply-to session resume before processing": no turn
\* starts while the resume asked for by one of its messages is still pending.
ResumeFiredBeforeTurn ==
    \A k \in TurnIds : phase[k] = "open" => pending \notin Elems(msgsOf[k])

\* The backend session is never switched under a running agent task.
SessionStableDuringTurn ==
    [][session' # session => \A k \in TurnIds : ~Live(k)]_vars

\* "Any messages that arrive during processing queue naturally in pool._inbox
\* and are picked up by the next process_loop() iteration"
\* (_process_with_cancel): one that is not there yet while a turn is processed,
\* and then waits in the inbox while a turn is, does not stay in it.
QueuedArePickedUp ==
    \A m \in Msgs :
        [](lpc = "turn" /\ submitted < m =>
             []((lpc = "turn" /\ m \in Elems(inbox)) => <>(m \notin Elems(inbox))))

\* Every submitted message is part of a turn that runs to its end, unless it
\* was discarded, a /stop was issued or an unexpected exception ended a loop.
Served(m) ==
    \E k \in TurnIds :
        m \in Elems(msgsOf[k]) /\ phase[k] = "done" /\ ending[k] # "cancelled"
EveryMessageServed ==
    \A m \in Msgs : (m <= submitted) ~>
        \/ Served(m) \/ m \in dropped
        \/ stops > 0 \/ \E k \in TurnIds : ending[k] = "crash"

\* The pool in its default mode implements the sequential service of a scope.
Waiting == (IF lpc \in {"collect", "resume"} THEN buf ELSE <<>>) \o inbox
Serving == IF turn # 0 /\ Live(turn) THEN msgsOf[turn] ELSE <<>>
Scope == INSTANCE ScopeQueue
             WITH arrived <- submitted, waiting <- Waiting, serving <- Serving
ScopeSpec == Scope!Spec
=============================================================================

---------------------------- MODULE CircuitTurns ----------------------------
(***************************************************************************)
(* The claude-cli circuit as the turns of the hub use it.  Two layers call   *)
(* is_open() for one turn: circuit_breaker_drop when the message enters the  *)
(* hub, and CircuitBreakerDecorator when the agent reaches the provider.     *)
(* Two layers record: the decorator, and record_circuit_success once the     *)
(* pool has the agent's answer (or its still unconsumed stream).             *)
(***************************************************************************)
EXTENDS CircuitBreaker

CONSTANTS
    Turns,       \* turns of different scopes, so they run concurrently
    Streams      \* those whose agent returns an async iterator, not a Response

ASSUME CircuitTurnsAssumption ==
    Streams \subseteq Turns

VARIABLES
    pc,        \* where each turn is
    probers,   \* history: provider calls begun in the current HALF_OPEN period
    stolen,    \* history: a cancelled stream freed the slot of another's probe
    leaked     \* history: a turn was lost while the probe slot was taken

vars == <<cbVars, pc, probers, stolen, leaked>>

Init ==
    /\ CBInit
    /\ pc = [t \in Turns |-> "new"] /\ probers = {}
    /\ stolen = FALSE /\ leaked = FALSE

TypeOK ==
    /\ CBTypeOK
    /\ pc \in [Turns -> {"new", "refused", "queued", "outbox", "calling",
                         "returned", "done", "gone"}]
    /\ probers \in SUBSET Turns
    /\ stolen \in BOOLEAN /\ leaked \in BOOLEAN

Goto(t, p) == pc' = [pc EXCEPT ![t] = p]
ProbersAfter(S) == probers' = IF state' = "HALF_OPEN" THEN S ELSE {}
Harmless == UNCHANGED <<stolen, leaked>>

\* circuit_breaker_drop: the message is refused with a fast-fail reply, or
\* goes on to its pool.
Gate(t) ==
    /\ pc[t] = "new"
    /\ \/ Reject /\ Goto(t, "refused")
       \/ Admit /\ Goto(t, "queued")
    /\ ProbersAfter(probers) /\ Harmless

\* The message never reaches the provider: /stop before its turn, no agent of
\* that name, merged into another message's turn, stream never consumed.
Lose(t) ==
    /\ pc[t] \in {"queued", "outbox"}
    /\ Goto(t, "gone")
    /\ leaked' = (leaked \/ probe)
    /\ UNCHANGED <<cbVars, probers, stolen>>

\* process_streaming: the iterator is enqueued and success recorded at once.
EnqueueStream(t) ==
    /\ t \in Streams /\ pc[t] = "queued"
    /\ RecordSuccess
    /\ Goto(t, "outbox")
    /\ ProbersAfter({}) /\ Harmless

\* The decorator asks the circuit again, then contacts the provider or answers
\* with an error result of its own.
CallProvider(t) ==
    /\ pc[t] = IF t \in Streams THEN "outbox" ELSE "queued"
    /\ \/ /\ Reject
          /\ Goto(t, IF t \in Streams THEN "done" ELSE "returned")
          /\ ProbersAfter(probers)
       \/ /\ Admit
          /\ Goto(t, "calling")
          /\ ProbersAfter(probers \cup {t})
    /\ Harmless

Returned(t) == Goto(t, IF t \in Streams THEN "done" ELSE "returned")

ProviderOk(t) ==
    /\ pc[t] = "calling"
    /\ RecordSuccess
    /\ Returned(t)
    /\ ProbersAfter(probers \ {t}) /\ Harmless

ProviderFails(t) ==
    /\ pc[t] = "calling"
    /\ RecordFailure
    /\ Returned(t)
    /\ ProbersAfter(probers \ {t}) /\ Harmless

\* The call is cancelled: stream() releases the probe slot, complete() and its
\* callers record nothing.
CallCancelled(t) ==
    /\ pc[t] = "calling"
    /\ \/ /\ t \in Streams
          /\ ReleaseProbe
          /\ stolen' = (stolen \/ probers \ {t} # {})
          /\ UNCHANGED leaked
       \/ /\ t \notin Streams
          /\ leaked' = (leaked \/ probe)
          /\ UNCHANGED <<cbVars, stolen>>
    /\ Goto(t, "gone")
    /\ ProbersAfter(probers \ {t})

\* process_non_streaming: whatever Response the agent made of the result.
DispatchResponse(t) ==
    /\ pc[t] = "returned"
    /\ RecordSuccess
    /\ Goto(t, "done")
    /\ ProbersAfter(probers) /\ Harmless

RecoveryElapses == Elapse /\ UNCHANGED <<pc, probers, stolen, leaked>>

Step(t) ==
    \/ Gate(t) \/ Lose(t) \/ EnqueueStream(t) \/ CallProvider(t)
    \/ ProviderOk(t) \/ ProviderFails(t) \/ CallCancelled(t)
    \/ DispatchResponse(t)

Next == RecoveryElapses \/ \E t \in Turns : Step(t)

(***************************************************************************)
(* Messages keep arriving, the event loop runs every ready task, a provider *)
(* call ends (CliPool and the clients have timeouts of their own).          *)
(***************************************************************************)
Fairness ==
    /\ WF_vars(RecoveryElapses)
    /\ \A t \in Turns : WF_vars(Step(t))

Spec == Init /\ [][Next]_vars
FairSpec == Spec /\ Fairness

\* A caller in HALF_OPEN is let through only while no probe is in flight: at
\* most one provider call of a HALF_OPEN period is running, unless a stream of
\* an earlier period, cancelled late, has freed the running probe's slot.
OneProbeInFlight == stolen \/ \A s, t \in probers : s = t

\* A HALF_OPEN period ends: its probe slot is not held for ever, unless a turn
\* that may hold it never reached the provider or was cancelled there.
HalfOpenEnds ==
    state = "HALF_OPEN" ~> (state # "HALF_OPEN" \/ ~probe \/ leaked)
=============================================================================

--------------------------- MODULE RemoteStreams ---------------------------
(***************************************************************************)
(* How a streamed reply reaches a remote platform adapter: the hub's       *)
(* NatsChannelProxy publishes it as a stream_start, one envelope per render *)
(* event, keepalives and a stream_end (or a stream_error), and the          *)
(* adapter's NatsOutboundListener queues the envelopes of each stream for   *)
(* one drain task, which calls adapter.send_streaming.                      *)
(*                                                                         *)
(* A stream is named by the inbound message it answers.  Core NATS keeps    *)
(* the publisher's order and delivers at most once.  One action is what a   *)
(* task runs between two suspension points; the subscription callback       *)
(* handles one envelope at a time.                                          *)
(*                                                                         *)
(* Left out: seq (the adapter only logs a gap), malformed or newer          *)
(* payloads, attachments and legacy audio envelopes, publish_stream_errors  *)
(* (see the README), clocks: the 120 s idle timeout may fire whenever the   *)
(* queue is empty, the 600 s reapers at any time.                           *)
(* Bounds: Events of each reply, MaxWire envelopes in flight, MaxExtras    *)
(* keepalives and sends, MaxFaults lost envelopes, adapter restarts and     *)
(* replies that fail or are abandoned at the hub or fail on the platform.   *)
(* A definition A_Word is a deliberate fault in A.                          *)
(***************************************************************************)
EXTENDS Integers, Sequences, FiniteSets

CONSTANTS
  Streams,        \* ids of the inbound messages that get a streamed reply
  Marked,         \* those whose last event is run_finished or run_error
  Events,         \* how many render events each reply has
  MaxStreams,     \* MAX_STREAMS
  MaxQueue,       \* MAX_QUEUE_SIZE
  MaxTombs,       \* MAX_TERMINATED_STREAMS
  MaxWire, MaxExtras, MaxFaults

ASSUME RemoteStreamsAssumption ==
  /\ IsFiniteSet(Streams) /\ Marked \subseteq Streams
  /\ Events \in [Streams -> Nat]
  /\ MaxStreams \in Nat \ {0} /\ MaxQueue \in Nat \ {0}
  /\ MaxTombs \in Nat \ {0}
  /\ MaxWire \in Nat /\ MaxExtras \in Nat
  /\ MaxFaults \in Nat

VARIABLES
  hub,        \* how far send_streaming is with each reply
  sent,       \* events published of each reply
  wire,       \* envelopes published and not yet handled
  sending,    \* the message handle_send awaits adapter.send for, as a set
  cache,      \* InboundCache
  headers,    \* _stream_outbound
  originals,  \* _stream_original_msgs
  queue,      \* _stream_queues
  drain,      \* _stream_tasks: where each drain task is suspended
  tombs,      \* _terminated_streams
  shown,      \* history: events the platform adapter got of each reply
  started,    \* history: calls of adapter.send_streaming for each reply
  condemned,  \* history: replies that failed before their first event came
  forgotten,  \* history: condemned replies whose tombstone was evicted
  refused,    \* history: replies whose stream_start found MAX_STREAMS headers
  spoiled,    \* history: replies something went wrong with
  extras, faults

hubVars == <<hub, sent, extras>>
msgVars == <<cache, headers, originals>>
drainVars == <<queue, drain, shown, started>>
tombVars == <<tombs, condemned, forgotten>>
vars == <<hubVars, wire, sending, msgVars, drainVars, tombVars, refused,
          spoiled, faults>>

Kinds == {"start", "event", "keepalive", "end", "error", "send"}
Envelope == [stream : Streams, kind : Kinds, n : Nat]
Env(s, k) == [stream |-> s, kind |-> k, n |-> 0]
EventOf(s, n) == [stream |-> s, kind |-> "event", n |-> n]
Chunks == {"event", "keepalive", "end"}

\* Type invariant.
TypeOK ==
  /\ hub \in [Streams -> {"idle", "open", "failed", "done"}]
  /\ sent \in [Streams -> Nat]
  /\ wire \in Seq(Envelope)
  /\ sending \subseteq Streams
  /\ cache \subseteq Streams /\ headers \subseteq Streams
  /\ originals \subseteq Streams
  /\ queue \in [Streams -> Seq(Envelope)]
  /\ drain \in [Streams -> {"none", "created", "stream", "closing"}]
  /\ tombs \subseteq Streams
  /\ shown \in [Streams -> Seq(Nat)]
  /\ started \in [Streams -> Nat]
  /\ condemned \subseteq Streams /\ forgotten \subseteq Streams
  /\ refused \subseteq Streams /\ spoiled \subseteq Streams

\* The adapter caches an inbound message before it hands it to the hub.
Init ==
  /\ hub = [s \in Streams |-> "idle"] /\ sent = [s \in Streams |-> 0]
  /\ wire = <<>> /\ sending = {}
  /\ cache = Streams /\ headers = {} /\ originals = {}
  /\ queue = [s \in Streams |-> <<>>]
  /\ drain = [s \in Streams |-> "none"]
  /\ tombs = {} /\ condemned = {} /\ forgotten = {}
  /\ shown = [s \in Streams |-> <<>>] /\ started = [s \in Streams |-> 0]
  /\ refused = {} /\ spoiled = {}
  /\ extras = 0 /\ faults = 0

-----------------------------------------------------------------------------
(* The hub: NatsChannelProxy *)

Extra == extras < MaxExtras /\ extras' = extras + 1
Fault == faults < MaxFaults /\ faults' = faults + 1
Publish(m) == Len(wire) < MaxWire /\ wire' = Append(wire, m)
Spoil(S) == spoiled' = spoiled \cup S
HubStep == UNCHANGED <<sending, msgVars, drainVars, tombVars, refused>>

\* send_streaming's header.  Every caller passes an outbound; without one the
\* code would publish no header.
StreamStart(s) ==
  /\ hub[s] = "idle"
  /\ hub' = [hub EXCEPT ![s] = "open"]
  /\ Publish(Env(s, "start"))
  /\ UNCHANGED <<sent, extras, spoiled, faults>> /\ HubStep

PublishEvent(s) ==
  /\ hub[s] = "open" /\ sent[s] < Events[s]
  /\ sent' = [sent EXCEPT ![s] = @ + 1]
  /\ Publish(EventOf(s, sent[s] + 1))
  /\ UNCHANGED <<hub, extras, spoiled, faults>> /\ HubStep

\* The terminal sentinel is published whatever the last event was.
PublishEnd(s) ==
  /\ hub[s] = "open" /\ sent[s] = Events[s]
  /\ hub' = [hub EXCEPT ![s] = "done"]
  /\ Publish(Env(s, "end"))
  /\ UNCHANGED <<sent, extras, spoiled, faults>> /\ HubStep

\* The keepalive loop runs until send_streaming's finally clause, so also
\* while the iterator of a failed stream is drained.
Keepalive(s) ==
  /\ hub[s] \in {"open", "failed"} /\ Extra
  /\ Publish(Env(s, "keepalive"))
  /\ UNCHANGED <<hub, sent, spoiled, faults>> /\ HubStep

\* The iterator or a publish raises: publish_stream_error, whose own
\* transport errors are swallowed.
StreamFails(s) ==
  /\ Fault
  /\ hub[s] = "open"
  /\ hub' = [hub EXCEPT ![s] = "failed"]
  /\ \/ Publish(Env(s, "error"))
     \/ UNCHANGED wire
  /\ Spoil({s})
  /\ UNCHANGED <<sent, extras>> /\ HubStep

\* The iterator of a failed stream is exhausted.
Drained(s) ==
  /\ hub[s] = "failed"
  /\ hub' = [hub EXCEPT ![s] = "done"]
  /\ UNCHANGED <<sent, extras, wire, spoiled, faults>> /\ HubStep

\* The dispatching task is cancelled, or stream_start cannot be published:
\* neither a stream_end nor a stream_error follows.
Abandon(s) ==
  /\ Fault
  /\ hub[s] \in {"idle", "open"}
  /\ hub' = [hub EXCEPT ![s] = "done"]
  /\ Spoil({s})
  /\ UNCHANGED <<sent, extras, wire>> /\ HubStep

\* Another message for the same inbound one, before or after its stream: the
\* outbound dispatcher serializes the items of a scope.
Send(s) ==
  /\ hub[s] \in {"idle", "done"} /\ Extra
  /\ Publish(Env(s, "send"))
  /\ UNCHANGED <<hub, sent, spoiled, faults>> /\ HubStep

HubNext(s) ==
  \/ StreamStart(s) \/ PublishEvent(s) \/ PublishEnd(s) \/ Keepalive(s)
  \/ StreamFails(s) \/ Drained(s) \/ Abandon(s) \/ Send(s)

-----------------------------------------------------------------------------
(* The adapter's subscription callback: nats_envelope_handlers *)

Arrives(s, kinds) ==
  /\ sending = {} /\ wire # <<>>
  /\ Head(wire).stream = s /\ Head(wire).kind \in kinds
  /\ wire' = Tail(wire)

\* The embedded original_msg always resolves a send; its answer pops the
\* cache, a raising adapter.send does not.
HandleSend(s) ==
  /\ Arrives(s, {"send"})
  /\ sending' = {s}
  /\ UNCHANGED <<hubVars, msgVars, drainVars, tombVars, refused, spoiled,
                 faults>>

SendReturns(s) ==
  /\ s \in sending
  /\ sending' = {}
  /\ cache' \in {cache, cache \ {s}}
  /\ UNCHANGED <<hubVars, wire, headers, originals, drainVars, tombVars,
                 refused, spoiled, faults>>

HandleStreamStart(s) ==
  /\ Arrives(s, {"start"})
  /\ \/ /\ Cardinality(headers) >= MaxStreams
        /\ refused' = refused \cup {s}
        /\ UNCHANGED <<headers, originals>>
     \/ /\ Cardinality(headers) < MaxStreams
        /\ headers' = headers \cup {s}
        /\ originals' = originals \cup {s}
        /\ UNCHANGED refused
  /\ UNCHANGED <<hubVars, sending, cache, drainVars, tombVars, spoiled, faults>>

Live(s) == drain[s] # "none"
AtLimit == Cardinality({s \in Streams : Live(s)}) >= MaxStreams

\* A chunk of a terminated stream, of a new one beyond the limit, or for a
\* full queue is dropped; the first one accepted creates the drain task.
Accepted(s) ==
  /\ s \notin tombs
  /\ Live(s) \/ ~AtLimit
  /\ Len(queue[s]) < MaxQueue

HandleChunk(s) ==
  /\ Arrives(s, Chunks)
  /\ \/ /\ Accepted(s)
        /\ queue' = [queue EXCEPT ![s] = Append(@, Head(wire))]
        /\ drain' = [drain EXCEPT ![s] = IF Live(s) THEN @ ELSE "created"]
        /\ UNCHANGED spoiled
     \/ /\ ~Accepted(s)
        /\ Spoil(IF Head(wire).kind = "event" THEN {s} ELSE {})
        /\ UNCHANGED <<queue, drain>>
  /\ UNCHANGED <<hubVars, sending, msgVars, shown, started, tombVars, refused,
                 faults>>

\* remember_terminated: at the cap an entry, the oldest, is evicted.
Entomb(s) ==
  IF Cardinality(tombs \ {s}) < MaxTombs
  THEN tombs' = tombs \cup {s} /\ UNCHANGED forgotten
  ELSE \E t \in tombs \ {s} :
         /\ tombs' = (tombs \ {t}) \cup {s}
         /\ forgotten' = forgotten \cup ({t} \cap condemned)

\* Fault: the terminated stream is not remembered.
HandleStreamError_NoTombstone(s) ==
  /\ Arrives(s, {"error"})
  /\ queue' = [queue EXCEPT ![s] =
                 IF Live(s) /\ Len(@) < MaxQueue
                 THEN Append(@, Head(wire)) ELSE @]
  /\ IF Live(s) THEN UNCHANGED <<cache, headers, condemned>>
     ELSE /\ cache' = cache \ {s} /\ headers' = headers \ {s}
          /\ condemned' = IF s \in cache \cup headers
                          THEN condemned \cup {s} ELSE condemned
  /\ UNCHANGED <<hubVars, sending, originals, drain, shown, started, tombs,
                 forgotten, refused, spoiled, faults>>

\* An active stream gets a poison pill if its queue has room; one the adapter
\* only has a message or a header of loses those; an unknown one is ignored.
HandleStreamError(s) ==
  /\ Arrives(s, {"error"})
  /\ \/ /\ Live(s)
        /\ queue' = [queue EXCEPT ![s] = IF Len(@) < MaxQueue
                                         THEN Append(@, Head(wire)) ELSE @]
        /\ Entomb(s)
        /\ UNCHANGED <<cache, headers, condemned>>
     \/ /\ ~Live(s) /\ s \in cache \cup headers
        /\ Entomb(s)
        /\ condemned' = condemned \cup {s}
        /\ cache' = cache \ {s} /\ headers' = headers \ {s}
        /\ UNCHANGED queue
     \/ /\ ~Live(s) /\ s \notin cache \cup headers
        /\ UNCHANGED <<cache, headers, queue, tombVars>>
  /\ UNCHANGED <<hubVars, sending, originals, drain, shown, started, refused,
                 spoiled, faults>>

Handle(s) ==
  \/ HandleSend(s) \/ SendReturns(s) \/ HandleStreamStart(s)
  \/ HandleChunk(s) \/ HandleStreamError(s)

-----------------------------------------------------------------------------
(* The drain task: _drain_stream and decode_stream_events *)

DrainStep == UNCHANGED <<hubVars, wire, sending, refused>>

\* Fault: the original message is looked up in the cache only.
DrainStart_CacheOnly(s) ==
  /\ drain[s] = "created"
  /\ \/ /\ s \in cache
        /\ headers' = headers \ {s}
        /\ started' = [started EXCEPT ![s] = @ + 1]
        /\ drain' = [drain EXCEPT ![s] = "stream"]
        /\ UNCHANGED queue
     \/ /\ s \notin cache
        /\ queue' = [queue EXCEPT ![s] = <<>>]
        /\ drain' = [drain EXCEPT ![s] = "none"]
        /\ UNCHANGED <<headers, started>>
  /\ UNCHANGED <<cache, originals, shown, tombVars, spoiled, faults>> /\ DrainStep

\* The original message comes from the cache, else from the stream_start;
\* without one, what is queued is dropped.
DrainStart(s) ==
  /\ drain[s] = "created"
  /\ originals' = IF s \in cache THEN originals ELSE originals \ {s}
  /\ \/ /\ s \in cache \cup originals
        /\ headers' = headers \ {s}
        /\ started' = [started EXCEPT ![s] = @ + 1]
        /\ drain' = [drain EXCEPT ![s] = "stream"]
        /\ UNCHANGED <<queue, spoiled>>
     \/ /\ s \notin cache \cup originals
        /\ queue' = [queue EXCEPT ![s] = <<>>]
        /\ drain' = [drain EXCEPT ![s] = "none"]
        /\ Spoil({s} \cap refused)
        /\ UNCHANGED <<headers, started>>
  /\ UNCHANGED <<cache, shown, tombVars, faults>> /\ DrainStep

Terminal(m) ==
  \/ m.kind \in {"end", "error"}
  \/ m.kind = "event" /\ m.n = Events[m.stream] /\ m.stream \in Marked

\* Events are yielded to the platform's code; a keepalive only restarts the
\* idle timer; a terminal chunk ends the iteration.
DrainTake(s) ==
  /\ drain[s] = "stream" /\ queue[s] # <<>>
  /\ LET m == Head(queue[s])
     IN /\ shown' = IF m.kind = "event"
                    THEN [shown EXCEPT ![s] = Append(@, m.n)] ELSE shown
        /\ drain' = [drain EXCEPT ![s] = IF Terminal(m) THEN "closing" ELSE @]
  /\ queue' = [queue EXCEPT ![s] = Tail(@)]
  /\ UNCHANGED <<msgVars, started, tombVars, spoiled, faults>> /\ DrainStep

\* Fault: a terminated stream is left to its poison pill.
DrainTimeout_NotTerminated(s) ==
  /\ drain[s] = "stream" /\ queue[s] = <<>> /\ s \notin tombs
  /\ drain' = [drain EXCEPT ![s] = "closing"]
  /\ Spoil({s})
  /\ UNCHANGED <<msgVars, queue, shown, started, tombVars, faults>> /\ DrainStep

\* No chunk for 120 s: StreamChunkTimeout reaches the platform's code.
DrainTimeout(s) ==
  /\ drain[s] = "stream" /\ queue[s] = <<>>
  /\ drain' = [drain EXCEPT ![s] = "closing"]
  /\ Spoil({s})
  /\ UNCHANGED <<msgVars, queue, shown, started, tombVars, faults>> /\ DrainStep

\* Fault: the embedded message is not dropped.
Cleanup_KeepsOriginal(s) ==
  /\ cache' = cache \ {s} /\ UNCHANGED <<headers, originals>>
  /\ drain' = [drain EXCEPT ![s] = "none"]
  /\ queue' = [queue EXCEPT ![s] = <<>>]
  /\ tombs' = tombs \ {s}
  /\ UNCHANGED <<shown, started, condemned, forgotten>> /\ DrainStep

\* The finally clause of _drain_stream.
Cleanup(s) ==
  /\ cache' = cache \ {s} /\ originals' = originals \ {s}
  /\ drain' = [drain EXCEPT ![s] = "none"]
  /\ queue' = [queue EXCEPT ![s] = <<>>]
  /\ tombs' = tombs \ {s}
  /\ UNCHANGED <<headers, shown, started, condemned, forgotten>> /\ DrainStep

DrainEnds(s) ==
  /\ drain[s] = "closing"
  /\ Cleanup(s)
  /\ UNCHANGED <<spoiled, faults>>

\* adapter.send_streaming raises.
DrainFails(s) ==
  /\ Fault
  /\ drain[s] \in {"stream", "closing"}
  /\ Cleanup(s)
  /\ Spoil({s})

Drain(s) == DrainStart(s) \/ DrainTake(s) \/ DrainTimeout(s) \/ DrainEnds(s)

-----------------------------------------------------------------------------
(* Reapers and faults *)

\* The TTL reaper of the cache, or its cap.
Evict(s) ==
  /\ s \in cache
  /\ cache' = cache \ {s}
  /\ UNCHANGED <<hubVars, wire, sending, headers, originals, drainVars,
                 tombVars, refused, spoiled, faults>>

ReapTombstone(s) ==
  /\ s \in tombs
  /\ tombs' = tombs \ {s}
  /\ forgotten' = forgotten \cup ({s} \cap condemned)
  /\ UNCHANGED <<hubVars, wire, sending, msgVars, drainVars, condemned,
                 refused, spoiled, faults>>

\* Core NATS delivers at most once.
Lose ==
  /\ Fault /\ wire # <<>>
  /\ wire' = Tail(wire)
  /\ Spoil(IF Head(wire).kind \in {"start", "event"}
           THEN {Head(wire).stream} ELSE {})
  /\ UNCHANGED <<hubVars, sending, msgVars, drainVars, tombVars, refused>>

\* The adapter process starts again: what it held and what was on its way to
\* it is gone.  A reply not begun yet is not affected.
Restart ==
  /\ Fault
  /\ wire' = <<>> /\ sending' = {}
  /\ cache' = {} /\ headers' = {} /\ originals' = {}
  /\ queue' = [s \in Streams |-> <<>>]
  /\ drain' = [s \in Streams |-> "none"]
  /\ tombs' = {} /\ forgotten' = forgotten \cup condemned
  /\ Spoil({s \in Streams : hub[s] # "idle"})
  /\ UNCHANGED <<hubVars, shown, started, condemned, refused>>

Next ==
  \/ \E s \in Streams :
       HubNext(s) \/ Handle(s) \/ Drain(s) \/ DrainFails(s)
         \/ Evict(s) \/ ReapTombstone(s)
  \/ Lose \/ Restart

Spec == Init /\ [][Next]_vars

(***************************************************************************)
(* The event loop of the adapter runs every ready task: its subscription,  *)
(* the drain tasks (whose waiting is bounded by the idle timeout), and the *)
(* platform's calls return.  Nothing is assumed of the hub.                *)
(***************************************************************************)
Fairness == \A s \in Streams : WF_vars(Handle(s)) /\ WF_vars(Drain(s))
FairSpec == Spec /\ Fairness

-----------------------------------------------------------------------------
(* Properties *)

\* A reply is begun on the platform at most once, and never after its failure
\* was announced before its first event came, while the adapter remembers it.
RepliesBeginOnce ==
  [][\A s \in Streams : started'[s] # started[s] =>
       started[s] = 0 /\ s \notin condemned \ forgotten]_vars

\* A reply that ended leaves nothing behind: neither its cached message nor
\* its header nor its embedded message, which no reaper would ever remove.
EndedLeavesNothing ==
  \A s \in Streams : started[s] > 0 /\ ~Live(s) =>
    s \notin cache \cup headers \cup originals

\* A reply published to its end, of which no event was lost, refused or timed
\* out, is shown in full and in order; eviction from the cache, an adapter
\* restart before it began, sends and other streams do not harm it.
Finished(s) ==
  /\ hub[s] = "done" /\ ~Live(s)
  /\ \A i \in 1 .. Len(wire) :
       wire[i].stream = s => wire[i].kind \notin {"start", "event"}
IntactReply ==
  \A s \in Streams \ spoiled :
    Finished(s) => shown[s] = [n \in 1 .. Events[s] |-> n]

\* No drain task is parked for ever, even if its poison pill was dropped.
EveryDrainEnds == \A s \in Streams : Live(s) ~> ~Live(s)
=============================================================================

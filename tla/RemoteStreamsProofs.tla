------------------------ MODULE RemoteStreamsProofs ------------------------
(***************************************************************************)
(* Proofs about RemoteStreams, for any set of streams and all bounds: a     *)
(* reply is begun at most once, never after it was declared failed, one     *)
(* that ended leaves nothing behind, and one nothing went wrong with is      *)
(* shown in full and in order.                                              *)
(*                                                                         *)
(* What makes it work is the publisher's order.  A drain task can only be   *)
(* begun by a chunk; no chunk precedes its stream_start on the wire         *)
(* (Ordered), so once a stream has a drain task or was begun no stream_start *)
(* of it is left that could store a header or a message again (Begun).      *)
(* For the whole reply the events are followed along their way (Piped):      *)
(* those shown are 1 .. k, those queued k + 1 .. mid, those on the wire       *)
(* mid + 1 .. sent.                                                         *)
(***************************************************************************)
EXTENDS RemoteStreams, TLAPS

Typed ==
  /\ wire \in Seq(Envelope)
  /\ hub \in [Streams -> {"idle", "open", "failed", "done"}]
  /\ drain \in [Streams -> {"none", "created", "stream", "closing"}]
  /\ started \in [Streams -> Nat] /\ sent \in [Streams -> Nat]

IsStart(m, s) == m.stream = s /\ m.kind = "start"
NoStart(s) == \A i \in 1 .. Len(wire) : ~IsStart(wire[i], s)

\* What is on the wire belongs to a reply the hub began to publish.
OnWire ==
  \A i \in 1 .. Len(wire) :
    wire[i].kind \in Chunks \cup {"start"} => hub[wire[i].stream] # "idle"

\* No chunk is ahead of its stream_start.
Ordered ==
  \A i, j \in 1 .. Len(wire) :
    i < j /\ wire[j].kind = "start" /\ wire[i].kind \in Chunks
      => wire[i].stream # wire[j].stream

\* A stream that has a drain task or was begun gets no stream_start any more.
Begun ==
  \A s \in Streams :
    started[s] > 0 \/ Live(s) => hub[s] # "idle" /\ NoStart(s)

\* A stream that was begun has no header, and no message to begin with again.
Once ==
  \A s \in Streams : started[s] > 0 =>
    /\ s \notin headers
    /\ drain[s] \in {"none", "created"} => s \notin cache \cup originals

\* A condemned stream is remembered and has no drain task.
Dead ==
  \A s \in condemned \ forgotten : s \in Streams => s \in tombs /\ ~Live(s)

IInv == Typed /\ OnWire /\ Ordered /\ Begun /\ Once /\ Dead

-----------------------------------------------------------------------------
(* The wire *)

LEMMA TailFacts ==
  ASSUME NEW w \in Seq(Envelope), w # <<>>
  PROVE  /\ Tail(w) \in Seq(Envelope) /\ Head(w) = w[1] /\ Len(w) \in Nat \ {0}
         /\ Len(Tail(w)) = Len(w) - 1
         /\ \A i \in 1 .. Len(Tail(w)) : Tail(w)[i] = w[i + 1]
  OBVIOUS

LEMMA AppendFacts ==
  ASSUME NEW w \in Seq(Envelope), NEW m \in Envelope
  PROVE  /\ Append(w, m) \in Seq(Envelope) /\ Len(w) \in Nat
         /\ Len(Append(w, m)) = Len(w) + 1
         /\ \A i \in 1 .. Len(w) : Append(w, m)[i] = w[i]
         /\ Append(w, m)[Len(w) + 1] = m
  OBVIOUS

LEMMA InitIInv == ASSUME Init PROVE IInv
  BY DEF Init, IInv, Typed, OnWire, Ordered, Begun, Once, Dead, Live, NoStart

-----------------------------------------------------------------------------
(* The hub *)

\* What the hub does to the wire and to its replies.
Grows ==
  /\ hub' \in [Streams -> {"idle", "open", "failed", "done"}]
  /\ sent' \in [Streams -> Nat]
  /\ \A t \in Streams : hub[t] # "idle" => hub'[t] # "idle"
  /\ \/ wire' = wire
     \/ \E m \in Envelope :
          /\ wire' = Append(wire, m)
          /\ m.kind \in Chunks => hub[m.stream] # "idle"
          /\ m.kind = "start" => hub[m.stream] = "idle" /\ hub'[m.stream] # "idle"
  /\ UNCHANGED <<msgVars, drain, started, tombVars>>

LEMMA GrowsKeeps == ASSUME IInv, Grows PROVE IInv'
<1>1. CASE wire' = wire
  <2>1. \A i \in 1 .. Len(wire) : wire[i].stream \in Streams
    <3>1. \A i \in 1 .. Len(wire) : wire[i] \in Envelope
      BY DEF IInv, Typed
    <3>. QED
      BY <3>1 DEF Envelope
  <2>2. Typed'
    BY <1>1 DEF IInv, Typed, Grows, drainVars
  <2>3. OnWire'
    BY <1>1, <2>1 DEF IInv, OnWire, Grows
  <2>4. Ordered'
    BY <1>1, Zenon DEF IInv, Ordered
  <2>5. Begun'
    BY <1>1 DEF IInv, Begun, NoStart, Live, Grows
  <2>6. Once' /\ Dead'
    BY DEF IInv, Grows, Once, Dead, Live, msgVars, tombVars
  <2>. QED
    BY <2>2, <2>3, <2>4, <2>5, <2>6 DEF IInv
<1>2. ASSUME NEW m \in Envelope, wire' = Append(wire, m),
             m.kind \in Chunks => hub[m.stream] # "idle",
             m.kind = "start" =>
               hub[m.stream] = "idle" /\ hub'[m.stream] # "idle"
      PROVE  IInv'
  <2>1. /\ wire' \in Seq(Envelope) /\ Len(wire) \in Nat
        /\ Len(wire') = Len(wire) + 1
        /\ \A i \in 1 .. Len(wire) : wire'[i] = wire[i]
        /\ wire'[Len(wire) + 1] = m
    BY <1>2, AppendFacts DEF IInv, Typed
  <2>2. \A i \in 1 .. Len(wire') : i \in 1 .. Len(wire) \/ i = Len(wire) + 1
    BY <2>1
  <2>3. \A i \in 1 .. Len(wire) : wire[i] \in Envelope
    BY <2>1 DEF IInv, Typed
  <2>4. m.stream \in Streams
    BY <1>2 DEF Envelope
  <2>5. \A i \in 1 .. Len(wire) : wire[i].stream \in Streams
    BY <2>3 DEF Envelope
  <2>6. Typed'
    BY <2>1 DEF IInv, Typed, Grows
  <2>7. OnWire'
    <3>. SUFFICES ASSUME NEW i \in 1 .. Len(wire'),
                         wire'[i].kind \in Chunks \cup {"start"}
                  PROVE  hub'[wire'[i].stream] # "idle"
      BY DEF OnWire
    <3>1. CASE i \in 1 .. Len(wire)
      BY <2>1, <2>5, <3>1 DEF IInv, OnWire, Grows
    <3>2. CASE i = Len(wire) + 1
      BY <1>2, <2>1, <2>4, <3>2 DEF Grows
    <3>. QED
      BY <2>2, <3>1, <3>2
  <2>8. Ordered'
    <3>. SUFFICES ASSUME NEW i \in 1 .. Len(wire'), NEW k \in 1 .. Len(wire'),
                         i < k, wire'[k].kind = "start",
                         wire'[i].kind \in Chunks
                  PROVE  wire'[i].stream # wire'[k].stream
      BY DEF Ordered
    <3>1. i \in 1 .. Len(wire)
      BY <2>1
    <3>2. hub[wire[i].stream] # "idle"
      BY <2>1, <3>1 DEF IInv, OnWire
    <3>3. CASE k \in 1 .. Len(wire)
      BY <2>1, <3>1, <3>3 DEF IInv, Ordered
    <3>4. CASE k = Len(wire) + 1
      BY <1>2, <2>1, <3>1, <3>2, <3>4
    <3>. QED
      BY <2>2, <3>3, <3>4
  <2>9. Begun'
    <3>. SUFFICES ASSUME NEW s \in Streams, started'[s] > 0 \/ Live(s)'
                  PROVE  hub'[s] # "idle" /\ NoStart(s)'
      BY DEF Begun
    <3>1. hub[s] # "idle" /\ NoStart(s)
      BY DEF IInv, Begun, Grows, Live
    <3>2. ~IsStart(m, s)
      BY <1>2, <3>1 DEF IsStart
    <3>3. NoStart(s)'
      <4>. SUFFICES ASSUME NEW i \in 1 .. Len(wire')
                    PROVE  ~IsStart(wire'[i], s)
        BY DEF NoStart
      <4>. QED
        BY <2>1, <2>2, <3>1, <3>2 DEF NoStart
    <3>. QED
      BY <3>1, <3>3 DEF Grows
  <2>10. Once' /\ Dead'
    BY DEF IInv, Grows, Once, Dead, Live, msgVars, tombVars
  <2>. QED
    BY <2>6, <2>7, <2>8, <2>9, <2>10 DEF IInv
<1>. QED
  BY <1>1, <1>2 DEF Grows

LEMMA HubKeeps == ASSUME IInv, NEW s \in Streams, HubNext(s) PROVE IInv'
<1>1. /\ Env(s, "start") \in Envelope /\ Env(s, "end") \in Envelope
      /\ Env(s, "keepalive") \in Envelope /\ Env(s, "error") \in Envelope
      /\ Env(s, "send") \in Envelope
      /\ EventOf(s, sent[s] + 1) \in Envelope
  BY DEF Env, EventOf, Envelope, Kinds, IInv, Typed
<1>2. CASE StreamStart(s)
  <2>1. /\ Env(s, "start").kind = "start" /\ Env(s, "start").stream = s
        /\ wire' = Append(wire, Env(s, "start"))
    BY <1>2 DEF StreamStart, Publish, Env
  <2>2. /\ hub' \in [Streams -> {"idle", "open", "failed", "done"}]
        /\ hub[s] = "idle" /\ hub'[s] # "idle"
        /\ \A t \in Streams : hub[t] # "idle" => hub'[t] # "idle"
    BY <1>2 DEF StreamStart, IInv, Typed
  <2>3. sent' \in [Streams -> Nat]
    BY <1>2 DEF StreamStart, IInv, Typed
  <2>4. UNCHANGED <<msgVars, drain, started, tombVars>>
    BY <1>2 DEF StreamStart, HubStep, drainVars
  <2>. QED
    BY <1>1, <2>1, <2>2, <2>3, <2>4, GrowsKeeps DEF Grows, Chunks
<1>3. CASE PublishEvent(s)
  <2> DEFINE m == EventOf(s, sent[s] + 1)
  <2>1. m.kind = "event" /\ m.stream = s /\ hub[s] # "idle"
        /\ wire' = Append(wire, m)
    BY <1>3 DEF PublishEvent, Publish, EventOf
  <2>2. hub' = hub
    BY <1>3 DEF PublishEvent
  <2>3. sent' \in [Streams -> Nat]
    BY <1>3 DEF PublishEvent, IInv, Typed
  <2>4. UNCHANGED <<msgVars, drain, started, tombVars>>
    BY <1>3 DEF PublishEvent, HubStep, drainVars
  <2> HIDE DEF m
  <2>5. m \in Envelope
    BY <1>1 DEF m
  <2>. QED
    BY <2>1, <2>2, <2>3, <2>4, <2>5, GrowsKeeps DEF Grows, IInv, Typed
<1>4. CASE PublishEnd(s)
  BY <1>1, <1>4, GrowsKeeps
  DEF PublishEnd, Publish, HubStep, Grows, Env, Chunks, IInv, Typed, drainVars
<1>5. CASE Keepalive(s)
  BY <1>1, <1>5, GrowsKeeps
  DEF Keepalive, Publish, HubStep, Grows, Env, Chunks, IInv, Typed, drainVars
<1>6. CASE StreamFails(s)
  BY <1>1, <1>6, GrowsKeeps
  DEF StreamFails, Publish, HubStep, Grows, Env, Chunks, IInv, Typed, drainVars
<1>7. CASE Drained(s) \/ Abandon(s)
  BY <1>7, GrowsKeeps
  DEF Drained, Abandon, HubStep, Grows, IInv, Typed, drainVars
<1>8. CASE Send(s)
  BY <1>1, <1>8, GrowsKeeps
  DEF Send, Publish, HubStep, Grows, Env, Chunks, IInv, Typed, drainVars
<1>. QED
  BY <1>2, <1>3, <1>4, <1>5, <1>6, <1>7, <1>8 DEF HubNext

-----------------------------------------------------------------------------
(* The subscription callback *)

\* What taking the first envelope leaves on the wire.
LEMMA TailKeeps ==
  ASSUME IInv, wire # <<>>, wire' = Tail(wire), UNCHANGED hub
  PROVE  /\ wire' \in Seq(Envelope) /\ OnWire' /\ Ordered'
         /\ \A s \in Streams : NoStart(s) => NoStart(s)'
<1>1. /\ wire' \in Seq(Envelope) /\ Len(wire) \in Nat \ {0}
      /\ Len(wire') = Len(wire) - 1
      /\ \A i \in 1 .. Len(wire') : wire'[i] = wire[i + 1]
  BY TailFacts DEF IInv, Typed
<1>2. \A i \in 1 .. Len(wire') : i + 1 \in 1 .. Len(wire)
  BY <1>1
<1>3. OnWire'
  BY <1>1, <1>2 DEF IInv, OnWire
<1>4. Ordered'
  <2>. SUFFICES ASSUME NEW i \in 1 .. Len(wire'), NEW k \in 1 .. Len(wire'),
                       i < k, wire'[k].kind = "start",
                       wire'[i].kind \in Chunks
                PROVE  wire'[i].stream # wire'[k].stream
    BY DEF Ordered
  <2>1. i + 1 < k + 1
    OBVIOUS
  <2>. QED
    BY <1>1, <1>2, <2>1 DEF IInv, Ordered
<1>5. \A s \in Streams : NoStart(s) => NoStart(s)'
  BY <1>1, <1>2 DEF NoStart
<1>. QED
  BY <1>1, <1>3, <1>4, <1>5

\* The wire keeps its envelopes, or its first one is taken.
Taken == wire' = wire \/ (wire # <<>> /\ wire' = Tail(wire))

\* Losing messages, headers, drain tasks or envelopes, beginning nothing.
Sheds ==
  /\ cache' \subseteq cache /\ headers' \subseteq headers
  /\ originals' \subseteq originals
  /\ drain' \in [Streams -> {"none", "created", "stream", "closing"}]
  /\ \A t \in Streams :
       /\ Live(t)' => Live(t) /\ (drain'[t] = drain[t] \/ drain'[t] = "closing")
       /\ Live(t) /\ ~Live(t)' => t \notin cache' \cup originals'
  /\ UNCHANGED <<hub, sent, started>>

Shrinks == Taken /\ Sheds

LEMMA ShrinksKeeps == ASSUME IInv, Shrinks PROVE
  Typed' /\ OnWire' /\ Ordered' /\ Begun' /\ Once'
<1>1. /\ wire' \in Seq(Envelope) /\ OnWire' /\ Ordered'
      /\ \A s \in Streams : NoStart(s) => NoStart(s)'
  <2>1. CASE wire' = wire
    <3>1. OnWire'
      BY <2>1 DEF IInv, OnWire, Shrinks, Sheds
    <3>2. Ordered'
      BY <2>1, Zenon DEF IInv, Ordered
    <3>. QED
      BY <2>1, <3>1, <3>2 DEF IInv, Typed, NoStart
  <2>2. CASE wire # <<>> /\ wire' = Tail(wire)
    BY <2>2, TailKeeps DEF Shrinks, Sheds, Taken
  <2>. QED
    BY <2>1, <2>2 DEF Shrinks, Sheds, Taken
<1>2. Typed'
  BY <1>1 DEF IInv, Typed, Shrinks, Sheds
<1>3. Begun'
  BY <1>1 DEF IInv, Begun, Shrinks, Sheds
<1>4. Once'
  BY DEF IInv, Typed, Once, Shrinks, Sheds, Live
<1>. QED
  BY <1>1, <1>2, <1>3, <1>4

LEMMA HandleKeeps == ASSUME IInv, NEW s \in Streams, Handle(s) PROVE IInv'
<1>1. CASE HandleSend(s)
  <2>1. Shrinks
    BY <1>1 DEF HandleSend, Arrives, Shrinks, Sheds, Taken, IInv, Typed,
                hubVars, msgVars, drainVars, Live
  <2>2. Dead'
    BY <1>1 DEF HandleSend, IInv, Dead, Live, drainVars, tombVars
  <2>. QED
    BY <2>1, <2>2, ShrinksKeeps DEF IInv
<1>2. CASE SendReturns(s)
  <2>1. Shrinks
    <3>1. /\ UNCHANGED <<hub, sent, started, wire, headers, originals, drain>>
          /\ cache' \subseteq cache
      BY <1>2 DEF SendReturns, hubVars, drainVars
    <3>2. Taken
      BY <3>1 DEF Taken
    <3>3. Sheds
      BY <3>1 DEF Sheds, IInv, Typed, Live
    <3>. QED
      BY <3>2, <3>3 DEF Shrinks
  <2>2. Dead'
    BY <1>2 DEF SendReturns, IInv, Dead, Live, drainVars, tombVars
  <2>. QED
    BY <2>1, <2>2, ShrinksKeeps DEF IInv
<1>3. CASE HandleStreamStart(s)
  <2>1. wire # <<>> /\ wire' = Tail(wire) /\ IsStart(Head(wire), s)
    BY <1>3 DEF HandleStreamStart, Arrives, IsStart
  <2>2. UNCHANGED <<hub, sent, cache, drain, started, tombs, condemned,
                    forgotten>>
    BY <1>3 DEF HandleStreamStart, hubVars, drainVars, tombVars
  <2>3. headers' \subseteq headers \cup {s} /\ originals' \subseteq originals \cup {s}
    BY <1>3 DEF HandleStreamStart
  <2>4. ~NoStart(s)
    BY <2>1, TailFacts DEF NoStart, IInv, Typed
  <2>5. started[s] = 0
    BY <2>4 DEF IInv, Typed, Begun
  <2>6. Typed' /\ OnWire' /\ Ordered' /\ Begun'
    BY <2>1, <2>2, TailKeeps DEF IInv, Typed, Begun, Live
  <2>7. Once' /\ Dead'
    BY <2>2, <2>3, <2>5 DEF IInv, Once, Dead, Live
  <2>. QED
    BY <2>6, <2>7 DEF IInv
<1>4. CASE HandleChunk(s)
  <2>1. /\ wire # <<>> /\ wire' = Tail(wire)
        /\ Head(wire).stream = s /\ Head(wire).kind \in Chunks
    BY <1>4 DEF HandleChunk, Arrives
  <2>2. UNCHANGED <<hub, sent, cache, headers, originals, started, tombs,
                    condemned, forgotten>>
    BY <1>4 DEF HandleChunk, hubVars, msgVars, tombVars
  <2>3. \/ drain' = drain
        \/ /\ s \notin tombs
           /\ drain' = [drain EXCEPT ![s] = IF Live(s) THEN @ ELSE "created"]
    BY <1>4 DEF HandleChunk, Accepted
  <2>4. /\ drain' \in [Streams -> {"none", "created", "stream", "closing"}]
        /\ \A t \in Streams \ {s} : drain'[t] = drain[t]
        /\ \/ drain'[s] = drain[s]
           \/ s \notin tombs /\ drain[s] = "none" /\ drain'[s] = "created"
    BY <2>3 DEF IInv, Typed, Live
  <2>5. hub[s] # "idle"
    BY <2>1, TailFacts DEF IInv, Typed, OnWire
  <2>6. NoStart(s)'
    <3>. SUFFICES ASSUME NEW i \in 1 .. Len(wire') PROVE ~IsStart(wire'[i], s)
      BY DEF NoStart
    <3>1. /\ Len(wire) \in Nat /\ Len(wire') = Len(wire) - 1
          /\ wire'[i] = wire[i + 1] /\ Head(wire) = wire[1]
      BY <2>1, TailFacts DEF IInv, Typed
    <3>2. 1 \in 1 .. Len(wire) /\ i + 1 \in 1 .. Len(wire) /\ 1 < i + 1
      BY <3>1
    <3>. QED
      BY <2>1, <3>1, <3>2 DEF IInv, Ordered, IsStart
  <2>7. Typed' /\ OnWire' /\ Ordered'
    BY <2>1, <2>2, <2>4, TailKeeps DEF IInv, Typed
  <2>8. Begun'
    BY <2>1, <2>2, <2>4, <2>5, <2>6, TailKeeps DEF IInv, Begun, Live
  <2>9. Once' /\ Dead'
    BY <2>2, <2>4 DEF IInv, Once, Dead, Live
  <2>. QED
    BY <2>7, <2>8, <2>9 DEF IInv
<1>5. CASE HandleStreamError(s)
  <2>1. Shrinks
    BY <1>5 DEF HandleStreamError, Arrives, Shrinks, Sheds, Taken, IInv, Typed,
                hubVars, Live
  <2>2. Dead'
    <3>1. drain' = drain
      BY <1>5 DEF HandleStreamError
    <3>2. CASE Live(s) /\ Entomb(s) /\ UNCHANGED condemned
      BY <3>1, <3>2 DEF IInv, Dead, Live, Entomb
    <3>3. CASE ~Live(s) /\ Entomb(s) /\ condemned' = condemned \cup {s}
      BY <3>1, <3>3 DEF IInv, Dead, Live, Entomb
    <3>4. CASE UNCHANGED tombVars
      BY <3>1, <3>4 DEF IInv, Dead, Live, tombVars
    <3>. QED
      BY <1>5, <3>2, <3>3, <3>4 DEF HandleStreamError
  <2>. QED
    BY <2>1, <2>2, ShrinksKeeps DEF IInv
<1>. QED
  BY <1>1, <1>2, <1>3, <1>4, <1>5 DEF Handle

-----------------------------------------------------------------------------
(* The drain task *)

LEMMA CleanupKeeps == ASSUME IInv, NEW s \in Streams, Live(s), Cleanup(s)
                      PROVE  IInv'
<1>1. /\ UNCHANGED <<hub, sent, started, wire, headers, condemned, forgotten>>
      /\ cache' = cache \ {s} /\ originals' = originals \ {s}
      /\ drain' = [drain EXCEPT ![s] = "none"] /\ tombs' = tombs \ {s}
  BY DEF Cleanup, DrainStep, hubVars
<1>2. Shrinks
  <2>1. Taken
    BY <1>1 DEF Taken
  <2>2. Sheds
    BY <1>1 DEF Sheds, IInv, Typed, Live
  <2>. QED
    BY <2>1, <2>2 DEF Shrinks
<1>3. Dead'
  BY <1>1 DEF IInv, Typed, Dead, Live
<1>. QED
  BY <1>2, <1>3, ShrinksKeeps DEF IInv

LEMMA DrainKeeps ==
  ASSUME IInv, NEW s \in Streams, Drain(s) \/ DrainFails(s)
  PROVE  IInv'
<1>1. ASSUME DrainStart(s), s \in cache \cup originals,
             headers' = headers \ {s},
             started' = [started EXCEPT ![s] = @ + 1],
             drain' = [drain EXCEPT ![s] = "stream"]
      PROVE  IInv'
  <2>1. /\ UNCHANGED <<hub, sent, wire, cache, tombs, condemned, forgotten>>
        /\ originals' \subseteq originals /\ drain[s] = "created"
    BY <1>1 DEF DrainStart, DrainStep, hubVars, tombVars
  <2>2. Typed'
    BY <1>1, <2>1 DEF IInv, Typed
  <2>3. OnWire'
    BY <2>1 DEF IInv, OnWire
  <2>4. Ordered'
    BY <2>1, Zenon DEF IInv, Ordered
  <2>5. Begun'
    BY <1>1, <2>1 DEF IInv, Typed, Begun, Live, NoStart
  <2>6. Once' /\ Dead'
    BY <1>1, <2>1 DEF IInv, Typed, Once, Dead, Live
  <2>. QED
    BY <2>2, <2>3, <2>4, <2>5, <2>6 DEF IInv
<1>2. ASSUME DrainStart(s), s \notin cache \cup originals,
             drain' = [drain EXCEPT ![s] = "none"],
             UNCHANGED <<headers, started>>
      PROVE  IInv'
  <2>1. /\ UNCHANGED <<hub, sent, wire, cache, tombs, condemned, forgotten>>
        /\ originals' \subseteq originals /\ drain[s] = "created"
    BY <1>2 DEF DrainStart, DrainStep, hubVars, tombVars
  <2>2. Shrinks
    <3>1. Taken
      BY <2>1 DEF Taken
    <3>2. Sheds
      BY <1>2, <2>1 DEF Sheds, IInv, Typed, Live
    <3>. QED
      BY <3>1, <3>2 DEF Shrinks
  <2>3. Dead'
    BY <1>2, <2>1 DEF IInv, Typed, Dead, Live
  <2>. QED
    BY <2>2, <2>3, ShrinksKeeps DEF IInv
<1>3. ASSUME UNCHANGED <<hub, sent, wire, msgVars, started, tombVars>>,
             Live(s),
             drain' = drain \/ drain' = [drain EXCEPT ![s] = "closing"]
      PROVE  IInv'
  <2>1. Shrinks
    <3>1. Taken
      BY <1>3 DEF Taken
    <3>2. Sheds
      BY <1>3 DEF Sheds, IInv, Typed, Live, msgVars
    <3>. QED
      BY <3>1, <3>2 DEF Shrinks
  <2>2. Dead'
    BY <1>3 DEF IInv, Typed, Dead, Live, tombVars
  <2>. QED
    BY <2>1, <2>2, ShrinksKeeps DEF IInv
<1>4. CASE DrainStart(s)
  BY <1>1, <1>2, <1>4 DEF DrainStart
<1>5. CASE DrainTake(s)
  BY <1>3, <1>5 DEF DrainTake, DrainStep, hubVars, Live, IInv, Typed
<1>6. CASE DrainTimeout(s)
  BY <1>3, <1>6 DEF DrainTimeout, DrainStep, hubVars, Live
<1>7. CASE DrainEnds(s) \/ DrainFails(s)
  BY <1>7, CleanupKeeps DEF DrainEnds, DrainFails, Live
<1>. QED
  BY <1>4, <1>5, <1>6, <1>7 DEF Drain

-----------------------------------------------------------------------------
(* Reapers and faults *)

LEMMA RestKeeps ==
  ASSUME IInv,
         \/ \E s \in Streams : Evict(s) \/ ReapTombstone(s)
         \/ Lose \/ Restart \/ UNCHANGED vars
  PROVE  IInv'
<1>1. ASSUME NEW s \in Streams, Evict(s) PROVE IInv'
  <2>1. Shrinks
    <3>1. Taken
      BY <1>1 DEF Evict, Taken
    <3>2. Sheds
      BY <1>1 DEF Evict, Sheds, IInv, Typed, hubVars, drainVars, Live
    <3>. QED
      BY <3>1, <3>2 DEF Shrinks
  <2>2. Dead'
    BY <1>1 DEF Evict, IInv, Dead, Live, drainVars, tombVars
  <2>. QED
    BY <2>1, <2>2, ShrinksKeeps DEF IInv
<1>2. ASSUME NEW s \in Streams, ReapTombstone(s) PROVE IInv'
  <2>1. Shrinks
    <3>1. Taken
      BY <1>2 DEF ReapTombstone, Taken
    <3>2. Sheds
      BY <1>2 DEF ReapTombstone, Sheds, IInv, Typed, hubVars, msgVars,
                        drainVars, Live
    <3>. QED
      BY <3>1, <3>2 DEF Shrinks
  <2>2. Dead'
    BY <1>2 DEF ReapTombstone, IInv, Dead, Live, drainVars
  <2>. QED
    BY <2>1, <2>2, ShrinksKeeps DEF IInv
<1>3. CASE Lose
  <2>1. Shrinks
    BY <1>3 DEF Lose, Shrinks, Sheds, Taken, IInv, Typed, hubVars, msgVars,
                drainVars, Live
  <2>2. Dead'
    BY <1>3 DEF Lose, IInv, Dead, Live, drainVars, tombVars
  <2>. QED
    BY <2>1, <2>2, ShrinksKeeps DEF IInv
<1>4. CASE Restart
  <2>1. /\ wire' = <<>> /\ cache' = {} /\ headers' = {} /\ originals' = {}
        /\ drain' = [s \in Streams |-> "none"] /\ tombs' = {}
        /\ forgotten' = forgotten \cup condemned
        /\ UNCHANGED <<hub, sent, started, condemned>>
    BY <1>4 DEF Restart, hubVars
  <2>2. Typed' /\ OnWire' /\ Ordered'
    BY <2>1 DEF IInv, Typed, OnWire, Ordered
  <2>3. Begun'
    BY <2>1 DEF IInv, Begun, Live, NoStart
  <2>4. Once' /\ Dead'
    BY <2>1 DEF IInv, Once, Dead, Live
  <2>. QED
    BY <2>2, <2>3, <2>4 DEF IInv
<1>5. CASE UNCHANGED vars
  <2>1. Shrinks
    <3>1. Taken
      BY <1>5 DEF vars, Taken
    <3>2. Sheds
      BY <1>5 DEF vars, Sheds, IInv, Typed, hubVars, msgVars,
                        drainVars, Live
    <3>. QED
      BY <3>1, <3>2 DEF Shrinks
  <2>2. Dead'
    BY <1>5 DEF vars, IInv, Dead, Live, drainVars, tombVars
  <2>. QED
    BY <2>1, <2>2, ShrinksKeeps DEF IInv
<1>. QED
  BY <1>1, <1>2, <1>3, <1>4, <1>5

-----------------------------------------------------------------------------
(* Theorems *)

LEMMA NextKeeps == ASSUME IInv, [Next]_vars PROVE IInv'
<1>1. CASE \E s \in Streams : HubNext(s) \/ Handle(s) \/ Drain(s) \/ DrainFails(s)
  BY <1>1, HubKeeps, HandleKeeps, DrainKeeps
<1>. QED
  BY <1>1, RestKeeps DEF Next

\* A reply that ended on the platform leaves nothing of it in the adapter
\* (_drain_stream's finally clause and what can follow it on the wire).
THEOREM NothingLeftBehind == Spec => []EndedLeavesNothing
<1>1. IInv => EndedLeavesNothing
  BY DEF IInv, Typed, Once, Live, EndedLeavesNothing
<1>. QED
  BY <1>1, InitIInv, NextKeeps, PTL DEF Spec

\* What changes when a reply is begun.
LEMMA Begins ==
  ASSUME IInv, [Next]_vars, NEW s \in Streams, started'[s] # started[s]
  PROVE  started[s] = 0 /\ s \notin condemned \ forgotten
<1>1. PICK t \in Streams : DrainStart(t) /\ started' # started
  <2>1. ASSUME NEW t \in Streams, HubNext(t) PROVE UNCHANGED started
    BY <2>1 DEF HubNext, StreamStart, PublishEvent, PublishEnd, Keepalive,
                StreamFails, Drained, Abandon, Send, HubStep, drainVars
  <2>2. ASSUME NEW t \in Streams, Handle(t) PROVE UNCHANGED started
    BY <2>2 DEF Handle, HandleSend, SendReturns, HandleStreamStart, HandleChunk,
                HandleStreamError, drainVars
  <2>3. ASSUME NEW t \in Streams,
               DrainTake(t) \/ DrainTimeout(t) \/ DrainEnds(t) \/ DrainFails(t)
        PROVE UNCHANGED started
    BY <2>3 DEF DrainTake, DrainTimeout, DrainEnds, DrainFails, Cleanup
  <2>4. ASSUME \/ \E t \in Streams : Evict(t) \/ ReapTombstone(t)
               \/ Lose \/ Restart \/ UNCHANGED vars
        PROVE  UNCHANGED started
    BY <2>4 DEF Evict, ReapTombstone, Lose, Restart, vars, drainVars
  <2>. QED
    BY <2>1, <2>2, <2>3, <2>4 DEF Next, Drain
<1>2. /\ t \in cache \cup originals /\ drain[t] = "created"
      /\ started' = [started EXCEPT ![t] = @ + 1]
  BY <1>1 DEF DrainStart
<1>3. s = t
  BY <1>2 DEF IInv, Typed
<1>. QED
  BY <1>2, <1>3 DEF IInv, Typed, Once, Dead, Live

\* No reply is begun twice on the platform, and none after the failure of its
\* stream was announced and while that is remembered (the tombstones).
THEOREM BeginOnce == Spec => RepliesBeginOnce
<1>1. IInv /\ [Next]_vars =>
        [\A s \in Streams : started'[s] # started[s] =>
           started[s] = 0 /\ s \notin condemned \ forgotten]_vars
  BY Begins
<1>. QED
  BY <1>1, InitIInv, NextKeeps, PTL DEF Spec, RepliesBeginOnce

-----------------------------------------------------------------------------
(* No event is lost but those a spoiled stream lost *)

IsEvent(m, s) == m.stream = s /\ m.kind = "event"
IsEnd(m, s) == m.stream = s /\ m.kind = "end"
HasEnd(q, s) == \E i \in 1 .. Len(q) : IsEnd(q[i], s)

\* The events of s in q are lo + 1 to hi, in this order, and nothing follows
\* its stream_end.
Carries(q, s, lo, hi) ==
  /\ lo <= hi
  /\ \A i \in 1 .. Len(q) :
       /\ IsEvent(q[i], s) => q[i].n \in lo + 1 .. hi
       /\ q[i].stream = s => q[i].kind # "error"
  /\ \A n \in lo + 1 .. hi : \E i \in 1 .. Len(q) : IsEvent(q[i], s) /\ q[i].n = n
  /\ \A i, j \in 1 .. Len(q) : i < j /\ IsEvent(q[j], s) =>
       /\ ~IsEnd(q[i], s)
       /\ IsEvent(q[i], s) => q[i].n < q[j].n

\* What a drain task works on: the envelopes of its own stream, and only while
\* it runs; past its first step the reply was begun.
Tasks ==
  /\ queue \in [Streams -> Seq(Envelope)]
  /\ \A s \in Streams :
       /\ shown[s] \in Seq(Nat)
       /\ \A i \in 1 .. Len(queue[s]) : queue[s][i].stream = s
       /\ ~Live(s) => queue[s] = <<>>
       /\ drain[s] \in {"stream", "closing"} => started[s] > 0
  /\ DOMAIN shown = Streams

\* What the hub published of s.
Published(s) ==
  /\ hub[s] # "failed" /\ sent[s] <= Events[s]
  /\ hub[s] = "done" \/ HasEnd(wire, s) => sent[s] = Events[s]

\* The events shown, queued and on the wire are all that were published.
Piped(s) ==
  /\ shown[s] = [n \in 1 .. Len(shown[s]) |-> n]
  /\ \E mid \in Nat :
       /\ Carries(queue[s], s, Len(shown[s]), mid)
       /\ Carries(wire, s, mid, sent[s])
       /\ HasEnd(queue[s], s) => mid = Events[s]

\* A task about to end has shown everything; so has one that ended.
Complete(s) ==
  drain[s] = "closing" \/ (started[s] > 0 /\ drain[s] # "stream")
    => Len(shown[s]) = Events[s]

\* A message to begin the reply with comes, is there, or was used.
Resolved(s) ==
  hub[s] # "idle" =>
    ~NoStart(s) \/ s \in refused \cup originals \/ started[s] > 0

Flow(s) == Published(s) /\ Piped(s) /\ Complete(s) /\ Resolved(s)
FlowInv == IInv /\ Tasks /\ \A s \in Streams \ spoiled : Flow(s)

LEMMA CarriesNone == ASSUME NEW s, NEW lo \in Nat PROVE Carries(<<>>, s, lo, lo)
  BY DEF Carries

\* Without events there is nothing between the two bounds.
LEMMA CarriesNothing ==
  ASSUME NEW q \in Seq(Envelope), NEW s, NEW lo \in Nat, NEW hi \in Nat,
         Carries(q, s, lo, hi), \A i \in 1 .. Len(q) : ~IsEvent(q[i], s)
  PROVE  lo = hi
<1>1. lo <= hi /\ \A n \in lo + 1 .. hi : FALSE
  BY DEF Carries
<1>. QED
  BY <1>1

LEMMA AppendOther ==
  ASSUME NEW q \in Seq(Envelope), NEW m \in Envelope, NEW s,
         NEW lo \in Nat, NEW hi \in Nat,
         Carries(q, s, lo, hi), ~IsEvent(m, s), m.stream = s => m.kind # "error"
  PROVE  Carries(Append(q, m), s, lo, hi)
<1> DEFINE w == Append(q, m)
<1>1. /\ Len(q) \in Nat /\ Len(w) = Len(q) + 1 /\ w[Len(q) + 1] = m
      /\ \A i \in 1 .. Len(q) : w[i] = q[i]
  BY AppendFacts
<1>2. \A i \in 1 .. Len(w) : i \in 1 .. Len(q) \/ (i = Len(q) + 1 /\ w[i] = m)
  BY <1>1
<1>3. 1 .. Len(q) \subseteq 1 .. Len(w)
  BY <1>1
<1> HIDE DEF w
<1>4. \A i \in 1 .. Len(w) : /\ IsEvent(w[i], s) => w[i].n \in lo + 1 .. hi
                             /\ w[i].stream = s => w[i].kind # "error"
  BY <1>1, <1>2 DEF Carries
<1>5. \A n \in lo + 1 .. hi : \E i \in 1 .. Len(w) : IsEvent(w[i], s) /\ w[i].n = n
  BY <1>1, <1>3 DEF Carries
<1>6. \A i, j \in 1 .. Len(w) : i < j /\ IsEvent(w[j], s) =>
        ~IsEnd(w[i], s) /\ (IsEvent(w[i], s) => w[i].n < w[j].n)
  <2>. SUFFICES ASSUME NEW i \in 1 .. Len(w), NEW j \in 1 .. Len(w),
                       i < j, IsEvent(w[j], s)
                PROVE  ~IsEnd(w[i], s) /\ (IsEvent(w[i], s) => w[i].n < w[j].n)
    OBVIOUS
  <2>1. j \in 1 .. Len(q)
    BY <1>2
  <2>2. i \in 1 .. Len(q)
    BY <1>1, <2>1
  <2>. QED
    BY <1>1, <2>1, <2>2 DEF Carries
<1>. QED
  BY <1>4, <1>5, <1>6 DEF Carries, w

\* The next event, after no stream_end.
LEMMA AppendEvent ==
  ASSUME NEW q \in Seq(Envelope), NEW m \in Envelope, NEW s,
         NEW lo \in Nat, NEW hi \in Nat,
         Carries(q, s, lo, hi), IsEvent(m, s), m.n = hi + 1, ~HasEnd(q, s)
  PROVE  Carries(Append(q, m), s, lo, hi + 1)
<1> DEFINE w == Append(q, m)
<1>1. /\ Len(q) \in Nat /\ Len(w) = Len(q) + 1 /\ w[Len(q) + 1] = m
      /\ \A i \in 1 .. Len(q) : w[i] = q[i]
  BY AppendFacts
<1>2. \A i \in 1 .. Len(w) : i \in 1 .. Len(q) \/ (i = Len(q) + 1 /\ w[i] = m)
  BY <1>1
<1>3. 1 .. Len(q) \subseteq 1 .. Len(w) /\ Len(q) + 1 \in 1 .. Len(w)
  BY <1>1
<1> HIDE DEF w
<1>4. \A i \in 1 .. Len(q) : IsEvent(q[i], s) => q[i].n \in lo + 1 .. hi
  BY DEF Carries
<1>5. lo <= hi
  BY DEF Carries
<1>6. \A i \in 1 .. Len(w) : /\ IsEvent(w[i], s) => w[i].n \in lo + 1 .. hi + 1
                             /\ w[i].stream = s => w[i].kind # "error"
  <2>. SUFFICES ASSUME NEW i \in 1 .. Len(w)
                PROVE  /\ IsEvent(w[i], s) => w[i].n \in lo + 1 .. hi + 1
                       /\ w[i].stream = s => w[i].kind # "error"
    OBVIOUS
  <2>1. CASE i \in 1 .. Len(q)
    BY <1>1, <1>4, <2>1 DEF Carries
  <2>2. CASE i = Len(q) + 1
    BY <1>1, <1>5, <2>2 DEF IsEvent
  <2>. QED
    BY <1>2, <2>1, <2>2
<1>7. \A n \in lo + 1 .. hi + 1 :
        \E i \in 1 .. Len(w) : IsEvent(w[i], s) /\ w[i].n = n
  <2>. SUFFICES ASSUME NEW n \in lo + 1 .. hi + 1
                PROVE  \E i \in 1 .. Len(w) : IsEvent(w[i], s) /\ w[i].n = n
    OBVIOUS
  <2>1. CASE n = hi + 1
    BY <1>1, <1>3, <2>1
  <2>2. CASE n \in lo + 1 .. hi
    BY <1>1, <1>3, <2>2 DEF Carries
  <2>. QED
    BY <2>1, <2>2
<1>8. \A i, j \in 1 .. Len(w) : i < j /\ IsEvent(w[j], s) =>
        ~IsEnd(w[i], s) /\ (IsEvent(w[i], s) => w[i].n < w[j].n)
  <2>. SUFFICES ASSUME NEW i \in 1 .. Len(w), NEW j \in 1 .. Len(w),
                       i < j, IsEvent(w[j], s)
                PROVE  ~IsEnd(w[i], s) /\ (IsEvent(w[i], s) => w[i].n < w[j].n)
    OBVIOUS
  <2>1. i \in 1 .. Len(q)
    BY <1>1
  <2>2. CASE j \in 1 .. Len(q)
    BY <1>1, <2>1, <2>2 DEF Carries
  <2>3. CASE j = Len(q) + 1
    <3>1. w[i] = q[i] /\ w[j] = m
      BY <1>1, <2>1, <2>3
    <3>2. ~IsEnd(q[i], s)
      BY <2>1 DEF HasEnd
    <3>3. IsEvent(q[i], s) => q[i].n < hi + 1
      BY <1>4, <2>1
    <3>. QED
      BY <3>1, <3>2, <3>3
  <2>. QED
    BY <1>2, <2>2, <2>3
<1>9. lo <= hi + 1
  BY <1>5
<1>. QED
  BY <1>6, <1>7, <1>8, <1>9 DEF Carries, w

LEMMA TailOther ==
  ASSUME NEW q \in Seq(Envelope), q # <<>>, NEW s,
         NEW lo \in Nat, NEW hi \in Nat,
         Carries(q, s, lo, hi), ~IsEvent(Head(q), s)
  PROVE  /\ Carries(Tail(q), s, lo, hi)
         /\ IsEnd(Head(q), s) => lo = hi
<1> DEFINE w == Tail(q)
<1>1. /\ w \in Seq(Envelope) /\ Len(q) \in Nat \ {0} /\ Len(w) = Len(q) - 1
      /\ Head(q) = q[1] /\ \A i \in 1 .. Len(w) : w[i] = q[i + 1]
  BY TailFacts
<1>2. \A i \in 1 .. Len(w) : i + 1 \in 1 .. Len(q)
  BY <1>1
<1>3. 1 \in 1 .. Len(q) /\ Len(w) \in Nat
  BY <1>1
<1>4. \A i \in 1 .. Len(q) : i = 1 \/ (i - 1 \in 1 .. Len(w) /\ w[i - 1] = q[i])
  BY <1>1
<1> HIDE DEF w
<1>5. \A i \in 1 .. Len(w) : /\ IsEvent(w[i], s) => w[i].n \in lo + 1 .. hi
                             /\ w[i].stream = s => w[i].kind # "error"
  <2>. SUFFICES ASSUME NEW i \in 1 .. Len(w)
                PROVE  /\ IsEvent(w[i], s) => w[i].n \in lo + 1 .. hi
                       /\ w[i].stream = s => w[i].kind # "error"
    OBVIOUS
  <2>1. w[i] = q[i + 1] /\ i + 1 \in 1 .. Len(q)
    BY <1>1, <1>2
  <2>. QED
    BY <2>1 DEF Carries
<1>6. \A n \in lo + 1 .. hi : \E i \in 1 .. Len(w) : IsEvent(w[i], s) /\ w[i].n = n
  <2>. SUFFICES ASSUME NEW n \in lo + 1 .. hi
                PROVE  \E i \in 1 .. Len(w) : IsEvent(w[i], s) /\ w[i].n = n
    OBVIOUS
  <2>1. PICK i \in 1 .. Len(q) : IsEvent(q[i], s) /\ q[i].n = n
    BY DEF Carries
  <2>2. i # 1
    BY <1>1, <2>1
  <2>. QED
    BY <1>4, <2>1, <2>2
<1>7. \A i, j \in 1 .. Len(w) : i < j /\ IsEvent(w[j], s) =>
        ~IsEnd(w[i], s) /\ (IsEvent(w[i], s) => w[i].n < w[j].n)
  <2>. SUFFICES ASSUME NEW i \in 1 .. Len(w), NEW j \in 1 .. Len(w),
                       i < j, IsEvent(w[j], s)
                PROVE  ~IsEnd(w[i], s) /\ (IsEvent(w[i], s) => w[i].n < w[j].n)
    OBVIOUS
  <2>1. i + 1 < j + 1
    OBVIOUS
  <2>. QED
    BY <1>1, <1>2, <2>1 DEF Carries
<1>8. Carries(w, s, lo, hi)
  BY <1>5, <1>6, <1>7 DEF Carries
<1>9. ASSUME IsEnd(Head(q), s) PROVE lo = hi
  <2>1. ASSUME NEW i \in 1 .. Len(w) PROVE ~IsEvent(w[i], s)
    <3>1. 1 < i + 1
      OBVIOUS
    <3>. QED
      BY <1>1, <1>2, <1>3, <1>9, <3>1 DEF Carries
  <2>. QED
    BY <1>1, <1>8, <2>1, CarriesNothing
<1>. QED
  BY <1>8, <1>9 DEF w

LEMMA TailEvent ==
  ASSUME NEW q \in Seq(Envelope), q # <<>>, NEW s,
         NEW lo \in Nat, NEW hi \in Nat,
         Carries(q, s, lo, hi), IsEvent(Head(q), s)
  PROVE  Head(q).n = lo + 1 /\ lo < hi /\ Carries(Tail(q), s, lo + 1, hi)
<1> DEFINE w == Tail(q)
<1>1. /\ w \in Seq(Envelope) /\ Len(q) \in Nat \ {0} /\ Len(w) = Len(q) - 1
      /\ Head(q) = q[1] /\ \A i \in 1 .. Len(w) : w[i] = q[i + 1]
  BY TailFacts
<1>2. \A i \in 1 .. Len(w) : i + 1 \in 1 .. Len(q)
  BY <1>1
<1>3. 1 \in 1 .. Len(q) /\ Len(w) \in Nat
  BY <1>1
<1>4. \A i \in 1 .. Len(q) : i = 1 \/ (i - 1 \in 1 .. Len(w) /\ w[i - 1] = q[i])
  BY <1>1
<1> HIDE DEF w
<1>5. \A i \in 1 .. Len(q) : IsEvent(q[i], s) => q[i].n \in lo + 1 .. hi
  BY DEF Carries
<1>6. q[1].n \in lo + 1 .. hi
  BY <1>1, <1>3, <1>5
<1>7. \A i \in 1 .. Len(w) : IsEvent(w[i], s) => q[1].n < w[i].n
  <2>. SUFFICES ASSUME NEW i \in 1 .. Len(w), IsEvent(w[i], s)
                PROVE  q[1].n < w[i].n
    OBVIOUS
  <2>1. 1 < i + 1
    OBVIOUS
  <2>. QED
    BY <1>1, <1>2, <1>3, <2>1 DEF Carries
<1>8. q[1].n = lo + 1
  <2>1. lo + 1 \in lo + 1 .. hi
    BY <1>6
  <2>2. PICK i \in 1 .. Len(q) : IsEvent(q[i], s) /\ q[i].n = lo + 1
    BY <2>1 DEF Carries
  <2>3. CASE i = 1
    BY <2>2, <2>3
  <2>4. CASE i - 1 \in 1 .. Len(w) /\ w[i - 1] = q[i]
    BY <1>6, <1>7, <2>2, <2>4
  <2>. QED
    BY <1>4, <2>3, <2>4
<1>9. \A i \in 1 .. Len(w) :
        /\ IsEvent(w[i], s) => w[i].n \in lo + 1 + 1 .. hi
        /\ w[i].stream = s => w[i].kind # "error"
  <2>. SUFFICES ASSUME NEW i \in 1 .. Len(w)
                PROVE  /\ IsEvent(w[i], s) => w[i].n \in lo + 1 + 1 .. hi
                       /\ w[i].stream = s => w[i].kind # "error"
    OBVIOUS
  <2>1. w[i] = q[i + 1] /\ i + 1 \in 1 .. Len(q)
    BY <1>1, <1>2
  <2>2. w[i].stream = s => w[i].kind # "error"
    BY <2>1 DEF Carries
  <2>3. IsEvent(w[i], s) => w[i].n \in lo + 1 .. hi /\ lo + 1 < w[i].n
    BY <1>5, <1>7, <1>8, <2>1
  <2>. QED
    BY <2>2, <2>3
<1>10. \A n \in lo + 1 + 1 .. hi :
         \E i \in 1 .. Len(w) : IsEvent(w[i], s) /\ w[i].n = n
  <2>. SUFFICES ASSUME NEW n \in lo + 1 + 1 .. hi
                PROVE  \E i \in 1 .. Len(w) : IsEvent(w[i], s) /\ w[i].n = n
    OBVIOUS
  <2>1. n \in lo + 1 .. hi
    OBVIOUS
  <2>2. PICK i \in 1 .. Len(q) : IsEvent(q[i], s) /\ q[i].n = n
    BY <2>1 DEF Carries
  <2>3. i # 1
    BY <1>8, <2>2
  <2>. QED
    BY <1>4, <2>2, <2>3
<1>11. \A i, j \in 1 .. Len(w) : i < j /\ IsEvent(w[j], s) =>
        ~IsEnd(w[i], s) /\ (IsEvent(w[i], s) => w[i].n < w[j].n)
  <2>. SUFFICES ASSUME NEW i \in 1 .. Len(w), NEW j \in 1 .. Len(w),
                       i < j, IsEvent(w[j], s)
                PROVE  ~IsEnd(w[i], s) /\ (IsEvent(w[i], s) => w[i].n < w[j].n)
    OBVIOUS
  <2>1. i + 1 < j + 1
    OBVIOUS
  <2>. QED
    BY <1>1, <1>2, <2>1 DEF Carries
<1>12. lo + 1 <= hi
  BY <1>6
<1>. QED
  BY <1>1, <1>8, <1>9, <1>10, <1>11, <1>12 DEF Carries, w

LEMMA HasEndAppend ==
  ASSUME NEW q \in Seq(Envelope), NEW m \in Envelope, NEW s,
         HasEnd(Append(q, m), s)
  PROVE  HasEnd(q, s) \/ IsEnd(m, s)
<1>1. /\ Len(q) \in Nat /\ Len(Append(q, m)) = Len(q) + 1
      /\ Append(q, m)[Len(q) + 1] = m
      /\ \A i \in 1 .. Len(q) : Append(q, m)[i] = q[i]
  BY AppendFacts
<1>2. PICK i \in 1 .. Len(Append(q, m)) : IsEnd(Append(q, m)[i], s)
  BY DEF HasEnd
<1>3. i \in 1 .. Len(q) \/ i = Len(q) + 1
  BY <1>1
<1>. QED
  BY <1>1, <1>2, <1>3 DEF HasEnd

LEMMA HasEndTail ==
  ASSUME NEW q \in Seq(Envelope), q # <<>>, NEW s, HasEnd(Tail(q), s)
  PROVE  HasEnd(q, s)
<1>1. /\ Len(q) \in Nat /\ Len(Tail(q)) = Len(q) - 1
      /\ \A i \in 1 .. Len(Tail(q)) : Tail(q)[i] = q[i + 1]
  BY TailFacts
<1>2. PICK i \in 1 .. Len(Tail(q)) : IsEnd(Tail(q)[i], s)
  BY DEF HasEnd
<1>3. i + 1 \in 1 .. Len(q)
  BY <1>1
<1>. QED
  BY <1>1, <1>2, <1>3 DEF HasEnd

\* What happens to the wire leaves the events of s on it.
WireKeeps(s) ==
  \/ wire' = wire
  \/ /\ wire # <<>> /\ wire' = Tail(wire)
     /\ ~IsEvent(Head(wire), s) /\ ~IsStart(Head(wire), s)
  \/ \E m \in Envelope :
       /\ wire' = Append(wire, m) /\ ~IsEvent(m, s)
       /\ m.stream = s => m.kind # "error"

LEMMA WireFlows ==
  ASSUME wire \in Seq(Envelope), NEW s, WireKeeps(s)
  PROVE  /\ \A lo, hi \in Nat : Carries(wire, s, lo, hi) => Carries(wire', s, lo, hi)
         /\ ~NoStart(s) => ~NoStart(s)'
<1>1. CASE wire' = wire
  BY <1>1 DEF NoStart
<1>2. CASE wire # <<>> /\ wire' = Tail(wire) /\ ~IsEvent(Head(wire), s)
             /\ ~IsStart(Head(wire), s)
  <2>1. /\ Len(wire) \in Nat \ {0} /\ Len(wire') = Len(wire) - 1
        /\ Head(wire) = wire[1] /\ \A i \in 1 .. Len(wire') : wire'[i] = wire[i + 1]
    BY <1>2, TailFacts
  <2>2. ASSUME ~NoStart(s) PROVE ~NoStart(s)'
    <3>1. PICK i \in 1 .. Len(wire) : IsStart(wire[i], s)
      BY <2>2 DEF NoStart
    <3>2. i # 1
      BY <1>2, <2>1, <3>1
    <3>3. i - 1 \in 1 .. Len(wire') /\ wire'[i - 1] = wire[i]
      BY <2>1, <3>2
    <3>. QED
      BY <3>1, <3>3 DEF NoStart
  <2>. QED
    BY <1>2, <2>2, TailOther
<1>3. ASSUME NEW m \in Envelope, wire' = Append(wire, m), ~IsEvent(m, s),
             m.stream = s => m.kind # "error"
      PROVE  /\ \A lo, hi \in Nat :
                  Carries(wire, s, lo, hi) => Carries(wire', s, lo, hi)
             /\ ~NoStart(s) => ~NoStart(s)'
  <2>1. /\ Len(wire) \in Nat /\ Len(wire') = Len(wire) + 1
        /\ \A i \in 1 .. Len(wire) : wire'[i] = wire[i]
    BY <1>3, AppendFacts
  <2>2. 1 .. Len(wire) \subseteq 1 .. Len(wire')
    BY <2>1
  <2>. QED
    BY <1>3, <2>1, <2>2, AppendOther DEF NoStart
<1>. QED
  BY <1>1, <1>2, <1>3 DEF WireKeeps

LEMMA Ranges ==
  ASSUME IInv, Tasks, NEW s \in Streams
  PROVE  /\ wire \in Seq(Envelope) /\ queue[s] \in Seq(Envelope)
         /\ shown[s] \in Seq(Nat) /\ Len(shown[s]) \in Nat
         /\ sent[s] \in Nat /\ started[s] \in Nat /\ Events[s] \in Nat
  BY RemoteStreamsAssumption DEF IInv, Typed, Tasks

LEMMA PipedSteady ==
  ASSUME IInv, Tasks, NEW s \in Streams, Piped(s), WireKeeps(s),
         queue'[s] = queue[s], shown'[s] = shown[s], sent'[s] = sent[s]
  PROVE  Piped(s)'
<1>1. PICK mid \in Nat : /\ Carries(queue[s], s, Len(shown[s]), mid)
                         /\ Carries(wire, s, mid, sent[s])
                         /\ HasEnd(queue[s], s) => mid = Events[s]
  BY DEF Piped
<1>2. Carries(wire', s, mid, sent[s])
  BY <1>1, Ranges, WireFlows
<1>. QED
  BY <1>1, <1>2 DEF Piped

\* A step of another stream, or one of s that does not touch its reply.
Same(s) ==
  /\ queue'[s] = queue[s] /\ shown'[s] = shown[s] /\ sent'[s] = sent[s]
  /\ hub'[s] = hub[s] /\ drain'[s] = drain[s] /\ started'[s] = started[s]
  /\ s \in refused \cup originals => s \in refused' \cup originals'
  /\ HasEnd(wire', s) => HasEnd(wire, s)

LEMMA Steady ==
  ASSUME IInv, Tasks, NEW s \in Streams, Flow(s), WireKeeps(s), Same(s)
  PROVE  Flow(s)'
<1>1. Piped(s)'
  BY PipedSteady DEF Flow, Same
<1>2. Published(s)'
  BY DEF Flow, Published, Same
<1>3. Complete(s)'
  BY DEF Flow, Complete, Same
<1>4. Resolved(s)'
  BY Ranges, WireFlows DEF Flow, Resolved, Same
<1>. QED
  BY <1>1, <1>2, <1>3, <1>4 DEF Flow

-----------------------------------------------------------------------------
(* The hub *)

LEMMA HubFlow ==
  ASSUME IInv, Tasks, NEW t \in Streams, HubNext(t),
         NEW s \in Streams \ spoiled', s \notin spoiled => Flow(s)
  PROVE  Flow(s)'
<1>1. /\ UNCHANGED <<queue, shown, drain, started, refused, originals>>
      /\ spoiled \subseteq spoiled'
  BY DEF HubNext, StreamStart, PublishEvent, PublishEnd, Keepalive, StreamFails,
         Drained, Abandon, Send, HubStep, msgVars, drainVars, Spoil
<1>2. Flow(s) /\ s \in Streams
  BY <1>1
<1>3. /\ Env(t, "start") \in Envelope /\ Env(t, "end") \in Envelope
      /\ Env(t, "keepalive") \in Envelope /\ Env(t, "error") \in Envelope
      /\ Env(t, "send") \in Envelope
      /\ EventOf(t, sent[t] + 1) \in Envelope
  BY DEF Env, EventOf, Envelope, Kinds, IInv, Typed
<1>4. \A k : Env(t, k).stream = t /\ Env(t, k).kind = k
  BY DEF Env
<1>5. wire \in Seq(Envelope)
  BY DEF IInv, Typed
<1>6. CASE s # t
  <2>1. wire' = wire \/ \E m \in Envelope : m.stream = t /\ wire' = Append(wire, m)
    <3>1. EventOf(t, sent[t] + 1).stream = t
      BY DEF EventOf
    <3>. QED
      BY <1>3, <1>4, <3>1
      DEF HubNext, StreamStart, PublishEvent, PublishEnd, Keepalive, StreamFails,
          Drained, Abandon, Send, Publish
  <2>2. WireKeeps(s)
    BY <1>6, <2>1 DEF WireKeeps, IsEvent
  <2>3. hub'[s] = hub[s] /\ sent'[s] = sent[s]
    BY <1>6 DEF HubNext, StreamStart, PublishEvent, PublishEnd, Keepalive,
                StreamFails, Drained, Abandon, Send, IInv, Typed
  <2>4. HasEnd(wire', s) => HasEnd(wire, s)
    <3>1. CASE wire' = wire
      BY <3>1
    <3>2. ASSUME NEW m \in Envelope, m.stream = t, wire' = Append(wire, m)
          PROVE  HasEnd(wire', s) => HasEnd(wire, s)
      BY <1>5, <1>6, <3>2, HasEndAppend DEF IsEnd
    <3>. QED
      BY <2>1, <3>1, <3>2
  <2>5. Same(s)
    BY <1>1, <2>3, <2>4 DEF Same
  <2>. QED
    BY <1>2, <2>2, <2>5, Steady
<1>7. CASE s = t
  <2>1. CASE StreamStart(s)
    <3> DEFINE m == Env(s, "start")
    <3>1. m \in Envelope /\ m.stream = s /\ m.kind = "start"
      BY <1>3, <1>4, <1>7
    <3>2. wire' = Append(wire, m) /\ sent' = sent /\ hub'[s] = "open"
      BY <2>1 DEF StreamStart, Publish, IInv, Typed
    <3> HIDE DEF m
    <3>3. WireKeeps(s)
      BY <3>1, <3>2 DEF WireKeeps, IsEvent
    <3>4. Piped(s)'
      BY <1>1, <1>2, <3>2, <3>3, PipedSteady DEF Flow
    <3>5. Published(s)'
      BY <1>2, <1>5, <3>1, <3>2, HasEndAppend DEF Flow, Published, IsEnd
    <3>6. Complete(s)'
      BY <1>1, <1>2 DEF Flow, Complete
    <3>7. ~NoStart(s)'
      <4>1. Len(wire') = Len(wire) + 1 /\ Len(wire) \in Nat /\ wire'[Len(wire) + 1] = m
        BY <1>5, <3>1, <3>2, AppendFacts
      <4>2. Len(wire) + 1 \in 1 .. Len(wire')
        BY <4>1
      <4>. QED
        BY <3>1, <4>1, <4>2 DEF NoStart, IsStart
    <3>. QED
      BY <3>4, <3>5, <3>6, <3>7 DEF Flow, Resolved
  <2>2. CASE PublishEvent(s)
    <3> DEFINE m == EventOf(s, sent[s] + 1)
    <3>1. m \in Envelope /\ IsEvent(m, s) /\ m.n = sent[s] + 1 /\ ~IsEnd(m, s)
      BY <1>3, <1>7 DEF EventOf, IsEvent, IsEnd
    <3>2. /\ wire' = Append(wire, m) /\ hub' = hub /\ hub[s] = "open"
          /\ sent[s] < Events[s] /\ sent'[s] = sent[s] + 1
      BY <2>2 DEF PublishEvent, Publish, IInv, Typed
    <3> HIDE DEF m
    <3>3. ~HasEnd(wire, s)
      BY <1>2, <3>2, Ranges DEF Flow, Published
    <3>4. ~HasEnd(wire', s)
      BY <1>5, <3>1, <3>2, <3>3, HasEndAppend
    <3>5. Published(s)'
      BY <1>2, <3>2, <3>4, Ranges DEF Flow, Published
    <3>6. PICK mid \in Nat : /\ Carries(queue[s], s, Len(shown[s]), mid)
                             /\ Carries(wire, s, mid, sent[s])
                             /\ HasEnd(queue[s], s) => mid = Events[s]
      BY <1>2 DEF Flow, Piped
    <3>7. Carries(wire', s, mid, sent'[s])
      BY <1>5, <3>1, <3>2, <3>3, <3>6, Ranges, AppendEvent
    <3>8. Piped(s)'
      BY <1>1, <1>2, <3>6, <3>7 DEF Flow, Piped
    <3>9. Complete(s)'
      BY <1>1, <1>2 DEF Flow, Complete
    <3>10. ~NoStart(s) => ~NoStart(s)'
      <4>1. /\ Len(wire) \in Nat /\ Len(wire') = Len(wire) + 1
            /\ \A i \in 1 .. Len(wire) : wire'[i] = wire[i]
        BY <1>5, <3>1, <3>2, AppendFacts
      <4>2. 1 .. Len(wire) \subseteq 1 .. Len(wire')
        BY <4>1
      <4>. QED
        BY <4>1, <4>2 DEF NoStart
    <3>11. Resolved(s)'
      BY <1>1, <1>2, <3>2, <3>10 DEF Flow, Resolved
    <3>. QED
      BY <3>5, <3>8, <3>9, <3>11 DEF Flow
  <2>3. CASE PublishEnd(s)
    <3> DEFINE m == Env(s, "end")
    <3>1. m \in Envelope /\ m.stream = s /\ m.kind = "end"
      BY <1>3, <1>4, <1>7
    <3>2. /\ wire' = Append(wire, m) /\ sent' = sent /\ hub'[s] = "done"
          /\ hub[s] = "open" /\ sent[s] = Events[s]
      BY <2>3 DEF PublishEnd, Publish, IInv, Typed
    <3> HIDE DEF m
    <3>3. WireKeeps(s)
      BY <3>1, <3>2 DEF WireKeeps, IsEvent
    <3>4. Piped(s)'
      BY <1>1, <1>2, <3>2, <3>3, PipedSteady DEF Flow
    <3>5. Published(s)'
      BY <1>2, <3>2 DEF Flow, Published
    <3>6. Complete(s)'
      BY <1>1, <1>2 DEF Flow, Complete
    <3>7. Resolved(s)'
      BY <1>1, <1>2, <1>5, <3>2, <3>3, WireFlows DEF Flow, Resolved
    <3>. QED
      BY <3>4, <3>5, <3>6, <3>7 DEF Flow
  <2>4. CASE Keepalive(s) \/ Send(s)
    <3>1. PICK m \in Envelope : /\ wire' = Append(wire, m) /\ m.stream = s
                                /\ m.kind \in {"keepalive", "send"}
      BY <1>3, <1>4, <1>7, <2>4 DEF Keepalive, Send, Publish
    <3>2. UNCHANGED <<hub, sent>>
      BY <2>4 DEF Keepalive, Send
    <3>3. WireKeeps(s)
      BY <3>1 DEF WireKeeps, IsEvent
    <3>4. Same(s)
      BY <1>1, <1>5, <3>1, <3>2, HasEndAppend DEF Same, IsEnd
    <3>. QED
      BY <1>2, <3>3, <3>4, Steady
  <2>5. CASE StreamFails(s) \/ Abandon(s)
    BY <2>5 DEF StreamFails, Abandon, Spoil
  <2>6. CASE Drained(s)
    BY <1>2, <2>6 DEF Drained, Flow, Published
  <2>. QED
    BY <1>7, <2>1, <2>2, <2>3, <2>4, <2>5, <2>6 DEF HubNext
<1>. QED
  BY <1>6, <1>7

-----------------------------------------------------------------------------
(* The subscription callback *)

\* The first envelope is taken: nothing changes for the other streams.
LEMMA OtherTaken ==
  ASSUME IInv, Tasks, NEW s \in Streams, Flow(s),
         wire' = wire \/ (wire # <<>> /\ wire' = Tail(wire)
                            /\ ~IsEvent(Head(wire), s) /\ ~IsStart(Head(wire), s)),
         queue'[s] = queue[s], shown'[s] = shown[s], sent'[s] = sent[s],
         hub'[s] = hub[s], drain'[s] = drain[s], started'[s] = started[s],
         s \in refused \cup originals => s \in refused' \cup originals'
  PROVE  Flow(s)'
<1>1. WireKeeps(s)
  BY DEF WireKeeps
<1>2. HasEnd(wire', s) => HasEnd(wire, s)
  BY Ranges, HasEndTail
<1>3. Same(s)
  BY <1>2 DEF Same
<1>. QED
  BY <1>1, <1>3, Steady

\* A chunk that is put in its queue.
LEMMA ChunkFlow ==
  ASSUME IInv, Tasks, NEW s \in Streams, Flow(s), Arrives(s, Chunks), Accepted(s),
         queue' = [queue EXCEPT ![s] = Append(@, Head(wire))],
         drain' = [drain EXCEPT ![s] = IF Live(s) THEN @ ELSE "created"],
         UNCHANGED <<hub, sent, shown, started, refused, originals>>
  PROVE  Flow(s)'
<1> DEFINE m == Head(wire)
<1>1. /\ wire # <<>> /\ wire' = Tail(wire) /\ m.stream = s /\ m.kind \in Chunks
      /\ wire \in Seq(Envelope) /\ queue[s] \in Seq(Envelope)
  BY Ranges DEF Arrives
<1>2. m \in Envelope
  BY <1>1
<1>3. queue'[s] = Append(queue[s], m)
  BY DEF Tasks
<1>4. drain'[s] = IF Live(s) THEN drain[s] ELSE "created"
  BY DEF IInv, Typed
<1> HIDE DEF m
<1>5. ~IsStart(m, s) /\ m.kind # "error"
  BY <1>1 DEF IsStart, Chunks
<1>6. HasEnd(wire', s) => HasEnd(wire, s)
  BY <1>1, HasEndTail
<1>7. ~NoStart(s) => ~NoStart(s)'
  <2>1. /\ Len(wire) \in Nat \ {0} /\ Len(wire') = Len(wire) - 1
        /\ m = wire[1] /\ \A i \in 1 .. Len(wire') : wire'[i] = wire[i + 1]
    BY <1>1, TailFacts DEF m
  <2>2. ASSUME ~NoStart(s) PROVE ~NoStart(s)'
    <3>1. PICK i \in 1 .. Len(wire) : IsStart(wire[i], s)
      BY <2>2 DEF NoStart
    <3>2. i # 1
      BY <1>5, <2>1, <3>1
    <3>3. i - 1 \in 1 .. Len(wire') /\ wire'[i - 1] = wire[i]
      BY <2>1, <3>2
    <3>. QED
      BY <3>1, <3>3 DEF NoStart
  <2>. QED
    BY <2>2
<1>8. PICK mid \in Nat : /\ Carries(queue[s], s, Len(shown[s]), mid)
                         /\ Carries(wire, s, mid, sent[s])
                         /\ HasEnd(queue[s], s) => mid = Events[s]
  BY DEF Flow, Piped
<1>9. mid <= sent[s] /\ sent[s] <= Events[s]
  BY <1>8 DEF Carries, Flow, Published
<1>10. Piped(s)'
  <2>1. CASE IsEvent(m, s)
    <3>1. m.n = mid + 1 /\ mid < sent[s] /\ Carries(wire', s, mid + 1, sent[s])
      BY <1>1, <1>8, <2>1, Ranges, TailEvent DEF m
    <3>2. ~HasEnd(queue[s], s)
      BY <1>8, <1>9, <3>1, Ranges
    <3>3. Carries(queue'[s], s, Len(shown[s]), mid + 1)
      BY <1>1, <1>2, <1>3, <1>8, <2>1, <3>1, <3>2, Ranges, AppendEvent
    <3>4. ~HasEnd(queue'[s], s)
      BY <1>1, <1>2, <1>3, <2>1, <3>2, HasEndAppend DEF IsEvent, IsEnd
    <3>. QED
      BY <3>1, <3>3, <3>4 DEF Piped, Flow
  <2>2. CASE ~IsEvent(m, s)
    <3>1. Carries(wire', s, mid, sent[s]) /\ (IsEnd(m, s) => mid = sent[s])
      BY <1>1, <1>8, <2>2, Ranges, TailOther DEF m
    <3>2. Carries(queue'[s], s, Len(shown[s]), mid)
      BY <1>1, <1>2, <1>3, <1>5, <1>8, <2>2, Ranges, AppendOther
    <3>3. ASSUME IsEnd(m, s) PROVE mid = Events[s]
      <4>1. HasEnd(wire, s)
        <5>1. 1 \in 1 .. Len(wire) /\ m = wire[1]
          BY <1>1, TailFacts DEF m
        <5>. QED
          BY <3>3, <5>1 DEF HasEnd
      <4>. QED
        BY <3>1, <3>3, <4>1 DEF Flow, Published
    <3>4. HasEnd(queue'[s], s) => mid = Events[s]
      BY <1>1, <1>2, <1>3, <1>8, <3>3, HasEndAppend
    <3>. QED
      BY <3>1, <3>2, <3>4 DEF Piped, Flow
  <2>. QED
    BY <2>1, <2>2
<1>11. Published(s)'
  BY <1>6 DEF Flow, Published
<1>12. Complete(s)'
  BY <1>4 DEF Flow, Complete, Live
<1>13. Resolved(s)'
  BY <1>7 DEF Flow, Resolved
<1>. QED
  BY <1>10, <1>11, <1>12, <1>13 DEF Flow

LEMMA HandleFlow ==
  ASSUME IInv, Tasks, NEW t \in Streams, Handle(t),
         NEW s \in Streams \ spoiled', s \notin spoiled => Flow(s)
  PROVE  Flow(s)'
<1>1. /\ UNCHANGED <<hub, sent, shown, started>> /\ spoiled \subseteq spoiled'
      /\ \A u \in refused \cup originals : u \in refused' \cup originals'
  BY DEF Handle, HandleSend, SendReturns, HandleStreamStart, HandleChunk,
         HandleStreamError, hubVars, msgVars, drainVars, Spoil
<1>2. Flow(s) /\ s \in Streams
  BY <1>1
<1>3. wire \in Seq(Envelope)
  BY DEF IInv, Typed
<1>4. CASE SendReturns(t)
  BY <1>1, <1>2, <1>4, OtherTaken DEF SendReturns, drainVars
<1>5. CASE ~SendReturns(t)
  <2>1. /\ wire # <<>> /\ wire' = Tail(wire) /\ Head(wire).stream = t
    BY <1>5 DEF Handle, HandleSend, HandleStreamStart, HandleChunk,
                HandleStreamError, Arrives
  <2>2. CASE s # t
    <3>1. queue'[s] = queue[s] /\ drain'[s] = drain[s]
      BY <1>5, <2>2
      DEF Handle, HandleSend, HandleStreamStart, HandleChunk, HandleStreamError,
          drainVars, Tasks, IInv, Typed
    <3>. QED
      BY <1>1, <1>2, <2>1, <2>2, <3>1, OtherTaken DEF IsEvent, IsStart
  <2>3. CASE s = t
    <3>1. CASE HandleSend(s)
      BY <1>1, <1>2, <2>1, <3>1, OtherTaken
      DEF HandleSend, Arrives, IsEvent, IsStart, drainVars
    <3>2. CASE HandleStreamStart(s)
      <4>1. /\ Head(wire).kind = "start" /\ UNCHANGED <<queue, drain>>
            /\ s \in refused' \cup originals'
        BY <3>2 DEF HandleStreamStart, Arrives, drainVars
      <4>2. HasEnd(wire', s) => HasEnd(wire, s)
        BY <1>3, <2>1, HasEndTail
      <4>3. PICK mid \in Nat : /\ Carries(queue[s], s, Len(shown[s]), mid)
                               /\ Carries(wire, s, mid, sent[s])
                               /\ HasEnd(queue[s], s) => mid = Events[s]
        BY <1>2 DEF Flow, Piped
      <4>4. Carries(wire', s, mid, sent[s])
        BY <1>2, <1>3, <2>1, <4>1, <4>3, Ranges, TailOther DEF IsEvent
      <4>5. Piped(s)'
        BY <1>1, <1>2, <4>1, <4>3, <4>4 DEF Flow, Piped
      <4>. QED
        BY <1>1, <1>2, <4>1, <4>2, <4>5
        DEF Flow, Published, Complete, Resolved
    <3>3. CASE HandleChunk(s)
      <4>1. Arrives(s, Chunks) /\ UNCHANGED <<refused, originals>>
        BY <3>3 DEF HandleChunk, msgVars
      <4>2. CASE Accepted(s)
        BY <1>1, <1>2, <3>3, <4>1, <4>2, ChunkFlow DEF HandleChunk
      <4>3. CASE ~Accepted(s)
        <5>1. UNCHANGED <<queue, drain>> /\ Head(wire).kind # "event"
          BY <3>3, <4>3 DEF HandleChunk, Spoil
        <5>. QED
          BY <1>1, <1>2, <2>1, <4>1, <5>1, OtherTaken
          DEF Arrives, Chunks, IsEvent, IsStart
      <4>. QED
        BY <4>2, <4>3
    <3>4. CASE HandleStreamError(s)
      <4>1. Head(wire).kind = "error"
        BY <3>4 DEF HandleStreamError, Arrives
      <4>2. 1 \in 1 .. Len(wire) /\ Head(wire) = wire[1]
        BY <1>3, <2>1, TailFacts
      <4>. QED
        BY <1>2, <2>1, <2>3, <4>1, <4>2 DEF Flow, Piped, Carries
    <3>. QED
      BY <1>5, <2>3, <3>1, <3>2, <3>3, <3>4 DEF Handle
  <2>. QED
    BY <2>2, <2>3
<1>. QED
  BY <1>4, <1>5

-----------------------------------------------------------------------------
(* The drain task *)

\* A reply that was shown in full has no event left anywhere.
LEMMA AllShown ==
  ASSUME IInv, Tasks, NEW s \in Streams, Flow(s), Len(shown[s]) = Events[s]
  PROVE  sent[s] = Events[s] /\ Carries(wire, s, Events[s], Events[s])
<1>1. PICK mid \in Nat : /\ Carries(queue[s], s, Len(shown[s]), mid)
                         /\ Carries(wire, s, mid, sent[s])
  BY DEF Flow, Piped
<1>2. Events[s] <= mid /\ mid <= sent[s] /\ sent[s] <= Events[s]
  BY <1>1 DEF Carries, Flow, Published
<1>3. mid = Events[s] /\ sent[s] = Events[s]
  BY <1>2, Ranges
<1>. QED
  BY <1>1, <1>3

\* So its queue may be thrown away.
LEMMA DropFlow ==
  ASSUME IInv, Tasks, NEW s \in Streams, Flow(s), Len(shown[s]) = Events[s],
         queue'[s] = <<>>, UNCHANGED <<hub, sent, wire, shown, started>>,
         started[s] > 0
  PROVE  Flow(s)'
<1>1. Carries(<<>>, s, Events[s], Events[s])
  BY Ranges, CarriesNone
<1>2. ~HasEnd(queue'[s], s)
  BY DEF HasEnd
<1>3. Piped(s)'
  BY <1>1, <1>2, AllShown, Ranges DEF Flow, Piped
<1>. QED
  BY <1>3 DEF Flow, Published, Complete, Resolved

LEMMA TakeFlow ==
  ASSUME IInv, Tasks, NEW s \in Streams, Flow(s), DrainTake(s)
  PROVE  Flow(s)'
<1> DEFINE m == Head(queue[s])
<1>1. /\ drain[s] = "stream" /\ queue[s] # <<>> /\ queue'[s] = Tail(queue[s])
      /\ UNCHANGED <<hub, sent, wire, started, refused, originals>>
      /\ drain'[s] = IF Terminal(m) THEN "closing" ELSE "stream"
  BY DEF DrainTake, DrainStep, hubVars, msgVars, Tasks, IInv, Typed
<1>2. /\ queue[s] \in Seq(Envelope) /\ started[s] > 0
      /\ m.stream = s
  <2>1. 1 \in 1 .. Len(queue[s]) /\ m = queue[s][1]
    BY <1>1, Ranges, TailFacts
  <2>. QED
    BY <1>1, <2>1, Ranges DEF Tasks
<1>3. PICK mid \in Nat : /\ Carries(queue[s], s, Len(shown[s]), mid)
                         /\ Carries(wire, s, mid, sent[s])
                         /\ HasEnd(queue[s], s) => mid = Events[s]
  BY DEF Flow, Piped
<1>4. Len(shown[s]) <= mid /\ mid <= sent[s] /\ sent[s] <= Events[s]
  BY <1>3 DEF Carries, Flow, Published
<1>5. HasEnd(queue'[s], s) => mid = Events[s]
  BY <1>1, <1>2, <1>3, HasEndTail
<1>6. CASE m.kind = "event"
  <2>1. IsEvent(m, s)
    BY <1>2, <1>6 DEF IsEvent
  <2>2. shown'[s] = Append(shown[s], m.n)
    BY <1>6 DEF DrainTake, Tasks
  <2> HIDE DEF m
  <2>3. /\ m.n = Len(shown[s]) + 1
        /\ Carries(queue'[s], s, Len(shown[s]) + 1, mid)
    BY <1>1, <1>2, <1>3, <2>1, Ranges, TailEvent DEF m
  <2>4. Len(shown'[s]) = Len(shown[s]) + 1
    BY <2>2, Ranges
  <2>5. shown'[s] = [n \in 1 .. Len(shown'[s]) |-> n]
    <3>1. shown[s] = [n \in 1 .. Len(shown[s]) |-> n]
      BY DEF Flow, Piped
    <3>2. \A n \in 1 .. Len(shown[s]) : shown[s][n] = n
      BY <3>1
    <3>3. /\ shown'[s] \in Seq(Nat)
          /\ \A n \in 1 .. Len(shown[s]) : shown'[s][n] = shown[s][n]
          /\ shown'[s][Len(shown[s]) + 1] = Len(shown[s]) + 1
      BY <2>2, <2>3, Ranges
    <3>4. \A n \in 1 .. Len(shown'[s]) :
            n \in 1 .. Len(shown[s]) \/ n = Len(shown[s]) + 1
      BY <2>4, Ranges
    <3>5. \A n \in 1 .. Len(shown'[s]) : shown'[s][n] = n
      BY <3>2, <3>3, <3>4
    <3>. QED
      BY <3>3, <3>5
  <2>6. Piped(s)'
    BY <1>1, <1>3, <1>5, <2>3, <2>4, <2>5 DEF Piped
  <2>7. Complete(s)'
    <3>1. ASSUME Terminal(m) PROVE Len(shown'[s]) = Events[s]
      BY <1>2, <1>6, <2>3, <2>4, <3>1 DEF Terminal
    <3>. QED
      BY <1>1, <3>1 DEF Complete
  <2>. QED
    BY <1>1, <1>2, <2>6, <2>7 DEF Flow, Published, Resolved
<1>7. CASE m.kind # "event"
  <2>1. ~IsEvent(m, s)
    BY <1>7 DEF IsEvent
  <2>2. shown' = shown
    BY <1>7 DEF DrainTake
  <2>3. m.kind # "error"
    <3>1. 1 \in 1 .. Len(queue[s]) /\ m = queue[s][1]
      BY <1>1, <1>2, TailFacts
    <3>. QED
      BY <1>2, <1>3, <3>1 DEF Carries
  <2> HIDE DEF m
  <2>4. /\ Carries(queue'[s], s, Len(shown[s]), mid)
        /\ IsEnd(m, s) => Len(shown[s]) = mid
    BY <1>1, <1>2, <1>3, <2>1, Ranges, TailOther DEF m
  <2>5. Piped(s)'
    BY <1>1, <1>3, <1>5, <2>2, <2>4 DEF Flow, Piped
  <2>6. Complete(s)'
    <3>1. ASSUME Terminal(m) PROVE Len(shown[s]) = Events[s]
      <4>1. IsEnd(m, s)
        BY <1>2, <1>7, <2>3, <3>1 DEF Terminal, IsEnd
      <4>2. HasEnd(queue[s], s)
        <5>1. 1 \in 1 .. Len(queue[s]) /\ m = queue[s][1]
          BY <1>1, <1>2, TailFacts DEF m
        <5>. QED
          BY <4>1, <5>1 DEF HasEnd
      <4>. QED
        BY <1>3, <2>4, <4>1, <4>2
    <3>. QED
      BY <1>1, <2>2, <3>1 DEF Complete
  <2>. QED
    BY <1>1, <1>2, <2>2, <2>5, <2>6 DEF Flow, Published, Resolved
<1>. QED
  BY <1>6, <1>7

LEMMA StartFlow ==
  ASSUME IInv, Tasks, NEW s \in Streams, Flow(s), DrainStart(s), s \notin spoiled'
  PROVE  Flow(s)'
<1>1. /\ drain[s] = "created" /\ UNCHANGED <<hub, sent, wire, shown, refused>>
  BY DEF DrainStart, DrainStep, hubVars
<1>2. ASSUME started' = [started EXCEPT ![s] = @ + 1],
             drain' = [drain EXCEPT ![s] = "stream"], UNCHANGED queue
      PROVE  Flow(s)'
  <2>1. started'[s] > 0 /\ drain'[s] = "stream"
    BY <1>2 DEF IInv, Typed
  <2>. QED
    BY <1>1, <1>2, <2>1 DEF Flow, Published, Piped, Complete, Resolved
<1>3. ASSUME s \notin cache \cup originals,
             queue' = [queue EXCEPT ![s] = <<>>], Spoil({s} \cap refused),
             UNCHANGED started
      PROVE  Flow(s)'
  <2>1. hub[s] # "idle" /\ NoStart(s)
    BY <1>1 DEF IInv, Begun, Live
  <2>2. s \notin refused
    BY <1>3 DEF Spoil
  <2>3. started[s] > 0
    BY <1>3, <2>1, <2>2 DEF Flow, Resolved
  <2>4. Len(shown[s]) = Events[s]
    BY <1>1, <2>3 DEF Flow, Complete
  <2>5. queue'[s] = <<>>
    BY <1>3 DEF Tasks
  <2>. QED
    BY <1>1, <1>3, <2>3, <2>4, <2>5, DropFlow
<1>. QED
  BY <1>2, <1>3 DEF DrainStart

LEMMA DrainFlow ==
  ASSUME IInv, Tasks, NEW t \in Streams, Drain(t) \/ DrainFails(t),
         NEW s \in Streams \ spoiled', s \notin spoiled => Flow(s)
  PROVE  Flow(s)'
<1>1. /\ UNCHANGED <<hub, sent, wire, refused>> /\ spoiled \subseteq spoiled'
  BY DEF Drain, DrainStart, DrainTake, DrainTimeout, DrainEnds, DrainFails,
         Cleanup, DrainStep, hubVars, Spoil
<1>2. Flow(s) /\ s \in Streams
  BY <1>1
<1>3. CASE s # t
  <2>1. s \in originals => s \in originals'
    BY <1>3 DEF Drain, DrainStart, DrainTake, DrainTimeout, DrainEnds,
                DrainFails, Cleanup, msgVars
  <2>2. queue'[s] = queue[s] /\ shown'[s] = shown[s]
    BY <1>3 DEF Drain, DrainStart, DrainTake, DrainTimeout, DrainEnds,
                DrainFails, Cleanup, Tasks
  <2>3. drain'[s] = drain[s] /\ started'[s] = started[s]
    BY <1>3 DEF Drain, DrainStart, DrainTake, DrainTimeout, DrainEnds,
                DrainFails, Cleanup, IInv, Typed
  <2>. QED
    BY <1>1, <1>2, <2>1, <2>2, <2>3, OtherTaken
<1>4. CASE s = t
  <2>1. CASE DrainStart(s)
    BY <1>2, <2>1, StartFlow
  <2>2. CASE DrainTake(s)
    BY <1>2, <2>2, TakeFlow
  <2>3. CASE DrainTimeout(s) \/ DrainFails(s)
    BY <2>3 DEF DrainTimeout, DrainFails, Spoil
  <2>4. CASE DrainEnds(s)
    <3>1. /\ drain[s] = "closing" /\ queue'[s] = <<>> /\ UNCHANGED <<shown, started>>
      BY <2>4 DEF DrainEnds, Cleanup, Tasks
    <3>2. started[s] > 0 /\ Len(shown[s]) = Events[s]
      BY <1>2, <3>1 DEF Tasks, Flow, Complete
    <3>. QED
      BY <1>1, <1>2, <3>1, <3>2, DropFlow
  <2>. QED
    BY <1>4, <2>1, <2>2, <2>3, <2>4 DEF Drain
<1>. QED
  BY <1>3, <1>4

-----------------------------------------------------------------------------
(* Reapers and faults *)

\* A reply not begun yet when the adapter restarts.
LEMMA IdleFlow ==
  ASSUME IInv, Tasks, NEW s \in Streams, Flow(s), hub[s] = "idle", Restart
  PROVE  Flow(s)'
<1>1. /\ wire' = <<>> /\ queue'[s] = <<>> /\ drain'[s] = "none"
      /\ UNCHANGED <<hub, sent, shown, started>>
  BY DEF Restart, hubVars
<1>2. started[s] = 0 /\ ~Live(s)
  BY Ranges DEF IInv, Begun
<1>3. PICK mid \in Nat : /\ Carries(queue[s], s, Len(shown[s]), mid)
                         /\ Carries(wire, s, mid, sent[s])
  BY DEF Flow, Piped
<1>4. \A i \in 1 .. Len(wire) : ~IsEvent(wire[i], s)
  BY DEF IInv, OnWire, IsEvent, Chunks
<1>5. mid = sent[s]
  BY <1>3, <1>4, Ranges, CarriesNothing
<1>6. Len(shown[s]) = mid
  <2>1. \A i \in 1 .. Len(queue[s]) : ~IsEvent(queue[s][i], s)
    BY <1>2 DEF Tasks
  <2>. QED
    BY <1>3, <2>1, Ranges, CarriesNothing
<1>7. Carries(<<>>, s, sent[s], sent[s])
  BY Ranges, CarriesNone
<1>8. ~HasEnd(<<>>, s)
  BY DEF HasEnd
<1>9. Piped(s)'
  BY <1>1, <1>5, <1>6, <1>7, <1>8, Ranges DEF Flow, Piped
<1>. QED
  BY <1>1, <1>2, <1>8, <1>9 DEF Flow, Published, Complete, Resolved

LEMMA RestFlow ==
  ASSUME IInv, Tasks, NEW s \in Streams \ spoiled', s \notin spoiled => Flow(s),
         \/ \E t \in Streams : Evict(t) \/ ReapTombstone(t)
         \/ Lose \/ Restart \/ UNCHANGED vars
  PROVE  Flow(s)'
<1>1. spoiled \subseteq spoiled'
  BY DEF Evict, ReapTombstone, Lose, Restart, vars, Spoil
<1>2. Flow(s) /\ s \in Streams
  BY <1>1
<1>3. CASE \/ \E t \in Streams : Evict(t) \/ ReapTombstone(t)
           \/ UNCHANGED vars
  <2>1. UNCHANGED <<wire, hub, sent, queue, drain, shown, started, refused,
                    originals>>
    BY <1>3 DEF Evict, ReapTombstone, vars, hubVars, msgVars, drainVars
  <2>. QED
    BY <1>2, <2>1, OtherTaken
<1>4. CASE Lose
  <2>1. /\ UNCHANGED <<hub, sent, queue, drain, shown, started, refused, originals>>
        /\ wire # <<>> /\ wire' = Tail(wire)
    BY <1>4 DEF Lose, hubVars, msgVars, drainVars
  <2>2. ~IsEvent(Head(wire), s) /\ ~IsStart(Head(wire), s)
    BY <1>4 DEF Lose, Spoil, IsEvent, IsStart
  <2>. QED
    BY <1>2, <2>1, <2>2, OtherTaken
<1>5. CASE Restart
  <2>1. hub[s] = "idle"
    BY <1>5 DEF Restart, Spoil
  <2>. QED
    BY <1>2, <1>5, <2>1, IdleFlow
<1>. QED
  BY <1>3, <1>4, <1>5

LEMMA TasksKeep == ASSUME IInv, Tasks, [Next]_vars PROVE Tasks'
<1>1. ASSUME UNCHANGED drainVars PROVE Tasks'
  BY <1>1 DEF Tasks, Live, drainVars
<1>2. ASSUME NEW s \in Streams, HandleChunk(s) PROVE Tasks'
  <2>1. UNCHANGED <<shown, started>> /\ wire # <<>> /\ Head(wire).stream = s
    BY <1>2 DEF HandleChunk, Arrives
  <2>2. CASE UNCHANGED <<queue, drain>>
    BY <1>1, <2>1, <2>2 DEF drainVars
  <2>3. CASE /\ queue' = [queue EXCEPT ![s] = Append(@, Head(wire))]
             /\ drain' = [drain EXCEPT ![s] = IF Live(s) THEN @ ELSE "created"]
    <3>1. Head(wire) \in Envelope /\ queue[s] \in Seq(Envelope)
      BY <2>1, Ranges
    <3>2. /\ queue' \in [Streams -> Seq(Envelope)] /\ queue'[s] = Append(queue[s], Head(wire))
          /\ \A t \in Streams \ {s} : queue'[t] = queue[t] /\ drain'[t] = drain[t]
          /\ drain'[s] = IF Live(s) THEN drain[s] ELSE "created"
      BY <2>3, <3>1 DEF Tasks, IInv, Typed
    <3>3. \A i \in 1 .. Len(queue'[s]) : queue'[s][i].stream = s
      <4>1. /\ Len(queue'[s]) = Len(queue[s]) + 1 /\ Len(queue[s]) \in Nat
            /\ \A i \in 1 .. Len(queue[s]) : queue'[s][i] = queue[s][i]
            /\ queue'[s][Len(queue[s]) + 1] = Head(wire)
        BY <3>1, <3>2, AppendFacts
      <4>2. \A i \in 1 .. Len(queue'[s]) :
              i \in 1 .. Len(queue[s]) \/ i = Len(queue[s]) + 1
        BY <4>1
      <4>3. \A i \in 1 .. Len(queue[s]) : queue[s][i].stream = s
        BY DEF Tasks
      <4>. QED
        BY <2>1, <4>1, <4>2, <4>3
    <3>4. ASSUME NEW t \in Streams
          PROVE  /\ \A i \in 1 .. Len(queue'[t]) : queue'[t][i].stream = t
                 /\ ~Live(t)' => queue'[t] = <<>>
                 /\ drain'[t] \in {"stream", "closing"} => started'[t] > 0
      <4>1. CASE t = s
        BY <2>1, <3>2, <3>3, <4>1 DEF Tasks, Live
      <4>2. CASE t # s
        BY <2>1, <3>2, <4>2 DEF Tasks, Live
      <4>. QED
        BY <4>1, <4>2
    <3>. QED
      BY <2>1, <3>2, <3>4 DEF Tasks
  <2>. QED
    BY <1>2, <2>2, <2>3 DEF HandleChunk
<1>3. ASSUME NEW s \in Streams, HandleStreamError(s) PROVE Tasks'
  <2>1. /\ UNCHANGED <<shown, started, drain>> /\ wire # <<>>
        /\ Head(wire).stream = s
    BY <1>3 DEF HandleStreamError, Arrives
  <2>2. CASE queue' = queue
    BY <1>1, <2>1, <2>2 DEF drainVars
  <2>3. CASE Live(s) /\ queue' = [queue EXCEPT ![s] = Append(@, Head(wire))]
    <3>1. Head(wire) \in Envelope /\ queue[s] \in Seq(Envelope)
      BY <2>1, Ranges
    <3>2. /\ queue' \in [Streams -> Seq(Envelope)] /\ queue'[s] = Append(queue[s], Head(wire))
          /\ \A t \in Streams \ {s} : queue'[t] = queue[t]
      BY <2>3, <3>1 DEF Tasks
    <3>3. \A i \in 1 .. Len(queue'[s]) : queue'[s][i].stream = s
      <4>1. /\ Len(queue'[s]) = Len(queue[s]) + 1 /\ Len(queue[s]) \in Nat
            /\ \A i \in 1 .. Len(queue[s]) : queue'[s][i] = queue[s][i]
            /\ queue'[s][Len(queue[s]) + 1] = Head(wire)
        BY <3>1, <3>2, AppendFacts
      <4>2. \A i \in 1 .. Len(queue'[s]) :
              i \in 1 .. Len(queue[s]) \/ i = Len(queue[s]) + 1
        BY <4>1
      <4>3. \A i \in 1 .. Len(queue[s]) : queue[s][i].stream = s
        BY DEF Tasks
      <4>. QED
        BY <2>1, <4>1, <4>2, <4>3
    <3>4. ASSUME NEW t \in Streams
          PROVE  /\ \A i \in 1 .. Len(queue'[t]) : queue'[t][i].stream = t
                 /\ ~Live(t)' => queue'[t] = <<>>
      <4>1. CASE t = s
        BY <2>1, <2>3, <3>3, <4>1 DEF Live
      <4>2. CASE t # s
        BY <2>1, <3>2, <4>2 DEF Tasks, Live
      <4>. QED
        BY <4>1, <4>2
    <3>. QED
      BY <2>1, <3>2, <3>4 DEF Tasks
  <2>4. CASE Live(s) /\ queue' = [queue EXCEPT ![s] = @]
    BY <1>1, <2>1, <2>4 DEF drainVars, Tasks
  <2>. QED
    BY <1>3, <2>2, <2>3, <2>4 DEF HandleStreamError
<1>4. ASSUME NEW s \in Streams, DrainTake(s) PROVE Tasks'
  <2>1. /\ drain[s] = "stream" /\ queue[s] # <<>> /\ UNCHANGED started
        /\ queue' = [queue EXCEPT ![s] = Tail(queue[s])]
        /\ drain' = [drain EXCEPT ![s] = IF Terminal(Head(queue[s]))
                                         THEN "closing" ELSE drain[s]]
        /\ \/ shown' = [shown EXCEPT ![s] = Append(shown[s], Head(queue[s]).n)]
           \/ shown' = shown
    BY <1>4 DEF DrainTake
  <2>2. /\ Tail(queue[s]) \in Seq(Envelope)
        /\ \A i \in 1 .. Len(Tail(queue[s])) : Tail(queue[s])[i].stream = s
    <3>1. /\ Tail(queue[s]) \in Seq(Envelope) /\ Len(queue[s]) \in Nat
          /\ Len(Tail(queue[s])) = Len(queue[s]) - 1
          /\ \A i \in 1 .. Len(Tail(queue[s])) : Tail(queue[s])[i] = queue[s][i + 1]
      BY <2>1, Ranges, TailFacts
    <3>2. \A i \in 1 .. Len(Tail(queue[s])) : i + 1 \in 1 .. Len(queue[s])
      BY <3>1
    <3>. QED
      BY <3>1, <3>2 DEF Tasks
  <2>3. Append(shown[s], Head(queue[s]).n) \in Seq(Nat)
    <3>1. Head(queue[s]) \in Envelope
      BY <2>1, Ranges
    <3>. QED
      BY <3>1, Ranges DEF Envelope
  <2>4. DOMAIN shown' = Streams /\ \A t \in Streams : shown'[t] \in Seq(Nat)
    BY <2>1, <2>3 DEF Tasks
  <2>5. queue' \in [Streams -> Seq(Envelope)] /\ drain'[s] \in {"stream", "closing"}
    BY <2>1, <2>2 DEF Tasks, IInv, Typed
  <2>6. ASSUME NEW t \in Streams
        PROVE  /\ \A i \in 1 .. Len(queue'[t]) : queue'[t][i].stream = t
               /\ ~Live(t)' => queue'[t] = <<>>
               /\ drain'[t] \in {"stream", "closing"} => started'[t] > 0
    <3>1. CASE t = s
      BY <2>1, <2>2, <2>5, <3>1 DEF Tasks, Live
    <3>2. CASE t # s
      BY <2>1, <3>2 DEF Tasks, Live
    <3>. QED
      BY <3>1, <3>2
  <2>. QED
    BY <2>4, <2>5, <2>6 DEF Tasks
<1>5. ASSUME NEW s \in Streams,
             DrainStart(s) \/ DrainTimeout(s) \/ DrainEnds(s) \/ DrainFails(s)
      PROVE  Tasks'
  <2>1. CASE DrainStart(s)
    <3>1. CASE /\ drain' = [drain EXCEPT ![s] = "stream"]
               /\ started' = [started EXCEPT ![s] = @ + 1] /\ queue' = queue
      BY <2>1, <3>1 DEF DrainStart, Tasks, IInv, Typed, Live
    <3>2. CASE /\ drain' = [drain EXCEPT ![s] = "none"] /\ started' = started
               /\ queue' = [queue EXCEPT ![s] = <<>>]
      BY <2>1, <3>2 DEF DrainStart, Tasks, IInv, Typed, Live
    <3>. QED
      BY <2>1, <3>1, <3>2 DEF DrainStart
  <2>2. CASE DrainTimeout(s)
    BY <2>2 DEF DrainTimeout, Tasks, IInv, Typed, Live
  <2>3. CASE Cleanup(s)
    BY <2>3 DEF Cleanup, Tasks, IInv, Typed, Live
  <2>. QED
    BY <1>5, <2>1, <2>2, <2>3 DEF DrainEnds, DrainFails
<1>6. ASSUME Restart PROVE Tasks'
  BY <1>6 DEF Restart, Tasks, Live
<1>7. ASSUME NEW s \in Streams, HubNext(s) PROVE UNCHANGED drainVars
  BY <1>7 DEF HubNext, StreamStart, PublishEvent, PublishEnd, Keepalive,
              StreamFails, Drained, Abandon, Send, HubStep
<1>8. ASSUME NEW s \in Streams, Handle(s)
      PROVE  UNCHANGED drainVars \/ HandleChunk(s) \/ HandleStreamError(s)
  BY <1>8 DEF Handle, HandleSend, SendReturns, HandleStreamStart
<1>9. ASSUME NEW s \in Streams, Evict(s) \/ ReapTombstone(s) PROVE UNCHANGED drainVars
  BY <1>9 DEF Evict, ReapTombstone
<1>10. ASSUME Lose \/ UNCHANGED vars PROVE UNCHANGED drainVars
  BY <1>10 DEF Lose, vars
<1>. QED
  BY <1>1, <1>2, <1>3, <1>4, <1>5, <1>6, <1>7, <1>8, <1>9, <1>10 DEF Next, Drain

LEMMA FlowInvInit == ASSUME Init PROVE FlowInv
<1>1. IInv
  BY InitIInv
<1>2. Tasks
  BY DEF Init, Tasks, Live
<1>3. ASSUME NEW s \in Streams PROVE Flow(s)
  <2>1. /\ queue[s] = <<>> /\ wire = <<>> /\ shown[s] = <<>> /\ sent[s] = 0
        /\ hub[s] = "idle" /\ drain[s] = "none" /\ started[s] = 0
    BY DEF Init
  <2>2. Carries(<<>>, s, 0, 0) /\ ~HasEnd(<<>>, s)
    BY CarriesNone DEF HasEnd
  <2>3. Piped(s)
    BY <2>1, <2>2 DEF Piped
  <2>. QED
    BY <1>1, <1>2, <2>1, <2>2, <2>3, Ranges
    DEF Flow, Published, Complete, Resolved
<1>. QED
  BY <1>1, <1>2, <1>3 DEF FlowInv

LEMMA FlowInvKeeps == ASSUME FlowInv, [Next]_vars PROVE FlowInv'
<1>1. IInv /\ Tasks /\ \A s \in Streams : s \notin spoiled => Flow(s)
  BY DEF FlowInv
<1>2. IInv' /\ Tasks'
  BY <1>1, NextKeeps, TasksKeep
<1>3. ASSUME NEW s \in Streams \ spoiled' PROVE Flow(s)'
  <2>1. CASE \E t \in Streams : HubNext(t) \/ Handle(t) \/ Drain(t) \/ DrainFails(t)
    BY <1>1, <2>1, HubFlow, HandleFlow, DrainFlow
  <2>2. CASE \/ \E t \in Streams : Evict(t) \/ ReapTombstone(t)
             \/ Lose \/ Restart \/ UNCHANGED vars
    BY <1>1, <2>2, RestFlow
  <2>. QED
    BY <2>1, <2>2 DEF Next
<1>. QED
  BY <1>2, <1>3 DEF FlowInv

LEMMA FlowMeansIntact == ASSUME FlowInv PROVE IntactReply
<1>. SUFFICES ASSUME NEW s \in Streams \ spoiled, Finished(s)
              PROVE  shown[s] = [n \in 1 .. Events[s] |-> n]
  BY DEF IntactReply
<1>1. IInv /\ Tasks /\ Flow(s) /\ s \in Streams
  BY DEF FlowInv
<1>2. sent[s] = Events[s] /\ queue[s] = <<>>
  BY <1>1 DEF Flow, Published, Finished, Tasks
<1>3. PICK mid \in Nat : /\ Carries(queue[s], s, Len(shown[s]), mid)
                         /\ Carries(wire, s, mid, sent[s])
  BY <1>1 DEF Flow, Piped
<1>4. mid = sent[s]
  <2>1. \A i \in 1 .. Len(wire) : ~IsEvent(wire[i], s)
    BY DEF Finished, IsEvent
  <2>. QED
    BY <1>1, <1>3, <2>1, Ranges, CarriesNothing
<1>5. Len(shown[s]) = mid
  <2>1. \A i \in 1 .. Len(queue[s]) : ~IsEvent(queue[s][i], s)
    BY <1>2
  <2>. QED
    BY <1>1, <1>3, <2>1, Ranges, CarriesNothing
<1>. QED
  BY <1>1, <1>2, <1>4, <1>5 DEF Flow, Piped

\* A reply published to its end, of which nothing was lost, refused or timed
\* out, is shown in full and in order, whatever the other streams, the caches
\* and the reapers do meanwhile.
THEOREM RepliesStayIntact == Spec => []IntactReply
  BY FlowInvInit, FlowInvKeeps, FlowMeansIntact, PTL DEF Spec
=============================================================================

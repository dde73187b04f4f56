---------------------------- MODULE TurnWriter ----------------------------
(***************************************************************************)
(* How conversation turns and session changes reach turns.db: the hub      *)
(* publishes events on a JetStream work queue, and the turn-writer process *)
(* (infrastructure/turn_writer/writer.py) applies them to the TurnStore    *)
(* and acks.                                                               *)
(*                                                                         *)
(* JetStream delivers an event again when it was nak'd or not acked within *)
(* ack_wait, in front of newer events and at most MaxDeliver times; then   *)
(* the event stays in the stream, undelivered, until it expires.           *)
(* log_turn and increment_resume_count run between BEGIN and COMMIT or     *)
(* ROLLBACK.  The session mutators rely on the implicit transaction, which *)
(* stays open when the statement or the commit fails; a BEGIN inside it    *)
(* raises.                                                                 *)
(*                                                                         *)
(* Left out: last_active_at, and the queries of other processes, which     *)
(* change nothing.                                                         *)
(* Bounds: MaxEvents published, MaxSessions of one pool, MaxFaults failing *)
(* calls, crashes and late acks.                                           *)
(* A definition A_Word is a deliberate fault in A.                         *)
(***************************************************************************)
EXTENDS Integers, Sequences, SequencesExt

CONSTANTS MaxEvents, MaxSessions, MaxFaults, MaxDeliver, BatchSize

ASSUME TurnWriterAssumption ==
  /\ MaxEvents \in Nat /\ MaxSessions \in Nat \ {0} /\ MaxFaults \in Nat
  /\ MaxDeliver \in Nat \ {0} /\ BatchSize \in Nat \ {0}

Ids == 1 .. MaxEvents
Sessions == 1 .. MaxSessions
LogKinds == {"user", "answer"}
SessionKinds == {"start", "end", "cli"}
Kinds == LogKinds \cup SessionKinds \cup {"resume", "poison"}

VARIABLES
  published,  \* the stream: events in the order of their PubAcks
  fresh,      \* the first event never delivered
  again,      \* the redelivery queue
  pending,    \* delivered and not acked
  tries,      \* deliveries of each event
  done,       \* acked or termed
  batch,      \* what fetch returned and the loop has not finished
  step,       \* what the loop does with the head of the batch
  db,         \* the committed tables
  work,       \* the tables as the writer's connection sees them
  open,       \* the connection is inside a transaction
  current,    \* the pool's session
  newest,     \* the last session started
  applied,    \* history: events whose effect was committed
  early,      \* history: end_session events that found no session row
  faults

hubVars == <<published, current, newest>>
streamVars == <<fresh, again, pending, tries, done>>
storeVars == <<db, work, open, applied, early>>
vars == <<hubVars, streamVars, batch, step, storeVars, faults>>

\* rows: rows inserted by each event; row: a session's row; cli: the event
\* that set cli_session_id; resumes: resume_count.
EmptyTables ==
  [rows |-> [i \in Ids |-> 0], row |-> [s \in Sessions |-> "none"],
   cli |-> [s \in Sessions |-> 0], resumes |-> [s \in Sessions |-> 0],
   processed |-> {}]

Init ==
  /\ published = <<>> /\ fresh = 1 /\ again = <<>> /\ pending = {}
  /\ tries = [i \in Ids |-> 0] /\ done = {}
  /\ batch = <<>> /\ step = "fetch"
  /\ db = EmptyTables /\ work = EmptyTables /\ open = FALSE
  /\ current = 1 /\ newest = 1
  /\ applied = {} /\ early = {} /\ faults = 0

Fault == faults < MaxFaults /\ faults' = faults + 1

-----------------------------------------------------------------------------
(* The hub *)

Event(k, s, t) == [kind |-> k, session |-> s, target |-> t]
Publish(es) ==
  /\ Len(published) + Len(es) <= MaxEvents
  /\ published' = published \o es

\* A turn of the user or of the agent, the CLI's session id, or a payload
\* the writer's version of the contract does not validate.
Say(k) ==
  /\ k \in LogKinds \cup {"cli", "poison"}
  /\ Publish(<<Event(k, current, 0)>>)
  /\ UNCHANGED <<current, newest, faults>>

\* reset_session: end the session, start a new one; a publish that raises is
\* logged and its event is missing.
Clear ==
  /\ newest < MaxSessions
  /\ newest' = newest + 1 /\ current' = newest + 1
  /\ LET end == Event("end", current, 0)
         start == Event("start", newest + 1, 0)
     IN \/ Publish(<<end, start>>) /\ UNCHANGED faults
        \/ \E e \in {end, start} : Publish(<<e>>) /\ Fault

\* resume_session: the target is the count the writer answers with, plus one.
Resume(s) ==
  /\ s <= newest
  /\ Publish(<<Event("resume", s, work.resumes[s] + 1)>>)
  /\ current' = s
  /\ UNCHANGED <<newest, faults>>

Hub ==
  /\ \/ \E k \in Kinds : Say(k)
     \/ Clear
     \/ \E s \in Sessions : Resume(s)
  /\ UNCHANGED <<streamVars, batch, step, storeVars>>

-----------------------------------------------------------------------------
(* JetStream *)

Exhausted(i) == tries[i] >= MaxDeliver
Held == ToSet(batch)

\* Event i is to be delivered again, unless it had its last delivery.
Requeue(i) ==
  /\ pending' = pending \ {i}
  /\ again' = IF i \in pending /\ ~Exhausted(i) THEN Append(again, i) ELSE again

\* Fault: a batch is taken from the new events only.
Fetch_OnlyFresh ==
  /\ step = "fetch" /\ batch = <<>>
  /\ fresh <= Len(published)
  /\ batch' = <<fresh>>
  /\ fresh' = fresh + 1
  /\ pending' = pending \cup {fresh}
  /\ tries' = [tries EXCEPT ![fresh] = @ + 1]
  /\ step' = "handle"
  /\ UNCHANGED <<hubVars, again, done, storeVars, faults>>

\* _sub.fetch(batch=...): redeliveries first, then new events in order.
Fetch ==
  /\ step = "fetch"
  /\ LET queue == again \o [n \in 1 .. Len(published) - fresh + 1 |-> fresh + n - 1]
     IN \E n \in 1 .. BatchSize :
          /\ n <= Len(queue)
          /\ batch' = SubSeq(queue, 1, n)
          /\ again' = IF n < Len(again) THEN SubSeq(again, n + 1, Len(again)) ELSE <<>>
          /\ fresh' = IF n > Len(again) THEN fresh + n - Len(again) ELSE fresh
  /\ pending' = pending \cup ToSet(batch')
  /\ tries' = [i \in Ids |-> IF i \in ToSet(batch') THEN tries[i] + 1 ELSE tries[i]]
  /\ step' = "handle"
  /\ UNCHANGED <<hubVars, done, storeVars, faults>>

\* ack_wait passes: a lost ack or nak, or a batch that takes too long.
Expire(i) ==
  /\ i \in pending
  /\ IF i \in Held THEN Fault ELSE UNCHANGED faults
  /\ Requeue(i)
  /\ UNCHANGED <<hubVars, fresh, tries, done, batch, step, storeVars>>

-----------------------------------------------------------------------------
(* The handlers *)

head == Head(batch)
event == published[head]

\* Fault: a redelivered resume adds one.
Applied_AddsOne(t, i) ==
  IF published[i].kind = "resume" /\ t.row[published[i].session] # "none"
  THEN [t EXCEPT !.resumes[published[i].session] = @ + 1]
  ELSE IF published[i].kind \in LogKinds
       THEN [t EXCEPT !.row[published[i].session] = "open"] ELSE t

\* Fault: the last resume event to arrive wins.
Applied_NoHighWater(t, i) ==
  IF published[i].kind = "resume" /\ t.row[published[i].session] # "none"
  THEN [t EXCEPT !.resumes[published[i].session] = published[i].target]
  ELSE IF published[i].kind \in LogKinds
       THEN [t EXCEPT !.row[published[i].session] = "open"] ELSE t

\* The tables after event i is applied to t: INSERT OR IGNORE of a turn (only
\* a user's turn has a message_id to be unique by) and of its session;
\* INSERT OR IGNORE, UPDATE ... WHERE for the session kinds; the high-water
\* mark once per event_id for a resume.
Applied(t, i) ==
  LET e == published[i]
      s == e.session
      known == t.row[s] # "none"
  IN CASE e.kind \in LogKinds ->
            [t EXCEPT !.rows[i] = IF e.kind = "user" THEN 1 ELSE @ + 1,
                      !.row[s] = IF known THEN @ ELSE "open"]
       [] e.kind = "start" -> [t EXCEPT !.row[s] = IF known THEN @ ELSE "open"]
       [] e.kind = "end" -> [t EXCEPT !.row[s] = IF known THEN "ended" ELSE @]
       [] e.kind = "cli" -> [t EXCEPT !.cli[s] = IF known THEN i ELSE @]
       [] e.kind = "resume" ->
            IF i \in t.processed THEN t
            ELSE [t EXCEPT !.resumes[s] = IF known /\ e.target > @ THEN e.target ELSE @,
                           !.processed = @ \cup {i}]
       [] OTHER -> t

\* Fault: a store error is logged and the event is acked.
Failed_Acks == step' = "ack"
\* The except clauses: the error is logged, the event nak'd.
Failed == step' = "nak"

Commit(t) ==
  /\ db' = t /\ work' = t /\ open' = FALSE
  /\ applied' = applied \cup {head}
  /\ early' = IF event.kind = "end" /\ work.row[event.session] = "none"
              THEN early \cup {head} ELSE early
  /\ step' = "ack"

\* _log_turn and increment_resume_count: BEGIN; ...; COMMIT, or ROLLBACK.
HandleInTransaction ==
  /\ event.kind \in LogKinds \cup {"resume"}
  /\ \/ /\ open
        /\ Failed
        /\ UNCHANGED <<db, work, open, applied, early, faults>>
     \/ ~open /\ Commit(Applied(db, head)) /\ UNCHANGED faults
     \/ ~open /\ Fault /\ Failed /\ UNCHANGED storeVars

\* _start_session, _end_session, _set_cli_session: a statement and a commit.
\* A failing one leaves the transaction open, with or without its change,
\* unless SQLite rolled it back.
HandleSession ==
  /\ event.kind \in SessionKinds
  /\ \/ Commit(Applied(work, head)) /\ UNCHANGED faults
     \/ /\ Fault /\ Failed
        /\ \/ work' \in {work, Applied(work, head)} /\ open' = TRUE
           \/ work' = db /\ open' = FALSE
        /\ UNCHANGED <<db, applied, early>>

\* model_validate_json raises.
HandlePoison ==
  /\ event.kind = "poison"
  /\ step' = "term"
  /\ UNCHANGED <<storeVars, faults>>

Handle ==
  /\ step = "handle"
  /\ HandleInTransaction \/ HandleSession \/ HandlePoison
  /\ UNCHANGED <<hubVars, streamVars, batch>>

-----------------------------------------------------------------------------
(* The end of a message in _consume_loop *)

NextMessage ==
  /\ batch' = Tail(batch)
  /\ step' = IF Len(batch) = 1 THEN "fetch" ELSE "handle"

\* JetStream forgets the head, its place in the redelivery queue included.
Settle ==
  /\ done' = done \cup {head}
  /\ pending' = pending \ {head}
  /\ again' = IF \E n \in DOMAIN again : again[n] = head
              THEN RemoveAt(again, CHOOSE n \in DOMAIN again : again[n] = head)
              ELSE again

\* msg.ack: arrives, is lost on the way, or raises and the event is nak'd.
Ack ==
  /\ step = "ack"
  /\ \/ Settle /\ NextMessage /\ UNCHANGED faults
     \/ Fault /\ NextMessage /\ UNCHANGED <<done, pending, again>>
     \/ Fault /\ Failed /\ UNCHANGED <<done, pending, again, batch>>
  /\ UNCHANGED <<hubVars, fresh, tries, storeVars>>

\* _nak_message: a failing nak is logged.
Nak ==
  /\ step = "nak"
  /\ \/ Requeue(head) /\ UNCHANGED faults
     \/ Fault /\ UNCHANGED <<pending, again>>
  /\ NextMessage
  /\ UNCHANGED <<hubVars, fresh, tries, done, storeVars>>

\* _term_message: a failing term is logged.
Term ==
  /\ step = "term"
  /\ \/ Settle /\ UNCHANGED faults
     \/ Fault /\ UNCHANGED <<done, pending, again>>
  /\ NextMessage
  /\ UNCHANGED <<hubVars, fresh, tries, storeVars>>

\* The process stops, crashes or loses its connection, and is restarted.
Restart ==
  /\ Fault
  /\ batch' = <<>> /\ step' = "fetch"
  /\ work' = db /\ open' = FALSE
  /\ UNCHANGED <<hubVars, streamVars, db, applied, early>>

Writer == Fetch \/ Handle \/ Ack \/ Nak \/ Term
Next == Hub \/ Writer \/ Restart \/ \E i \in Ids : Expire(i)

Spec == Init /\ [][Next]_vars

\* The consume loop never stops for good (Quadlet restarts the process), and
\* ack_wait ends for an event the loop no longer holds.
FairSpec ==
  /\ Spec
  /\ WF_vars(Writer)
  /\ \A i \in Ids : WF_vars(i \notin Held /\ Expire(i))

-----------------------------------------------------------------------------
Tables ==
  [rows : [Ids -> 0 .. MaxDeliver], row : [Sessions -> {"none", "open", "ended"}],
   cli : [Sessions -> 0 .. MaxEvents], resumes : [Sessions -> 0 .. MaxEvents],
   processed : SUBSET Ids]

\* Every variable keeps its type: an event's rows never outnumber its
\* deliveries, and an event is never queued or held twice.
TypeOK ==
  /\ published \in Seq([kind : Kinds, session : Sessions, target : 0 .. MaxEvents])
  /\ fresh \in 1 .. Len(published) + 1 /\ Len(published) <= MaxEvents
  /\ \A q \in {again, batch} : ToSet(q) \subseteq 1 .. fresh - 1 /\ IsInjective(q)
  /\ pending \subseteq 1 .. fresh - 1 /\ done \subseteq 1 .. fresh - 1
  /\ tries \in [Ids -> 0 .. MaxDeliver]
  /\ step \in {"fetch", "handle", "ack", "nak", "term"}
  /\ (step = "fetch") = (batch = <<>>)
  /\ db \in Tables /\ work \in Tables /\ open \in BOOLEAN
  /\ current \in 1 .. newest /\ newest \in Sessions
  /\ applied \subseteq Ids /\ early \subseteq applied
  /\ faults \in 0 .. MaxFaults

\* An event leaves the stream only when its effect is committed: an ack never
\* covers a write that was rolled back or waits in an open transaction.
AckedIsStored ==
  \A i \in done :
    LET e == published[i] IN
    /\ e.kind # "poison" => i \in applied
    /\ e.kind \in LogKinds => db.rows[i] > 0
    /\ e.kind \in LogKinds \cup {"start"} => db.row[e.session] # "none"

\* Handling an event a second time changes nothing when its statement is
\* idempotent: a user's turn (UNIQUE(platform, message_id)), start_session and
\* increment_resume_count; so does an end_session whose session had a row.
\* (The agent's turns carry no message_id, and set_cli_session is an UPDATE.)
ReplayHarmless ==
  [][\A i \in applied :
       (step = "handle" /\ step' = "ack" /\ head = i) =>
         \/ published[i].kind \in {"answer", "cli"}
         \/ published[i].kind = "end" /\ i \in early
         \/ db' = work]_vars

\* A resume count never goes down, whatever order the events arrive in.
CountNeverRegresses ==
  [][\A s \in Sessions : db'.resumes[s] >= db.resumes[s]]_vars

\* Every event is acked, termed, or used up.
EventsSettle ==
  \A i \in Ids :
    i <= Len(published) ~> (i \in done \/ (Exhausted(i) /\ i \notin Held))
=============================================================================

-------------------------- MODULE TurnWriterProofs --------------------------
(***************************************************************************)
(* What the turn writer acks is stored, a resume count never falls, and an  *)
(* event handled again changes nothing, for any number of events, sessions, *)
(* deliveries and faults: failing calls, transactions left open, lost acks  *)
(* and restarts included.                                                   *)
(***************************************************************************)
EXTENDS TurnWriter, SequenceTheorems, TLAPS

Events == [kind : Kinds, session : Sessions, target : Nat]
Sent == 1 .. Len(published)

Shape ==
  [rows : [Ids -> Nat], row : [Sessions -> {"none", "open", "ended"}],
   cli : [Sessions -> Nat], resumes : [Sessions -> Nat],
   processed : SUBSET Ids]

(***************************************************************************)
(* The inductive invariant.                                                 *)
(***************************************************************************)
HubTyped ==
  /\ published \in Seq(Events) /\ Len(published) <= MaxEvents
  /\ current \in Sessions /\ newest \in Sessions

StreamTyped ==
  /\ fresh \in 1 .. Len(published) + 1
  /\ again \in Seq(Sent) /\ batch \in Seq(Sent) /\ pending \subseteq Sent
  /\ step \in {"fetch", "handle", "ack", "nak", "term"}
  /\ step # "fetch" => batch # << >>

StoreTyped == db \in Shape /\ work \in Shape /\ open \in BOOLEAN

\* The effect of event i is in the tables t.
Effect(t, i) ==
  /\ published[i].kind \in LogKinds => t.rows[i] > 0
  /\ published[i].kind \in LogKinds \cup {"start"} =>
       t.row[published[i].session] # "none"

\* The committed effects are in the tables and stay in the open transaction.
Stored ==
  /\ applied \subseteq Sent
  /\ \A i \in applied : Effect(db, i) /\ Effect(work, i)

\* An open transaction holds no smaller resume count.
Ahead ==
  /\ ~open => work = db
  /\ \A s \in Sessions : work.resumes[s] >= db.resumes[s]

\* What the loop is about to settle may be settled, and what it settled.
Settled ==
  /\ step = "ack" => head \in applied
  /\ step = "term" => event.kind = "poison"
  /\ done \subseteq Sent
  /\ \A i \in done : published[i].kind = "poison" \/ i \in applied

IInv == HubTyped /\ StreamTyped /\ StoreTyped /\ Stored /\ Ahead /\ Settled

LEMMA InitInv == ASSUME Init PROVE IInv
<1>1. EmptyTables \in Shape
  BY DEF EmptyTables, Shape
<1>2. \A s \in Sessions : EmptyTables.resumes[s] >= EmptyTables.resumes[s]
  BY DEF EmptyTables
<1>3. HubTyped
  BY TurnWriterAssumption DEF Init, HubTyped, Sessions
<1>4. StreamTyped
  BY DEF Init, StreamTyped, Sent
<1>5. StoreTyped
  BY <1>1 DEF Init, StoreTyped
<1>6. Stored /\ Settled
  BY DEF Init, Stored, Settled
<1>7. Ahead
  BY <1>2 DEF Init, Ahead
<1>. QED
  BY <1>3, <1>4, <1>5, <1>6, <1>7 DEF IInv

LEMMA SentEvent ==
  ASSUME HubTyped, NEW i \in Sent
  PROVE  /\ i \in Ids /\ i \in Nat
         /\ published[i] \in Events
         /\ published[i].kind \in Kinds /\ published[i].session \in Sessions
         /\ published[i].target \in Nat
<1>1. published \in Seq(Events) /\ Len(published) \in Nat /\ Len(published) <= MaxEvents
  BY DEF HubTyped
<1>2. i \in Ids /\ i \in Nat
  BY <1>1, TurnWriterAssumption DEF Sent, Ids
<1>3. published[i] \in Events
  BY <1>1, ElementOfSeq DEF Sent
<1>. QED
  BY <1>2, <1>3 DEF Events

(***************************************************************************)
(* The handlers' effect on the tables.                                      *)
(***************************************************************************)
LEMMA AppliedEffect ==
  ASSUME HubTyped, NEW i \in Sent, NEW t \in Shape
  PROVE  /\ Applied(t, i) \in Shape
         /\ Effect(Applied(t, i), i)
         /\ \A j \in Sent : Effect(t, j) => Effect(Applied(t, i), j)
         /\ \A s \in Sessions : Applied(t, i).resumes[s] >= t.resumes[s]
<1>. DEFINE e == published[i]
            s0 == e.session
<1>1. /\ i \in Ids /\ i \in Nat
      /\ e.kind \in Kinds /\ s0 \in Sessions /\ e.target \in Nat
  BY SentEvent
<1>2. \A j \in Sent : j \in Ids /\ published[j].session \in Sessions
  BY SentEvent
<1>. DEFINE new == Applied(t, i)
<1>3. CASE e.kind \in LogKinds
  <2>1. Applied(t, i) =
          [t EXCEPT !.rows[i] = IF e.kind = "user" THEN 1 ELSE @ + 1,
                    !.row[s0] = IF t.row[s0] # "none" THEN @ ELSE "open"]
    BY <1>3 DEF Applied, LogKinds
  <2>2. /\ t.rows \in [Ids -> Nat] /\ t.row \in [Sessions -> {"none", "open", "ended"}]
        /\ new = [rows |-> [t.rows EXCEPT ![i] = IF e.kind = "user" THEN 1 ELSE @ + 1],
                  row |-> [t.row EXCEPT ![s0] = IF t.row[s0] # "none" THEN @ ELSE "open"],
                  cli |-> t.cli, resumes |-> t.resumes, processed |-> t.processed]
    BY <2>1 DEF Shape
  <2>3. new \in Shape
    BY <2>2, <1>1 DEF Shape
  <2>4. /\ \A j \in Sent : t.rows[j] > 0 => new.rows[j] > 0
        /\ new.rows[i] > 0
    BY <2>2, <1>1, <1>2
  <2>5. /\ \A s \in Sessions : t.row[s] # "none" => new.row[s] # "none"
        /\ new.row[s0] # "none"
    BY <2>2, <1>1
  <2>6. \A s \in Sessions : new.resumes[s] >= t.resumes[s]
    BY <2>2 DEF Shape
  <2>. QED
    BY <2>3, <2>4, <2>5, <2>6, <1>1, <1>2 DEF Effect
<1>4. CASE e.kind = "start"
  <2>1. Applied(t, i) = [t EXCEPT !.row[s0] = IF t.row[s0] # "none" THEN @ ELSE "open"]
    BY <1>4 DEF Applied, LogKinds
  <2>. QED
    BY <2>1, <1>1, <1>2, <1>4 DEF Shape, Effect, LogKinds
<1>5. CASE e.kind = "end"
  <2>1. Applied(t, i) = [t EXCEPT !.row[s0] = IF t.row[s0] # "none" THEN "ended" ELSE @]
    BY <1>5 DEF Applied, LogKinds
  <2>. QED
    BY <2>1, <1>1, <1>2, <1>5 DEF Shape, Effect, LogKinds
<1>6. CASE e.kind = "cli"
  <2>1. Applied(t, i) = [t EXCEPT !.cli[s0] = IF t.row[s0] # "none" THEN i ELSE @]
    BY <1>6 DEF Applied, LogKinds
  <2>. QED
    BY <2>1, <1>1, <1>2, <1>6 DEF Shape, Effect, LogKinds
<1>7. CASE e.kind = "resume" /\ i \notin t.processed
  <2>1. Applied(t, i) =
          [t EXCEPT !.resumes[s0] = IF t.row[s0] # "none" /\ e.target > @
                                    THEN e.target ELSE @,
                    !.processed = @ \cup {i}]
    BY <1>7 DEF Applied, LogKinds
  <2>2. /\ t.resumes \in [Sessions -> Nat] /\ t.processed \subseteq Ids
        /\ new = [rows |-> t.rows, row |-> t.row, cli |-> t.cli,
                  resumes |-> [t.resumes EXCEPT ![s0] =
                                 IF t.row[s0] # "none" /\ e.target > @
                                 THEN e.target ELSE @],
                  processed |-> t.processed \cup {i}]
    BY <2>1 DEF Shape
  <2>3. new \in Shape
    BY <2>2, <1>1 DEF Shape
  <2>4. \A s \in Sessions : new.resumes[s] >= t.resumes[s]
    BY <2>2, <1>1
  <2>. QED
    BY <2>2, <2>3, <2>4, <1>7 DEF Effect, LogKinds
<1>8. CASE Applied(t, i) = t /\ e.kind \notin LogKinds \cup {"start"}
  BY <1>8 DEF Shape, Effect
<1>9. \/ e.kind \in LogKinds \cup {"start", "end", "cli"}
      \/ e.kind = "resume" /\ i \notin t.processed
      \/ Applied(t, i) = t /\ e.kind \notin LogKinds \cup {"start"}
  BY <1>1 DEF Applied, Kinds, SessionKinds, LogKinds
<1>. QED
  BY <1>3, <1>4, <1>5, <1>6, <1>7, <1>8, <1>9

(***************************************************************************)
(* The hub appends events.                                                  *)
(***************************************************************************)
LEMMA PublishGrows ==
  ASSUME HubTyped, NEW es \in Seq(Events), Publish(es)
  PROVE  /\ published' \in Seq(Events) /\ Len(published') <= MaxEvents
         /\ Len(published') \in Nat /\ Len(published') >= Len(published)
         /\ \A i \in Sent : published'[i] = published[i]
<1>1. published' = published \o es /\ published \in Seq(Events)
      /\ Len(published) + Len(es) <= MaxEvents
  BY DEF Publish, HubTyped
<1>2. /\ published \o es \in Seq(Events)
      /\ Len(published \o es) = Len(published) + Len(es)
      /\ \A i \in 1 .. Len(published) + Len(es) :
           (published \o es)[i] = IF i <= Len(published) THEN published[i]
                                  ELSE es[i - Len(published)]
  BY <1>1, ConcatProperties
<1>3. Len(published) \in Nat /\ Len(es) \in Nat
  BY <1>1
<1>4. \A i \in Sent : i \in 1 .. Len(published) + Len(es) /\ i <= Len(published)
  BY <1>3 DEF Sent
<1>. QED
  BY <1>1, <1>2, <1>3, <1>4

LEMMA GrowthKeeps ==
  ASSUME IInv, NEW es \in Seq(Events), Publish(es),
         newest' \in Sessions, current' \in Sessions,
         UNCHANGED <<streamVars, batch, step, storeVars>>
  PROVE  IInv'
<1>1. /\ published' \in Seq(Events) /\ Len(published') <= MaxEvents
      /\ Len(published') \in Nat /\ Len(published) \in Nat
      /\ Len(published') >= Len(published)
      /\ \A i \in Sent : published'[i] = published[i]
  BY PublishGrows DEF IInv, HubTyped
<1>2. Sent \subseteq Sent'
  BY <1>1 DEF Sent
<1>3. HubTyped'
  BY <1>1 DEF HubTyped
<1>4. StreamTyped'
  <2>1. Seq(Sent) \subseteq Seq(Sent')
    BY <1>2
  <2>. QED
    BY <1>1, <2>1 DEF IInv, StreamTyped, streamVars, Sent
<1>5. StoreTyped' /\ Ahead'
  BY DEF IInv, StoreTyped, Ahead, storeVars
<1>6. Stored'
  BY <1>1, <1>2 DEF IInv, Stored, Effect, storeVars
<1>7. Settled'
  <2>1. step \in {"ack", "term"} => head \in Sent
    BY DEF IInv, StreamTyped, head
  <2>. QED
    BY <1>1, <1>2, <2>1 DEF IInv, Settled, event, head, streamVars, storeVars
<1>. QED
  BY <1>3, <1>4, <1>5, <1>6, <1>7 DEF IInv

\* Whatever the hub does, it appends events to the stream.
LEMMA HubPublishes ==
  ASSUME IInv, Hub
  PROVE  /\ newest' \in Sessions /\ current' \in Sessions
         /\ \E es \in Seq(Events) : Publish(es)
<1>. DEFINE Publishes == /\ newest' \in Sessions /\ current' \in Sessions
                         /\ \E es \in Seq(Events) : Publish(es)
<1>1. /\ current \in Sessions /\ newest \in Nat /\ newest \in Sessions
      /\ \A s \in Sessions : work.resumes[s] + 1 \in Nat
  <2>1. current \in Sessions /\ newest \in Sessions
    BY DEF IInv, HubTyped
  <2>2. Sessions \subseteq Nat
    BY TurnWriterAssumption DEF Sessions
  <2>3. work.resumes \in [Sessions -> Nat]
    BY DEF IInv, StoreTyped, Shape
  <2>4. newest \in Nat
    BY <2>1, <2>2
  <2>5. ASSUME NEW s \in Sessions PROVE work.resumes[s] + 1 \in Nat
    <3>1. work.resumes[s] \in Nat
      BY <2>3
    <3>. QED
      BY <3>1
  <2>. QED
    BY <2>1, <2>4, <2>5
<1>2. ASSUME NEW k \in Kinds, NEW s \in Sessions, NEW n \in Nat
      PROVE  Event(k, s, n) \in Events
  BY DEF Event, Events
<1>3. ASSUME NEW k \in Kinds, Say(k) PROVE Publishes
  <2>1. <<Event(k, current, 0)>> \in Seq(Events)
    BY <1>1, <1>2
  <2>. QED
    BY <1>1, <1>3, <2>1 DEF Say
<1>4. ASSUME Clear PROVE Publishes
  <2>. DEFINE end == Event("end", current, 0)
              start == Event("start", newest + 1, 0)
  <2>1. newest + 1 \in Sessions
    BY <1>1, <1>4, TurnWriterAssumption DEF Clear, Sessions
  <2>2. end \in Events /\ start \in Events
    BY <1>1, <1>2, <2>1 DEF Kinds, SessionKinds
  <2>3. newest' \in Sessions /\ current' \in Sessions
    BY <1>4, <2>1 DEF Clear
  <2>4. \E es \in Seq(Events) : Publish(es)
    <3>1. <<end, start>> \in Seq(Events) /\ <<end>> \in Seq(Events) /\ <<start>> \in Seq(Events)
      BY <2>2
    <3>2. Publish(<<end, start>>) \/ Publish(<<end>>) \/ Publish(<<start>>)
      BY <1>4 DEF Clear
    <3>. QED
      BY <3>1, <3>2
  <2>. QED
    BY <2>3, <2>4
<1>5. ASSUME NEW s \in Sessions, Resume(s) PROVE Publishes
  <2>1. Event("resume", s, work.resumes[s] + 1) \in Events
    BY <1>1, <1>2 DEF Kinds
  <2>2. <<Event("resume", s, work.resumes[s] + 1)>> \in Seq(Events)
    BY <2>1
  <2>. QED
    BY <1>1, <1>5, <2>2 DEF Resume
<1>. QED
  BY <1>3, <1>4, <1>5 DEF Hub

LEMMA HubStep == ASSUME IInv, Hub PROVE IInv'
BY HubPublishes, GrowthKeeps DEF Hub

(***************************************************************************)
(* The stream's steps and the end of a message leave the tables alone.      *)
(***************************************************************************)
LEMMA StreamStep ==
  ASSUME IInv, UNCHANGED <<hubVars, storeVars>>, StreamTyped',
         step' \in {"fetch", "handle", "nak"} \/ UNCHANGED <<batch, step>>,
         UNCHANGED done \/ (step \in {"ack", "term"} /\ done' = done \cup {head})
  PROVE  IInv'
<1>1. HubTyped' /\ StoreTyped' /\ Ahead'
  BY DEF IInv, HubTyped, StoreTyped, Ahead, hubVars, storeVars
<1>2. Stored'
  BY DEF IInv, Stored, Effect, Sent, hubVars, storeVars
<1>3. (step = "ack" => head \in applied)' /\ (step = "term" => event.kind = "poison")'
  BY DEF IInv, Settled, hubVars, storeVars, head, event
<1>4. done' \subseteq Sent'
  <2>1. step \in {"ack", "term"} => head \in Sent
    BY DEF IInv, StreamTyped, head
  <2>. QED
    BY <2>1 DEF IInv, Settled, Sent, hubVars
<1>5. \A i \in done' : published'[i].kind = "poison" \/ i \in applied'
  BY DEF IInv, Settled, event, hubVars, storeVars
<1>. QED
  BY <1>1, <1>2, <1>3, <1>4, <1>5 DEF IInv, Settled

LEMMA FetchStep == ASSUME IInv, Fetch PROVE IInv'
<1>. DEFINE queue == again \o [n \in 1 .. Len(published) - fresh + 1 |-> fresh + n - 1]
<1>1. /\ Len(published) \in Nat /\ fresh \in 1 .. Len(published) + 1
      /\ again \in Seq(Sent) /\ step = "fetch" /\ Len(again) \in Nat
  BY DEF IInv, HubTyped, StreamTyped, Fetch
<1>2. [n \in 1 .. Len(published) - fresh + 1 |-> fresh + n - 1] \in Seq(Sent)
  BY <1>1 DEF Sent
<1>3. queue \in Seq(Sent)
  BY <1>1, <1>2, ConcatProperties
<1>4. PICK n \in 1 .. BatchSize :
        /\ n <= Len(queue)
        /\ batch' = SubSeq(queue, 1, n)
        /\ again' = IF n < Len(again) THEN SubSeq(again, n + 1, Len(again)) ELSE <<>>
        /\ fresh' = IF n > Len(again) THEN fresh + n - Len(again) ELSE fresh
  BY DEF Fetch
<1>5. n \in Nat /\ n >= 1
  BY <1>4
<1>6. Len(queue) = Len(again) + (Len(published) - fresh + 1)
  <2>1. Len([k \in 1 .. Len(published) - fresh + 1 |-> fresh + k - 1])
          = Len(published) - fresh + 1
    BY <1>1
  <2>. QED
    BY <1>1, <1>2, <2>1, ConcatProperties
<1>7. batch' \in Seq(Sent) /\ batch' # <<>>
  <2>. HIDE DEF queue
  <2>1. Len(queue) \in Nat /\ n <= Len(queue)
    BY <1>3, <1>4
  <2>2. \A k \in 1 .. n : queue[k] \in Sent
    BY <1>3, <1>5, <2>1, ElementOfSeq
  <2>3. /\ SubSeq(queue, 1, n) \in Seq(Sent)
        /\ Len(SubSeq(queue, 1, n)) = IF 1 <= n THEN n - 1 + 1 ELSE 0
    <3>1. 1 \in Int /\ n \in Int
      BY <1>5
    <3>. QED
      BY <3>1, <2>2, SubSeqProperties
  <2>4. batch' = SubSeq(queue, 1, n)
    BY <1>4
  <2>5. Len(batch') = n
    BY <2>3, <2>4, <1>5
  <2>6. Len(<<>>) = 0
    OBVIOUS
  <2>7. batch' # <<>>
    BY <2>5, <2>6, <1>5
  <2>. QED
    BY <2>3, <2>4, <2>7
<1>8. again' \in Seq(Sent)
  <2>1. n < Len(again) => SubSeq(again, n + 1, Len(again)) \in Seq(Sent)
    BY <1>1, <1>5, SubSeqProperties
  <2>. QED
    BY <1>4, <2>1
<1>9. fresh' \in 1 .. Len(published) + 1
  BY <1>1, <1>4, <1>5, <1>6
<1>10. pending' \subseteq Sent
  <2>1. ToSet(batch') \subseteq Sent
    BY <1>7, ElementOfSeq DEF ToSet
  <2>2. pending \subseteq Sent /\ pending' = pending \cup ToSet(batch')
    BY DEF IInv, StreamTyped, Fetch
  <2>. QED
    BY <2>1, <2>2
<1>11. UNCHANGED <<hubVars, done, storeVars>> /\ step' = "handle"
  BY DEF Fetch
<1>12. StreamTyped'
  BY <1>7, <1>8, <1>9, <1>10, <1>11 DEF StreamTyped, Sent, hubVars
<1>. QED
  BY <1>11, <1>12, StreamStep

LEMMA RequeueTyped ==
  ASSUME IInv, NEW i, i \in pending => i \in Sent, Requeue(i)
  PROVE  again' \in Seq(Sent)
<1>1. again \in Seq(Sent)
  BY DEF IInv, StreamTyped
<1>2. i \in pending => Append(again, i) \in Seq(Sent)
  BY <1>1, AppendProperties
<1>. QED
  BY <1>1, <1>2 DEF Requeue

LEMMA ExpireStep == ASSUME IInv, NEW i \in Ids, Expire(i) PROVE IInv'
<1>1. again' \in Seq(Sent) /\ pending' \subseteq Sent
  BY RequeueTyped DEF Expire, Requeue, IInv, StreamTyped
<1>2. StreamTyped'
  BY <1>1 DEF Expire, IInv, StreamTyped, hubVars, Sent
<1>. QED
  BY <1>2, StreamStep DEF Expire

LEMMA HeadSent == ASSUME IInv, step # "fetch" PROVE head \in Sent
BY DEF IInv, StreamTyped, head

LEMMA NextMessageTyped ==
  ASSUME IInv, step # "fetch", NextMessage
  PROVE  /\ batch' \in Seq(Sent) /\ step' \in {"fetch", "handle"}
         /\ step' # "fetch" => batch' # <<>>
<1>1. batch \in Seq(Sent) /\ batch # <<>>
  BY DEF IInv, StreamTyped
<1>2. Tail(batch) \in Seq(Sent) /\ Len(Tail(batch)) = Len(batch) - 1
  BY <1>1, HeadTailProperties
<1>3. Len(batch) \in Nat /\ Len(<<>>) = 0
  BY <1>1
<1>4. /\ batch' = Tail(batch)
      /\ step' = IF Len(batch) = 1 THEN "fetch" ELSE "handle"
  BY DEF NextMessage
<1>5. Len(batch) # 1 => Tail(batch) # <<>>
  <2>1. Tail(batch) = <<>> => Len(Tail(batch)) = 0
    BY <1>3, Zenon
  <2>. QED
    BY <1>2, <1>3, <2>1
<1>. QED
  BY <1>2, <1>4, <1>5

LEMMA SettleTyped ==
  ASSUME IInv, step # "fetch", Settle
  PROVE  again' \in Seq(Sent) /\ pending' \subseteq Sent
<1>1. again \in Seq(Sent) /\ Len(again) \in Nat /\ pending \subseteq Sent
  BY DEF IInv, StreamTyped
<1>2. ASSUME NEW n \in DOMAIN again PROVE RemoveAt(again, n) \in Seq(Sent)
  <2>1. n \in 1 .. Len(again)
    BY <1>1
  <2>2. \A k \in 1 .. n - 1 : again[k] \in Sent
    BY <1>1, <2>1, ElementOfSeq
  <2>3. \A k \in n + 1 .. Len(again) : again[k] \in Sent
    BY <1>1, <2>1, ElementOfSeq
  <2>4. SubSeq(again, 1, n - 1) \in Seq(Sent)
    <3>1. 1 \in Int /\ n - 1 \in Int
      BY <1>1, <2>1
    <3>. QED
      BY <2>2, <3>1, SubSeqProperties
  <2>5. SubSeq(again, n + 1, Len(again)) \in Seq(Sent)
    <3>1. n + 1 \in Int /\ Len(again) \in Int
      BY <1>1, <2>1
    <3>. QED
      BY <2>3, <3>1, SubSeqProperties
  <2>. QED
    BY <2>4, <2>5, ConcatProperties DEF RemoveAt
<1>3. (\E n \in DOMAIN again : again[n] = head) =>
        (CHOOSE n \in DOMAIN again : again[n] = head) \in DOMAIN again
  OBVIOUS
<1>. QED
  BY <1>1, <1>2, <1>3 DEF Settle

LEMMA AckStep == ASSUME IInv, Ack PROVE IInv'
<1>1. UNCHANGED <<hubVars, fresh, storeVars>> /\ step = "ack"
  BY DEF Ack
<1>2. again' \in Seq(Sent) /\ pending' \subseteq Sent
  BY SettleTyped, <1>1 DEF Ack, IInv, StreamTyped
<1>3. /\ batch' \in Seq(Sent) /\ step' \in {"fetch", "handle", "nak"}
      /\ step' # "fetch" => batch' # <<>>
  BY <1>1, NextMessageTyped DEF Ack, Failed, IInv, StreamTyped
<1>4. StreamTyped'
  BY <1>1, <1>2, <1>3 DEF IInv, StreamTyped, hubVars, Sent
<1>5. UNCHANGED done \/ done' = done \cup {head}
  BY DEF Ack, Settle
<1>. QED
  BY <1>1, <1>3, <1>4, <1>5, StreamStep

LEMMA NakStep == ASSUME IInv, Nak PROVE IInv'
<1>1. UNCHANGED <<hubVars, fresh, done, storeVars>> /\ step = "nak"
  BY DEF Nak
<1>2. again' \in Seq(Sent) /\ pending' \subseteq Sent
  BY HeadSent, RequeueTyped, <1>1 DEF Nak, Requeue, IInv, StreamTyped
<1>3. /\ batch' \in Seq(Sent) /\ step' \in {"fetch", "handle"}
      /\ step' # "fetch" => batch' # <<>>
  BY <1>1, NextMessageTyped DEF Nak
<1>4. StreamTyped'
  BY <1>1, <1>2, <1>3 DEF IInv, StreamTyped, hubVars, Sent
<1>. QED
  BY <1>1, <1>3, <1>4, StreamStep

LEMMA TermStep == ASSUME IInv, Term PROVE IInv'
<1>1. UNCHANGED <<hubVars, fresh, storeVars>> /\ step = "term"
  BY DEF Term
<1>2. again' \in Seq(Sent) /\ pending' \subseteq Sent
  BY SettleTyped, <1>1 DEF Term, IInv, StreamTyped
<1>3. /\ batch' \in Seq(Sent) /\ step' \in {"fetch", "handle"}
      /\ step' # "fetch" => batch' # <<>>
  BY <1>1, NextMessageTyped DEF Term
<1>4. StreamTyped'
  BY <1>1, <1>2, <1>3 DEF IInv, StreamTyped, hubVars, Sent
<1>5. UNCHANGED done \/ done' = done \cup {head}
  BY DEF Term, Settle
<1>. QED
  BY <1>1, <1>3, <1>4, <1>5, StreamStep

(***************************************************************************)
(* The handlers and a restart.                                              *)
(***************************************************************************)
LEMMA HandlerFrame ==
  ASSUME IInv, step # "fetch", UNCHANGED <<hubVars, streamVars, batch>>,
         step' \in {"ack", "nak", "term"}
  PROVE  /\ HubTyped' /\ StreamTyped' /\ Sent' = Sent
         /\ done' \subseteq Sent' /\ head' = head /\ event' = event
BY DEF IInv, HubTyped, StreamTyped, Sent, Settled, hubVars, streamVars, head, event

LEMMA CommitStep ==
  ASSUME IInv, step = "handle", UNCHANGED <<hubVars, streamVars, batch>>,
         NEW t \in {db, work}, Commit(Applied(t, head))
  PROVE  IInv' /\ \A s \in Sessions : db'.resumes[s] >= db.resumes[s]
<1>. DEFINE new == Applied(t, head)
<1>1. head \in Sent /\ t \in Shape /\ HubTyped
  BY HeadSent DEF IInv, StoreTyped
<1>2. /\ new \in Shape /\ Effect(new, head)
      /\ \A j \in Sent : Effect(t, j) => Effect(new, j)
      /\ \A s \in Sessions : new.resumes[s] >= t.resumes[s]
  BY <1>1, AppliedEffect
<1>. HIDE DEF new
<1>3. /\ db' = new /\ work' = new /\ open' = FALSE
      /\ applied' = applied \cup {head} /\ step' = "ack"
  BY DEF Commit, new
<1>4. /\ HubTyped' /\ StreamTyped' /\ Sent' = Sent
      /\ done' \subseteq Sent' /\ head' = head /\ event' = event
  BY <1>3, HandlerFrame
<1>5. StoreTyped'
  BY <1>2, <1>3 DEF StoreTyped
<1>6. \A i \in applied' : i \in Sent /\ Effect(new, i)
  BY <1>1, <1>2, <1>3 DEF IInv, Stored
<1>7. Stored'
  BY <1>3, <1>4, <1>6 DEF Stored, Effect, hubVars
<1>8. \A s \in Sessions : new.resumes[s] \in Nat /\ t.resumes[s] \in Nat /\ db.resumes[s] \in Nat
  BY <1>1, <1>2 DEF IInv, StoreTyped, Shape
<1>9. Ahead'
  BY <1>3, <1>8 DEF Ahead
<1>10. Settled'
  BY <1>3, <1>4 DEF IInv, Settled, hubVars, streamVars
<1>11. \A s \in Sessions : db'.resumes[s] >= db.resumes[s]
  <2>1. \A s \in Sessions : t.resumes[s] >= db.resumes[s]
    BY <1>8 DEF IInv, Ahead
  <2>. QED
    BY <1>2, <1>3, <1>8, <2>1
<1>. QED
  BY <1>4, <1>5, <1>7, <1>9, <1>10, <1>11 DEF IInv

LEMMA FailedStep ==
  ASSUME IInv, step = "handle", UNCHANGED <<hubVars, streamVars, batch, db, applied>>,
         step' = "nak", open' \in BOOLEAN,
         \/ UNCHANGED <<work, open>>
         \/ work' \in {work, Applied(work, head)} /\ open' = TRUE
         \/ work' = db /\ open' = FALSE
  PROVE  IInv'
<1>1. head \in Sent /\ work \in Shape /\ db \in Shape /\ HubTyped
  BY HeadSent DEF IInv, StoreTyped
<1>2. /\ Applied(work, head) \in Shape
      /\ \A j \in Sent : Effect(work, j) => Effect(Applied(work, head), j)
      /\ \A s \in Sessions : Applied(work, head).resumes[s] >= work.resumes[s]
  BY <1>1, AppliedEffect
<1>3. /\ work' \in Shape
      /\ \A j \in applied : Effect(work', j)
      /\ \A s \in Sessions : work'.resumes[s] >= db.resumes[s]
  <2>1. \A s \in Sessions : work.resumes[s] \in Nat /\ db.resumes[s] \in Nat
                            /\ Applied(work, head).resumes[s] \in Nat
    BY <1>1, <1>2 DEF Shape
  <2>2. /\ applied \subseteq Sent /\ \A j \in applied : Effect(db, j) /\ Effect(work, j)
        /\ \A s \in Sessions : work.resumes[s] >= db.resumes[s]
    BY DEF IInv, Stored, Ahead
  <2>3. CASE work' = work
    BY <1>1, <2>2, <2>3
  <2>4. CASE work' = db
    BY <1>1, <2>1, <2>2, <2>4
  <2>5. CASE work' = Applied(work, head)
    BY <1>2, <2>1, <2>2, <2>5
  <2>. QED
    BY <2>3, <2>4, <2>5
<1>4. /\ HubTyped' /\ StreamTyped' /\ Sent' = Sent
      /\ done' \subseteq Sent' /\ head' = head /\ event' = event
  BY HandlerFrame
<1>5. StoreTyped'
  BY <1>1, <1>3 DEF StoreTyped
<1>6. Stored'
  BY <1>3, <1>4 DEF IInv, Stored, Effect, hubVars
<1>7. ~open' => work' = db'
  BY DEF IInv, Ahead
<1>8. Ahead'
  BY <1>3, <1>7 DEF Ahead
<1>9. Settled'
  BY <1>4 DEF IInv, Settled, hubVars, streamVars
<1>. QED
  BY <1>4, <1>5, <1>6, <1>8, <1>9 DEF IInv

LEMMA HandleStep ==
  ASSUME IInv, Handle
  PROVE  IInv' /\ \A s \in Sessions : db'.resumes[s] >= db.resumes[s]
<1>1. step = "handle" /\ UNCHANGED <<hubVars, streamVars, batch>> /\ open \in BOOLEAN
  BY DEF Handle, IInv, StoreTyped
<1>2. \A s \in Sessions : db.resumes[s] \in Nat
  BY DEF IInv, StoreTyped, Shape
<1>3. CASE HandleInTransaction
  <2>1. CASE Commit(Applied(db, head))
    BY <1>1, <2>1, CommitStep
  <2>2. CASE Failed /\ UNCHANGED <<db, work, open, applied>>
    BY <1>1, <1>2, <2>2, FailedStep DEF Failed
  <2>. QED
    BY <1>3, <2>1, <2>2 DEF HandleInTransaction, storeVars
<1>4. CASE HandleSession
  <2>1. CASE Commit(Applied(work, head))
    BY <1>1, <2>1, CommitStep
  <2>2. CASE /\ Failed /\ UNCHANGED <<db, applied>>
             /\ \/ work' \in {work, Applied(work, head)} /\ open' = TRUE
                \/ work' = db /\ open' = FALSE
    <3>1. open' \in BOOLEAN /\ step' = "nak"
      BY <2>2 DEF Failed
    <3>2. IInv'
      BY <1>1, <2>2, <3>1, FailedStep
    <3>. QED
      BY <1>2, <2>2, <3>2
  <2>. QED
    BY <1>4, <2>1, <2>2 DEF HandleSession
<1>5. CASE HandlePoison
  <2>1. UNCHANGED storeVars /\ step' = "term" /\ event.kind = "poison"
    BY <1>5 DEF HandlePoison
  <2>2. /\ HubTyped' /\ StreamTyped' /\ Sent' = Sent
        /\ done' \subseteq Sent' /\ head' = head /\ event' = event
    BY <1>1, <2>1, HandlerFrame
  <2>3. StoreTyped' /\ Ahead'
    BY <2>1 DEF IInv, StoreTyped, Ahead, storeVars
  <2>4. Stored'
    BY <1>1, <2>1 DEF IInv, Stored, Effect, Sent, hubVars, storeVars
  <2>5. Settled'
    BY <1>1, <2>1, <2>2 DEF IInv, Settled, hubVars, streamVars, storeVars
  <2>6. \A s \in Sessions : db'.resumes[s] >= db.resumes[s]
    BY <1>2, <2>1 DEF storeVars
  <2>. QED
    BY <2>2, <2>3, <2>4, <2>5, <2>6 DEF IInv
<1>. QED
  BY <1>3, <1>4, <1>5 DEF Handle

LEMMA RestartStep == ASSUME IInv, Restart PROVE IInv'
<1>1. /\ UNCHANGED <<hubVars, streamVars, db, applied>>
      /\ batch' = <<>> /\ step' = "fetch" /\ work' = db /\ open' = FALSE
  BY DEF Restart
<1>2. HubTyped'
  BY <1>1 DEF IInv, HubTyped, hubVars
<1>3. StreamTyped'
  BY <1>1 DEF IInv, StreamTyped, Sent, hubVars, streamVars
<1>4. StoreTyped' /\ Settled'
  BY <1>1 DEF IInv, StoreTyped, Settled, Sent, hubVars, streamVars
<1>5. Stored'
  BY <1>1 DEF IInv, Stored, Effect, Sent, hubVars
<1>6. Ahead'
  <2>1. \A s \in Sessions : db.resumes[s] \in Nat
    BY DEF IInv, StoreTyped, Shape
  <2>. QED
    BY <1>1, <2>1 DEF Ahead
<1>. QED
  BY <1>2, <1>3, <1>4, <1>5, <1>6 DEF IInv

LEMMA StutterStep == ASSUME IInv, UNCHANGED vars PROVE IInv'
BY DEF IInv, HubTyped, StreamTyped, StoreTyped, Stored, Effect, Ahead, Settled,
       Sent, head, event, vars, hubVars, streamVars, storeVars

LEMMA InvStep == ASSUME IInv, [Next]_vars PROVE IInv'
BY HubStep, FetchStep, HandleStep, AckStep, NakStep, TermStep, RestartStep,
   ExpireStep, StutterStep DEF Next, Writer

LEMMA IInvHolds == Spec => []IInv
BY InitInv, InvStep, PTL DEF Spec

(***************************************************************************)
(* The theorems.                                                            *)
(***************************************************************************)

\* An event leaves the stream only when its effect is in the committed
\* tables, whatever fails, is redelivered or restarts in between.
THEOREM AckCoversWrite == Spec => []AckedIsStored
<1>1. ASSUME IInv PROVE AckedIsStored
  <2>. SUFFICES ASSUME NEW i \in done
                PROVE  /\ published[i].kind # "poison" => i \in applied
                       /\ published[i].kind \in LogKinds => db.rows[i] > 0
                       /\ published[i].kind \in LogKinds \cup {"start"} =>
                            db.row[published[i].session] # "none"
    BY DEF AckedIsStored
  <2>1. published[i].kind = "poison" \/ i \in applied
    BY <1>1 DEF IInv, Settled
  <2>2. i \in applied => Effect(db, i)
    BY <1>1 DEF IInv, Stored
  <2>. QED
    BY <2>1, <2>2 DEF Effect, LogKinds
<1>. QED
  BY <1>1, IInvHolds, PTL

\* No step lowers a resume count: each target is applied as a high-water
\* mark, and a rollback or a restart returns to the committed count.
THEOREM CountGrows == Spec => CountNeverRegresses
<1>1. ASSUME IInv, [Next]_vars
      PROVE  \A s \in Sessions : db'.resumes[s] >= db.resumes[s]
  <2>1. \A s \in Sessions : db.resumes[s] \in Nat
    BY <1>1 DEF IInv, StoreTyped, Shape
  <2>2. CASE UNCHANGED db
    BY <2>1, <2>2
  <2>3. CASE Handle
    BY <1>1, <2>3, HandleStep
  <2>. QED
    BY <1>1, <2>2, <2>3 DEF Next, Hub, Writer, Fetch, Ack, Nak, Term, Restart,
                            Expire, vars, storeVars
<1>. QED
  BY <1>1, IInvHolds, PTL DEF Spec, CountNeverRegresses

(***************************************************************************)
(* Handling an event again.  Beyond its effect, an applied event leaves a   *)
(* mark that makes its statement do nothing the second time: the row of the *)
(* user's turn, the ended session, the processed event_id.                  *)
(***************************************************************************)
Mark(t, i) ==
  LET e == published[i] IN
  /\ e.kind = "user" => t.rows[i] = 1
  /\ e.kind = "end" => t.row[e.session] = "ended"
  /\ e.kind = "resume" => i \in t.processed

\* An end_session that found no row left no mark.
Unmarked(i) == published[i].kind = "end" /\ i \in early

Marked == \A i \in applied : Unmarked(i) \/ (Mark(db, i) /\ Mark(work, i))

LEMMA AppliedMark ==
  ASSUME HubTyped, NEW i \in Sent, NEW t \in Shape
  PROVE  /\ (published[i].kind = "end" => t.row[published[i].session] # "none")
              => Mark(Applied(t, i), i)
         /\ \A j \in Sent : Mark(t, j) => Mark(Applied(t, i), j)
<1>. DEFINE e == published[i]
            s0 == e.session
            new == Applied(t, i)
<1>1. /\ i \in Ids /\ e.kind \in Kinds /\ s0 \in Sessions
      /\ \A j \in Sent : j \in Ids /\ published[j].session \in Sessions
  BY SentEvent
<1>2. CASE e.kind \in LogKinds
  <2>1. new = [t EXCEPT !.rows[i] = IF e.kind = "user" THEN 1 ELSE @ + 1,
                        !.row[s0] = IF t.row[s0] # "none" THEN @ ELSE "open"]
    BY <1>2 DEF Applied, LogKinds
  <2>2. /\ t.rows \in [Ids -> Nat] /\ t.row \in [Sessions -> {"none", "open", "ended"}]
        /\ new = [rows |-> [t.rows EXCEPT ![i] = IF e.kind = "user" THEN 1 ELSE @ + 1],
                  row |-> [t.row EXCEPT ![s0] = IF t.row[s0] # "none" THEN @ ELSE "open"],
                  cli |-> t.cli, resumes |-> t.resumes, processed |-> t.processed]
    BY <2>1 DEF Shape
  <2>3. new.processed = t.processed
    BY <2>2
  <2>4. /\ e.kind = "user" => new.rows[i] = 1
        /\ \A j \in Ids : j # i => new.rows[j] = t.rows[j]
    BY <2>2, <1>1
  <2>5. \A s \in Sessions : t.row[s] = "ended" => new.row[s] = "ended"
    BY <2>2, <1>1
  <2>. HIDE DEF new
  <2>6. Mark(new, i)
    BY <1>2, <2>4 DEF Mark, LogKinds
  <2>7. ASSUME NEW j \in Sent, Mark(t, j), j # i PROVE Mark(new, j)
    BY <1>1, <2>3, <2>4, <2>5, <2>7 DEF Mark
  <2>. QED
    BY <2>6, <2>7 DEF new
<1>3. CASE e.kind = "start"
  <2>1. new = [t EXCEPT !.row[s0] = IF t.row[s0] # "none" THEN @ ELSE "open"]
    BY <1>3 DEF Applied, LogKinds
  <2>. QED
    BY <2>1, <1>1, <1>3 DEF Shape, Mark
<1>4. CASE e.kind = "end"
  <2>1. new = [t EXCEPT !.row[s0] = IF t.row[s0] # "none" THEN "ended" ELSE @]
    BY <1>4 DEF Applied, LogKinds
  <2>. QED
    BY <2>1, <1>1, <1>4 DEF Shape, Mark
<1>5. CASE e.kind = "cli"
  <2>1. new = [t EXCEPT !.cli[s0] = IF t.row[s0] # "none" THEN i ELSE @]
    BY <1>5 DEF Applied, LogKinds
  <2>. QED
    BY <2>1, <1>1, <1>5 DEF Shape, Mark
<1>6. CASE e.kind = "resume" /\ i \notin t.processed
  <2>1. new = [t EXCEPT !.resumes[s0] = IF t.row[s0] # "none" /\ e.target > @
                                        THEN e.target ELSE @,
                        !.processed = @ \cup {i}]
    BY <1>6 DEF Applied, LogKinds
  <2>2. new.rows = t.rows /\ new.row = t.row /\ new.processed = t.processed \cup {i}
    BY <2>1 DEF Shape
  <2>. HIDE DEF new
  <2>3. Mark(new, i) /\ \A j \in Sent : Mark(t, j) => Mark(new, j)
    BY <2>2, <1>6 DEF Mark
  <2>. QED
    BY <2>3 DEF new
<1>7. CASE new = t /\ (e.kind = "poison" \/ (e.kind = "resume" /\ i \in t.processed))
  BY <1>7 DEF Mark
<1>8. \/ e.kind \in LogKinds \cup {"start", "end", "cli"}
      \/ e.kind = "resume" /\ i \notin t.processed
      \/ new = t /\ (e.kind = "poison" \/ (e.kind = "resume" /\ i \in t.processed))
  BY <1>1 DEF Applied, Kinds, SessionKinds, LogKinds
<1>. QED
  BY <1>2, <1>3, <1>4, <1>5, <1>6, <1>7, <1>8

\* What is there already is not written again.
LEMMA MarkedIsFixed ==
  ASSUME HubTyped, NEW i \in Sent, NEW t \in Shape, Mark(t, i), Effect(t, i),
         published[i].kind \in {"user", "start", "end", "resume"}
  PROVE  Applied(t, i) = t
<1>. DEFINE e == published[i]
            s0 == e.session
<1>1. i \in Ids /\ s0 \in Sessions
  BY SentEvent
<1>2. /\ t = [rows |-> t.rows, row |-> t.row, cli |-> t.cli,
              resumes |-> t.resumes, processed |-> t.processed]
      /\ t.rows \in [Ids -> Nat] /\ t.row \in [Sessions -> {"none", "open", "ended"}]
  BY DEF Shape
<1>3. CASE e.kind = "user"
  <2>1. Applied(t, i) = [t EXCEPT !.rows[i] = 1, !.row[s0] = t.row[s0]]
    BY <1>3 DEF Applied, LogKinds, Effect
  <2>2. /\ [t.rows EXCEPT ![i] = 1] = t.rows
        /\ [t.row EXCEPT ![s0] = t.row[s0]] = t.row
    BY <1>1, <1>2, <1>3 DEF Mark
  <2>. QED
    BY <1>2, <2>1, <2>2
<1>4. CASE e.kind = "start"
  <2>1. Applied(t, i) = [t EXCEPT !.row[s0] = t.row[s0]]
    BY <1>4 DEF Applied, LogKinds, Effect
  <2>2. [t.row EXCEPT ![s0] = t.row[s0]] = t.row
    BY <1>1, <1>2
  <2>. QED
    BY <1>2, <2>1, <2>2
<1>5. CASE e.kind = "end"
  <2>1. Applied(t, i) = [t EXCEPT !.row[s0] = "ended"]
    BY <1>5 DEF Applied, LogKinds, Mark
  <2>2. [t.row EXCEPT ![s0] = "ended"] = t.row
    BY <1>1, <1>2, <1>5 DEF Mark
  <2>. QED
    BY <1>2, <2>1, <2>2
<1>6. CASE e.kind = "resume"
  BY <1>6 DEF Applied, LogKinds, Mark
<1>. QED
  BY <1>3, <1>4, <1>5, <1>6

LEMMA MarksStay ==
  ASSUME IInv, Marked, UNCHANGED <<published, applied, early>>, db' = db,
         step = "handle", work' \in {db, work, Applied(work, head)}
  PROVE  Marked'
<1>1. applied \subseteq Sent /\ work \in Shape /\ HubTyped
  BY DEF IInv, Stored, StoreTyped
<1>2. CASE work' \in {db, work}
  BY <1>2 DEF Marked, Unmarked, Mark
<1>3. CASE work' = Applied(work, head)
  <2>1. head \in Sent
    BY <1>3, HeadSent
  <2>2. \A j \in Sent : Mark(work, j) => Mark(work', j)
    BY <1>1, <1>3, <2>1, AppliedMark
  <2>. QED
    BY <1>1, <2>2 DEF Marked, Unmarked, Mark
<1>. QED
  BY <1>2, <1>3

LEMMA CommitMarks ==
  ASSUME IInv, Marked, step = "handle", UNCHANGED published,
         NEW t \in {db, work}, Commit(Applied(t, head)),
         event.kind = "end" => t = work
  PROVE  Marked'
<1>. DEFINE new == Applied(t, head)
<1>1. applied \subseteq Sent /\ head \in Sent /\ t \in Shape /\ HubTyped
  BY HeadSent DEF IInv, Stored, StoreTyped
<1>2. /\ (event.kind = "end" => t.row[event.session] # "none") => Mark(new, head)
      /\ \A j \in Sent : Mark(t, j) => Mark(new, j)
  BY <1>1, AppliedMark DEF event
<1>. HIDE DEF new
<1>3. /\ db' = new /\ work' = new /\ applied' = applied \cup {head}
      /\ early' = IF event.kind = "end" /\ work.row[event.session] = "none"
                  THEN early \cup {head} ELSE early
  BY DEF Commit, new
<1>4. ASSUME NEW i \in applied
      PROVE  Unmarked(i)' \/ Mark(new, i)
  BY <1>1, <1>2, <1>3 DEF Marked, Unmarked
<1>5. ASSUME NEW i, i = head
      PROVE  Unmarked(i)' \/ Mark(new, i)
  BY <1>2, <1>3, <1>5 DEF Unmarked, event
<1>6. ASSUME NEW i \in applied'
      PROVE  Unmarked(i)' \/ (Mark(db, i)' /\ Mark(work, i)')
  <2>1. Unmarked(i)' \/ Mark(new, i)
    BY <1>3, <1>4, <1>5
  <2>2. Mark(new, i) => Mark(db, i)' /\ Mark(work, i)'
    BY <1>3 DEF Mark
  <2>. QED
    BY <2>1, <2>2
<1>. QED
  BY <1>6 DEF Marked

LEMMA StepMarked == ASSUME IInv, Marked, [Next]_vars PROVE Marked'
<1>1. applied \subseteq Sent
  BY DEF IInv, Stored
<1>2. CASE Hub
  <2>1. \A i \in Sent : published'[i] = published[i]
    BY <1>2, HubPublishes, PublishGrows DEF IInv
  <2>2. UNCHANGED storeVars
    BY <1>2 DEF Hub
  <2>. QED
    BY <1>1, <2>1, <2>2 DEF Marked, Unmarked, Mark, storeVars
<1>3. CASE HandleInTransaction /\ Handle
  BY <1>3, CommitMarks, MarksStay
  DEF Handle, HandleInTransaction, LogKinds, storeVars, hubVars
<1>4. CASE HandleSession /\ Handle
  BY <1>4, CommitMarks, MarksStay DEF Handle, HandleSession, hubVars
<1>5. CASE Restart
  BY <1>5 DEF Restart, Marked, Unmarked, Mark, hubVars
<1>6. CASE UNCHANGED <<published, storeVars>>
  BY <1>6 DEF Marked, Unmarked, Mark, storeVars
<1>. QED
  BY <1>2, <1>3, <1>4, <1>5, <1>6
  DEF Next, Writer, Handle, HandlePoison, Fetch, Ack, Nak, Term, Expire, vars, hubVars

\* Handling an event a second time changes nothing when its statement is
\* idempotent: a user's turn, start_session, increment_resume_count, and an
\* end_session whose session had a row.
THEOREM ReplayChangesNothing == Spec => ReplayHarmless
<1>1. Init => Marked
  BY DEF Init, Marked
<1>2. IInv /\ Marked /\ [Next]_vars => Marked'
  BY StepMarked
<1>3. ASSUME IInv, Marked, [Next]_vars, NEW i \in applied,
             step = "handle", step' = "ack", head = i,
             published[i].kind \notin {"answer", "cli"},
             ~(published[i].kind = "end" /\ i \in early)
      PROVE  db' = work
  <2>1. i \in Sent /\ HubTyped /\ work \in Shape /\ (~open => work = db)
    BY <1>3 DEF IInv, Stored, StoreTyped, Ahead
  <2>2. Mark(work, i) /\ Effect(work, i)
    BY <1>3 DEF IInv, Stored, Marked, Unmarked
  <2>3. Handle
    BY <1>3 DEF Next, Hub, Writer, Fetch, Ack, Nak, Term, Restart, Expire,
                NextMessage, Failed, vars
  <2>4. db' = Applied(work, i) /\ event.kind # "poison"
    BY <1>3, <2>1, <2>3
    DEF Handle, HandleInTransaction, HandleSession, HandlePoison, Commit, Failed,
        LogKinds, SessionKinds
  <2>5. published[i].kind \in {"user", "start", "end", "resume"}
    BY <1>3, <2>1, <2>4, SentEvent DEF event, Kinds, LogKinds, SessionKinds
  <2>. QED
    BY <2>1, <2>2, <2>4, <2>5, MarkedIsFixed
<1>4. IInv /\ Marked /\ [Next]_vars =>
        [\A i \in applied :
           (step = "handle" /\ step' = "ack" /\ head = i) =>
             \/ published[i].kind \in {"answer", "cli"}
             \/ published[i].kind = "end" /\ i \in early
             \/ db' = work]_vars
  BY <1>3
<1>. QED
  BY <1>1, <1>2, <1>4, IInvHolds, PTL DEF Spec, ReplayHarmless
=============================================================================

--------------------------- MODULE LogProc_proofs ---------------------------
(***************************************************************************)
(* The logproc process: the type correctness of its state, for any records *)
(* and faults, and that a graceful restart loses no acked record.          *)
(***************************************************************************)
EXTENDS LogProc, Pipeline_proofs, SequenceTheorems

-----------------------------------------------------------------------------
(* Sequences without duplicates.                                           *)

Elems(q) == {q[i] : i \in DOMAIN q}
Distinct(q) == \A i, j \in DOMAIN q : q[i] = q[j] => i = j

LEMMA AppendDistinct ==
    ASSUME NEW q \in Seq(Event), Distinct(q), NEW e \in Event, e \notin Elems(q)
    PROVE  /\ Append(q, e) \in Seq(Event) /\ Distinct(Append(q, e))
           /\ Elems(Append(q, e)) = Elems(q) \union {e}
<1>1. /\ DOMAIN q = 1..Len(q) /\ Len(q) \in Nat
      /\ DOMAIN Append(q, e) = 1..(Len(q) + 1)
      /\ \A i \in 1..Len(q) : Append(q, e)[i] = q[i]
      /\ Append(q, e)[Len(q) + 1] = e
  OBVIOUS
<1>2. Distinct(Append(q, e))
  BY <1>1 DEF Distinct, Elems
<1>3. Elems(Append(q, e)) = Elems(q) \union {e}
  BY <1>1 DEF Elems
<1>. QED
  BY <1>2, <1>3

LEMMA TailDistinct ==
    ASSUME NEW q \in Seq(Event), Distinct(q), q # << >>
    PROVE  /\ Tail(q) \in Seq(Event) /\ Distinct(Tail(q))
           /\ Head(q) \in Elems(q)
           /\ Elems(Tail(q)) = Elems(q) \ {Head(q)}
<1>1. /\ DOMAIN q = 1..Len(q) /\ Len(q) \in Nat \ {0}
      /\ DOMAIN Tail(q) = 1..(Len(q) - 1)
      /\ \A i \in 1..(Len(q) - 1) : Tail(q)[i] = q[i + 1]
      /\ Head(q) = q[1]
  OBVIOUS
<1>2. Distinct(Tail(q))
  BY <1>1 DEF Distinct
<1>3. \A i \in 2..Len(q) : i - 1 \in DOMAIN Tail(q) /\ Tail(q)[i - 1] = q[i]
  BY <1>1
<1>. DEFINE t == Tail(q)
           h == Head(q)
<1>4. /\ DOMAIN t = 1..(Len(q) - 1) /\ h = q[1]
      /\ \A i \in 1..(Len(q) - 1) : t[i] = q[i + 1]
      /\ \A i \in 2..Len(q) : i - 1 \in DOMAIN t /\ t[i - 1] = q[i]
  BY <1>1, <1>3
<1>. HIDE DEF t, h
<1>5. Elems(t) \subseteq Elems(q) \ {h}
  BY <1>1, <1>4 DEF Elems, Distinct
<1>6. Elems(q) \ {h} \subseteq Elems(t)
  <2>. SUFFICES ASSUME NEW i \in 1..Len(q), q[i] # h PROVE q[i] \in Elems(t)
    BY <1>1 DEF Elems
  <2>1. i \in 2..Len(q)
    BY <1>1, <1>4
  <2>. QED
    BY <1>4, <2>1 DEF Elems
<1>7. h \in Elems(q)
  BY <1>1, <1>4 DEF Elems
<1>8. t \in Seq(Event)
  BY DEF t
<1>. QED
  BY <1>2, <1>5, <1>6, <1>7, <1>8 DEF t, h

LEMMA CutDistinct ==
    ASSUME NEW q \in Seq(Event), Distinct(q), NEW i \in DOMAIN q
    PROVE  LET cut == SubSeq(q, 1, i - 1) \o SubSeq(q, i + 1, Len(q))
           IN  /\ cut \in Seq(Event) /\ Distinct(cut)
               /\ Elems(cut) \subseteq Elems(q) \ {q[i]}
<1>. DEFINE cut == SubSeq(q, 1, i - 1) \o SubSeq(q, i + 1, Len(q))
<1>1. i \in 1..Len(q) /\ Len(q) \in Nat /\ DOMAIN q = 1..Len(q)
  OBVIOUS
<1>2. /\ cut \in Seq(Event) /\ Len(cut) = Len(q) - 1
      /\ \A j \in 1..(Len(q) - 1) : cut[j] = IF j < i THEN q[j] ELSE q[j + 1]
  <2>. DEFINE a == SubSeq(q, 1, i - 1)
              b == SubSeq(q, i + 1, Len(q))
  <2>1. /\ a \in Seq(Event) /\ Len(a) = i - 1
        /\ \A j \in 1..(i - 1) : a[j] = q[j]
    BY <1>1
  <2>2. /\ b \in Seq(Event) /\ Len(b) = Len(q) - i
        /\ \A j \in 1..(Len(q) - i) : b[j] = q[i + j]
    BY <1>1
  <2>. HIDE DEF a, b
  <2>3. /\ a \o b \in Seq(Event) /\ Len(a \o b) = Len(q) - 1
        /\ \A j \in 1..(Len(q) - 1) :
              (a \o b)[j] = IF j < i THEN a[j] ELSE b[j - (i - 1)]
    <3>1. /\ a \o b \in Seq(Event) /\ Len(a \o b) = Len(a) + Len(b)
          /\ \A j \in 1..(Len(a) + Len(b)) :
                (a \o b)[j] = IF j <= Len(a) THEN a[j] ELSE b[j - Len(a)]
      BY <2>1, <2>2, ConcatProperties
    <3>2. Len(a) + Len(b) = Len(q) - 1 /\ Len(a) = i - 1
      BY <1>1, <2>1, <2>2
    <3>3. \A j \in 1..(Len(q) - 1) : j <= i - 1 <=> j < i
      BY <1>1
    <3>. QED
      BY <3>1, <3>2, <3>3
  <2>4. \A j \in 1..(Len(q) - 1) : ~(j < i) => b[j - (i - 1)] = q[j + 1]
    <3>. SUFFICES ASSUME NEW j \in 1..(Len(q) - 1), ~(j < i)
                  PROVE  b[j - (i - 1)] = q[j + 1]
      OBVIOUS
    <3>. DEFINE k == j - (i - 1)
    <3>1. k \in 1..(Len(q) - i) /\ i + k = j + 1
      BY <1>1
    <3>2. b[k] = q[i + k]
      BY <2>2, <3>1
    <3>. QED
      BY <3>1, <3>2
  <2>5. \A j \in 1..(Len(q) - 1) : j < i => a[j] = q[j]
    BY <1>1, <2>1
  <2>6. cut = a \o b
    BY DEF a, b
  <2>. QED
    BY <2>3, <2>4, <2>5, <2>6
<1>. HIDE DEF cut
<1>3. DOMAIN cut = 1..(Len(q) - 1)
  <2>1. DOMAIN cut = 1..Len(cut)
    BY <1>2
  <2>. QED
    BY <1>2, <2>1
<1>4. Distinct(cut)
  <2>. SUFFICES ASSUME NEW a \in 1..(Len(q) - 1), NEW b \in 1..(Len(q) - 1), a # b
                PROVE  cut[a] # cut[b]
    BY <1>3 DEF Distinct
  <2>. DEFINE place(j) == IF j < i THEN j ELSE j + 1
  <2>1. place(a) \in DOMAIN q /\ place(b) \in DOMAIN q /\ place(a) # place(b)
    BY <1>1
  <2>2. cut[a] = q[place(a)] /\ cut[b] = q[place(b)]
    BY <1>2
  <2>. HIDE DEF place
  <2>. QED
    BY <2>1, <2>2 DEF Distinct
<1>5. Elems(cut) \subseteq Elems(q) \ {q[i]}
  <2>. SUFFICES ASSUME NEW j \in 1..(Len(q) - 1)
                PROVE  cut[j] \in Elems(q) /\ cut[j] # q[i]
    BY <1>3 DEF Elems
  <2>1. CASE j < i
    BY <1>1, <1>2, <2>1 DEF Elems, Distinct
  <2>2. CASE ~(j < i)
    BY <1>1, <1>2, <2>2 DEF Elems, Distinct
  <2>. QED
    BY <2>1, <2>2
<1>. QED
  BY <1>2, <1>4, <1>5 DEF cut

-----------------------------------------------------------------------------
(* The messages: JetStream has each at most once in its queue, consume has *)
(* each at most once in its inbox, and neither holds one that is acked.    *)

MsgInv ==
    /\ queue \in Seq(Event) /\ Distinct(queue)
    /\ inbox \in Seq(Event) /\ Distinct(inbox)
    /\ acked \subseteq Event /\ pending \subseteq Event \ acked
    /\ Elems(queue) \union Elems(inbox) \subseteq pending
    /\ processed \in BOOLEAN
    /\ processed => inbox # << >>

msgVars == <<queue, pending, acked, inbox, processed>>

LEMMA Renamed == InQueue = Elems(queue) /\ InInbox = Elems(inbox)
BY DEF InQueue, InInbox, Elems

LEMMA EmptyElems == Elems(<< >>) = {} /\ Distinct(<< >>)
BY DEF Elems, Distinct

\* What else a step may change is no concern of the messages.
LEMMA MsgElsewhere ==
    ASSUME MsgInv, UNCHANGED msgVars
    PROVE  MsgInv'
BY DEF MsgInv, msgVars, Elems, Distinct

LEMMA MsgQueued ==
    ASSUME MsgInv, NEW e \in Event, e \notin InQueue, e \notin acked,
           queue' = Append(queue, e), pending' = pending \union {e},
           UNCHANGED <<acked, inbox, processed>>
    PROVE  MsgInv'
<1>1. /\ queue' \in Seq(Event) /\ Distinct(queue')
      /\ Elems(queue') = Elems(queue) \union {e}
  BY Renamed, AppendDistinct DEF MsgInv
<1>2. Distinct(inbox') /\ Elems(inbox') = Elems(inbox)
  BY DEF MsgInv
<1>3. Distinct(queue)' /\ Distinct(inbox)' /\ Elems(queue)' = Elems(queue')
      /\ Elems(inbox)' = Elems(inbox')
  BY <1>1, <1>2 DEF Distinct, Elems
<1>. QED
  BY <1>1, <1>2, <1>3 DEF MsgInv

LEMMA MsgFetched ==
    ASSUME MsgInv, Fetch
    PROVE  MsgInv'
BY EmptyElems DEF MsgInv, Fetch, Distinct, Elems

\* The head of the inbox is done with.
LEMMA InboxNext ==
    ASSUME MsgInv, inbox # << >>, inbox' = Tail(inbox)
    PROVE  /\ inbox' \in Seq(Event) /\ Distinct(inbox)'
           /\ Elems(inbox)' = Elems(inbox) \ {Head(inbox)}
           /\ Head(inbox) \in Event
<1>1. /\ Tail(inbox) \in Seq(Event) /\ Distinct(Tail(inbox))
      /\ Head(inbox) \in Elems(inbox)
      /\ Elems(Tail(inbox)) = Elems(inbox) \ {Head(inbox)}
  BY TailDistinct DEF MsgInv
<1>2. Elems(inbox)' = Elems(inbox') /\ Distinct(inbox)' = Distinct(inbox')
  BY DEF Elems, Distinct
<1>. QED
  BY <1>1, <1>2 DEF MsgInv

LEMMA MsgStep == MsgInv /\ [LogProcNext]_logVars => MsgInv'
<1>. SUFFICES ASSUME MsgInv, [LogProcNext]_logVars
              PROVE  MsgInv'
  OBVIOUS
<1>. USE DEF stream
<1>1. ASSUME NEW e \in Event, Publish(e) PROVE MsgInv'
  BY <1>1, Renamed, MsgQueued DEF Publish, MsgInv, reader
<1>2. ASSUME NEW e \in Event, Redeliver(e) PROVE MsgInv'
  <2>1. pending' = pending \union {e} /\ e \notin acked
    BY <1>2 DEF Redeliver, MsgInv
  <2>. QED
    BY <1>2, <2>1, MsgQueued DEF Redeliver, reader
<1>3. ASSUME NEW e \in Event, RedeliverSlow(e) PROVE MsgInv'
  <2>1. pending' = pending \union {e} /\ e \notin acked
    BY <1>3 DEF RedeliverSlow, MsgInv
  <2>. QED
    BY <1>3, <2>1, MsgQueued DEF RedeliverSlow, reader
<1>4. CASE Fetch
  BY <1>4, MsgFetched
<1>5. ASSUME NEW e \in Event, Nak(e) PROVE MsgInv'
  <2>1. /\ inbox # << >> /\ inbox' = Tail(inbox) /\ e = Head(inbox) /\ ~processed
        /\ UNCHANGED <<pending, acked, processed>>
    BY <1>5 DEF Nak, Handles
  <2>2. /\ inbox' \in Seq(Event) /\ Distinct(inbox)'
        /\ Elems(inbox)' = Elems(inbox) \ {e}
    BY <2>1, InboxNext
  <2>3. e \in pending
    BY <2>1, TailDistinct DEF MsgInv
  <2>4. queue' \in Seq(Event) /\ Distinct(queue)' /\ Elems(queue)' \subseteq pending
    <3>1. CASE e \in InQueue
      BY <1>5, <3>1 DEF Nak, MsgInv, Distinct, Elems
    <3>2. CASE e \notin InQueue
      <4>1. queue' = Append(queue, e)
        BY <1>5, <3>2 DEF Nak
      <4>2. /\ Append(queue, e) \in Seq(Event) /\ Distinct(Append(queue, e))
            /\ Elems(Append(queue, e)) = Elems(queue) \union {e}
        BY <3>2, Renamed, AppendDistinct DEF MsgInv
      <4>3. Elems(queue)' = Elems(queue') /\ Distinct(queue)' = Distinct(queue')
        BY DEF Elems, Distinct
      <4>. QED
        BY <2>3, <4>1, <4>2, <4>3 DEF MsgInv
    <3>. QED
      BY <3>1, <3>2
  <2>. QED
    BY <2>1, <2>2, <2>4 DEF MsgInv
<1>6. ASSUME NEW e \in Event, DeadLetter(e) \/ Process(e) PROVE MsgInv'
  BY <1>6 DEF DeadLetter, Process, Handles, MsgInv, Elems, Distinct
<1>7. CASE Ack
  <2>1. /\ inbox # << >> /\ inbox' = Tail(inbox) /\ processed' = FALSE
        /\ pending' = pending \ {Head(inbox)}
        /\ acked' = acked \union {Head(inbox)}
    BY <1>7 DEF Ack, NextMessage, MsgInv
  <2>2. /\ inbox' \in Seq(Event) /\ Distinct(inbox)'
        /\ Elems(inbox)' = Elems(inbox) \ {Head(inbox)}
        /\ Head(inbox) \in Event
    BY <2>1, InboxNext
  <2>3. /\ queue' \in Seq(Event) /\ Distinct(queue)'
        /\ Elems(queue)' \subseteq Elems(queue) \ {Head(inbox)}
    <3>1. CASE Head(inbox) \notin InQueue /\ UNCHANGED queue
      BY <3>1, Renamed DEF MsgInv, Distinct, Elems
    <3>2. ASSUME NEW i \in DOMAIN queue, queue[i] = Head(inbox),
                 queue' = SubSeq(queue, 1, i - 1) \o SubSeq(queue, i + 1, Len(queue))
          PROVE  /\ queue' \in Seq(Event) /\ Distinct(queue)'
                 /\ Elems(queue)' \subseteq Elems(queue) \ {Head(inbox)}
      <4>1. /\ queue' \in Seq(Event) /\ Distinct(queue')
            /\ Elems(queue') \subseteq Elems(queue) \ {queue[i]}
        BY <3>2, CutDistinct DEF MsgInv
      <4>2. Elems(queue)' = Elems(queue') /\ Distinct(queue)' = Distinct(queue')
        BY DEF Elems, Distinct
      <4>. QED
        BY <3>2, <4>1, <4>2
    <3>. QED
      BY <1>7, <3>1, <3>2 DEF Ack
  <2>. QED
    BY <2>1, <2>2, <2>3 DEF MsgInv
<1>8. CASE LoseAck
  <2>1. /\ inbox # << >> /\ inbox' = Tail(inbox) /\ processed' = FALSE
        /\ UNCHANGED <<queue, pending, acked>>
    BY <1>8 DEF LoseAck, NextMessage, MsgInv
  <2>2. /\ inbox' \in Seq(Event) /\ Distinct(inbox)'
        /\ Elems(inbox)' = Elems(inbox) \ {Head(inbox)}
    BY <2>1, InboxNext
  <2>3. Elems(queue)' = Elems(queue) /\ Distinct(queue)' = Distinct(queue)
    BY <2>1 DEF Elems, Distinct
  <2>. QED
    BY <2>1, <2>2, <2>3 DEF MsgInv
<1>9. CASE ConsumeReturns
  BY <1>9, MsgElsewhere DEF ConsumeReturns, msgVars
<1>10. CASE LoopStep \/ Clock \/ Signal \/ FinalFlush \/ Drain
  BY <1>10, MsgElsewhere DEF LoopStep, Clock, Signal, FinalFlush, Drain, service, reader,
                            msgVars
<1>11. CASE TakeIndex \/ Save
  BY <1>11, MsgElsewhere DEF TakeIndex, Save, reader, msgVars
<1>12. CASE Boot
  BY <1>12, MsgElsewhere DEF Boot, msgVars
<1>13. CASE Gone
  <2>1. inbox' = << >> /\ processed' = FALSE /\ UNCHANGED <<queue, pending, acked>>
    BY <1>13 DEF Gone
  <2>2. Elems(queue)' = Elems(queue) /\ Distinct(queue)'
    BY <2>1 DEF MsgInv, Elems, Distinct
  <2>3. Elems(inbox)' = {} /\ Distinct(inbox)' /\ inbox' \in Seq(Event)
    BY <2>1 DEF Elems, Distinct
  <2>. QED
    BY <2>1, <2>2, <2>3 DEF MsgInv
<1>14. CASE UNCHANGED logVars
  BY <1>14, MsgElsewhere DEF logVars, reader, msgVars
<1>. QED
  BY <1>1, <1>2, <1>3, <1>4, <1>5, <1>6, <1>7, <1>8, <1>9, <1>10, <1>11, <1>12, <1>13, <1>14
  DEF LogProcNext, Shutdown, Exit, Crash

-----------------------------------------------------------------------------
(* The pipeline inside the process, the snapshot and the life of the       *)
(* process itself.                                                         *)

IndexOK(m) ==
    /\ m.idIndex \in [Identifier -> Key \union {NoKey}]
    /\ m.keyIDs \in [Key -> SUBSET Identifier]

SnapshotOK(s) ==
    /\ s.windows \in [Key -> Window]
    /\ s.recentKeys \subseteq Key
    /\ IndexOK(s)

\* Only a process that will be started again is ever stopped.
RunInv ==
    /\ {consuming, correlated} \subseteq BOOLEAN
    /\ deadLetters \subseteq Unparsable
    /\ stage \in Stages
    /\ boots \in 1..MaxBoots /\ faults \in 0..MaxFaults
    /\ stage # "running" => boots < MaxBoots
    /\ missed \union refused \subseteq Event

ImageInv == SnapshotOK(snapshot) /\ IndexOK(index)

LEMMA FlushersKnown == Loop \in Flusher /\ Main \in Flusher
BY LogProcAssumption

LEMMA NoWindowTyped == NoWindow \in Window
BY PipelineAssumption DEF NoWindow, Window

LEMMA EmptySnapshotTyped == SnapshotOK(EmptySnapshot)
<1>1. EmptySnapshot.windows \in [Key -> Window]
  BY NoWindowTyped DEF EmptySnapshot
<1>2. EmptySnapshot.recentKeys \subseteq Key /\ IndexOK(EmptySnapshot)
  BY DEF EmptySnapshot, IndexOK
<1>. QED
  BY <1>1, <1>2 DEF SnapshotOK

\* Restore: the windows age by the downtime, but no further than LateArrival.
LEMMA RestoreTyped ==
    ASSUME SnapshotOK(snapshot), NEW gap \in 0..LateArrival, Restore(gap)
    PROVE  /\ windows' \in [Key -> Window] /\ recentKeys' \subseteq Key
           /\ idIndex' \in [Identifier -> Key \union {NoKey}]
           /\ keyIDs' \in [Key -> SUBSET Identifier]
<1>1. \A n \in 0..LateArrival : Later(n, gap) \in 0..LateArrival
  BY PipelineAssumption DEF Later
<1>2. ASSUME NEW k \in Key
      PROVE  [snapshot.windows[k] EXCEPT !.age = Later(@, gap)] \in Window
  BY <1>1 DEF SnapshotOK, Window
<1>3. windows' \in [Key -> Window]
  BY <1>2, NoWindowTyped DEF Restore, SnapshotOK
<1>. QED
  BY <1>3 DEF Restore, SnapshotOK, IndexOK

\* A process that is gone has an empty pipeline.
LEMMA GoneTyped ==
    ASSUME TypeOK, Gone
    PROVE  TypeOK'
<1>1. /\ windows' = EmptySnapshot.windows /\ idIndex' = EmptySnapshot.idIndex
      /\ keyIDs' = EmptySnapshot.keyIDs
  BY DEF Gone
<1>2. /\ windows' \in [Key -> Window]
      /\ idIndex' \in [Identifier -> Key \union {NoKey}]
      /\ keyIDs' \in [Key -> SUBSET Identifier]
  BY <1>1, EmptySnapshotTyped DEF SnapshotOK, IndexOK
<1>3. waited' \in [Event -> 0..LateArrival]
  BY PipelineAssumption DEF Gone
<1>. QED
  BY <1>2, <1>3 DEF Gone, TypeOK

LEMMA PipelineTyped == TypeOK /\ ImageInv /\ [LogProcNext]_logVars => TypeOK'
<1>. SUFFICES ASSUME TypeOK, ImageInv, [LogProcNext]_logVars
              PROVE  TypeOK'
  OBVIOUS
<1>1. CASE UNCHANGED vars
  BY <1>1, TypeStep
<1>2. ASSUME NEW e \in Event, Process(e) PROVE TypeOK'
  BY <1>2, TypeStep DEF Process, Next
<1>3. CASE LoopStep
  BY <1>3, FlushersKnown, TypeStep DEF LoopStep, Next, Correlate, Flush
<1>4. CASE FinalFlush
  BY <1>4, FlushersKnown, TypeStep DEF FinalFlush, Next, Flush
<1>5. CASE Drain
  BY <1>5, FlushersKnown, TypeStep DEF Drain, Next, Correlate
<1>6. CASE Clock
  BY <1>6, TypeStep DEF Clock, Next
<1>7. CASE Gone
  BY <1>7, GoneTyped
<1>8. CASE Boot
  <2>1. /\ windows' \in [Key -> Window] /\ recentKeys' \subseteq Key
        /\ idIndex' \in [Identifier -> Key \union {NoKey}]
        /\ keyIDs' \in [Key -> SUBSET Identifier]
    <3>1. CASE \E gap \in 0..LateArrival : Restore(gap)
      BY <3>1, RestoreTyped DEF ImageInv
    <3>2. CASE UNCHANGED <<windows, recentKeys, idIndex, keyIDs>>
      BY <3>2 DEF TypeOK
    <3>. QED
      BY <1>8, <3>1, <3>2 DEF Boot
  <2>2. UNCHANGED <<events, records, bridged, calls, store, accepted, latest, waited>>
    BY <1>8 DEF Boot
  <2>. QED
    BY <2>1, <2>2 DEF TypeOK, calls
<1>9. ASSUME NEW e \in Event,
             Publish(e) \/ Redeliver(e) \/ RedeliverSlow(e) \/ Nak(e) \/ DeadLetter(e)
      PROVE  UNCHANGED vars
  BY <1>9 DEF Publish, Redeliver, RedeliverSlow, Nak, DeadLetter
<1>10. ASSUME Fetch \/ Ack \/ LoseAck \/ ConsumeReturns \/ Signal \/ TakeIndex \/ Save
              \/ UNCHANGED logVars
       PROVE  UNCHANGED vars
  BY <1>10 DEF Fetch, Ack, LoseAck, NextMessage, ConsumeReturns, Signal, TakeIndex, Save, logVars
<1>. QED
  BY <1>1, <1>2, <1>3, <1>4, <1>5, <1>6, <1>7, <1>8, <1>9, <1>10
  DEF LogProcNext, Shutdown, Exit, Crash

LEMMA ImageStep == TypeOK /\ ImageInv /\ [LogProcNext]_logVars => ImageInv'
<1>. SUFFICES ASSUME TypeOK, ImageInv, [LogProcNext]_logVars
              PROVE  ImageInv'
  OBVIOUS
<1>1. CASE UNCHANGED <<index, snapshot>>
  BY <1>1 DEF ImageInv, SnapshotOK, IndexOK
<1>2. CASE TakeIndex
  <2>1. index'.idIndex = idIndex /\ index'.keyIDs = keyIDs /\ snapshot' = snapshot
    BY <1>2 DEF TakeIndex
  <2>. QED
    BY <2>1 DEF ImageInv, SnapshotOK, IndexOK, TypeOK
<1>3. CASE Save
  <2>1. index' = index
    BY <1>3 DEF Save
  <2>2. CASE UNCHANGED snapshot
    BY <2>1, <2>2 DEF ImageInv, SnapshotOK, IndexOK
  <2>3. CASE snapshot' = [windows |-> windows, recentKeys |-> recentKeys,
                          idIndex |-> index.idIndex, keyIDs |-> index.keyIDs]
    <3>1. /\ snapshot'.windows = windows /\ snapshot'.recentKeys = recentKeys
          /\ snapshot'.idIndex = index.idIndex /\ snapshot'.keyIDs = index.keyIDs
      BY <2>3
    <3>. QED
      BY <2>1, <3>1 DEF ImageInv, SnapshotOK, IndexOK, TypeOK
  <2>. QED
    BY <1>3, <2>2, <2>3 DEF Save
<1>4. CASE Boot
  <2>1. index' = index /\ (snapshot' = EmptySnapshot \/ snapshot' = snapshot)
    BY <1>4 DEF Boot
  <2>. QED
    BY <2>1, EmptySnapshotTyped DEF ImageInv, SnapshotOK, IndexOK
<1>5. ASSUME NEW e \in Event,
             \/ Publish(e) \/ Redeliver(e) \/ RedeliverSlow(e)
             \/ Nak(e) \/ DeadLetter(e) \/ Process(e)
      PROVE  UNCHANGED <<index, snapshot>>
  BY <1>5 DEF Publish, Redeliver, RedeliverSlow, Nak, DeadLetter, Process
<1>6. ASSUME Fetch \/ Ack \/ LoseAck \/ ConsumeReturns \/ UNCHANGED logVars
      PROVE  UNCHANGED <<index, snapshot>>
  BY <1>6 DEF Fetch, Ack, LoseAck, NextMessage, ConsumeReturns, logVars
<1>7. ASSUME LoopStep \/ Clock \/ Signal \/ FinalFlush \/ Drain \/ Gone
      PROVE  UNCHANGED <<index, snapshot>>
  BY <1>7 DEF LoopStep, Clock, Signal, FinalFlush, Drain, Gone, service
<1>. QED
  BY <1>1, <1>2, <1>3, <1>4, <1>5, <1>6, <1>7 DEF LogProcNext, Shutdown, Exit, Crash

LEMMA DroppedTyped ==
    ASSUME TypeOK, NEW p \in Flusher
    PROVE  Dropped(p) \subseteq Event
BY DEF TypeOK, Flow, Dropped

\* The parts of RunInv that a step may leave alone.
LEMMA RunElsewhere ==
    ASSUME RunInv, UNCHANGED <<consuming, deadLetters, correlated, stage, faults, boots, losses>>
    PROVE  RunInv'
BY DEF RunInv, losses

LEMMA RunStep == TypeOK /\ RunInv /\ [LogProcNext]_logVars => RunInv'
<1>. SUFFICES ASSUME TypeOK, RunInv, [LogProcNext]_logVars
              PROVE  RunInv'
  OBVIOUS
<1>0. /\ MaxBoots \in Nat /\ MaxFaults \in Nat
      /\ Dropped(Loop) \subseteq Event /\ Dropped(Main) \subseteq Event
  BY LogProcAssumption, FlushersKnown, DroppedTyped
<1>1. ASSUME NEW e \in Event, Publish(e) \/ Redeliver(e) PROVE RunInv'
  BY <1>1, RunElsewhere DEF Publish, Redeliver, reader, counts
<1>2. ASSUME NEW e \in Event, RedeliverSlow(e) PROVE RunInv'
  BY <1>0, <1>2 DEF RedeliverSlow, reader, RunInv, losses
<1>3. ASSUME NEW e \in Event, Nak(e) PROVE RunInv'
  BY <1>3 DEF Nak, GoesOn, counts, RunInv, losses
<1>4. ASSUME NEW e \in Event, DeadLetter(e) PROVE RunInv'
  BY <1>4 DEF DeadLetter, counts, RunInv, losses
<1>5. ASSUME NEW e \in Event, Process(e) PROVE RunInv'
  BY <1>5 DEF Process, RunInv
<1>6. CASE Fetch
  BY <1>6, RunElsewhere DEF Fetch, counts
<1>7. CASE Ack
  BY <1>7 DEF Ack, NextMessage, GoesOn, RunInv, losses
<1>8. CASE LoseAck
  BY <1>0, <1>8 DEF LoseAck, NextMessage, GoesOn, RunInv, losses
<1>9. CASE ConsumeReturns
  BY <1>9 DEF ConsumeReturns, counts, RunInv, losses
<1>10. CASE LoopStep
  <2>1. UNCHANGED <<consuming, deadLetters, stage, faults, boots>>
    BY <1>10 DEF LoopStep, service, reader
  <2>2. correlated' \in BOOLEAN /\ missed' \union refused' \subseteq Event
    BY <1>0, <1>10 DEF LoopStep, RunInv, losses
  <2>. QED
    BY <2>1, <2>2 DEF RunInv
<1>11. CASE Clock
  BY <1>11, RunElsewhere DEF Clock, service, reader
<1>12. CASE Signal
  BY <1>12 DEF Signal, service, reader, RunInv, Stages, losses
<1>13. CASE FinalFlush
  BY <1>0, <1>13 DEF FinalFlush, service, reader, RunInv, Stages, losses
<1>14. CASE TakeIndex
  BY <1>14 DEF TakeIndex, reader, RunInv, Stages, losses
<1>15. CASE Drain
  BY <1>15 DEF Drain, service, reader, RunInv, Stages, losses
<1>16. CASE Save
  BY <1>0, <1>16 DEF Save, reader, RunInv, Stages
<1>17. CASE Exit \/ Crash
  <2>1. Gone /\ boots < MaxBoots
    BY <1>17 DEF Exit, Crash, RunInv
  <2>. QED
    BY <2>1 DEF Gone, counts, RunInv, Stages, losses
<1>18. CASE Boot
  <2>1. boots < MaxBoots
    BY <1>18 DEF Boot, Up, RunInv
  <2>. QED
    BY <1>0, <1>18, <2>1 DEF Boot, RunInv, Stages, losses
<1>19. CASE UNCHANGED logVars
  BY <1>19, RunElsewhere DEF logVars, reader, counts
<1>. QED
  BY <1>1, <1>2, <1>3, <1>4, <1>5, <1>6, <1>7, <1>8, <1>9, <1>10, <1>11, <1>12, <1>13, <1>14,
     <1>15, <1>16, <1>17, <1>18, <1>19
  DEF LogProcNext, Shutdown

LogInv == TypeOK /\ MsgInv /\ ImageInv /\ RunInv

LEMMA LogInvInit == LogProcInit => LogInv
<1>. SUFFICES ASSUME LogProcInit PROVE LogInv
  OBVIOUS
<1>1. TypeOK
  BY PipelineAssumption DEF LogProcInit, Init, TypeOK, NoWindow, Window
<1>2. MsgInv
  <2>1. /\ queue = << >> /\ inbox = << >> /\ pending = {} /\ acked = {}
        /\ processed \in BOOLEAN /\ ~processed
    BY DEF LogProcInit
  <2>2. Elems(queue) = {} /\ Elems(inbox) = {} /\ Distinct(queue) /\ Distinct(inbox)
    BY <2>1, EmptyElems
  <2>. QED
    BY <2>1, <2>2 DEF MsgInv
<1>3. ImageInv
  BY EmptySnapshotTyped DEF LogProcInit, ImageInv, SnapshotOK, IndexOK
<1>4. RunInv
  <2>1. MaxBoots \in Nat \ {0} /\ MaxFaults \in Nat
    BY LogProcAssumption
  <2>2. consuming = TRUE /\ correlated = FALSE
    BY DEF LogProcInit
  <2>3. stage = "running" /\ deadLetters = {} /\ faults = 0 /\ boots = 1
        /\ missed = {} /\ refused = {}
    BY DEF LogProcInit
  <2>4. {consuming, correlated} \subseteq BOOLEAN
    BY <2>2
  <2>. QED
    BY <2>1, <2>3, <2>4 DEF RunInv, Stages
<1>. QED
  BY <1>1, <1>2, <1>3, <1>4 DEF LogInv

LEMMA LogInvStep == LogInv /\ [LogProcNext]_logVars => LogInv'
BY PipelineTyped, MsgStep, ImageStep, RunStep DEF LogInv

LEMMA LogInvAlways == LogProcSpec => []LogInv
BY LogInvInit, LogInvStep, PTL DEF LogProcSpec

\* The variables of logproc keep their shape, and a message is in one state: JetStream
\* holds what is not acked, and consume only what was delivered (buffer.go).
THEOREM LogProcTypeOKAlways == LogProcSpec => []LogProcTypeOK
<1>1. LogInv => LogProcTypeOK
  BY Renamed DEF LogInv, MsgInv, ImageInv, RunInv, SnapshotOK, LogProcTypeOK
<1>. QED
  BY <1>1, LogInvAlways, PTL

-----------------------------------------------------------------------------
(* A graceful restart.  As long as the process runs, what it has accepted  *)
(* is in its memory, on its way to the store or in it; once Save has       *)
(* replaced the snapshot, it is there or in the store.                     *)

SnapEvents == UNION {snapshot.windows[k].events : k \in Key}
Ended == stage \in {"exit", "down"}

\* Out of memory for good: what is not stored then is counted as lost.
Lost == missed \union refused
Out == InFlight \union Stored \union Lost

\* A flusher holds flows in the storing part of Flush only.
FlightInv ==
    \A p \in Flusher : op[p] # "store" => popped[p] = {} /\ chunk[p] = {}

\* What each stage of the shutdown has already dealt with.
StageInv ==
    /\ stage \in {"drain", "draining", "exit", "down"} => op[Main] # "store"
    /\ ~Ended => SnapEvents = {}
    /\ stage = "draining" /\ op[Main] = "idle" => Queued \subseteq missed
    /\ stage = "down" => /\ records = << >> /\ events = {}
                         /\ \A p \in Flusher : op[p] = "idle"

\* A record can be queued for an event that has left Pipeline.events only if the
\* event was in a window that Restore brought back, and has closed since.
KeptInv ==
    /\ events \subseteq accepted
    /\ Queued \ events \subseteq Out
    /\ ~Ended => \A e \in accepted : Ids[e] # {} => e \in Queued \union Members \union Out
    /\ Ended => \A e \in accepted : Ids[e] # {} => e \in SnapEvents \union Stored \union Lost

CoreInv == FlightInv /\ StageInv /\ KeptInv

\* What is acked, or about to be, was accepted.
AckInv ==
    /\ \A e \in acked : Correlatable(e) => e \in accepted
    /\ processed => (Correlatable(Head(inbox)) => Head(inbox) \in accepted)


-----------------------------------------------------------------------------
(* What the steps of the pipeline carry over.                              *)

\* Nothing leaves memory but for the store, apart from the events of D.
Carries(D) ==
    /\ InFlight \union Stored \subseteq InFlight' \union Stored' \union D
    /\ Stored \subseteq Stored'
    /\ Members \subseteq Members' \union InFlight'
    /\ \A e \in Queued \ Queued' : Ids[e] # {} /\ e \in events => e \in Members'
    /\ Queued' \subseteq Queued
    /\ events' \subseteq events /\ events \ events' \subseteq InFlight'
    /\ accepted' = accepted

\* A turn of Correlate moves its event, and those of the windows it merges, to one
\* window.
LEMMA AttachKeepsMembers ==
    ASSUME TypeOK, NEW e \in Event, Ids[e] # {}, Attach(e)
    PROVE  Members \union {e} \subseteq Members'
<1>. DEFINE dst == KeyFor(e)
           others == Others(e)
<1>1. PICK w \in Absorb(dst, others, e) :
         windows' = [k \in Key |-> IF k = dst THEN w
                                   ELSE IF k \in others THEN NoWindow
                                   ELSE windows[k]]
  BY DEF Attach
<1>2. dst \in Key
  BY KeyForTyped
<1>3. w.events = {e} \union UNION {windows[k].events : k \in Open \intersect (others \union {dst})}
  BY <1>1, AbsorbJoins
<1>. HIDE DEF dst, others
<1>4. windows'[dst] = w
  BY <1>1, <1>2
<1>5. w.events \subseteq Members'
  BY <1>2, <1>4 DEF Members
<1>6. ASSUME NEW k \in Key, NEW f \in windows[k].events
      PROVE  f \in Members'
  <2>1. k \in Open
    BY <1>6 DEF Open
  <2>2. CASE k \in others \union {dst}
    BY <1>3, <1>5, <2>1, <2>2, <1>6
  <2>3. CASE k \notin others \union {dst}
    BY <1>1, <1>6, <2>3 DEF Members
  <2>. QED
    BY <2>2, <2>3
<1>. QED
  BY <1>3, <1>5, <1>6 DEF Members

LEMMA RecordCarries ==
    ASSUME TypeOK, FlightInv, NEW p \in Flusher, CorrelateRecord(p)
    PROVE  Carries({}) /\ FlightInv'
<1>1. /\ records # << >> /\ records' = Tail(records)
      /\ UNCHANGED <<events, op, popped, chunk, store, accepted>>
  BY DEF CorrelateRecord, calls
<1>2. InFlight' = InFlight /\ Stored' = Stored /\ FlightInv'
  BY <1>1 DEF InFlight, Stored, FlightInv
<1>3. Queued' \subseteq Queued /\ Queued \ Queued' \subseteq {Head(records)}
  <2>1. /\ DOMAIN records = 1..Len(records) /\ Len(records) \in Nat \ {0}
        /\ DOMAIN records' = 1..(Len(records) - 1)
        /\ \A i \in 1..(Len(records) - 1) : records'[i] = records[i + 1]
        /\ Head(records) = records[1]
    BY <1>1 DEF TypeOK
  <2>2. \A i \in 2..Len(records) : i - 1 \in DOMAIN records' /\ records'[i - 1] = records[i]
    BY <2>1
  <2>3. Queued' \subseteq Queued
    BY <2>1 DEF Queued
  <2>4. \A i \in DOMAIN records : records[i] = Head(records) \/ records[i] \in Queued'
    BY <2>1, <2>2 DEF Queued
  <2>. QED
    BY <2>3, <2>4 DEF Queued
<1>4. Head(records) \in Event
  BY <1>1 DEF TypeOK
<1>5. CASE Ids[Head(records)] # {} /\ Head(records) \in events
  <2>1. Members \union {Head(records)} \subseteq Members'
    BY <1>4, <1>5, AttachKeepsMembers DEF CorrelateRecord
  <2>. QED
    BY <1>1, <1>2, <1>3, <2>1 DEF Carries
<1>6. CASE ~(Ids[Head(records)] # {} /\ Head(records) \in events)
  <2>1. Members' = Members
    BY <1>6 DEF CorrelateRecord, Members
  <2>. QED
    BY <1>1, <1>2, <1>3, <1>6, <2>1 DEF Carries
<1>. QED
  BY <1>5, <1>6

LEMMA CollectCarries ==
    ASSUME TypeOK, FlightInv, NEW p \in Flusher, FlushCollect(p)
    PROVE  Carries({}) /\ FlightInv'
<1>1. /\ op[p] = "idle" /\ op' = [op EXCEPT ![p] = "store"]
      /\ popped' = [popped EXCEPT ![p] = {Materialize(k) : k \in Ready}]
      /\ events' = events \ UNION {windows[k].events : k \in Ready}
      /\ \A k \in Key \ Ready : windows'[k] = windows[k]
      /\ UNCHANGED <<records, chunk, store, accepted>>
  BY DEF FlushCollect
<1>2. popped[p] = {}
  BY <1>1 DEF FlightInv
<1>3. Queued' = Queued /\ Stored' = Stored
  BY <1>1 DEF Queued, Stored
<1>4. InFlight \subseteq InFlight'
  BY <1>1, <1>2 DEF InFlight, TypeOK
<1>5. ASSUME NEW k \in Ready, NEW e \in windows[k].events
      PROVE  e \in InFlight'
  <2>1. Materialize(k) \in popped'[p] /\ Materialize(k).events = windows[k].events
    BY <1>1 DEF TypeOK, Materialize
  <2>. QED
    BY <1>5, <2>1 DEF InFlight
<1>6. Members \subseteq Members' \union InFlight'
  BY <1>1, <1>5 DEF Members
<1>7. FlightInv'
  BY <1>1 DEF FlightInv, TypeOK
<1>. QED
  BY <1>1, <1>3, <1>4, <1>5, <1>6, <1>7 DEF Carries

LEMMA MergeCarries ==
    ASSUME TypeOK, FlightInv, NEW p \in Flusher, MergeNext(p)
    PROVE  Carries({}) /\ FlightInv'
<1>1. UNCHANGED <<events, records, windows, op, store, accepted>>
  BY DEF MergeNext, memory
<1>2. InFlight \subseteq InFlight'
  BY MergeNextKeeps
<1>3. Queued' = Queued /\ Members' = Members /\ Stored' = Stored
  BY <1>1 DEF Queued, Members, Stored
<1>4. FlightInv'
  BY <1>1 DEF MergeNext, FlightInv, TypeOK
<1>. QED
  BY <1>1, <1>2, <1>3, <1>4 DEF Carries

LEMMA EmitCarries ==
    ASSUME TypeOK, FlightInv, NEW p \in Flusher, Emit(p)
    PROVE  Carries({}) /\ FlightInv'
<1>1. /\ UNCHANGED <<events, records, windows, popped, accepted>>
      /\ store' = store \union chunk[p]
      /\ chunk' = [chunk EXCEPT ![p] = {}]
      /\ op' = [op EXCEPT ![p] = IF popped[p] = {} THEN "idle" ELSE "store"]
  BY DEF Emit, Write, memory
<1>2. Queued' = Queued /\ Members' = Members /\ Stored \subseteq Stored'
  BY <1>1 DEF Queued, Members, Stored
<1>3. ASSUME NEW e \in InFlight
      PROVE  e \in InFlight' \union Stored'
  <2>1. PICK q \in Flusher : \E f \in popped[q] \union chunk[q] : e \in f.events
    BY FlightMembers
  <2>2. PICK f \in popped[q] \union chunk[q] : e \in f.events
    BY <2>1
  <2>3. CASE f \in popped[q] \/ q # p
    <3>1. f \in popped'[q] \union chunk'[q]
      BY <1>1, <2>2, <2>3 DEF TypeOK
    <3>. QED
      BY <2>2, <3>1 DEF InFlight
  <2>4. CASE f \in chunk[q] /\ q = p
    BY <1>1, <2>2, <2>4 DEF Stored
  <2>. QED
    BY <2>2, <2>3, <2>4
<1>4. FlightInv'
  BY <1>1 DEF FlightInv, TypeOK
<1>. QED
  BY <1>1, <1>2, <1>3, <1>4 DEF Carries

\* The flows of a failed insert, written or not, are what it drops.
LEMMA EmitFailsCarries ==
    ASSUME TypeOK, FlightInv, NEW p \in Flusher, EmitFails(p)
    PROVE  Carries(Dropped(p)) /\ FlightInv'
<1>1. /\ UNCHANGED <<events, records, windows, accepted>>
      /\ store \subseteq store'
      /\ chunk' = [chunk EXCEPT ![p] = {}]
      /\ popped' = [popped EXCEPT ![p] = {}]
      /\ op' = [op EXCEPT ![p] = "idle"]
  BY DEF EmitFails, Write, memory
<1>2. Queued' = Queued /\ Members' = Members /\ Stored \subseteq Stored'
  BY <1>1 DEF Queued, Members, Stored
<1>3. ASSUME NEW e \in InFlight
      PROVE  e \in InFlight' \union Dropped(p)
  <2>1. PICK q \in Flusher : \E f \in popped[q] \union chunk[q] : e \in f.events
    BY FlightMembers
  <2>2. CASE q # p
    <3>1. popped'[q] = popped[q] /\ chunk'[q] = chunk[q]
      BY <1>1, <2>2 DEF TypeOK
    <3>. QED
      BY <2>1, <3>1 DEF InFlight
  <2>3. CASE q = p
    BY <2>1, <2>3 DEF Dropped
  <2>. QED
    BY <2>2, <2>3
<1>4. FlightInv'
  BY <1>1 DEF FlightInv, TypeOK
<1>. QED
  BY <1>1, <1>2, <1>3, <1>4 DEF Carries

\* Steps of Correlate, the clock, and of the rest of the process.
LEMMA QuietCarries ==
    ASSUME TypeOK, FlightInv,
           \/ \E p \in Flusher : BeginCorrelate(p) \/ EndCorrelate(p)
           \/ Tick
           \/ UNCHANGED vars
    PROVE  Carries({}) /\ FlightInv'
<1>1. UNCHANGED <<events, records, popped, chunk, store, accepted>>
  BY DEF BeginCorrelate, EndCorrelate, Tick, memory, calls, vars
<1>2. \A k \in Key : windows'[k].events = windows[k].events
  <2>1. CASE Tick
    BY <2>1 DEF Tick, TypeOK, Window
  <2>2. CASE UNCHANGED windows
    BY <2>2
  <2>. QED
    BY <2>1, <2>2 DEF BeginCorrelate, EndCorrelate, memory, vars
<1>3. Queued' = Queued /\ Members' = Members /\ Stored' = Stored /\ InFlight' = InFlight
  BY <1>1, <1>2 DEF Queued, Members, Stored, InFlight
<1>4. \A p \in Flusher : op'[p] # "store" => op[p] # "store"
  BY DEF BeginCorrelate, EndCorrelate, Tick, calls, vars, TypeOK
<1>5. FlightInv'
  BY <1>1, <1>4 DEF FlightInv
<1>. QED
  BY <1>1, <1>3, <1>5 DEF Carries

LEMMA NothingLost == UNCHANGED losses => Lost' = Lost
BY DEF losses, Lost

\* What is carried over is kept, the dropped events being counted as lost.
LEMMA CarriedIsKept ==
    ASSUME KeptInv, NEW D, Carries(D), Lost' = Lost \union D,
           UNCHANGED snapshot, Ended <=> Ended'
    PROVE  KeptInv'
<1>1. Out \subseteq Out' /\ InFlight' \subseteq Out'
  BY DEF Carries, Out
<1>2. events' \subseteq accepted'
  BY DEF KeptInv, Carries
<1>3. Queued' \ events' \subseteq Out'
  BY <1>1 DEF KeptInv, Carries
<1>4. ASSUME ~Ended', NEW e \in accepted', Ids[e] # {}
      PROVE  e \in Queued' \union Members' \union Out'
  <2>1. e \in Queued \union Members \union Out
    BY <1>4 DEF KeptInv, Carries
  <2>2. CASE e \in Members \union Out
    BY <1>1, <2>2 DEF Carries
  <2>3. CASE e \in Queued /\ e \in events
    BY <1>4, <2>3 DEF Carries
  <2>4. CASE e \in Queued /\ e \notin events
    BY <1>1, <2>4 DEF KeptInv
  <2>. QED
    BY <2>1, <2>2, <2>3, <2>4
<1>5. ASSUME Ended', NEW e \in accepted', Ids[e] # {}
      PROVE  e \in SnapEvents' \union Stored' \union Lost'
  <2>1. SnapEvents' = SnapEvents
    BY DEF SnapEvents
  <2>. QED
    BY <1>5, <2>1 DEF KeptInv, Carries
<1>. QED
  BY <1>2, <1>3, <1>4, <1>5 DEF KeptInv

\* Steps that leave the pipeline alone.
LEMMA ProcessQuiet ==
    ASSUME TypeOK, CoreInv, UNCHANGED <<vars, losses, snapshot>>,
           \/ UNCHANGED stage
           \/ stage = "running" /\ stage' = "flush"
           \/ stage = "flushing" /\ stage' = "drain" /\ op[Main] = "idle"
    PROVE  CoreInv'
<1>1. Carries({}) /\ FlightInv'
  BY QuietCarries DEF CoreInv
<1>2. KeptInv'
  BY <1>1, NothingLost, CarriedIsKept DEF CoreInv, Ended
<1>3. Queued' = Queued /\ SnapEvents' = SnapEvents
  BY DEF Queued, SnapEvents, vars
<1>4. StageInv'
  BY <1>3 DEF CoreInv, StageInv, Ended, vars, losses
<1>. QED
  BY <1>1, <1>2, <1>4 DEF CoreInv

LEMMA LoopKeeps ==
    ASSUME TypeOK, CoreInv, LoopStep
    PROVE  CoreInv'
<1>1. Up /\ UNCHANGED <<stage, snapshot>>
  BY DEF LoopStep, service
<1>2. Loop \in Flusher /\ Main \in Flusher /\ Loop # Main
  BY LogProcAssumption
<1>3. op'[Main] = op[Main]
  BY <1>2 DEF LoopStep, BeginCorrelate, CorrelateRecord, EndCorrelate, FlushCollect, MergeNext,
              Emit, EmitFails, TypeOK, calls
<1>4. PICK D : Carries(D) /\ FlightInv' /\ Lost' = Lost \union D
  <2>1. CASE UNCHANGED losses /\ (BeginCorrelate(Loop) \/ EndCorrelate(Loop))
    <3>1. Carries({}) /\ FlightInv'
      BY <1>2, <2>1, QuietCarries DEF CoreInv
    <3>. QED
      BY <2>1, <3>1, NothingLost
  <2>2. CASE UNCHANGED losses /\ CorrelateRecord(Loop)
    BY <1>2, <2>2, RecordCarries, NothingLost DEF CoreInv
  <2>3. CASE UNCHANGED losses /\ FlushCollect(Loop)
    BY <1>2, <2>3, CollectCarries, NothingLost DEF CoreInv
  <2>4. CASE UNCHANGED losses /\ MergeNext(Loop)
    BY <1>2, <2>4, MergeCarries, NothingLost DEF CoreInv
  <2>5. CASE UNCHANGED losses /\ Emit(Loop)
    BY <1>2, <2>5, EmitCarries, NothingLost DEF CoreInv
  <2>6. CASE /\ EmitFails(Loop)
             /\ \/ missed' = missed \union Dropped(Loop) /\ UNCHANGED refused
                \/ refused' = refused \union Dropped(Loop) /\ UNCHANGED missed
    <3>1. Lost' = Lost \union Dropped(Loop)
      BY <2>6 DEF Lost
    <3>. QED
      BY <1>2, <2>6, <3>1, EmitFailsCarries DEF CoreInv
  <2>. QED
    BY <2>1, <2>2, <2>3, <2>4, <2>5, <2>6 DEF LoopStep
<1>5. KeptInv'
  BY <1>1, <1>4, CarriedIsKept DEF CoreInv, Ended
<1>6. StageInv'
  <2>1. SnapEvents' = SnapEvents
    BY <1>1 DEF SnapEvents
  <2>2. Queued' \subseteq Queued /\ missed \subseteq missed'
    BY <1>4 DEF Carries, LoopStep, losses
  <2>. QED
    BY <1>1, <1>3, <2>1, <2>2 DEF CoreInv, StageInv, Ended, Up
<1>. QED
  BY <1>4, <1>5, <1>6 DEF CoreInv

LEMMA ClockKeeps ==
    ASSUME TypeOK, CoreInv, Clock
    PROVE  CoreInv'
<1>1. Tick /\ Up /\ UNCHANGED <<stage, snapshot, losses, records, op>>
  BY DEF Clock, service, Tick, calls
<1>2. Carries({}) /\ FlightInv'
  BY <1>1, QuietCarries DEF CoreInv
<1>3. KeptInv'
  BY <1>1, <1>2, NothingLost, CarriedIsKept DEF CoreInv, Ended
<1>4. Queued' = Queued /\ SnapEvents' = SnapEvents
  BY <1>1 DEF Queued, SnapEvents
<1>5. StageInv'
  BY <1>1, <1>4 DEF CoreInv, StageInv, Ended, Up, losses
<1>. QED
  BY <1>2, <1>3, <1>5 DEF CoreInv

\* The flush of run itself, before Snapshot.
LEMMA FinalFlushKeeps ==
    ASSUME TypeOK, CoreInv, FinalFlush
    PROVE  CoreInv'
<1>1. /\ stage \in {"flush", "flushing"} /\ stage' = "flushing"
      /\ UNCHANGED snapshot
  BY DEF FinalFlush, service
<1>2. Main \in Flusher
  BY FlushersKnown
<1>3. PICK D : Carries(D) /\ FlightInv' /\ Lost' = Lost \union D
  <2>1. CASE UNCHANGED losses /\ FlushCollect(Main)
    BY <1>2, <2>1, CollectCarries, NothingLost DEF CoreInv
  <2>2. CASE UNCHANGED losses /\ MergeNext(Main)
    BY <1>2, <2>2, MergeCarries, NothingLost DEF CoreInv
  <2>3. CASE UNCHANGED losses /\ Emit(Main)
    BY <1>2, <2>3, EmitCarries, NothingLost DEF CoreInv
  <2>4. CASE /\ EmitFails(Main)
             /\ refused' = refused \union Dropped(Main) /\ UNCHANGED missed
    <3>1. Lost' = Lost \union Dropped(Main)
      BY <2>4 DEF Lost
    <3>. QED
      BY <1>2, <2>4, <3>1, EmitFailsCarries DEF CoreInv
  <2>. QED
    BY <2>1, <2>2, <2>3, <2>4 DEF FinalFlush
<1>4. KeptInv'
  BY <1>1, <1>3, CarriedIsKept DEF CoreInv, Ended
<1>5. SnapEvents' = SnapEvents
  BY <1>1 DEF SnapEvents
<1>6. StageInv'
  BY <1>1, <1>5 DEF CoreInv, StageInv, Ended
<1>. QED
  BY <1>3, <1>4, <1>6 DEF CoreInv

\* Snapshot's Correlate: when it ends, no record is queued.
LEMMA DrainKeeps ==
    ASSUME TypeOK, CoreInv, Drain
    PROVE  CoreInv'
<1>1. /\ stage \in {"drain", "draining"} /\ stage' = "draining"
      /\ UNCHANGED <<snapshot, losses>>
  BY DEF Drain, service
<1>2. Main \in Flusher
  BY FlushersKnown
<1>3. Carries({}) /\ FlightInv'
  <2>1. CASE BeginCorrelate(Main) \/ EndCorrelate(Main)
    BY <1>2, <2>1, QuietCarries DEF CoreInv
  <2>2. CASE CorrelateRecord(Main)
    BY <1>2, <2>2, RecordCarries DEF CoreInv
  <2>. QED
    BY <2>1, <2>2 DEF Drain
<1>4. KeptInv'
  BY <1>1, <1>3, NothingLost, CarriedIsKept DEF CoreInv, Ended
<1>5. SnapEvents' = SnapEvents
  BY <1>1 DEF SnapEvents
<1>6. op'[Main] # "store" /\ (op'[Main] = "idle" => Queued' \subseteq missed')
  <2>1. CASE BeginCorrelate(Main)
    BY <1>2, <2>1 DEF BeginCorrelate, TypeOK
  <2>2. CASE CorrelateRecord(Main)
    BY <1>2, <2>2 DEF CorrelateRecord, calls
  <2>3. CASE EndCorrelate(Main)
    <3>1. records' = << >> /\ op' = [op EXCEPT ![Main] = "idle"]
      BY <2>3 DEF EndCorrelate, memory
    <3>2. Queued' = {}
      BY <3>1 DEF Queued
    <3>. QED
      BY <1>2, <3>1, <3>2 DEF TypeOK
  <2>. QED
    BY <2>1, <2>2, <2>3 DEF Drain
<1>7. StageInv'
  BY <1>1, <1>5, <1>6 DEF CoreInv, StageInv, Ended, losses
<1>. QED
  BY <1>3, <1>4, <1>7 DEF CoreInv

\* The process goes: everything that no snapshot and no flow holds is lost.
LEMMA GoneKeeps ==
    ASSUME TypeOK, CoreInv, stage = "exit", Gone
    PROVE  CoreInv'
<1>1. /\ events' = {} /\ records' = << >> /\ stage' = "down"
      /\ op' = [p \in Flusher |-> "idle"]
      /\ popped' = [p \in Flusher |-> {}] /\ chunk' = [p \in Flusher |-> {}]
      /\ UNCHANGED <<store, accepted, snapshot, missed, refused>>
  BY DEF Gone, counts, losses
<1>2. FlightInv'
  BY <1>1 DEF FlightInv
<1>3. Queued' = {} /\ SnapEvents' = SnapEvents /\ Stored' = Stored
  BY <1>1 DEF Queued, SnapEvents, Stored
<1>4. StageInv'
  BY <1>1, FlushersKnown DEF StageInv, Ended
<1>5. KeptInv'
  BY <1>1, <1>3 DEF CoreInv, KeptInv, Ended, Lost
<1>. QED
  BY <1>2, <1>4, <1>5 DEF CoreInv

\* The next process starts from the snapshot.
LEMMA BootKeeps ==
    ASSUME TypeOK, CoreInv, ~ValkeyMayFail, Boot
    PROVE  CoreInv'
<1>1. /\ stage = "down" /\ stage' = "running"
      /\ events = {} /\ records = << >>
      /\ UNCHANGED <<events, records, op, popped, chunk, store, accepted, missed, refused>>
  BY DEF Boot, Up, CoreInv, StageInv, calls, losses
<1>2. FlightInv'
  BY <1>1 DEF CoreInv, FlightInv
<1>3. /\ SnapEvents' = {} /\ SnapEvents \subseteq Members'
  <2>1. CASE /\ \E gap \in 0..LateArrival : Restore(gap)
             /\ snapshot' = EmptySnapshot
    <3>1. \A k \in Key : snapshot'.windows[k] = NoWindow
      BY <2>1 DEF EmptySnapshot
    <3>2. \A k \in Key : snapshot.windows[k].events # {} =>
                             windows'[k].events = snapshot.windows[k].events
      BY <2>1 DEF Restore
    <3>. QED
      BY <3>1, <3>2 DEF SnapEvents, Members, NoWindow
  <2>2. CASE snapshot.windows = EmptySnapshot.windows /\ UNCHANGED snapshot
    <3>1. \A k \in Key : snapshot.windows[k] = NoWindow
      BY <2>2 DEF EmptySnapshot
    <3>. QED
      BY <2>2, <3>1 DEF SnapEvents, NoWindow
  <2>. QED
    BY <2>1, <2>2 DEF Boot
<1>4. Queued' = {} /\ Stored' = Stored
  BY <1>1 DEF Queued, Stored
<1>5. StageInv'
  BY <1>1, <1>3 DEF StageInv, Ended
<1>6. KeptInv'
  BY <1>1, <1>3, <1>4 DEF CoreInv, KeptInv, Ended, Out, Lost
<1>. QED
  BY <1>2, <1>5, <1>6 DEF CoreInv

\* Save: the snapshot takes the windows; no record is queued but those that came
\* after Correlate, and the flows that the flush loop still has will not be written.
LEMMA SaveKeeps ==
    ASSUME TypeOK, CoreInv, ~ValkeyMayFail, Save
    PROVE  CoreInv'
<1>1. /\ stage = "draining" /\ op[Main] = "idle" /\ stage' = "exit"
      /\ snapshot'.windows = windows
      /\ missed' = missed \union Dropped(Loop)
      /\ UNCHANGED <<vars, refused>>
  BY DEF Save
<1>2. Carries({}) /\ FlightInv'
  BY <1>1, QuietCarries DEF CoreInv
<1>3. /\ Queued \subseteq missed
      /\ SnapEvents = {} /\ SnapEvents' = Members
      /\ Queued' = Queued /\ Stored' = Stored /\ InFlight' = InFlight
  BY <1>1 DEF CoreInv, StageInv, Ended, SnapEvents, Members, Queued, Stored, InFlight, vars
<1>4. InFlight \subseteq Dropped(Loop)
  <2>1. popped[Main] = {} /\ chunk[Main] = {}
    BY <1>1, FlushersKnown DEF CoreInv, FlightInv
  <2>2. Flusher = {Loop, Main}
    BY LogProcAssumption
  <2>. QED
    BY <2>1, <2>2 DEF InFlight, Dropped
<1>5. StageInv'
  BY <1>1 DEF CoreInv, StageInv, Ended, vars
<1>6. KeptInv'
  <2>1. Queued' \ events' \subseteq Out'
    BY <1>1, <1>3 DEF Out, Lost
  <2>2. \A e \in accepted : Ids[e] # {} => e \in Queued \union Members \union Out
    BY <1>1 DEF CoreInv, KeptInv, Ended
  <2>3. \A e \in accepted' : Ids[e] # {} => e \in SnapEvents' \union Stored' \union Lost'
    BY <1>1, <1>3, <1>4, <2>2 DEF Out, Lost, vars
  <2>4. events' \subseteq accepted'
    BY <1>1 DEF CoreInv, KeptInv, vars
  <2>. QED
    BY <1>1, <2>1, <2>3, <2>4 DEF KeptInv, Ended
<1>. QED
  BY <1>2, <1>5, <1>6 DEF CoreInv

\* A record that is taken in after the pipeline was drained is missed.
LEMMA ProcessKeeps ==
    ASSUME TypeOK, CoreInv, NEW e \in Event, Process(e)
    PROVE  CoreInv'
<1>1. /\ Up /\ events' = events \union {e} /\ accepted' = accepted \union {e}
      /\ records' = IF e \in events THEN records ELSE Append(records, e)
      /\ missed' = IF Drained THEN missed \union {e} ELSE missed
      /\ UNCHANGED <<windows, op, popped, chunk, store, stage, snapshot, refused>>
  BY DEF Process, Handles, Accumulate, calls
<1>2. FlightInv'
  BY <1>1 DEF CoreInv, FlightInv
<1>3. /\ Members' = Members /\ InFlight' = InFlight /\ Stored' = Stored
      /\ SnapEvents' = SnapEvents
  BY <1>1 DEF Members, InFlight, Stored, SnapEvents
<1>4. Queued' = IF e \in events THEN Queued ELSE Queued \union {e}
  <2>1. CASE e \in events
    BY <1>1, <2>1 DEF Queued
  <2>2. CASE e \notin events
    <3>1. /\ DOMAIN records = 1..Len(records) /\ Len(records) \in Nat
          /\ DOMAIN records' = 1..(Len(records) + 1)
          /\ \A i \in 1..Len(records) : records'[i] = records[i]
          /\ records'[Len(records) + 1] = e
      BY <1>1, <2>2 DEF TypeOK
    <3>. QED
      BY <2>2, <3>1 DEF Queued
  <2>. QED
    BY <2>1, <2>2
<1>5. missed \subseteq missed' /\ missed' \subseteq Lost' /\ Lost \subseteq Lost'
      /\ Out \subseteq Out'
  BY <1>1, <1>3 DEF Out, Lost
<1>6. StageInv'
  BY <1>1, <1>3, <1>4, <1>5 DEF CoreInv, StageInv, Ended, Drained, Up
<1>7. KeptInv'
  <2>1. events' \subseteq accepted' /\ Queued' \ events' \subseteq Out'
    BY <1>1, <1>4, <1>5 DEF CoreInv, KeptInv
  <2>2. ASSUME ~Ended', NEW f \in accepted', Ids[f] # {}
        PROVE  f \in Queued' \union Members' \union Out'
    BY <1>1, <1>3, <1>4, <1>5, <2>2 DEF CoreInv, KeptInv, Ended
  <2>3. ASSUME Ended', NEW f \in accepted', Ids[f] # {}
        PROVE  f \in SnapEvents' \union Stored' \union Lost'
    BY <1>1, <1>3, <1>5, <2>3 DEF CoreInv, KeptInv, Ended, Drained, Up
  <2>. QED
    BY <2>1, <2>2, <2>3 DEF KeptInv
<1>. QED
  BY <1>2, <1>6, <1>7 DEF CoreInv

LEMMA CoreStep ==
    ASSUME ~MayCrash, ~ValkeyMayFail, TypeOK, CoreInv, [LogProcNext]_logVars
    PROVE  CoreInv'
<1>1. ASSUME NEW e \in Event,
             Publish(e) \/ Redeliver(e) \/ RedeliverSlow(e) \/ Nak(e) \/ DeadLetter(e)
      PROVE  CoreInv'
  <2>1. UNCHANGED <<vars, losses, snapshot, stage>>
    BY <1>1 DEF Publish, Redeliver, RedeliverSlow, Nak, DeadLetter, counts
  <2>. QED
    BY <2>1, ProcessQuiet
<1>2. ASSUME NEW e \in Event, Process(e) PROVE CoreInv'
  BY <1>2, ProcessKeeps
<1>3. CASE Fetch \/ Ack \/ LoseAck \/ ConsumeReturns \/ UNCHANGED logVars
  <2>1. UNCHANGED <<vars, losses, snapshot, stage>>
    BY <1>3 DEF Fetch, Ack, LoseAck, NextMessage, ConsumeReturns, logVars, counts
  <2>. QED
    BY <2>1, ProcessQuiet
<1>4. CASE Signal \/ TakeIndex
  <2>1. /\ UNCHANGED <<vars, losses, snapshot>>
        /\ \/ stage = "running" /\ stage' = "flush"
           \/ stage = "flushing" /\ stage' = "drain" /\ op[Main] = "idle"
    BY <1>4 DEF Signal, TakeIndex, service
  <2>. QED
    BY <2>1, ProcessQuiet
<1>5. CASE LoopStep \/ Clock \/ FinalFlush \/ Drain \/ Save \/ Boot
  BY <1>5, LoopKeeps, ClockKeeps, FinalFlushKeeps, DrainKeeps, SaveKeeps, BootKeeps
<1>6. CASE Exit
  BY <1>6, GoneKeeps DEF Exit
<1>. QED
  BY <1>1, <1>2, <1>3, <1>4, <1>5, <1>6 DEF LogProcNext, Shutdown, Crash

LEMMA AcceptedGrows == [LogProcNext]_logVars => accepted \subseteq accepted'
<1>. SUFFICES ASSUME [LogProcNext]_logVars PROVE accepted \subseteq accepted'
  OBVIOUS
<1>1. CASE UNCHANGED accepted
  BY <1>1
<1>2. ASSUME NEW e \in Event, Process(e) PROVE accepted \subseteq accepted'
  BY <1>2 DEF Process, Accumulate
<1>3. ASSUME NEW e \in Event,
             Publish(e) \/ Redeliver(e) \/ RedeliverSlow(e) \/ Nak(e) \/ DeadLetter(e)
      PROVE  UNCHANGED accepted
  BY <1>3 DEF Publish, Redeliver, RedeliverSlow, Nak, DeadLetter, vars
<1>4. ASSUME Fetch \/ Ack \/ LoseAck \/ ConsumeReturns \/ Signal \/ TakeIndex \/ Save
             \/ Gone \/ Boot \/ UNCHANGED logVars
      PROVE  UNCHANGED accepted
  BY <1>4 DEF Fetch, Ack, LoseAck, NextMessage, ConsumeReturns, Signal, TakeIndex, Save, Gone,
             Boot, logVars, vars
<1>5. ASSUME LoopStep \/ FinalFlush \/ Drain \/ Clock PROVE UNCHANGED accepted
  BY <1>5 DEF LoopStep, FinalFlush, Drain, Clock, BeginCorrelate, CorrelateRecord, EndCorrelate,
             FlushCollect, MergeNext, Emit, EmitFails, Tick
<1>. QED
  BY <1>1, <1>2, <1>3, <1>4, <1>5 DEF LogProcNext, Shutdown, Exit, Crash

LEMMA AckStep == MsgInv /\ AckInv /\ [LogProcNext]_logVars => AckInv'
<1>. SUFFICES ASSUME MsgInv, AckInv, [LogProcNext]_logVars
              PROVE  AckInv'
  OBVIOUS
<1>0. accepted \subseteq accepted'
  BY AcceptedGrows
<1>1. ASSUME UNCHANGED <<acked, inbox, processed>> \/ (UNCHANGED acked /\ ~processed')
      PROVE  AckInv'
  BY <1>0, <1>1 DEF AckInv, Correlatable
<1>2. ASSUME NEW e \in Event, Process(e) PROVE AckInv'
  <2>1. /\ UNCHANGED <<acked, inbox>> /\ e = Head(inbox) /\ e \in accepted'
    BY <1>2 DEF Process, Handles, Accumulate, stream
  <2>. QED
    BY <1>0, <2>1 DEF AckInv, Correlatable
<1>3. ASSUME NEW e \in Event, DeadLetter(e) PROVE AckInv'
  <2>1. /\ UNCHANGED <<acked, inbox>> /\ Head(inbox) \in Unparsable
    BY <1>3 DEF DeadLetter, Handles, stream
  <2>. QED
    BY <1>0, <2>1 DEF AckInv, Correlatable
<1>4. CASE Ack
  <2>1. /\ processed /\ acked' = acked \union {Head(inbox)} /\ ~processed'
    BY <1>4 DEF Ack, NextMessage
  <2>. QED
    BY <1>0, <2>1 DEF AckInv, Correlatable
<1>5. ASSUME NEW e \in Event, Publish(e) \/ Redeliver(e) \/ RedeliverSlow(e) PROVE AckInv'
  BY <1>1, <1>5 DEF Publish, Redeliver, RedeliverSlow, reader
<1>6. ASSUME NEW e \in Event, Nak(e) PROVE AckInv'
  BY <1>1, <1>6 DEF Nak, Handles
<1>7. CASE Fetch
  BY <1>1, <1>7 DEF Fetch, MsgInv
<1>8. CASE LoseAck \/ Gone
  BY <1>1, <1>8 DEF LoseAck, NextMessage, Gone, stream
<1>9. CASE \/ ConsumeReturns \/ LoopStep \/ Clock \/ Signal \/ FinalFlush \/ TakeIndex
           \/ Drain \/ Save \/ Boot \/ UNCHANGED logVars
  BY <1>1, <1>9 DEF ConsumeReturns, LoopStep, Clock, Signal, FinalFlush, TakeIndex, Drain, Save,
                   Boot, logVars, service, reader, stream
<1>. QED
  BY <1>2, <1>3, <1>4, <1>5, <1>6, <1>7, <1>8, <1>9 DEF LogProcNext, Shutdown, Exit, Crash

LEMMA CoreInit == LogProcInit => CoreInv /\ AckInv
<1>. SUFFICES ASSUME LogProcInit PROVE CoreInv /\ AckInv
  OBVIOUS
<1>1. FlightInv
  BY DEF LogProcInit, Init, FlightInv
<1>2. Queued = {} /\ SnapEvents = {}
  BY DEF LogProcInit, Init, Queued, SnapEvents, EmptySnapshot, NoWindow
<1>3. StageInv /\ KeptInv /\ AckInv
  BY <1>2 DEF LogProcInit, Init, StageInv, KeptInv, AckInv, Ended
<1>. QED
  BY <1>1, <1>3 DEF CoreInv

\* A graceful restart of logproc carries every acked record over (main.go, from the
\* signal to the exit), but for those that consume takes in after Snapshot has
\* drained the pipeline, those that the flush loop can no longer write, and those
\* whose insert VictoriaLogs refuses, before the signal or in the final flush.
THEOREM RestartKeepsAckedAlways ==
    ASSUME ~MayCrash, ~ValkeyMayFail
    PROVE  LogProcSpec => []RestartKeepsAcked
<1>1. LogProcInit => CoreInv /\ AckInv
  BY CoreInit
<1>2. LogInv /\ CoreInv /\ AckInv /\ [LogProcNext]_logVars => (CoreInv /\ AckInv)'
  BY CoreStep, AckStep DEF LogInv
<1>3. CoreInv /\ AckInv => RestartKeepsAcked
  BY DEF CoreInv, KeptInv, AckInv, RestartKeepsAcked, Held, Out, Lost, SnapEvents, Correlatable
<1>. QED
  BY <1>1, <1>2, <1>3, LogInvAlways, PTL DEF LogProcSpec
=============================================================================

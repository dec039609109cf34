--------------------------- MODULE Pipeline_proofs ---------------------------
(***************************************************************************)
(* Pipeline's type correctness, the consistency of its two indexes, and    *)
(* that its windows implement RequestGroups; and what reaches the store by *)
(* way of them.  For any events, identifiers, flushers and bounds.         *)
(***************************************************************************)
EXTENDS Pipeline, TLAPS

LEMMA SmallestIsMember ==
    ASSUME NEW S \in SUBSET Identifier, S # {}
    PROVE  Smallest(S) \in S
BY PipelineAssumption DEF Smallest

LEMMA NoKeyIsNoIdentifier == NoKey \notin Identifier
BY PipelineAssumption

\* An event with identifiers has a window to go to, a key of the same set.
LEMMA KeyForTyped ==
    ASSUME TypeOK, NEW e \in Event, Ids[e] # {}
    PROVE  /\ KeyFor(e) \in Key
           /\ Existing(e) \subseteq Key
           /\ Existing(e) # {} => KeyFor(e) \in Existing(e)
           /\ Existing(e) = {} => KeyFor(e) \in Ids[e]
<1>1. Existing(e) \subseteq Key
  BY PipelineAssumption DEF Existing, TypeOK, Key
<1>2. Ids[e] \in SUBSET Identifier
  BY PipelineAssumption
<1> QED
  BY <1>1, <1>2, SmallestIsMember DEF KeyFor, Key

LEMMA AbsorbTyped ==
    ASSUME TypeOK, NEW e \in Event, NEW dst \in Key, NEW others \in SUBSET Key
    PROVE  Absorb(dst, others, e) \subseteq Window
<1> DEFINE from   == Open \intersect (others \union {dst})
           owners == IF dst \in from THEN {windows[dst].tenant}
                     ELSE IF from # {} THEN {windows[k].tenant : k \in from}
                     ELSE {{TenantOf[e]}}
           ages   == IF from = {} THEN {0} ELSE Oldest({windows[k].age : k \in from})
           joined == {e} \union UNION {windows[k].events : k \in from}
<1>1. ASSUME NEW k \in Key
      PROVE  windows[k].events \in SUBSET Event /\ windows[k].tenant \in SUBSET Tenant
             /\ windows[k].age \in 0..LateArrival
  BY <1>1 DEF TypeOK, Window
<1>2. from \subseteq Key
  BY DEF Open
<1>3. joined \in SUBSET Event
  BY <1>1, <1>2
<1>4. owners \subseteq SUBSET Tenant
  BY <1>1, <1>2, PipelineAssumption
<1>5. ages \subseteq 0..LateArrival
  BY <1>1, <1>2, PipelineAssumption DEF Oldest
<1>6. Absorb(dst, others, e) =
        {[events |-> joined, tenant |-> t, age |-> a] : t \in owners, a \in ages}
  BY DEF Absorb
<1> HIDE DEF joined, owners, ages
<1> QED
  BY <1>3, <1>4, <1>5, <1>6 DEF Window

\* Whatever tenant and age it takes, the merged window holds the same events.
LEMMA AbsorbJoins ==
    ASSUME NEW e, NEW dst, NEW others, NEW w \in Absorb(dst, others, e)
    PROVE  w.events = {e} \union UNION {windows[k].events :
                                          k \in Open \intersect (others \union {dst})}
<1> DEFINE from   == Open \intersect (others \union {dst})
           owners == IF dst \in from THEN {windows[dst].tenant}
                     ELSE IF from # {} THEN {windows[k].tenant : k \in from}
                     ELSE {{TenantOf[e]}}
           ages   == IF from = {} THEN {0} ELSE Oldest({windows[k].age : k \in from})
           joined == {e} \union UNION {windows[k].events : k \in from}
<1>1. Absorb(dst, others, e) =
        {[events |-> joined, tenant |-> t, age |-> a] : t \in owners, a \in ages}
  BY DEF Absorb
<1> HIDE DEF joined, owners, ages
<1>2. w.events = joined
  BY <1>1
<1> QED
  BY <1>2 DEF joined

\* A turn of Correlate keeps the four maps it writes well typed.
LEMMA AttachTyped ==
    ASSUME TypeOK, NEW e \in Event, Ids[e] # {}, Attach(e)
    PROVE  /\ windows' \in [Key -> Window]
           /\ idIndex' \in [Identifier -> Key \union {NoKey}]
           /\ keyIDs' \in [Key -> SUBSET Identifier]
           /\ bridged' \subseteq Key
<1> DEFINE dst == KeyFor(e)
           others == Existing(e) \ {dst}
           moved == Ids[e] \union UNION {keyIDs[k] : k \in others}
<1>1. dst \in Key /\ others \in SUBSET Key
  BY KeyForTyped
<1>2. moved \subseteq Identifier
  BY <1>1, PipelineAssumption DEF TypeOK
<1>3. NoWindow \in Window
  BY PipelineAssumption DEF NoWindow, Window
<1>4. windows' \in [Key -> Window]
  <2>1. PICK w \in Absorb(dst, others, e) :
           windows' = [k \in Key |-> IF k = dst THEN w
                                     ELSE IF k \in others THEN NoWindow
                                     ELSE windows[k]]
    BY DEF Attach, Others, Moved
  <2>2. w \in Window
    BY <1>1, <2>1, AbsorbTyped
  <2> QED
    BY <1>3, <2>1, <2>2 DEF TypeOK
<1>5. idIndex' \in [Identifier -> Key \union {NoKey}]
  BY <1>1 DEF Attach, Others, Moved, TypeOK
<1>6. keyIDs' \in [Key -> SUBSET Identifier]
  BY <1>1, <1>2 DEF Attach, Others, Moved, TypeOK
<1>7. bridged' \subseteq Key
  BY <1>1 DEF Attach, Others, Moved, TypeOK
<1> QED
  BY <1>4, <1>5, <1>6, <1>7

LEMMA MaterializeTyped ==
    ASSUME TypeOK, NEW k \in Key
    PROVE  Materialize(k) \in Flow
BY DEF Materialize, Flow, TypeOK, Window

LEMMA MergeTyped ==
    ASSUME NEW d \in Flow, NEW f \in Flow
    PROVE  MergeWithStored(d, f) \in Flow
BY DEF MergeWithStored, Flow

LEMMA WriteTyped ==
    ASSUME TypeOK, NEW D \in SUBSET Flow, Write(D)
    PROVE  store' \subseteq Flow /\ latest' \in [Key -> SUBSET Flow]
BY DEF Write, TypeOK

\* Every step keeps it, a failed insert too, whatever makes it fail.
LEMMA TypeStep ==
    ASSUME TypeOK, [Next]_vars \/ \E p \in Flusher : EmitFails(p)
    PROVE  TypeOK'
<1> USE DEF memory, calls
<1>1. ASSUME NEW e \in Event, Accumulate(e)
      PROVE  TypeOK'
  BY <1>1 DEF TypeOK, Accumulate
<1>2. ASSUME NEW p \in Flusher, BeginCorrelate(p)
      PROVE  TypeOK'
  BY <1>2 DEF TypeOK, BeginCorrelate
<1>3. ASSUME NEW p \in Flusher, CorrelateRecord(p)
      PROVE  TypeOK'
  <2>1. Head(records) \in Event /\ records' \in Seq(Event)
    BY <1>3 DEF CorrelateRecord, TypeOK
  <2>2. /\ windows' \in [Key -> Window]
        /\ idIndex' \in [Identifier -> Key \union {NoKey}]
        /\ keyIDs' \in [Key -> SUBSET Identifier]
        /\ bridged' \subseteq Key
    <3>1. CASE Ids[Head(records)] # {} /\ Head(records) \in events
      BY <1>3, <2>1, <3>1, AttachTyped DEF CorrelateRecord
    <3>2. CASE ~ (Ids[Head(records)] # {} /\ Head(records) \in events)
      BY <1>3, <3>2 DEF CorrelateRecord, TypeOK
    <3> QED
      BY <3>1, <3>2
  <2> QED
    BY <1>3, <2>1, <2>2 DEF CorrelateRecord, TypeOK
<1>4. ASSUME NEW p \in Flusher, EndCorrelate(p)
      PROVE  TypeOK'
  BY <1>4 DEF TypeOK, EndCorrelate
<1>5. ASSUME NEW p \in Flusher, FlushCollect(p)
      PROVE  TypeOK'
  <2>1. Ready \subseteq Key
    BY DEF Ready, Open
  <2>2. popped' \in [Flusher -> SUBSET Flow]
    BY <1>5, <2>1, MaterializeTyped DEF FlushCollect, TypeOK
  <2>3. windows' \in [Key -> Window]
    BY <1>5, PipelineAssumption DEF FlushCollect, TypeOK, NoWindow, Window
  <2>4. waited' \in [Event -> 0..LateArrival]
    BY <1>5, PipelineAssumption DEF FlushCollect, TypeOK
  <2>5. /\ events' \subseteq Event
        /\ idIndex' \in [Identifier -> Key \union {NoKey}]
        /\ keyIDs' \in [Key -> SUBSET Identifier]
        /\ bridged' \subseteq Key
        /\ op' \in [Flusher -> {"idle", "correlate", "store"}]
    BY <1>5 DEF FlushCollect, TypeOK
  <2> QED
    BY <1>5, <2>2, <2>3, <2>4, <2>5 DEF FlushCollect, TypeOK
<1>6. ASSUME NEW p \in Flusher, MergeNext(p)
      PROVE  TypeOK'
  <2>1. PICK f \in popped[p] :
           /\ \E g \in IF f.key \notin recentKeys THEN {f}
                       ELSE {MergeWithStored(d, f) : d \in Loaded(f.key, f.tenant)}
                            \union (IF LoadMayFail \/ Loaded(f.key, f.tenant) = {}
                                    THEN {f} ELSE {}) :
                 chunk' = [chunk EXCEPT ![p] = @ \union {g}]
           /\ popped' = [popped EXCEPT ![p] = @ \ {f}]
    BY <1>6 DEF MergeNext
  <2>2. f \in Flow /\ Loaded(f.key, f.tenant) \subseteq Flow
    BY DEF TypeOK, Loaded
  <2>3. PICK g \in Flow : chunk' = [chunk EXCEPT ![p] = @ \union {g}]
    BY <2>1, <2>2, MergeTyped
  <2>4. chunk' \in [Flusher -> SUBSET Flow] /\ popped' \in [Flusher -> SUBSET Flow]
    BY <2>1, <2>3 DEF TypeOK
  <2> QED
    BY <1>6, <2>4 DEF MergeNext, TypeOK
<1>7. ASSUME NEW p \in Flusher, Emit(p)
      PROVE  TypeOK'
  <2>1. chunk[p] \in SUBSET Flow /\ \A d \in chunk[p] : d.key \in Key
    BY DEF TypeOK, Flow
  <2>2. store' \subseteq Flow /\ latest' \in [Key -> SUBSET Flow]
    BY <1>7, <2>1, WriteTyped DEF Emit
  <2>3. recentKeys' \subseteq Key
    BY <1>7, <2>1 DEF Emit, TypeOK
  <2>4. chunk' \in [Flusher -> SUBSET Flow]
        /\ op' \in [Flusher -> {"idle", "correlate", "store"}]
    BY <1>7 DEF Emit, TypeOK
  <2> QED
    BY <1>7, <2>2, <2>3, <2>4 DEF Emit, TypeOK
<1>8. ASSUME NEW p \in Flusher, EmitFails(p)
      PROVE  TypeOK'
  <2>1. PICK D \in SUBSET chunk[p] : Write(D)
    BY <1>8 DEF EmitFails
  <2>2. store' \subseteq Flow /\ latest' \in [Key -> SUBSET Flow]
    BY <2>1, WriteTyped DEF TypeOK
  <2>3. /\ chunk' \in [Flusher -> SUBSET Flow]
        /\ popped' \in [Flusher -> SUBSET Flow]
        /\ op' \in [Flusher -> {"idle", "correlate", "store"}]
    BY <1>8 DEF EmitFails, TypeOK
  <2> QED
    BY <1>8, <2>2, <2>3 DEF EmitFails, TypeOK
<1>9. CASE Tick
  <2>1. \A n \in 0..LateArrival : Older(n) \in 0..LateArrival
    BY PipelineAssumption DEF Older
  <2>2. windows' \in [Key -> Window]
    <3>1. windows \in [Key -> Window]
      BY DEF TypeOK
    <3>2. ASSUME NEW k \in Key PROVE [windows[k] EXCEPT !.age = Older(@)] \in Window
      BY <2>1, <3>1 DEF Window
    <3>. QED
      BY <1>9, <3>1, <3>2 DEF Tick
  <2>3. waited' \in [Event -> 0..LateArrival]
    BY <1>9, <2>1 DEF Tick, TypeOK
  <2> QED
    BY <1>9, <2>2, <2>3 DEF Tick, TypeOK
<1>10. CASE UNCHANGED vars
  BY <1>10 DEF vars, TypeOK
<1> QED
  BY <1>1, <1>2, <1>3, <1>4, <1>5, <1>6, <1>7, <1>8, <1>9, <1>10
  DEF Next, Correlate, Flush

\* The maps of pipeline.go and window.go hold only what they are declared to.
THEOREM TypeCorrect == Spec => []TypeOK
<1>1. Init => TypeOK
  BY PipelineAssumption DEF Init, TypeOK, NoWindow, Window
<1>2. TypeOK /\ [Next]_vars => TypeOK'
  BY TypeStep
<1> QED
  BY <1>1, <1>2, PTL DEF Spec

-----------------------------------------------------------------------------
(* The flows between the windows and the store.                            *)

\* The events on their way to the store, flusher by flusher.
LEMMA FlightMembers ==
    \A e : e \in InFlight <=>
        \E p \in Flusher : \E f \in popped[p] \union chunk[p] : e \in f.events
BY DEF InFlight

LEMMA MergeHoldsBoth ==
    ASSUME NEW d \in Flow, NEW f \in Flow
    PROVE  f.events \union d.events \subseteq MergeWithStored(d, f).events
BY DEF MergeWithStored, Flow

LEMMA MergeNextKeeps ==
    ASSUME TypeOK, NEW p \in Flusher, MergeNext(p)
    PROVE  /\ InFlight \subseteq InFlight'
           /\ \A q \in Flusher : popped'[q] \subseteq popped[q]
<1>1. PICK f \in popped[p] :
         /\ \E g \in IF f.key \notin recentKeys THEN {f}
                     ELSE {MergeWithStored(d, f) : d \in Loaded(f.key, f.tenant)}
                          \union (IF LoadMayFail \/ Loaded(f.key, f.tenant) = {}
                                  THEN {f} ELSE {}) :
               chunk' = [chunk EXCEPT ![p] = @ \union {g}]
         /\ popped' = [popped EXCEPT ![p] = @ \ {f}]
  BY DEF MergeNext
<1>2. f \in Flow /\ Loaded(f.key, f.tenant) \subseteq Flow
  BY DEF TypeOK, Loaded
<1>3. PICK g : g \in {f} \union {MergeWithStored(d, f) : d \in Loaded(f.key, f.tenant)}
               /\ chunk' = [chunk EXCEPT ![p] = @ \union {g}]
  BY <1>1
<1>4. f.events \subseteq g.events
  BY <1>2, <1>3, MergeHoldsBoth
<1>5. \A q \in Flusher : popped[q] \subseteq popped'[q] \union {f}
                         /\ chunk[q] \subseteq chunk'[q]
                         /\ popped'[q] \subseteq popped[q]
  BY <1>1, <1>3 DEF TypeOK
<1>6. g \in chunk'[p]
  BY <1>3 DEF TypeOK
<1>7. ASSUME NEW e \in InFlight
      PROVE  e \in InFlight'
  <2>1. PICK q \in Flusher : \E h \in popped[q] \union chunk[q] : e \in h.events
    BY FlightMembers
  <2>2. \E q2 \in Flusher : \E h2 \in popped'[q2] \union chunk'[q2] : e \in h2.events
    BY <1>4, <1>5, <1>6, <2>1
  <2> QED
    BY <2>2 DEF InFlight
<1> QED
  BY <1>5, <1>7

-----------------------------------------------------------------------------
(* The indexes.  IndexConsistent alone is inductive but for the records that *)
(* CorrelateRecord takes, which EventsHeldOnce places.                       *)

IInv == TypeOK /\ IndexConsistent /\ EventsHeldOnce

LEMMA HeadIsQueued ==
    ASSUME TypeOK, records # << >>
    PROVE  Head(records) \in Queued
<1>1. 1 \in DOMAIN records /\ Head(records) = records[1]
  BY DEF TypeOK
<1> QED
  BY <1>1 DEF Queued

LEMMA AppendQueues ==
    ASSUME TypeOK, EventsHeldOnce, NEW e \in Event, e \notin events,
           records' = Append(records, e)
    PROVE  /\ Queued' = Queued \union {e}
           /\ \A i, j \in DOMAIN records' : records'[i] = records'[j] => i = j
<1>1. /\ DOMAIN records = 1..Len(records)
      /\ DOMAIN records' = 1..(Len(records) + 1)
      /\ Len(records) \in Nat
      /\ \A i \in 1..Len(records) : records'[i] = records[i]
      /\ records'[Len(records) + 1] = e
  BY DEF TypeOK
<1>2. \A i \in DOMAIN records : records[i] # e
  BY DEF EventsHeldOnce, Queued
<1>3. \A i, j \in DOMAIN records' : records'[i] = records'[j] => i = j
  BY <1>1, <1>2 DEF EventsHeldOnce
<1>4. Queued' = Queued \union {e}
  BY <1>1 DEF Queued
<1> QED
  BY <1>3, <1>4

LEMMA TailQueues ==
    ASSUME TypeOK, EventsHeldOnce, records # << >>, records' = Tail(records)
    PROVE  /\ Queued' = Queued \ {Head(records)}
           /\ \A i, j \in DOMAIN records' : records'[i] = records'[j] => i = j
<1>1. /\ Len(records) \in Nat \ {0}
      /\ DOMAIN records = 1..Len(records)
      /\ DOMAIN records' = 1..(Len(records) - 1)
      /\ \A i \in 1..(Len(records) - 1) : records'[i] = records[i + 1]
      /\ Head(records) = records[1]
  BY DEF TypeOK
<1>2. \A i, j \in DOMAIN records' : records'[i] = records'[j] => i = j
  BY <1>1 DEF EventsHeldOnce
<1>3. Queued' \subseteq Queued \ {Head(records)}
  <2> SUFFICES ASSUME NEW i \in DOMAIN records'
               PROVE  records'[i] \in Queued \ {Head(records)}
    BY DEF Queued
  <2>1. i + 1 \in DOMAIN records /\ 1 \in DOMAIN records /\ i + 1 # 1
    BY <1>1
  <2> QED
    BY <1>1, <2>1 DEF EventsHeldOnce, Queued
<1>4. Queued \ {Head(records)} \subseteq Queued'
  <2> SUFFICES ASSUME NEW i \in DOMAIN records, records[i] # Head(records)
               PROVE  records[i] \in Queued'
    BY DEF Queued
  <2>1. i - 1 \in DOMAIN records' /\ records'[i - 1] = records[i]
    BY <1>1
  <2> QED
    BY <2>1 DEF Queued
<1> QED
  BY <1>2, <1>3, <1>4

\* The windows that e touches are those Existing finds through idIndex.
LEMMA ExistingTouches ==
    ASSUME TypeOK, IndexConsistent, NEW e \in Event
    PROVE  /\ Existing(e) \subseteq Open
           /\ \A k \in Key : k \in Existing(e) <=>
                \E f \in windows[k].events : Ids[e] \intersect Ids[f] # {}
<1>1. Ids[e] \subseteq Identifier
  BY PipelineAssumption
<1>2. \A k \in Key : k \in Existing(e) <=> \E s \in Ids[e] : s \in keyIDs[k]
  BY <1>1, NoKeyIsNoIdentifier DEF Existing, IndexConsistent, TypeOK, Key
<1>3. \A k \in Key : k \in Existing(e) <=>
         \E f \in windows[k].events : Ids[e] \intersect Ids[f] # {}
  BY <1>2 DEF IndexConsistent
<1>4. Existing(e) \subseteq Key
  BY PipelineAssumption DEF Existing, TypeOK, Key
<1> QED
  BY <1>3, <1>4 DEF Open

\* What a turn of Correlate does to the windows: one of them becomes e together
\* with all the windows that e touches, and those are gone.
LEMMA AttachJoins ==
    ASSUME TypeOK, IndexConsistent, NEW e \in Event, Ids[e] # {}, Attach(e)
    PROVE  /\ windows'[KeyFor(e)].events =
                {e} \union UNION {windows[k].events : k \in Existing(e)}
           /\ \A k \in Key \ {KeyFor(e)} : windows'[k].events =
                IF k \in Existing(e) THEN {} ELSE windows[k].events
           /\ Existing(e) = {} => KeyFor(e) \notin Open
<1> DEFINE dst    == KeyFor(e)
           others == Existing(e) \ {dst}
           from   == Open \intersect (others \union {dst})
<1>1. /\ dst \in Key
      /\ Existing(e) \subseteq Open
      /\ Existing(e) # {} => dst \in Existing(e)
      /\ Existing(e) = {} => dst \in Ids[e]
  BY KeyForTyped, ExistingTouches
<1>2. Existing(e) = {} => dst \notin Open
  <2> SUFFICES ASSUME dst \in Open, dst \in Ids[e]
               PROVE  dst \in Existing(e)
    BY <1>1
  <2>1. idIndex[dst] = dst
    BY <1>1 DEF IndexConsistent, Key
  <2> QED
    BY <2>1, <1>1, NoKeyIsNoIdentifier DEF Existing, Key
<1>3. from = Existing(e)
  BY <1>1, <1>2
<1>4. PICK w \in Absorb(dst, others, e) :
         windows' = [k \in Key |-> IF k = dst THEN w
                                   ELSE IF k \in others THEN NoWindow
                                   ELSE windows[k]]
  BY DEF Attach, Others, Moved
<1>5. w.events = {e} \union UNION {windows[k].events : k \in from}
  BY <1>4, AbsorbJoins
<1>6. windows'[dst].events = {e} \union UNION {windows[k].events : k \in Existing(e)}
  BY <1>1, <1>3, <1>4, <1>5
<1>7. \A k \in Key \ {dst} : windows'[k].events =
         IF k \in Existing(e) THEN {} ELSE windows[k].events
  BY <1>4 DEF NoWindow
<1> QED
  BY <1>2, <1>6, <1>7

LEMMA AttachKeepsIndex ==
    ASSUME TypeOK, IndexConsistent, NEW e \in Event, Ids[e] # {}, Attach(e)
    PROVE  IndexConsistent'
<1> DEFINE dst    == KeyFor(e)
           others == Existing(e) \ {dst}
           moved  == Ids[e] \union UNION {keyIDs[k] : k \in others}
<1>1. /\ dst \in Key
      /\ Existing(e) \subseteq Key
      /\ Existing(e) # {} => dst \in Existing(e)
      /\ Existing(e) = {} => dst \in Ids[e]
  BY KeyForTyped
<1>2. Ids[e] \subseteq Identifier
  BY PipelineAssumption
<1>3. \A s \in Identifier : idIndex'[s] = IF s \in moved THEN dst ELSE idIndex[s]
  BY DEF Attach, Others, Moved
<1>4. \A k \in Key : keyIDs'[k] = IF k = dst THEN keyIDs[k] \union moved
                                  ELSE IF k \in others THEN {} ELSE keyIDs[k]
  BY DEF Attach, Others, Moved
\* An identifier that moves comes from e, from an absorbed window or from dst.
<1>5. \A s \in Identifier, k \in Key :
         s \in moved /\ s \in keyIDs[k] => k \in others \union {dst}
  BY <1>1, <1>2, NoKeyIsNoIdentifier DEF IndexConsistent, Existing, Key
<1>6. \A s \in Identifier, k \in Key : s \in keyIDs'[k] <=> idIndex'[s] = k
  <2> SUFFICES ASSUME NEW s \in Identifier, NEW k \in Key
               PROVE  s \in keyIDs'[k] <=> idIndex'[s] = k
    OBVIOUS
  <2>1. s \in keyIDs[k] <=> idIndex[s] = k
    BY DEF IndexConsistent
  <2>2. CASE k = dst
    <3>. HIDE DEF moved, others
    <3>1. s \in keyIDs'[k] <=> s \in keyIDs[k] \/ s \in moved
      BY <1>4, <2>2
    <3>2. idIndex'[s] = k <=> s \in moved \/ idIndex[s] = k
      BY <1>3, <1>5, <2>1, <2>2
    <3>. QED
      BY <2>1, <3>1, <3>2
  <2>3. CASE k # dst /\ k \in others
    <3>1. s \notin keyIDs'[k]
      BY <1>4, <2>3
    <3>2. s \notin moved => s \notin keyIDs[k]
      BY <2>3
    <3> QED
      BY <1>3, <2>1, <2>3, <3>1, <3>2
  <2>4. CASE k # dst /\ k \notin others
    BY <1>3, <1>4, <1>5, <2>1, <2>4
  <2> QED
    BY <2>2, <2>3, <2>4
<1>7. \A k \in Key : keyIDs'[k] = UNION {Ids[f] : f \in windows'[k].events}
  <2> SUFFICES ASSUME NEW k \in Key
               PROVE  keyIDs'[k] = UNION {Ids[f] : f \in windows'[k].events}
    OBVIOUS
  <2>1. \A m \in Key : keyIDs[m] = UNION {Ids[f] : f \in windows[m].events}
    BY DEF IndexConsistent
  <2>2. CASE k = dst
    <3>1. windows'[k].events = {e} \union UNION {windows[m].events : m \in Existing(e)}
      BY <2>2, AttachJoins
    <3>2. UNION {Ids[f] : f \in windows'[k].events} =
             Ids[e] \union UNION {keyIDs[m] : m \in Existing(e)}
      BY <1>1, <2>1, <3>1
    <3>3. Existing(e) = {} => keyIDs[dst] = {}
      BY <1>1, <2>1, AttachJoins DEF Open
    <3>4. keyIDs'[k] = Ids[e] \union UNION {keyIDs[m] : m \in Existing(e)}
      BY <1>1, <1>4, <2>2, <3>3
    <3> QED
      BY <3>2, <3>4
  <2>3. CASE k # dst /\ k \in others
    BY <1>4, <2>3, AttachJoins
  <2>4. CASE k # dst /\ k \notin others
    BY <1>4, <2>1, <2>4, AttachJoins
  <2> QED
    BY <2>2, <2>3, <2>4
<1>8. \A k \in Open' : k \in keyIDs'[k]
  <2> SUFFICES ASSUME NEW k \in Key, windows'[k].events # {}
               PROVE  k \in keyIDs'[k]
    BY DEF Open
  <2>1. CASE k = dst
    <3>1. dst \in Existing(e) => dst \in keyIDs[dst]
      BY ExistingTouches DEF IndexConsistent
    <3> QED
      BY <1>1, <1>4, <2>1, <3>1
  <2>2. CASE k # dst
    <3>1. k \notin Existing(e) /\ k \in Open
      BY <2>2, AttachJoins DEF Open
    <3> QED
      BY <1>4, <2>2, <3>1 DEF IndexConsistent
  <2> QED
    BY <2>1, <2>2
<1> QED
  BY <1>6, <1>7, <1>8 DEF IndexConsistent

\* What the locked part of Flush leaves in the windows and in their indexes.
LEMMA CollectKeepsIndex ==
    ASSUME TypeOK, IndexConsistent, NEW p \in Flusher, FlushCollect(p)
    PROVE  IndexConsistent'
<1>1. Ready \subseteq Key
  BY DEF Ready, Open
<1>2. /\ \A k \in Key : windows'[k] = IF k \in Ready THEN NoWindow ELSE windows[k]
      /\ \A k \in Key : keyIDs'[k] = IF k \in Ready THEN {} ELSE keyIDs[k]
      /\ \A s \in Identifier : idIndex'[s] =
            IF \E k \in Ready : s \in keyIDs[k] THEN NoKey ELSE idIndex[s]
  BY DEF FlushCollect, ClosedIds
<1>3. \A s \in Identifier, k \in Key : s \in keyIDs'[k] <=> idIndex'[s] = k
  <2> SUFFICES ASSUME NEW s \in Identifier, NEW k \in Key
               PROVE  s \in keyIDs'[k] <=> idIndex'[s] = k
    OBVIOUS
  <2>1. \A m \in Key : s \in keyIDs[m] <=> idIndex[s] = m
    BY DEF IndexConsistent
  <2>2. k # NoKey
    BY NoKeyIsNoIdentifier DEF Key
  <2> QED
    BY <1>1, <1>2, <2>1, <2>2
<1>4. \A k \in Key : keyIDs'[k] = UNION {Ids[e] : e \in windows'[k].events}
  <2> SUFFICES ASSUME NEW k \in Key
               PROVE  keyIDs'[k] = UNION {Ids[e] : e \in windows'[k].events}
    OBVIOUS
  <2>1. CASE k \in Ready
    BY <1>2, <2>1 DEF NoWindow
  <2>2. CASE k \notin Ready
    BY <1>2, <2>2 DEF IndexConsistent
  <2> QED
    BY <2>1, <2>2
<1>5. \A k \in Open' : k \in keyIDs'[k]
  BY <1>2 DEF IndexConsistent, Open, NoWindow
<1> QED
  BY <1>3, <1>4, <1>5 DEF IndexConsistent

LEMMA CollectHoldsOnce ==
    ASSUME TypeOK, EventsHeldOnce, NEW p \in Flusher, FlushCollect(p)
    PROVE  EventsHeldOnce'
<1> DEFINE closed == UNION {windows[k].events : k \in Ready}
<1>1. Ready \subseteq Key
  BY DEF Ready, Open
<1>2. \A k \in Key : windows'[k].events = IF k \in Ready THEN {} ELSE windows[k].events
  BY DEF FlushCollect, NoWindow
<1>3. events' = events \ closed /\ records' = records /\ Queued' = Queued
  BY DEF FlushCollect, Queued
<1>4. closed \subseteq Members
  BY <1>1 DEF Members
<1>5. Members' \subseteq Members \ closed
  <2> SUFFICES ASSUME NEW k \in Key, NEW e \in windows'[k].events
               PROVE  e \in Members \ closed
    BY DEF Members
  <2>1. k \notin Ready /\ e \in windows[k].events
    BY <1>2
  <2>2. \A m \in Ready : e \notin windows[m].events
    BY <1>1, <2>1 DEF EventsHeldOnce
  <2> QED
    BY <2>1, <2>2 DEF Members
<1>6. \A k, m \in Key : windows'[k].events \intersect windows'[m].events # {} => k = m
  BY <1>2 DEF EventsHeldOnce
<1> QED
  BY <1>3, <1>4, <1>5, <1>6 DEF EventsHeldOnce

\* The record that Correlate takes moves from the queue to one window.
LEMMA AttachHoldsOnce ==
    ASSUME IInv, records # << >>, Ids[Head(records)] # {}, Attach(Head(records)),
           records' = Tail(records), events' = events, Head(records) \in events
    PROVE  EventsHeldOnce'
<1> DEFINE e == Head(records)
<1>1. e \in Queued /\ e \in Event
  BY HeadIsQueued DEF IInv, TypeOK
<1>2. Queued' = Queued \ {e} /\ \A i, j \in DOMAIN records' : records'[i] = records'[j] => i = j
  BY TailQueues DEF IInv
<1>3. e \notin Members
  BY <1>1 DEF IInv, EventsHeldOnce
<1>4. /\ KeyFor(e) \in Key
      /\ Existing(e) \subseteq Key
      /\ Existing(e) = {} => KeyFor(e) \notin Open
      /\ Existing(e) # {} => KeyFor(e) \in Existing(e)
  BY <1>1, KeyForTyped, AttachJoins DEF IInv
<1>5. /\ windows'[KeyFor(e)].events =
            {e} \union UNION {windows[k].events : k \in Existing(e)}
      /\ \A k \in Key \ {KeyFor(e)} : windows'[k].events =
            IF k \in Existing(e) THEN {} ELSE windows[k].events
  BY <1>1, AttachJoins DEF IInv
<1>6. Members' \subseteq Members \union {e}
  <2> SUFFICES ASSUME NEW k \in Key, NEW f \in windows'[k].events
               PROVE  f \in Members \union {e}
    BY DEF Members
  <2>1. CASE k = KeyFor(e)
    BY <1>4, <1>5, <2>1 DEF Members
  <2>2. CASE k # KeyFor(e)
    BY <1>5, <2>2 DEF Members
  <2> QED
    BY <2>1, <2>2
<1>7. \A k \in Key \ {KeyFor(e)} :
         windows'[k].events \intersect windows'[KeyFor(e)].events = {}
  <2> SUFFICES ASSUME NEW k \in Key \ {KeyFor(e)}, NEW f \in windows'[k].events,
                      f \in windows'[KeyFor(e)].events
               PROVE  FALSE
    OBVIOUS
  <2>1. k \notin Existing(e) /\ f \in windows[k].events
    BY <1>5
  <2>2. f # e
    BY <1>3, <2>1 DEF Members
  <2>3. PICK m \in Existing(e) : f \in windows[m].events
    BY <1>5, <2>2
  <2> QED
    BY <1>4, <2>1, <2>3 DEF IInv, EventsHeldOnce
<1>8. \A k, m \in Key \ {KeyFor(e)} :
         windows'[k].events \intersect windows'[m].events # {} => k = m
  BY <1>5 DEF IInv, EventsHeldOnce
<1>9. \A k, m \in Key : windows'[k].events \intersect windows'[m].events # {} => k = m
  BY <1>4, <1>7, <1>8
<1>10. Queued' \union Members' \subseteq events' /\ Queued' \intersect Members' = {}
  BY <1>2, <1>3, <1>6 DEF IInv, EventsHeldOnce
<1> QED
  BY <1>2, <1>9, <1>10 DEF EventsHeldOnce

\* Neither invariant looks at more of a window than its events.
LEMMA SameEventsKeep ==
    ASSUME IndexConsistent, EventsHeldOnce,
           UNCHANGED <<events, records, idIndex, keyIDs>>,
           \A k \in Key : windows'[k].events = windows[k].events
    PROVE  IndexConsistent' /\ EventsHeldOnce'
<1>1. Open' = Open /\ Queued' = Queued
  BY DEF Open, Queued
<1>2. Members' = Members
  BY DEF Members
<1>3. IndexConsistent'
  BY <1>1 DEF IndexConsistent
<1>4. EventsHeldOnce'
  BY <1>1, <1>2 DEF EventsHeldOnce
<1> QED
  BY <1>3, <1>4

\* A step of Correlate that takes a record either attaches its event or, for an
\* event without identifiers, drops the record.
LEMMA RecordCases ==
    ASSUME IInv, NEW p \in Flusher, CorrelateRecord(p)
    PROVE  LET e == Head(records)
           IN  /\ e \in Queued /\ e \in Event /\ e \in events
               /\ records' = Tail(records) /\ records # << >> /\ events' = events
               /\ \/ Ids[e] # {} /\ Attach(e)
                  \/ Ids[e] = {} /\ UNCHANGED <<windows, idIndex, keyIDs>>
<1>1. Head(records) \in Queued /\ Head(records) \in Event
  BY HeadIsQueued DEF IInv, TypeOK, CorrelateRecord
<1> QED
  BY <1>1 DEF CorrelateRecord, IInv, EventsHeldOnce

LEMMA StepKeepsIInv == IInv /\ [Next]_vars => IndexConsistent' /\ EventsHeldOnce'
<1> SUFFICES ASSUME IInv, [Next]_vars
             PROVE  IndexConsistent' /\ EventsHeldOnce'
  OBVIOUS
<1> USE DEF memory, calls
<1>1. ASSUME NEW e \in Event, Accumulate(e)
      PROVE  IndexConsistent' /\ EventsHeldOnce'
  <2>1. CASE e \in events
    <3>1. events' = events /\ records' = records
      BY <1>1, <2>1 DEF Accumulate, IInv, TypeOK
    <3> QED
      BY <1>1, <3>1, SameEventsKeep DEF Accumulate, IInv
  <2>2. CASE e \notin events
    <3>1. Queued' = Queued \union {e}
          /\ \A i, j \in DOMAIN records' : records'[i] = records'[j] => i = j
      BY <1>1, <2>2, AppendQueues DEF Accumulate, IInv
    <3>2. Members' = Members /\ Open' = Open /\ events' = events \union {e}
      BY <1>1 DEF Accumulate, Members, Open
    <3>3. e \notin Members
      BY <2>2 DEF IInv, EventsHeldOnce
    <3>4. EventsHeldOnce'
      BY <1>1, <3>1, <3>2, <3>3 DEF Accumulate, IInv, EventsHeldOnce
    <3>5. IndexConsistent'
      BY <1>1, <3>2 DEF Accumulate, IInv, IndexConsistent
    <3> QED
      BY <3>4, <3>5
  <2> QED
    BY <2>1, <2>2
<1>2. ASSUME NEW p \in Flusher, CorrelateRecord(p)
      PROVE  IndexConsistent' /\ EventsHeldOnce'
  <2>1. CASE Ids[Head(records)] # {}
    BY <1>2, <2>1, RecordCases, AttachKeepsIndex, AttachHoldsOnce DEF IInv
  <2>2. CASE Ids[Head(records)] = {}
    <3>1. UNCHANGED <<windows, idIndex, keyIDs, events>>
      BY <1>2, <2>2, RecordCases
    <3>2. Queued' \subseteq Queued
          /\ \A i, j \in DOMAIN records' : records'[i] = records'[j] => i = j
      BY <1>2, RecordCases, TailQueues DEF IInv
    <3>3. Members' = Members /\ Open' = Open
      BY <3>1 DEF Members, Open
    <3>4. EventsHeldOnce'
      BY <3>1, <3>2, <3>3 DEF IInv, EventsHeldOnce
    <3>5. IndexConsistent'
      BY <3>1, <3>3 DEF IInv, IndexConsistent
    <3> QED
      BY <3>4, <3>5
  <2> QED
    BY <2>1, <2>2
<1>3. ASSUME NEW p \in Flusher, FlushCollect(p)
      PROVE  IndexConsistent' /\ EventsHeldOnce'
  BY <1>3, CollectKeepsIndex, CollectHoldsOnce DEF IInv
<1>4. CASE Tick
  <2>1. \A k \in Key : windows'[k].events = windows[k].events
    BY <1>4 DEF Tick, IInv, TypeOK, Window
  <2> QED
    BY <1>4, <2>1, SameEventsKeep DEF Tick, IInv
<1>5. CASE UNCHANGED <<events, records, windows, idIndex, keyIDs>>
  BY <1>5, SameEventsKeep DEF IInv
<1> QED
  BY <1>1, <1>2, <1>3, <1>4, <1>5
  DEF Next, Correlate, Flush, BeginCorrelate, EndCorrelate, MergeNext, Emit,
      EmitFails, vars

\* The two indexes and the windows say the same of every identifier, and every
\* event in memory is in one place.
THEOREM IndexesAgree == Spec => [](IndexConsistent /\ EventsHeldOnce)
<1>1. Init => IndexConsistent /\ EventsHeldOnce
  <2> SUFFICES ASSUME Init
               PROVE  IndexConsistent /\ EventsHeldOnce
    OBVIOUS
  <2>1. \A k \in Key : windows[k].events = {}
    BY DEF Init, NoWindow
  <2>2. Open = {} /\ Members = {} /\ Queued = {}
    BY <2>1 DEF Open, Members, Queued, Init
  <2>3. IndexConsistent
    BY <2>1, <2>2, NoKeyIsNoIdentifier DEF Init, IndexConsistent, Key
  <2>4. EventsHeldOnce
    BY <2>1, <2>2 DEF Init, EventsHeldOnce
  <2> QED
    BY <2>3, <2>4
<1>2. (IndexConsistent /\ EventsHeldOnce) /\ TypeOK /\ [Next]_vars
        => (IndexConsistent /\ EventsHeldOnce)'
  BY StepKeepsIInv DEF IInv
<1> QED
  BY <1>1, <1>2, TypeCorrect, PTL DEF Spec

\* A redelivered event is queued once or sits in one window, never both: what
\* accumulate looks up in Pipeline.events is all there is of it in memory.
THEOREM EventsHeldOnceAlways == Spec => []EventsHeldOnce
BY IndexesAgree, PTL

-----------------------------------------------------------------------------
(* The refinement.  Every step is a step of RequestGroups or a stutter: only *)
(* Accumulate, CorrelateRecord and FlushCollect touch what it sees.          *)

Groups == {windows[k].events : k \in Open}

\* A turn of Correlate's loop is RequestGroups' Group: idIndex finds exactly the
\* groups the event touches.
LEMMA AttachIsGroup ==
    ASSUME IInv, NEW e \in Event, e \in Queued, Ids[e] # {}, Attach(e),
           Queued' = Queued \ {e}
    PROVE  Requests!Group(e)
<1> DEFINE dst == KeyFor(e)
<1>1. /\ dst \in Key
      /\ Existing(e) # {} => dst \in Existing(e)
      /\ Existing(e) \subseteq Open
      /\ Existing(e) = {} => dst \notin Open
      /\ windows'[dst].events = {e} \union UNION {windows[k].events : k \in Existing(e)}
      /\ \A k \in Key \ {dst} :
            windows'[k].events = IF k \in Existing(e) THEN {} ELSE windows[k].events
  BY KeyForTyped, ExistingTouches, AttachJoins DEF IInv
<1>2. \A k \in Key : k \in Existing(e) <=>
         \E f \in windows[k].events : Ids[e] \intersect Ids[f] # {}
  BY ExistingTouches DEF IInv
<1>3. Requests!Touched(e) = {windows[k].events : k \in Existing(e)}
  BY <1>1, <1>2 DEF Requests!Touched, Requests!Linked, Open
<1>4. Open' = (Open \ Existing(e)) \union {dst}
  BY <1>1 DEF Open
\* A window that e does not touch is no group that e touches.
<1>5. \A k \in Open \ Existing(e) : windows[k].events \notin Requests!Touched(e)
  BY <1>2 DEF Open, Requests!Touched, Requests!Linked
<1>6. Groups \ Requests!Touched(e) = {windows[k].events : k \in Open \ Existing(e)}
  BY <1>3, <1>5 DEF Groups
<1>7. Groups' = {windows[k].events : k \in Open \ Existing(e)}
                  \union {windows'[dst].events}
  <2>1. Groups' = {windows'[k].events : k \in Open'}
    BY DEF Groups
  <2>2. \A k \in Open \ Existing(e) : windows'[k].events = windows[k].events
    BY <1>1 DEF Open
  <2> QED
    BY <1>4, <2>1, <2>2
<1>8. windows'[dst].events = {e} \union UNION Requests!Touched(e)
  BY <1>1, <1>3
<1> QED
  BY <1>6, <1>7, <1>8 DEF Requests!Group, Groups

LEMMA CollectIsClose ==
    ASSUME NEW p \in Flusher, FlushCollect(p)
    PROVE  Requests!Close
<1>1. \A k \in Key : windows'[k].events = IF k \in Ready THEN {} ELSE windows[k].events
  BY DEF FlushCollect, NoWindow
<1>2. Groups' \subseteq Groups
  BY <1>1 DEF Groups, Open
<1>3. Groups' = Groups \ (Groups \ Groups')
  BY <1>2
<1>4. Queued' = Queued
  BY DEF FlushCollect, Queued
<1> QED
  BY <1>3, <1>4 DEF Requests!Close, Groups

\* Keys, indexes, merges and tenants included, the pipeline only ever groups
\* events by shared identifiers and closes whole groups.
THEOREM Refinement == Spec => ImplementsRequestGroups
<1>1. Init => Requests!Init
  <2> SUFFICES ASSUME Init
               PROVE  Requests!Init
    OBVIOUS
  <2>1. Open = {} /\ Queued = {}
    BY DEF Init, Open, NoWindow, Queued
  <2> QED
    BY <2>1 DEF Requests!Init
<1>2. IInv /\ [Next]_vars => [Requests!Next]_<<Queued, Groups>>
  <2> SUFFICES ASSUME IInv, [Next]_vars
               PROVE  Requests!Next \/ UNCHANGED <<Queued, Groups>>
    OBVIOUS
  <2> USE DEF memory, calls
  <2>1. ASSUME NEW e \in Event, Accumulate(e)
        PROVE  Requests!Next \/ UNCHANGED <<Queued, Groups>>
    <3>1. Groups' = Groups
      BY <2>1 DEF Accumulate, Groups, Open
    <3>2. CASE e \in events
      BY <2>1, <3>1, <3>2 DEF Accumulate, Queued
    <3>3. CASE e \notin events
      <4>1. Queued' = Queued \union {e}
        BY <2>1, <3>3, AppendQueues DEF Accumulate, IInv
      <4>2. Requests!Accept(e)
        BY <3>1, <4>1 DEF Requests!Accept, Groups
      <4> QED
        BY <4>2 DEF Requests!Next
    <3> QED
      BY <3>2, <3>3
  <2>2. ASSUME NEW p \in Flusher, CorrelateRecord(p)
        PROVE  Requests!Next
    <3>1. /\ Head(records) \in Queued /\ Head(records) \in Event
          /\ Queued' = Queued \ {Head(records)}
          /\ \/ Ids[Head(records)] # {} /\ Attach(Head(records))
             \/ Ids[Head(records)] = {} /\ UNCHANGED windows
      BY <2>2, RecordCases, TailQueues DEF IInv
    <3>2. PICK e \in Event :
             /\ e \in Queued
             /\ Queued' = Queued \ {e}
             /\ \/ Ids[e] # {} /\ Attach(e)
                \/ Ids[e] = {} /\ UNCHANGED windows
      BY <3>1
    <3>3. CASE Ids[e] # {} /\ Attach(e)
      <4>1. Requests!Group(e)
        BY <3>2, <3>3, AttachIsGroup
      <4> QED
        BY <4>1 DEF Requests!Next
    <3>4. CASE Ids[e] = {} /\ UNCHANGED windows
      <4>1. Requests!Skip(e)
        BY <3>2, <3>4 DEF Requests!Skip, Open
      <4> QED
        BY <4>1 DEF Requests!Next
    <3> QED
      BY <3>2, <3>3, <3>4
  <2>3. ASSUME NEW p \in Flusher, FlushCollect(p)
        PROVE  Requests!Next
    BY <2>3, CollectIsClose DEF Requests!Next
  <2>4. CASE Tick
    <3>1. \A k \in Key : windows'[k].events = windows[k].events
      BY <2>4 DEF Tick, IInv, TypeOK, Window
    <3>2. Groups' = Groups
      BY <3>1 DEF Groups, Open
    <3>3. Queued' = Queued
      BY <2>4 DEF Tick, Queued
    <3> QED
      BY <3>2, <3>3
  <2>5. CASE UNCHANGED <<records, windows>>
    BY <2>5 DEF Queued, Groups, Open
  <2> QED
    BY <2>1, <2>2, <2>3, <2>4, <2>5
    DEF Next, Correlate, Flush, BeginCorrelate, EndCorrelate, MergeNext, Emit,
        EmitFails, vars
<1>3. Groups = {windows[k].events : k \in Open}
  BY DEF Groups
<1>4. IInv /\ [Next]_vars => [Requests!Next]_<<Queued, {windows[k].events : k \in Open}>>
  BY <1>2 DEF Groups
<1>5. TypeOK /\ IndexConsistent /\ EventsHeldOnce => IInv
  BY DEF IInv
<1> QED
  BY <1>1, <1>4, <1>5, TypeCorrect, IndexesAgree, PTL
  DEF Spec, ImplementsRequestGroups, Requests!Spec

-----------------------------------------------------------------------------
(* What the windows are, by the theorems of RequestGroups.                   *)

Grouping == INSTANCE RequestGroups_proofs WITH
                waiting <- Queued,
                groups  <- {windows[k].events : k \in Open}

\* No request is split while its windows are open.
THEOREM RequestsNotSplit == Spec => []OneWindowPerRequest
<1>1. TypeOK /\ IndexConsistent => OneWindowPerRequest
  <2> SUFFICES ASSUME TypeOK, IndexConsistent,
                      NEW k \in Open, NEW m \in Open,
                      NEW e \in windows[k].events, NEW f \in windows[m].events,
                      NEW s \in Ids[e] \intersect Ids[f]
               PROVE  k = m
    BY DEF OneWindowPerRequest
  <2>1. k \in Key /\ m \in Key /\ e \in Event
    BY DEF Open, TypeOK, Window
  <2>2. s \in Identifier
    BY <2>1, PipelineAssumption
  <2>3. s \in keyIDs[k] /\ s \in keyIDs[m]
    BY <2>1 DEF IndexConsistent
  <2> QED
    BY <2>1, <2>2, <2>3 DEF IndexConsistent
<1> QED
  BY <1>1, TypeCorrect, IndexesAgree, PTL

\* No window mixes two requests.
THEOREM RequestsNotMixed == Spec => []WindowsAreRequests
<1>1. Requests!Init => Grouping!Init
  BY DEF Requests!Init, Grouping!Init
<1>2. [Requests!Next]_<<Queued, {windows[k].events : k \in Open}>>
        => [Grouping!Next]_<<Queued, {windows[k].events : k \in Open}>>
  BY DEF Requests!Next, Requests!Accept, Requests!Group, Requests!Skip,
         Requests!Close, Requests!Touched, Requests!Linked,
         Grouping!Next, Grouping!Accept, Grouping!Group, Grouping!Skip,
         Grouping!Close, Grouping!Touched, Grouping!Linked
<1>3. Requests!Spec => Grouping!Spec
  BY <1>1, <1>2, PTL DEF Requests!Spec, Grouping!Spec
<1>4. Grouping!Spec => []Grouping!GroupsWhole
  BY Grouping!GroupsStayWhole
<1>5. Grouping!GroupsWhole => WindowsAreRequests
  <2> SUFFICES ASSUME Grouping!GroupsWhole, NEW k \in Key
               PROVE  Requests!Whole(windows[k].events)
    BY DEF WindowsAreRequests
  <2>1. CASE k \in Open
    <3>. DEFINE G == windows[k].events
    <3>1. Grouping!Whole(G)
      BY <2>1 DEF Grouping!GroupsWhole
    <3>. HIDE DEF G
    <3>2. Requests!Whole(G)
      BY <3>1 DEF Grouping!Whole, Grouping!Linked, Requests!Whole, Requests!Linked
    <3>. QED
      BY <3>2 DEF G
  <2>2. CASE k \notin Open
    BY <2>2 DEF Open, Requests!Whole
  <2> QED
    BY <2>1, <2>2
<1> QED
  BY <1>3, <1>4, <1>5, Refinement, PTL DEF ImplementsRequestGroups

-----------------------------------------------------------------------------
(* What reaches the store, by way of the windows, the flows that Flush has *)
(* popped and the merges with stored flows.                                *)

\* The events with an identifier that the pipeline has in memory.
InMemory == {e \in Queued \union Members : Ids[e] # {}}

\* A turn of Correlate's loop leaves every event with an identifier in memory.
LEMMA RecordKeepsHeld ==
    ASSUME IInv, NEW p \in Flusher, CorrelateRecord(p)
    PROVE  InMemory \subseteq InMemory'
<1>1. /\ Head(records) \in Event
      /\ \/ Ids[Head(records)] # {} /\ Attach(Head(records))
         \/ Ids[Head(records)] = {} /\ UNCHANGED windows
      /\ Queued' = Queued \ {Head(records)}
  BY RecordCases, TailQueues DEF IInv
<1>2. PICK e \in Event :
         /\ \/ Ids[e] # {} /\ Attach(e)
            \/ Ids[e] = {} /\ UNCHANGED windows
         /\ Queued' = Queued \ {e}
  BY <1>1
<1>3. CASE Ids[e] = {} /\ UNCHANGED windows
  BY <1>2, <1>3 DEF InMemory, Members
<1>4. CASE Ids[e] # {} /\ Attach(e)
  <2>1. /\ KeyFor(e) \in Key
        /\ Existing(e) # {} => KeyFor(e) \in Existing(e)
        /\ Existing(e) \subseteq Key
        /\ Existing(e) = {} => KeyFor(e) \notin Open
        /\ windows'[KeyFor(e)].events =
              {e} \union UNION {windows[k].events : k \in Existing(e)}
        /\ \A k \in Key \ {KeyFor(e)} :
              windows'[k].events = IF k \in Existing(e) THEN {} ELSE windows[k].events
    BY <1>4, KeyForTyped, AttachJoins DEF IInv
  <2>2. ASSUME NEW k \in Key, NEW f \in windows[k].events
        PROVE  f \in Members'
    <3>1. k \in Open
      BY <2>2 DEF Open
    <3>2. CASE k \in Existing(e)
      BY <2>1, <2>2, <3>2 DEF Members
    <3>3. CASE k \notin Existing(e)
      BY <2>1, <2>2, <3>1, <3>3 DEF Members
    <3> QED
      BY <3>2, <3>3
  <2>3. Members \union {e} \subseteq Members'
    BY <2>1, <2>2 DEF Members
  <2> QED
    BY <1>2, <2>3 DEF InMemory
<1> QED
  BY <1>2, <1>3, <1>4

\* Every event with an identifier that Pipeline.events holds is queued or in a
\* window, and a flusher holds no popped flow but in the storing part of Flush.
Placed ==
    /\ \A e \in events : Ids[e] # {} => e \in InMemory
    /\ \A p \in Flusher : op[p] # "store" => popped[p] = {}

StoreInv == AcceptedIsKept /\ Placed

LEMMA StepKeeps ==
    ASSUME ~ StoreMayFail, IInv, StoreInv, [Next]_vars
    PROVE  StoreInv'
<1> USE DEF memory, calls
<1>0. TypeOK
  BY DEF IInv
<1>1. ASSUME NEW e \in Event, Accumulate(e)
      PROVE  StoreInv'
  <2>1. UNCHANGED <<windows, op, popped, chunk, store>>
        /\ accepted' = accepted \union {e} /\ events' = events \union {e}
    BY <1>1 DEF Accumulate
  <2>2. Members' = Members /\ InFlight' = InFlight /\ Stored' = Stored
    BY <2>1 DEF Members, InFlight, Stored
  <2>3. Queued \subseteq Queued' /\ (e \notin events => e \in Queued')
    <3>1. CASE e \in events
      BY <1>1, <3>1 DEF Accumulate, Queued
    <3>2. CASE e \notin events
      BY <1>1, <3>2, AppendQueues DEF Accumulate, IInv
    <3> QED
      BY <3>1, <3>2
  <2>4. Placed'
    BY <2>1, <2>2, <2>3 DEF StoreInv, Placed, InMemory
  <2>5. AcceptedIsKept'
    BY <2>1, <2>2, <2>3 DEF StoreInv, Placed, InMemory, AcceptedIsKept
  <2> QED
    BY <2>4, <2>5 DEF StoreInv
<1>2. ASSUME NEW p \in Flusher, CorrelateRecord(p)
      PROVE  StoreInv'
  <2>1. InMemory \subseteq InMemory'
    BY <1>2, RecordKeepsHeld
  <2>2. UNCHANGED <<events, op, popped, chunk, store, accepted>>
    BY <1>2 DEF CorrelateRecord
  <2>3. InFlight' = InFlight /\ Stored' = Stored
    BY <2>2 DEF InFlight, Stored
  <2>4. Placed'
    BY <2>1, <2>2 DEF StoreInv, Placed
  <2>5. AcceptedIsKept'
    BY <2>1, <2>2, <2>3 DEF StoreInv, AcceptedIsKept, InMemory
  <2> QED
    BY <2>4, <2>5 DEF StoreInv
<1>3. ASSUME NEW p \in Flusher, FlushCollect(p)
      PROVE  StoreInv'
  <2>1. /\ popped' = [popped EXCEPT ![p] = {Materialize(k) : k \in Ready}]
        /\ op[p] = "idle" /\ op' = [op EXCEPT ![p] = "store"]
        /\ events' = events \ UNION {windows[k].events : k \in Ready}
        /\ UNCHANGED <<records, chunk, store, accepted>>
        /\ \A k \in Key : windows'[k].events = IF k \in Ready THEN {} ELSE windows[k].events
    BY <1>3 DEF FlushCollect, NoWindow
  <2>2. Queued' = Queued /\ Stored' = Stored
    BY <2>1 DEF Queued, Stored
  <2>3. \A e \in Members : e \in Members' \/ \E k \in Ready : e \in windows[k].events
    BY <2>1 DEF Members
  <2>4. popped[p] = {}
    BY <2>1 DEF StoreInv, Placed
  <2>5. InFlight \subseteq InFlight'
    BY <1>0, <2>1, <2>4 DEF InFlight, TypeOK
  <2>6. ASSUME NEW k \in Ready, NEW e \in windows[k].events
        PROVE  e \in InFlight'
    <3>1. Materialize(k) \in popped'[p] /\ Materialize(k).events = windows[k].events
      BY <1>0, <2>1 DEF TypeOK, Materialize
    <3> QED
      BY <2>6, <3>1 DEF InFlight
  <2>7. Placed'
    BY <1>0, <2>1, <2>2, <2>3 DEF StoreInv, Placed, InMemory, TypeOK
  <2>8. AcceptedIsKept'
    BY <2>1, <2>2, <2>3, <2>5, <2>6 DEF StoreInv, AcceptedIsKept
  <2> QED
    BY <2>7, <2>8 DEF StoreInv
<1>4. ASSUME NEW p \in Flusher, MergeNext(p)
      PROVE  StoreInv'
  <2>1. UNCHANGED <<events, records, windows, op, store, accepted>>
    BY <1>4 DEF MergeNext
  <2>2. Queued' = Queued /\ Members' = Members /\ Stored' = Stored
    BY <2>1 DEF Queued, Members, Stored
  <2>3. InFlight \subseteq InFlight' /\ \A q \in Flusher : popped'[q] \subseteq popped[q]
    BY <1>0, <1>4, MergeNextKeeps
  <2> QED
    BY <2>1, <2>2, <2>3 DEF StoreInv, Placed, InMemory, AcceptedIsKept
<1>5. ASSUME NEW p \in Flusher, Emit(p)
      PROVE  StoreInv'
  <2>1. /\ UNCHANGED <<events, records, windows, popped, accepted>>
        /\ store' = store \union chunk[p]
        /\ chunk' = [chunk EXCEPT ![p] = {}]
        /\ op' = [op EXCEPT ![p] = IF popped[p] = {} THEN "idle" ELSE "store"]
        /\ op[p] = "store"
    BY <1>5 DEF Emit, Write, ChunkDue
  <2>2. Queued' = Queued /\ Members' = Members
    BY <2>1 DEF Queued, Members
  <2>3. ASSUME NEW e \in InFlight
        PROVE  e \in InFlight' \union Stored'
    <3>0. PICK q \in Flusher : \E f \in popped[q] \union chunk[q] : e \in f.events
      BY FlightMembers
    <3>1. PICK f \in popped[q] \union chunk[q] : e \in f.events
      BY <3>0
    <3>2. CASE f \in popped[q] \/ q # p
      <4>1. f \in popped'[q] \union chunk'[q]
        BY <1>0, <2>1, <3>1, <3>2 DEF TypeOK
      <4> QED
        BY <3>1, <4>1 DEF InFlight
    <3>3. CASE f \in chunk[q] /\ q = p
      BY <2>1, <3>1, <3>3 DEF Stored
    <3> QED
      BY <3>1, <3>2, <3>3
  <2>4. Stored \subseteq Stored'
    BY <2>1 DEF Stored
  <2>5. Placed'
    BY <1>0, <2>1, <2>2 DEF StoreInv, Placed, InMemory, TypeOK
  <2>6. AcceptedIsKept'
    BY <2>1, <2>2, <2>3, <2>4 DEF StoreInv, AcceptedIsKept
  <2> QED
    BY <2>5, <2>6 DEF StoreInv
<1>6. ASSUME NEW p \in Flusher, BeginCorrelate(p) \/ EndCorrelate(p)
      PROVE  StoreInv'
  <2>1. /\ UNCHANGED <<events, records, windows, popped, chunk, store, accepted>>
        /\ op[p] # "store"
        /\ \A q \in Flusher \ {p} : op'[q] = op[q]
    BY <1>0, <1>6 DEF BeginCorrelate, EndCorrelate, TypeOK
  <2>2. /\ Queued' = Queued /\ Members' = Members
        /\ Stored' = Stored /\ InFlight' = InFlight
    BY <2>1 DEF Queued, Members, Stored, InFlight
  <2> QED
    BY <2>1, <2>2 DEF StoreInv, Placed, InMemory, AcceptedIsKept
<1>7. CASE Tick
  <2>1. /\ UNCHANGED <<events, records, op, popped, chunk, store, accepted>>
        /\ \A k \in Key : windows'[k].events = windows[k].events
    BY <1>0, <1>7 DEF Tick, TypeOK, Window
  <2>2. /\ Queued' = Queued /\ Members' = Members
        /\ Stored' = Stored /\ InFlight' = InFlight
    BY <2>1 DEF Queued, Members, Stored, InFlight
  <2> QED
    BY <2>1, <2>2 DEF StoreInv, Placed, InMemory, AcceptedIsKept
<1>8. CASE UNCHANGED vars
  BY <1>8 DEF vars, StoreInv, Placed, InMemory, AcceptedIsKept, Queued, Members,
              Stored, InFlight
<1> QED
  BY <1>1, <1>2, <1>3, <1>4, <1>5, <1>6, <1>7, <1>8
  DEF Next, Correlate, Flush

\* While the store takes what it is given, every accepted event that has an
\* identifier is queued, in a window, on its way to the store or in it.
THEOREM NothingDropped ==
    ASSUME ~ StoreMayFail
    PROVE  Spec => []AcceptedIsKept
<1>1. Init => StoreInv
  BY DEF Init, StoreInv, AcceptedIsKept, Placed
<1>2. StoreInv /\ IInv /\ [Next]_vars => StoreInv'
  BY StepKeeps
<1>3. TypeOK /\ IndexConsistent /\ EventsHeldOnce => IInv
  BY DEF IInv
<1>4. StoreInv => AcceptedIsKept
  BY DEF StoreInv
<1> QED
  BY <1>1, <1>2, <1>3, <1>4, TypeCorrect, IndexesAgree, PTL DEF Spec

-----------------------------------------------------------------------------
(* What a document holds.                                                    *)

\* A flow about one request, filed under one of the request's identifiers and
\* under the tenants of its events.
Clean(d) ==
    /\ Requests!Whole(d.events)
    /\ \E e \in d.events : d.key \in Ids[e]
    /\ TenantsDisjoint => d.tenant = {TenantOf[e] : e \in d.events}

\* The tenant a window took from its first event is the tenant of all of them.
WindowTenants ==
    TenantsDisjoint =>
        \A k \in Key : \A e \in windows[k].events : windows[k].tenant = {TenantOf[e]}

CleanInv ==
    /\ WindowTenants
    /\ \A d \in store : Clean(d)
    /\ \A p \in Flusher : \A d \in popped[p] \union chunk[p] : Clean(d)

\* Two whole groups with an identifier in common make a whole group.
LEMMA JoinIsWhole ==
    ASSUME NEW A, NEW B, Requests!Whole(A), Requests!Whole(B),
           NEW a \in A, NEW b \in B, Requests!Linked(a, b)
    PROVE  Requests!Whole(A \union B)
<1> SUFFICES ASSUME NEW part \in SUBSET (A \union B), part # {}, part # A \union B
             PROVE  \E e \in part, f \in (A \union B) \ part : Requests!Linked(e, f)
  BY DEF Requests!Whole
<1>1. CASE part \intersect A # {} /\ part \intersect A # A
  <2>1. PICK e \in part \intersect A, f \in A \ (part \intersect A) : Requests!Linked(e, f)
    BY <1>1 DEF Requests!Whole
  <2> QED
    BY <2>1
<1>2. CASE part \intersect B # {} /\ part \intersect B # B
  <2>1. PICK e \in part \intersect B, f \in B \ (part \intersect B) : Requests!Linked(e, f)
    BY <1>2 DEF Requests!Whole
  <2> QED
    BY <2>1
\* Otherwise the cut is between A and B, where a and b are.
<1>3. CASE /\ part \intersect A = {} \/ part \intersect A = A
           /\ part \intersect B = {} \/ part \intersect B = B
  <2>1. a \in part <=> b \notin part
    BY <1>3
  <2>2. Requests!Linked(b, a)
    BY DEF Requests!Linked
  <2> QED
    BY <2>1, <2>2
<1> QED
  BY <1>1, <1>2, <1>3

LEMMA MergeIsClean ==
    ASSUME NEW d \in Flow, NEW f \in Flow, Clean(d), Clean(f),
           d.key = f.key, d.tenant = f.tenant
    PROVE  Clean(MergeWithStored(d, f))
<1> DEFINE m == MergeWithStored(d, f)
<1>1. CASE f.events \subseteq d.events
  BY <1>1 DEF MergeWithStored
<1>2. CASE ~ (f.events \subseteq d.events)
  <2>1. m.key = d.key /\ m.tenant = d.tenant /\ m.events = d.events \union f.events
    BY <1>2 DEF MergeWithStored, Flow
  <2>2. PICK a \in d.events : d.key \in Ids[a]
    BY DEF Clean
  <2>3. PICK b \in f.events : d.key \in Ids[b]
    BY DEF Clean
  <2>4. Requests!Linked(a, b)
    BY <2>2, <2>3 DEF Requests!Linked
  <2>5. Requests!Whole(m.events)
    BY <2>1, <2>4, JoinIsWhole DEF Clean
  <2>6. TenantsDisjoint => m.tenant = {TenantOf[e] : e \in m.events}
    BY <2>1 DEF Clean
  <2> QED
    BY <2>1, <2>2, <2>5, <2>6 DEF Clean
<1> QED
  BY <1>1, <1>2

LEMMA MaterializedIsClean ==
    ASSUME TypeOK, IndexConsistent, WindowsAreRequests, WindowTenants, NEW k \in Ready
    PROVE  Clean(Materialize(k))
<1>1. k \in Key /\ windows[k].events # {} /\ k \in keyIDs[k]
  BY DEF Ready, Open, IndexConsistent
<1>2. /\ Materialize(k).key = k
      /\ Materialize(k).events = windows[k].events
      /\ Materialize(k).tenant = windows[k].tenant
  BY DEF Materialize
<1>3. \E e \in windows[k].events : k \in Ids[e]
  BY <1>1 DEF IndexConsistent
<1>4. Requests!Whole(windows[k].events)
  BY <1>1 DEF WindowsAreRequests
<1>5. TenantsDisjoint => windows[k].tenant = {TenantOf[e] : e \in windows[k].events}
  BY <1>1 DEF WindowTenants
<1> QED
  BY <1>2, <1>3, <1>4, <1>5 DEF Clean

\* The merged window takes the tenant of dst if dst is open, and e's if nothing is.
LEMMA AbsorbTenant ==
    ASSUME NEW e, NEW dst, NEW others, NEW w \in Absorb(dst, others, e)
    PROVE  /\ dst \in Open => w.tenant = windows[dst].tenant
           /\ Open \intersect (others \union {dst}) = {} => w.tenant = {TenantOf[e]}
<1> DEFINE from   == Open \intersect (others \union {dst})
           owners == IF dst \in from THEN {windows[dst].tenant}
                     ELSE IF from # {} THEN {windows[k].tenant : k \in from}
                     ELSE {{TenantOf[e]}}
           ages   == IF from = {} THEN {0} ELSE Oldest({windows[k].age : k \in from})
           joined == {e} \union UNION {windows[k].events : k \in from}
<1>1. Absorb(dst, others, e) =
        {[events |-> joined, tenant |-> t, age |-> a] : t \in owners, a \in ages}
  BY DEF Absorb
<1> HIDE DEF joined, owners, ages
<1>2. w.tenant \in owners
  BY <1>1
<1> QED
  BY <1>2 DEF owners

LEMMA AttachKeepsTenants ==
    ASSUME IInv, WindowTenants, NEW e \in Event, Ids[e] # {}, Attach(e)
    PROVE  WindowTenants'
<1> SUFFICES ASSUME TenantsDisjoint, NEW k \in Key, NEW f \in windows'[k].events
             PROVE  windows'[k].tenant = {TenantOf[f]}
  BY DEF WindowTenants, TenantsDisjoint
<1> DEFINE dst == KeyFor(e)
<1>1. /\ dst \in Key
      /\ Existing(e) \subseteq Open
      /\ Existing(e) # {} => dst \in Existing(e)
      /\ Existing(e) = {} => dst \notin Open
      /\ windows'[dst].events = {e} \union UNION {windows[m].events : m \in Existing(e)}
      /\ \A m \in Key \ {dst} : windows'[m].events =
            IF m \in Existing(e) THEN {} ELSE windows[m].events
  BY KeyForTyped, ExistingTouches, AttachJoins DEF IInv
<1>2. PICK w \in Absorb(dst, Others(e), e) :
         windows' = [m \in Key |-> IF m = dst THEN w
                                   ELSE IF m \in Others(e) THEN NoWindow
                                   ELSE windows[m]]
  BY DEF Attach
\* Every window that e touches is of e's tenant.
<1>3. ASSUME NEW m \in Existing(e)
      PROVE  /\ windows[m].tenant = {TenantOf[e]}
             /\ \A g \in windows[m].events : TenantOf[g] = TenantOf[e]
  <2>1. m \in Key
    BY <1>1 DEF Open
  <2>2. PICK g \in windows[m].events : Ids[e] \intersect Ids[g] # {}
    BY <2>1, ExistingTouches DEF IInv
  <2>3. g \in Event
    BY <2>1 DEF IInv, TypeOK, Window
  <2>4. TenantOf[g] = TenantOf[e]
    BY <2>2, <2>3 DEF TenantsDisjoint
  <2>5. windows[m].tenant = {TenantOf[e]}
    BY <2>1, <2>4 DEF WindowTenants
  <2> QED
    BY <2>1, <2>5 DEF WindowTenants
<1>4. CASE k = dst
  <2>1. w.tenant = {TenantOf[e]}
    <3>1. CASE Existing(e) = {}
      <4>1. Open \intersect (Others(e) \union {dst}) = {}
        BY <1>1, <3>1 DEF Others
      <4> QED
        BY <4>1, AbsorbTenant
    <3>2. CASE Existing(e) # {}
      BY <1>1, <1>3, <3>2, AbsorbTenant
    <3> QED
      BY <3>1, <3>2
  <2>2. TenantOf[f] = TenantOf[e]
    BY <1>1, <1>3, <1>4
  <2> QED
    BY <1>2, <1>4, <2>1, <2>2
<1>5. CASE k # dst
  <2>1. k \notin Existing(e) /\ f \in windows[k].events
    BY <1>1, <1>5
  <2>2. windows'[k] = windows[k]
    BY <1>2, <1>5, <2>1 DEF Others
  <2> QED
    BY <2>1, <2>2 DEF WindowTenants
<1> QED
  BY <1>4, <1>5

LEMMA WindowsSameTenants ==
    ASSUME WindowTenants,
           \A k \in Key : /\ windows'[k].events \subseteq windows[k].events
                          /\ windows'[k].events # {} => windows'[k].tenant = windows[k].tenant
    PROVE  WindowTenants'
BY DEF WindowTenants, TenantsDisjoint

LEMMA StepIsClean ==
    ASSUME IInv, WindowsAreRequests, CleanInv, [Next]_vars
    PROVE  CleanInv'
<1> USE DEF memory, calls
<1>0. TypeOK /\ IndexConsistent /\ WindowTenants
  BY DEF IInv, CleanInv
<1>1. ASSUME NEW p \in Flusher, CorrelateRecord(p)
      PROVE  CleanInv'
  <2>1. WindowTenants'
    <3>1. PICK e \in Event : \/ Ids[e] # {} /\ Attach(e)
                             \/ UNCHANGED windows
      BY <1>1, RecordCases
    <3>2. CASE Ids[e] # {} /\ Attach(e)
      BY <1>0, <3>2, AttachKeepsTenants
    <3>3. CASE UNCHANGED windows
      BY <1>0, <3>3, WindowsSameTenants
    <3> QED
      BY <3>1, <3>2, <3>3
  <2>2. UNCHANGED <<popped, chunk, store>>
    BY <1>1 DEF CorrelateRecord
  <2> QED
    BY <2>1, <2>2 DEF CleanInv, Clean, TenantsDisjoint, Requests!Whole, Requests!Linked
<1>2. ASSUME NEW p \in Flusher, FlushCollect(p)
      PROVE  CleanInv'
  <2>1. /\ popped' = [popped EXCEPT ![p] = {Materialize(k) : k \in Ready}]
        /\ UNCHANGED <<chunk, store>>
        /\ \A k \in Key : windows'[k] = IF k \in Ready THEN NoWindow ELSE windows[k]
    BY <1>2 DEF FlushCollect
  <2>2. WindowTenants'
    BY <1>0, <2>1, WindowsSameTenants DEF NoWindow
  <2>3. \A f \in {Materialize(k) : k \in Ready} : Clean(f)
    BY <1>0, MaterializedIsClean
  <2>4. \A q \in Flusher : \A d \in popped'[q] \union chunk'[q] : Clean(d)
    BY <1>0, <2>1, <2>3 DEF CleanInv, TypeOK
  <2> QED
    BY <2>1, <2>2, <2>4
    DEF CleanInv, Clean, TenantsDisjoint, Requests!Whole, Requests!Linked
<1>3. ASSUME NEW p \in Flusher, MergeNext(p)
      PROVE  CleanInv'
  <2>1. PICK f \in popped[p] :
           /\ \E g \in IF f.key \notin recentKeys THEN {f}
                       ELSE {MergeWithStored(d, f) : d \in Loaded(f.key, f.tenant)}
                            \union (IF LoadMayFail \/ Loaded(f.key, f.tenant) = {}
                                    THEN {f} ELSE {}) :
                 chunk' = [chunk EXCEPT ![p] = @ \union {g}]
           /\ popped' = [popped EXCEPT ![p] = @ \ {f}]
    BY <1>3 DEF MergeNext
  <2>2. f \in Flow /\ Clean(f)
    BY <1>0 DEF TypeOK, CleanInv
  <2>3. ASSUME NEW d \in Loaded(f.key, f.tenant)
        PROVE  Clean(MergeWithStored(d, f))
    <3>1. d \in store /\ d \in Flow /\ d.key = f.key /\ d.tenant = f.tenant
      BY <1>0 DEF Loaded, TypeOK
    <3>2. Clean(d)
      BY <3>1 DEF CleanInv
    <3> QED
      BY <2>2, <3>1, <3>2, MergeIsClean
  <2>4. PICK g : Clean(g) /\ chunk' = [chunk EXCEPT ![p] = @ \union {g}]
    BY <2>1, <2>2, <2>3
  <2>5. \A q \in Flusher : \A d \in popped'[q] \union chunk'[q] : Clean(d)
    BY <1>0, <2>1, <2>4 DEF CleanInv, TypeOK
  <2>6. UNCHANGED <<windows, store>>
    BY <1>3 DEF MergeNext
  <2>7. WindowTenants'
    BY <1>0, <2>6, WindowsSameTenants
  <2> QED
    BY <2>5, <2>6, <2>7
    DEF CleanInv, Clean, TenantsDisjoint, Requests!Whole, Requests!Linked
<1>4. ASSUME NEW p \in Flusher, Emit(p) \/ EmitFails(p)
      PROVE  CleanInv'
  <2>1. /\ UNCHANGED windows
        /\ store' \subseteq store \union chunk[p]
        /\ \A q \in Flusher : popped'[q] \subseteq popped[q] /\ chunk'[q] \subseteq chunk[q]
    BY <1>0, <1>4 DEF Emit, EmitFails, Write, TypeOK
  <2>2. WindowTenants'
    BY <1>0, <2>1, WindowsSameTenants
  <2>3. \A d \in store' : Clean(d)
    BY <2>1 DEF CleanInv
  <2>4. \A q \in Flusher : \A d \in popped'[q] \union chunk'[q] : Clean(d)
    BY <2>1 DEF CleanInv
  <2> QED
    BY <2>2, <2>3, <2>4
    DEF CleanInv, Clean, TenantsDisjoint, Requests!Whole, Requests!Linked
<1>5. CASE Tick
  <2>1. /\ UNCHANGED <<popped, chunk, store>>
        /\ \A k \in Key : /\ windows'[k].events = windows[k].events
                          /\ windows'[k].tenant = windows[k].tenant
    BY <1>0, <1>5 DEF Tick, TypeOK, Window
  <2>2. WindowTenants'
    BY <1>0, <2>1, WindowsSameTenants
  <2> QED
    BY <2>1, <2>2
    DEF CleanInv, Clean, TenantsDisjoint, Requests!Whole, Requests!Linked
<1>6. CASE UNCHANGED <<windows, popped, chunk, store>>
  <2>1. WindowTenants'
    BY <1>0, <1>6, WindowsSameTenants
  <2> QED
    BY <1>6, <2>1
    DEF CleanInv, Clean, TenantsDisjoint, Requests!Whole, Requests!Linked
<1> QED
  BY <1>1, <1>2, <1>3, <1>4, <1>5, <1>6
  DEF Next, Correlate, Flush, Accumulate, BeginCorrelate, EndCorrelate, vars

\* Correlate, Flush and mergeWithStored file every event under its own request
\* and, when tenants share no identifier, under its own tenant.
THEOREM DocumentsAreClean == Spec => [](DocumentsAreRequests /\ TenantIsolation)
<1>1. Init => CleanInv
  <2> SUFFICES ASSUME Init
               PROVE  CleanInv
    OBVIOUS
  <2>1. \A k \in Key : windows[k].events = {}
    BY DEF Init, NoWindow
  <2> QED
    BY <2>1 DEF Init, CleanInv, WindowTenants
<1>2. CleanInv /\ IInv /\ WindowsAreRequests /\ [Next]_vars => CleanInv'
  BY StepIsClean
<1>3. TypeOK /\ IndexConsistent /\ EventsHeldOnce => IInv
  BY DEF IInv
<1>4. CleanInv => DocumentsAreRequests /\ TenantIsolation
  BY DEF CleanInv, Clean, DocumentsAreRequests, TenantIsolation
<1> QED
  BY <1>1, <1>2, <1>3, <1>4, TypeCorrect, IndexesAgree, RequestsNotMixed, PTL
  DEF Spec

-----------------------------------------------------------------------------
(* How long an event may wait for its window to close.                       *)

\* An event counts its time from its window on.
WaitInv ==
    /\ AgeCoversWait
    /\ \A e \in Event \ Members : waited[e] = 0

\* The merged window is as old as the oldest of those it is made of.
LEMMA AbsorbAge ==
    ASSUME TypeOK, NEW e, NEW dst, NEW others, NEW w \in Absorb(dst, others, e)
    PROVE  \A k \in Open \intersect (others \union {dst}) : windows[k].age <= w.age
<1> DEFINE from   == Open \intersect (others \union {dst})
           owners == IF dst \in from THEN {windows[dst].tenant}
                     ELSE IF from # {} THEN {windows[k].tenant : k \in from}
                     ELSE {{TenantOf[e]}}
           ages   == IF from = {} THEN {0} ELSE Oldest({windows[k].age : k \in from})
           joined == {e} \union UNION {windows[k].events : k \in from}
<1>1. Absorb(dst, others, e) =
        {[events |-> joined, tenant |-> t, age |-> a] : t \in owners, a \in ages}
  BY DEF Absorb
<1> HIDE DEF joined, owners, ages
<1>2. w.age \in ages
  BY <1>1
<1> QED
  BY <1>2 DEF ages, Oldest

LEMMA AttachCoversWait ==
    ASSUME IInv, WaitInv, NEW e \in Event, Ids[e] # {}, e \notin Members, Attach(e),
           UNCHANGED waited
    PROVE  WaitInv'
<1> DEFINE dst == KeyFor(e)
<1>1. /\ dst \in Key
      /\ Existing(e) \subseteq Open
      /\ Existing(e) # {} => dst \in Existing(e)
      /\ Existing(e) = {} => dst \notin Open
      /\ windows'[dst].events = {e} \union UNION {windows[m].events : m \in Existing(e)}
      /\ \A m \in Key \ {dst} : windows'[m].events =
            IF m \in Existing(e) THEN {} ELSE windows[m].events
  BY KeyForTyped, ExistingTouches, AttachJoins DEF IInv
<1>2. Open \subseteq Key
  BY DEF Open
<1>3. PICK w \in Absorb(dst, Others(e), e) :
         windows' = [m \in Key |-> IF m = dst THEN w
                                   ELSE IF m \in Others(e) THEN NoWindow
                                   ELSE windows[m]]
  BY DEF Attach
<1>4. w.age \in Nat
  <2>1. Others(e) \in SUBSET Key
    BY <1>1, <1>2 DEF Others
  <2>2. w \in Window
    BY <1>1, <1>3, <2>1, AbsorbTyped DEF IInv
  <2> QED
    BY <2>2 DEF Window
<1>5. \A m \in Existing(e) : windows[m].age <= w.age
  <2>1. Existing(e) \subseteq Open \intersect (Others(e) \union {dst})
    BY <1>1 DEF Others
  <2> QED
    BY <1>3, <2>1, AbsorbAge DEF IInv
<1>6. waited[e] = 0
  BY DEF WaitInv
<1>7. ASSUME NEW k \in Key, NEW f \in windows'[k].events
      PROVE  waited[f] <= windows'[k].age
  <2>1. CASE k = dst
    <3>1. CASE f = e
      BY <1>3, <1>4, <1>6, <2>1, <3>1
    <3>2. CASE f # e
      <4>1. PICK m \in Existing(e) : f \in windows[m].events
        BY <1>1, <1>7, <2>1, <3>2
      <4>2. m \in Key /\ f \in Event
        BY <1>1, <1>2, <4>1 DEF IInv, TypeOK, Window
      <4>3. waited[f] <= windows[m].age /\ windows[m].age <= w.age
        BY <1>5, <4>1, <4>2 DEF WaitInv, AgeCoversWait
      <4>4. waited[f] \in Nat /\ windows[m].age \in Nat
        BY <4>2 DEF IInv, TypeOK, Window
      <4> QED
        BY <1>3, <1>4, <2>1, <4>3, <4>4
    <3> QED
      BY <3>1, <3>2
  <2>2. CASE k # dst
    <3>1. k \notin Existing(e) /\ f \in windows[k].events
      BY <1>1, <1>7, <2>2
    <3>2. windows'[k] = windows[k]
      BY <1>3, <2>2, <3>1 DEF Others
    <3> QED
      BY <3>1, <3>2 DEF WaitInv, AgeCoversWait
  <2> QED
    BY <2>1, <2>2
<1>8. Members \subseteq Members'
  <2> SUFFICES ASSUME NEW k \in Key, NEW f \in windows[k].events
               PROVE  f \in Members'
    BY DEF Members
  <2>1. CASE k \in Existing(e)
    <3>1. f \in windows'[dst].events
      BY <1>1, <2>1
    <3> QED
      BY <1>1, <3>1 DEF Members
  <2>2. CASE k \notin Existing(e)
    <3>1. k # dst
      BY <1>1, <2>2 DEF Open
    <3> QED
      BY <1>1, <2>2, <3>1 DEF Members
  <2> QED
    BY <2>1, <2>2
<1> QED
  BY <1>7, <1>8 DEF WaitInv, AgeCoversWait

LEMMA StepWaits == IInv /\ WaitInv /\ [Next]_vars => WaitInv'
<1> SUFFICES ASSUME IInv, WaitInv, [Next]_vars
             PROVE  WaitInv'
  OBVIOUS
<1> USE DEF memory, calls
<1>1. ASSUME NEW p \in Flusher, CorrelateRecord(p)
      PROVE  WaitInv'
  <2>1. PICK e \in Event :
           /\ e \in Queued
           /\ (Ids[e] # {} /\ Attach(e)) \/ UNCHANGED windows
    BY <1>1, RecordCases
  <2>2. e \notin Members /\ UNCHANGED waited
    BY <1>1, <2>1 DEF IInv, EventsHeldOnce, CorrelateRecord
  <2>3. CASE UNCHANGED windows
    BY <2>2, <2>3 DEF WaitInv, AgeCoversWait, Members
  <2> QED
    BY <2>1, <2>2, <2>3, AttachCoversWait
<1>2. ASSUME NEW p \in Flusher, FlushCollect(p)
      PROVE  WaitInv'
  <2>1. /\ windows' = [k \in Key |-> IF k \in Ready THEN NoWindow ELSE windows[k]]
        /\ waited' = [e \in Event |-> IF \E k \in Ready : e \in windows[k].events
                                      THEN 0 ELSE waited[e]]
    BY <1>2 DEF FlushCollect
  <2>2. ASSUME NEW k \in Key, NEW e \in windows'[k].events
        PROVE  waited'[e] <= windows'[k].age
    <3>1. k \notin Ready /\ windows'[k] = windows[k] /\ e \in windows[k].events
      BY <2>1, <2>2 DEF NoWindow
    <3>2. e \in Event /\ windows[k].age \in Nat
      BY <3>1 DEF IInv, TypeOK, Window
    <3> QED
      BY <2>1, <3>1, <3>2 DEF WaitInv, AgeCoversWait
  <2>3. ASSUME NEW e \in Event \ Members'
        PROVE  waited'[e] = 0
    <3>1. e \notin Members \/ \E k \in Ready : e \in windows[k].events
      BY <2>1, <2>3 DEF Members
    <3> QED
      BY <2>1, <3>1 DEF WaitInv
  <2> QED
    BY <2>2, <2>3 DEF WaitInv, AgeCoversWait
<1>3. CASE Tick
  <2>1. \A n, m \in 0..LateArrival : n <= m => Older(n) <= Older(m)
    BY PipelineAssumption DEF Older
  <2>2. \A k \in Key : /\ windows'[k].events = windows[k].events
                       /\ windows[k].events # {} => windows'[k].age = Older(windows[k].age)
    BY <1>3 DEF Tick, IInv, TypeOK, Window, Open
  <2>3. \A e \in Event : waited'[e] = IF e \in Members THEN Older(waited[e]) ELSE waited[e]
    BY <1>3 DEF Tick
  <2>4. Members' = Members
    BY <2>2 DEF Members
  <2>5. ASSUME NEW k \in Key, NEW e \in windows'[k].events
        PROVE  waited'[e] <= windows'[k].age
    <3>1. e \in windows[k].events /\ e \in Event /\ e \in Members
      BY <2>2, <2>5 DEF IInv, TypeOK, Window, Members
    <3>2. windows[k].age \in 0..LateArrival /\ waited[e] \in 0..LateArrival
      BY <3>1 DEF IInv, TypeOK, Window
    <3> QED
      BY <2>1, <2>2, <2>3, <3>1, <3>2 DEF WaitInv, AgeCoversWait
  <2> QED
    BY <2>3, <2>4, <2>5 DEF WaitInv, AgeCoversWait
<1>4. CASE UNCHANGED <<windows, waited>>
  BY <1>4 DEF WaitInv, AgeCoversWait, Members
<1> QED
  BY <1>1, <1>2, <1>3, <1>4
  DEF Next, Correlate, Flush, Accumulate, BeginCorrelate, EndCorrelate, MergeNext, Emit,
      EmitFails, vars

\* However many windows are merged and in whatever order, a window is as old as
\* the longest wait of its events (Merge keeps the earliest FirstArrival): it
\* closes no later for the windows it took in.
THEOREM MergingNeverPostpones == Spec => []AgeCoversWait
<1>1. Init => WaitInv
  <2> SUFFICES ASSUME Init
               PROVE  WaitInv
    OBVIOUS
  <2>1. \A k \in Key : windows[k].events = {}
    BY DEF Init, NoWindow
  <2> QED
    BY <2>1 DEF Init, WaitInv, AgeCoversWait
<1>2. TypeOK /\ IndexConsistent /\ EventsHeldOnce => IInv
  BY DEF IInv
<1>3. WaitInv => AgeCoversWait
  BY DEF WaitInv
<1> QED
  BY <1>1, <1>2, <1>3, StepWaits, TypeCorrect, IndexesAgree, PTL DEF Spec
=============================================================================

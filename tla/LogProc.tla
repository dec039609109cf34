------------------------------ MODULE LogProc ------------------------------
(***************************************************************************)
(* The logproc process around the correlation pipeline: cmd/logproc/       *)
(* main.go, the consumer side of the SIEM_RAW stream in                    *)
(* data/jetstream/buffer.go and the snapshot in data/valkey/correlation.go.*)
(*                                                                         *)
(* Three goroutines meet in Pipeline: consume (accumulates and acks),      *)
(* flushLoop (Loop: Correlate, then Flush) and run itself (Main), which    *)
(* after the signal flushes, saves the correlation state and exits.  A     *)
(* boot restores that state.  A message holds one record.                  *)
(***************************************************************************)
EXTENDS Pipeline

CONSTANTS
    Loop, Main,       \* the two flushers
    Unparsable,       \* events whose parser fails: they are dead-lettered
    NoParser,         \* events of a provider no parser is registered for
    MaxFaults,        \* bound: lost acks and deliveries slower than AckWait
    MaxBoots,         \* bound: how often the process starts
    MayCrash,         \* the process may die without a signal
    FetchMayFail,     \* sub.Fetch may return an error other than a timeout
    ValkeyMayFail     \* Load, Save and Clear may return an error

ASSUME LogProcAssumption ==
    /\ Flusher = {Loop, Main}
    /\ Loop # Main
    /\ Unparsable \union NoParser \subseteq Event
    /\ MaxFaults \in Nat /\ MaxBoots \in Nat \ {0}
    /\ {MayCrash, FetchMayFail, ValkeyMayFail} \subseteq BOOLEAN

VARIABLES
    queue,         \* the messages JetStream will deliver, in order
    pending,       \* delivered or to be delivered, and not acked
    acked,         \* the messages JetStream is done with
    inbox,         \* what the last Fetch returned and consume still has to do
    processed,     \* fn has returned nil for the head of inbox
    consuming,     \* buffer.Consume has not returned
    deadLetters,   \* MemoryDeadLetter.Records
    correlated,    \* flushLoop has correlated in this turn and not flushed yet
    stage,         \* where run is, "down" while there is no process
    index,         \* the result of IdentifierIndex that run holds
    snapshot       \* the value at siem:correlation:window in Valkey

\* Bounds and observation variables.
VARIABLES
    faults,
    boots,
    missed,        \* events whose only copy a shutdown may lose
    refused        \* events whose only copy was in an insert that failed

stream  == <<queue, pending, acked>>
reader  == <<inbox, processed, consuming, deadLetters>>
losses  == <<missed, refused>>
counts  == <<faults, boots, losses>>
logVars == <<vars, stream, reader, correlated, stage, index, snapshot, counts>>

Stages == {"running", "flush", "flushing", "drain", "draining", "exit", "down"}

EmptySnapshot ==
    [windows |-> [k \in Key |-> NoWindow], recentKeys |-> {},
     idIndex |-> [s \in Identifier |-> NoKey], keyIDs |-> [k \in Key |-> {}]]

LogProcInit ==
    /\ Init
    /\ queue = << >> /\ pending = {} /\ acked = {}
    /\ inbox = << >> /\ processed = FALSE /\ consuming = TRUE
    /\ deadLetters = {}
    /\ correlated = FALSE
    /\ stage = "running"
    /\ index = [idIndex |-> EmptySnapshot.idIndex, keyIDs |-> EmptySnapshot.keyIDs]
    /\ snapshot = EmptySnapshot
    /\ faults = 0 /\ boots = 1 /\ missed = {} /\ refused = {}

Up == stage # "down"
InQueue == {queue[i] : i \in DOMAIN queue}
InInbox == {inbox[i] : i \in DOMAIN inbox}

\* Snapshot has already drained the pipeline: nobody saves what comes now.
Drained ==
    \/ stage = "exit"
    \/ stage = "draining" /\ op[Main] = "idle"

-----------------------------------------------------------------------------
(* SIEM_RAW and consume *)

\* A receiver of this process, which runs until exit, has the record stored.
Publish(e) ==
    /\ Up
    /\ e \notin pending \union acked
    /\ queue' = Append(queue, e)
    /\ pending' = pending \union {e}
    /\ UNCHANGED <<vars, acked, reader, correlated, stage, index, snapshot, counts>>

\* One Fetch returns what there is, at most 64 messages: more than a run has.
Fetch ==
    /\ Up /\ consuming
    /\ inbox = << >> /\ queue # << >>
    /\ inbox' = queue
    /\ queue' = << >>
    /\ UNCHANGED <<vars, pending, acked, processed, consuming, deadLetters,
                   correlated, stage, index, snapshot, counts>>

\* Consume looks at its context between two batches.
GoesOn == inbox' # << >> \/ stage = "running"

Handles(e) ==
    /\ Up /\ ~processed
    /\ inbox # << >> /\ e = Head(inbox)

\* ProcessBatch returns an error only for want of a parser; the Nak puts the
\* message back.
Nak(e) ==
    /\ Handles(e) /\ e \in NoParser
    /\ queue' = IF e \in InQueue THEN queue ELSE Append(queue, e)
    /\ inbox' = Tail(inbox)
    /\ consuming' = GoesOn
    /\ UNCHANGED <<vars, pending, acked, processed, deadLetters, correlated, stage,
                   index, snapshot, counts>>

\* Mutant: a record that does not parse fails its batch.
NakUnparsable(e) ==
    /\ Handles(e) /\ e \in Unparsable
    /\ queue' = IF e \in InQueue THEN queue ELSE Append(queue, e)
    /\ inbox' = Tail(inbox)
    /\ consuming' = GoesOn
    /\ UNCHANGED <<vars, pending, acked, processed, deadLetters, correlated, stage,
                   index, snapshot, counts>>

\* A record that does not parse is dead-lettered; the batch is done all the same.
DeadLetter(e) ==
    /\ Handles(e) /\ e \in Unparsable \ NoParser
    /\ deadLetters' = deadLetters \union {e}
    /\ processed' = TRUE
    /\ UNCHANGED <<vars, stream, inbox, consuming, correlated, stage, index,
                   snapshot, counts>>

Process(e) ==
    /\ Handles(e) /\ e \notin Unparsable \union NoParser
    /\ Accumulate(e)
    /\ processed' = TRUE
    /\ missed' = IF Drained THEN missed \union {e} ELSE missed
    /\ UNCHANGED <<stream, inbox, consuming, deadLetters, correlated, stage, index,
                   snapshot, faults, boots, refused>>

\* Consume goes to the next message whether the server gets the ack or not.
NextMessage ==
    /\ inbox' = Tail(inbox)
    /\ processed' = FALSE
    /\ consuming' = GoesOn
    /\ UNCHANGED <<vars, deadLetters, correlated, stage, index, snapshot, boots,
                   losses>>

\* Mutant: the late ack of a redelivered message leaves the redelivery queued.
AckOneDelivery ==
    /\ Up /\ processed
    /\ pending' = pending \ {Head(inbox)}
    /\ acked' = acked \union {Head(inbox)}
    /\ NextMessage
    /\ UNCHANGED <<queue, faults>>

\* With the message goes the one redelivery that may be queued.
Ack ==
    /\ Up /\ processed
    /\ \/ Head(inbox) \notin InQueue /\ UNCHANGED queue
       \/ \E i \in DOMAIN queue :
             /\ queue[i] = Head(inbox)
             /\ queue' = SubSeq(queue, 1, i - 1) \o SubSeq(queue, i + 1, Len(queue))
    /\ pending' = pending \ {Head(inbox)}
    /\ acked' = acked \union {Head(inbox)}
    /\ NextMessage
    /\ UNCHANGED faults

LoseAck ==
    /\ Up /\ processed
    /\ faults < MaxFaults
    /\ faults' = faults + 1
    /\ NextMessage
    /\ UNCHANGED stream

\* AckWait ran out for a message that no process is working on.
Redeliver(e) ==
    /\ e \in pending \ (InQueue \union InInbox)
    /\ queue' = Append(queue, e)
    /\ UNCHANGED <<vars, pending, acked, reader, correlated, stage, index,
                   snapshot, counts>>

\* AckWait ran out while the message waits in the inbox.
RedeliverSlow(e) ==
    /\ e \in InInbox \ InQueue
    /\ e \in pending
    /\ faults < MaxFaults
    /\ faults' = faults + 1
    /\ queue' = Append(queue, e)
    /\ UNCHANGED <<vars, pending, acked, reader, correlated, stage, index,
                   snapshot, boots, losses>>

\* Consume returns: at its context check, or on the first error of Fetch that is
\* not a timeout.  Nothing starts it again before the next boot.
ConsumeReturns ==
    /\ Up /\ consuming /\ inbox = << >>
    /\ stage # "running" \/ FetchMayFail
    /\ consuming' = FALSE
    /\ UNCHANGED <<vars, stream, inbox, processed, deadLetters, correlated, stage,
                   index, snapshot, counts>>

-----------------------------------------------------------------------------
(* flushLoop *)

service == <<stream, reader, index, snapshot, faults, boots>>

\* A failed insert loses the popped flows with their events.
Dropped(p) == UNION {f.events : f \in popped[p] \union chunk[p]}

\* After the signal the loop's context is cancelled, and with it every insert it
\* has still to make; the loop itself may take another turn, since select picks
\* among its ready cases at random.
LoopStep ==
    /\ Up
    /\ \/ ~correlated /\ BeginCorrelate(Loop) /\ UNCHANGED <<correlated, losses>>
       \/ CorrelateRecord(Loop) /\ UNCHANGED <<correlated, losses>>
       \/ EndCorrelate(Loop) /\ correlated' = TRUE /\ UNCHANGED losses
       \/ correlated /\ FlushCollect(Loop) /\ correlated' = FALSE /\ UNCHANGED losses
       \/ MergeNext(Loop) /\ UNCHANGED <<correlated, losses>>
       \/ /\ stage = "running" \/ chunk[Loop] = {}
          /\ Emit(Loop)
          /\ UNCHANGED <<correlated, losses>>
       \/ /\ stage # "running"
          /\ EmitFails(Loop)
          /\ missed' = missed \union Dropped(Loop)
          /\ UNCHANGED <<correlated, refused>>
       \/ /\ stage = "running" /\ StoreMayFail
          /\ EmitFails(Loop)
          /\ refused' = refused \union Dropped(Loop)
          /\ UNCHANGED <<correlated, missed>>
    /\ UNCHANGED <<service, stage>>

-----------------------------------------------------------------------------
(* run, from the signal to the exit, and the next boot *)

Signal ==
    /\ stage = "running"
    /\ boots < MaxBoots
    /\ stage' = "flush"
    /\ UNCHANGED <<vars, service, correlated, losses>>

FinalFlush ==
    /\ \/ /\ stage = "flush" /\ stage' = "flushing"
          /\ FlushCollect(Main)
          /\ UNCHANGED losses
       \/ /\ stage = "flushing"
          /\ MergeNext(Main) \/ Emit(Main)
          /\ UNCHANGED <<stage, losses>>
       \/ /\ stage = "flushing" /\ StoreMayFail
          /\ EmitFails(Main)
          /\ refused' = refused \union Dropped(Main)
          /\ UNCHANGED <<stage, missed>>
    /\ UNCHANGED <<service, correlated>>

\* IdentifierIndex copies the two maps before Snapshot correlates what is left.
TakeIndex ==
    /\ stage = "flushing" /\ op[Main] = "idle"
    /\ MuFree
    /\ index' = [idIndex |-> idIndex, keyIDs |-> keyIDs]
    /\ stage' = "drain"
    /\ UNCHANGED <<vars, stream, reader, snapshot, faults, boots, correlated, losses>>

\* Mutant: Snapshot does not move the accumulated events into the window.
DrainNothing ==
    /\ stage = "drain"
    /\ op[Main] = "idle" /\ MuFree
    /\ stage' = "draining"
    /\ UNCHANGED <<vars, service, correlated, losses>>

\* Snapshot's call of Correlate.
Drain ==
    /\ \/ stage = "drain" /\ BeginCorrelate(Main) /\ stage' = "draining"
       \/ /\ stage = "draining"
          /\ CorrelateRecord(Main) \/ EndCorrelate(Main)
          /\ UNCHANGED stage
    /\ UNCHANGED <<service, correlated, losses>>

\* Window.Snapshot, RecentKeys and the SET, which replaces the old value.
Save ==
    /\ stage = "draining" /\ op[Main] = "idle"
    /\ MuFree
    /\ \/ snapshot' = [windows |-> windows, recentKeys |-> recentKeys,
                       idIndex |-> index.idIndex, keyIDs |-> index.keyIDs]
       \/ ValkeyMayFail /\ UNCHANGED snapshot
    /\ stage' = "exit"
    /\ missed' = missed \union Dropped(Loop)
    /\ UNCHANGED <<vars, stream, reader, index, faults, boots, correlated,
                   refused>>

\* The process is gone, and everything it held only in memory with it.
Gone ==
    /\ events' = {} /\ records' = << >> /\ bridged' = {} /\ recentKeys' = {}
    /\ windows' = EmptySnapshot.windows
    /\ idIndex' = EmptySnapshot.idIndex
    /\ keyIDs' = EmptySnapshot.keyIDs
    /\ op' = [p \in Flusher |-> "idle"]
    /\ popped' = [p \in Flusher |-> {}]
    /\ chunk' = [p \in Flusher |-> {}]
    /\ waited' = [e \in Event |-> 0]
    /\ inbox' = << >> /\ processed' = FALSE /\ consuming' = FALSE
    /\ deadLetters' = {}
    /\ correlated' = FALSE
    /\ stage' = "down"
    /\ UNCHANGED <<store, accepted, latest, stream, index, snapshot, counts>>

Exit == stage = "exit" /\ Gone

Crash == Up /\ MayCrash /\ boots < MaxBoots /\ Gone

Later(age, gap) == IF age + gap < LateArrival THEN age + gap ELSE LateArrival

\* Restore after a downtime of gap ticks.  The bridged flags are not part of the
\* snapshot.
Restore(gap) ==
    /\ windows' = [k \in Key |->
                     IF snapshot.windows[k].events = {} THEN NoWindow
                     ELSE [snapshot.windows[k] EXCEPT !.age = Later(@, gap)]]
    /\ recentKeys' = snapshot.recentKeys
    /\ idIndex' = snapshot.idIndex
    /\ keyIDs' = snapshot.keyIDs

\* run restores a snapshot that has windows or recent keys and then clears it,
\* ignoring the error of Clear.  When Load fails it starts empty.
Boot ==
    /\ ~Up
    /\ boots' = boots + 1
    /\ stage' = "running" /\ consuming' = TRUE
    /\ \/ /\ snapshot.windows # EmptySnapshot.windows \/ snapshot.recentKeys # {}
          /\ \E gap \in 0..LateArrival : Restore(gap)
          /\ \/ snapshot' = EmptySnapshot
             \/ ValkeyMayFail /\ UNCHANGED snapshot
       \/ /\ \/ ValkeyMayFail
             \/ snapshot.windows = EmptySnapshot.windows /\ snapshot.recentKeys = {}
          /\ UNCHANGED <<windows, recentKeys, idIndex, keyIDs, snapshot>>
    /\ UNCHANGED <<events, records, bridged, calls, store, accepted, latest, waited,
                   stream, inbox, processed, deadLetters, correlated, index, faults,
                   losses>>

Clock == Up /\ Tick /\ UNCHANGED <<service, correlated, stage, losses>>

-----------------------------------------------------------------------------
Shutdown == FinalFlush \/ TakeIndex \/ Drain \/ Save \/ Exit

LogProcNext ==
    \/ \E e \in Event : Publish(e) \/ Redeliver(e) \/ RedeliverSlow(e)
    \/ \E e \in Event : Nak(e) \/ DeadLetter(e) \/ Process(e)
    \/ Fetch \/ Ack \/ LoseAck \/ ConsumeReturns
    \/ LoopStep \/ Clock
    \/ Signal \/ Shutdown \/ Crash \/ Boot

\* The goroutines run, and each gets the mutex in the end (Go's mutexes do not
\* starve a waiter); time passes; JetStream redelivers; the supervisor restarts
\* the process (restart: unless-stopped).  Nothing makes a record arrive, a
\* signal come or a fault happen.
Fairness ==
    /\ WF_logVars(Fetch) /\ WF_logVars(Ack \/ LoseAck)
    /\ SF_logVars(\E e \in Event : Nak(e) \/ DeadLetter(e) \/ Process(e))
    /\ \A e \in Event : WF_logVars(Redeliver(e))
    /\ SF_logVars(LoopStep) /\ SF_logVars(Clock)
    /\ SF_logVars(Shutdown) /\ WF_logVars(Boot)

LogProcSpec == LogProcInit /\ [][LogProcNext]_logVars

FairLogProcSpec == LogProcSpec /\ Fairness

-----------------------------------------------------------------------------
(* Properties *)

\* The service's variables keep their shape, and a message is in one state: JetStream
\* holds what is not acked, and consume holds only what was delivered.
LogProcTypeOK ==
    /\ TypeOK
    /\ queue \in Seq(Event) /\ inbox \in Seq(Event)
    /\ acked \subseteq Event /\ pending \subseteq Event \ acked
    /\ InQueue \subseteq pending
    /\ {processed, consuming, correlated} \subseteq BOOLEAN
    /\ processed => inbox # << >>
    /\ deadLetters \subseteq Unparsable
    /\ stage \in Stages
    /\ snapshot.windows \in [Key -> Window] /\ snapshot.recentKeys \subseteq Key
    /\ boots \in 1..MaxBoots /\ faults \in 0..MaxFaults
    /\ missed \union refused \subseteq Event

Correlatable(e) == Ids[e] # {} /\ e \notin Unparsable \union NoParser

\* Where an event may be held that JetStream no longer delivers.
Held ==
    Queued \union Members \union InFlight \union Stored
    \union UNION {snapshot.windows[k].events : k \in Key}

\* A graceful restart carries every acked record over, with three exceptions: those
\* that consume takes in after Snapshot has drained the pipeline and those that the
\* flush loop has popped and can no longer write (missed), and those whose insert
\* fails, before the signal or in the final flush (refused).
RestartKeepsAcked ==
    \A e \in acked : Correlatable(e) => e \in Held \union missed \union refused

\* A record of SIEM_RAW that is not acked when the process boots for good is stored
\* in a flow in the end: whatever crashed or was half done before, whatever acks are
\* lost, however often it is redelivered, and with a poison message in the stream.
EventuallyStored ==
    \A e \in {e \in Event : Correlatable(e)} :
        e \in pending /\ boots = MaxBoots ~> e \in Stored

\* Every record that a parser exists for is acked in the end, across crashes and
\* restarts: no message gets stuck between JetStream and a dead consumer.
EventuallyAcked ==
    \A e \in Event \ NoParser : e \in pending ~> e \in acked
=============================================================================

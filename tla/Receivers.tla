------------------------------- MODULE Receivers -------------------------------
(***************************************************************************)
(* What the push receivers make of a request body, and the ingest filters: *)
(* internal/ingest.  A line of a body is a record with a size: "fits",     *)
(* "heavy" (more than a message can carry once it is base64 in JSON),      *)
(* "long" (more than MaxRecordBytes) or "oversized" (more than the         *)
(* scanner's buffer takes).  Of a body whose kind is not "lines" nothing   *)
(* is read.                                                                *)
(***************************************************************************)
EXTENDS Integers, Sequences, FiniteSets, SequencesExt

\* TruncateRecord: the flag it returns is ignored by every caller.
TruncateRecord(line) ==
    [record |-> line.record, host |-> line.host,
     size |-> IF line.size = "long" THEN "cut" ELSE line.size]

\* bufio.Scanner stops at a line that its buffer cannot take.
Scanned(lines) ==
    LET stop == SelectInSeq(lines, LAMBDA l : l.size = "oversized")
    IN  IF stop = 0 THEN lines ELSE SubSeq(lines, 1, stop - 1)

Records(lines) == [i \in DOMAIN lines |-> TruncateRecord(lines[i])]

Answer(status, records) == [status |-> status, records |-> records]

\* The answers the two receivers have in common; a body that is too large gets
\* 413 in place of 400.
Received(body, records) ==
    IF body.kind = "malformed" THEN Answer(400, <<>>) ELSE Answer(200, records)

\* logpush.Receiver: a probe is answered and not stored, and a body with a line
\* that cannot be scanned is refused whole (splitNDJSON).
ReceiveLogpush(body) ==
    LET scanned == Scanned(body.lines)
    IN  IF body.kind = "lines" /\ scanned # body.lines THEN Answer(400, <<>>)
        ELSE Received(body, IF body.kind = "probe" THEN <<>> ELSE Records(scanned))

\* vectorhttp.Receiver: splitLines does not look at the scanner's error, so the
\* lines from the oversized one on are gone.
ReceiveVector(body) == Received(body, Records(Scanned(body.lines)))

\* receiverFor: which receiver serves a feed of this provider.
Receive(provider, body) ==
    IF provider = "cloudflare" THEN ReceiveLogpush(body) ELSE ReceiveVector(body)

\* jetstream.splitBatch, with messages of at most limit records.  One that is larger
\* than the limit of bytes travels alone, as any does with a limit of 1.
SplitBatch(records, limit) ==
    LET count == (Len(records) + limit - 1) \div limit
        Upto(n) == IF n < Len(records) THEN n ELSE Len(records)
    IN  [c \in 1..count |-> SubSeq(records, (c - 1) * limit + 1, Upto(c * limit))]

\* The server refuses a message above its max_payload: MaxRecordBytes is that size
\* before the encoding, so a record that was cut is refused as well, each time.
Refused(chunk) == \E i \in DOMAIN chunk : chunk[i].size \in {"heavy", "cut"}

\* How many chunks Append comes to publish if nothing else fails.
Publishable(chunks) ==
    LET first == SelectInSeq(chunks, Refused) IN IF first = 0 THEN Len(chunks) ELSE first - 1

-----------------------------------------------------------------------------
(* filter.Set.  A rule holds the subjects that its operator and its values *)
(* match; "" is a record without a host.                                   *)

\* Compile: a rule without usable values makes the whole set unusable, and the
\* cache leaves the tenant without one.
Compile(rules) == IF \E r \in rules : r = {} THEN {} ELSE rules

Drops(set, record) == record.host # "" /\ \E r \in set : record.host \in r
=============================================================================

--------------------------- MODULE Sources_proofs ---------------------------
(***************************************************************************)
(* The sources, for any bodies, exports, cadence and faults: a record that *)
(* was answered with 200 is kept, the puller's watermark skips nothing, a  *)
(* round of the silence loop leaves no silent source healthy, and the type *)
(* correctness they rest on.                                               *)
(***************************************************************************)
EXTENDS Sources, SequenceTheorems, FiniteSetTheorems, WellFoundedInduction, TLAPS

-----------------------------------------------------------------------------
(* The operators that the receivers and the buffer use.                    *)

LEMMA LeastElement ==
    ASSUME NEW T, T \subseteq Nat, T # {}
    PROVE  \E x \in T : \A y \in T : x <= y
<1>1. PICK x \in T : \A y \in T : ~ (<<y, x>> \in OpToRel(<, Nat))
  BY NatLessThanWellFounded, WFMin, Zenon
<1>. DEFINE Less == {p \in Nat \X Nat : p[1] < p[2]}
<1>2. OpToRel(<, Nat) = Less
  BY DEF OpToRel
<1>3. \A y, z \in Nat : y < z => <<y, z>> \in Less
  OBVIOUS
<1>4. \A y \in T : ~ (<<y, x>> \in Less)
  BY <1>1, <1>2
<1>. HIDE DEF Less
<1>5. \A y \in T : ~ (y < x)
  BY <1>3, <1>4
<1>. QED
  BY <1>5

\* Rounding up: as many messages as are needed, and no more.
LEMMA RoundUp ==
    ASSUME NEW n \in Nat, NEW limit \in Nat \ {0}, NEW count,
           count = (n + limit - 1) \div limit
    PROVE  count \in Nat /\ n <= count * limit /\ (count - 1) * limit < n
<1>1. count \in Int /\ count * limit <= n + limit - 1 /\ n + limit - 1 < count * limit + limit
  OBVIOUS
<1>2. count >= 0
  BY <1>1
<1>3. (count - 1) * limit = count * limit - limit
  BY <1>1
<1>. QED
  BY <1>1, <1>2, <1>3

\* A position is in the first message that ends behind it.
LEMMA ChunkOf ==
    ASSUME NEW limit \in Nat \ {0}, NEW count \in Nat, NEW i \in Nat \ {0}, i <= count * limit
    PROVE  \E c \in 1..count : (c - 1) * limit < i /\ i <= c * limit
<1>. DEFINE Ends == {c \in Nat : i <= c * limit}
<1>1. PICK c \in Ends : \A d \in Ends : c <= d
  <2>1. count \in Ends
    OBVIOUS
  <2>. QED
    BY <2>1, LeastElement
<1>2. c \in Nat /\ i <= c * limit /\ c <= count
  BY <1>1
<1>3. c # 0
  BY <1>2
<1>4. c - 1 \in Nat /\ c - 1 \notin Ends
  BY <1>1, <1>2, <1>3
<1>5. (c - 1) * limit \in Nat
  BY <1>4
<1>. QED
  BY <1>2, <1>3, <1>4, <1>5

\* splitBatch keeps every record, and no message is empty or too long.
LEMMA Split ==
    ASSUME NEW S, NEW records \in Seq(S), NEW limit \in Nat \ {0}
    PROVE  /\ SplitBatch(records, limit) \in Seq(Seq(S))
           /\ \A c \in DOMAIN SplitBatch(records, limit) :
                 Len(SplitBatch(records, limit)[c]) \in 1..limit
           /\ \A i \in DOMAIN records : \E c \in DOMAIN SplitBatch(records, limit) :
                 records[i] \in ToSet(SplitBatch(records, limit)[c])
           /\ records = <<>> => SplitBatch(records, limit) = <<>>
<1>. DEFINE n == Len(records)
            count == (n + limit - 1) \div limit
            Upto(k) == IF k < n THEN k ELSE n
            chunks == SplitBatch(records, limit)
<1>0. n \in Nat /\ DOMAIN records = 1..n
  OBVIOUS
<1>1. count \in Nat /\ n <= count * limit /\ (count - 1) * limit < n
  BY <1>0, RoundUp
<1>2. chunks = [c \in 1..count |-> SubSeq(records, (c - 1) * limit + 1, Upto(c * limit))]
  BY DEF SplitBatch
<1>. HIDE DEF count, chunks
<1>3. ASSUME NEW c \in 1..count
      PROVE  /\ (c - 1) * limit \in Nat /\ c * limit = (c - 1) * limit + limit
             /\ (c - 1) * limit < n /\ c * limit \in Nat
  <2>1. c \in Nat /\ c - 1 \in Nat /\ count - c \in Nat
    BY <1>1
  <2>2. (c - 1) * limit \in Nat /\ (count - c) * limit \in Nat
    BY <2>1
  <2>3. c * limit = (c - 1) * limit + limit
    BY <2>1
  <2>4. (count - 1) * limit = (c - 1) * limit + (count - c) * limit
    BY <2>1, <1>1
  <2>. QED
    BY <2>1, <2>2, <2>3, <2>4, <1>1, <1>0
<1>4. ASSUME NEW c \in 1..count
      PROVE  /\ chunks[c] \in Seq(S) /\ Len(chunks[c]) \in 1..limit
             /\ Len(chunks[c]) = Upto(c * limit) - (c - 1) * limit
             /\ \A i \in 1..Len(chunks[c]) : chunks[c][i] = records[(c - 1) * limit + i]
  <2>. DEFINE lo == (c - 1) * limit
              hi == Upto(c * limit)
  <2>1. lo \in Nat /\ hi \in Nat /\ lo < hi /\ hi <= n /\ hi <= lo + limit
    BY <1>3, <1>0
  <2>2. chunks[c] = SubSeq(records, lo + 1, hi)
    BY <1>2
  <2>. HIDE DEF lo, hi
  <2>3. \A i \in lo + 1..hi : records[i] \in S
    BY <2>1, <1>0
  <2>4. /\ SubSeq(records, lo + 1, hi) \in Seq(S)
        /\ Len(SubSeq(records, lo + 1, hi)) = hi - lo
        /\ \A i \in 1..hi - lo : SubSeq(records, lo + 1, hi)[i] = records[lo + i]
    <3>1. lo + 1 \in Int /\ hi \in Int /\ lo + 1 <= hi /\ hi - (lo + 1) + 1 = hi - lo
      BY <2>1
    <3>2. \A i \in 1..hi - lo : lo + 1 + i - 1 = lo + i
      BY <2>1
    <3>. QED
      BY <2>3, <3>1, <3>2, SubSeqProperties
  <2>5. /\ chunks[c] \in Seq(S) /\ Len(chunks[c]) \in 1..limit
        /\ Len(chunks[c]) = hi - lo
        /\ \A i \in 1..Len(chunks[c]) : chunks[c][i] = records[lo + i]
    BY <2>1, <2>2, <2>4
  <2>. QED
    BY <2>5 DEF lo, hi
<1>5. chunks \in Seq(Seq(S)) /\ DOMAIN chunks = 1..count
  <2>1. DOMAIN chunks = 1..count
    BY <1>2
  <2>2. chunks = [c \in 1..count |-> chunks[c]]
    BY <1>2
  <2>3. chunks \in [1..count -> Seq(S)]
    BY <2>2, <1>4
  <2>. QED
    BY <1>1, <2>1, <2>3
<1>6. ASSUME NEW i \in DOMAIN records
      PROVE  \E c \in DOMAIN chunks : records[i] \in ToSet(chunks[c])
  <2>1. i \in Nat \ {0} /\ i <= n /\ i <= count * limit
    <3>1. count * limit \in Nat
      BY <1>1
    <3>. QED
      BY <1>0, <1>1, <3>1
  <2>2. PICK c \in 1..count : (c - 1) * limit < i /\ i <= c * limit
    BY <2>1, <1>1, ChunkOf
  <2>. DEFINE lo == (c - 1) * limit
  <2>3. /\ lo \in Nat /\ lo < i /\ i <= Upto(lo + limit)
        /\ Len(chunks[c]) = Upto(lo + limit) - lo
        /\ \A k \in 1..Len(chunks[c]) : chunks[c][k] = records[lo + k]
        /\ chunks[c] \in Seq(S)
    <3>1. lo \in Nat /\ c * limit = lo + limit
      BY <2>2, <1>3
    <3>2. /\ Len(chunks[c]) = Upto(c * limit) - lo
          /\ \A k \in 1..Len(chunks[c]) : chunks[c][k] = records[lo + k]
          /\ chunks[c] \in Seq(S)
      BY <2>2, <1>4
    <3>3. lo < i /\ i <= lo + limit
      BY <2>2, <3>1
    <3>. HIDE DEF lo
    <3>. QED
      BY <3>1, <3>2, <3>3, <2>1, <1>0
  <2>. HIDE DEF lo
  <2>6. i - lo \in 1..Len(chunks[c]) /\ lo + (i - lo) = i
    BY <2>1, <2>3, <1>0
  <2>4. chunks[c][i - lo] = records[i]
    BY <2>3, <2>6
  <2>5. i - lo \in DOMAIN chunks[c]
    <3>1. DOMAIN chunks[c] = 1..Len(chunks[c])
      BY <2>3
    <3>. QED
      BY <2>6, <3>1
  <2>7. records[i] \in {chunks[c][k] : k \in DOMAIN chunks[c]}
    BY <2>4, <2>5
  <2>. QED
    BY <2>2, <2>7, <1>5 DEF ToSet
<1>7. records = <<>> => chunks = <<>>
  <2>1. ASSUME n = 0, count # 0 PROVE FALSE
    <3>1. (count - 1) * limit \in Nat
      BY <2>1, <1>1
    <3>. QED
      BY <2>1, <3>1, <1>1
  <2>2. records = <<>> => n = 0
    OBVIOUS
  <2>3. count = 0 => chunks = <<>>
    BY <1>5
  <2>. QED
    BY <2>1, <2>2, <2>3
<1>. QED
  BY <1>4, <1>5, <1>6, <1>7 DEF chunks

LEMMA OwnElements ==
    ASSUME NEW n \in Nat, NEW S, NEW f \in [1..n -> S]
    PROVE  f \in Seq(ToSet(f)) /\ f \in Seq(S) /\ Len(f) = n
<1>1. f \in [1..n -> ToSet(f)]
  BY DEF ToSet
<1>2. \A T : f \in [1..n -> T] => f \in Seq(T) /\ Len(f) = n
  OBVIOUS
<1>. QED
  BY <1>1, <1>2

LEMMA Scan ==
    ASSUME NEW lines, lines \in Seq(ToSet(lines))
    PROVE  /\ Scanned(lines) \in Seq(ToSet(lines))
           /\ lines = <<>> => Scanned(lines) = <<>>
<1>. DEFINE Stops == {i \in 1..Len(lines) : lines[i].size = "oversized"}
            stop == IF Stops # {} THEN Min(Stops) ELSE 0
<1>1. Scanned(lines) = IF stop = 0 THEN lines ELSE SubSeq(lines, 1, stop - 1)
  BY DEF Scanned, SelectInSeq
<1>2. Len(lines) \in Nat /\ DOMAIN lines = 1..Len(lines)
  OBVIOUS
<1>3. stop \in 0..Len(lines)
  <2>1. CASE Stops = {}
    BY <2>1, <1>2
  <2>2. CASE Stops # {}
    <3>0. Stops \subseteq Nat /\ Stops \subseteq 1..Len(lines)
      OBVIOUS
    <3>. HIDE DEF Stops
    <3>1. \E x \in Stops : \A y \in Stops : x <= y
      BY <2>2, <3>0, LeastElement
    <3>2. Min(Stops) \in Stops
      BY <3>1 DEF Min
    <3>3. Min(Stops) \in 1..Len(lines)
      BY <3>2, <3>0
    <3>. QED
      BY <2>2, <3>3, <1>2
  <2>. QED
    BY <2>1, <2>2
<1>. HIDE DEF stop
<1>4. CASE stop = 0
  BY <1>1, <1>4
<1>5. CASE stop # 0
  <2>1. \A i \in 1..stop - 1 : lines[i] \in ToSet(lines)
    BY <1>2, <1>3 DEF ToSet
  <2>2. SubSeq(lines, 1, stop - 1) \in Seq(ToSet(lines))
    BY <2>1, <1>3, <1>2, SubSeqProperties
  <2>3. lines # <<>>
    BY <1>3, <1>5
  <2>. QED
    BY <2>2, <2>3, <1>1, <1>5
<1>. QED
  BY <1>4, <1>5

\* What a receiver answers with 200 is everything that the scanner read, and the
\* Logpush receiver read all of it.
LEMMA Accepted ==
    ASSUME NEW provider, NEW b \in DOMAIN Bodies
    PROVE  LET answer == Receive(provider, Bodies[b])
               read == Scanned(Bodies[b].lines)
           IN  /\ answer.records \in Seq(ToSet(answer.records))
               /\ answer.status = 200 =>
                     /\ answer.records = Records(read)
                     /\ provider = "cloudflare" => read = Bodies[b].lines
<1>. DEFINE lines == Bodies[b].lines
            read == Scanned(lines)
            answer == Receive(provider, Bodies[b])
<1>1. lines \in Seq(ToSet(lines)) /\ (Bodies[b].kind # "lines" => lines = <<>>)
  BY SourcesAssumption
<1>2. read \in Seq(ToSet(lines)) /\ (lines = <<>> => read = <<>>)
  BY <1>1, Scan
<1>3. Records(read) \in Seq(ToSet(Records(read)))
  <2>1. /\ Len(read) \in Nat /\ DOMAIN read = 1..Len(read)
        /\ Records(read) = [i \in 1..Len(read) |-> TruncateRecord(read[i])]
    BY <1>2 DEF Records
  <2>2. \A i \in 1..Len(read) : TruncateRecord(read[i]) \in {TruncateRecord(read[j]) : j \in 1..Len(read)}
    OBVIOUS
  <2>3. Records(read) \in [1..Len(read) -> {TruncateRecord(read[j]) : j \in 1..Len(read)}]
    BY <2>1, <2>2
  <2>. DEFINE n == Len(read)
              items == {TruncateRecord(read[j]) : j \in 1..Len(read)}
              records == Records(read)
  <2>4. n \in Nat /\ records \in [1..n -> items]
    BY <2>1, <2>3
  <2>. HIDE DEF n, items, records
  <2>5. records \in Seq(ToSet(records))
    BY <2>4, OwnElements
  <2>. QED
    BY <2>5 DEF records
<1>4. <<>> \in Seq(ToSet(<<>>)) /\ (read = <<>> => Records(read) = <<>>)
  BY DEF Records
<1>5. answer \in {Answer(400, <<>>), Answer(200, Records(read)), Answer(200, <<>>)}
  BY DEF Receive, ReceiveLogpush, ReceiveVector, Received
<1>6. answer.records \in Seq(ToSet(answer.records))
  <2>1. answer.records = <<>> \/ answer.records = Records(read)
    BY <1>5 DEF Answer
  <2>. HIDE DEF answer
  <2>. QED
    BY <1>3, <1>4, <2>1
<1>7. ASSUME answer.status = 200
      PROVE  answer.records = Records(read) /\ (provider = "cloudflare" => read = lines)
  <2>1. CASE provider = "cloudflare" /\ Bodies[b].kind = "lines"
    BY <2>1, <1>7 DEF Receive, ReceiveLogpush, Received, Answer
  <2>2. CASE provider = "cloudflare" /\ Bodies[b].kind # "lines"
    BY <2>2, <1>1, <1>2, <1>4, <1>7 DEF Receive, ReceiveLogpush, Received, Answer
  <2>3. CASE provider # "cloudflare"
    BY <2>3, <1>7 DEF Receive, ReceiveVector, Received, Answer
  <2>. QED
    BY <2>1, <2>2, <2>3
<1>. QED
  BY <1>6, <1>7

\* A window of the export is a sequence, and everything in it is there.
LEMMA Export ==
    ASSUME NEW from \in Int, NEW to \in Int
    PROVE  /\ PulledRecords(from, to) \in Seq(ToSet(PulledRecords(from, to)))
           /\ Fetched(from, to) = <<>> => PulledRecords(from, to) = <<>>
           /\ \A t \in Exported : from <= t /\ t < to =>
                 \E i \in DOMAIN PulledRecords(from, to) :
                    PulledRecords(from, to)[i].record = t
<1>. DEFINE S == {t \in Exported : from <= t /\ t < to}
            items == Fetched(from, to)
<1>1. IsFiniteSet(S)
  <2>0. Exported \subseteq Nat \ {0}
    BY SourcesAssumption
  <2>1. ASSUME NEW t \in S PROVE t \in from..to
    <3>1. t \in Int /\ from <= t /\ t < to
      BY <2>0
    <3>. QED
      BY <3>1
  <2>2. IsFiniteSet(from..to)
    BY FS_Interval
  <2>. HIDE DEF S
  <2>. QED
    BY <2>1, <2>2, FS_Subset
<1>2. Cardinality(S) \in Nat /\ ExistsBijection(1..Cardinality(S), S)
  BY <1>1, FS_CardinalityType
<1>3. items \in Surjection(1..Cardinality(S), S)
  <2>. DEFINE n == Cardinality(S)
  <2>1. \E f \in [1..n -> S] : IsInjective(f)
    BY <1>2 DEF ExistsBijection, Bijection, Injection
  <2>2. items = CHOOSE f \in [1..n -> S] : IsInjective(f)
    BY DEF Fetched, SetToSeq
  <2>3. items \in Injection(1..n, S)
    BY <2>1, <2>2 DEF Injection
  <2>4. Cardinality(1..n) = n
    <3>1. n \in Nat
      BY <1>2
    <3>2. Cardinality(1..n) = IF 1 > n THEN 0 ELSE n - 1 + 1
      BY <3>1, FS_Interval
    <3>. QED
      BY <3>1, <3>2
  <2>. HIDE DEF n, items, S
  <2>5. IsFiniteSet(S) /\ Cardinality(1..n) = Cardinality(S)
    BY <1>1, <2>4 DEF n
  <2>6. items \in Surjection(1..n, S)
    BY <2>3, <2>5, FS_Injection
  <2>. QED
    BY <2>6 DEF n
<1>. DEFINE records == PulledRecords(from, to)
<1>4. /\ items \in [1..Cardinality(S) -> S]
      /\ \A t \in S : \E i \in 1..Cardinality(S) : items[i] = t
  BY <1>3 DEF Surjection
<1>. HIDE DEF items, S
<1>5. records = [i \in DOMAIN items |-> [record |-> items[i], host |-> "", size |-> "fits"]]
  BY DEF PulledRecords, items
<1>. HIDE DEF records
<1>6. /\ DOMAIN records = 1..Cardinality(S)
      /\ \A i \in 1..Cardinality(S) : records[i].record = items[i]
  BY <1>4, <1>5
<1>7. records \in [1..Cardinality(S) -> {[record |-> t, host |-> "", size |-> "fits"] : t \in S}]
  BY <1>4, <1>5
<1>8. records \in Seq(ToSet(records))
  BY <1>2, <1>7, OwnElements
<1>9. items = <<>> => records = <<>>
  BY <1>5
<1>10. \A t \in S : \E i \in DOMAIN records : records[i].record = t
  BY <1>4, <1>6
<1>. QED
  BY <1>8, <1>9, <1>10 DEF records, items, S

-----------------------------------------------------------------------------
(* The inductive invariant, in the parts that the four results rest on.    *)

\* The messages of a body and of a window of the export.
PushChunks(b) == SplitBatch(Receive(feed.provider, Bodies[b]).records, ChunkLimit)
PullChunks(from, to) == SplitBatch(PulledRecords(from, to), ChunkLimit)

OfBody(m) ==
    /\ m.source = Push /\ feed.secret # 0
    /\ \E b \in DOMAIN Bodies : \E c \in DOMAIN PushChunks(b) :
          m.id = <<<<b>>, c>> /\ m.records = PushChunks(b)[c]
OfExport(m) ==
    /\ m.source = Pull
    /\ \E from, to \in Int : \E c \in DOMAIN PullChunks(from, to) :
          m.id = <<<<from, to>>, c>> /\ m.records = PullChunks(from, to)[c]

\* A message id stands for the same records whenever it is used, and of a batch
\* a prefix is in the stream: that is what lets a retry append the rest only.
StreamInv ==
    /\ stream \in Seq(ToSet(stream))
    /\ \A i \in DOMAIN stream : stream[i].at \in 1..now
    /\ \A i \in DOMAIN stream : OfBody(stream[i]) \/ OfExport(stream[i])
    /\ \A i \in DOMAIN stream : \A c \in 1..stream[i].id[2] - 1 : \E j \in DOMAIN stream :
          stream[j].id = <<stream[i].id[1], c>> /\ stream[j].at = stream[i].at

\* What is cached is what was saved, now or before.
CacheInv ==
    /\ feed.secret = 0 => feed = NoFeed
    /\ byID # NoFeed => feed.secret # 0 /\ byID.provider = feed.provider
    /\ sets \subseteq everRules /\ rules \subseteq everRules

\* Every message of a body that was answered with 200 is in the stream, and what
\* logproc has consumed was handed on or dropped.
KeptInv ==
    /\ \A a \in answered :
          /\ feed.secret # 0 /\ a.provider = feed.provider /\ a.body \in DOMAIN Bodies
          /\ Receive(a.provider, Bodies[a.body]).status = 200
          /\ \A c \in DOMAIN PushChunks(a.body) : \E i \in DOMAIN stream :
                stream[i].records = PushChunks(a.body)[c]
    /\ \A i \in 1..consumed : \A r \in ToSet(stream[i].records) :
          r \in ingested \/ Drops(everRules, r)

\* The registry never believes in a delivery that has not arrived.
HealthInv ==
    /\ arrivedAt \in [Source -> 0..now]
    /\ \A s \in Source : registry[s].lastRecordAt <= arrivedAt[s]
    /\ \A i \in DOMAIN stream : stream[i].at <= arrivedAt[stream[i].source]

Buffered(t) ==
    \E i \in DOMAIN stream : \E k \in DOMAIN stream[i].records : stream[i].records[k].record = t
PullInv ==
    /\ watermark <= now /\ pulledFrom \in Int
    /\ \A t \in Exported : pulledFrom <= t /\ t < watermark => Buffered(t)

SourcesInv ==
    SourcesTypeOK /\ issued \in 0..MaxSecret /\ StreamInv /\ CacheInv /\ KeptInv /\ HealthInv
    /\ PullInv

-----------------------------------------------------------------------------
(* What Append does to the stream.                                         *)

LEMMA ChunkNumbers ==
    ASSUME NEW i \in DOMAIN stream, StreamInv
    PROVE  /\ stream[i].id[2] \in Nat \ {0}
           /\ stream[i].source \in Source
           /\ stream[i].records \in Seq(ToSet(stream[i].records))
           /\ Len(stream[i].records) \in 1..ChunkLimit
<1>. DEFINE m == stream[i]
<1>0. ChunkLimit \in Nat \ {0}
  BY SourcesAssumption
<1>1. ASSUME NEW S, NEW records \in Seq(S), NEW c \in DOMAIN SplitBatch(records, ChunkLimit)
      PROVE  LET chunk == SplitBatch(records, ChunkLimit)[c]
             IN  /\ c \in Nat \ {0} /\ chunk \in Seq(ToSet(chunk))
                 /\ Len(chunk) \in 1..ChunkLimit
  <2>. DEFINE chunks == SplitBatch(records, ChunkLimit)
              chunk == chunks[c]
  <2>1. chunks \in Seq(Seq(S)) /\ Len(chunk) \in 1..ChunkLimit
    BY <1>0, Split
  <2>2. c \in DOMAIN chunks
    OBVIOUS
  <2>. HIDE DEF chunks
  <2>4. c \in Nat \ {0} /\ chunk \in Seq(S)
    BY <2>1, <2>2
  <2>. HIDE DEF chunk
  <2>3. chunk \in Seq(ToSet(chunk))
    <3>1. Len(chunk) \in Nat /\ chunk \in [1..Len(chunk) -> S]
      BY <2>4
    <3>. QED
      BY <3>1, OwnElements
  <2>. QED
    BY <2>1, <2>4, <2>3 DEF chunks, chunk
<1>2. CASE OfBody(m)
  <2>1. PICK b \in DOMAIN Bodies : \E c \in DOMAIN PushChunks(b) :
              m.id = <<<<b>>, c>> /\ m.records = PushChunks(b)[c]
    BY <1>2 DEF OfBody
  <2>2. PICK c \in DOMAIN PushChunks(b) : m.id = <<<<b>>, c>> /\ m.records = PushChunks(b)[c]
    BY <2>1
  <2>3. Receive(feed.provider, Bodies[b]).records
            \in Seq(ToSet(Receive(feed.provider, Bodies[b]).records))
    BY Accepted
  <2>4. c \in Nat \ {0} /\ m.records \in Seq(ToSet(m.records))
        /\ Len(m.records) \in 1..ChunkLimit
    BY <2>2, <2>3, <1>1 DEF PushChunks
  <2>. QED
    BY <1>2, <2>2, <2>4 DEF OfBody, Source
<1>3. CASE OfExport(m)
  <2>1. PICK from \in Int, to \in Int : \E c \in DOMAIN PullChunks(from, to) :
              m.id = <<<<from, to>>, c>> /\ m.records = PullChunks(from, to)[c]
    BY <1>3 DEF OfExport
  <2>2. PICK c \in DOMAIN PullChunks(from, to) :
              m.id = <<<<from, to>>, c>> /\ m.records = PullChunks(from, to)[c]
    BY <2>1
  <2>3. PulledRecords(from, to) \in Seq(ToSet(PulledRecords(from, to)))
    BY Export
  <2>4. c \in Nat \ {0} /\ m.records \in Seq(ToSet(m.records))
        /\ Len(m.records) \in 1..ChunkLimit
    BY <2>2, <2>3, <1>1 DEF PullChunks
  <2>. QED
    BY <1>3, <2>2, <2>4 DEF OfExport, Source
<1>. QED
  BY <1>2, <1>3 DEF StreamInv

\* What is in the stream of a batch at a time is a prefix of it.
LEMMA TakenPrefix ==
    ASSUME StreamInv, NEW batch, NEW n \in Nat
    PROVE  \E k \in 0..n : \A c \in 1..n : Taken(<<batch, c>>) <=> c <= k
<1>. DEFINE Free == {k \in 0..n : k = n \/ ~Taken(<<batch, k + 1>>)}
<1>1. PICK k \in Free : \A j \in Free : k <= j
  <2>1. n \in Free /\ Free \subseteq Nat
    OBVIOUS
  <2>. HIDE DEF Free
  <2>. QED
    BY <2>1, LeastElement
<1>2. ASSUME NEW c \in 1..n, c <= k PROVE Taken(<<batch, c>>)
  <2>1. c - 1 \in 0..n /\ c - 1 < k /\ c - 1 # n /\ c - 1 + 1 = c
    BY <1>2
  <2>2. c - 1 \notin Free
    BY <1>1, <2>1
  <2>. QED
    BY <2>1, <2>2
<1>3. ASSUME NEW c \in 1..n, k < c, Taken(<<batch, c>>) PROVE FALSE
  <2>1. k \in 0..n /\ k # n /\ ~Taken(<<batch, k + 1>>)
    BY <1>3
  <2>2. k + 1 \in 1..c - 1
    BY <1>3, <2>1
  <2>3. PICK i \in DOMAIN stream : stream[i].id = <<batch, c>> /\ stream[i].at = now
    BY <1>3 DEF Taken
  <2>4. stream[i].id[2] = c /\ stream[i].id[1] = batch
    BY <2>3
  <2>5. PICK j \in DOMAIN stream : stream[j].id = <<batch, k + 1>> /\ stream[j].at = now
    BY <2>2, <2>3, <2>4 DEF StreamInv
  <2>. QED
    BY <2>1, <2>5 DEF Taken
<1>4. ASSUME NEW c \in 1..n PROVE Taken(<<batch, c>>) <=> c <= k
  <2>1. k < c \/ c <= k
    BY <1>1
  <2>. QED
    BY <1>2, <1>3, <2>1
<1>. QED
  BY <1>4

LEMMA Joined ==
    ASSUME NEW s, s \in Seq(ToSet(s)), NEW S, NEW t \in Seq(S)
    PROVE  /\ s \o t \in Seq(ToSet(s \o t))
           /\ Len(s \o t) = Len(s) + Len(t)
           /\ \A i \in DOMAIN s : i \in DOMAIN (s \o t) /\ (s \o t)[i] = s[i]
           /\ \A i \in DOMAIN t : Len(s) + i \in DOMAIN (s \o t) /\ (s \o t)[Len(s) + i] = t[i]
           /\ \A i \in DOMAIN (s \o t) :
                 i \in DOMAIN s \/ \E j \in DOMAIN t : i = Len(s) + j
<1>. DEFINE T == ToSet(s) \union S
            u == s \o t
<1>1. s \in Seq(T) /\ t \in Seq(T)
  OBVIOUS
<1>. HIDE DEF T
<1>2. /\ u \in Seq(T) /\ Len(u) = Len(s) + Len(t)
      /\ \A i \in 1..Len(s) + Len(t) : u[i] = IF i <= Len(s) THEN s[i] ELSE t[i - Len(s)]
  BY <1>1, ConcatProperties
<1>. HIDE DEF u
<1>3. /\ Len(s) \in Nat /\ Len(t) \in Nat /\ DOMAIN s = 1..Len(s) /\ DOMAIN t = 1..Len(t)
      /\ Len(u) \in Nat /\ DOMAIN u = 1..Len(u) /\ u \in [1..Len(u) -> T]
  BY <1>1, <1>2
<1>4. u \in Seq(ToSet(u))
  BY <1>3, OwnElements
<1>5. \A i \in DOMAIN s : i \in DOMAIN u /\ u[i] = s[i]
  BY <1>2, <1>3
<1>6. \A i \in DOMAIN t : Len(s) + i \in DOMAIN u /\ u[Len(s) + i] = t[i]
  BY <1>2, <1>3
<1>7. ASSUME NEW i \in DOMAIN u, i \notin DOMAIN s PROVE \E j \in DOMAIN t : i = Len(s) + j
  <2>1. i - Len(s) \in DOMAIN t /\ i = Len(s) + (i - Len(s))
    BY <1>2, <1>3, <1>7
  <2>. QED
    BY <2>1
<1>. QED
  BY <1>2, <1>4, <1>5, <1>6, <1>7 DEF u

\* Append adds what is missing of the first n messages, and nothing else.
MessageOf(source, batch, chunks, c) ==
    [id |-> <<batch, c>>, source |-> source, at |-> now, records |-> chunks[c]]
Adds(after, source, batch, chunks, n) ==
    /\ after \in Seq(ToSet(after)) /\ Len(stream) <= Len(after)
    /\ \A i \in DOMAIN stream : i \in DOMAIN after /\ after[i] = stream[i]
    /\ \A i \in DOMAIN after :
          i \in DOMAIN stream \/ \E c \in 1..n : after[i] = MessageOf(source, batch, chunks, c)
    /\ \A c \in 1..n : \E i \in DOMAIN after :
          after[i].id = <<batch, c>> /\ after[i].at = now

LEMMA Appended ==
    ASSUME StreamInv, NEW source, NEW batch, NEW chunks, NEW n \in Nat
    PROVE  Adds(AppendChunks(source, batch, chunks, n), source, batch, chunks, n)
<1>. DEFINE after == AppendChunks(source, batch, chunks, n)
            Message(c) == MessageOf(source, batch, chunks, c)
            Prefix(k) == \A c \in 1..n : Taken(<<batch, c>>) <=> c <= k
            taken == CHOOSE k \in 0..n : Prefix(k)
            new == [i \in 1..n - taken |-> Message(taken + i)]
            S == {Message(c) : c \in 1..n}
<1>1. taken \in 0..n /\ Prefix(taken)
  <2>1. \E k \in 0..n : Prefix(k)
    BY TakenPrefix
  <2>. HIDE DEF Prefix
  <2>. QED
    BY <2>1
<1>2. after = stream \o new
  BY DEF AppendChunks, MessageOf
<1>. HIDE DEF taken, after
<1>3. /\ n - taken \in Nat
      /\ \A i \in 1..n - taken : taken + i \in 1..n
  BY <1>1
<1>4. new \in Seq(S) /\ DOMAIN new = 1..n - taken
      /\ \A i \in DOMAIN new : new[i] = Message(taken + i)
  <2>. HIDE DEF Message
  <2>1. new \in [1..n - taken -> S]
    BY <1>3
  <2>. QED
    BY <2>1, <1>3
<1>. HIDE DEF S, new
<1>5. /\ after \in Seq(ToSet(after))
      /\ Len(after) = Len(stream) + Len(new)
      /\ \A i \in DOMAIN stream : i \in DOMAIN after /\ after[i] = stream[i]
      /\ \A i \in DOMAIN new :
            Len(stream) + i \in DOMAIN after /\ after[Len(stream) + i] = new[i]
      /\ \A i \in DOMAIN after :
            i \in DOMAIN stream \/ \E j \in DOMAIN new : i = Len(stream) + j
  <2>1. stream \in Seq(ToSet(stream)) /\ new \in Seq(S)
    BY <1>4 DEF StreamInv
  <2>. QED
    BY <2>1, <1>2, Joined
<1>6. Len(stream) <= Len(after)
  <2>1. Len(stream) \in Nat /\ Len(new) \in Nat
    BY <1>4 DEF StreamInv
  <2>. QED
    BY <2>1, <1>5
<1>7. ASSUME NEW i \in DOMAIN after, i \notin DOMAIN stream
      PROVE  \E c \in 1..n : after[i] = Message(c)
  <2>1. PICK j \in DOMAIN new : i = Len(stream) + j
    BY <1>5, <1>7
  <2>2. after[i] = Message(taken + j) /\ taken + j \in 1..n
    BY <2>1, <1>3, <1>4, <1>5
  <2>. QED
    BY <2>2
<1>8. ASSUME NEW c \in 1..n
      PROVE  \E i \in DOMAIN after : after[i].id = <<batch, c>> /\ after[i].at = now
  <2>1. CASE c <= taken
    <3>1. PICK i \in DOMAIN stream : stream[i].id = <<batch, c>> /\ stream[i].at = now
      BY <2>1, <1>1 DEF Taken
    <3>. QED
      BY <3>1, <1>5
  <2>2. CASE ~(c <= taken)
    <3>1. c - taken \in 1..n - taken /\ taken + (c - taken) = c
      BY <2>2, <1>1
    <3>2. after[Len(stream) + (c - taken)] = Message(c)
          /\ Len(stream) + (c - taken) \in DOMAIN after
      BY <3>1, <1>4, <1>5
    <3>3. Message(c).id = <<batch, c>> /\ Message(c).at = now
      BY DEF MessageOf
    <3>. QED
      BY <3>2, <3>3
  <2>. QED
    BY <2>1, <2>2
<1>9. \A i \in DOMAIN after : i \in DOMAIN stream \/ \E c \in 1..n : after[i] = Message(c)
  BY <1>7
<1>10. \A c \in 1..n : \E i \in DOMAIN after : after[i].id = <<batch, c>> /\ after[i].at = now
  BY <1>8
<1>. HIDE DEF Message
<1>. QED
  BY <1>5, <1>6, <1>9, <1>10 DEF after, Message, Adds

LEMMA Parameters ==
    /\ Cadence \in Nat \ {0} /\ PullWindow \in Nat \ {0} /\ ChunkLimit \in Nat \ {0}
    /\ MaxTime \in Nat \ {0} /\ MaxSecret \in Nat \ {0} /\ MaxFaults \in Nat
    /\ Exported \subseteq Nat \ {0}
    /\ Len(Bodies) \in Nat /\ DOMAIN Bodies = 1..Len(Bodies)
<1>1. Bodies \in Seq(ToSet(Bodies))
  BY SourcesAssumption
<1>2. Len(Bodies) \in Nat /\ DOMAIN Bodies = 1..Len(Bodies)
  BY <1>1
<1>. QED
  BY <1>2, SourcesAssumption

LEMMA Chunked ==
    /\ \A b \in DOMAIN Bodies : Len(PushChunks(b)) \in Nat
          /\ DOMAIN PushChunks(b) = 1..Len(PushChunks(b))
    /\ \A from, to \in Int : Len(PullChunks(from, to)) \in Nat
          /\ DOMAIN PullChunks(from, to) = 1..Len(PullChunks(from, to))
<1>1. ASSUME NEW S, NEW records \in Seq(S)
      PROVE  /\ Len(SplitBatch(records, ChunkLimit)) \in Nat
             /\ DOMAIN SplitBatch(records, ChunkLimit)
                    = 1..Len(SplitBatch(records, ChunkLimit))
  <2>1. SplitBatch(records, ChunkLimit) \in Seq(Seq(S))
    BY Parameters, Split
  <2>. QED
    BY <2>1
<1>2. ASSUME NEW b \in DOMAIN Bodies
      PROVE  Len(PushChunks(b)) \in Nat /\ DOMAIN PushChunks(b) = 1..Len(PushChunks(b))
  <2>. DEFINE records == Receive(feed.provider, Bodies[b]).records
  <2>1. records \in Seq(ToSet(records))
    BY Accepted
  <2>. HIDE DEF records
  <2>. QED
    BY <1>1, <2>1 DEF PushChunks, records
<1>3. ASSUME NEW from \in Int, NEW to \in Int
      PROVE  /\ Len(PullChunks(from, to)) \in Nat
             /\ DOMAIN PullChunks(from, to) = 1..Len(PullChunks(from, to))
  <2>. DEFINE records == PulledRecords(from, to)
  <2>1. records \in Seq(ToSet(records))
    BY Export
  <2>. HIDE DEF records
  <2>. QED
    BY <1>1, <2>1 DEF PullChunks, records
<1>. QED
  BY <1>2, <1>3

\* A delivery appends some of the body's messages, all of them if it is answered
\* with 200.
LEMMA Delivered ==
    ASSUME SourcesTypeOK, CacheInv, Deliver
    PROVE  LET b == sender.next
               chunks == PushChunks(b)
           IN  /\ b \in DOMAIN Bodies /\ feed.secret # 0 /\ byID.provider = feed.provider
               /\ \E n \in 0..Len(chunks) :
                     /\ stream' = AppendChunks(Push, <<b>>, chunks, n)
                     /\ \/ answered' = answered
                        \/ /\ answered' = answered
                                 \union {[body |-> b, provider |-> byID.provider]}
                           /\ n = Len(chunks)
                           /\ Receive(feed.provider, Bodies[b]).status = 200
<1>. DEFINE b == sender.next
            answer == Receive(byID.provider, Bodies[b])
            chunks == SplitBatch(answer.records, ChunkLimit)
            entry == [body |-> b, provider |-> byID.provider]
<1>1. b \in DOMAIN Bodies
  BY Parameters DEF Deliver, SourcesTypeOK
<1>2. byID # NoFeed /\ feed.secret # 0 /\ byID.provider = feed.provider
  BY DEF Deliver, Check, CacheInv
<1>3. chunks = PushChunks(b)
  BY <1>2 DEF PushChunks
<1>4. Len(chunks) \in Nat
  BY <1>1, <1>3, Chunked
<1>5. \/ /\ stream' = AppendChunks(Push, <<b>>, chunks, Len(chunks))
         /\ SenderSees(answer.status)
      \/ \E n \in 0..Len(chunks) - 1 :
            /\ stream' = AppendChunks(Push, <<b>>, chunks, n)
            /\ SenderSees(AppendStatus(n, chunks))
      \/ /\ stream' = AppendChunks(Push, <<b>>, chunks, Len(chunks))
         /\ answered' = answered
  BY DEF Deliver
<1>. HIDE DEF chunks, b
<1>6. CASE /\ stream' = AppendChunks(Push, <<b>>, chunks, Len(chunks))
           /\ SenderSees(answer.status)
  <2>1. answered' = answered \/ (answered' = answered \union {entry} /\ answer.status = 200)
    BY <1>6 DEF SenderSees, b
  <2>. QED
    BY <1>1, <1>2, <1>3, <1>4, <1>6, <2>1 DEF b
<1>7. CASE \E n \in 0..Len(chunks) - 1 :
              /\ stream' = AppendChunks(Push, <<b>>, chunks, n)
              /\ SenderSees(AppendStatus(n, chunks))
  <2>1. PICK n \in 0..Len(chunks) - 1 :
              /\ stream' = AppendChunks(Push, <<b>>, chunks, n)
              /\ SenderSees(AppendStatus(n, chunks))
    BY <1>7
  <2>2. n # Len(chunks) /\ n \in 0..Len(chunks)
    BY <1>4
  <2>3. answered' = answered
    BY <2>1, <2>2 DEF SenderSees, AppendStatus
  <2>. QED
    BY <1>1, <1>2, <1>3, <2>1, <2>2, <2>3 DEF b
<1>8. CASE /\ stream' = AppendChunks(Push, <<b>>, chunks, Len(chunks))
           /\ answered' = answered
  BY <1>1, <1>2, <1>3, <1>4, <1>8 DEF b
<1>. QED
  BY <1>5, <1>6, <1>7, <1>8

\* A poll appends some of the window's messages, all of them if the watermark moves.
LEMMA Polled ==
    ASSUME SourcesTypeOK, PullInv, Poll
    PROVE  LET chunks == PullChunks(From, To)
           IN  /\ From \in Int /\ To \in Int /\ 0 < To /\ To <= now
               /\ watermark # 0 => From = watermark
               /\ \E n \in 0..Len(chunks) :
                     /\ stream' = AppendChunks(Pull, <<From, To>>, chunks, n)
                     /\ watermark' = watermark \/ (watermark' = To /\ n = Len(chunks))
<1>. DEFINE chunks == PullChunks(From, To)
<1>1. /\ now \in Nat \ {0} /\ watermark \in Nat /\ watermark <= now
      /\ PullWindow \in Nat \ {0} /\ To > From
  BY Parameters DEF SourcesTypeOK, PullInv, Poll
<1>2. From \in Int /\ To \in Int /\ 0 < To /\ To <= now /\ (watermark # 0 => From = watermark)
  BY <1>1 DEF From, To
<1>3. Len(chunks) \in Nat
  BY <1>2, Chunked
<1>4. \/ /\ stream' = AppendChunks(Pull, <<From, To>>, chunks, Len(chunks))
         /\ watermark' = Advance(Len(chunks), chunks)
      \/ \E n \in 0..Len(chunks) :
            /\ stream' = AppendChunks(Pull, <<From, To>>, chunks, n)
            /\ watermark' = IF n = Len(chunks) THEN watermark ELSE Advance(n, chunks)
  BY DEF Poll, PullChunks
<1>. HIDE DEF chunks
<1>5. CASE /\ stream' = AppendChunks(Pull, <<From, To>>, chunks, Len(chunks))
           /\ watermark' = Advance(Len(chunks), chunks)
  BY <1>2, <1>3, <1>5 DEF Advance, chunks
<1>6. CASE \E n \in 0..Len(chunks) :
              /\ stream' = AppendChunks(Pull, <<From, To>>, chunks, n)
              /\ watermark' = IF n = Len(chunks) THEN watermark ELSE Advance(n, chunks)
  <2>1. PICK n \in 0..Len(chunks) :
              /\ stream' = AppendChunks(Pull, <<From, To>>, chunks, n)
              /\ watermark' = IF n = Len(chunks) THEN watermark ELSE Advance(n, chunks)
    BY <1>6
  <2>2. watermark' = watermark
    BY <2>1 DEF Advance
  <2>. QED
    BY <1>2, <2>1, <2>2 DEF chunks
<1>. QED
  BY <1>4, <1>5, <1>6

-----------------------------------------------------------------------------
(* The steps.                                                              *)

\* The feed keeps its provider, and the caches follow the rows.
LEMMA CacheStep ==
    ASSUME SourcesTypeOK, CacheInv, [Next]_vars
    PROVE  /\ CacheInv'
           /\ feed.secret # 0 => feed'.secret # 0 /\ feed'.provider = feed.provider
           /\ everRules \subseteq everRules'
<1>. DEFINE Stays == feed.secret # 0 => feed'.secret # 0 /\ feed'.provider = feed.provider
            Grows == everRules \subseteq everRules'
<1>1. /\ DOMAIN feed = {"provider", "enabled", "secret"}
      /\ feed = [provider |-> feed.provider, enabled |-> feed.enabled, secret |-> feed.secret]
      /\ feed.secret \in Nat
  BY Parameters DEF SourcesTypeOK, FeedRows
<1>2. NoFeed.secret = 0 /\ NoFeed.enabled = FALSE
  BY DEF NoFeed
<1>3. ASSUME NEW p \in Provider, Create(p) PROVE CacheInv' /\ Stays /\ Grows
  <2>1. /\ feed = NoFeed /\ byID = NoFeed /\ feed'.secret = 1 /\ byID' = byID
        /\ sets' = sets /\ rules' = rules /\ everRules' = everRules
    BY <1>2, <1>3 DEF Create, CacheInv, filterVars
  <2>. QED
    BY <2>1, <1>2 DEF CacheInv
<1>4. ASSUME NEW enabled \in BOOLEAN, SetEnabled(enabled) PROVE CacheInv' /\ Stays /\ Grows
  <2>1. /\ feed # NoFeed /\ feed'.secret = feed.secret /\ feed'.provider = feed.provider
        /\ byID' = byID /\ sets' = sets /\ rules' = rules /\ everRules' = everRules
    BY <1>1, <1>4 DEF SetEnabled, filterVars
  <2>. QED
    BY <2>1 DEF CacheInv
<1>5. CASE RotateToken
  <2>1. /\ feed # NoFeed /\ feed'.secret = feed.secret + 1 /\ feed'.provider = feed.provider
        /\ byID' = byID /\ sets' = sets /\ rules' = rules /\ everRules' = everRules
    BY <1>1, <1>5 DEF RotateToken, filterVars
  <2>. QED
    BY <2>1, <1>1 DEF CacheInv
<1>6. CASE Refresh
  <2>1. /\ byID' = feed \/ byID' = NoFeed
        /\ feed' = feed /\ sets' = sets /\ rules' = rules /\ everRules' = everRules
    BY <1>6 DEF Refresh, filterVars
  <2>. QED
    BY <2>1, <1>2 DEF CacheInv
<1>7. ASSUME NEW set \in RuleSets, SetFilters(set) PROVE CacheInv' /\ Stays /\ Grows
  BY <1>7 DEF SetFilters, CacheInv, feedVars
<1>8. CASE RefreshFilters
  <2>1. sets' \subseteq rules /\ rules' = rules /\ everRules' = everRules
        /\ feed' = feed /\ byID' = byID
    BY <1>8 DEF RefreshFilters, Compile, feedVars
  <2>. QED
    BY <2>1 DEF CacheInv
<1>9. CASE Restart
  BY <1>9, <1>2 DEF Restart, CacheInv
<1>10. CASE /\ feed' = feed /\ byID' = byID
            /\ sets' = sets /\ rules' = rules /\ everRules' = everRules
  BY <1>10 DEF CacheInv
<1>11. ASSUME Configure \/ SilenceLoop \/ Refuse \/ Deliver \/ Poll \/ Consume \/ Tick
              \/ UNCHANGED vars
       PROVE  /\ feed' = feed /\ byID' = byID
              /\ sets' = sets /\ rules' = rules /\ everRules' = everRules
  BY <1>11 DEF Configure, SilenceLoop, Refuse, Deliver, Poll, Consume, Tick, vars, feedVars,
               filterVars
<1>. QED
  BY <1>3, <1>4, <1>5, <1>6, <1>7, <1>8, <1>9, <1>10, <1>11 DEF Next

\* What was of a body or of the export stays so: the provider does not change.
LEMMA KindStays ==
    ASSUME feed.secret # 0 => feed'.secret # 0 /\ feed'.provider = feed.provider
    PROVE  \A m : (OfBody(m) => OfBody(m)') /\ (OfExport(m) => OfExport(m)')
<1>1. ASSUME NEW m, OfBody(m) PROVE OfBody(m)'
  <2>1. feed'.provider = feed.provider /\ feed'.secret # 0
    BY <1>1 DEF OfBody
  <2>2. \A b : PushChunks(b)' = PushChunks(b)
    BY <2>1 DEF PushChunks
  <2>. QED
    BY <1>1, <2>1, <2>2 DEF OfBody
<1>2. ASSUME NEW m, OfExport(m) PROVE OfExport(m)'
  BY <1>2 DEF OfExport, PullChunks
<1>. QED
  BY <1>1, <1>2

\* StreamInv where the stream has not changed.
LEMMA StreamStays ==
    ASSUME StreamInv, stream' = stream, now \in Nat, now' \in Nat, now <= now',
           feed.secret # 0 => feed'.secret # 0 /\ feed'.provider = feed.provider
    PROVE  StreamInv'
<1>1. \A m : (OfBody(m) => OfBody(m)') /\ (OfExport(m) => OfExport(m)')
  BY KindStays
<1>2. (stream \in Seq(ToSet(stream)))'
  BY DEF StreamInv
<1>3. (\A i \in DOMAIN stream : stream[i].at \in 1..now)'
  BY DEF StreamInv
<1>4. (\A i \in DOMAIN stream : OfBody(stream[i]) \/ OfExport(stream[i]))'
  BY <1>1 DEF StreamInv
<1>5. (\A i \in DOMAIN stream : \A c \in 1..stream[i].id[2] - 1 : \E j \in DOMAIN stream :
          stream[j].id = <<stream[i].id[1], c>> /\ stream[j].at = stream[i].at)'
  <2>. DEFINE Chained(s) == \A i \in DOMAIN s : \A c \in 1..s[i].id[2] - 1 : \E j \in DOMAIN s :
                               s[j].id = <<s[i].id[1], c>> /\ s[j].at = s[i].at
  <2>1. Chained(stream)
    BY DEF StreamInv
  <2>. HIDE DEF Chained
  <2>2. Chained(stream')
    BY <2>1
  <2>. QED
    BY <2>2 DEF Chained
<1>. QED
  BY <1>2, <1>3, <1>4, <1>5 DEF StreamInv

\* StreamInv after an Append.
LEMMA StreamGrows ==
    ASSUME StreamInv, now \in Nat \ {0}, now' = now, feed' = feed,
           NEW source, NEW batch, NEW chunks, NEW n \in Nat,
           Adds(stream', source, batch, chunks, n),
           \A c \in 1..n : \/ OfBody(MessageOf(source, batch, chunks, c))
                           \/ OfExport(MessageOf(source, batch, chunks, c))
    PROVE  StreamInv'
<1>. DEFINE Message(c) == MessageOf(source, batch, chunks, c)
<1>1. /\ stream' \in Seq(ToSet(stream'))
      /\ \A i \in DOMAIN stream : i \in DOMAIN stream' /\ stream'[i] = stream[i]
      /\ \A i \in DOMAIN stream' :
            i \in DOMAIN stream \/ \E c \in 1..n : stream'[i] = Message(c)
      /\ \A c \in 1..n : \E i \in DOMAIN stream' :
            stream'[i].id = <<batch, c>> /\ stream'[i].at = now
  BY DEF Adds
<1>2. \A m : (OfBody(m) => OfBody(m)') /\ (OfExport(m) => OfExport(m)')
  BY KindStays
<1>3. \A c \in 1..n : OfBody(Message(c)) \/ OfExport(Message(c))
  OBVIOUS
<1>4. \A c \in 1..n : /\ Message(c).at = now /\ Message(c).id = <<batch, c>>
                      /\ Message(c).id[1] = batch /\ Message(c).id[2] = c
  BY DEF MessageOf
<1>. HIDE DEF Message
<1>5. ASSUME NEW i \in DOMAIN stream' PROVE stream'[i].at \in 1..now'
  <2>1. \A j \in DOMAIN stream : stream[j].at \in 1..now
    BY DEF StreamInv
  <2>2. now \in 1..now
    OBVIOUS
  <2>3. \A c \in 1..n : Message(c).at = now
    BY <1>4
  <2>4. stream'[i].at \in 1..now
    BY <1>1, <2>1, <2>2, <2>3
  <2>. QED
    BY <2>4
<1>6. (\A i \in DOMAIN stream : OfBody(stream[i]) \/ OfExport(stream[i]))'
  <2>1. \A j \in DOMAIN stream : OfBody(stream[j]) \/ OfExport(stream[j])
    BY DEF StreamInv
  <2>2. \A i \in DOMAIN stream' : OfBody(stream'[i]) \/ OfExport(stream'[i])
    BY <1>1, <1>3, <2>1
  <2>. QED
    BY <1>2, <2>2
<1>7. ASSUME NEW i \in DOMAIN stream', NEW d \in 1..stream'[i].id[2] - 1
      PROVE  \E j \in DOMAIN stream' :
                stream'[j].id = <<stream'[i].id[1], d>> /\ stream'[j].at = stream'[i].at
  <2>1. CASE i \in DOMAIN stream
    <3>1. PICK j \in DOMAIN stream :
                stream[j].id = <<stream[i].id[1], d>> /\ stream[j].at = stream[i].at
      BY <2>1, <1>1, <1>7 DEF StreamInv
    <3>. QED
      BY <3>1, <2>1, <1>1
  <2>2. CASE \E c \in 1..n : stream'[i] = Message(c)
    <3>1. PICK c \in 1..n : stream'[i] = Message(c)
      BY <2>2
    <3>2. stream'[i].id[1] = batch /\ stream'[i].id[2] = c /\ stream'[i].at = now
      BY <3>1, <1>4
    <3>3. d \in 1..n
      BY <3>2, <1>7
    <3>4. PICK j \in DOMAIN stream' : stream'[j].id = <<batch, d>> /\ stream'[j].at = now
      BY <3>3, <1>1
    <3>. QED
      BY <3>2, <3>4
  <2>. QED
    BY <2>1, <2>2, <1>1
<1>. QED
  BY <1>1, <1>5, <1>6, <1>7 DEF StreamInv

\* Deliver and Poll in these terms.
LEMMA DeliverAdds ==
    ASSUME SourcesInv, Deliver
    PROVE  LET b == sender.next
               chunks == PushChunks(b)
           IN  /\ StreamInv'
               /\ b \in DOMAIN Bodies /\ feed.secret # 0 /\ byID.provider = feed.provider
               /\ \E n \in 0..Len(chunks) :
                     /\ Adds(stream', Push, <<b>>, chunks, n)
                     /\ \/ answered' = answered
                        \/ /\ answered' = answered
                                 \union {[body |-> b, provider |-> byID.provider]}
                           /\ n = Len(chunks)
                           /\ Receive(feed.provider, Bodies[b]).status = 200
<1>. DEFINE b == sender.next
            chunks == PushChunks(b)
            entry == [body |-> b, provider |-> byID.provider]
<1>1. /\ b \in DOMAIN Bodies /\ feed.secret # 0 /\ byID.provider = feed.provider
      /\ \E n \in 0..Len(chunks) :
            /\ stream' = AppendChunks(Push, <<b>>, chunks, n)
            /\ \/ answered' = answered
               \/ /\ answered' = answered \union {entry}
                  /\ n = Len(chunks)
                  /\ Receive(feed.provider, Bodies[b]).status = 200
  BY Delivered DEF SourcesInv
<1>. HIDE DEF b, chunks
<1>2. PICK n \in 0..Len(chunks) :
            /\ stream' = AppendChunks(Push, <<b>>, chunks, n)
            /\ \/ answered' = answered
               \/ /\ answered' = answered \union {entry}
                  /\ n = Len(chunks)
                  /\ Receive(feed.provider, Bodies[b]).status = 200
  BY <1>1
<1>3. Len(chunks) \in Nat /\ DOMAIN chunks = 1..Len(chunks) /\ n \in Nat
  BY <1>1, Chunked DEF chunks
<1>4. Adds(stream', Push, <<b>>, chunks, n)
  BY <1>2, <1>3, Appended DEF SourcesInv
<1>5. ASSUME NEW c \in 1..n PROVE OfBody(MessageOf(Push, <<b>>, chunks, c))
  <2>1. c \in DOMAIN PushChunks(b)
    BY <1>3 DEF chunks
  <2>. QED
    BY <1>1, <2>1 DEF OfBody, MessageOf, chunks
<1>6. StreamInv'
  <2>1. feed' = feed /\ now' = now
    BY DEF Deliver, feedVars
  <2>2. now \in Nat \ {0} /\ StreamInv
    BY Parameters DEF SourcesInv, SourcesTypeOK
  <2>. QED
    BY <1>3, <1>4, <1>5, <2>1, <2>2, StreamGrows
<1>. QED
  BY <1>1, <1>2, <1>4, <1>6 DEF b, chunks

LEMMA PollAdds ==
    ASSUME SourcesInv, Poll
    PROVE  LET chunks == PullChunks(From, To)
           IN  /\ StreamInv'
               /\ \E n \in 0..Len(chunks) :
                     /\ Adds(stream', Pull, <<From, To>>, chunks, n)
                     /\ watermark' = watermark \/ (watermark' = To /\ n = Len(chunks))
<1>. DEFINE batch == <<From, To>>
            chunks == PullChunks(From, To)
<1>1. /\ From \in Int /\ To \in Int
      /\ \E n \in 0..Len(chunks) :
            /\ stream' = AppendChunks(Pull, batch, chunks, n)
            /\ watermark' = watermark \/ (watermark' = To /\ n = Len(chunks))
  BY Polled DEF SourcesInv
<1>2. Len(chunks) \in Nat /\ DOMAIN chunks = 1..Len(chunks)
  BY <1>1, Chunked
<1>3. ASSUME NEW c \in DOMAIN chunks PROVE OfExport(MessageOf(Pull, batch, chunks, c))
  BY <1>1 DEF OfExport, MessageOf
<1>. HIDE DEF batch, chunks
<1>4. PICK n \in 0..Len(chunks) :
            /\ stream' = AppendChunks(Pull, batch, chunks, n)
            /\ watermark' = watermark \/ (watermark' = To /\ n = Len(chunks))
  BY <1>1
<1>5. n \in Nat /\ \A c \in 1..n : c \in DOMAIN chunks
  BY <1>2
<1>6. Adds(stream', Pull, batch, chunks, n)
  BY <1>4, <1>5, Appended DEF SourcesInv
<1>7. StreamInv'
  <2>1. feed' = feed /\ now' = now
    BY DEF Poll, feedVars
  <2>2. now \in Nat \ {0} /\ StreamInv
    BY Parameters DEF SourcesInv, SourcesTypeOK
  <2>. QED
    BY <1>3, <1>5, <1>6, <2>1, <2>2, StreamGrows
<1>. QED
  BY <1>4, <1>6, <1>7 DEF batch, chunks

LEMMA StreamStep ==
    ASSUME SourcesInv, [Next]_vars
    PROVE  StreamInv'
<1>1. CASE Deliver
  BY <1>1, DeliverAdds
<1>2. CASE Poll
  BY <1>2, PollAdds
<1>3. CASE stream' = stream /\ now' \in Nat /\ now <= now'
  <2>1. StreamInv /\ CacheInv /\ SourcesTypeOK /\ now \in Nat
    BY Parameters DEF SourcesInv, SourcesTypeOK
  <2>2. feed.secret # 0 => feed'.secret # 0 /\ feed'.provider = feed.provider
    BY <2>1, CacheStep
  <2>. QED
    BY <1>3, <2>1, <2>2, StreamStays
<1>4. ASSUME ~Deliver, ~Poll PROVE stream' = stream /\ now' \in Nat /\ now <= now'
  <2>1. now \in Nat
    BY Parameters DEF SourcesInv, SourcesTypeOK
  <2>2. CASE Tick
    BY <2>1, <2>2 DEF Tick, bufferVars
  <2>3. ASSUME ~Tick PROVE stream' = stream /\ now' = now
    BY <1>4, <2>3 DEF Next, Create, SetEnabled, RotateToken, Configure, Refresh, SetFilters,
               RefreshFilters, SilenceLoop, Refuse, Consume, Restart, vars, bufferVars
  <2>. QED
    BY <2>1, <2>2, <2>3
<1>. QED
  BY <1>1, <1>2, <1>3, <1>4

LEMMA NothingLeaves ==
    ASSUME SourcesInv, [Next]_vars
    PROVE  \A i \in DOMAIN stream : i \in DOMAIN stream' /\ stream'[i] = stream[i]
<1>1. CASE Deliver
  BY <1>1, DeliverAdds DEF Adds
<1>2. CASE Poll
  BY <1>2, PollAdds DEF Adds
<1>3. ASSUME ~Deliver, ~Poll PROVE stream' = stream
  BY <1>3 DEF Next, Create, SetEnabled, RotateToken, Configure, Refresh, SetFilters,
              RefreshFilters, SilenceLoop, Refuse, Consume, Tick, Restart, vars, bufferVars
<1>. QED
  BY <1>1, <1>2, <1>3

\* An id stands for the same records whenever it is used.
BodyIds ==
    \A i \in DOMAIN stream : \A b \in DOMAIN Bodies : \A c :
        stream[i].id = <<<<b>>, c>> => stream[i].records = PushChunks(b)[c]
ExportIds ==
    \A i \in DOMAIN stream : \A from, to \in Int : \A c :
        stream[i].id = <<<<from, to>>, c>> => stream[i].records = PullChunks(from, to)[c]

LEMMA IdFixesRecords == StreamInv => BodyIds /\ ExportIds
<1>. SUFFICES ASSUME StreamInv, NEW i \in DOMAIN stream, NEW c
              PROVE  /\ \A b \in DOMAIN Bodies :
                           stream[i].id = <<<<b>>, c>> => stream[i].records = PushChunks(b)[c]
                     /\ \A from, to \in Int :
                           stream[i].id = <<<<from, to>>, c>> =>
                               stream[i].records = PullChunks(from, to)[c]
  BY DEF BodyIds, ExportIds
<1>0. \A b, from, to : <<b>> # <<from, to>>
  OBVIOUS
<1>1. CASE OfBody(stream[i])
  <2>1. PICK b \in DOMAIN Bodies : \E d \in DOMAIN PushChunks(b) :
              stream[i].id = <<<<b>>, d>> /\ stream[i].records = PushChunks(b)[d]
    BY <1>1 DEF OfBody
  <2>2. PICK d \in DOMAIN PushChunks(b) :
              stream[i].id = <<<<b>>, d>> /\ stream[i].records = PushChunks(b)[d]
    BY <2>1
  <2>. QED
    BY <2>2, <1>0
<1>2. CASE OfExport(stream[i])
  <2>1. PICK from \in Int, to \in Int : \E d \in DOMAIN PullChunks(from, to) :
              stream[i].id = <<<<from, to>>, d>> /\ stream[i].records = PullChunks(from, to)[d]
    BY <1>2 DEF OfExport
  <2>2. PICK d \in DOMAIN PullChunks(from, to) :
              stream[i].id = <<<<from, to>>, d>> /\ stream[i].records = PullChunks(from, to)[d]
    BY <2>1
  <2>. QED
    BY <2>2, <1>0
<1>. QED
  BY <1>1, <1>2 DEF StreamInv

LEMMA DropsGrow ==
    ASSUME NEW S, NEW T, S \subseteq T, NEW r, Drops(S, r)
    PROVE  Drops(T, r)
BY DEF Drops

LEMMA KeptStep ==
    ASSUME SourcesInv, [Next]_vars
    PROVE  KeptInv'
<1>. USE DEF SourcesInv
<1>1. StreamInv' /\ CacheInv' /\ (feed.secret # 0 => feed'.secret # 0 /\ feed'.provider = feed.provider)
      /\ everRules \subseteq everRules'
  BY StreamStep, CacheStep
<1>2. \A i \in DOMAIN stream : i \in DOMAIN stream' /\ stream'[i] = stream[i]
  BY NothingLeaves
<1>3. feed.secret # 0 => \A b : PushChunks(b)' = PushChunks(b)
  BY <1>1 DEF PushChunks
<1>. DEFINE Kept(a) ==
        /\ feed.secret # 0 /\ a.provider = feed.provider /\ a.body \in DOMAIN Bodies
        /\ Receive(a.provider, Bodies[a.body]).status = 200
        /\ \A c \in DOMAIN PushChunks(a.body) : \E i \in DOMAIN stream :
              stream[i].records = PushChunks(a.body)[c]
<1>4. ASSUME NEW a \in answered PROVE Kept(a)'
  <2>1. Kept(a)
    BY DEF KeptInv
  <2>2. \A c \in DOMAIN PushChunks(a.body) : \E i \in DOMAIN stream' :
              stream'[i].records = PushChunks(a.body)[c]
    BY <2>1, <1>2
  <2>. QED
    BY <2>1, <2>2, <1>1, <1>3
<1>5. ASSUME Deliver, answered' # answered PROVE \A a \in answered' : Kept(a)'
  <2>. DEFINE b == sender.next
              entry == [body |-> b, provider |-> byID.provider]
              chunks == PushChunks(b)
  <2>1. /\ b \in DOMAIN Bodies /\ feed.secret # 0 /\ byID.provider = feed.provider
        /\ answered' = answered \union {entry}
        /\ Adds(stream', Push, <<b>>, chunks, Len(chunks))
        /\ Receive(feed.provider, Bodies[b]).status = 200
    BY <1>5, DeliverAdds
  <2>2. DOMAIN chunks = 1..Len(chunks)
    BY <2>1, Chunked
  <2>3. \A c \in DOMAIN chunks : \E i \in DOMAIN stream' : stream'[i].id = <<<<b>>, c>>
    <3>. HIDE DEF b, entry, chunks
    <3>1. \A c \in 1..Len(chunks) : \E i \in DOMAIN stream' :
              stream'[i].id = <<<<b>>, c>> /\ stream'[i].at = now
      BY <2>1 DEF Adds
    <3>. QED
      BY <2>2, <3>1
  <2>4. ASSUME NEW a, a = entry PROVE Kept(a)'
    <3>1. feed'.secret # 0 /\ a.provider = feed'.provider /\ a.body \in DOMAIN Bodies
          /\ Receive(a.provider, Bodies[a.body]).status = 200
      BY <2>1, <2>4, <1>1
    <3>2. BodyIds'
      BY <1>1, IdFixesRecords, PTL
    <3>3. \A c \in DOMAIN PushChunks(a.body) : \E i \in DOMAIN stream' :
              stream'[i].records = PushChunks(a.body)'[c]
      <4>1. a.body = b /\ a.body \in DOMAIN Bodies
        BY <2>1, <2>4
      <4>2. \A i \in DOMAIN stream' : \A c :
                stream'[i].id = <<<<a.body>>, c>> => stream'[i].records = PushChunks(a.body)'[c]
        BY <3>2, <4>1 DEF BodyIds
      <4>3. ASSUME NEW c \in DOMAIN PushChunks(a.body)
            PROVE  \E i \in DOMAIN stream' : stream'[i].records = PushChunks(a.body)'[c]
        <5>1. PICK i \in DOMAIN stream' : stream'[i].id = <<<<a.body>>, c>>
          BY <2>3, <4>1
        <5>. QED
          BY <4>2, <5>1
      <4>. QED
        BY <4>3
    <3>4. PushChunks(a.body)' = PushChunks(a.body)
      BY <2>1, <1>3
    <3>. QED
      BY <3>1, <3>3, <3>4
  <2>. HIDE DEF Kept, entry
  <2>. QED
    BY <2>1, <2>4, <1>4
<1>6. \A a \in answered' : Kept(a)'
  <2>1. ~Deliver => answered' = answered
    BY DEF Next, Create, SetEnabled, RotateToken, Configure, Refresh, SetFilters,
           RefreshFilters, SilenceLoop, Refuse, SenderSees, Poll, Consume, Tick, Restart, vars,
           sendVars
  <2>. HIDE DEF Kept
  <2>. QED
    BY <2>1, <1>4, <1>5
<1>7. ASSUME NEW i \in 1..consumed', NEW r \in ToSet(stream'[i].records)
      PROVE  r \in ingested' \/ Drops(everRules', r)
  <2>1. CASE i \in 1..consumed
    <3>1. i \in DOMAIN stream
      BY <2>1 DEF StreamInv, SourcesTypeOK
    <3>2. stream'[i] = stream[i] /\ ingested \subseteq ingested'
      BY <3>1, <1>2 DEF Next, Create, SetEnabled, RotateToken, Configure, Refresh, SetFilters,
           RefreshFilters, SilenceLoop, Refuse, Deliver, Poll, Consume, Tick, Restart, vars,
           bufferVars
    <3>3. r \in ingested \/ Drops(everRules, r)
      BY <2>1, <3>2, <1>7 DEF KeptInv
    <3>. QED
      BY <3>2, <3>3, <1>1, DropsGrow
  <2>2. CASE i \notin 1..consumed
    <3>1. Consume
      BY <2>2, <1>7 DEF Next, Create, SetEnabled, RotateToken, Configure, Refresh, SetFilters,
           RefreshFilters, SilenceLoop, Refuse, Deliver, Poll, Tick, Restart, vars, bufferVars
    <3>2. i = consumed + 1 /\ stream' = stream
      BY <2>2, <1>7, <3>1 DEF Consume, SourcesTypeOK, StreamInv
    <3>3. r \in ToSet(stream[consumed + 1].records)
      BY <3>2, <1>7
    <3>4. ingested' = ingested \union
              {x \in ToSet(stream[consumed + 1].records) : ~Drops(sets, x)}
      BY <3>1 DEF Consume, ToSet
    <3>5. r \in ingested' \/ Drops(sets, r)
      BY <3>3, <3>4
    <3>6. sets \subseteq everRules'
      BY <1>1 DEF CacheInv
    <3>. QED
      BY <3>5, <3>6, DropsGrow
  <2>. QED
    BY <2>1, <2>2
<1>. QED
  BY <1>6, <1>7 DEF KeptInv

-----------------------------------------------------------------------------
(* The health registry.                                                    *)

HealthRows ==
    /\ registry \in [Source -> Health]
    /\ \A s \in Source :
          registry[s].lastRecordAt = 0 <=> registry[s].state \in {"unregistered", "awaiting"}

\* The registry after a delivery, and after a round of the silence loop.
LEMMA Recorded ==
    ASSUME HealthRows, NEW r \in [Source -> Health], NEW src \in Source, NEW at \in 1..MaxTime,
           \A s \in Source : r[s] = registry[s] \/ r[s] = Awaiting,
           NEW after, after = RecordDelivery(r, src, at)
    PROVE  /\ after \in [Source -> Health]
           /\ \A s \in Source :
                 after[s].lastRecordAt = 0 <=> after[s].state \in {"unregistered", "awaiting"}
           /\ \A s \in Source : \/ after[s].lastRecordAt = registry[s].lastRecordAt
                                \/ after[s].lastRecordAt = 0
                                \/ s = src /\ after[s].lastRecordAt = at
<1>. DEFINE healthy == [state |-> "healthy", lastRecordAt |-> at]
<1>0. MaxTime \in Nat \ {0}
  BY Parameters
<1>1. healthy \in Health /\ healthy.lastRecordAt = at /\ healthy.state = "healthy" /\ at # 0
  BY <1>0 DEF Health
<1>2. Awaiting.lastRecordAt = 0 /\ Awaiting.state = "awaiting"
  BY DEF Awaiting
<1>3. after = r \/ after = [r EXCEPT ![src] = healthy]
  BY DEF RecordDelivery
<1>. HIDE DEF healthy
<1>4. /\ after \in [Source -> Health]
      /\ \A s \in Source : after[s] = r[s] \/ (s = src /\ after[s] = healthy)
  BY <1>1, <1>3
<1>5. \A s \in Source :
          r[s].lastRecordAt = 0 <=> r[s].state \in {"unregistered", "awaiting"}
  BY <1>2 DEF HealthRows
<1>. QED
  BY <1>1, <1>2, <1>4, <1>5

LEMMA Evaluated ==
    ASSUME HealthRows, NEW after, after = EvaluateSilence(registry)
    PROVE  /\ after \in [Source -> Health]
           /\ \A s \in Source : after[s].lastRecordAt = registry[s].lastRecordAt
           /\ \A s \in Source :
                 after[s].lastRecordAt = 0 <=> after[s].state \in {"unregistered", "awaiting"}
           /\ \A s \in Source : after[s].state = "healthy" =>
                 registry[s].lastRecordAt # 0 /\ ~(now - registry[s].lastRecordAt > Cadence)
<1>0. /\ MaxTime \in Nat \ {0}
      /\ Unregistered \in Health /\ Unregistered.lastRecordAt = 0
      /\ Unregistered.state = "unregistered"
      /\ Awaiting \in Health /\ Awaiting.lastRecordAt = 0 /\ Awaiting.state = "awaiting"
  BY Parameters DEF Unregistered, Awaiting, Health
<1>1. ASSUME NEW s \in Source
      PROVE  /\ after[s] \in Health /\ after[s].lastRecordAt = registry[s].lastRecordAt
             /\ after[s].lastRecordAt = 0 <=> after[s].state \in {"unregistered", "awaiting"}
             /\ after[s].state = "healthy" =>
                   registry[s].lastRecordAt # 0 /\ ~(now - registry[s].lastRecordAt > Cadence)
  <2>. DEFINE h == registry[s]
              silent == [h EXCEPT !.state = "silent"]
  <2>1. h \in Health /\ (h.lastRecordAt = 0 <=> h.state \in {"unregistered", "awaiting"})
    BY DEF HealthRows
  <2>2. silent \in Health /\ silent.state = "silent" /\ silent.lastRecordAt = h.lastRecordAt
    BY <2>1 DEF Health
  <2>3. after[s] = CASE h = Unregistered -> Unregistered
                     [] h # Unregistered /\ h.lastRecordAt = 0 -> Awaiting
                     [] h.lastRecordAt # 0 /\ now - h.lastRecordAt > Cadence -> silent
                     [] OTHER -> h
    BY DEF EvaluateSilence
  <2>. HIDE DEF silent, h
  <2>4. CASE h = Unregistered
    BY <2>3, <2>4, <1>0 DEF h
  <2>5. CASE h # Unregistered /\ h.lastRecordAt = 0
    <3>1. after[s] = Awaiting
      BY <2>3, <2>5
    <3>. QED
      BY <3>1, <2>5, <1>0 DEF h
  <2>6. CASE h # Unregistered /\ h.lastRecordAt # 0 /\ now - h.lastRecordAt > Cadence
    <3>1. after[s] = silent
      BY <2>3, <2>6
    <3>. QED
      BY <3>1, <2>1, <2>2, <2>6 DEF h
  <2>7. CASE h # Unregistered /\ h.lastRecordAt # 0 /\ ~(now - h.lastRecordAt > Cadence)
    <3>1. after[s] = h
      BY <2>3, <2>7
    <3>. QED
      BY <3>1, <2>1, <2>7 DEF h
  <2>. QED
    BY <2>4, <2>5, <2>6, <2>7
<1>2. after \in [Source -> Health]
  <2>1. after = [s \in Source |-> after[s]]
    BY DEF EvaluateSilence
  <2>. QED
    BY <2>1, <1>1
<1>. QED
  BY <1>1, <1>2

LEMMA AtBoot ==
    LET boot == [s \in Source |-> IF s = Pull THEN Awaiting ELSE Unregistered]
    IN  /\ boot \in [Source -> Health]
        /\ \A s \in Source : boot[s].lastRecordAt = 0 /\ boot[s].state \in {"unregistered", "awaiting"}
BY Parameters DEF Awaiting, Unregistered, Health

LEMMA RegistryStep ==
    ASSUME SourcesInv, [Next]_vars
    PROVE  /\ HealthRows'
           /\ \A s \in Source : registry'[s].lastRecordAt <= arrivedAt'[s]
           /\ arrivedAt' \in [Source -> 0..now']
<1>. DEFINE Behind == \A s \in Source : registry'[s].lastRecordAt <= arrivedAt'[s]
            Arrived == arrivedAt' \in [Source -> 0..now']
<1>0. /\ HealthRows /\ now \in 1..MaxTime /\ now \in Nat \ {0} /\ StreamInv
      /\ arrivedAt \in [Source -> 0..now]
      /\ \A s \in Source : registry[s].lastRecordAt <= arrivedAt[s]
      /\ Push \in Source /\ Pull \in Source
  BY Parameters DEF SourcesInv, SourcesTypeOK, HealthRows, HealthInv, Source
<1>1. CASE Deliver
  <2>. DEFINE r == RegisterSource(registry, Push)
  <2>1. /\ registry' = RecordDelivery(r, Push, now)
        /\ arrivedAt' = [arrivedAt EXCEPT ![Push] = now] /\ now' = now
    BY <1>1 DEF Deliver
  <2>2. r \in [Source -> Health] /\ \A s \in Source : r[s] = registry[s] \/ r[s] = Awaiting
    <3>1. Awaiting \in Health /\ registry \in [Source -> Health]
      BY <1>0, Parameters DEF Awaiting, Health, HealthRows
    <3>. QED
      BY <3>1 DEF RegisterSource
  <2>. HIDE DEF r
  <2>3. /\ registry' \in [Source -> Health]
        /\ \A s \in Source :
              registry'[s].lastRecordAt = 0 <=> registry'[s].state \in {"unregistered", "awaiting"}
        /\ \A s \in Source : \/ registry'[s].lastRecordAt = registry[s].lastRecordAt
                             \/ registry'[s].lastRecordAt = 0
                             \/ s = Push /\ registry'[s].lastRecordAt = now
    <3>1. HealthRows /\ now \in 1..MaxTime /\ Push \in Source
      BY <1>0
    <3>2. /\ r \in [Source -> Health] /\ \A s \in Source : r[s] = registry[s] \/ r[s] = Awaiting
          /\ registry' = RecordDelivery(r, Push, now)
      BY <2>1, <2>2
    <3>. HIDE DEF Push
    <3>. QED
      BY <3>1, <3>2, Recorded
  <2>4. Arrived /\ arrivedAt'[Push] = now /\ \A s \in Source : arrivedAt[s] <= arrivedAt'[s]
    BY <2>1, <1>0
  <2>5. ASSUME NEW s \in Source PROVE registry'[s].lastRecordAt <= arrivedAt'[s]
    <3>1. /\ arrivedAt[s] \in Nat /\ arrivedAt'[s] \in Nat
          /\ registry[s].lastRecordAt \in Nat
      BY <1>0, <2>4, <2>1, Parameters DEF HealthRows, Health
    <3>. QED
      BY <3>1, <2>3, <2>4, <1>0
  <2>. QED
    BY <2>3, <2>4, <2>5 DEF HealthRows
<1>2. CASE Consume
  <2>. DEFINE m == stream[consumed + 1]
  <2>1. /\ registry' = RecordDelivery(registry, m.source, m.at)
        /\ arrivedAt' = arrivedAt /\ now' = now
    BY <1>2 DEF Consume, ReportedAt
  <2>2. consumed + 1 \in DOMAIN stream
    BY <1>0, <1>2 DEF Consume, SourcesInv, SourcesTypeOK, StreamInv
  <2>3. m.source \in Source /\ m.at \in 1..now /\ m.at <= arrivedAt[m.source]
    BY <2>2, <1>0, ChunkNumbers DEF StreamInv, SourcesInv, HealthInv
  <2>. HIDE DEF m
  <2>4. m.at \in 1..MaxTime
    BY <2>3, <1>0, Parameters
  <2>5. /\ registry' \in [Source -> Health]
        /\ \A s \in Source :
              registry'[s].lastRecordAt = 0 <=> registry'[s].state \in {"unregistered", "awaiting"}
        /\ \A s \in Source : \/ registry'[s].lastRecordAt = registry[s].lastRecordAt
                             \/ registry'[s].lastRecordAt = 0
                             \/ s = m.source /\ registry'[s].lastRecordAt = m.at
    <3>1. registry \in [Source -> Health]
      BY <1>0 DEF HealthRows
    <3>. QED
      BY <1>0, <2>1, <2>3, <2>4, <3>1, Recorded
  <2>6. ASSUME NEW s \in Source PROVE registry'[s].lastRecordAt <= arrivedAt'[s]
    <3>1. arrivedAt[s] \in Nat
      BY <1>0
    <3>. QED
      BY <3>1, <2>1, <2>3, <2>5, <1>0
  <2>. QED
    BY <2>1, <2>5, <2>6, <1>0 DEF HealthRows
<1>3. CASE SilenceLoop
  <2>1. registry' = EvaluateSilence(registry) /\ arrivedAt' = arrivedAt /\ now' = now
    BY <1>3 DEF SilenceLoop
  <2>2. /\ registry' \in [Source -> Health]
        /\ \A s \in Source : registry'[s].lastRecordAt = registry[s].lastRecordAt
        /\ \A s \in Source :
              registry'[s].lastRecordAt = 0 <=> registry'[s].state \in {"unregistered", "awaiting"}
    BY <1>0, <2>1, Evaluated
  <2>. QED
    BY <2>1, <2>2, <1>0 DEF HealthRows
<1>4. CASE Restart
  <2>1. /\ registry' = [s \in Source |-> IF s = Pull THEN Awaiting ELSE Unregistered]
        /\ arrivedAt' = arrivedAt /\ now' = now
    BY <1>4 DEF Restart
  <2>2. /\ registry' \in [Source -> Health]
        /\ \A s \in Source : registry'[s].lastRecordAt = 0
              /\ registry'[s].state \in {"unregistered", "awaiting"}
    BY <2>1, AtBoot
  <2>3. \A s \in Source : 0 <= arrivedAt[s]
    BY <1>0
  <2>. QED
    BY <2>1, <2>2, <2>3, <1>0 DEF HealthRows
<1>5. CASE Poll
  <2>1. /\ registry' = registry /\ now' = now
        /\ arrivedAt' = arrivedAt \/ arrivedAt' = [arrivedAt EXCEPT ![Pull] = now]
    BY <1>5 DEF Poll
  <2>2. Arrived /\ \A s \in Source : arrivedAt[s] <= arrivedAt'[s]
    BY <2>1, <1>0
  <2>3. ASSUME NEW s \in Source PROVE registry'[s].lastRecordAt <= arrivedAt'[s]
    <3>1. /\ arrivedAt[s] \in Nat /\ arrivedAt'[s] \in Nat
          /\ registry[s].lastRecordAt \in Nat
      BY <1>0, <2>2, <2>1, Parameters DEF HealthRows, Health
    <3>. QED
      BY <3>1, <2>1, <2>2, <1>0
  <2>4. HealthRows'
    BY <2>1, <1>0 DEF HealthRows
  <2>. QED
    BY <2>2, <2>3, <2>4
<1>6. CASE registry' = registry /\ arrivedAt' = arrivedAt /\ (now' = now \/ now' = now + 1)
  BY <1>6, <1>0 DEF HealthRows
<1>7. ASSUME ~Deliver, ~Consume, ~SilenceLoop, ~Restart, ~Poll
      PROVE  registry' = registry /\ arrivedAt' = arrivedAt /\ (now' = now \/ now' = now + 1)
  BY <1>7 DEF Next, Create, SetEnabled, RotateToken, Configure, Refresh, SetFilters,
              RefreshFilters, Refuse, Tick, vars, healthVars
<1>. QED
  BY <1>1, <1>2, <1>3, <1>4, <1>5, <1>6, <1>7

LEMMA ArrivalsGrow ==
    ASSUME SourcesInv, [Next]_vars
    PROVE  \A s \in Source : /\ arrivedAt[s] \in Nat /\ arrivedAt'[s] \in Nat
                             /\ arrivedAt[s] <= arrivedAt'[s]
<1>1. arrivedAt \in [Source -> 0..now] /\ now \in Nat /\ Push \in Source /\ Pull \in Source
  BY Parameters DEF SourcesInv, SourcesTypeOK, HealthInv, Source
<1>2. \/ arrivedAt' = arrivedAt
      \/ arrivedAt' = [arrivedAt EXCEPT ![Push] = now]
      \/ arrivedAt' = [arrivedAt EXCEPT ![Pull] = now]
  <2>1. CASE Deliver
    BY <2>1 DEF Deliver
  <2>2. CASE Poll
    BY <2>2 DEF Poll
  <2>3. ASSUME ~Deliver, ~Poll PROVE arrivedAt' = arrivedAt
    BY <2>3 DEF Next, Create, SetEnabled, RotateToken, Configure, Refresh, SetFilters,
                RefreshFilters, SilenceLoop, Refuse, Consume, Tick, Restart, vars, healthVars
  <2>. QED
    BY <2>1, <2>2, <2>3
<1>. QED
  BY <1>1, <1>2

LEMMA HealthStep ==
    ASSUME SourcesInv, [Next]_vars
    PROVE  HealthInv'
<1>1. /\ arrivedAt' \in [Source -> 0..now']
      /\ \A s \in Source : registry'[s].lastRecordAt <= arrivedAt'[s]
  BY RegistryStep
<1>2. arrivedAt \in [Source -> 0..now] /\ now \in Nat /\ Push \in Source /\ Pull \in Source
      /\ Push # Pull
  BY Parameters DEF SourcesInv, SourcesTypeOK, HealthInv, Source, Push, Pull
<1>3. ASSUME NEW i \in DOMAIN stream, i \in DOMAIN stream', stream'[i] = stream[i]
      PROVE  stream'[i].at <= arrivedAt'[stream'[i].source]
  <2>. DEFINE src == stream[i].source
              at == stream[i].at
  <2>1. src \in Source /\ at \in 1..now /\ at <= arrivedAt[src]
    BY ChunkNumbers DEF SourcesInv, StreamInv, HealthInv
  <2>2. arrivedAt[src] \in Nat /\ arrivedAt'[src] \in Nat /\ arrivedAt[src] <= arrivedAt'[src]
    BY <2>1, ArrivalsGrow
  <2>. HIDE DEF src, at
  <2>3. at <= arrivedAt'[src]
    BY <2>1, <2>2, <1>2
  <2>. QED
    BY <2>3, <1>3 DEF src, at
<1>4. ASSUME NEW i \in DOMAIN stream', ~(i \in DOMAIN stream /\ stream'[i] = stream[i])
      PROVE  stream'[i].at <= arrivedAt'[stream'[i].source]
  <2>1. CASE Deliver
    <3>1. stream'[i].source = Push /\ stream'[i].at = now
      BY <1>4, <2>1, DeliverAdds DEF Adds, MessageOf
    <3>2. arrivedAt'[Push] = now
      BY <2>1, <1>2 DEF Deliver
    <3>. QED
      BY <3>1, <3>2, <1>2
  <2>2. CASE Poll
    <3>1. PICK n \in 0..Len(PullChunks(From, To)) :
              Adds(stream', Pull, <<From, To>>, PullChunks(From, To), n)
      BY <2>2, PollAdds
    <3>2. PICK c \in 1..n : stream'[i] = MessageOf(Pull, <<From, To>>, PullChunks(From, To), c)
      BY <1>4, <3>1 DEF Adds
    <3>3. stream'[i].source = Pull /\ stream'[i].at = now
      BY <3>2 DEF MessageOf
    <3>4. Fetched(From, To) # <<>>
      <4>1. From \in Int /\ To \in Int
        BY <2>2, Polled DEF SourcesInv
      <4>2. Len(PullChunks(From, To)) # 0
        BY <3>1, <3>2, <4>1, Chunked
      <4>3. PullChunks(From, To) # <<>>
        BY <4>2
      <4>4. PulledRecords(From, To) # <<>>
        <5>. DEFINE records == PulledRecords(From, To)
        <5>1. records \in Seq(ToSet(records))
          BY <4>1, Export
        <5>. HIDE DEF records
        <5>2. records = <<>> => SplitBatch(records, ChunkLimit) = <<>>
          BY <5>1, Parameters, Split
        <5>. QED
          BY <4>3, <5>2 DEF PullChunks, records
      <4>. QED
        BY <4>1, <4>4, Export
    <3>5. arrivedAt'[Pull] = now
      BY <2>2, <3>4, <1>2 DEF Poll
    <3>. QED
      BY <3>3, <3>5, <1>2
  <2>3. ASSUME ~Deliver, ~Poll PROVE stream' = stream
    BY <2>3 DEF Next, Create, SetEnabled, RotateToken, Configure, Refresh, SetFilters,
                RefreshFilters, SilenceLoop, Refuse, Consume, Tick, Restart, vars, bufferVars
  <2>. QED
    BY <2>1, <2>2, <2>3, <1>4
<1>. QED
  BY <1>1, <1>3, <1>4 DEF HealthInv

-----------------------------------------------------------------------------
(* The puller.                                                             *)

LEMMA PullStep ==
    ASSUME SourcesInv, [Next]_vars
    PROVE  PullInv'
<1>0. /\ now \in Nat /\ watermark \in Nat /\ watermark <= now /\ pulledFrom \in Int
      /\ \A t \in Exported : pulledFrom <= t /\ t < watermark => Buffered(t)
      /\ Exported \subseteq Nat \ {0}
  BY Parameters DEF SourcesInv, SourcesTypeOK, PullInv
<1>1. ASSUME NEW t, Buffered(t) PROVE Buffered(t)'
  <2>1. PICK i \in DOMAIN stream :
            \E k \in DOMAIN stream[i].records : stream[i].records[k].record = t
    BY <1>1 DEF Buffered
  <2>2. i \in DOMAIN stream' /\ stream'[i] = stream[i]
    BY NothingLeaves
  <2>. QED
    BY <2>1, <2>2 DEF Buffered
<1>2. CASE watermark' = watermark /\ pulledFrom' = pulledFrom /\ (now' = now \/ now' = now + 1)
  <2>1. watermark' <= now'
    BY <1>0, <1>2
  <2>. QED
    BY <1>0, <1>1, <1>2, <2>1 DEF PullInv
<1>3. CASE Poll
  <2>. DEFINE chunks == PullChunks(From, To)
              records == PulledRecords(From, To)
              batch == <<From, To>>
  <2>1. /\ From \in Int /\ To \in Int /\ 0 < To /\ To <= now
        /\ watermark # 0 => From = watermark
    BY <1>3, Polled DEF SourcesInv
  <2>2. PICK n \in 0..Len(chunks) :
            /\ Adds(stream', Pull, batch, chunks, n)
            /\ watermark' = watermark \/ (watermark' = To /\ n = Len(chunks))
    BY <1>3, PollAdds
  <2>3. /\ now' = now
        /\ pulledFrom' = IF pulledFrom = 0 \/ watermark = 0 THEN From ELSE pulledFrom
    BY <1>3 DEF Poll
  <2>4. watermark' <= now' /\ pulledFrom' \in Int
    BY <1>0, <2>1, <2>2, <2>3
  <2>5. ASSUME NEW t \in Exported, pulledFrom' <= t, t < watermark PROVE Buffered(t)'
    <3>1. pulledFrom' = pulledFrom
      BY <1>0, <2>1, <2>3, <2>5
    <3>. QED
      BY <3>1, <2>5, <1>0, <1>1
  <2>6. ASSUME NEW t \in Exported, From <= t, t < To, n = Len(chunks) PROVE Buffered(t)'
    <3>1. PICK i \in DOMAIN records : records[i].record = t
      BY <2>1, <2>6, Export
    <3>2. records \in Seq(ToSet(records))
      BY <2>1, Export
    <3>3. PICK c \in DOMAIN chunks : records[i] \in ToSet(chunks[c])
      <4>. HIDE DEF records
      <4>1. \E c \in DOMAIN SplitBatch(records, ChunkLimit) :
                records[i] \in ToSet(SplitBatch(records, ChunkLimit)[c])
        BY <3>2, Parameters, Split
      <4>. QED
        BY <4>1 DEF PullChunks, records
    <3>4. c \in 1..n
      BY <2>1, <2>6, <3>3, Chunked
    <3>5. PICK j \in DOMAIN stream' : stream'[j].id = <<batch, c>>
      BY <2>2, <3>4 DEF Adds
    <3>6. stream'[j].records = chunks[c]
      <4>1. ExportIds'
        BY StreamStep, IdFixesRecords, PTL
      <4>2. \A from, to \in Int : PullChunks(from, to)' = PullChunks(from, to)
        BY DEF PullChunks
      <4>3. \A from, to \in Int : \A d : stream'[j].id = <<<<from, to>>, d>> =>
                stream'[j].records = PullChunks(from, to)'[d]
        BY <4>1 DEF ExportIds
      <4>. QED
        BY <2>1, <3>5, <4>2, <4>3
    <3>7. PICK k \in DOMAIN chunks[c] : chunks[c][k] = records[i]
      BY <3>3 DEF ToSet
    <3>8. stream'[j].records[k].record = t /\ k \in DOMAIN stream'[j].records
      BY <3>1, <3>6, <3>7
    <3>. QED
      BY <3>5, <3>8 DEF Buffered
  <2>7. ASSUME NEW t \in Exported, pulledFrom' <= t, t < watermark' PROVE Buffered(t)'
    <3>1. CASE t < watermark
      BY <2>5, <2>7, <3>1
    <3>2. CASE ~(t < watermark)
      <4>1. watermark' = To /\ n = Len(chunks)
        BY <2>2, <2>7, <3>2
      <4>2. From <= t
        BY <1>0, <2>1, <2>3, <2>7, <3>2
      <4>. QED
        BY <2>6, <2>7, <4>1, <4>2
    <3>. QED
      BY <3>1, <3>2
  <2>. QED
    BY <2>4, <2>7 DEF PullInv
<1>4. ASSUME ~Poll
      PROVE  watermark' = watermark /\ pulledFrom' = pulledFrom /\ (now' = now \/ now' = now + 1)
  BY <1>4 DEF Next, Create, SetEnabled, RotateToken, Configure, Refresh, SetFilters,
              RefreshFilters, SilenceLoop, Refuse, Deliver, Consume, Tick, Restart, vars, pullVars
<1>. QED
  BY <1>2, <1>3, <1>4

-----------------------------------------------------------------------------
(* Type correctness.                                                       *)

FeedTyped == feed \in FeedRows /\ byID \in FeedRows /\ loaded \in BOOLEAN /\ issued \in 0..MaxSecret

LEMMA FeedTypeStep ==
    ASSUME SourcesInv, [Next]_vars
    PROVE  FeedTyped'
<1>1. FeedTyped
  BY DEF SourcesInv, SourcesTypeOK, FeedTyped
<1>2. NoFeed \in FeedRows
  BY Parameters DEF NoFeed, FeedRows
<1>3. ASSUME NEW p \in Provider, Create(p) PROVE FeedTyped'
  <2>1. feed' \in FeedRows
    BY <1>3, Parameters DEF Create, FeedRows
  <2>2. issued' = 1 \/ issued' = issued
    BY <1>3 DEF Create
  <2>. QED
    BY <1>1, <1>3, <2>1, <2>2, Parameters DEF Create, FeedTyped
<1>4. ASSUME NEW enabled \in BOOLEAN, SetEnabled(enabled) PROVE FeedTyped'
  <2>1. feed' \in FeedRows
    BY <1>1, <1>4 DEF SetEnabled, FeedTyped, FeedRows
  <2>. QED
    BY <1>1, <1>4, <2>1 DEF SetEnabled, FeedTyped
<1>5. CASE RotateToken
  <2>1. feed.secret + 1 \in 0..MaxSecret
    BY <1>1, <1>5, Parameters DEF RotateToken, FeedTyped, FeedRows
  <2>2. feed' \in FeedRows
    BY <1>1, <1>5, <2>1 DEF RotateToken, FeedTyped, FeedRows
  <2>. QED
    BY <1>1, <1>5, <2>1, <2>2 DEF RotateToken, FeedTyped
<1>6. CASE Refresh
  BY <1>1, <1>2, <1>6 DEF Refresh, FeedTyped
<1>7. CASE Restart
  BY <1>1, <1>2, <1>7 DEF Restart, FeedTyped
<1>8. ASSUME \A p \in Provider : ~Create(p), \A enabled \in BOOLEAN : ~SetEnabled(enabled),
             ~RotateToken, ~Refresh, ~Restart
      PROVE  feed' = feed /\ byID' = byID /\ loaded' = loaded /\ issued' = issued
  BY <1>8 DEF Next, Configure, SetFilters, RefreshFilters, SilenceLoop, Refuse, Deliver, Poll,
              Consume, Tick, vars, feedVars
<1>. QED
  BY <1>1, <1>3, <1>4, <1>5, <1>6, <1>7, <1>8 DEF FeedTyped

LEMMA RowTypeStep ==
    ASSUME SourcesInv, [Next]_vars
    PROVE  (sourceRow \in [Source -> Health])'
<1>1. sourceRow \in [Source -> Health] /\ HealthRows
  BY DEF SourcesInv, SourcesTypeOK, HealthRows
<1>2. ASSUME NEW p \in Provider, Create(p) PROVE sourceRow' \in [Source -> Health]
  <2>1. Awaiting \in Health
    BY Parameters DEF Awaiting, Health
  <2>. QED
    BY <1>1, <1>2, <2>1 DEF Create
<1>3. CASE SilenceLoop
  <2>1. registry' \in [Source -> Health]
    BY <1>1, <1>3, Evaluated DEF SilenceLoop
  <2>2. \A row, observed \in Health : UpdateHealth(row, observed) \in Health
    BY DEF UpdateHealth, Health
  <2>3. sourceRow' = [s \in Source |-> UpdateHealth(sourceRow[s], registry'[s])]
    BY <1>3 DEF SilenceLoop
  <2>. QED
    BY <1>1, <2>1, <2>2, <2>3
<1>4. ASSUME ~SilenceLoop, \A p \in Provider : ~Create(p) PROVE sourceRow' = sourceRow
  BY <1>4 DEF Next, SetEnabled, RotateToken, Configure, Refresh, SetFilters, RefreshFilters,
              Refuse, Deliver, Poll, Consume, Tick, Restart, vars, feedVars
<1>. QED
  BY <1>1, <1>2, <1>3, <1>4

LEMMA CountTypeStep ==
    ASSUME SourcesInv, [Next]_vars
    PROVE  /\ (consumed \in 0..Len(stream))'
           /\ (watermark \in 0..MaxTime)' /\ (now \in 1..MaxTime)' /\ (faults \in 0..MaxFaults)'
<1>0. /\ consumed \in 0..Len(stream) /\ Len(stream) \in Nat
      /\ watermark \in 0..MaxTime /\ now \in 1..MaxTime /\ faults \in 0..MaxFaults
      /\ MaxTime \in Nat \ {0} /\ MaxFaults \in Nat
  BY Parameters DEF SourcesInv, SourcesTypeOK, StreamInv
<1>1. Len(stream') \in Nat /\ Len(stream) <= Len(stream')
  <2>1. CASE Deliver
    BY <2>1, DeliverAdds DEF Adds
  <2>2. CASE Poll
    BY <2>2, PollAdds DEF Adds
  <2>3. ASSUME ~Deliver, ~Poll PROVE stream' = stream
    BY <2>3 DEF Next, Create, SetEnabled, RotateToken, Configure, Refresh, SetFilters,
                RefreshFilters, SilenceLoop, Refuse, Consume, Tick, Restart, vars, bufferVars
  <2>4. stream' \in Seq(ToSet(stream'))
    BY StreamStep DEF StreamInv
  <2>. QED
    BY <2>1, <2>2, <2>3, <2>4, <1>0
<1>2. consumed' \in 0..Len(stream')
  <2>1. CASE Consume
    BY <2>1, <1>0 DEF Consume
  <2>2. ASSUME ~Consume PROVE consumed' = consumed
    BY <2>2 DEF Next, Create, SetEnabled, RotateToken, Configure, Refresh, SetFilters,
                RefreshFilters, SilenceLoop, Refuse, Deliver, Poll, Tick, Restart, vars,
                bufferVars
  <2>. QED
    BY <2>1, <2>2, <1>0, <1>1
<1>3. watermark' \in 0..MaxTime
  <2>1. CASE Poll
    <3>1. To \in Int /\ 0 < To /\ To <= now
      BY <2>1, Polled DEF SourcesInv
    <3>2. watermark' = watermark \/ watermark' = To
      BY <2>1, PollAdds
    <3>. QED
      BY <3>1, <3>2, <1>0
  <2>2. ASSUME ~Poll PROVE watermark' = watermark
    BY <2>2 DEF Next, Create, SetEnabled, RotateToken, Configure, Refresh, SetFilters,
                RefreshFilters, SilenceLoop, Refuse, Deliver, Consume, Tick, Restart, vars,
                pullVars
  <2>. QED
    BY <2>1, <2>2, <1>0
<1>4. now' \in 1..MaxTime
  <2>1. CASE Tick
    BY <2>1, <1>0 DEF Tick
  <2>2. ASSUME ~Tick PROVE now' = now
    BY <2>2 DEF Next, Create, SetEnabled, RotateToken, Configure, Refresh, SetFilters,
                RefreshFilters, SilenceLoop, Refuse, Deliver, Poll, Consume, Restart, vars
  <2>. QED
    BY <2>1, <2>2, <1>0
<1>5. faults' \in 0..MaxFaults
  <2>1. faults' = faults \/ Fault
    BY DEF Next, Create, SetEnabled, RotateToken, Configure, Refresh, SetFilters,
           RefreshFilters, SilenceLoop, Refuse, Deliver, Poll, Consume, Tick, Restart, vars
  <2>. QED
    BY <2>1, <1>0 DEF Fault
<1>. QED
  BY <1>2, <1>3, <1>4, <1>5

LEMMA SenderTypeStep ==
    ASSUME SourcesInv, [Next]_vars
    PROVE  (sender \in [token : 0..MaxSecret, next : 1..Len(Bodies) + 1])'
<1>1. /\ sender \in [token : 0..MaxSecret, next : 1..Len(Bodies) + 1]
      /\ issued \in 0..MaxSecret
  BY DEF SourcesInv, SourcesTypeOK
<1>2. CASE Configure
  BY <1>1, <1>2 DEF Configure
<1>3. ASSUME NEW status, SenderSees(status), sender.next <= Len(Bodies)
      PROVE  sender' \in [token : 0..MaxSecret, next : 1..Len(Bodies) + 1]
  <2>1. sender.next + 1 \in 1..Len(Bodies) + 1
    BY <1>1, <1>3, Parameters
  <2>2. sender' = sender \/ sender' = [sender EXCEPT !.next = @ + 1]
    BY <1>3 DEF SenderSees
  <2>. QED
    BY <1>1, <2>1, <2>2
<1>4. CASE Refuse
  BY <1>3, <1>4 DEF Refuse
<1>5. CASE Deliver
  <2>1. sender' = sender \/ (sender.next <= Len(Bodies) /\ \E status : SenderSees(status))
    BY <1>5 DEF Deliver
  <2>. QED
    BY <1>1, <1>3, <2>1
<1>6. ASSUME ~Configure, ~Refuse, ~Deliver PROVE sender' = sender
  BY <1>6 DEF Next, Create, SetEnabled, RotateToken, Refresh, SetFilters, RefreshFilters,
              SilenceLoop, Poll, Consume, Tick, Restart, vars, sendVars
<1>. QED
  BY <1>1, <1>2, <1>4, <1>5, <1>6

LEMMA FilterTypeStep ==
    ASSUME SourcesInv, [Next]_vars
    PROVE  (rules \in RuleSets \union {{}} /\ sets \in RuleSets \union {{}})'
<1>1. rules \in RuleSets \union {{}} /\ sets \in RuleSets \union {{}}
  BY DEF SourcesInv, SourcesTypeOK
<1>2. ASSUME NEW set \in RuleSets, SetFilters(set) PROVE rules' = set /\ sets' = sets
  BY <1>2 DEF SetFilters
<1>3. CASE RefreshFilters
  BY <1>1, <1>3 DEF RefreshFilters, Compile
<1>4. CASE Restart
  BY <1>1, <1>4 DEF Restart
<1>5. ASSUME \A set \in RuleSets : ~SetFilters(set), ~RefreshFilters, ~Restart
      PROVE  rules' = rules /\ sets' = sets
  BY <1>5 DEF Next, Create, SetEnabled, RotateToken, Configure, Refresh, SilenceLoop, Refuse,
              Deliver, Poll, Consume, Tick, vars, filterVars
<1>. QED
  BY <1>1, <1>2, <1>3, <1>4, <1>5

ChunkLengths == \A i \in DOMAIN stream : Len(stream[i].records) \in 1..ChunkLimit

LEMMA ChunksFit == StreamInv => ChunkLengths
BY ChunkNumbers DEF ChunkLengths

LEMMA TypeStep ==
    ASSUME SourcesInv, [Next]_vars
    PROVE  SourcesTypeOK' /\ (issued \in 0..MaxSecret)'
<1>1. ChunkLengths'
  BY StreamStep, ChunksFit, PTL
<1>. QED
  BY <1>1, FeedTypeStep, RowTypeStep, CountTypeStep, SenderTypeStep, FilterTypeStep, RegistryStep
     DEF SourcesTypeOK, FeedTyped, HealthRows, ChunkLengths

-----------------------------------------------------------------------------
(* The theorems.                                                           *)

LEMMA Start == Init => SourcesInv
<1>. SUFFICES ASSUME Init PROVE SourcesInv
  OBVIOUS
<1>1. /\ stream = <<>> /\ DOMAIN stream = {} /\ Len(stream) = 0
      /\ now = 1 /\ watermark = 0 /\ consumed = 0 /\ answered = {}
  BY DEF Init
<1>2. NoFeed \in FeedRows /\ NoFeed.secret = 0
  BY Parameters DEF NoFeed, FeedRows
<1>3. /\ registry \in [Source -> Health] /\ sourceRow = registry
      /\ \A s \in Source : registry[s].lastRecordAt = 0
            /\ registry[s].state \in {"unregistered", "awaiting"}
  BY AtBoot DEF Init
<1>4. SourcesTypeOK /\ issued \in 0..MaxSecret
  <2>1. sender \in [token : 0..MaxSecret, next : 1..Len(Bodies) + 1]
    BY Parameters DEF Init
  <2>2. /\ watermark \in 0..MaxTime /\ now \in 1..MaxTime /\ faults \in 0..MaxFaults
        /\ consumed \in 0..Len(stream) /\ issued \in 0..MaxSecret
    BY <1>1, Parameters DEF Init
  <2>3. /\ feed \in FeedRows /\ byID \in FeedRows /\ loaded \in BOOLEAN
        /\ rules \in RuleSets \union {{}} /\ sets \in RuleSets \union {{}}
    BY <1>2 DEF Init
  <2>. QED
    BY <1>1, <1>3, <2>1, <2>2, <2>3 DEF SourcesTypeOK
<1>5. StreamInv
  BY <1>1 DEF StreamInv, ToSet
<1>6. CacheInv
  BY <1>2 DEF Init, CacheInv
<1>7. KeptInv
  BY <1>1 DEF KeptInv
<1>8. HealthInv
  BY <1>1, <1>3 DEF Init, HealthInv
<1>9. PullInv
  <2>1. \A t \in Exported : ~(t < 0)
    BY Parameters
  <2>. QED
    BY <1>1, <2>1 DEF Init, PullInv
<1>. QED
  BY <1>4, <1>5, <1>6, <1>7, <1>8, <1>9 DEF SourcesInv

LEMMA Step == SourcesInv /\ [Next]_vars => SourcesInv'
<1>. SUFFICES ASSUME SourcesInv, [Next]_vars PROVE SourcesInv'
  OBVIOUS
<1>1. CacheInv'
  BY CacheStep DEF SourcesInv
<1>. QED
  BY <1>1, TypeStep, StreamStep, KeptStep, HealthStep, PullStep DEF SourcesInv

LEMMA Inductive == Spec => []SourcesInv
BY Start, Step, PTL DEF Spec

\* Type correctness, with the number of records in a message and the registry's
\* "awaiting" until a first delivery.
THEOREM SourcesTypeOKAlways == Spec => []SourcesTypeOK
<1>1. SourcesInv => SourcesTypeOK
  BY DEF SourcesInv
<1>. QED
  BY <1>1, Inductive, PTL

\* FR-005, FR-006: a record of a body that was answered with 200 is in the stream,
\* was handed to the pipeline or matches a saved filter; and a body with a line
\* that cannot be read is not answered with 200 by the Logpush receiver.
THEOREM AnsweredIsKeptAlways == Spec => []AnsweredIsKept
<1>1. SourcesInv => AnsweredIsKept
  <2>. SUFFICES ASSUME SourcesInv, NEW a \in answered
                PROVE  LET read == Scanned(Bodies[a.body].lines)
                       IN  /\ a.provider = "cloudflare" => read = Bodies[a.body].lines
                           /\ \A r \in ToSet(Records(read)) :
                                 InStream(r) \/ r \in ingested \/ Drops(everRules, r)
    BY DEF AnsweredIsKept
  <2>. DEFINE b == a.body
              read == Scanned(Bodies[b].lines)
              records == Receive(a.provider, Bodies[b]).records
              chunks == PushChunks(b)
  <2>1. /\ a.provider = feed.provider /\ b \in DOMAIN Bodies
        /\ Receive(a.provider, Bodies[b]).status = 200
        /\ \A c \in DOMAIN chunks : \E i \in DOMAIN stream : stream[i].records = chunks[c]
    BY DEF SourcesInv, KeptInv
  <2>2. /\ records \in Seq(ToSet(records)) /\ records = Records(read)
        /\ a.provider = "cloudflare" => read = Bodies[b].lines
    BY <2>1, Accepted
  <2>3. \A k \in DOMAIN records : \E c \in DOMAIN chunks : records[k] \in ToSet(chunks[c])
    <3>1. chunks = SplitBatch(records, ChunkLimit)
      BY <2>1 DEF PushChunks
    <3>. HIDE DEF records, chunks
    <3>. QED
      BY <3>1, <2>2, Parameters, Split
  <2>. HIDE DEF records, chunks, read, b
  <2>4. ASSUME NEW r \in ToSet(records)
        PROVE  InStream(r) \/ r \in ingested \/ Drops(everRules, r)
    <3>1. PICK k \in DOMAIN records : r = records[k]
      BY DEF ToSet
    <3>2. PICK c \in DOMAIN chunks : r \in ToSet(chunks[c])
      BY <2>3, <3>1
    <3>3. PICK i \in DOMAIN stream : stream[i].records = chunks[c]
      BY <2>1
    <3>4. i \in 1..Len(stream) /\ consumed \in 0..Len(stream) /\ Len(stream) \in Nat
      BY DEF SourcesInv, SourcesTypeOK, StreamInv
    <3>5. CASE i <= consumed
      <4>1. i \in 1..consumed
        BY <3>4, <3>5
      <4>. QED
        BY <4>1, <3>2, <3>3 DEF SourcesInv, KeptInv
    <3>6. CASE ~(i <= consumed)
      <4>1. i \in consumed + 1..Len(stream)
        BY <3>4, <3>6
      <4>. QED
        BY <4>1, <3>2, <3>3 DEF InStream
    <3>. QED
      BY <3>5, <3>6
  <2>. QED
    BY <2>2, <2>4 DEF b, read
<1>. QED
  BY <1>1, Inductive, PTL

\* datadome.go: the watermark never passes a record that is not buffered.
THEOREM WatermarkBehindBufferAlways == Spec => []WatermarkBehindBuffer
<1>1. SourcesInv => WatermarkBehindBuffer
  <2>. SUFFICES ASSUME SourcesInv, NEW t \in Exported, pulledFrom <= t, t < watermark
                PROVE  \E r \in ingested \union
                              UNION {ToSet(stream[i].records) : i \in DOMAIN stream} :
                           r.record = t
    BY DEF WatermarkBehindBuffer
  <2>1. Buffered(t)
    BY DEF SourcesInv, PullInv
  <2>2. PICK i \in DOMAIN stream :
            \E k \in DOMAIN stream[i].records : stream[i].records[k].record = t
    BY <2>1 DEF Buffered
  <2>3. \E r \in ToSet(stream[i].records) : r.record = t
    BY <2>2 DEF ToSet
  <2>. QED
    BY <2>3
<1>. QED
  BY <1>1, Inductive, PTL

\* FR-070: a round of the silence loop leaves no source healthy that has not
\* delivered within its cadence, however late its batches are consumed.
THEOREM SilenceIsSeenAlways == Spec => SilenceIsSeen
<1>1. SourcesInv /\ SilenceLoop =>
         \A s \in Source : registry'[s].state = "healthy" => now - arrivedAt[s] <= Cadence
  <2>. SUFFICES ASSUME SourcesInv, SilenceLoop, NEW s \in Source,
                       registry'[s].state = "healthy"
                PROVE  now - arrivedAt[s] <= Cadence
    OBVIOUS
  <2>1. HealthRows /\ registry' = EvaluateSilence(registry)
    BY DEF SourcesInv, SourcesTypeOK, HealthRows, SilenceLoop
  <2>2. ~(now - registry[s].lastRecordAt > Cadence)
    BY <2>1, Evaluated
  <2>3. /\ now \in Int /\ Cadence \in Int
        /\ registry[s].lastRecordAt \in Int /\ arrivedAt[s] \in Int
        /\ registry[s].lastRecordAt <= arrivedAt[s]
    BY Parameters DEF SourcesInv, SourcesTypeOK, HealthInv, Health
  <2>. QED
    BY <2>2, <2>3
<1>2. SourcesInv /\ [Next]_vars =>
         [SilenceLoop =>
             \A s \in Source :
                registry'[s].state = "healthy" => now - arrivedAt[s] <= Cadence]_vars
  BY <1>1
<1>. QED
  BY <1>2, Inductive, PTL DEF Spec, SilenceIsSeen
=============================================================================

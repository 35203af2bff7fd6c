------------------------- MODULE Downloader_proofs --------------------------
(***************************************************************************)
(* Proofs about the concurrent download, for every number of workers, size *)
(* of part, length of range, limit of connections and number of retries.   *)
(*                                                                         *)
(* A chunk is followed by its number: where its bytes begin in the range   *)
(* (StartOf), how many of them were copied (Cut), and which buffer is its  *)
(* own while the reader still needs it (Buffers).  Nothing in the channel  *)
(* or with a worker is there twice (Once), and the chunks between the one  *)
(* being read and the next to be cut never outnumber the workers that were *)
(* started, nor the buffers (Counts): that is why buffers that go round    *)
(* are never written under the reader's hands.                             *)
(***************************************************************************)
EXTENDS Downloader, FiniteSetTheorems, SequenceTheorems, TLAPS

USE DownloaderAssumption

\* The arithmetic of the range: how many parts one of length l has, where part id
\* begins, and how long it is, when there are at least two.
Odd(l) == l % PartSize
Half == PartSize \div 2
PartsOf(l) == (l \div PartSize) + (IF Odd(l) > 0 THEN 1 ELSE 0)

SizeOf(l, id) ==
    IF id = 0 /\ Odd(l) > 0 THEN Most(Odd(l), Half)
    ELSE IF id = 1 /\ Odd(l) > 0 /\ Odd(l) < Half THEN PartSize + Odd(l) - Half
    ELSE PartSize

StartOf(l, id) ==
    IF Odd(l) = 0 THEN id * PartSize
    ELSE IF id = 0 THEN 0
    ELSE IF id = 1 THEN Most(Odd(l), Half)
    ELSE Odd(l) + (id - 1) * PartSize

-----------------------------------------------------------------------------

Early == {"start", "refused", "panicked", "single", "sending"}

\* The first chunk whose buffer the reader still needs
Low == IF reader.pc \in {"next", "waits"} THEN reader.rPos + 1 ELSE reader.rPos

Started == {w \in Worker : worker[w].pc # "none"}

\* A worker with a chunk in hand
Has(s) == s.pc \notin {"none", "ended", "idle", "gaveUp"}

\* What holds of a chunk, n bytes of which were copied since it was asked for
Cut(l, e, lo, ch, n) ==
    /\ ch.id < e.nextChunk
    /\ StartOf(l, ch.id) <= ch.start
    /\ ch.start + ch.size = StartOf(l, ch.id + 1)
    /\ e.bufs # <<>> => ch.buf = BufOf(ch.id, e.bufs)
    /\ n <= ch.size
    /\ ch.id < lo => n = ch.size
    /\ ~e.done /\ ch.id >= lo =>
          Len(e.bufs[ch.buf].data) = (ch.start - StartOf(l, ch.id)) + n

\* What holds of the buffer b of chunk id; rd is the chunk the reader reads.
Filled(l, id, b, rd) ==
    /\ b.size = SizeOf(l, id)
    /\ Len(b.data) <= b.size
    /\ \A i \in 1..Len(b.data) : b.data[i] = StartOf(l, id) + i - 1
    /\ b.off <= Len(b.data)
    /\ id # rd => b.off = 0

\* Nobody is to fetch chunk id any more.
Fetched(id) ==
    /\ \A i \in 1..Len(d.chunks) : d.chunks[i].id # id
    /\ \A w \in Worker : Has(worker[w]) => worker[w].chunk.id # id

Phases ==
    /\ d.closed => reader.pc \in {"dropping", "closed"}
    /\ reader.pc \in {"closing", "dropping", "closed"} => d.done
    /\ d.err /\ ~d.done => reader.pc = "cancelling"
    /\ reader.pc \in Early =>
          /\ d.nextChunk = 0 /\ d.bufs = <<>> /\ d.chunks = <<>> /\ ~d.err
          /\ reader.rPos = 0 /\ reader.buf = 1 /\ delivered = <<>> /\ Started = {}
          /\ d.concurrency = IF reader.pc = "sending" THEN Workers ELSE 0
    /\ reader.pc = "sending" => Workers >= 2
    /\ reader.pc \notin Early \cup {"closed"} => d.bufs # <<>>

Counts ==
    /\ Cardinality(Started) + Most(d.concurrency, 0) <= Workers
    /\ reader.pc # "closed" => Cardinality(Started) <= Len(d.bufs)
    /\ d.concurrency > 0 => d.nextChunk <= Len(d.bufs)
    /\ d.concurrency > 0 /\ d.pos < length => d.nextChunk = Len(d.bufs)
    /\ Low <= d.nextChunk
    /\ d.nextChunk <= Low + Cardinality(Started)

Cuts ==
    /\ d.nextChunk > 0 \/ d.concurrency > 0 => PartsOf(length) >= 2
    /\ d.nextChunk <= PartsOf(length)
    /\ d.pos = StartOf(length, d.nextChunk)
    /\ \A i \in 1..Len(d.chunks) : Cut(length, d, Low, d.chunks[i], 0)
    /\ \A w \in Worker : Has(worker[w]) =>
          Cut(length, d, Low, worker[w].chunk, worker[w].n)
    /\ \A w \in Worker : worker[w].n > 0 => worker[w].pc = "copying"

Once ==
    /\ \A i, j \in 1..Len(d.chunks) : d.chunks[i].id = d.chunks[j].id => i = j
    /\ \A v, w \in Worker : Has(worker[v]) /\ Has(worker[w])
          /\ worker[v].chunk.id = worker[w].chunk.id => v = w
    /\ \A i \in 1..Len(d.chunks) : \A w \in Worker :
          Has(worker[w]) => d.chunks[i].id # worker[w].chunk.id

Buffers ==
    ~d.done =>
        \A id \in Low..(d.nextChunk - 1) :
            LET b == d.bufs[BufOf(id, d.bufs)]
            IN  /\ Filled(length, id, b, reader.rPos)
                /\ ~d.err /\ Fetched(id) => Len(b.data) = b.size

Reading ==
    /\ reader.pc \in {"reading", "next", "waits"} => Low < d.nextChunk
    /\ reader.pc = "reading" /\ ~d.done =>
          /\ reader.buf = BufOf(reader.rPos, d.bufs)
          /\ delivered = [i \in 1..(StartOf(length, reader.rPos) + Buffer.off) |-> i - 1]
    /\ reader.pc \in {"next", "waits"} =>
          delivered = [i \in 1..StartOf(length, reader.rPos + 1) |-> i - 1]

Core == Phases /\ Counts /\ Cuts /\ Once /\ Buffers /\ Reading

IInv ==
    /\ TypeOK
    /\ ConnectionsCounted
    /\ ChunksCoverRange
    /\ SendFindsRoom
    /\ ~crashed => Core

-----------------------------------------------------------------------------
(* Arithmetic                                                                *)

\* Division with rest
LEMMA DivMod ==
    ASSUME NEW n \in Nat \ {0}, NEW i \in Nat
    PROVE  i = n * (i \div n) + (i % n)
OBVIOUS

\* Two numbers that differ by less than n have different rests.
LEMMA ModApart ==
    ASSUME NEW n \in Nat \ {0}, NEW i \in Nat, NEW j \in Nat, i < j, j < i + n
    PROVE  i % n # j % n
<1> DEFINE a == i \div n
           b == j \div n
<1>1. a \in Nat /\ b \in Nat OBVIOUS
<1>2. i % n \in Nat /\ j % n \in Nat OBVIOUS
<1>3. i = n * a + (i % n) /\ j = n * b + (j % n) BY DivMod
<1> SUFFICES ASSUME i % n = j % n PROVE FALSE OBVIOUS
<1> HIDE DEF a, b
<1>4. CASE b <= a
  <2>1. n * b <= n * a BY <1>1, <1>4
  <2>2. n * a \in Nat /\ n * b \in Nat BY <1>1
  <2> QED BY <1>2, <1>3, <2>1, <2>2
<1>5. CASE a + 1 <= b
  <2>1. n * (a + 1) <= n * b BY <1>1, <1>5
  <2>2. n * (a + 1) = n * a + n BY <1>1
  <2>3. n * a \in Nat /\ n * b \in Nat BY <1>1
  <2> QED BY <1>2, <1>3, <2>1, <2>2, <2>3
<1> QED BY <1>1, <1>4, <1>5

\* The parts follow one another without a gap, none is empty, and the last of at
\* least two ends where the range ends.
LEMMA Parts ==
    ASSUME NEW l \in Nat
    PROVE  /\ PartsOf(l) \in Nat
           /\ StartOf(l, 0) = 0
           /\ \A id \in Nat :
                 /\ StartOf(l, id) \in Nat /\ SizeOf(l, id) \in Nat \ {0}
                 /\ StartOf(l, id + 1) = StartOf(l, id) + SizeOf(l, id)
           /\ PartsOf(l) >= 2 =>
                 /\ StartOf(l, PartsOf(l)) = l
                 /\ \A id \in Nat : id < PartsOf(l) => StartOf(l, id + 1) <= l
<1> DEFINE q == l \div PartSize
           r == Odd(l)
           h == Half
<1>1. PartSize \in Nat \ {0} OBVIOUS
<1>2. q \in Nat /\ r \in Nat /\ r < PartSize /\ l = PartSize * q + r
  BY <1>1 DEF Odd
<1>3. h \in Nat /\ h <= PartSize BY <1>1 DEF Half
<1>4. PartsOf(l) = q + (IF r > 0 THEN 1 ELSE 0) BY DEF PartsOf
<1> HIDE DEF q, r, h
<1>5. /\ \A id \in Nat : SizeOf(l, id) =
            IF id = 0 /\ r > 0 THEN Most(r, h)
            ELSE IF id = 1 /\ r > 0 /\ r < h THEN PartSize + r - h ELSE PartSize
      /\ \A id \in Nat : StartOf(l, id) =
            IF r = 0 THEN id * PartSize ELSE IF id = 0 THEN 0
            ELSE IF id = 1 THEN Most(r, h) ELSE r + (id - 1) * PartSize
  BY DEF SizeOf, StartOf, q, r, h
<1>6. PartsOf(l) \in Nat BY <1>2, <1>4
<1>7. StartOf(l, 0) = 0 BY <1>1, <1>5
<1>8. ASSUME NEW id \in Nat
      PROVE  /\ StartOf(l, id) \in Nat /\ SizeOf(l, id) \in Nat \ {0}
             /\ StartOf(l, id + 1) = StartOf(l, id) + SizeOf(l, id)
  <2>1. CASE r = 0
    <3>1. id * PartSize \in Nat /\ (id + 1) * PartSize = id * PartSize + PartSize
      BY <1>1
    <3> QED BY <1>1, <1>5, <2>1, <3>1
  <2>2. CASE r # 0 /\ id = 0
    BY <1>1, <1>2, <1>3, <1>5, <2>2 DEF Most
  <2>3. CASE r # 0 /\ id = 1
    BY <1>1, <1>2, <1>3, <1>5, <2>3 DEF Most
  <2>4. CASE r # 0 /\ id >= 2
    <3>1. /\ (id - 1) * PartSize \in Nat
          /\ ((id + 1) - 1) * PartSize = (id - 1) * PartSize + PartSize
      BY <1>1, <2>4
    <3> QED BY <1>1, <1>2, <1>5, <2>4, <3>1
  <2> QED BY <2>1, <2>2, <2>3, <2>4
<1>9. ASSUME PartsOf(l) >= 2
      PROVE  /\ StartOf(l, PartsOf(l)) = l
             /\ \A id \in Nat : id < PartsOf(l) => StartOf(l, id + 1) <= l
  <2>1. CASE r = 0
    <3>1. PartsOf(l) = q /\ l = q * PartSize BY <1>1, <1>2, <1>4, <2>1
    <3>2. \A id \in Nat : id < q => (id + 1) * PartSize <= q * PartSize
      BY <1>1, <1>2
    <3> QED BY <1>1, <1>2, <1>5, <2>1, <3>1, <3>2
  <2>2. CASE r # 0
    <3>1. /\ PartsOf(l) = q + 1 /\ q >= 1 /\ l = q * PartSize + r
          /\ q * PartSize \in Nat /\ PartSize <= q * PartSize
      BY <1>1, <1>2, <1>4, <1>9, <2>2
    <3>2. \A id \in Nat : id < q + 1 => id * PartSize <= q * PartSize
      BY <1>1, <1>2
    <3>3. StartOf(l, PartsOf(l)) = l BY <1>1, <1>2, <1>5, <2>2, <3>1
    <3>4. ASSUME NEW id \in Nat, id < q + 1 PROVE StartOf(l, id + 1) <= l
      <4>1. CASE id = 0
        <5>1. StartOf(l, 1) = Most(r, h) BY <1>5, <2>2
        <5> QED BY <1>1, <1>2, <1>3, <2>2, <3>1, <4>1, <5>1 DEF Most
      <4>2. CASE id # 0
        <5>1. StartOf(l, id + 1) = r + id * PartSize BY <1>1, <1>5, <2>2, <4>2
        <5> QED BY <1>1, <1>2, <3>1, <3>2, <3>4, <5>1
      <4> QED BY <4>1, <4>2
    <3> QED BY <3>1, <3>3, <3>4
  <2> QED BY <1>2, <2>1, <2>2
<1> QED BY <1>6, <1>7, <1>8, <1>9

\* The same, in the words of the model
LEMMA Sizes ==
    ASSUME length \in Nat
    PROVE  /\ MaxPart = PartsOf(length)
           /\ \A id \in Nat : ChunkSize(id) = SizeOf(length, id)
           /\ Workers \in Nat /\ Workers <= Concurrency /\ Workers <= MaxPart
           /\ ChannelSize = Workers
<1>1. MaxPart = PartsOf(length) BY DEF MaxPart, PartsOf, Odd
<1>2. MaxPart \in Nat BY <1>1, Parts
<1>3. \A id \in Nat : ChunkSize(id) = SizeOf(length, id)
  BY DEF ChunkSize, SizeOf, Odd, Half
<1>4. Workers \in Nat /\ Workers <= Concurrency /\ Workers <= MaxPart
  BY <1>2 DEF Workers, Least
<1> QED BY <1>1, <1>3, <1>4 DEF ChannelSize

-----------------------------------------------------------------------------
(* Types and places                                                          *)

Buf == [size : Nat, data : Seq(Nat), off : Nat]

Tracks == [nextChunk : Nat, pos : Nat, concurrency : Int, bufs : Seq(Buf),
           chunks : Seq(Chunk), closed : BOOLEAN, written : Nat, err : BOOLEAN,
           done : BOOLEAN]

Hand == [pc : WorkerPc, chunk : Chunk, retry : 0..PartBodyMaxRetries, n : Nat]

\* The types of the parts of the state
LEMMA Typed ==
    ASSUME TypeOK
    PROVE  /\ length \in Nat /\ limit \in Nat /\ limit <= Limit /\ Limit \in Nat
           /\ others \in Nat /\ d \in Tracks /\ worker \in [Worker -> Hand]
           /\ d.nextChunk \in Nat /\ d.pos \in Nat /\ d.concurrency \in Int
           /\ d.bufs \in Seq(Buf) /\ Len(d.bufs) \in Nat
           /\ d.chunks \in Seq(Chunk) /\ Len(d.chunks) \in Nat
           /\ \A i \in 1..Len(d.chunks) : d.chunks[i] \in Chunk /\ d.chunks[i].id \in Nat
           /\ \A i \in 1..Len(d.bufs) : d.bufs[i] \in Buf
           /\ d.closed \in BOOLEAN /\ d.err \in BOOLEAN /\ d.done \in BOOLEAN
           /\ d.written \in Nat /\ crashed \in BOOLEAN
           /\ reader \in [pc : ReaderPc, rPos : Nat, buf : Nat \ {0}]
           /\ reader.pc \in ReaderPc /\ reader.rPos \in Nat /\ reader.buf \in Nat
           /\ Low \in Nat /\ delivered \in Seq(Nat)
<1>1. /\ d \in Tracks /\ worker \in [Worker -> Hand] /\ length \in Nat /\ Limit \in Nat
      /\ limit \in Nat /\ limit <= Limit /\ others \in Nat
      /\ reader \in [pc : ReaderPc, rPos : Nat, buf : Nat \ {0}]
      /\ crashed \in BOOLEAN /\ delivered \in Seq(Nat)
  BY DEF TypeOK, Tracks, Hand, Buf
<1>2. /\ d.nextChunk \in Nat /\ d.pos \in Nat /\ d.concurrency \in Int
      /\ d.bufs \in Seq(Buf) /\ d.chunks \in Seq(Chunk) /\ d.written \in Nat
      /\ d.closed \in BOOLEAN /\ d.err \in BOOLEAN /\ d.done \in BOOLEAN
  BY <1>1 DEF Tracks
<1>3. reader.pc \in ReaderPc /\ reader.rPos \in Nat /\ reader.buf \in Nat
  BY <1>1
<1>4. \A i \in 1..Len(d.chunks) : d.chunks[i] \in Chunk /\ d.chunks[i].id \in Nat
  <2>1. \A i \in 1..Len(d.chunks) : d.chunks[i] \in Chunk BY <1>2
  <2>2. \A ch \in Chunk : ch.id \in Nat BY DEF Chunk
  <2> QED BY <2>1, <2>2
<1>5. \A i \in 1..Len(d.bufs) : d.bufs[i] \in Buf BY <1>2
<1>6. Low \in Nat BY <1>3 DEF Low
<1>7. Len(d.bufs) \in Nat /\ Len(d.chunks) \in Nat BY <1>2
<1> QED BY <1>1, <1>2, <1>3, <1>4, <1>5, <1>6, <1>7

\* No worker, and one that waits for a chunk or is no more
LEMMA NoHand ==
    /\ NoWorker \in Hand /\ NoWorker.n = 0 /\ NoWorker.pc = "none"
    /\ \A pc \in WorkerPc : LET s == [NoWorker EXCEPT !.pc = pc] IN
          s \in Hand /\ s.pc = pc /\ s.n = 0
<1>1. PartBodyMaxRetries \in Nat OBVIOUS
<1>2. 0 \in 0..PartBodyMaxRetries BY <1>1
<1>3. NoChunk \in Chunk BY DEF NoChunk, Chunk
<1>4. NoWorker \in Hand BY <1>2, <1>3 DEF NoWorker, Hand, WorkerPc
<1>5. NoWorker.n = 0 /\ NoWorker.pc = "none" BY DEF NoWorker
<1> QED BY <1>4, <1>5 DEF Hand

\* The fields of a worker and of a chunk
LEMMA HandTyped ==
    ASSUME NEW s \in Hand
    PROVE  /\ s.pc \in WorkerPc /\ s.chunk \in Chunk /\ s.n \in Nat
           /\ s.retry \in 0..PartBodyMaxRetries
           /\ s.chunk.id \in Nat /\ s.chunk.start \in Nat /\ s.chunk.size \in Nat
           /\ s.chunk.buf \in Nat
BY DEF Hand, Chunk

\* The buffers go round: numbers less than their count apart have different
\* buffers, and while there are more buffers than chunks each has its own.
LEMMA Places ==
    ASSUME NEW bufs \in Seq(Buf), bufs # <<>>
    PROVE  /\ \A id \in Nat : BufOf(id, bufs) \in 1..Len(bufs)
           /\ \A i, j \in Nat : i < j /\ j < i + Len(bufs) =>
                 BufOf(i, bufs) # BufOf(j, bufs)
           /\ \A id \in Nat : id < Len(bufs) => BufOf(id, bufs) = id + 1
<1> DEFINE n == Len(bufs)
<1>1. n \in Nat \ {0} OBVIOUS
<1> HIDE DEF n
<1>2. \A id \in Nat : BufOf(id, bufs) = (id % n) + 1 BY DEF BufOf, n
<1>3. \A id \in Nat : id < n => id % n = id BY <1>1
<1>4. \A i, j \in Nat : i < j /\ j < i + n => BufOf(i, bufs) # BufOf(j, bufs)
  <2> SUFFICES ASSUME NEW i \in Nat, NEW j \in Nat, i < j, j < i + n
               PROVE  BufOf(i, bufs) # BufOf(j, bufs)
    OBVIOUS
  <2>1. i % n # j % n BY <1>1, ModApart
  <2>2. i % n \in Nat /\ j % n \in Nat BY <1>1
  <2> QED BY <1>2, <2>1, <2>2
<1>5. \A id \in Nat : BufOf(id, bufs) \in 1..n
  <2> SUFFICES ASSUME NEW id \in Nat PROVE BufOf(id, bufs) \in 1..n OBVIOUS
  <2>1. id % n \in Int /\ 0 <= id % n /\ id % n < n BY <1>1
  <2>2. BufOf(id, bufs) = (id % n) + 1 BY <1>2
  <2> QED BY <1>1, <2>1, <2>2
<1> QED BY <1>2, <1>3, <1>4, <1>5 DEF n

\* As many numbers as one counts
LEMMA Counted ==
    ASSUME NEW n \in Nat
    PROVE  IsFiniteSet(1..n) /\ Cardinality(1..n) = n
<1>1. 1 \in Int /\ n \in Int OBVIOUS
<1>2. IsFiniteSet(1..n) /\ Cardinality(1..n) = IF 1 > n THEN 0 ELSE n - 1 + 1
  BY <1>1, FS_Interval
<1> QED BY <1>2

\* The workers are finitely many.
LEMMA Workforce ==
    /\ IsFiniteSet(Worker) /\ Cardinality(Worker) = Concurrency
    /\ \A S \in SUBSET Worker : IsFiniteSet(S) /\ Cardinality(S) \in Nat
          /\ Cardinality(S) <= Concurrency
<1>1. Concurrency \in Nat OBVIOUS
<1>2. IsFiniteSet(Worker) /\ Cardinality(Worker) = Concurrency
  BY <1>1, Counted DEF Worker
<1> QED BY <1>2, FS_Subset, FS_CardinalityType

\* What the bytes of the range are cut into, and room in the channel, follow.
LEMMA CoreSays ==
    ASSUME TypeOK, Core
    PROVE  ChunksCoverRange /\ SendFindsRoom
<1>1. /\ length \in Nat /\ d.nextChunk \in Nat /\ d.pos \in Nat /\ Low \in Nat
      /\ d.chunks \in Seq(Chunk) /\ reader.rPos \in Nat
      /\ \A i \in 1..Len(d.chunks) : d.chunks[i].id \in Nat
      /\ d.concurrency \in Int /\ Len(d.chunks) \in Nat
      /\ \A i \in 1..Len(d.chunks) : d.chunks[i] \in Chunk
  BY Typed
<1>2. ChunksCoverRange
  <2>1. /\ d.nextChunk > 0 => PartsOf(length) >= 2
        /\ d.nextChunk <= PartsOf(length)
        /\ d.pos = StartOf(length, d.nextChunk)
    BY DEF Core, Cuts
  <2>2. reader.pc \in {"reading", "next", "waits"} => d.nextChunk > 0
    BY <1>1 DEF Core, Reading
  <2>3. PartsOf(length) \in Nat /\ MaxPart = PartsOf(length) BY <1>1, Sizes, Parts
  <2>4. CASE d.nextChunk = 0
    <3>1. d.pos = 0 BY <1>1, <2>1, <2>4, Parts
    <3> QED BY <1>1, <2>2, <2>4, <3>1 DEF ChunksCoverRange
  <2>5. CASE d.nextChunk = PartsOf(length) /\ d.nextChunk # 0
    <3>1. d.pos = length BY <1>1, <2>1, <2>5, Parts
    <3> QED BY <1>1, <2>3, <2>5, <3>1 DEF ChunksCoverRange
  <2>6. CASE d.nextChunk < PartsOf(length) /\ d.nextChunk # 0
    <3>1. StartOf(length, d.nextChunk + 1) <= length
      <4>1. PartsOf(length) >= 2 BY <1>1, <2>1, <2>6
      <4> QED BY <1>1, <2>6, <4>1, Parts
    <3>2. /\ StartOf(length, d.nextChunk + 1) = d.pos + SizeOf(length, d.nextChunk)
          /\ SizeOf(length, d.nextChunk) \in Nat \ {0}
      <4>1. /\ StartOf(length, d.nextChunk + 1) =
                  StartOf(length, d.nextChunk) + SizeOf(length, d.nextChunk)
            /\ SizeOf(length, d.nextChunk) \in Nat \ {0}
        BY <1>1, Parts
      <4> QED BY <2>1, <4>1
    <3>3. d.pos < length BY <1>1, <3>1, <3>2
    <3> QED BY <1>1, <2>3, <2>6, <3>3 DEF ChunksCoverRange
  <2> QED BY <1>1, <2>1, <2>3, <2>4, <2>5, <2>6
<1>3. ASSUME \A i \in 1..Len(d.chunks) : d.chunks[i].size # 0
      PROVE  Len(d.chunks) <= ChannelSize
  <2> DEFINE S == 1..Len(d.chunks)
             T == Low..(d.nextChunk - 1)
             f == [i \in S |-> d.chunks[i].id]
             k == Cardinality(Started)
  <2>1. k \in Nat /\ Workers \in Nat /\ ChannelSize = Workers
    BY <1>1, Workforce, Sizes DEF Started
  <2> HIDE DEF k
  <2>2. d.nextChunk <= Low + k /\ k + Most(d.concurrency, 0) <= Workers
    BY DEF Core, Counts, k
  <2>3. k <= Workers BY <1>1, <2>1, <2>2 DEF Most
  <2>4. \A i \in S : d.chunks[i].id < d.nextChunk /\ ~(d.chunks[i].id < Low)
    BY <1>3 DEF Core, Cuts, Cut
  <2>5. \A i \in S : f[i] \in T
    <3> SUFFICES ASSUME NEW i \in S PROVE f[i] \in T OBVIOUS
    <3>1. f[i] = d.chunks[i].id /\ d.chunks[i].id \in Nat BY <1>1
    <3>2. d.chunks[i].id < d.nextChunk /\ ~(d.chunks[i].id < Low) BY <2>4
    <3>3. Low \in Nat /\ d.nextChunk \in Nat BY <1>1
    <3> HIDE DEF S, f
    <3> QED BY <3>1, <3>2, <3>3
  <2>6. f \in [S -> T] /\ \A i, j \in S : f[i] = f[j] => i = j
    BY <2>5 DEF Core, Once
  <2>7. IsFiniteSet(T) /\ Cardinality(T) <= k
    <3>1. Low \in Int /\ d.nextChunk - 1 \in Int BY <1>1
    <3>2. /\ IsFiniteSet(T)
          /\ Cardinality(T) = IF Low > d.nextChunk - 1 THEN 0
                              ELSE (d.nextChunk - 1) - Low + 1
      BY <3>1, FS_Interval
    <3> HIDE DEF T
    <3> QED BY <1>1, <2>1, <2>2, <3>2
  <2>8. IsFiniteSet(S) /\ Cardinality(S) = Len(d.chunks) BY <1>1, Counted
  <2> HIDE DEF S, T, f
  <2>9. ~(Cardinality(T) < Cardinality(S)) BY <2>6, <2>7, <2>8, FS_PigeonHole
  <2>10. Cardinality(T) \in Nat BY <2>7, FS_CardinalityType
  <2> QED BY <1>1, <2>1, <2>3, <2>7, <2>8, <2>9, <2>10
<1> QED BY <1>2, <1>3 DEF SendFindsRoom, Free

-----------------------------------------------------------------------------
(* Steps that leave the channel and the buffers alone                        *)

\* From e to f nothing was cut, sent or received: only the flags rise.
Still(e, f) ==
    /\ f.nextChunk = e.nextChunk /\ f.pos = e.pos /\ f.concurrency = e.concurrency
    /\ f.bufs = e.bufs /\ f.chunks = e.chunks
    /\ e.done => f.done

\* From r to s a worker keeps its chunk and what it copied of it.
Continues(r, s) ==
    /\ s.chunk.id = r.chunk.id /\ s.chunk.buf = r.chunk.buf
    /\ r.chunk.start <= s.chunk.start
    /\ s.chunk.start + s.n = r.chunk.start + r.n
    /\ s.chunk.start + s.chunk.size = r.chunk.start + r.chunk.size

\* A chunk stays well cut.
LEMMA CutStill ==
    ASSUME NEW l, NEW e, NEW f, NEW lo, NEW ch, NEW n, Still(e, f), Cut(l, e, lo, ch, n)
    PROVE  Cut(l, f, lo, ch, n)
BY DEF Still, Cut

\* Its next attempt too
LEMMA CutContinues ==
    ASSUME NEW l \in Nat, NEW e, NEW lo \in Nat, NEW r \in Hand, NEW s \in Hand,
           Cut(l, e, lo, r.chunk, r.n), Continues(r, s)
    PROVE  Cut(l, e, lo, s.chunk, s.n)
<1>1. /\ r.chunk.id \in Nat /\ r.chunk.start \in Nat /\ r.chunk.size \in Nat /\ r.n \in Nat
      /\ s.chunk.id \in Nat /\ s.chunk.start \in Nat /\ s.chunk.size \in Nat /\ s.n \in Nat
  BY HandTyped
<1> DEFINE st == StartOf(l, r.chunk.id)
<1>2. st \in Nat BY <1>1, Parts
<1>3. /\ s.chunk.id = r.chunk.id /\ s.chunk.buf = r.chunk.buf
      /\ r.chunk.start <= s.chunk.start
      /\ s.chunk.start + s.n = r.chunk.start + r.n
      /\ s.chunk.start + s.chunk.size = r.chunk.start + r.chunk.size
  BY DEF Continues
<1>4. /\ r.chunk.id < e.nextChunk
      /\ st <= r.chunk.start
      /\ r.chunk.start + r.chunk.size = StartOf(l, r.chunk.id + 1)
      /\ e.bufs # <<>> => r.chunk.buf = BufOf(r.chunk.id, e.bufs)
      /\ r.n <= r.chunk.size
      /\ r.chunk.id < lo => r.n = r.chunk.size
      /\ ~e.done /\ r.chunk.id >= lo =>
            Len(e.bufs[r.chunk.buf].data) = (r.chunk.start - st) + r.n
  BY DEF Cut
<1> HIDE DEF st
<1>5. st <= s.chunk.start /\ s.n <= s.chunk.size
  <2>1. st <= r.chunk.start /\ r.n <= r.chunk.size BY <1>4
  <2> QED BY <1>1, <1>2, <1>3, <2>1
<1>6. s.chunk.id < lo => s.n = s.chunk.size
  <2>1. r.chunk.id < lo => r.n = r.chunk.size BY <1>4
  <2> QED BY <1>1, <1>3, <2>1
<1>7. (s.chunk.start - st) + s.n = (r.chunk.start - st) + r.n BY <1>1, <1>2, <1>3
<1> QED BY <1>3, <1>4, <1>5, <1>6, <1>7 DEF Cut, st

\* A chunk that is copied to its end fills its buffer.
LEMMA CutEnds ==
    ASSUME NEW l \in Nat, NEW e, NEW lo \in Nat, NEW ch \in Chunk, Cut(l, e, lo, ch, ch.size),
           ~e.done, ch.id >= lo, e.bufs # <<>>
    PROVE  Len(e.bufs[BufOf(ch.id, e.bufs)].data) = SizeOf(l, ch.id)
<1>1. ch.id \in Nat /\ ch.start \in Nat /\ ch.size \in Nat BY DEF Chunk
<1>2. /\ StartOf(l, ch.id) \in Nat /\ SizeOf(l, ch.id) \in Nat
      /\ StartOf(l, ch.id + 1) = StartOf(l, ch.id) + SizeOf(l, ch.id)
  BY <1>1, Parts
<1>3. /\ ch.buf = BufOf(ch.id, e.bufs)
      /\ ch.start + ch.size = StartOf(l, ch.id + 1)
      /\ Len(e.bufs[ch.buf].data) = (ch.start - StartOf(l, ch.id)) + ch.size
  BY DEF Cut
<1>4. (ch.start - StartOf(l, ch.id)) + ch.size = SizeOf(l, ch.id)
  <2>1. ch.start + ch.size = StartOf(l, ch.id) + SizeOf(l, ch.id) BY <1>2, <1>3
  <2> DEFINE a == ch.start
             b == ch.size
             s == StartOf(l, ch.id)
             z == SizeOf(l, ch.id)
  <2>2. a \in Nat /\ b \in Nat /\ s \in Nat /\ z \in Nat /\ a + b = s + z
    BY <1>1, <1>2, <2>1
  <2> HIDE DEF a, b, s, z
  <2>3. (a - s) + b = z BY <2>2
  <2> QED BY <2>3 DEF a, b, s, z
<1> QED BY <1>3, <1>4

\* A worker goes on with its chunk, or drops it: when the download failed or
\* ended, or when all of it is copied.
LEMMA WorkerKeeps ==
    ASSUME TypeOK, Core, NEW w \in Worker, NEW s \in Hand,
           worker' = [worker EXCEPT ![w] = s], Still(d, d'), d'.closed = d.closed,
           d.err => d'.err, d'.err /\ ~d'.done => d.err /\ ~d.done,
           UNCHANGED <<length, reader, delivered>>,
           worker[w].pc # "none", s.pc # "none", s.n > 0 => s.pc = "copying",
           Has(s) => Has(worker[w]) /\ Continues(worker[w], s),
           Has(worker[w]) /\ ~Has(s) =>
              d'.err \/ d'.done \/ worker[w].n = worker[w].chunk.size
    PROVE  Core'
<1>1. Low' = Low /\ Low \in Nat /\ length \in Nat /\ worker \in [Worker -> Hand]
  BY Typed DEF Low
<1>2. /\ \A v \in Worker \ {w} : worker'[v] = worker[v]
      /\ worker'[w] = s
  BY <1>1
<1>3. Started' = Started /\ w \in Started BY <1>2 DEF Started
<1>4. Phases' BY <1>3 DEF Core, Phases, Still, Workers, MaxPart
<1>5. Counts' BY <1>1, <1>3 DEF Core, Counts, Still, Workers, MaxPart
<1>6. Cuts'
  <2>1. \A i \in 1..Len(d'.chunks) : Cut(length, d', Low, d'.chunks[i], 0)
    BY CutStill DEF Core, Cuts, Still
  <2>2. ASSUME NEW v \in Worker, Has(worker'[v])
        PROVE  Cut(length, d', Low, worker'[v].chunk, worker'[v].n)
    <3>1. CASE v = w
      <4>1. Cut(length, d, Low, worker[w].chunk, worker[w].n)
        BY <1>2, <2>2, <3>1 DEF Core, Cuts
      <4>2. Cut(length, d, Low, s.chunk, s.n)
        BY <1>1, <1>2, <2>2, <3>1, <4>1, CutContinues
      <4> QED BY <1>2, <3>1, <4>2, CutStill
    <3>2. CASE v # w
      <4>1. Cut(length, d, Low, worker[v].chunk, worker[v].n)
        BY <1>2, <2>2, <3>2 DEF Core, Cuts
      <4> QED BY <1>2, <3>2, <4>1, CutStill
    <3> QED BY <3>1, <3>2
  <2>3. \A v \in Worker : worker'[v].n > 0 => worker'[v].pc = "copying"
    BY <1>2 DEF Core, Cuts
  <2>4. /\ d'.nextChunk > 0 \/ d'.concurrency > 0 => PartsOf(length') >= 2
        /\ d'.nextChunk <= PartsOf(length')
        /\ d'.pos = StartOf(length', d'.nextChunk)
    BY DEF Core, Cuts, Still
  <2> QED BY <1>1, <2>1, <2>2, <2>3, <2>4 DEF Cuts
<1>7. \A v \in Worker : Has(worker'[v]) =>
         Has(worker[v]) /\ worker'[v].chunk.id = worker[v].chunk.id
  BY <1>2 DEF Continues
<1>8. Once' BY <1>7 DEF Core, Once, Still
<1>9. Buffers'
  <2> SUFFICES ASSUME ~d'.done, NEW id \in Low..(d.nextChunk - 1)
               PROVE  LET b == d.bufs[BufOf(id, d.bufs)]
                      IN  /\ Filled(length, id, b, reader.rPos)
                          /\ ~d'.err /\ Fetched(id)' => Len(b.data) = b.size
    BY <1>1 DEF Buffers, Still
  <2>1. LET b == d.bufs[BufOf(id, d.bufs)]
        IN  /\ Filled(length, id, b, reader.rPos)
            /\ ~d.err /\ Fetched(id) => Len(b.data) = b.size
    BY DEF Core, Buffers, Still
  <2>2. ASSUME ~d'.err, Fetched(id)', ~Fetched(id)
        PROVE  Len(d.bufs[BufOf(id, d.bufs)].data) = SizeOf(length, id)
    <3>1. Has(worker[w]) /\ ~Has(s) /\ worker[w].chunk.id = id
      BY <1>2, <2>2 DEF Fetched, Still, Continues
    <3>2. worker[w].n = worker[w].chunk.size BY <2>2, <3>1
    <3>3. Cut(length, d, Low, worker[w].chunk, worker[w].n)
      BY <3>1 DEF Core, Cuts
    <3>4. ~d.done /\ d.bufs # <<>>
      BY <1>3 DEF Still, Core, Phases
    <3>5. worker[w].chunk \in Chunk /\ id \in Nat /\ id >= Low
      BY <1>1, <3>1, HandTyped
    <3> DEFINE ch == worker[w].chunk
    <3>6. /\ length \in Nat /\ Low \in Nat /\ ch \in Chunk /\ ch.id = id
          /\ Cut(length, d, Low, ch, ch.size) /\ ch.id >= Low
      BY <1>1, <3>1, <3>2, <3>3, <3>5
    <3> HIDE DEF ch
    <3>7. Len(d.bufs[BufOf(ch.id, d.bufs)].data) = SizeOf(length, ch.id)
      BY <3>4, <3>6, CutEnds
    <3> QED BY <3>6, <3>7
  <2>3. d.bufs[BufOf(id, d.bufs)].size = SizeOf(length, id) BY <2>1 DEF Filled
  <2>4. ~d'.err => ~d.err OBVIOUS
  <2> QED BY <2>1, <2>2, <2>3, <2>4
<1>10. Reading' BY <1>1 DEF Core, Reading, Still, Buffer
<1> QED BY <1>4, <1>5, <1>6, <1>8, <1>9, <1>10 DEF Core

\* The reader, a download on its way, and a lost connection count for one.
Own == IF reader.pc \in {"sending", "single", "panicked"} THEN 1 ELSE 0

\* The workers that live are finitely many, and one more or less counts one.
LEMMA LiveCount ==
    /\ IsFiniteSet(Live) /\ Cardinality(Live) \in Nat
    /\ \A w \in Live : /\ Cardinality(Live \ {w}) = Cardinality(Live) - 1
                       /\ Cardinality(Live) > 0
    /\ \A w \in Worker \ Live : Cardinality(Live \cup {w}) = Cardinality(Live) + 1
<1>1. IsFiniteSet(Live) /\ Cardinality(Live) \in Nat BY Workforce DEF Live
<1>2. \A w \in Live : Cardinality(Live \ {w}) \in Nat
  BY <1>1, FS_RemoveElement, FS_CardinalityType
<1> QED BY <1>1, <1>2, FS_AddElement, FS_RemoveElement

\* The parts of the invariant that make up the whole
LEMMA Whole ==
    ASSUME TypeOK, ConnectionsCounted, Core
    PROVE  IInv
BY CoreSays DEF IInv

\* The same, of the next state
LEMMA WholeNext ==
    (TypeOK /\ ConnectionsCounted /\ Core)' => IInv'
<1>1. TypeOK /\ ConnectionsCounted /\ Core => IInv BY Whole
<1> QED BY <1>1, PTL

\* A step of one worker that stays alive
LEMMA WorkerInv ==
    ASSUME IInv, ~crashed, NEW w \in Worker, NEW s \in Hand,
           worker' = [worker EXCEPT ![w] = s], d' \in Tracks,
           Still(d, d'), d'.closed = d.closed,
           d.err => d'.err, d'.err /\ ~d'.done => d.err /\ ~d.done,
           UNCHANGED <<length, limit, others, reader, delivered, crashed>>,
           worker[w].pc \notin {"none", "ended"}, s.pc \notin {"none", "ended"},
           s.n > 0 => s.pc = "copying",
           Has(s) => Has(worker[w]) /\ Continues(worker[w], s),
           Has(worker[w]) /\ ~Has(s) =>
              d'.err \/ d'.done \/ worker[w].n = worker[w].chunk.size
    PROVE  IInv'
<1>1. TypeOK /\ Core /\ worker \in [Worker -> Hand] BY Typed DEF IInv
<1>2. worker' \in [Worker -> Hand] BY <1>1
<1>3. TypeOK' BY <1>1, <1>2 DEF TypeOK, Tracks, Hand, Buf
<1>4. Core' BY <1>1, WorkerKeeps
<1>5. Live' = Live BY <1>1 DEF Live
<1>6. ConnectionsCounted' BY <1>5 DEF IInv, ConnectionsCounted
<1> QED BY <1>3, <1>4, <1>6, WholeNext

\* The last step of a worker, who gives its connection back
LEMMA EndInv ==
    ASSUME IInv, ~crashed, NEW w \in Worker, End(w),
           worker[w].pc \notin {"none", "ended"},
           Has(worker[w]) => d.err \/ d.done
    PROVE  IInv'
<1> DEFINE s == [NoWorker EXCEPT !.pc = "ended"]
<1>1. /\ TypeOK /\ Core /\ worker \in [Worker -> Hand] /\ limit \in Nat /\ others \in Nat
      /\ limit <= Limit /\ Limit \in Nat
  BY Typed DEF IInv
<1>2. s \in Hand /\ s.pc = "ended" /\ s.n = 0
  BY NoHand DEF WorkerPc
<1> HIDE DEF s
<1>3. /\ worker' = [worker EXCEPT ![w] = s] /\ limit' = limit + 1
      /\ UNCHANGED <<length, others, d, reader, delivered, crashed>>
  BY DEF End, Goes, s
<1>4. Core'
  <2>1. Still(d, d') BY <1>3 DEF Still
  <2>2. ~Has(s) /\ s.pc # "none" /\ ~(s.n > 0) BY <1>2 DEF Has
  <2> QED BY <1>1, <1>2, <1>3, <2>1, <2>2, WorkerKeeps
<1>5. Live' = Live \ {w} /\ w \in Live BY <1>1, <1>2, <1>3 DEF Live
<1> DEFINE k == Cardinality(Live)
           m == Cardinality(Live')
<1>6. k \in Nat /\ m = k - 1 /\ k > 0 BY <1>5, LiveCount
<1>7. m \in Nat BY <1>6
<1> HIDE DEF k, m
<1>8. limit + others + k + Own = Limit /\ Own \in 0..1
  BY DEF IInv, ConnectionsCounted, Own, k
<1>9. limit' + others' + m + Own' = Limit /\ limit' \in 0..Limit
  <2>1. Own' = Own BY <1>3 DEF Own
  <2> QED BY <1>1, <1>3, <1>6, <1>7, <1>8, <2>1
<1>10. ConnectionsCounted' BY <1>9 DEF ConnectionsCounted, Own, m
<1>11. worker' \in [Worker -> Hand] BY <1>1, <1>2, <1>3
<1>12. TypeOK' BY <1>1, <1>3, <1>9, <1>11 DEF TypeOK, Hand
<1> QED BY <1>4, <1>10, <1>12, WholeNext

\* A worker that waits for a chunk has none.
LEMMA IdleIs == Idle \in Hand /\ Idle.pc = "idle" /\ Idle.n = 0 /\ ~Has(Idle)
BY NoHand DEF Idle, WorkerPc, Has

\* A worker moves on, and nothing else changes.
LEMMA GoesInv ==
    ASSUME IInv, ~crashed, NEW w \in Worker, NEW s \in Hand, worker' = Goes(w, s),
           UNCHANGED <<length, limit, others, d, reader, delivered, crashed>>,
           worker[w].pc \notin {"none", "ended"}, s.pc \notin {"none", "ended"},
           s.n > 0 => s.pc = "copying",
           Has(s) => Has(worker[w]) /\ Continues(worker[w], s),
           Has(worker[w]) /\ ~Has(s) =>
              d.err \/ d.done \/ worker[w].n = worker[w].chunk.size
    PROVE  IInv'
<1>1. d \in Tracks BY Typed DEF IInv
<1>2. Still(d, d') BY DEF Still
<1> QED BY <1>1, <1>2, WorkerInv DEF Goes

\* The download fails at a worker.
LEMMA FailedInv ==
    ASSUME IInv, ~crashed, NEW w \in Worker, Failed(w),
           UNCHANGED <<length, limit, others, reader, delivered, crashed>>,
           worker[w].pc \notin {"none", "ended"}
    PROVE  IInv'
<1>1. d \in Tracks BY Typed DEF IInv
<1>2. d' = [d EXCEPT !.err = TRUE, !.done = TRUE] /\ worker' = [worker EXCEPT ![w] = Idle]
  BY DEF Failed, Goes
<1>3. Still(d, d') /\ d'.closed = d.closed /\ d'.err /\ d'.done /\ d' \in Tracks
  BY <1>1, <1>2 DEF Tracks, Still
<1>4. /\ d.err => d'.err
      /\ d'.err /\ ~d'.done => d.err /\ ~d.done
  BY <1>3
<1>5. Idle.pc \notin {"none", "ended"} /\ ~(Idle.n > 0) BY IdleIs
<1> QED BY <1>2, <1>3, <1>4, <1>5, IdleIs, WorkerInv

\* An attempt ended: the next one, or none when the download failed or ended.
LEMMA AgainInv ==
    ASSUME IInv, ~crashed, NEW w \in Worker, NEW s \in Hand, Again(w, s),
           UNCHANGED <<length, limit, others, reader, delivered, crashed>>,
           worker[w].pc \notin {"none", "ended"}, s.pc \notin {"none", "ended"},
           s.n > 0 => s.pc = "copying",
           Has(s) => Has(worker[w]) /\ Continues(worker[w], s),
           Has(worker[w]) /\ ~Has(s) => d.err \/ d.done
    PROVE  IInv'
<1>1. CASE d.err
  <2>1. worker' = Goes(w, Idle) /\ UNCHANGED d BY <1>1 DEF Again
  <2> QED BY <1>1, <2>1, IdleIs, GoesInv
<1>2. CASE ~d.err /\ d.done
  <2>1. Failed(w) BY <1>2 DEF Again
  <2> QED BY <2>1, FailedInv
<1>3. CASE ~d.err /\ ~d.done
  <2>1. worker' = Goes(w, s) /\ UNCHANGED d BY <1>3 DEF Again
  <2> QED BY <2>1, GoesInv
<1> QED BY <1>1, <1>2, <1>3

\* A worker with a chunk that changes its place only goes on with it.
LEMMA Moves ==
    ASSUME TypeOK, Core, NEW w \in Worker, NEW s \in Hand,
           s.chunk = worker[w].chunk, s.n = worker[w].n
    PROVE  Continues(worker[w], s)
<1>1. worker[w] \in Hand BY Typed
<1>2. s.chunk.start \in Nat BY HandTyped
<1> QED BY <1>1, <1>2 DEF Continues

\* Only a worker that copies has copied anything.
LEMMA NothingYet ==
    ASSUME TypeOK, Core, NEW w \in Worker, worker[w].pc # "copying"
    PROVE  worker[w].n = 0
<1>1. worker[w].n \in Nat BY Typed, HandTyped
<1> QED BY <1>1 DEF Core, Cuts

\* A chunk taken up, or left because the download failed
LEMMA AttemptInv ==
    ASSUME IInv, ~crashed, NEW w \in Worker, Attempt(w)
    PROVE  IInv'
<1> DEFINE s == [worker[w] EXCEPT !.pc = "asking", !.n = 0]
<1>1. TypeOK /\ Core /\ worker[w] \in Hand BY Typed DEF IInv
<1>2. /\ worker[w].pc \in {"got", "again"}
      /\ UNCHANGED <<length, limit, others, d, reader, delivered, crashed>>
      /\ worker' = IF d.err THEN Goes(w, Idle) ELSE Goes(w, s)
  BY DEF Attempt, At
<1>3. worker[w].n = 0 BY <1>1, <1>2, NothingYet
<1>4. s \in Hand /\ s.pc = "asking" /\ s.n = 0 /\ s.chunk = worker[w].chunk
  BY <1>1 DEF Hand, WorkerPc
<1> HIDE DEF s
<1>5. Continues(worker[w], s) BY <1>1, <1>3, <1>4, Moves
<1>6. CASE d.err
  <2>1. worker' = Goes(w, Idle) BY <1>2, <1>6
  <2> QED BY <1>2, <1>6, <2>1, IdleIs, GoesInv
<1>7. CASE ~d.err
  <2>1. worker' = Goes(w, s) BY <1>2, <1>7
  <2>2. Has(worker[w]) /\ Has(s) BY <1>2, <1>4 DEF Has
  <2> QED BY <1>2, <1>4, <1>5, <2>1, <2>2, GoesInv
<1> QED BY <1>6, <1>7

\* No answer ends the download.
LEMMA NoAnswerInv ==
    ASSUME IInv, ~crashed, NEW w \in Worker, NoAnswer(w)
    PROVE  IInv'
<1>1. /\ worker[w].pc = "asking"
      /\ UNCHANGED <<length, limit, others, reader, delivered, crashed>>
      /\ d.err => UNCHANGED d /\ worker' = Goes(w, Idle)
      /\ ~d.err => Failed(w)
  BY DEF NoAnswer, At
<1>2. CASE d.err BY <1>1, <1>2, IdleIs, GoesInv
<1>3. CASE ~d.err BY <1>1, <1>3, FailedInv
<1> QED BY <1>2, <1>3

\* An answer by itself changes nothing but where the worker is.
LEMMA AnsweredInv ==
    ASSUME IInv, ~crashed, NEW w \in Worker, Refused(w) \/ Connected(w)
    PROVE  IInv'
<1>1. PICK pc \in {"refused", "connected"} :
         /\ worker[w].pc = "asking"
         /\ worker' = Goes(w, [worker[w] EXCEPT !.pc = pc])
         /\ UNCHANGED <<length, limit, others, d, reader, delivered, crashed>>
  BY DEF Refused, Connected, At
<1> DEFINE s == [worker[w] EXCEPT !.pc = pc]
<1>2. TypeOK /\ Core /\ worker[w] \in Hand BY Typed DEF IInv
<1>3. s \in Hand /\ s.pc = pc /\ s.n = worker[w].n /\ s.chunk = worker[w].chunk
  BY <1>2 DEF Hand, WorkerPc
<1>4. worker' = Goes(w, s) BY <1>1
<1> HIDE DEF s
<1>5. Continues(worker[w], s) /\ s.n = 0 BY <1>1, <1>2, <1>3, Moves, NothingYet
<1>6. Has(worker[w]) /\ Has(s) BY <1>1, <1>3 DEF Has
<1>7. s.pc \notin {"none", "ended"} /\ ~(s.n > 0) BY <1>3, <1>5
<1> QED BY <1>1, <1>3, <1>4, <1>5, <1>6, <1>7, GoesInv

\* A file of another length ends the download.
LEMMA SizeMismatchInv ==
    ASSUME IInv, ~crashed, NEW w \in Worker, SizeMismatch(w)
    PROVE  IInv'
<1>1. /\ worker[w].pc = "connected" /\ Failed(w)
      /\ UNCHANGED <<length, limit, others, reader, delivered, crashed>>
  BY DEF SizeMismatch, At
<1> QED BY <1>1, FailedInv

\* The pause after a refusal ends.
LEMMA ResumeInv ==
    ASSUME IInv, ~crashed, NEW w \in Worker, Resume(w)
    PROVE  IInv'
<1> DEFINE s == [worker[w] EXCEPT !.pc = "again"]
<1>1. /\ worker[w].pc = "paused" /\ Again(w, s)
      /\ UNCHANGED <<length, limit, others, reader, delivered, crashed>>
  BY DEF Resume, At
<1>2. TypeOK /\ Core /\ worker[w] \in Hand BY Typed DEF IInv
<1>3. s \in Hand /\ s.pc = "again" /\ s.n = worker[w].n /\ s.chunk = worker[w].chunk
  BY <1>2 DEF Hand, WorkerPc
<1> HIDE DEF s
<1>4. Continues(worker[w], s) /\ s.n = 0 BY <1>1, <1>2, <1>3, Moves, NothingYet
<1>5. Has(worker[w]) /\ Has(s) BY <1>1, <1>3 DEF Has
<1> QED BY <1>1, <1>3, <1>4, <1>5, AgainInv

\* A worker that put its chunk back ends, or learns of a failure.
LEMMA GiveUpInv ==
    ASSUME IInv, ~crashed, NEW w \in Worker, GiveUp(w)
    PROVE  IInv'
<1>1. /\ worker[w].pc = "gaveUp" /\ ~Has(worker[w])
      /\ d.err \/ d.done =>
            /\ Again(w, Idle)
            /\ UNCHANGED <<length, limit, others, reader, delivered, crashed>>
      /\ ~(d.err \/ d.done) => End(w)
  BY DEF GiveUp, At, Has
<1>2. CASE d.err \/ d.done BY <1>1, <1>2, IdleIs, AgainInv
<1>3. CASE ~(d.err \/ d.done) BY <1>1, <1>3, EndInv
<1> QED BY <1>2, <1>3

\* A worker ends when the channel is closed, or the download failed.
LEMMA EndsInv ==
    ASSUME IInv, ~crashed, NEW w \in Worker, ChannelClosed(w) \/ DropChunk(w)
    PROVE  IInv'
<1>1. /\ worker[w].pc \in {"idle", "got"} /\ End(w)
      /\ worker[w].pc = "got" => d.err
  BY DEF ChannelClosed, DropChunk, At
<1>2. Has(worker[w]) => d.err BY <1>1 DEF Has
<1> QED BY <1>1, <1>2, EndInv

\* From e to f nothing but the count of bytes changes, or flags rise.
Rises(e, f) ==
    /\ Still(e, f) /\ f \in Tracks /\ f.closed = e.closed
    /\ e.err => f.err
    /\ f.err /\ ~f.done => e.err /\ ~e.done

\* Counting the bytes written is all that changes.
LEMMA Writes ==
    ASSUME NEW e \in Tracks, NEW n \in Nat
    PROVE  Rises(e, [e EXCEPT !.written = @ + n])
<1> DEFINE f == [e EXCEPT !.written = @ + n]
<1>1. e.written + n \in Nat BY DEF Tracks
<1>2. f \in Tracks BY <1>1 DEF Tracks
<1>3. /\ f.nextChunk = e.nextChunk /\ f.pos = e.pos /\ f.concurrency = e.concurrency
      /\ f.bufs = e.bufs /\ f.chunks = e.chunks /\ f.closed = e.closed
      /\ f.err = e.err /\ f.done = e.done
  BY DEF Tracks
<1> HIDE DEF f
<1>4. Rises(e, f) BY <1>2, <1>3 DEF Rises, Still
<1> QED BY <1>4 DEF f

\* All of the chunk is copied.
LEMMA CopiedInv ==
    ASSUME IInv, ~crashed, NEW w \in Worker, Copied(w)
    PROVE  IInv'
<1>1. TypeOK /\ Core /\ worker[w] \in Hand /\ d \in Tracks /\ d.written \in Nat
  BY Typed DEF IInv
<1>2. /\ worker[w].pc = "copying" /\ worker[w].n = worker[w].chunk.size
      /\ d' = [d EXCEPT !.written = @ + worker[w].n]
      /\ worker' = [worker EXCEPT ![w] = Idle]
      /\ UNCHANGED <<length, limit, others, reader, delivered, crashed>>
  BY DEF Copied, At, Goes
<1>3. worker[w].n \in Nat BY <1>1, HandTyped
<1>4. Rises(d, d') BY <1>1, <1>2, <1>3, Writes
<1>5. Idle.pc \notin {"none", "ended"} /\ ~(Idle.n > 0) BY IdleIs
<1> QED BY <1>2, <1>4, <1>5, IdleIs, WorkerInv DEF Rises

\* The answer broke off: the next attempt is for the rest.
LEMMA InterruptedInv ==
    ASSUME IInv, ~crashed, NEW w \in Worker, Interrupted(w)
    PROVE  IInv'
<1> DEFINE r == worker[w]
<1>1. TypeOK /\ Core /\ r \in Hand /\ d \in Tracks /\ d.written \in Nat
  BY Typed DEF IInv
<1>2. /\ r.pc \in {"copying", "refused"}
      /\ NeedRetry(w)
      /\ UNCHANGED <<length, limit, others, reader, delivered, crashed>>
  BY DEF Interrupted, At
<1>3. /\ r.chunk \in Chunk /\ r.chunk.start \in Nat /\ r.chunk.size \in Nat /\ r.n \in Nat
      /\ r.retry \in 0..PartBodyMaxRetries
  BY <1>1, HandTyped
<1>4. Has(r) BY <1>2 DEF Has
<1>5. r.n <= r.chunk.size BY <1>4 DEF IInv, Core, Cuts, Cut
<1>6. CASE d.err
  <2>1. UNCHANGED d /\ worker' = Goes(w, Idle) BY <1>2, <1>6 DEF NeedRetry
  <2> QED BY <1>2, <1>6, <2>1, IdleIs, GoesInv
<1>7. CASE ~d.err /\ (d.done \/ LastAttempt(w))
  <2>1. Failed(w) BY <1>2, <1>7 DEF NeedRetry
  <2> QED BY <1>2, <2>1, FailedInv
<1>8. CASE ~d.err /\ ~(d.done \/ LastAttempt(w))
  <2> DEFINE s == Rest(w)
  <2>1. d' = [d EXCEPT !.written = @ + r.n] /\ worker' = [worker EXCEPT ![w] = s]
    BY <1>2, <1>8 DEF NeedRetry, Goes
  <2>2. r.retry + 1 \in 0..PartBodyMaxRetries
    BY <1>3, <1>8 DEF LastAttempt
  <2>3. /\ s.pc = "again" /\ s.n = 0 /\ s.chunk.id = r.chunk.id /\ s.chunk.buf = r.chunk.buf
        /\ s.chunk.start = r.chunk.start + r.n /\ s.chunk.size = r.chunk.size - r.n
    BY <1>1, <1>3 DEF Rest, Hand, Chunk
  <2>4. r.chunk.start + r.n \in Nat /\ r.chunk.size - r.n \in Nat BY <1>3, <1>5
  <2>5. s \in Hand
    BY <1>1, <1>3, <2>2, <2>4 DEF Rest, Hand, Chunk, WorkerPc
  <2> HIDE DEF s
  <2>6. Continues(r, s) /\ Has(s) BY <1>3, <1>5, <2>3 DEF Continues, Has
  <2>7. Rises(d, d') BY <1>1, <1>3, <2>1, Writes
  <2>8. s.pc \notin {"none", "ended"} /\ ~(s.n > 0) BY <2>3
  <2>9. r.pc \notin {"none", "ended"} BY <1>2
  <2> QED BY <1>2, <1>4, <2>1, <2>5, <2>6, <2>7, <2>8, <2>9, WorkerInv DEF Rises
<1> QED BY <1>6, <1>7, <1>8

-----------------------------------------------------------------------------
(* Steps of the reader and of others that leave the buffers alone            *)

\* The reader moves without needing another chunk, or flags rise.
LEMMA ReaderKeeps ==
    ASSUME TypeOK, Core, Still(d, d'), UNCHANGED <<length, worker>>,
           d.err => d'.err, Low' = Low, reader'.rPos \in {reader.rPos, Low}
    PROVE  /\ Cuts' /\ Once' /\ Buffers'
           /\ (reader.pc = "closed" => reader'.pc = "closed") => Counts'
           /\ Started' = Started
<1>1. Started' = Started BY DEF Started
<1>3. ASSUME reader.pc = "closed" => reader'.pc = "closed" PROVE Counts'
  BY <1>1, <1>3 DEF Core, Counts, Still, Workers, MaxPart
<1>4. Cuts'
  <2>1. /\ \A i \in 1..Len(d'.chunks) : Cut(length, d', Low, d'.chunks[i], 0)
        /\ \A v \in Worker : Has(worker'[v]) =>
              Cut(length, d', Low, worker'[v].chunk, worker'[v].n)
    BY CutStill DEF Core, Cuts, Still
  <2> QED BY <2>1 DEF Core, Cuts, Still
<1>5. Once' BY DEF Core, Once, Still
<1>6. Buffers'
  <2> SUFFICES ASSUME ~d'.done, NEW id \in Low..(d.nextChunk - 1)
               PROVE  LET b == d.bufs[BufOf(id, d.bufs)]
                      IN  /\ Filled(length, id, b, reader'.rPos)
                          /\ ~d'.err /\ Fetched(id)' => Len(b.data) = b.size
    BY DEF Buffers, Still
  <2>1. LET b == d.bufs[BufOf(id, d.bufs)]
        IN  /\ Filled(length, id, b, reader.rPos)
            /\ ~d.err /\ Fetched(id) => Len(b.data) = b.size
    BY DEF Core, Buffers, Still
  <2>2. Fetched(id)' <=> Fetched(id) BY DEF Fetched, Still
  <2>3. id # reader'.rPos => id # reader.rPos
    <3>1. Low \in Nat /\ reader.rPos \in Nat /\ d.nextChunk \in Nat BY Typed
    <3> QED BY <3>1 DEF Low
  <2> QED BY <2>1, <2>2, <2>3 DEF Filled
<1> QED BY <1>1, <1>3, <1>4, <1>5, <1>6

\* The reader finds the download cancelled.
LEMMA ReadFailsInv ==
    ASSUME IInv, ~crashed, ReadFails
    PROVE  IInv'
<1>1. TypeOK /\ Core /\ Still(d, d') BY DEF IInv, ReadFails, Still
<1>2. /\ reader.pc = "reading" /\ d.done /\ reader' = [reader EXCEPT !.pc = "failed"]
      /\ UNCHANGED <<length, limit, others, d, worker, delivered, crashed>>
  BY DEF ReadFails
<1>3. /\ reader'.pc = "failed" /\ reader'.rPos = reader.rPos
      /\ reader' \in [pc : ReaderPc, rPos : Nat, buf : Nat \ {0}]
  BY <1>1, <1>2, Typed DEF ReaderPc
<1>4. Low' = Low BY <1>2, <1>3 DEF Low
<1>5. Cuts' /\ Once' /\ Buffers' /\ Counts' BY <1>1, <1>2, <1>3, <1>4, ReaderKeeps
<1>6. Phases' BY <1>1, <1>2, <1>3 DEF Core, Phases, Early
<1>7. Reading' BY <1>3 DEF Reading
<1>8. TypeOK' BY <1>1, <1>2, <1>3 DEF TypeOK
<1>9. ConnectionsCounted' BY <1>2, <1>3 DEF IInv, ConnectionsCounted, Live
<1> QED BY <1>5, <1>6, <1>7, <1>8, <1>9, WholeNext DEF Core

\* The reader goes on to the next chunk, which was cut before.
LEMMA NextBufInv ==
    ASSUME IInv, ~crashed, NextBuf
    PROVE  IInv'
<1>1. TypeOK /\ Core /\ Still(d, d') BY DEF IInv, NextBuf, Still
<1>2. /\ reader.pc \in {"next", "waits"}
      /\ reader' = [pc |-> "reading", rPos |-> reader.rPos + 1,
                    buf |-> BufOf(reader.rPos + 1, d.bufs)]
      /\ UNCHANGED <<length, limit, others, d, worker, delivered, crashed>>
  BY DEF NextBuf
<1>3. /\ d.bufs # <<>> /\ d.bufs \in Seq(Buf) /\ reader.rPos \in Nat /\ Low \in Nat
      /\ d.nextChunk \in Nat /\ length \in Nat
  BY <1>1, <1>2, Typed DEF Core, Phases, Early
<1>4. /\ reader'.pc = "reading" /\ reader'.rPos = reader.rPos + 1
      /\ reader'.buf = BufOf(reader.rPos + 1, d.bufs)
      /\ Low = reader.rPos + 1 /\ Low' = Low
  BY <1>2 DEF Low
<1>5. reader' \in [pc : ReaderPc, rPos : Nat, buf : Nat \ {0}]
  <2>1. reader.rPos + 1 \in Nat BY <1>3
  <2>2. BufOf(reader.rPos + 1, d.bufs) \in 1..Len(d.bufs) BY <1>3, <2>1, Places
  <2>3. BufOf(reader.rPos + 1, d.bufs) \in Nat \ {0} BY <2>2
  <2> QED BY <1>2, <1>3, <2>1, <2>3 DEF ReaderPc
<1>6. Cuts' /\ Once' /\ Buffers' /\ Counts' BY <1>1, <1>2, <1>4, ReaderKeeps
<1>7. Phases' BY <1>1, <1>2, <1>4 DEF Core, Phases, Early
<1>8. Reading'
  <2>1. Low < d.nextChunk BY <1>1, <1>2 DEF Core, Reading
  <2>2. delivered = [i \in 1..StartOf(length, Low) |-> i - 1]
    BY <1>1, <1>2, <1>4 DEF Core, Reading
  <2>3. ASSUME ~d.done PROVE d.bufs[BufOf(Low, d.bufs)].off = 0
    <3>1. Low \in Low..(d.nextChunk - 1) /\ Low # reader.rPos BY <1>3, <1>4, <2>1
    <3> QED BY <1>1, <2>3, <3>1 DEF Core, Buffers, Filled
  <2>4. StartOf(length, Low) + 0 = StartOf(length, Low) BY <1>3, Parts
  <2> QED BY <1>2, <1>4, <2>1, <2>2, <2>3, <2>4 DEF Reading, Buffer
<1>9. TypeOK' BY <1>1, <1>2, <1>5 DEF TypeOK
<1>10. ConnectionsCounted' BY <1>2, <1>4 DEF IInv, ConnectionsCounted, Live
<1> QED BY <1>6, <1>7, <1>8, <1>9, <1>10, WholeNext DEF Core

\* interrupt up to the cancellation, and the end of the request
LEMMA StopsInv ==
    ASSUME IInv, ~crashed, Interrupt \/ Cancel \/ RequestEnds
    PROVE  IInv'
<1>1. TypeOK /\ Core /\ d \in Tracks BY Typed DEF IInv
<1>2. Still(d, d') /\ (d.err => d'.err) /\ d' \in Tracks /\ d'.closed = d.closed
  <2>1. CASE Interrupt
    <3>1. d' = [d EXCEPT !.err = @ \/ d.written # length] BY <2>1 DEF Interrupt
    <3>2. d.err \in BOOLEAN BY <1>1 DEF Tracks
    <3> QED BY <1>1, <3>1, <3>2 DEF Tracks, Still
  <2>2. CASE Cancel \/ RequestEnds
    <3>1. d' = [d EXCEPT !.done = TRUE] BY <2>2 DEF Cancel, RequestEnds
    <3> QED BY <1>1, <3>1 DEF Tracks, Still
  <2> QED BY <2>1, <2>2
<1>3. UNCHANGED <<length, limit, others, worker, delivered, crashed>>
  BY DEF Interrupt, Cancel, RequestEnds
<1>4. /\ reader'.rPos = reader.rPos /\ reader'.buf = reader.buf
      /\ reader' \in [pc : ReaderPc, rPos : Nat, buf : Nat \ {0}]
      /\ \/ /\ reader.pc \in {"reading", "eof", "failed"} /\ reader'.pc = "cancelling"
            /\ d'.done = d.done
         \/ reader.pc = "cancelling" /\ reader'.pc = "closing" /\ d'.done
         \/ /\ reader.pc # "start" /\ reader'.pc = reader.pc /\ d'.done
            /\ d'.err = d.err /\ ~d.done
  <2>1. reader \in [pc : ReaderPc, rPos : Nat, buf : Nat \ {0}] BY <1>1, Typed
  <2>2. CASE Interrupt BY <1>1, <2>1, <2>2 DEF Interrupt, ReaderPc, Tracks
  <2>3. CASE Cancel BY <1>1, <2>1, <2>3 DEF Cancel, ReaderPc, Tracks
  <2>4. CASE RequestEnds BY <1>1, <2>1, <2>4 DEF RequestEnds, ReaderPc, Tracks
  <2> QED BY <2>2, <2>3, <2>4
<1>5. Low' = Low BY <1>4 DEF Low
<1>6. Cuts' /\ Once' /\ Buffers' /\ Counts' /\ Started' = Started
  BY <1>1, <1>2, <1>3, <1>4, <1>5, ReaderKeeps
<1>7. Phases'
  BY <1>1, <1>2, <1>3, <1>4, <1>6 DEF Core, Phases, Early, Still, Workers, MaxPart
<1>8. Reading'
  BY <1>1, <1>2, <1>3, <1>4, <1>5 DEF Core, Reading, Still
<1>9. TypeOK' BY <1>1, <1>2, <1>3, <1>4 DEF TypeOK, Tracks, Buf
<1>10. ConnectionsCounted' BY <1>3, <1>4 DEF IInv, ConnectionsCounted, Live
<1> QED BY <1>6, <1>7, <1>8, <1>9, <1>10, WholeNext DEF Core

\* A part is no more than the whole.
LEMMA PartOfSum ==
    ASSUME NEW a \in Nat, NEW b \in Nat, NEW c \in Nat, NEW e \in Nat, NEW t \in Nat,
           a + b + c + e = t
    PROVE  a \in 0..t
OBVIOUS

\* Steps of other downloads, which share the limit alone
LEMMA OthersInv ==
    ASSUME IInv, ~crashed, OtherConnects \/ OtherEnds
    PROVE  IInv'
<1>1. TypeOK /\ Core /\ limit \in Nat /\ others \in Nat /\ Limit \in Nat /\ MaxOthers \in Nat
  BY Typed DEF IInv
<1>2. /\ UNCHANGED <<length, d, worker, reader, delivered, crashed>>
      /\ limit' + others' = limit + others /\ limit' \in Nat /\ others' \in Nat
      /\ others' <= MaxOthers
  <2>1. others <= MaxOthers BY <1>1 DEF TypeOK
  <2>2. CASE OtherConnects BY <1>1, <2>1, <2>2 DEF OtherConnects
  <2>3. CASE OtherEnds BY <1>1, <2>1, <2>3 DEF OtherEnds
  <2> QED BY <2>2, <2>3
<1>3. Core'
  BY <1>1, <1>2 DEF Core, Phases, Counts, Cuts, Once, Buffers, Reading, Low, Started,
     Buffer, Fetched, Workers, MaxPart
<1> DEFINE k == Cardinality(Live)
<1>4. k \in Nat BY LiveCount
<1> HIDE DEF k
<1>5. limit + others + k + Own = Limit /\ Own \in 0..1
  BY DEF IInv, ConnectionsCounted, Own, k
<1>6. limit' + others' + k + Own = Limit /\ limit' \in 0..Limit /\ others' \in 0..MaxOthers
  <2>1. /\ limit' + others' = limit + others /\ limit' \in Nat /\ others' \in Nat
        /\ others' <= MaxOthers
    BY <1>2
  <2>2. Own \in Nat BY <1>5
  <2>3. limit' + others' + k + Own = Limit BY <1>1, <1>4, <1>5, <2>1, <2>2
  <2>4. limit' \in 0..Limit BY <1>1, <1>4, <2>1, <2>2, <2>3, PartOfSum
  <2>5. others' \in 0..MaxOthers BY <1>1, <2>1
  <2> QED BY <2>3, <2>4, <2>5
<1>7. ConnectionsCounted' BY <1>2, <1>6 DEF ConnectionsCounted, Own, Live, k
<1>8. TypeOK' BY <1>1, <1>2, <1>6 DEF TypeOK
<1> QED BY <1>3, <1>7, <1>8, WholeNext

\* The one connection of a small range ends.
LEMMA SingleEndsInv ==
    ASSUME IInv, ~crashed, SingleEnds
    PROVE  IInv'
<1>1. /\ TypeOK /\ Core /\ Still(d, d') /\ limit \in Nat /\ others \in Nat /\ Limit \in Nat
      /\ reader \in [pc : ReaderPc, rPos : Nat, buf : Nat \ {0}]
  BY Typed DEF IInv, SingleEnds, Still
<1>2. /\ reader.pc = "single" /\ d.done /\ limit' = limit + 1
      /\ reader' = [reader EXCEPT !.pc = "closed"]
      /\ UNCHANGED <<length, others, d, worker, delivered, crashed>>
  BY DEF SingleEnds
<1>3. /\ reader'.pc = "closed" /\ reader'.rPos = reader.rPos
      /\ reader' \in [pc : ReaderPc, rPos : Nat, buf : Nat \ {0}]
  BY <1>1, <1>2 DEF ReaderPc
<1>4. Low' = Low BY <1>2, <1>3 DEF Low
<1>5. Cuts' /\ Once' /\ Buffers' /\ Counts' BY <1>1, <1>2, <1>3, <1>4, ReaderKeeps
<1>6. Phases' BY <1>1, <1>2, <1>3 DEF Core, Phases, Early
<1>7. Reading' BY <1>3 DEF Reading
<1> DEFINE k == Cardinality(Live)
<1>8. k \in Nat BY LiveCount
<1> HIDE DEF k
<1>9. limit + others + k + Own = Limit /\ Own = 1 /\ Own' = 0
  BY <1>2, <1>3 DEF IInv, ConnectionsCounted, Own, k
<1>10. limit' + others' + k + Own' = Limit /\ limit' \in 0..Limit
  BY <1>1, <1>2, <1>8, <1>9
<1>11. ConnectionsCounted' BY <1>2, <1>10 DEF ConnectionsCounted, Own, Live, k
<1>12. TypeOK' BY <1>1, <1>2, <1>3, <1>10 DEF TypeOK
<1> QED BY <1>5, <1>6, <1>7, <1>11, <1>12, WholeNext DEF Core

\* The start of a download, which counts a connection if there is one left
LEMMA DownloadInv ==
    ASSUME IInv, ~crashed, Download
    PROVE  IInv'
<1>1. /\ TypeOK /\ Core /\ limit \in Nat /\ others \in Nat /\ Limit \in Nat /\ limit <= Limit
      /\ reader \in [pc : ReaderPc, rPos : Nat, buf : Nat \ {0}]
      /\ d \in Tracks /\ length \in Nat
  BY Typed DEF IInv
<1>2. Workers \in Nat BY <1>1, Sizes
<1>3. /\ reader.pc = "start"
      /\ UNCHANGED <<length, others, worker, delivered, crashed>>
      /\ \E pc \in {"refused", "panicked", "single", "sending"} :
            /\ reader' = [reader EXCEPT !.pc = pc]
            /\ limit' = IF pc = "refused" THEN limit ELSE limit - 1
            /\ pc # "refused" => limit # 0
            /\ d' = IF pc = "sending" THEN [d EXCEPT !.concurrency = Workers] ELSE d
            /\ pc = "sending" => Workers >= 2
  BY <1>2 DEF Download
<1>4. PICK pc \in {"refused", "panicked", "single", "sending"} :
         /\ reader' = [reader EXCEPT !.pc = pc]
         /\ limit' = IF pc = "refused" THEN limit ELSE limit - 1
         /\ pc # "refused" => limit # 0
         /\ d' = IF pc = "sending" THEN [d EXCEPT !.concurrency = Workers] ELSE d
         /\ pc = "sending" => Workers >= 2
  BY <1>3
<1>5. /\ reader'.pc = pc /\ reader'.rPos = reader.rPos /\ reader'.buf = reader.buf
      /\ reader' \in [pc : ReaderPc, rPos : Nat, buf : Nat \ {0}]
  BY <1>1, <1>4 DEF ReaderPc
<1>6. /\ d.nextChunk = 0 /\ d.bufs = <<>> /\ d.chunks = <<>> /\ ~d.err
      /\ reader.rPos = 0 /\ reader.buf = 1 /\ delivered = <<>> /\ Started = {}
      /\ ~d.closed /\ d.concurrency = 0 /\ d.pos = StartOf(length, 0)
  <2>1. Phases /\ reader.pc = "start" /\ d.pos = StartOf(length, d.nextChunk)
    BY <1>1, <1>3 DEF Core, Cuts
  <2> QED BY <2>1 DEF Phases, Early
<1>7. /\ d'.nextChunk = 0 /\ d'.bufs = <<>> /\ d'.chunks = <<>> /\ ~d'.err /\ ~d'.closed
      /\ d'.concurrency = (IF pc = "sending" THEN Workers ELSE 0)
      /\ d'.pos = d.pos /\ d' \in Tracks
  BY <1>1, <1>2, <1>4, <1>6, SMTT(30) DEF Tracks
<1>8. Started' = {} /\ Cardinality({}) = 0 /\ Low' = 0
  BY <1>3, <1>5, <1>6, FS_EmptySet DEF Started, Low
<1>9. Workers' = Workers BY <1>3 DEF Workers, MaxPart
<1>10. Phases'
  BY <1>3, <1>4, <1>5, <1>6, <1>7, <1>8, <1>9 DEF Phases, Early
<1>11. Counts'
  BY <1>1, <1>2, <1>7, <1>8, <1>9 DEF Counts, Most
<1>12. \A w \in Worker : ~Has(worker'[w]) /\ ~(worker'[w].n > 0)
  <2>1. \A w \in Worker : worker[w].pc = "none" BY <1>6 DEF Started
  <2>2. \A w \in Worker : worker[w].n > 0 => worker[w].pc = "copying"
    BY <1>1 DEF Core, Cuts
  <2> QED BY <1>3, <2>1, <2>2 DEF Has
<1>13. Cuts'
  <2>1. ASSUME pc = "sending" PROVE PartsOf(length) >= 2
    <3>1. Workers >= 2 /\ Workers <= PartsOf(length) BY <1>1, <1>4, <2>1, Sizes
    <3>2. PartsOf(length) \in Nat BY <1>1, Parts
    <3> QED BY <1>2, <3>1, <3>2
  <2> QED BY <1>1, <1>3, <1>6, <1>7, <1>12, <2>1 DEF Core, Cuts
<1>14. Once' BY <1>7, <1>12 DEF Once
<1>15. Buffers' BY <1>7, <1>8 DEF Buffers
<1>16. Reading' BY <1>5 DEF Reading
<1> DEFINE k == Cardinality(Live)
<1>17. k \in Nat BY LiveCount
<1> HIDE DEF k
<1>18. limit + others + k + Own = Limit /\ Own = 0
  BY <1>3 DEF IInv, ConnectionsCounted, Own, k
<1>19. limit' \in 0..Limit /\ limit' + others' + k + Own' = Limit
  BY <1>1, <1>3, <1>4, <1>5, <1>17, <1>18 DEF Own
<1>20. ConnectionsCounted' BY <1>3, <1>19 DEF ConnectionsCounted, Own, Live, k
<1>21. TypeOK' BY <1>1, <1>3, <1>5, <1>7, <1>19 DEF TypeOK, Tracks, Buf
<1> QED
  BY <1>10, <1>11, <1>13, <1>14, <1>15, <1>16, <1>20, <1>21, WholeNext DEF Core

\* interrupt closes the channel: a sender that waits ends the process.
LEMMA CloseChannelInv ==
    ASSUME IInv, ~crashed, CloseChannel
    PROVE  IInv'
<1>1. /\ TypeOK /\ Core /\ d \in Tracks
      /\ reader \in [pc : ReaderPc, rPos : Nat, buf : Nat \ {0}]
  BY Typed DEF IInv
<1>2. /\ reader.pc = "closing" /\ reader' = [reader EXCEPT !.pc = "dropping"]
      /\ d' = [d EXCEPT !.closed = TRUE]
      /\ UNCHANGED <<length, limit, others, worker, delivered>>
      /\ crashed' = ~Free
  BY DEF CloseChannel
<1>3. /\ reader'.pc = "dropping" /\ reader'.rPos = reader.rPos
      /\ reader' \in [pc : ReaderPc, rPos : Nat, buf : Nat \ {0}]
  BY <1>1, <1>2 DEF ReaderPc
<1>4. /\ Still(d, d') /\ d' \in Tracks /\ d'.err = d.err /\ d'.done = d.done
  BY <1>1, <1>2 DEF Tracks, Still
<1>5. Low' = Low BY <1>2, <1>3 DEF Low
<1>6. Cuts' /\ Once' /\ Buffers' /\ Counts' BY <1>1, <1>2, <1>3, <1>4, <1>5, ReaderKeeps
<1>7. Phases' BY <1>1, <1>2, <1>3, <1>4 DEF Core, Phases, Early, Still
<1>8. Reading' BY <1>3 DEF Reading
<1>9. TypeOK'
  <2>1. crashed' \in BOOLEAN BY <1>2
  <2> QED BY <1>1, <1>2, <1>3, <1>4, <2>1 DEF TypeOK, Tracks, Buf
<1>10. ConnectionsCounted' BY <1>2, <1>3 DEF IInv, ConnectionsCounted, Live
<1> QED BY <1>6, <1>7, <1>8, <1>9, <1>10, WholeNext DEF Core

\* interrupt drops the buffers, at the end: no worker is started any more.
LEMMA DropBuffersInv ==
    ASSUME IInv, ~crashed, DropBuffers
    PROVE  IInv'
<1>1. /\ TypeOK /\ Core /\ d \in Tracks /\ d.concurrency \in Int
      /\ reader \in [pc : ReaderPc, rPos : Nat, buf : Nat \ {0}]
  BY Typed DEF IInv
<1>2. /\ reader.pc = "dropping" /\ reader' = [reader EXCEPT !.pc = "closed"]
      /\ d' = [d EXCEPT !.bufs = <<>>, !.concurrency = IF @ > 0 THEN -@ ELSE @]
      /\ UNCHANGED <<length, limit, others, worker, delivered, crashed>>
  BY DEF DropBuffers
<1>3. /\ reader'.pc = "closed" /\ reader'.rPos = reader.rPos
      /\ reader' \in [pc : ReaderPc, rPos : Nat, buf : Nat \ {0}]
  BY <1>1, <1>2 DEF ReaderPc
<1>4. Low' = Low /\ Started' = Started /\ length' = length /\ Workers' = Workers
  BY <1>2, <1>3 DEF Low, Started, Workers, MaxPart
<1>5. /\ d'.nextChunk = d.nextChunk /\ d'.pos = d.pos /\ d'.chunks = d.chunks
      /\ d'.err = d.err /\ d'.done /\ d'.closed = d.closed /\ d'.bufs = <<>>
      /\ d'.concurrency \in Int /\ d'.concurrency <= 0 /\ d' \in Tracks
  <2>1. d.done BY <1>1, <1>2 DEF Core, Phases
  <2> DEFINE c == IF d.concurrency > 0 THEN -d.concurrency ELSE d.concurrency
  <2>2. <<>> \in Seq(Buf) /\ c \in Int /\ c <= 0 BY <1>1
  <2>3. d' = [d EXCEPT !.bufs = <<>>, !.concurrency = c] BY <1>2
  <2> HIDE DEF c
  <2> QED BY <1>1, <2>1, <2>2, <2>3 DEF Tracks
<1>6. Phases' BY <1>1, <1>2, <1>3, <1>5 DEF Core, Phases, Early
<1>7. Counts'
  <2>1. Cardinality(Started) \in Nat /\ Workers \in Nat
    BY <1>1, Workforce, Sizes, Typed DEF Started
  <2> QED BY <1>1, <1>3, <1>4, <1>5, <2>1, SMTT(30) DEF Core, Counts, Most
<1>8. Cuts'
  <2>1. \A ch, n : Cut(length, d, Low, ch, n) => Cut(length, d', Low, ch, n)
    BY <1>5 DEF Cut
  <2> QED BY <1>1, <1>2, <1>4, <1>5, <2>1 DEF Core, Cuts
<1>9. Once' BY <1>1, <1>2, <1>5 DEF Core, Once
<1>10. Buffers' BY <1>5 DEF Buffers
<1>11. Reading' BY <1>3 DEF Reading
<1>12. TypeOK' BY <1>1, <1>2, <1>3, <1>5 DEF TypeOK, Tracks, Buf
<1>13. ConnectionsCounted' BY <1>2, <1>3 DEF IInv, ConnectionsCounted, Live
<1> QED BY <1>6, <1>7, <1>8, <1>9, <1>10, <1>11, <1>12, <1>13, WholeNext DEF Core

-----------------------------------------------------------------------------
(* A chunk is cut and sent                                                   *)

\* The buffer of the next chunk
NextPlace == IF d.concurrency > 0 THEN Len(d.bufs) + 1 ELSE BufOf(d.nextChunk, d.bufs)

\* One element is appended to a sequence.
LEMMA Appended ==
    ASSUME NEW S, NEW q \in Seq(S), NEW x \in S, NEW m, m = Append(q, x)
    PROVE  /\ m \in Seq(S) /\ Len(m) = Len(q) + 1 /\ m[Len(q) + 1] = x
           /\ \A i \in 1..Len(q) : m[i] = q[i] /\ i \in 1..Len(m)
           /\ \A i \in 1..Len(m) : i \in 1..Len(q) \/ i = Len(q) + 1
           /\ Len(q) + 1 \in 1..Len(m)
<1>1. m \in Seq(S) /\ Len(m) = Len(q) + 1 /\ Len(q) \in Nat OBVIOUS
<1>2. m[Len(q) + 1] = x /\ \A i \in 1..Len(q) : m[i] = q[i] OBVIOUS
<1> QED BY <1>1, <1>2

\* One element of a sequence is replaced.
LEMMA Replaced ==
    ASSUME NEW S, NEW q \in Seq(S), NEW b \in 1..Len(q), NEW x \in S
    PROVE  /\ [q EXCEPT ![b] = x] \in Seq(S) /\ Len([q EXCEPT ![b] = x]) = Len(q)
           /\ [q EXCEPT ![b] = x][b] = x
           /\ \A i \in 1..Len(q) : i # b => [q EXCEPT ![b] = x][i] = q[i]
OBVIOUS

\* The fields after a send: a buffer more while workers remain to be started, and
\* a chunk more while the range has bytes left, whose buffer is made new.
LEMMA EnqueuedIs ==
    ASSUME TypeOK, NEW new \in BOOLEAN, NEW e, e = Enqueued(new),
           d.concurrency > 0 \/ d.bufs # <<>>
    PROVE  /\ e \in Tracks /\ e.closed = d.closed /\ e.err = d.err /\ e.done = d.done
           /\ e.concurrency = IF new THEN d.concurrency - 1 ELSE d.concurrency
           /\ d.concurrency > 0 => Len(e.bufs) = Len(d.bufs) + 1
           /\ ~(d.concurrency > 0) => Len(e.bufs) = Len(d.bufs)
           /\ \A i \in 1..Len(d.bufs) :
                 d.pos >= length \/ i # NextPlace => e.bufs[i] = d.bufs[i]
           /\ d.pos >= length =>
                 e.chunks = d.chunks /\ e.pos = d.pos /\ e.nextChunk = d.nextChunk
           /\ d.pos < length => \E ch \in Chunk :
                 /\ e.chunks = Append(d.chunks, ch)
                 /\ ch.id = d.nextChunk /\ ch.buf = NextPlace /\ ch.start = d.pos
                 /\ ch.size = SizeOf(length, d.nextChunk)
                 /\ e.pos = d.pos + ch.size /\ e.nextChunk = d.nextChunk + 1
                 /\ e.bufs[NextPlace].size = ch.size
                 /\ e.bufs[NextPlace].data = <<>> /\ e.bufs[NextPlace].off = 0
<1> DEFINE grows == d.concurrency > 0
           more == IF grows THEN 1 ELSE 0
           bufs == IF grows THEN Append(d.bufs, NewBuf) ELSE d.bufs
           size == ChunkSize(d.nextChunk)
           fresh == [NewBuf EXCEPT !.size = size]
           b == NextPlace
           ch == [start |-> d.pos, size |-> size, id |-> d.nextChunk, buf |-> b,
                  newConcurrency |-> new]
           c == IF new THEN d.concurrency - 1 ELSE d.concurrency
           f == [d EXCEPT !.concurrency = c, !.bufs = bufs]
           g == [f EXCEPT !.bufs = [bufs EXCEPT ![b] = fresh],
                          !.chunks = Append(@, ch), !.pos = @ + size,
                          !.nextChunk = @ + 1]
<1>1. /\ d \in Tracks /\ d.bufs \in Seq(Buf) /\ d.chunks \in Seq(Chunk) /\ d.pos \in Nat
      /\ d.nextChunk \in Nat /\ d.concurrency \in Int /\ length \in Nat
      /\ Len(d.bufs) \in Nat
  BY Typed
<1>2. size \in Nat /\ size = SizeOf(length, d.nextChunk)
  <2>1. size = SizeOf(length, d.nextChunk) BY <1>1, Sizes
  <2>2. SizeOf(length, d.nextChunk) \in Nat BY <1>1, Parts
  <2> QED BY <2>1, <2>2
<1>3. NewBuf \in Buf /\ fresh \in Buf /\ fresh.size = size /\ fresh.data = <<>>
      /\ fresh.off = 0
  <2>1. PartSize \in Nat /\ <<>> \in Seq(Nat) OBVIOUS
  <2> QED BY <1>2, <2>1 DEF NewBuf, Buf
<1> HIDE DEF fresh
<1>4. /\ bufs \in Seq(Buf) /\ Len(bufs) = Len(d.bufs) + more
      /\ more = 0 \/ more = 1
      /\ \A i \in 1..Len(d.bufs) : bufs[i] = d.bufs[i]
      /\ Len(bufs) \in Nat
  <2>1. CASE grows
    <3>1. bufs = Append(d.bufs, NewBuf) /\ more = 1 BY <2>1
    <3> HIDE DEF bufs, more
    <3> QED BY <1>1, <1>3, <3>1
  <2>2. CASE ~grows
    <3>1. bufs = d.bufs /\ more = 0 BY <2>2
    <3> HIDE DEF bufs, more
    <3> QED BY <1>1, <3>1
  <2> QED BY <2>1, <2>2
<1>5. b \in 1..Len(bufs) /\ b = IF grows THEN Len(bufs) ELSE BufOf(d.nextChunk, bufs)
  <2>1. CASE grows BY <1>1, <1>4, <2>1 DEF NextPlace
  <2>2. CASE ~grows
    <3>1. d.bufs # <<>> BY <2>2
    <3>2. BufOf(d.nextChunk, d.bufs) \in 1..Len(d.bufs) BY <1>1, <3>1, Places
    <3> QED BY <1>4, <2>2, <3>2 DEF NextPlace
  <2> QED BY <2>1, <2>2
<1>6. e = IF d.pos >= length THEN f ELSE g
  <2>1. IsNewBuf(new) = grows BY DEF IsNewBuf
  <2>2. d.pos >= length <=> ~(d.pos < length) BY <1>1
  <2> QED BY <1>5, <2>1 DEF Enqueued, fresh
<1>7. c \in Int BY <1>1
<1> HIDE DEF bufs, b, c, more
<1>8. ch \in Chunk /\ ch.id = d.nextChunk /\ ch.buf = b /\ ch.start = d.pos /\ ch.size = size
  <2>1. b \in Nat
    <3>1. b \in 1..Len(bufs) /\ Len(bufs) \in Nat BY <1>4, <1>5
    <3> QED BY <3>1
  <2> QED BY <1>1, <1>2, <2>1 DEF Chunk
<1> HIDE DEF size, ch
<1>9. /\ f \in Tracks /\ f.closed = d.closed /\ f.err = d.err /\ f.done = d.done
      /\ f.concurrency = c /\ f.bufs = bufs /\ f.chunks = d.chunks /\ f.pos = d.pos
      /\ f.nextChunk = d.nextChunk
  BY <1>1, <1>4, <1>7 DEF Tracks
<1> DEFINE m == [bufs EXCEPT ![b] = fresh]
           q == Append(d.chunks, ch)
<1>10. /\ m \in Seq(Buf) /\ Len(m) = Len(bufs) /\ m[b] = fresh
       /\ \A i \in 1..Len(bufs) : i # b => m[i] = bufs[i]
  <2>1. bufs \in Seq(Buf) /\ b \in 1..Len(bufs) /\ fresh \in Buf BY <1>3, <1>4, <1>5
  <2> QED BY <2>1, Replaced
<1>11. q \in Seq(Chunk) BY <1>1, <1>8
<1>12. d.pos + size \in Nat /\ d.nextChunk + 1 \in Nat BY <1>1, <1>2, SMTT(30)
<1>13. g = [f EXCEPT !.bufs = m, !.chunks = q, !.pos = d.pos + size,
                     !.nextChunk = d.nextChunk + 1]
  BY <1>9
<1> HIDE DEF f, m, q, g
<1>14. /\ g \in Tracks /\ g.closed = d.closed /\ g.err = d.err /\ g.done = d.done
       /\ g.concurrency = c /\ g.bufs = m /\ g.chunks = q /\ g.pos = d.pos + size
       /\ g.nextChunk = d.nextChunk + 1
  BY <1>9, <1>10, <1>11, <1>12, <1>13 DEF Tracks
<1>15. CASE d.pos >= length
  <2>1. e = f /\ ~(d.pos < length) BY <1>1, <1>6, <1>15
  <2>2. /\ grows => Len(bufs) = Len(d.bufs) + 1
        /\ ~grows => Len(bufs) = Len(d.bufs)
    <3>1. /\ grows => more = 1
          /\ ~grows => more = 0
      BY DEF more
    <3> QED BY <1>1, <1>4, <3>1
  <2> QED BY <1>4, <1>9, <1>15, <2>1, <2>2 DEF c
<1>16. CASE ~(d.pos >= length)
  <2>1. e = g BY <1>6, <1>16
  <2>2. \A i \in 1..Len(d.bufs) : i \in 1..Len(bufs)
    <3>1. Len(bufs) \in Nat /\ Len(d.bufs) <= Len(bufs) BY <1>1, <1>4
    <3> QED BY <1>1, <3>1
  <2>3. /\ e.chunks = Append(d.chunks, ch) /\ ch \in Chunk
        /\ ch.id = d.nextChunk /\ ch.buf = b /\ ch.start = d.pos
        /\ ch.size = SizeOf(length, d.nextChunk)
        /\ e.pos = d.pos + ch.size /\ e.nextChunk = d.nextChunk + 1
        /\ e.bufs[b].size = ch.size /\ e.bufs[b].data = <<>> /\ e.bufs[b].off = 0
    BY <1>2, <1>3, <1>8, <1>10, <1>14, <2>1 DEF q
  <2>4. \A i \in 1..Len(d.bufs) : i # b => e.bufs[i] = d.bufs[i]
    BY <1>4, <1>10, <1>14, <2>1, <2>2
  <2>5. /\ grows => Len(e.bufs) = Len(d.bufs) + 1
        /\ ~grows => Len(e.bufs) = Len(d.bufs)
    <3>1. Len(e.bufs) = Len(d.bufs) + more BY <1>4, <1>10, <1>14, <2>1
    <3>2. /\ grows => more = 1
          /\ ~grows => more = 0
      BY DEF more
    <3> QED BY <1>1, <3>1, <3>2
  <2>6. /\ e \in Tracks /\ e.closed = d.closed /\ e.err = d.err /\ e.done = d.done
        /\ e.concurrency = c
    BY <1>14, <2>1
  <2> QED BY <1>16, <2>3, <2>4, <2>5, <2>6 DEF b, c
<1> QED BY <1>15, <1>16

\* Every worker keeps its chunk.
KeepHands ==
    \A v \in Worker :
        /\ Has(worker'[v]) <=> Has(worker[v])
        /\ Has(worker[v]) =>
              worker'[v].chunk = worker[v].chunk /\ worker'[v].n = worker[v].n
        /\ worker'[v].n > 0 => worker'[v].pc = "copying"

\* A chunk may be sent: there is a new buffer for it, or the reader is done with the
\* one that comes round next.
Room ==
    \/ d.concurrency > 0 /\ Low' = Low
    \/ /\ Low' = Low + 1 /\ Low < d.nextChunk /\ ~d.done
       /\ d.bufs # <<>> /\ reader.pc # "closed"
       /\ Len(d.bufs[BufOf(Low, d.bufs)].data) = SizeOf(length, Low)

\* The buffers of the chunks the reader needs are not touched by a send.
LEMMA PlacesKept ==
    ASSUME TypeOK, Core, NEW new \in BOOLEAN, d' = Enqueued(new), Room
    PROVE  /\ \A id \in Nat : id < d.nextChunk => BufOf(id, d'.bufs) = BufOf(id, d.bufs)
           /\ \A id \in Nat : id < d.nextChunk /\ Low' <= id =>
                 d'.bufs[BufOf(id, d.bufs)] = d.bufs[BufOf(id, d.bufs)]
           /\ d.pos < length => BufOf(d.nextChunk, d'.bufs) = NextPlace
           /\ d'.bufs # <<>>
<1>1. /\ d.bufs \in Seq(Buf) /\ Len(d.bufs) \in Nat /\ d.nextChunk \in Nat /\ Low \in Nat
      /\ d.concurrency \in Int /\ length \in Nat /\ d.pos \in Nat
  BY Typed
<1>2. d.concurrency > 0 \/ d.bufs # <<>> BY DEF Room
<1>3. /\ d' \in Tracks
      /\ d.concurrency > 0 => Len(d'.bufs) = Len(d.bufs) + 1
      /\ ~(d.concurrency > 0) => Len(d'.bufs) = Len(d.bufs)
      /\ \A i \in 1..Len(d.bufs) :
            d.pos >= length \/ i # NextPlace => d'.bufs[i] = d.bufs[i]
  BY <1>2, EnqueuedIs
<1>4. d'.bufs \in Seq(Buf) BY <1>3 DEF Tracks
<1>5. CASE d.concurrency > 0
  <2>1. Len(d'.bufs) = Len(d.bufs) + 1 /\ d'.bufs # <<>> BY <1>1, <1>3, <1>4, <1>5
  <2>2. d.nextChunk <= Len(d.bufs) BY <1>5 DEF Core, Counts
  <2>3. \A id \in Nat : id < Len(d'.bufs) => BufOf(id, d'.bufs) = id + 1
    BY <1>4, <2>1, Places
  <2>4. \A id \in Nat : id < Len(d.bufs) => BufOf(id, d.bufs) = id + 1
    <3>1. CASE d.bufs = <<>> BY <3>1
    <3>2. CASE d.bufs # <<>> BY <1>1, <3>2, Places
    <3> QED BY <3>1, <3>2
  <2>5. NextPlace = Len(d.bufs) + 1 BY <1>5 DEF NextPlace
  <2>6. ASSUME NEW id \in Nat, id < d.nextChunk
        PROVE  /\ BufOf(id, d'.bufs) = id + 1 /\ BufOf(id, d.bufs) = id + 1
               /\ id + 1 \in 1..Len(d.bufs) /\ id + 1 # NextPlace
    <3>1. id < Len(d.bufs) /\ id < Len(d'.bufs) BY <1>1, <2>1, <2>2, <2>6, SMTT(30)
    <3>2. BufOf(id, d'.bufs) = id + 1 /\ BufOf(id, d.bufs) = id + 1
      BY <2>3, <2>4, <3>1
    <3> QED BY <1>1, <2>5, <3>1, <3>2
  <2>7. ASSUME d.pos < length PROVE BufOf(d.nextChunk, d'.bufs) = NextPlace
    <3>1. d.nextChunk = Len(d.bufs) BY <1>5, <2>7 DEF Core, Counts
    <3> QED BY <1>1, <2>1, <2>3, <2>5, <3>1
  <2> QED BY <1>3, <2>1, <2>6, <2>7
<1>6. CASE ~(d.concurrency > 0)
  <2>1. Len(d'.bufs) = Len(d.bufs) BY <1>1, <1>3, <1>6
  <2>2. \A id \in Nat : BufOf(id, d'.bufs) = BufOf(id, d.bufs) BY <2>1 DEF BufOf
  <2>3. NextPlace = BufOf(d.nextChunk, d.bufs) BY <1>6 DEF NextPlace
  <2>4. Low' = Low + 1 /\ d.bufs # <<>> /\ reader.pc # "closed" BY <1>6 DEF Room
  <2>5. d.nextChunk <= Low + Len(d.bufs)
    <3>1. Cardinality(Started) \in Nat BY Workforce DEF Started
    <3>2. Cardinality(Started) <= Len(d.bufs) /\ d.nextChunk <= Low + Cardinality(Started)
      BY <2>4 DEF Core, Counts
    <3> QED BY <1>1, <3>1, <3>2
  <2>6. ASSUME NEW id \in Nat, id < d.nextChunk, Low' <= id
        PROVE  BufOf(id, d.bufs) # NextPlace /\ BufOf(id, d.bufs) \in 1..Len(d.bufs)
    <3>1. d.nextChunk < id + Len(d.bufs) BY <1>1, <2>4, <2>5, <2>6
    <3>2. BufOf(id, d.bufs) # BufOf(d.nextChunk, d.bufs)
      BY <1>1, <2>4, <2>6, <3>1, Places
    <3> QED BY <1>1, <2>3, <2>4, <3>2, Places
  <2>7. d'.bufs # <<>> BY <1>1, <1>4, <2>1, <2>4
  <2> QED BY <1>1, <1>3, <2>2, <2>3, <2>6, <2>7
<1> QED BY <1>5, <1>6

\* A chunk that fills its buffer is copied to its end.
LEMMA CutFills ==
    ASSUME NEW l \in Nat, NEW e, NEW ch \in Chunk, NEW n \in Nat, Cut(l, e, ch.id, ch, n),
           ~e.done, e.bufs # <<>>,
           Len(e.bufs[BufOf(ch.id, e.bufs)].data) = SizeOf(l, ch.id)
    PROVE  n = ch.size
<1>1. ch.id \in Nat /\ ch.start \in Nat /\ ch.size \in Nat BY DEF Chunk
<1>2. /\ StartOf(l, ch.id) \in Nat /\ SizeOf(l, ch.id) \in Nat
      /\ StartOf(l, ch.id + 1) = StartOf(l, ch.id) + SizeOf(l, ch.id)
  BY <1>1, Parts
<1>3. /\ ch.buf = BufOf(ch.id, e.bufs)
      /\ ch.start + ch.size = StartOf(l, ch.id + 1)
      /\ Len(e.bufs[ch.buf].data) = (ch.start - StartOf(l, ch.id)) + n
  BY <1>1 DEF Cut
<1>4. (ch.start - StartOf(l, ch.id)) + n = SizeOf(l, ch.id) BY <1>3
<1>5. ch.start + ch.size = StartOf(l, ch.id) + SizeOf(l, ch.id) BY <1>2, <1>3
<1> DEFINE a == ch.start
           b == ch.size
           st == StartOf(l, ch.id)
           z == SizeOf(l, ch.id)
<1>6. /\ a \in Nat /\ b \in Nat /\ st \in Nat /\ z \in Nat /\ a + b = st + z
      /\ (a - st) + n = z /\ n \in Nat
  BY <1>1, <1>2, <1>4, <1>5
<1> HIDE DEF a, b, st, z
<1>7. n = b BY <1>6
<1> QED BY <1>7 DEF b

\* A chunk stays well cut when another is sent.
LEMMA CutSent ==
    ASSUME TypeOK, Core, NEW new \in BOOLEAN, d' = Enqueued(new), Room,
           NEW ch \in Chunk, NEW n \in Nat, Cut(length, d, Low, ch, n)
    PROVE  Cut(length, d', Low', ch, n)
<1>1. /\ ch.id \in Nat /\ d.nextChunk \in Nat /\ Low \in Nat /\ length \in Nat
      /\ d.pos \in Nat
  BY Typed DEF Chunk
<1>2. /\ \A id \in Nat : id < d.nextChunk => BufOf(id, d'.bufs) = BufOf(id, d.bufs)
      /\ \A id \in Nat : id < d.nextChunk /\ Low' <= id =>
            d'.bufs[BufOf(id, d.bufs)] = d.bufs[BufOf(id, d.bufs)]
  BY PlacesKept
<1>3. d.concurrency > 0 \/ d.bufs # <<>> BY DEF Room
<1>4. /\ d'.done = d.done
      /\ d'.nextChunk = d.nextChunk \/ d'.nextChunk = d.nextChunk + 1
  <2>1. d'.done = d.done BY <1>3, EnqueuedIs
  <2>2. CASE d.pos >= length BY <1>3, <2>2, EnqueuedIs
  <2>3. CASE d.pos < length BY <1>3, <2>3, EnqueuedIs
  <2> QED BY <1>1, <2>1, <2>2, <2>3
<1>5. /\ ch.id < d.nextChunk
      /\ StartOf(length, ch.id) <= ch.start
      /\ ch.start + ch.size = StartOf(length, ch.id + 1)
      /\ d.bufs # <<>> => ch.buf = BufOf(ch.id, d.bufs)
      /\ n <= ch.size
      /\ ch.id < Low => n = ch.size
      /\ ~d.done /\ ch.id >= Low =>
            Len(d.bufs[ch.buf].data) = (ch.start - StartOf(length, ch.id)) + n
  BY DEF Cut
<1>6. d.bufs # <<>>
  <2>1. CASE d.concurrency > 0
    <3>1. d.nextChunk <= Len(d.bufs) BY <2>1 DEF Core, Counts
    <3> QED BY <1>1, <1>5, <3>1
  <2>2. CASE ~(d.concurrency > 0) BY <1>3, <2>2
  <2> QED BY <2>1, <2>2
<1>7. ch.id < Low' => n = ch.size
  <2>1. CASE Low' = Low BY <1>5, <2>1
  <2>2. CASE Low' = Low + 1 /\ ch.id = Low
    <3>1. /\ ~d.done /\ Len(d.bufs[BufOf(Low, d.bufs)].data) = SizeOf(length, Low)
      BY <1>1, <2>2 DEF Room
    <3> QED BY <1>1, <1>6, <2>2, <3>1, CutFills
  <2>3. CASE Low' = Low + 1 /\ ch.id # Low BY <1>1, <1>5, <2>3
  <2> QED BY <2>1, <2>2, <2>3 DEF Room
<1>8. Low <= Low' BY <1>1 DEF Room
<1>9. ch.id < d'.nextChunk BY <1>1, <1>4, <1>5
<1>10. ch.buf = BufOf(ch.id, d'.bufs) BY <1>1, <1>2, <1>5, <1>6
<1>11. ASSUME ~d'.done, ch.id >= Low'
       PROVE  Len(d'.bufs[ch.buf].data) = (ch.start - StartOf(length, ch.id)) + n
  <2>1. Low' \in Nat BY <1>1 DEF Room
  <2>2. d'.bufs[ch.buf] = d.bufs[ch.buf] BY <1>1, <1>2, <1>5, <1>6, <1>11, <2>1
  <2>3. ch.id >= Low BY <1>1, <1>8, <1>11, <2>1
  <2> QED BY <1>4, <1>5, <1>11, <2>2, <2>3
<1> QED BY <1>5, <1>7, <1>9, <1>10, <1>11 DEF Cut

\* Nothing is sent when the range has no byte left.
SendNothing ==
    /\ ~(d.pos < length) /\ d.nextChunk = PartsOf(length)
    /\ d'.chunks = d.chunks /\ d'.pos = d.pos /\ d'.nextChunk = d.nextChunk

\* Chunk ch is sent: it is the next part, in a buffer made new.
SendChunk(ch) ==
    /\ d.nextChunk < PartsOf(length)
    /\ d'.chunks = Append(d.chunks, ch)
    /\ ch.id = d.nextChunk
    /\ ch.start = StartOf(length, d.nextChunk)
    /\ ch.buf = BufOf(ch.id, d'.bufs)
    /\ d'.pos = StartOf(length, d.nextChunk + 1)
    /\ ch.start + ch.size = d'.pos
    /\ d'.nextChunk = d.nextChunk + 1
    /\ d'.bufs[ch.buf].size = SizeOf(length, ch.id)
    /\ d'.bufs[ch.buf].data = <<>> /\ d'.bufs[ch.buf].off = 0

\* What a send does to the chunks: one more is in the channel, with the next number,
\* or the range has no byte left and there are as many chunks as parts.
LEMMA SendIs ==
    ASSUME TypeOK, Core, NEW new \in BOOLEAN, d' = Enqueued(new), Room
    PROVE  /\ PartsOf(length) >= 2
           /\ \/ SendNothing
              \/ d.pos < length /\ \E ch \in Chunk : SendChunk(ch)
<1>1. /\ d.nextChunk \in Nat /\ length \in Nat /\ d.pos \in Nat /\ d.concurrency \in Int
      /\ Low \in Nat
  BY Typed
<1>2. d.concurrency > 0 \/ d.bufs # <<>> BY DEF Room
<1>3. /\ d.nextChunk <= PartsOf(length) /\ d.pos = StartOf(length, d.nextChunk)
      /\ d.nextChunk > 0 \/ d.concurrency > 0 => PartsOf(length) >= 2
  BY DEF Core, Cuts
<1>4. PartsOf(length) \in Nat /\ PartsOf(length) >= 2
  <2>1. PartsOf(length) \in Nat BY <1>1, Parts
  <2>2. Low < d.nextChunk => d.nextChunk > 0 BY <1>1
  <2> QED BY <1>3, <2>1, <2>2 DEF Room
<1>5. CASE ~(d.pos < length)
  <2>1. d.nextChunk = PartsOf(length)
    <3>1. CASE d.nextChunk < PartsOf(length)
      <4>1. StartOf(length, d.nextChunk + 1) <= length BY <1>1, <1>4, <3>1, Parts
      <4>2. /\ StartOf(length, d.nextChunk + 1) =
                  StartOf(length, d.nextChunk) + SizeOf(length, d.nextChunk)
            /\ SizeOf(length, d.nextChunk) \in Nat \ {0}
        BY <1>1, Parts
      <4> QED BY <1>1, <1>3, <1>5, <4>1, <4>2
    <3> QED BY <1>1, <1>3, <1>4, <3>1
  <2>2. d.pos >= length BY <1>1, <1>5
  <2>3. d'.chunks = d.chunks /\ d'.pos = d.pos /\ d'.nextChunk = d.nextChunk
    BY <1>2, <2>2, EnqueuedIs
  <2> QED BY <1>4, <1>5, <2>1, <2>3 DEF SendNothing
<1>6. CASE d.pos < length
  <2>1. PICK ch \in Chunk :
           /\ d'.chunks = Append(d.chunks, ch)
           /\ ch.id = d.nextChunk /\ ch.buf = NextPlace /\ ch.start = d.pos
           /\ ch.size = SizeOf(length, d.nextChunk)
           /\ d'.pos = d.pos + ch.size /\ d'.nextChunk = d.nextChunk + 1
           /\ d'.bufs[NextPlace].size = ch.size
           /\ d'.bufs[NextPlace].data = <<>> /\ d'.bufs[NextPlace].off = 0
    BY <1>2, <1>6, EnqueuedIs, SMTT(30)
  <2>2. StartOf(length, d.nextChunk + 1) =
           StartOf(length, d.nextChunk) + SizeOf(length, d.nextChunk)
    BY <1>1, Parts
  <2>3. BufOf(d.nextChunk, d'.bufs) = NextPlace BY <1>6, PlacesKept
  <2>4. d.nextChunk < PartsOf(length)
    <3>1. StartOf(length, PartsOf(length)) = length BY <1>1, <1>4, Parts
    <3> QED BY <1>1, <1>3, <1>4, <1>6, <3>1
  <2>5. SendChunk(ch) BY <1>3, <2>1, <2>2, <2>3, <2>4 DEF SendChunk
  <2> QED BY <1>4, <1>6, <2>5
<1> QED BY <1>5, <1>6

\* A send keeps the chunks well cut, apart and in their buffers.
LEMMA SendKeeps ==
    ASSUME TypeOK, Core, NEW new \in BOOLEAN, d' = Enqueued(new), Room, KeepHands,
           length' = length, reader'.rPos = reader.rPos
    PROVE  Cuts' /\ Once' /\ Buffers'
<1>1. /\ d.nextChunk \in Nat /\ length \in Nat /\ Low \in Nat /\ reader.rPos \in Nat
      /\ d.chunks \in Seq(Chunk) /\ Len(d.chunks) \in Nat /\ worker \in [Worker -> Hand]
      /\ \A i \in 1..Len(d.chunks) : d.chunks[i] \in Chunk /\ d.chunks[i].id \in Nat
      /\ d.concurrency \in Int
  BY Typed
<1>2. /\ \A id \in Nat : id < d.nextChunk => BufOf(id, d'.bufs) = BufOf(id, d.bufs)
      /\ \A id \in Nat : id < d.nextChunk /\ Low' <= id =>
            d'.bufs[BufOf(id, d.bufs)] = d.bufs[BufOf(id, d.bufs)]
      /\ d'.bufs # <<>>
  BY PlacesKept
<1>3. d.concurrency > 0 \/ d.bufs # <<>> BY DEF Room
<1>4. d'.done = d.done /\ d'.err = d.err BY <1>3, EnqueuedIs
<1>5. Low' \in Nat /\ Low <= Low' /\ Low' <= d.nextChunk
  <2>1. Low <= d.nextChunk BY DEF Core, Counts
  <2> QED BY <1>1, <2>1 DEF Room
<1>6. /\ \A i \in 1..Len(d.chunks) : Cut(length, d', Low', d.chunks[i], 0)
      /\ \A v \in Worker : Has(worker'[v]) =>
            Cut(length, d', Low', worker'[v].chunk, worker'[v].n)
  <2>1. ASSUME NEW i \in 1..Len(d.chunks) PROVE Cut(length, d', Low', d.chunks[i], 0)
    <3>1. Cut(length, d, Low, d.chunks[i], 0) /\ d.chunks[i] \in Chunk
      BY <1>1 DEF Core, Cuts
    <3> QED BY <3>1, CutSent
  <2>2. ASSUME NEW v \in Worker, Has(worker'[v])
        PROVE  Cut(length, d', Low', worker'[v].chunk, worker'[v].n)
    <3>1. /\ Cut(length, d, Low, worker[v].chunk, worker[v].n)
          /\ worker'[v].chunk = worker[v].chunk /\ worker'[v].n = worker[v].n
      BY <2>2 DEF Core, Cuts, KeepHands
    <3>2. worker[v].chunk \in Chunk /\ worker[v].n \in Nat BY <1>1, HandTyped
    <3> QED BY <3>1, <3>2, CutSent
  <2> QED BY <2>1, <2>2
<1>7. \A i \in 1..Len(d.chunks) : d.chunks[i].id < d.nextChunk
  BY DEF Core, Cuts, Cut
<1>8. \A v \in Worker : Has(worker'[v]) =>
         /\ Has(worker[v]) /\ worker'[v].chunk = worker[v].chunk
         /\ worker'[v].chunk.id < d.nextChunk
  BY DEF Core, Cuts, Cut, KeepHands
<1>9. \A v \in Worker : worker'[v].n > 0 => worker'[v].pc = "copying" BY DEF KeepHands
<1>10. \A id \in Low'..(d.nextChunk - 1) :
          LET b == d'.bufs[BufOf(id, d'.bufs)]
          IN  ~d'.done => /\ Filled(length, id, b, reader.rPos)
                          /\ ~d'.err /\ Fetched(id) => Len(b.data) = b.size
  <2> SUFFICES ASSUME NEW id \in Low'..(d.nextChunk - 1), ~d'.done
               PROVE  LET b == d.bufs[BufOf(id, d.bufs)]
                      IN  /\ Filled(length, id, b, reader.rPos)
                          /\ ~d'.err /\ Fetched(id) => Len(b.data) = b.size
    <3>1. ASSUME NEW id \in Low'..(d.nextChunk - 1)
          PROVE  d'.bufs[BufOf(id, d'.bufs)] = d.bufs[BufOf(id, d.bufs)]
      <4>1. id \in Nat /\ id < d.nextChunk /\ Low' <= id BY <1>1, <1>5
      <4> QED BY <1>2, <4>1
    <3> QED BY <3>1
  <2>1. id \in Low..(d.nextChunk - 1) BY <1>1, <1>5
  <2> QED BY <1>4, <2>1 DEF Core, Buffers
<1>11. PartsOf(length) >= 2 BY SendIs
<1>12. CASE SendNothing
  <2>1. d'.chunks = d.chunks /\ d'.pos = d.pos /\ d'.nextChunk = d.nextChunk
    BY <1>12 DEF SendNothing
  <2>2. Cuts' BY <1>6, <1>9, <1>11, <2>1 DEF Core, Cuts
  <2>3. Once' BY <1>8, <2>1 DEF Core, Once
  <2>4. \A id : Fetched(id)' => Fetched(id) BY <2>1 DEF Fetched, KeepHands
  <2>5. Buffers' BY <1>10, <2>1, <2>4 DEF Buffers
  <2> QED BY <2>2, <2>3, <2>5
<1>13. ASSUME NEW ch \in Chunk, SendChunk(ch)
       PROVE  Cuts' /\ Once' /\ Buffers'
  <2>1. /\ d.nextChunk < PartsOf(length)
        /\ d'.chunks = Append(d.chunks, ch)
        /\ ch.id = d.nextChunk
        /\ ch.start = StartOf(length, d.nextChunk)
        /\ ch.buf = BufOf(ch.id, d'.bufs)
        /\ d'.pos = StartOf(length, d.nextChunk + 1)
        /\ ch.start + ch.size = d'.pos
        /\ d'.nextChunk = d.nextChunk + 1
        /\ d'.bufs[ch.buf].size = SizeOf(length, ch.id)
        /\ d'.bufs[ch.buf].data = <<>> /\ d'.bufs[ch.buf].off = 0
    BY <1>13 DEF SendChunk
  <2>2. /\ Len(d'.chunks) = Len(d.chunks) + 1 /\ d'.chunks[Len(d.chunks) + 1] = ch
        /\ \A i \in 1..Len(d.chunks) : d'.chunks[i] = d.chunks[i]
        /\ \A i \in 1..Len(d'.chunks) : i \in 1..Len(d.chunks) \/ i = Len(d.chunks) + 1
        /\ \A i \in 1..Len(d.chunks) : i \in 1..Len(d'.chunks)
        /\ Len(d.chunks) + 1 \in 1..Len(d'.chunks)
    <3>1. d'.chunks = Append(d.chunks, ch) BY <2>1
    <3> QED BY <1>1, <3>1, Appended, SMTT(30)
  <2>3. Cut(length, d', Low', ch, 0)
    <3>1. ch.start \in Nat /\ ch.size \in Nat /\ ch.id \in Nat BY DEF Chunk
    <3>2. StartOf(length, ch.id) \in Nat BY <3>1, <1>1, Parts
    <3>3. ch.id < d'.nextChunk /\ ~(ch.id < Low') /\ 0 <= ch.size
      BY <1>1, <1>5, <2>1, <3>1, SMTT(30)
    <3>4. StartOf(length, ch.id) <= ch.start BY <2>1, <3>1
    <3>5. Len(d'.bufs[ch.buf].data) = (ch.start - StartOf(length, ch.id)) + 0
      BY <2>1, <3>1
    <3> QED BY <2>1, <3>3, <3>4, <3>5 DEF Cut
  <2>4. Cuts'
    <3>1. \A i \in 1..Len(d'.chunks) : Cut(length, d', Low', d'.chunks[i], 0)
      BY <1>6, <2>2, <2>3
    <3>2. d'.nextChunk <= PartsOf(length)
      <4>1. PartsOf(length) \in Nat BY <1>1, Parts
      <4> QED BY <1>1, <2>1, <4>1
    <3> QED BY <1>6, <1>9, <1>11, <2>1, <3>1, <3>2 DEF Cuts
  <2>5. Once'
    <3>1. \A i \in 1..Len(d.chunks) : d.chunks[i].id # ch.id BY <1>1, <1>7, <2>1
    <3>2. \A v \in Worker : Has(worker'[v]) => worker'[v].chunk.id # ch.id
      BY <1>1, <1>8, <2>1
    <3>3. \A i, j \in 1..Len(d'.chunks) : d'.chunks[i].id = d'.chunks[j].id => i = j
      <4> SUFFICES ASSUME NEW i \in 1..Len(d'.chunks), NEW j \in 1..Len(d'.chunks),
                          d'.chunks[i].id = d'.chunks[j].id
                   PROVE  i = j
        OBVIOUS
      <4>1. CASE i \in 1..Len(d.chunks) /\ j \in 1..Len(d.chunks)
        BY <2>2, <4>1 DEF Core, Once
      <4>2. CASE i = Len(d.chunks) + 1 \/ j = Len(d.chunks) + 1
        BY <2>2, <3>1, <4>2
      <4> QED BY <2>2, <4>1, <4>2
    <3>4. \A i \in 1..Len(d'.chunks) : \A w \in Worker :
             Has(worker'[w]) => d'.chunks[i].id # worker'[w].chunk.id
      <4> SUFFICES ASSUME NEW i \in 1..Len(d'.chunks), NEW w \in Worker, Has(worker'[w])
                   PROVE  d'.chunks[i].id # worker'[w].chunk.id
        OBVIOUS
      <4>1. CASE i \in 1..Len(d.chunks)
        <5>1. Has(worker[w]) /\ worker'[w].chunk = worker[w].chunk BY <1>8
        <5>2. d.chunks[i].id # worker[w].chunk.id BY <4>1, <5>1 DEF Core, Once
        <5> QED BY <2>2, <4>1, <5>1, <5>2
      <4>2. CASE i = Len(d.chunks) + 1 BY <2>2, <3>2, <4>2
      <4> QED BY <2>2, <4>1, <4>2
    <3> QED BY <1>8, <3>3, <3>4 DEF Core, Once
  <2>6. Buffers'
    <3> SUFFICES ASSUME ~d'.done, NEW id \in Low'..(d'.nextChunk - 1)
                 PROVE  LET b == d'.bufs[BufOf(id, d'.bufs)]
                        IN  /\ Filled(length, id, b, reader.rPos)
                            /\ ~d'.err /\ Fetched(id)' => Len(b.data) = b.size
      BY DEF Buffers
    <3>1. CASE id = d.nextChunk
      <4>1. ~Fetched(id)' BY <2>1, <2>2, <3>1 DEF Fetched
      <4>2. SizeOf(length, id) \in Nat BY <1>1, <3>1, Parts
      <4>3. Filled(length, id, d'.bufs[BufOf(id, d'.bufs)], reader.rPos)
        BY <2>1, <3>1, <4>2 DEF Filled
      <4> QED BY <4>1, <4>3
    <3>2. CASE id # d.nextChunk
      <4>1. id \in Low'..(d.nextChunk - 1) BY <1>1, <1>5, <2>1, <3>2
      <4>2. Fetched(id)' => Fetched(id) BY <2>2 DEF Fetched, KeepHands
      <4> QED BY <1>10, <4>1, <4>2
    <3> QED BY <3>1, <3>2
  <2> QED BY <2>4, <2>5, <2>6
<1> QED BY <1>12, <1>13, SendIs

\* While workers remain to be started there is one that was not.
LEMMA FreshIs ==
    ASSUME TypeOK, Core, d.concurrency > 0
    PROVE  /\ Fresh \in Worker /\ worker[Fresh].pc = "none" /\ worker[Fresh].n = 0
           /\ Cardinality(Started \cup {Fresh}) = Cardinality(Started) + 1
           /\ Cardinality(Live \cup {Fresh}) = Cardinality(Live) + 1
<1> DEFINE k == Cardinality(Started)
<1>1. IsFiniteSet(Started) /\ k \in Nat BY Workforce DEF Started
<1>2. d.concurrency \in Int /\ length \in Nat /\ Concurrency \in Nat BY Typed
<1>3. Workers \in Nat /\ Workers <= Concurrency BY <1>2, Sizes
<1>4. k + Most(d.concurrency, 0) <= Workers BY DEF Core, Counts
<1>5. k < Concurrency
  <2>1. Most(d.concurrency, 0) = d.concurrency BY <1>2 DEF Most
  <2> HIDE DEF k
  <2> QED BY <1>1, <1>2, <1>3, <1>4, <2>1
<1>6. Started # Worker BY <1>1, <1>2, <1>5, Workforce
<1>7. \E w \in Worker : worker[w].pc = "none" BY <1>6 DEF Started
<1>8. Fresh \in Worker /\ worker[Fresh].pc = "none" BY <1>7 DEF Fresh
<1>9. worker[Fresh].n = 0 BY <1>8, NothingYet
<1>10. Fresh \notin Started /\ Fresh \in Worker \ Live BY <1>8 DEF Started, Live
<1>11. Cardinality(Started \cup {Fresh}) = k + 1 BY <1>1, <1>10, FS_AddElement
<1> QED BY <1>8, <1>9, <1>10, <1>11, LiveCount

\* A send keeps the counts: a worker more and one less to start, or the reader needs
\* one chunk less.
LEMMA SendCounts ==
    ASSUME TypeOK, Core, NEW new \in BOOLEAN, d' = Enqueued(new), Room, length' = length,
           reader'.pc = "closed" <=> reader.pc = "closed",
           new => /\ d.concurrency > 0 /\ Low' = Low
                  /\ Cardinality(Started') = Cardinality(Started) + 1,
           ~new => Low' = Low + 1 /\ Started' = Started
    PROVE  Counts'
<1> DEFINE k == Cardinality(Started)
           m == Cardinality(Started')
           n == Len(d.bufs)
           c == d.concurrency
<1>1. /\ d.nextChunk \in Nat /\ length \in Nat /\ Low \in Nat /\ c \in Int /\ n \in Nat
      /\ d.pos \in Nat
  BY Typed
<1>2. k \in Nat BY Workforce DEF Started
<1>3. Workers \in Nat /\ Workers' = Workers BY <1>1, Sizes DEF Workers, MaxPart
<1>4. d.concurrency > 0 \/ d.bufs # <<>> BY DEF Room
<1>5. /\ d'.concurrency = IF new THEN c - 1 ELSE c
      /\ c > 0 => Len(d'.bufs) = n + 1
      /\ ~(c > 0) => Len(d'.bufs) = n
  BY <1>4, EnqueuedIs
<1>6. \/ ~(d.pos < length) /\ d'.nextChunk = d.nextChunk /\ d'.pos = d.pos
      \/ d.pos < length /\ d'.nextChunk = d.nextChunk + 1
  BY SendIs DEF SendNothing, SendChunk
<1>7. /\ k + Most(c, 0) <= Workers
      /\ reader.pc # "closed" => k <= n
      /\ c > 0 => d.nextChunk <= n
      /\ c > 0 /\ d.pos < length => d.nextChunk = n
      /\ Low <= d.nextChunk
      /\ d.nextChunk <= Low + k
  BY DEF Core, Counts
<1>8. /\ new => c > 0 /\ Low' = Low /\ m = k + 1
      /\ ~new => Low' = Low + 1 /\ m = k /\ Low < d.nextChunk
  BY <1>1 DEF Room
<1> HIDE DEF k, m, n, c
<1>9. m + Most(d'.concurrency, 0) <= Workers
  <2>1. CASE new BY <1>1, <1>2, <1>3, <1>5, <1>7, <1>8, <2>1 DEF Most
  <2>2. CASE ~new BY <1>1, <1>2, <1>3, <1>5, <1>7, <1>8, <2>2 DEF Most
  <2> QED BY <2>1, <2>2
<1>10. /\ reader'.pc # "closed" => m <= Len(d'.bufs)
       /\ Low' <= d'.nextChunk
       /\ d'.nextChunk <= Low' + m
  <2>1. d'.nextChunk = d.nextChunk \/ d'.nextChunk = d.nextChunk + 1 BY <1>6
  <2>2. CASE new
    <3>1. Low' = Low /\ m = k + 1 /\ Len(d'.bufs) = n + 1 BY <1>5, <1>8, <2>2
    <3>2. Low <= d.nextChunk /\ d.nextChunk <= Low + k BY <1>7
    <3> QED BY <1>1, <1>2, <1>7, <2>1, <3>1, <3>2, SMTT(30)
  <2>3. CASE ~new
    <3>1. Low' = Low + 1 /\ m = k /\ Low < d.nextChunk BY <1>8, <2>3
    <3>2. d.nextChunk <= Low + k BY <1>7
    <3>3. Len(d'.bufs) = n \/ Len(d'.bufs) = n + 1 BY <1>5
    <3>4. reader'.pc # "closed" => m <= Len(d'.bufs)
      BY <1>1, <1>2, <1>7, <3>1, <3>3
    <3>5. Low' <= d'.nextChunk BY <1>1, <2>1, <3>1
    <3>6. d'.nextChunk <= Low' + m
      <4>1. d'.nextChunk <= d.nextChunk + 1 BY <1>1, <2>1
      <4>2. d'.nextChunk \in Nat BY <1>1, <2>1
      <4> QED BY <1>1, <1>2, <3>1, <3>2, <4>1, <4>2
    <3> QED BY <3>4, <3>5, <3>6
  <2> QED BY <2>2, <2>3
<1>11. /\ d'.concurrency > 0 => d'.nextChunk <= Len(d'.bufs)
       /\ d'.concurrency > 0 /\ d'.pos < length => d'.nextChunk = Len(d'.bufs)
  <2>1. d'.concurrency > 0 => c > 0 BY <1>1, <1>5
  <2> QED BY <1>1, <1>5, <1>6, <1>7, <2>1, SMTT(30)
<1> QED BY <1>3, <1>9, <1>10, <1>11 DEF Counts, m

\* The reader is done with a chunk, and sends for one more, or reached the end.
LEMMA FinishBufInv ==
    ASSUME IInv, ~crashed, FinishBuf
    PROVE  IInv'
<1>1. /\ TypeOK /\ Core /\ reader.rPos \in Nat /\ length \in Nat /\ d.nextChunk \in Nat
      /\ reader \in [pc : ReaderPc, rPos : Nat, buf : Nat \ {0}] /\ d.bufs \in Seq(Buf)
      /\ d \in Tracks
  BY Typed DEF IInv
<1>2. /\ reader.pc = "reading" /\ ~d.done /\ Buffer.off >= Buffer.size
      /\ UNCHANGED <<length, limit, others, worker, delivered>>
  BY DEF FinishBuf
<1>3. /\ Low = reader.rPos /\ Low < d.nextChunk /\ d.bufs # <<>> /\ ~d.closed
      /\ Buffer = d.bufs[BufOf(Low, d.bufs)]
      /\ delivered = [i \in 1..(StartOf(length, Low) + Buffer.off) |-> i - 1]
  BY <1>1, <1>2 DEF Core, Reading, Phases, Early, Low, Buffer
<1>4. /\ Len(Buffer.data) = SizeOf(length, Low)
      /\ StartOf(length, Low) + Buffer.off = StartOf(length, Low + 1)
  <2>1. Low \in Low..(d.nextChunk - 1) BY <1>1, <1>3
  <2>2. Filled(length, Low, Buffer, reader.rPos)
    BY <1>1, <1>2, <1>3, <2>1 DEF Core, Buffers
  <2>3. BufOf(Low, d.bufs) \in 1..Len(d.bufs) BY <1>1, <1>3, Places
  <2>4. Buffer \in Buf BY <1>1, <1>3, <2>3
  <2>5. Buffer.off \in Nat /\ Len(Buffer.data) \in Nat BY <2>4 DEF Buf
  <2>6. Buffer.off = SizeOf(length, Low) /\ Len(Buffer.data) = SizeOf(length, Low)
    <3>1. SizeOf(length, Low) \in Nat BY <1>1, <1>3, Parts
    <3>2. /\ Buffer.size = SizeOf(length, Low) /\ Len(Buffer.data) <= Buffer.size
          /\ Buffer.off <= Len(Buffer.data)
      BY <2>2 DEF Filled
    <3> QED BY <1>2, <2>5, <3>1, <3>2
  <2>7. StartOf(length, Low + 1) = StartOf(length, Low) + SizeOf(length, Low)
    BY <1>1, <1>3, Parts
  <2> QED BY <2>6, <2>7
<1>5. CASE reader.rPos + 1 >= MaxPart
  <2>1. reader' = [reader EXCEPT !.pc = "eof"] /\ d' = d /\ crashed' = crashed
    BY <1>5 DEF FinishBuf
  <2>2. /\ reader'.pc = "eof" /\ reader'.rPos = reader.rPos
        /\ reader' \in [pc : ReaderPc, rPos : Nat, buf : Nat \ {0}]
    BY <1>1, <2>1 DEF ReaderPc
  <2>3. Low' = Low /\ Still(d, d') BY <1>3, <2>1, <2>2 DEF Low, Still
  <2>4. Cuts' /\ Once' /\ Buffers' /\ Counts'
    BY <1>1, <1>2, <2>1, <2>2, <2>3, ReaderKeeps
  <2>5. Phases' BY <1>1, <1>2, <2>1, <2>2 DEF Core, Phases, Early
  <2>6. Reading' BY <2>2 DEF Reading
  <2>7. TypeOK' BY <1>1, <1>2, <2>1, <2>2 DEF TypeOK
  <2>8. ConnectionsCounted' BY <1>2, <2>2 DEF IInv, ConnectionsCounted, Live
  <2> QED BY <2>4, <2>5, <2>6, <2>7, <2>8, WholeNext DEF Core
<1>6. CASE ~(reader.rPos + 1 >= MaxPart)
  <2>1. PICK new \in BOOLEAN : ~new /\ Sends(Enqueued(new))
    BY <1>6 DEF FinishBuf
  <2>2. ~crashed' /\ crashed' \in BOOLEAN /\ d' = Enqueued(new)
    BY <1>3, <2>1 DEF Sends
  <2>3. \E pc \in {"next", "waits"} : reader' = [reader EXCEPT !.pc = pc]
    BY <1>6 DEF FinishBuf
  <2>4. /\ reader'.pc \in {"next", "waits"} /\ reader'.rPos = reader.rPos
        /\ reader' \in [pc : ReaderPc, rPos : Nat, buf : Nat \ {0}]
    BY <1>1, <2>3 DEF ReaderPc
  <2>5. Low' = Low + 1 BY <1>3, <2>4 DEF Low
  <2>6. Room BY <1>2, <1>3, <1>4, <2>5 DEF Room
  <2>7. KeepHands BY <1>1, <1>2 DEF KeepHands, Core, Cuts
  <2>8. Cuts' /\ Once' /\ Buffers' BY <1>1, <1>2, <2>2, <2>4, <2>6, <2>7, SendKeeps
  <2>9. Started' = Started BY <1>2 DEF Started
  <2>10. Counts' BY <1>1, <1>2, <2>1, <2>2, <2>4, <2>5, <2>6, <2>9, SendCounts
  <2>11. /\ d' \in Tracks /\ d'.closed = d.closed /\ d'.err = d.err /\ d'.done = d.done
         /\ d'.bufs # <<>>
    <3>1. d'.bufs # <<>> BY <1>1, <2>2, <2>6, PlacesKept
    <3> QED BY <1>1, <1>3, <2>2, <3>1, EnqueuedIs
  <2>12. Phases' BY <1>1, <1>2, <2>4, <2>11 DEF Core, Phases, Early
  <2>13. Reading'
    <3>1. Low' < d'.nextChunk
      <4>1. MaxPart = PartsOf(length) /\ PartsOf(length) \in Nat BY <1>1, Sizes, Parts
      <4>2. \/ d.nextChunk = PartsOf(length) /\ d'.nextChunk = d.nextChunk
            \/ d'.nextChunk = d.nextChunk + 1
        BY <1>1, <2>2, <2>6, SendIs DEF SendNothing, SendChunk
      <4> QED BY <1>1, <1>3, <1>6, <2>5, <4>1, <4>2
    <3>2. delivered' = [i \in 1..StartOf(length', reader'.rPos + 1) |-> i - 1]
      BY <1>2, <1>3, <1>4, <2>4
    <3> QED BY <2>4, <3>1, <3>2 DEF Reading
  <2>14. TypeOK' BY <1>1, <1>2, <2>2, <2>4, <2>11 DEF TypeOK, Tracks, Buf
  <2>15. ConnectionsCounted' BY <1>2, <2>4 DEF IInv, ConnectionsCounted, Live
  <2> QED BY <2>8, <2>10, <2>12, <2>13, <2>14, <2>15, WholeNext DEF Core
<1> QED BY <1>5, <1>6

\* The first chunk is sent, and the first worker started.
LEMMA FirstTaskInv ==
    ASSUME IInv, ~crashed, FirstTask
    PROVE  IInv'
<1>1. /\ TypeOK /\ Core /\ length \in Nat /\ d \in Tracks /\ worker \in [Worker -> Hand]
      /\ reader \in [pc : ReaderPc, rPos : Nat, buf : Nat \ {0}]
      /\ limit \in Nat /\ others \in Nat /\ Limit \in Nat
  BY Typed DEF IInv
<1>2. /\ reader.pc = "sending" /\ worker' = [worker EXCEPT ![Fresh] = Idle]
      /\ reader' = [reader EXCEPT !.pc = "reading"]
      /\ UNCHANGED <<length, limit, others, delivered>>
  BY DEF FirstTask, Goes
<1>3. /\ d.nextChunk = 0 /\ d.bufs = <<>> /\ reader.rPos = 0 /\ reader.buf = 1
      /\ delivered = <<>> /\ ~d.closed /\ ~d.err /\ d.concurrency = Workers /\ Workers >= 2
      /\ d.pos = StartOf(length, d.nextChunk)
  <2>1. Phases /\ Cuts BY <1>1 DEF Core
  <2> QED BY <1>2, <2>1 DEF Phases, Early, Cuts
<1>4. Workers \in Nat /\ d.concurrency > 0 BY <1>1, <1>3, Sizes
<1>5. /\ reader'.pc = "reading" /\ reader'.rPos = 0 /\ reader'.buf = 1
      /\ reader' \in [pc : ReaderPc, rPos : Nat, buf : Nat \ {0}]
  BY <1>1, <1>2, <1>3 DEF ReaderPc
<1>6. PICK new \in BOOLEAN : new /\ Sends(Enqueued(new)) BY DEF FirstTask
<1>7. ~crashed' /\ crashed' \in BOOLEAN /\ d' = Enqueued(new) BY <1>3, <1>6 DEF Sends
<1>8. Low' = 0 /\ Low = 0 BY <1>2, <1>3, <1>5 DEF Low
<1>9. Room BY <1>4, <1>8 DEF Room
<1>10. /\ Fresh \in Worker /\ worker[Fresh].pc = "none" /\ worker[Fresh].n = 0
       /\ Cardinality(Started \cup {Fresh}) = Cardinality(Started) + 1
       /\ Cardinality(Live \cup {Fresh}) = Cardinality(Live) + 1
  BY <1>1, <1>4, FreshIs
<1>11. Idle \in Hand /\ Idle.pc = "idle" /\ Idle.n = 0 /\ ~Has(Idle) BY IdleIs
<1>12. \A v \in Worker : worker'[v] = IF v = Fresh THEN Idle ELSE worker[v]
  BY <1>1, <1>2
<1>13. Started' = Started \cup {Fresh} /\ Live' = Live \cup {Fresh}
  BY <1>10, <1>11, <1>12 DEF Started, Live
<1>14. KeepHands
  <2>1. ~Has(worker[Fresh]) BY <1>10 DEF Has
  <2>2. \A v \in Worker : worker[v].n > 0 => worker[v].pc = "copying"
    BY <1>1 DEF Core, Cuts
  <2> QED BY <1>11, <1>12, <2>1, <2>2 DEF KeepHands
<1>15. Cuts' /\ Once' /\ Buffers' BY <1>1, <1>2, <1>3, <1>5, <1>7, <1>9, <1>14, SendKeeps
<1>16. Counts'
  <2>1. reader.pc # "closed" /\ reader'.pc # "closed" BY <1>2, <1>5
  <2> QED BY <1>1, <1>2, <1>4, <1>6, <1>7, <1>8, <1>9, <1>10, <1>13, <2>1, SendCounts
<1>17. /\ d' \in Tracks /\ d'.closed = d.closed /\ d'.err = d.err /\ d'.done = d.done
       /\ d'.bufs # <<>>
  <2>1. d'.bufs # <<>> BY <1>1, <1>7, <1>9, PlacesKept
  <2> QED BY <1>1, <1>4, <1>7, <2>1, EnqueuedIs
<1>18. Phases' BY <1>3, <1>5, <1>17 DEF Phases, Early
<1>19. Reading'
  <2>1. ~SendNothing /\ PartsOf(length) >= 2
    <3>1. PartsOf(length) >= 2 BY <1>1, <1>7, <1>9, SendIs
    <3> QED BY <1>3, <3>1 DEF SendNothing
  <2>2. PICK ch \in Chunk : SendChunk(ch) BY <1>1, <1>7, <1>9, <2>1, SendIs
  <2>3. d'.nextChunk = 1 /\ ch.id = 0 /\ ch.buf = BufOf(0, d'.bufs) /\ d'.bufs[ch.buf].off = 0
    BY <1>3, <2>2 DEF SendChunk
  <2>4. BufOf(0, d'.bufs) = 1
    <3>1. d'.bufs \in Seq(Buf) BY <1>17 DEF Tracks
    <3>2. Len(d'.bufs) > 0 BY <1>17, <3>1
    <3> QED BY <1>17, <3>1, <3>2, Places
  <2>5. Buffer'.off = 0 BY <1>5, <2>3, <2>4 DEF Buffer
  <2>6. StartOf(length, 0) + 0 = 0 BY <1>1, Parts
  <2>7. <<>> = [i \in 1..0 |-> i - 1] OBVIOUS
  <2> QED BY <1>2, <1>3, <1>5, <1>8, <2>3, <2>4, <2>5, <2>6, <2>7 DEF Reading
<1>20. TypeOK'
  <2>1. worker' \in [Worker -> Hand] BY <1>1, <1>2, <1>11
  <2> QED BY <1>1, <1>2, <1>5, <1>7, <1>17, <2>1 DEF TypeOK, Tracks, Buf, Hand
<1> DEFINE k == Cardinality(Live)
<1>21. k \in Nat BY LiveCount
<1>22. Cardinality(Live') = k + 1 BY <1>10, <1>13
<1> HIDE DEF k
<1>23. limit + others + k + 1 = Limit BY <1>2 DEF IInv, ConnectionsCounted, k
<1>24. limit' + others' + Cardinality(Live') + 0 = Limit
  BY <1>1, <1>2, <1>21, <1>22, <1>23
<1>25. ConnectionsCounted' BY <1>5, <1>24 DEF ConnectionsCounted
<1> QED BY <1>15, <1>16, <1>18, <1>19, <1>20, <1>25, WholeNext DEF Core

\* A worker that got its answer starts the next one, and copies.
LEMMA StartCopyInv ==
    ASSUME IInv, ~crashed, NEW w \in Worker, StartCopy(w)
    PROVE  IInv'
<1> DEFINE s == [worker[w] EXCEPT !.pc = "copying"]
<1>1. /\ TypeOK /\ Core /\ length \in Nat /\ d \in Tracks /\ worker \in [Worker -> Hand]
      /\ worker[w] \in Hand /\ d.concurrency \in Int
      /\ reader.rPos \in Nat /\ d.nextChunk \in Nat
      /\ limit \in Nat /\ others \in Nat /\ Limit \in Nat
  BY Typed DEF IInv
<1>2. worker[w].pc = "connected" /\ UNCHANGED <<length, others, reader, delivered>>
  BY DEF StartCopy, At
<1>3. /\ s \in Hand /\ s.pc = "copying" /\ s.n = worker[w].n
      /\ s.chunk = worker[w].chunk
  BY <1>1 DEF Hand, WorkerPc
<1>4. /\ d.concurrency > 0 /\ limit > 0 =>
            /\ limit' = limit - 1 /\ Sends(Enqueued(TRUE))
            /\ worker' = [worker EXCEPT ![w] = s, ![Fresh] = Idle]
      /\ ~(d.concurrency > 0 /\ limit > 0) =>
            worker' = Goes(w, s) /\ UNCHANGED <<limit, d, crashed>>
  BY DEF StartCopy, Goes
<1> HIDE DEF s
<1>5. Has(worker[w]) /\ Has(s) /\ Continues(worker[w], s)
  BY <1>1, <1>2, <1>3, Moves DEF Has
<1>6. CASE ~(d.concurrency > 0 /\ limit > 0)
  <2>1. worker' = Goes(w, s) /\ UNCHANGED <<limit, d, crashed>> BY <1>4, <1>6
  <2>2. s.pc \notin {"none", "ended"} /\ worker[w].pc \notin {"none", "ended"}
    BY <1>2, <1>3
  <2> QED BY <1>2, <1>3, <1>5, <2>1, <2>2, GoesInv
<1>7. CASE d.concurrency > 0 /\ limit > 0
  <2>1. PICK new \in BOOLEAN : new /\ Sends(Enqueued(new)) BY <1>4, <1>7
  <2>2. /\ limit' = limit - 1 /\ worker' = [worker EXCEPT ![w] = s, ![Fresh] = Idle]
    BY <1>4, <1>7
  <2>3. /\ Fresh \in Worker /\ worker[Fresh].pc = "none" /\ worker[Fresh].n = 0
        /\ Cardinality(Started \cup {Fresh}) = Cardinality(Started) + 1
        /\ Cardinality(Live \cup {Fresh}) = Cardinality(Live) + 1
    BY <1>1, <1>7, FreshIs
  <2>4. Idle \in Hand /\ Idle.pc = "idle" /\ Idle.n = 0 /\ ~Has(Idle) BY IdleIs
  <2>5. /\ \A v \in Worker : worker'[v] = IF v = Fresh THEN Idle
                                          ELSE IF v = w THEN s ELSE worker[v]
        /\ Fresh # w /\ worker' \in [Worker -> Hand]
    BY <1>1, <1>2, <1>3, <2>2, <2>3, <2>4
  <2>6. Started' = Started \cup {Fresh} /\ Live' = Live \cup {Fresh}
    BY <1>2, <1>3, <2>3, <2>4, <2>5 DEF Started, Live
  <2> DEFINE k == Cardinality(Live)
  <2>7. k \in Nat BY LiveCount
  <2>8. Cardinality(Live') = k + 1 BY <2>3, <2>6
  <2> HIDE DEF k
  <2>9. limit + others + k + Own = Limit /\ Own \in 0..1
    BY DEF IInv, ConnectionsCounted, Own, k
  <2>10. limit' \in 0..Limit
    <3>1. limit \in 0..Limit BY <1>1 DEF TypeOK
    <3> QED BY <1>1, <1>7, <2>2, <3>1
  <2>11. limit' + others' + Cardinality(Live') + Own = Limit
    BY <1>1, <1>2, <2>2, <2>7, <2>8, <2>9
  <2>12. ConnectionsCounted' BY <1>2, <2>11 DEF ConnectionsCounted, Own
  <2>13. crashed' \in BOOLEAN BY <2>1 DEF Sends
  <2>14. CASE crashed'
    <3>1. d' = d BY <2>1, <2>14 DEF Sends
    <3>2. TypeOK' BY <1>1, <1>2, <2>5, <2>10, <2>13, <3>1 DEF TypeOK, Hand
    <3>3. ChunksCoverRange' /\ SendFindsRoom'
      BY <1>2, <3>1 DEF IInv, ChunksCoverRange, SendFindsRoom, Free, ChannelSize,
         Workers, MaxPart
    <3> QED BY <2>12, <2>14, <3>2, <3>3 DEF IInv
  <2>15. CASE ~crashed'
    <3>1. d' = Enqueued(new) BY <2>1, <2>15 DEF Sends
    <3>2. Low' = Low BY <1>2 DEF Low
    <3>3. Room BY <1>7, <3>2 DEF Room
    <3>4. KeepHands
      <4>1. ~Has(worker[Fresh]) BY <2>3 DEF Has
      <4>2. \A v \in Worker : worker[v].n > 0 => worker[v].pc = "copying"
        BY <1>1 DEF Core, Cuts
      <4> QED BY <1>3, <1>5, <2>4, <2>5, <4>1, <4>2 DEF KeepHands
    <3>5. Cuts' /\ Once' /\ Buffers' BY <1>1, <1>2, <3>1, <3>3, <3>4, SendKeeps
    <3>6. Counts'
      BY <1>1, <1>2, <1>7, <2>1, <2>3, <2>6, <3>1, <3>2, <3>3, SendCounts
    <3>7. /\ d' \in Tracks /\ d'.closed = d.closed /\ d'.err = d.err /\ d'.done = d.done
          /\ d'.bufs # <<>>
      <4>1. d'.bufs # <<>> BY <1>1, <3>1, <3>3, PlacesKept
      <4> QED BY <1>1, <1>7, <3>1, <4>1, EnqueuedIs
    <3>8. reader.pc \notin Early
      <4>1. w \in Started BY <1>2 DEF Started
      <4> QED BY <1>1, <4>1 DEF Core, Phases
    <3>9. Phases' BY <1>1, <1>2, <3>7, <3>8 DEF Core, Phases, Early
    <3>10. Reading'
      <4>1. d.nextChunk <= d'.nextChunk /\ d'.nextChunk \in Nat
        <5>1. d'.nextChunk = d.nextChunk \/ d'.nextChunk = d.nextChunk + 1
          BY <1>1, <3>1, <3>3, SendIs DEF SendNothing, SendChunk
        <5> QED BY <1>1, <5>1
      <4>2. Low \in Nat BY <1>1 DEF Low
      <4>3. reader.pc \in {"reading", "next", "waits"} => Low < d'.nextChunk
        <5>1. reader.pc \in {"reading", "next", "waits"} => Low < d.nextChunk
          BY <1>1 DEF Core, Reading
        <5> QED BY <1>1, <4>1, <4>2, <5>1
      <4>4. ASSUME reader.pc = "reading", ~d'.done
            PROVE  reader.buf = BufOf(reader.rPos, d'.bufs) /\ Buffer' = Buffer
        <5>1. reader.buf = BufOf(reader.rPos, d.bufs) /\ reader.rPos < d.nextChunk
          BY <1>1, <3>7, <4>4 DEF Core, Reading, Low
        <5>2. Low' = reader.rPos BY <3>2, <4>4 DEF Low
        <5>3. /\ BufOf(reader.rPos, d'.bufs) = BufOf(reader.rPos, d.bufs)
              /\ d'.bufs[BufOf(reader.rPos, d.bufs)] = d.bufs[BufOf(reader.rPos, d.bufs)]
          BY <1>1, <3>1, <3>3, <5>1, <5>2, PlacesKept
        <5> QED BY <1>2, <5>1, <5>3 DEF Buffer
      <4> QED BY <1>1, <1>2, <3>2, <3>7, <4>3, <4>4 DEF Core, Reading
    <3>11. TypeOK' BY <1>1, <1>2, <2>5, <2>10, <2>13, <3>7 DEF TypeOK, Tracks, Buf, Hand
    <3> QED BY <2>12, <3>5, <3>6, <3>9, <3>10, <3>11, WholeNext DEF Core
  <2> QED BY <2>13, <2>14, <2>15
<1> QED BY <1>6, <1>7

-----------------------------------------------------------------------------
(* A chunk goes from the channel to a worker, or back                        *)

\* The first element of a sequence is taken.
LEMMA Tailed ==
    ASSUME NEW S, NEW q \in Seq(S), q # <<>>, NEW m, m = Tail(q)
    PROVE  /\ m \in Seq(S) /\ Len(m) = Len(q) - 1
           /\ Head(q) = q[1] /\ q[1] \in S /\ 1 \in 1..Len(q)
           /\ \A i \in 1..Len(m) : m[i] = q[i + 1] /\ i + 1 \in 1..Len(q)
           /\ \A i \in 1..Len(q) : i = 1 \/ (i - 1 \in 1..Len(m) /\ m[i - 1] = q[i])
<1>1. /\ m \in Seq(S) /\ Len(q) \in Nat /\ Len(q) > 0 /\ Len(m) = Len(q) - 1
      /\ Head(q) = q[1] /\ q[1] \in S
  OBVIOUS
<1>2. \A i \in 1..Len(m) : m[i] = q[i + 1] OBVIOUS
<1>3. \A i \in 1..Len(m) : i + 1 \in 1..Len(q) BY <1>1
<1>4. \A i \in 1..Len(q) : i = 1 \/ i - 1 \in 1..Len(m) BY <1>1
<1>5. \A i \in 1..Len(q) : i = 1 \/ m[i - 1] = q[i]
  <2> SUFFICES ASSUME NEW i \in 1..Len(q), i # 1 PROVE m[i - 1] = q[i] OBVIOUS
  <2>1. i - 1 \in 1..Len(m) /\ (i - 1) + 1 = i BY <1>4
  <2> QED BY <1>2, <2>1
<1>6. 1 \in 1..Len(q) BY <1>1
<1> QED BY <1>1, <1>2, <1>3, <1>4, <1>5, <1>6

\* A worker takes the first chunk of the channel.
LEMMA ReceiveInv ==
    ASSUME IInv, ~crashed, NEW w \in Worker, Receive(w)
    PROVE  IInv'
<1> DEFINE ch == Head(d.chunks)
           s == [pc |-> "got", chunk |-> ch, retry |-> 0, n |-> 0]
           q == d.chunks
           m == d'.chunks
<1>1. /\ TypeOK /\ Core /\ d \in Tracks /\ worker \in [Worker -> Hand]
      /\ d.chunks \in Seq(Chunk)
  BY Typed DEF IInv
<1>2. /\ worker[w].pc = "idle" /\ q # <<>> /\ worker' = [worker EXCEPT ![w] = s]
      /\ d' = [d EXCEPT !.chunks = Tail(@)]
      /\ UNCHANGED <<length, limit, others, reader, delivered, crashed>>
  BY DEF Receive, At, Goes
<1>3. m = Tail(q) BY <1>1, <1>2 DEF Tracks
<1>4. /\ m \in Seq(Chunk) /\ ch = q[1] /\ ch \in Chunk /\ 1 \in 1..Len(q)
      /\ \A i \in 1..Len(m) : m[i] = q[i + 1] /\ i + 1 \in 1..Len(q)
      /\ \A i \in 1..Len(q) : i = 1 \/ (i - 1 \in 1..Len(m) /\ m[i - 1] = q[i])
  <2>1. q \in Seq(Chunk) /\ q # <<>> /\ ch = Head(q) BY <1>1, <1>2
  <2> HIDE DEF q, m, ch
  <2> QED BY <1>3, <2>1, Tailed
<1>5. /\ d'.nextChunk = d.nextChunk /\ d'.pos = d.pos /\ d'.concurrency = d.concurrency
      /\ d'.bufs = d.bufs /\ d'.closed = d.closed /\ d'.err = d.err /\ d'.done = d.done
      /\ d' \in Tracks
  BY <1>1, <1>2, <1>3, <1>4 DEF Tracks
<1>6. s \in Hand /\ s.pc = "got" /\ s.chunk = ch /\ s.n = 0
  <2>1. 0 \in 0..PartBodyMaxRetries OBVIOUS
  <2> QED BY <1>4, <2>1 DEF Hand, WorkerPc
<1> HIDE DEF s
<1>7. /\ \A v \in Worker \ {w} : worker'[v] = worker[v]
      /\ worker'[w] = s /\ worker' \in [Worker -> Hand]
  BY <1>1, <1>2, <1>6
<1>8. Has(s) /\ ~Has(worker[w]) BY <1>2, <1>6 DEF Has
<1>9. Low' = Low /\ Started' = Started /\ Live' = Live
  BY <1>2, <1>6, <1>7 DEF Low, Started, Live
<1>10. Phases' BY <1>1, <1>2, <1>5, <1>9 DEF Core, Phases, Early, Started, Workers, MaxPart
<1>11. Counts' BY <1>1, <1>2, <1>5, <1>9 DEF Core, Counts, Workers, MaxPart
<1>12. Cuts'
  <2>1. \A c, n : Cut(length, d, Low, c, n) => Cut(length, d', Low, c, n)
    BY <1>5 DEF Cut
  <2>2. \A i \in 1..Len(q) : Cut(length, d, Low, q[i], 0) BY <1>1 DEF Core, Cuts
  <2>3. \A i \in 1..Len(m) : Cut(length, d', Low, m[i], 0)
    <3> SUFFICES ASSUME NEW i \in 1..Len(m) PROVE Cut(length, d', Low, m[i], 0) OBVIOUS
    <3>1. m[i] = q[i + 1] /\ i + 1 \in 1..Len(q) BY <1>4
    <3> QED BY <2>1, <2>2, <3>1
  <2>4. Cut(length, d', Low, s.chunk, s.n) BY <1>4, <1>6, <2>1, <2>2
  <2>5. \A v \in Worker : Has(worker'[v]) =>
           Cut(length, d', Low, worker'[v].chunk, worker'[v].n)
    BY <1>1, <1>7, <2>1, <2>4 DEF Core, Cuts
  <2>6. \A v \in Worker : worker'[v].n > 0 => worker'[v].pc = "copying"
    BY <1>1, <1>6, <1>7 DEF Core, Cuts
  <2>7. /\ d'.nextChunk > 0 \/ d'.concurrency > 0 => PartsOf(length') >= 2
        /\ d'.nextChunk <= PartsOf(length')
        /\ d'.pos = StartOf(length', d'.nextChunk)
    BY <1>1, <1>2, <1>5 DEF Core, Cuts
  <2> QED BY <1>2, <1>9, <2>3, <2>5, <2>6, <2>7 DEF Cuts
<1>13. Once'
  <2>1. /\ \A i, j \in 1..Len(q) : q[i].id = q[j].id => i = j
        /\ \A u, v \in Worker : Has(worker[u]) /\ Has(worker[v])
              /\ worker[u].chunk.id = worker[v].chunk.id => u = v
        /\ \A i \in 1..Len(q) : \A v \in Worker :
              Has(worker[v]) => q[i].id # worker[v].chunk.id
    BY <1>1 DEF Core, Once
  <2>2. \A i, j \in 1..Len(m) : m[i].id = m[j].id => i = j
    <3> SUFFICES ASSUME NEW i \in 1..Len(m), NEW j \in 1..Len(m), m[i].id = m[j].id
                 PROVE  i = j
      OBVIOUS
    <3>1. /\ m[i] = q[i + 1] /\ i + 1 \in 1..Len(q)
          /\ m[j] = q[j + 1] /\ j + 1 \in 1..Len(q)
      BY <1>4
    <3>2. i + 1 = j + 1 BY <2>1, <3>1
    <3> QED BY <3>2
  <2>3. \A i \in 1..Len(m) : m[i].id # ch.id
    <3> SUFFICES ASSUME NEW i \in 1..Len(m), m[i].id = ch.id PROVE FALSE OBVIOUS
    <3>1. m[i] = q[i + 1] /\ i + 1 \in 1..Len(q) BY <1>4
    <3>2. i + 1 = 1 BY <1>4, <2>1, <3>1
    <3> QED BY <3>2
  <2>4. \A i \in 1..Len(m) : \A v \in Worker :
           Has(worker'[v]) => m[i].id # worker'[v].chunk.id
    <3> SUFFICES ASSUME NEW i \in 1..Len(m), NEW v \in Worker, Has(worker'[v])
                 PROVE  m[i].id # worker'[v].chunk.id
      OBVIOUS
    <3>1. m[i] = q[i + 1] /\ i + 1 \in 1..Len(q) BY <1>4
    <3>2. CASE v = w BY <1>6, <1>7, <2>3, <3>2
    <3>3. CASE v # w
      <4>1. worker'[v] = worker[v] BY <1>7, <3>3
      <4> QED BY <2>1, <3>1, <4>1
    <3> QED BY <3>2, <3>3
  <2>5. \A u, v \in Worker : Has(worker'[u]) /\ Has(worker'[v])
           /\ worker'[u].chunk.id = worker'[v].chunk.id => u = v
    <3> SUFFICES ASSUME NEW u \in Worker, NEW v \in Worker, Has(worker'[u]),
                        Has(worker'[v]), worker'[u].chunk.id = worker'[v].chunk.id
                 PROVE  u = v
      OBVIOUS
    <3>1. \A x \in Worker \ {w} : Has(worker[x]) => ch.id # worker[x].chunk.id
      BY <1>4, <2>1
    <3> QED BY <1>6, <1>7, <2>1, <3>1
  <2> QED BY <2>2, <2>4, <2>5 DEF Once
<1>14. Buffers'
  <2>1. ASSUME NEW id, Fetched(id)' PROVE Fetched(id)
    <3>1. \A v \in Worker : Has(worker[v]) => worker[v].chunk.id # id
      BY <1>7, <1>8, <2>1 DEF Fetched
    <3>2. ch.id # id BY <1>6, <1>7, <1>8, <2>1 DEF Fetched
    <3>3. \A i \in 1..Len(q) : q[i].id # id
      <4> SUFFICES ASSUME NEW i \in 1..Len(q) PROVE q[i].id # id OBVIOUS
      <4>1. CASE i = 1 BY <1>4, <3>2, <4>1
      <4>2. CASE i # 1
        <5>1. i - 1 \in 1..Len(m) /\ m[i - 1] = q[i] BY <1>4, <4>2
        <5> QED BY <2>1, <5>1 DEF Fetched
      <4> QED BY <4>1, <4>2
    <3> QED BY <3>1, <3>3 DEF Fetched
  <2> QED BY <1>1, <1>2, <1>5, <1>9, <2>1 DEF Core, Buffers
<1>15. Reading' BY <1>1, <1>2, <1>5, <1>9 DEF Core, Reading, Buffer
<1>16. TypeOK' BY <1>1, <1>2, <1>5, <1>7 DEF TypeOK, Tracks, Buf, Hand
<1>17. ConnectionsCounted' BY <1>2, <1>9 DEF IInv, ConnectionsCounted
<1> QED BY <1>10, <1>11, <1>12, <1>13, <1>14, <1>15, <1>16, <1>17, WholeNext DEF Core

\* A worker that is refused a chunk waits, or puts it back and gives up.
LEMMA OverloadInv ==
    ASSUME IInv, ~crashed, NEW w \in Worker, Overload(w)
    PROVE  IInv'
<1> DEFINE ch == worker[w].chunk
           q == d.chunks
<1>1. /\ TypeOK /\ Core /\ d \in Tracks /\ worker \in [Worker -> Hand] /\ worker[w] \in Hand
      /\ d.chunks \in Seq(Chunk) /\ d.concurrency \in Int /\ length \in Nat
  BY Typed DEF IInv
<1>2. /\ worker[w].pc = "refused"
      /\ UNCHANGED <<length, limit, others, reader, delivered>>
      /\ \/ worker' = Goes(w, [NoWorker EXCEPT !.pc = "gaveUp"]) /\ PutBack(ch)
         \/ /\ worker' = Goes(w, [worker[w] EXCEPT !.pc = "paused"])
            /\ UNCHANGED <<d, crashed>>
  BY DEF Overload, At
<1>3. Has(worker[w]) /\ worker[w].n = 0 /\ ch \in Chunk
  BY <1>1, <1>2, NothingYet, HandTyped DEF Has
<1>4. CASE /\ worker' = Goes(w, [worker[w] EXCEPT !.pc = "paused"])
           /\ UNCHANGED <<d, crashed>>
  <2> DEFINE s == [worker[w] EXCEPT !.pc = "paused"]
  <2>1. s \in Hand /\ s.pc = "paused" /\ s.n = worker[w].n /\ s.chunk = ch
    BY <1>1 DEF Hand, WorkerPc
  <2>2. worker' = Goes(w, s) BY <1>4
  <2> HIDE DEF s
  <2>3. Continues(worker[w], s) BY <1>1, <2>1, Moves
  <2>4. Has(s) /\ s.pc \notin {"none", "ended"} /\ ~(s.n > 0) BY <1>3, <2>1 DEF Has
  <2>5. worker[w].pc \notin {"none", "ended"} BY <1>2
  <2> QED BY <1>2, <1>3, <1>4, <2>1, <2>2, <2>3, <2>4, <2>5, GoesInv
<1>5. CASE worker' = Goes(w, [NoWorker EXCEPT !.pc = "gaveUp"]) /\ PutBack(ch)
  <2> DEFINE s == [NoWorker EXCEPT !.pc = "gaveUp"]
             c == (IF d.concurrency > 0 THEN -d.concurrency ELSE d.concurrency) - 1
             e == [d EXCEPT !.concurrency = c, !.chunks = Append(q, ch)]
  <2>1. s \in Hand /\ s.pc = "gaveUp" /\ s.n = 0 BY NoHand DEF WorkerPc
  <2>2. /\ \A v \in Worker \ {w} : worker'[v] = worker[v]
        /\ worker'[w] = s /\ worker' \in [Worker -> Hand]
    BY <1>1, <1>5, <2>1 DEF Goes
  <2>3. Live' = Live /\ Started' = Started
    BY <1>2, <2>1, <2>2 DEF Live, Started
  <2>4. ConnectionsCounted' BY <1>2, <2>3 DEF IInv, ConnectionsCounted
  <2>5. Sends(e) BY <1>1, <1>5 DEF PutBack, Tracks
  <2>6. crashed' \in BOOLEAN BY <2>5 DEF Sends
  <2> HIDE DEF s
  <2>7. CASE crashed'
    <3>1. d' = d BY <2>5, <2>7 DEF Sends
    <3>2. TypeOK' BY <1>1, <1>2, <2>2, <2>6, <3>1 DEF TypeOK, Hand
    <3>3. ChunksCoverRange' /\ SendFindsRoom'
      BY <1>2, <3>1 DEF IInv, ChunksCoverRange, SendFindsRoom, Free, ChannelSize,
         Workers, MaxPart
    <3> QED BY <2>4, <2>7, <3>2, <3>3 DEF IInv
  <2>8. CASE ~crashed'
    <3> DEFINE m == d'.chunks
    <3>1. c \in Int /\ c <= 0
      <4>1. CASE d.concurrency > 0 BY <1>1, <4>1
      <4>2. CASE ~(d.concurrency > 0) BY <1>1, <4>2
      <4> QED BY <4>1, <4>2
    <3>2. d' = e BY <2>5, <2>8 DEF Sends
    <3> HIDE DEF c
    <3>3. Append(q, ch) \in Seq(Chunk) BY <1>1, <1>3
    <3>4. /\ d'.nextChunk = d.nextChunk /\ d'.pos = d.pos /\ d'.concurrency = c
          /\ d'.bufs = d.bufs /\ d'.closed = d.closed /\ d'.err = d.err /\ d'.done = d.done
          /\ m = Append(q, ch) /\ d' \in Tracks
      BY <1>1, <3>1, <3>2, <3>3 DEF Tracks
    <3> DEFINE n == Len(q)
    <3>5. /\ m[n + 1] = ch /\ n + 1 \in 1..Len(m)
          /\ \A i \in 1..n : m[i] = q[i] /\ i \in 1..Len(m)
          /\ \A i \in 1..Len(m) : i \in 1..n \/ i = n + 1
      <4>1. q \in Seq(Chunk) /\ m = Append(q, ch) BY <1>1, <3>4
      <4> HIDE DEF q, m, ch
      <4> QED BY <1>3, <4>1, Appended
    <3> HIDE DEF n
    <3>6. Low' = Low BY <1>2 DEF Low
    <3>7. ~Has(s) BY <2>1 DEF Has
    <3>8. Phases'
      <4>1. reader.pc \notin Early
        <5>1. w \in Started BY <1>2 DEF Started
        <5> QED BY <1>1, <5>1 DEF Core, Phases
      <4> QED BY <1>1, <1>2, <3>4, <4>1 DEF Core, Phases, Early
    <3>9. Counts'
      <4>1. Cardinality(Started) \in Nat /\ Workers \in Nat /\ Workers' = Workers
        BY <1>1, <1>2, Workforce, Sizes DEF Started, Workers, MaxPart
      <4>2. Cardinality(Started) <= Workers BY <1>1, <4>1 DEF Core, Counts, Most
      <4>3. ~(d'.concurrency > 0) /\ Most(d'.concurrency, 0) = 0 BY <3>1, <3>4 DEF Most
      <4> QED BY <1>1, <1>2, <2>3, <3>4, <3>6, <4>1, <4>2, <4>3 DEF Core, Counts
    <3>10. Cuts'
      <4>1. \A x, y : Cut(length, d, Low, x, y) => Cut(length, d', Low, x, y)
        BY <3>4 DEF Cut
      <4>2. Cut(length, d', Low, ch, 0) BY <1>1, <1>3, <4>1 DEF Core, Cuts
      <4>3. \A i \in 1..Len(m) : Cut(length, d', Low, m[i], 0)
        <5> SUFFICES ASSUME NEW i \in 1..Len(m) PROVE Cut(length, d', Low, m[i], 0)
          OBVIOUS
        <5>1. CASE i \in 1..n BY <1>1, <3>5, <4>1, <5>1 DEF Core, Cuts, n
        <5>2. CASE i = n + 1 BY <3>5, <4>2, <5>2
        <5> QED BY <3>5, <5>1, <5>2
      <4>4. \A v \in Worker : Has(worker'[v]) =>
               Cut(length, d', Low, worker'[v].chunk, worker'[v].n)
        BY <1>1, <2>2, <3>7, <4>1 DEF Core, Cuts
      <4>5. \A v \in Worker : worker'[v].n > 0 => worker'[v].pc = "copying"
        BY <1>1, <2>1, <2>2 DEF Core, Cuts
      <4>6. /\ d'.nextChunk > 0 \/ d'.concurrency > 0 => PartsOf(length') >= 2
            /\ d'.nextChunk <= PartsOf(length')
            /\ d'.pos = StartOf(length', d'.nextChunk)
        BY <1>1, <1>2, <3>1, <3>4 DEF Core, Cuts
      <4> QED BY <1>2, <3>6, <4>3, <4>4, <4>5, <4>6 DEF Cuts
    <3>11. Once'
      <4>1. /\ \A i, j \in 1..n : q[i].id = q[j].id => i = j
            /\ \A u, v \in Worker : Has(worker[u]) /\ Has(worker[v])
                  /\ worker[u].chunk.id = worker[v].chunk.id => u = v
            /\ \A i \in 1..n : \A v \in Worker :
                  Has(worker[v]) => q[i].id # worker[v].chunk.id
        BY <1>1 DEF Core, Once, n
      <4>2. \A i \in 1..n : q[i].id # ch.id BY <1>3, <4>1
      <4>3. \A i, j \in 1..Len(m) : m[i].id = m[j].id => i = j
        <5> SUFFICES ASSUME NEW i \in 1..Len(m), NEW j \in 1..Len(m), m[i].id = m[j].id
                     PROVE  i = j
          OBVIOUS
        <5>1. CASE i \in 1..n /\ j \in 1..n BY <3>5, <4>1, <5>1
        <5>2. CASE i = n + 1 \/ j = n + 1 BY <3>5, <4>2, <5>2
        <5> QED BY <3>5, <5>1, <5>2
      <4>4. \A v \in Worker : Has(worker'[v]) =>
               v # w /\ worker'[v] = worker[v] /\ worker[v].chunk.id # ch.id
        BY <1>3, <2>2, <3>7, <4>1
      <4>5. \A i \in 1..Len(m) : \A v \in Worker :
               Has(worker'[v]) => m[i].id # worker'[v].chunk.id
        <5> SUFFICES ASSUME NEW i \in 1..Len(m), NEW v \in Worker, Has(worker'[v])
                     PROVE  m[i].id # worker'[v].chunk.id
          OBVIOUS
        <5>1. worker'[v] = worker[v] /\ worker[v].chunk.id # ch.id BY <4>4
        <5>2. CASE i \in 1..n BY <3>5, <4>1, <5>1, <5>2
        <5>3. CASE i = n + 1 BY <3>5, <5>1, <5>3
        <5> QED BY <3>5, <5>2, <5>3
      <4>6. \A u, v \in Worker : Has(worker'[u]) /\ Has(worker'[v])
               /\ worker'[u].chunk.id = worker'[v].chunk.id => u = v
        BY <4>1, <4>4
      <4> QED BY <4>3, <4>5, <4>6 DEF Once
    <3>12. Buffers'
      <4>1. ASSUME NEW id, Fetched(id)' PROVE Fetched(id)
        <5>1. \A i \in 1..n : q[i].id # id BY <3>5, <4>1 DEF Fetched
        <5>2. ch.id # id BY <3>5, <4>1 DEF Fetched
        <5>3. \A v \in Worker : Has(worker[v]) => worker[v].chunk.id # id
          BY <2>2, <4>1, <5>2 DEF Fetched
        <5> QED BY <5>1, <5>3 DEF Fetched, n
      <4> QED BY <1>1, <1>2, <3>4, <3>6, <4>1 DEF Core, Buffers
    <3>13. Reading' BY <1>1, <1>2, <3>4, <3>6 DEF Core, Reading, Buffer
    <3>14. TypeOK' BY <1>1, <1>2, <2>2, <2>6, <3>4 DEF TypeOK, Tracks, Buf, Hand
    <3> QED BY <2>4, <3>8, <3>9, <3>10, <3>11, <3>12, <3>13, <3>14, WholeNext DEF Core
  <2> QED BY <2>6, <2>7, <2>8
<1> QED BY <1>2, <1>4, <1>5

-----------------------------------------------------------------------------
(* Bytes are copied to a buffer, and read from it                            *)

\* From e to f one buffer changes, which keeps its size.
OneBuffer(e, f, b) ==
    /\ f \in Tracks /\ f.nextChunk = e.nextChunk /\ f.pos = e.pos
    /\ f.concurrency = e.concurrency /\ f.chunks = e.chunks
    /\ f.closed = e.closed /\ f.err = e.err /\ f.done = e.done
    /\ Len(f.bufs) = Len(e.bufs)
    /\ \A i \in 1..Len(e.bufs) : i # b => f.bufs[i] = e.bufs[i]

\* The fields when one buffer is replaced
LEMMA Rebuffered ==
    ASSUME NEW e \in Tracks, NEW b \in 1..Len(e.bufs), NEW x \in Buf, NEW f,
           f = [e EXCEPT !.bufs[b] = x]
    PROVE  OneBuffer(e, f, b) /\ f.bufs[b] = x
<1> DEFINE q == e.bufs
           m == [q EXCEPT ![b] = x]
<1>1. q \in Seq(Buf) /\ b \in 1..Len(q) BY DEF Tracks
<1>2. f = [e EXCEPT !.bufs = m] BY DEF Tracks
<1>3. /\ m \in Seq(Buf) /\ Len(m) = Len(q) /\ m[b] = x
      /\ \A i \in 1..Len(q) : i # b => m[i] = q[i]
  <2> HIDE DEF q
  <2> QED BY <1>1, Replaced
<1> HIDE DEF m
<1>4. /\ f \in Tracks /\ f.nextChunk = e.nextChunk /\ f.pos = e.pos
      /\ f.concurrency = e.concurrency /\ f.chunks = e.chunks
      /\ f.closed = e.closed /\ f.err = e.err /\ f.done = e.done /\ f.bufs = m
  BY <1>2, <1>3 DEF Tracks
<1> QED BY <1>3, <1>4 DEF OneBuffer

\* The buffers of the chunks that are needed are all different.
LEMMA Apart ==
    ASSUME TypeOK, Core, d.bufs # <<>>, reader.pc # "closed",
           NEW i \in Low..(d.nextChunk - 1), NEW j \in Low..(d.nextChunk - 1), i # j
    PROVE  BufOf(i, d.bufs) # BufOf(j, d.bufs)
<1>1. /\ d.bufs \in Seq(Buf) /\ Len(d.bufs) \in Nat /\ Low \in Nat /\ d.nextChunk \in Nat
  BY Typed
<1>2. d.nextChunk <= Low + Len(d.bufs)
  <2>1. Cardinality(Started) \in Nat BY Workforce DEF Started
  <2>2. Cardinality(Started) <= Len(d.bufs) /\ d.nextChunk <= Low + Cardinality(Started)
    BY DEF Core, Counts
  <2> QED BY <1>1, <2>1, <2>2, SMTT(30)
<1>3. i \in Nat /\ j \in Nat BY <1>1
<1>4. CASE i < j
  <2>1. j < i + Len(d.bufs) BY <1>1, <1>2, <1>3
  <2> QED BY <1>1, <1>3, <1>4, <2>1, Places
<1>5. CASE j < i
  <2>1. i < j + Len(d.bufs) BY <1>1, <1>2, <1>3
  <2> QED BY <1>1, <1>3, <1>5, <2>1, Places
<1> QED BY <1>3, <1>4, <1>5

\* Bytes of a range go on with those that follow.
LEMMA Continued ==
    ASSUME NEW a \in Nat, NEW b \in Nat, NEW k \in Nat,
           NEW q \in Seq(Nat), q = [i \in 1..(a + b) |-> i - 1],
           NEW y \in Seq(Nat), y = [i \in 1..k |-> a + b + i - 1]
    PROVE  q \o y = [i \in 1..(a + (b + k)) |-> i - 1]
<1> DEFINE n == a + b
           z == q \o y
<1>1. n \in Nat /\ a + (b + k) = n + k OBVIOUS
<1>2. Len(y) = k /\ \A i \in 1..k : y[i] = n + i - 1 OBVIOUS
<1>3. Len(q) = n /\ \A i \in 1..n : q[i] = i - 1 BY <1>1
<1> HIDE DEF n
<1>4. /\ z \in Seq(Nat) /\ Len(z) = Len(q) + Len(y)
      /\ \A i \in 1..(Len(q) + Len(y)) : z[i] = IF i <= Len(q) THEN q[i] ELSE y[i - Len(q)]
  BY ConcatProperties
<1> HIDE DEF z
<1>5. ASSUME NEW i \in 1..(n + k) PROVE z[i] = i - 1
  <2>1. z[i] = IF i <= n THEN q[i] ELSE y[i - n] BY <1>2, <1>4, <1>3
  <2>2. CASE i <= n BY <1>1, <1>3, <2>1, <2>2
  <2>3. CASE i > n
    <3>1. i - n \in 1..k BY <1>1, <2>3
    <3>2. z[i] = y[i - n] BY <1>1, <2>1, <2>3
    <3>3. y[i - n] = n + (i - n) - 1 BY <1>2, <3>1
    <3> QED BY <1>1, <3>2, <3>3
  <2> QED BY <1>1, <2>2, <2>3
<1>6. z = [i \in 1..(n + k) |-> z[i]]
  <2>1. Len(z) = n + k BY <1>2, <1>3, <1>4
  <2> QED BY <1>4, <2>1
<1>7. z = [i \in 1..(n + k) |-> i - 1] BY <1>5, <1>6
<1> QED BY <1>1, <1>7 DEF z

\* What follows the first o elements of a sequence
LEMMA RestOf ==
    ASSUME NEW q \in Seq(Nat), NEW o \in Nat, o <= Len(q)
    PROVE  LET u == SubSeq(q, o + 1, Len(q))
           IN  /\ u \in Seq(Nat) /\ Len(u) = Len(q) - o
               /\ \A i \in 1..(Len(q) - o) : u[i] = q[o + i]
<1> DEFINE n == Len(q)
           u == SubSeq(q, o + 1, n)
<1>1. n \in Nat /\ \A i \in (o + 1)..n : q[i] \in Nat OBVIOUS
<1>2. o + 1 \in Int /\ n \in Int BY <1>1
<1> HIDE DEF n
<1>3. /\ u \in Seq(Nat) /\ Len(u) = (IF o + 1 <= n THEN n - (o + 1) + 1 ELSE 0)
      /\ \A i \in 1..(n - (o + 1) + 1) : u[i] = q[(o + 1) + i - 1]
  BY <1>1, <1>2, SubSeqProperties
<1> HIDE DEF u
<1>4. n - (o + 1) + 1 = n - o BY <1>1
<1>5. Len(u) = n - o BY <1>1, <1>3 DEF n
<1>6. ASSUME NEW i \in 1..(n - o) PROVE u[i] = q[o + i]
  <2>1. u[i] = q[(o + 1) + i - 1] BY <1>3, <1>4
  <2>2. (o + 1) + i - 1 = o + i BY <1>1
  <2> QED BY <2>1, <2>2
<1> QED BY <1>3, <1>5, <1>6 DEF n, u

\* The reader takes bytes of the buffer it reads.
LEMMA ReadBytesInv ==
    ASSUME IInv, ~crashed, ReadBytes
    PROVE  IInv'
<1> DEFINE r == reader.rPos
           st == StartOf(length, r)
           unread == SubSeq(Buffer.data, Buffer.off + 1, Len(Buffer.data))
<1>1. /\ TypeOK /\ Core /\ d \in Tracks /\ length \in Nat /\ r \in Nat /\ d.nextChunk \in Nat
      /\ d.bufs \in Seq(Buf) /\ Len(d.bufs) \in Nat /\ delivered \in Seq(Nat)
  BY Typed DEF IInv
<1>2. /\ reader.pc = "reading" /\ ~d.done /\ Buffer.off < Buffer.size /\ unread # <<>>
      /\ UNCHANGED <<length, limit, others, worker, reader, crashed>>
  BY DEF ReadBytes
<1>3. PICK p \in Pieces :
         /\ delivered' = delivered \o SubSeq(unread, 1, Least(p, Len(unread)))
         /\ d' = [d EXCEPT !.bufs[reader.buf].off = @ + Least(p, Len(unread))]
  BY DEF ReadBytes
<1>4. /\ Low = r /\ r < d.nextChunk /\ d.bufs # <<>>
      /\ reader.buf = BufOf(r, d.bufs)
      /\ delivered = [i \in 1..(st + Buffer.off) |-> i - 1]
  BY <1>1, <1>2 DEF Core, Reading, Phases, Early, Low
<1>5. r \in Low..(d.nextChunk - 1) BY <1>1, <1>4
<1>6. Filled(length, r, Buffer, r) /\ (~d.err /\ Fetched(r) => Len(Buffer.data) = Buffer.size)
  BY <1>1, <1>2, <1>4, <1>5 DEF Core, Buffers, Buffer
<1>7. reader.buf \in 1..Len(d.bufs)
  <2>1. r \in Nat /\ d.bufs \in Seq(Buf) /\ d.bufs # <<>> BY <1>1, <1>4
  <2>2. BufOf(r, d.bufs) \in 1..Len(d.bufs) BY <2>1, Places
  <2> QED BY <1>4, <2>2
<1>8. /\ Buffer \in Buf /\ Buffer.off \in Nat /\ Buffer.data \in Seq(Nat)
      /\ Len(Buffer.data) \in Nat /\ Buffer.size \in Nat /\ st \in Nat
  <2>1. Buffer \in Buf BY <1>1, <1>7 DEF Buffer
  <2>2. st \in Nat BY <1>1, Parts
  <2> QED BY <2>1, <2>2 DEF Buf
<1> DEFINE o == Buffer.off
           n == Len(Buffer.data)
           k == Least(p, Len(unread))
           x == [Buffer EXCEPT !.off = o + k]
<1>9. /\ Buffer.size = SizeOf(length, r) /\ n <= Buffer.size /\ o <= n
      /\ \A i \in 1..n : Buffer.data[i] = st + i - 1
  BY <1>6 DEF Filled
<1>10. /\ unread \in Seq(Nat) /\ Len(unread) = n - o /\ k \in 1..(n - o) /\ k \in Nat
       /\ \A i \in 1..k : unread[i] = st + o + i - 1
  <2>1. n - o \in Nat BY <1>8, <1>9
  <2>2. unread \in Seq(Nat) /\ Len(unread) = n - o
        /\ \A i \in 1..(n - o) : unread[i] = Buffer.data[o + i]
    BY <1>8, <1>9, RestOf
  <2>3. p \in Nat /\ p > 0 OBVIOUS
  <2>4. Len(unread) > 0 BY <1>2, <2>2, SMTT(30)
  <2>5. k \in 1..(n - o) BY <2>1, <2>2, <2>3, <2>4 DEF Least
  <2> HIDE DEF k, unread
  <2>6. ASSUME NEW i \in 1..k PROVE unread[i] = st + o + i - 1
    <3>1. i \in 1..(n - o) BY <2>1, <2>5
    <3>2. o \in Nat /\ n \in Nat /\ st \in Nat /\ i \in Nat BY <1>8, <3>1
    <3>3. unread[i] = Buffer.data[o + i] BY <2>2, <3>1
    <3> HIDE DEF o, n, st
    <3>4. o + i \in 1..n BY <3>1, <3>2
    <3>5. Buffer.data[o + i] = st + (o + i) - 1 BY <1>9, <3>4
    <3> QED BY <3>2, <3>3, <3>5
  <2>7. k \in Nat BY <2>1, <2>5
  <2> QED BY <2>2, <2>5, <2>6, <2>7
<1>11. d' = [d EXCEPT !.bufs[reader.buf] = x]
  BY <1>1, <1>3, <1>7 DEF Buffer, Tracks
<1>12. delivered' = [i \in 1..(st + (o + k)) |-> i - 1]
  <2>1. delivered' = delivered \o SubSeq(unread, 1, k) BY <1>3
  <2>2. delivered \in Seq(Nat) /\ Len(delivered) = st + o
        /\ \A i \in 1..(st + o) : delivered[i] = i - 1
    BY <1>1, <1>4, <1>8, SMTT(30)
  <2>3. unread \in Seq(Nat) BY <1>10
  <2> HIDE DEF unread
  <2>4. k \in Nat /\ k <= Len(unread) BY <1>8, <1>10
  <2> HIDE DEF k
  <2> DEFINE y == SubSeq(unread, 1, k)
  <2>5. y \in Seq(Nat) /\ Len(y) = k /\ \A i \in 1..k : y[i] = unread[i]
    BY <2>3, <2>4
  <2> HIDE DEF y, o, st
  <2>6. y \in Seq(Nat) /\ Len(y) = k /\ \A i \in 1..k : y[i] = st + o + i - 1
    BY <1>10, <2>5
  <2>7. o \in Nat /\ st \in Nat BY <1>8 DEF o, st
  <2>8. Len(delivered) = st + o /\ delivered \in Seq(Nat) /\ k \in Nat BY <2>2, <2>4
  <2>9. delivered = [i \in 1..(st + o) |-> i - 1] BY <1>4 DEF o, st
  <2>10. y \in Seq(Nat) /\ y = [i \in 1..k |-> y[i]] BY <2>6
  <2>11. y = [i \in 1..k |-> st + o + i - 1] BY <2>6, <2>10
  <2>12. delivered \o y = [i \in 1..(st + (o + k)) |-> i - 1]
    BY <2>7, <2>8, <2>9, <2>10, <2>11, Continued, SMTT(30)
  <2> QED BY <2>1, <2>12 DEF y
<1>13. delivered' \in Seq(Nat)
  <2>1. st + (o + k) \in Nat
    <3>1. st \in Nat /\ o \in Nat /\ k \in Nat BY <1>8, <1>10
    <3> HIDE DEF st, o, k
    <3> QED BY <3>1
  <2>2. \A n0 \in Nat : [i \in 1..n0 |-> i - 1] \in Seq(Nat) OBVIOUS
  <2> HIDE DEF o, k, st
  <2> QED BY <1>12, <2>1, <2>2
<1>14. o + k \in Nat /\ o <= o + k /\ o + k <= n /\ x \in Buf /\ x.off = o + k
       /\ x.data = Buffer.data /\ x.size = Buffer.size
  <2>1. o \in Nat /\ n \in Nat BY <1>8
  <2>2. k \in Nat /\ k <= n - o BY <1>10, <2>1
  <2> HIDE DEF o, k, n
  <2>3. o + k \in Nat /\ o <= o + k /\ o + k <= n BY <2>1, <2>2
  <2> QED BY <1>8, <2>3 DEF Buf
<1> HIDE DEF x, k
<1>15. OneBuffer(d, d', reader.buf) /\ d'.bufs[reader.buf] = x
  BY <1>1, <1>7, <1>11, <1>14, Rebuffered, SMTT(30)
<1>16. \A i \in 1..Len(d.bufs) : d'.bufs[i].data = d.bufs[i].data
  BY <1>14, <1>15 DEF OneBuffer, Buffer
<1>17. /\ \A id : BufOf(id, d'.bufs) = BufOf(id, d.bufs)
       /\ d'.bufs # <<>> /\ d'.bufs \in Seq(Buf)
  <2>1. Len(d'.bufs) = Len(d.bufs) /\ d' \in Tracks BY <1>15 DEF OneBuffer
  <2>2. d'.bufs \in Seq(Buf) BY <2>1 DEF Tracks
  <2> QED BY <1>1, <1>4, <2>1, <2>2 DEF BufOf
<1>18. Low' = Low /\ Started' = Started /\ Live' = Live BY <1>2 DEF Low, Started, Live
<1>19. Phases' BY <1>1, <1>2, <1>15, <1>17, <1>18 DEF Core, Phases, Early, OneBuffer
<1>20. Counts' BY <1>1, <1>2, <1>15, <1>18 DEF Core, Counts, Workers, MaxPart, OneBuffer
<1>21. Cuts'
  <2>1. ASSUME NEW ch \in Chunk, NEW m, Cut(length, d, Low, ch, m)
        PROVE  Cut(length, d', Low, ch, m)
    <3>1. ch.buf = BufOf(ch.id, d.bufs) /\ ch.id \in Nat BY <1>4, <2>1 DEF Cut, Chunk
    <3>2. ch.buf \in 1..Len(d.bufs) BY <1>1, <1>4, <3>1, Places
    <3> QED BY <1>15, <1>16, <1>17, <2>1, <3>2, SMTT(30) DEF Cut, OneBuffer
  <2>2. \A i \in 1..Len(d.chunks) : d.chunks[i] \in Chunk BY <1>1, Typed
  <2>3. \A v \in Worker : worker[v].chunk \in Chunk
    <3>1. \A v \in Worker : worker[v] \in Hand BY <1>1, Typed
    <3> QED BY <3>1, HandTyped
  <2> QED BY <1>1, <1>2, <1>15, <1>18, <2>1, <2>2, <2>3 DEF Core, Cuts, OneBuffer
<1>22. Once' BY <1>1, <1>2, <1>15 DEF Core, Once, OneBuffer
<1>23. Buffers'
  <2> SUFFICES ASSUME NEW id \in Low..(d.nextChunk - 1)
               PROVE  LET b == d'.bufs[BufOf(id, d.bufs)]
                      IN  /\ Filled(length, id, b, r)
                          /\ ~d.err /\ Fetched(id) => Len(b.data) = b.size
    <3>1. \A id : Fetched(id)' <=> Fetched(id) BY <1>2, <1>15 DEF OneBuffer, Fetched
    <3>2. d'.nextChunk = d.nextChunk /\ d'.err = d.err BY <1>15 DEF OneBuffer
    <3> QED BY <1>2, <1>17, <1>18, <3>1, <3>2 DEF Buffers
  <2>1. CASE id = r BY <1>4, <1>6, <1>9, <1>14, <1>15, <2>1 DEF Filled
  <2>2. CASE id # r
    <3>1. BufOf(id, d.bufs) # reader.buf BY <1>1, <1>2, <1>4, <1>5, <2>2, Apart
    <3>2. id \in Nat BY <1>1, <1>4
    <3>3. BufOf(id, d.bufs) \in 1..Len(d.bufs) BY <1>1, <1>4, <3>2, Places
    <3>4. d'.bufs[BufOf(id, d.bufs)] = d.bufs[BufOf(id, d.bufs)]
      BY <1>15, <3>1, <3>3 DEF OneBuffer
    <3> QED BY <1>1, <1>2, <3>4 DEF Core, Buffers
  <2> QED BY <2>1, <2>2
<1>24. Reading'
  <2>1. Low' < d'.nextChunk BY <1>4, <1>15, <1>18 DEF OneBuffer
  <2>2. Buffer' = x BY <1>2, <1>15 DEF Buffer
  <2>3. delivered' = [i \in 1..(StartOf(length, r) + Buffer'.off) |-> i - 1]
    BY <1>12, <1>14, <2>2
  <2> QED BY <1>2, <1>4, <1>17, <2>1, <2>3 DEF Reading
<1>25. TypeOK' BY <1>1, <1>2, <1>13, <1>15 DEF TypeOK, OneBuffer, Tracks, Buf
<1>26. ConnectionsCounted' BY <1>2, <1>18 DEF IInv, ConnectionsCounted
<1> QED
  BY <1>19, <1>20, <1>21, <1>22, <1>23, <1>24, <1>25, <1>26, WholeNext DEF Core

\* Bytes that follow are appended to those of the chunk.
LEMMA Grown ==
    ASSUME NEW q \in Seq(Nat), NEW st \in Nat, NEW from \in Nat, NEW k \in Nat,
           from = st + Len(q), \A i \in 1..Len(q) : q[i] = st + i - 1
    PROVE  LET z == q \o [i \in 1..k |-> from + i - 1]
           IN  /\ z \in Seq(Nat) /\ Len(z) = Len(q) + k
               /\ \A i \in 1..(Len(q) + k) : z[i] = st + i - 1
<1> DEFINE n == Len(q)
           y == [i \in 1..k |-> from + i - 1]
           z == q \o y
<1>1. n \in Nat OBVIOUS
<1>2. \A i \in 1..k : from + i - 1 \in Nat OBVIOUS
<1>3. y \in Seq(Nat) /\ Len(y) = k /\ \A i \in 1..k : y[i] = from + i - 1 BY <1>2
<1> HIDE DEF y
<1>4. /\ z \in Seq(Nat) /\ Len(z) = Len(q) + Len(y)
      /\ \A i \in 1..(Len(q) + Len(y)) : z[i] = IF i <= Len(q) THEN q[i] ELSE y[i - Len(q)]
  BY <1>3, ConcatProperties
<1> HIDE DEF z
<1>5. ASSUME NEW i \in 1..(n + k) PROVE z[i] = st + i - 1
  <2>1. z[i] = IF i <= n THEN q[i] ELSE y[i - n] BY <1>3, <1>4
  <2>2. \A j \in 1..n : q[j] = st + j - 1 /\ from = st + n OBVIOUS
  <2> HIDE DEF n
  <2>3. CASE i <= n BY <1>1, <2>1, <2>2, <2>3
  <2>4. CASE i > n
    <3>1. i - n \in 1..k BY <1>1, <2>4
    <3>2. z[i] = y[i - n] BY <1>1, <2>1, <2>4
    <3>3. y[i - n] = from + (i - n) - 1 BY <1>3, <3>1
    <3>4. from = st + n BY DEF n
    <3>5. z[i] = from + (i - n) - 1 BY <3>2, <3>3
    <3>6. from + (i - n) - 1 = st + i - 1
      <4>1. i \in Nat BY <1>1
      <4> QED BY <1>1, <3>4, <4>1
    <3> QED BY <3>5, <3>6
  <2> QED BY <1>1, <2>3, <2>4
<1> QED BY <1>3, <1>4, <1>5 DEF y, z

\* Bytes of a chunk arrive in its buffer.
LEMMA CopyInv ==
    ASSUME IInv, ~crashed, NEW w \in Worker, Copy(w)
    PROVE  IInv'
<1> DEFINE ch == worker[w].chunk
           c == ch.id
           m == worker[w].n
           from == ch.start + m
           st == StartOf(length, c)
           b == d.bufs[ch.buf]
           n == Len(b.data)
<1>1. /\ TypeOK /\ Core /\ d \in Tracks /\ length \in Nat /\ d.nextChunk \in Nat
      /\ d.bufs \in Seq(Buf) /\ Len(d.bufs) \in Nat /\ Low \in Nat
      /\ worker \in [Worker -> Hand] /\ worker[w] \in Hand
  BY Typed DEF IInv
<1>2. /\ worker[w].pc = "copying" /\ ~d.done /\ m < ch.size
      /\ UNCHANGED <<length, limit, others, reader, delivered, crashed>>
  BY DEF Copy, At
<1>3. PICK p \in Pieces :
         LET k == Least(p, ch.size - m)
         IN  /\ worker' = [worker EXCEPT ![w].n = @ + k]
             /\ d' = [d EXCEPT !.bufs[ch.buf].data = @ \o [i \in 1..k |-> from + i - 1]]
  BY DEF Copy
<1>4. /\ ch \in Chunk /\ c \in Nat /\ ch.start \in Nat /\ ch.size \in Nat /\ m \in Nat
      /\ Has(worker[w]) /\ st \in Nat
  <2>1. /\ ch \in Chunk /\ c \in Nat /\ ch.start \in Nat /\ ch.size \in Nat /\ m \in Nat
    BY <1>1, HandTyped
  <2>2. Has(worker[w]) BY <1>2 DEF Has
  <2> QED BY <1>1, <2>1, <2>2, Parts
<1>5. reader.pc \notin Early \cup {"closed"} /\ d.bufs # <<>>
  <2>1. w \in Started BY <1>2 DEF Started
  <2> QED BY <1>1, <1>2, <2>1 DEF Core, Phases
<1>6. /\ c < d.nextChunk /\ st <= ch.start
      /\ ch.start + ch.size = StartOf(length, c + 1)
      /\ ch.buf = BufOf(c, d.bufs)
      /\ c < Low => m = ch.size
      /\ ~d.done /\ c >= Low => n = (ch.start - st) + m
  <2>1. Cut(length, d, Low, ch, m) BY <1>1, <1>4 DEF Core, Cuts
  <2> QED BY <1>5, <2>1 DEF Cut
<1>7. c \in Low..(d.nextChunk - 1) /\ n = (ch.start - st) + m
  <2>1. c \in Nat /\ m \in Nat /\ m < ch.size /\ ch.size \in Nat /\ c < d.nextChunk
        /\ (c < Low => m = ch.size) /\ ~d.done
        /\ (~d.done /\ c >= Low => n = (ch.start - st) + m)
    BY <1>2, <1>4, <1>6
  <2> HIDE DEF ch, c, m, st, n
  <2>2. c >= Low BY <1>1, <2>1
  <2> QED BY <1>1, <2>1, <2>2
<1>8. ch.buf \in 1..Len(d.bufs)
  <2>1. BufOf(c, d.bufs) \in 1..Len(d.bufs) BY <1>1, <1>4, <1>5, Places
  <2> QED BY <1>6, <2>1
<1>9. Filled(length, c, b, reader.rPos) BY <1>1, <1>2, <1>6, <1>7 DEF Core, Buffers
<1> HIDE DEF m, from, st, b, n
<1>10. b \in Buf /\ b.data \in Seq(Nat) /\ n \in Nat /\ b.size \in Nat /\ b.off \in Nat
  <2>1. b \in Buf BY <1>1, <1>8 DEF b
  <2> QED BY <2>1 DEF Buf, n
<1> DEFINE k == Least(p, ch.size - m)
           data == b.data \o [i \in 1..k |-> from + i - 1]
           x == [b EXCEPT !.data = data]
           s == [worker[w] EXCEPT !.n = m + k]
<1>11. k \in Nat /\ m + k \in Nat /\ m + k <= ch.size /\ from \in Nat
  <2>1. p \in Nat /\ ch.size - m \in Nat
    <3>1. m < ch.size BY <1>2 DEF m
    <3> HIDE DEF ch
    <3> QED BY <1>4, <3>1
  <2>2. k \in Nat /\ k <= ch.size - m BY <2>1 DEF Least
  <2> HIDE DEF k
  <2> QED BY <1>4, <2>2 DEF from
<1>12. d' = [d EXCEPT !.bufs[ch.buf] = x] /\ worker' = [worker EXCEPT ![w] = s]
  BY <1>1, <1>3, <1>8 DEF Tracks, Hand, m, from, b
<1> HIDE DEF k
<1>13. from = st + n
  <2>1. from = ch.start + m BY DEF from
  <2>2. n = (ch.start - st) + m BY <1>7
  <2> QED BY <1>4, <2>1, <2>2
<1>14. \A i \in 1..n : b.data[i] = st + i - 1 BY <1>9 DEF Filled, n, st
<1>15. /\ data \in Seq(Nat) /\ Len(data) = n + k
       /\ \A i \in 1..(n + k) : data[i] = st + i - 1
  <2>1. b.data \in Seq(Nat) /\ st \in Nat /\ from \in Nat /\ k \in Nat BY <1>4, <1>10, <1>11
  <2>2. from = st + Len(b.data) /\ \A i \in 1..Len(b.data) : b.data[i] = st + i - 1
    BY <1>13, <1>14 DEF n
  <2> QED BY <2>1, <2>2, Grown, SMTT(30) DEF n
<1> HIDE DEF data
<1>16. /\ x \in Buf /\ x.data = data /\ x.size = b.size /\ x.off = b.off
       /\ Len(x.data) = (ch.start - st) + (m + k)
  <2>1. x \in Buf /\ x.data = data /\ x.size = b.size /\ x.off = b.off
    BY <1>10, <1>15 DEF Buf
  <2>2. n + k = (ch.start - st) + (m + k)
    <3>1. n = (ch.start - st) + m BY <1>7
    <3> HIDE DEF ch
    <3> QED BY <1>4, <1>10, <1>11, <3>1, SMTT(30)
  <2> QED BY <1>15, <2>1, <2>2
<1>17. Filled(length, c, x, reader.rPos)
  <2>1. /\ b.size = SizeOf(length, c) /\ b.off <= n /\ (c # reader.rPos => b.off = 0)
    BY <1>9 DEF Filled, n
  <2>2. n + k <= b.size
    <3>1. /\ StartOf(length, c + 1) = st + SizeOf(length, c) /\ SizeOf(length, c) \in Nat
      BY <1>1, <1>4, Parts DEF st
    <3>2. (ch.start - st) + ch.size = SizeOf(length, c) BY <1>4, <1>6, <3>1
    <3>3. n + k = (ch.start - st) + (m + k) BY <1>15, <1>16
    <3>4. st \in Nat /\ m \in Nat BY <1>4
    <3>5. (ch.start - st) + (m + k) <= (ch.start - st) + ch.size
      BY <1>4, <1>11, <3>4
    <3> QED BY <2>1, <3>2, <3>3, <3>5
  <2>3. b.off <= n + k BY <1>10, <1>11, <2>1
  <2> QED BY <1>15, <1>16, <2>1, <2>2, <2>3 DEF Filled, st
<1>18. /\ s \in Hand /\ s.n = m + k /\ s.chunk = ch /\ s.pc = "copying"
  BY <1>1, <1>2, <1>11 DEF Hand
<1> HIDE DEF x, s
<1>19. OneBuffer(d, d', ch.buf) /\ d'.bufs[ch.buf] = x
  BY <1>1, <1>8, <1>12, <1>16, Rebuffered, SMTT(30)
<1>20. /\ \A v \in Worker \ {w} : worker'[v] = worker[v]
       /\ worker'[w] = s /\ worker' \in [Worker -> Hand]
  BY <1>1, <1>12, <1>18
<1>21. /\ \A id : BufOf(id, d'.bufs) = BufOf(id, d.bufs)
       /\ d'.bufs # <<>> /\ d'.bufs \in Seq(Buf)
  <2>1. Len(d'.bufs) = Len(d.bufs) /\ d' \in Tracks BY <1>19 DEF OneBuffer
  <2>2. d'.bufs \in Seq(Buf) BY <2>1 DEF Tracks
  <2> QED BY <1>1, <1>5, <2>1, <2>2 DEF BufOf
<1>22. Low' = Low /\ Started' = Started /\ Live' = Live
  BY <1>2, <1>18, <1>20 DEF Low, Started, Live
<1>23. /\ Has(s)
       /\ \A v \in Worker : Has(worker'[v]) =>
             Has(worker[v]) /\ worker'[v].chunk = worker[v].chunk
       /\ \A v \in Worker : Has(worker[v]) =>
             Has(worker'[v]) /\ worker'[v].chunk = worker[v].chunk
  BY <1>4, <1>18, <1>20 DEF Has
<1>24. Phases' BY <1>1, <1>2, <1>5, <1>19, <1>21 DEF Core, Phases, Early, OneBuffer
<1>25. Counts' BY <1>1, <1>2, <1>19, <1>22 DEF Core, Counts, Workers, MaxPart, OneBuffer
<1>26. \A id \in Low..(d.nextChunk - 1) : id # c =>
          d'.bufs[BufOf(id, d.bufs)] = d.bufs[BufOf(id, d.bufs)]
  <2> SUFFICES ASSUME NEW id \in Low..(d.nextChunk - 1), id # c
               PROVE  d'.bufs[BufOf(id, d.bufs)] = d.bufs[BufOf(id, d.bufs)]
    OBVIOUS
  <2>1. BufOf(id, d.bufs) # ch.buf BY <1>1, <1>5, <1>6, <1>7, Apart
  <2>2. id \in Nat BY <1>1
  <2>3. BufOf(id, d.bufs) \in 1..Len(d.bufs) BY <1>1, <1>5, <2>2, Places
  <2> QED BY <1>19, <2>1, <2>3 DEF OneBuffer
<1>27. Cuts'
  <2>1. ASSUME NEW y \in Chunk, NEW z, Cut(length, d, Low, y, z), y.id # c
        PROVE  Cut(length, d', Low, y, z)
    <3>1. y.buf = BufOf(y.id, d.bufs) /\ y.id \in Nat /\ y.id < d.nextChunk
      BY <1>5, <2>1 DEF Cut, Chunk
    <3>2. y.id >= Low => d'.bufs[y.buf] = d.bufs[y.buf]
      <4>1. y.id >= Low => y.id \in Low..(d.nextChunk - 1) BY <1>1, <3>1
      <4> QED BY <1>26, <2>1, <3>1, <4>1
    <3> QED BY <1>19, <1>21, <2>1, <3>1, <3>2 DEF Cut, OneBuffer
  <2>2. Cut(length, d', Low, s.chunk, s.n)
    <3>1. ~(c < Low) BY <1>1, <1>7
    <3>2. Len(d'.bufs[ch.buf].data) = (ch.start - st) + (m + k) BY <1>16, <1>19
    <3> QED BY <1>6, <1>11, <1>18, <1>19, <1>21, <3>1, <3>2 DEF Cut, OneBuffer, st
  <2>3. \A i \in 1..Len(d.chunks) : Cut(length, d', Low, d.chunks[i], 0)
    <3> SUFFICES ASSUME NEW i \in 1..Len(d.chunks)
                 PROVE  Cut(length, d', Low, d.chunks[i], 0)
      OBVIOUS
    <3>1. d.chunks[i] \in Chunk BY <1>1, Typed
    <3>2. d.chunks[i].id # c BY <1>1, <1>4 DEF Core, Once
    <3> QED BY <1>1, <2>1, <3>1, <3>2 DEF Core, Cuts
  <2>4. ASSUME NEW v \in Worker, Has(worker'[v])
        PROVE  Cut(length, d', Low, worker'[v].chunk, worker'[v].n)
    <3>1. CASE v = w BY <1>20, <2>2, <3>1
    <3>2. CASE v # w
      <4>1. worker'[v] = worker[v] /\ Has(worker[v]) BY <1>20, <2>4, <3>2
      <4>2. worker[v].chunk \in Chunk BY <1>1, HandTyped
      <4>3. worker[v].chunk.id # c BY <1>1, <1>4, <3>2, <4>1 DEF Core, Once
      <4> QED BY <1>1, <2>1, <4>1, <4>2, <4>3 DEF Core, Cuts
    <3> QED BY <3>1, <3>2
  <2>5. \A v \in Worker : worker'[v].n > 0 => worker'[v].pc = "copying"
    BY <1>1, <1>18, <1>20 DEF Core, Cuts
  <2>6. /\ d'.nextChunk > 0 \/ d'.concurrency > 0 => PartsOf(length') >= 2
        /\ d'.nextChunk <= PartsOf(length')
        /\ d'.pos = StartOf(length', d'.nextChunk) /\ d'.chunks = d.chunks
    BY <1>1, <1>2, <1>19 DEF Core, Cuts, OneBuffer
  <2> QED BY <1>2, <1>22, <2>3, <2>4, <2>5, <2>6 DEF Cuts
<1>28. Once'
  <2>1. d'.chunks = d.chunks BY <1>19 DEF OneBuffer
  <2>2. /\ \A i, j \in 1..Len(d.chunks) : d.chunks[i].id = d.chunks[j].id => i = j
        /\ \A u, v \in Worker : Has(worker[u]) /\ Has(worker[v])
              /\ worker[u].chunk.id = worker[v].chunk.id => u = v
        /\ \A i \in 1..Len(d.chunks) : \A v \in Worker :
              Has(worker[v]) => d.chunks[i].id # worker[v].chunk.id
    BY <1>1 DEF Core, Once
  <2>3. \A v \in Worker : Has(worker'[v]) =>
           Has(worker[v]) /\ worker'[v].chunk.id = worker[v].chunk.id
    BY <1>23
  <2> QED BY <2>1, <2>2, <2>3 DEF Once
<1>29. Buffers'
  <2>1. \A id : Fetched(id)' <=> Fetched(id) BY <1>19, <1>23 DEF Fetched, OneBuffer
  <2>2. d'.nextChunk = d.nextChunk /\ d'.err = d.err BY <1>19 DEF OneBuffer
  <2> SUFFICES ASSUME NEW id \in Low..(d.nextChunk - 1)
               PROVE  LET y == d'.bufs[BufOf(id, d.bufs)]
                      IN  /\ Filled(length, id, y, reader.rPos)
                          /\ ~d.err /\ Fetched(id) => Len(y.data) = y.size
    BY <1>2, <1>21, <1>22, <2>1, <2>2 DEF Buffers
  <2>3. CASE id = c
    <3>1. ~Fetched(id) BY <1>4, <2>3 DEF Fetched
    <3> QED BY <1>6, <1>17, <1>19, <2>3, <3>1
  <2>4. CASE id # c BY <1>1, <1>2, <1>26, <2>4 DEF Core, Buffers
  <2> QED BY <2>3, <2>4
<1>30. Reading'
  <2>1. reader.pc \in {"reading", "next", "waits"} => Low' < d'.nextChunk
    BY <1>1, <1>19, <1>22 DEF Core, Reading, OneBuffer
  <2>2. ASSUME reader.pc = "reading"
        PROVE  /\ reader.buf = BufOf(reader.rPos, d'.bufs)
               /\ Buffer'.off = Buffer.off
    <3>1. /\ reader.buf = BufOf(reader.rPos, d.bufs) /\ reader.rPos = Low
          /\ reader.rPos \in Nat
      BY <1>1, <1>2, <2>2 DEF Core, Reading, Low
    <3>2. reader.buf \in 1..Len(d.bufs)
      <4>1. BufOf(reader.rPos, d.bufs) \in 1..Len(d.bufs) BY <1>1, <1>5, <3>1, Places
      <4> QED BY <3>1, <4>1
    <3>3. reader.buf = ch.buf => Buffer'.off = Buffer.off
      <4> SUFFICES ASSUME reader.buf = ch.buf PROVE Buffer'.off = Buffer.off
        OBVIOUS
      <4>1. Buffer' = x /\ Buffer = b BY <1>2, <1>19 DEF Buffer, b
      <4> QED BY <1>16, <4>1
    <3>4. reader.buf # ch.buf => Buffer'.off = Buffer.off
      <4> SUFFICES ASSUME reader.buf # ch.buf PROVE Buffer'.off = Buffer.off
        OBVIOUS
      <4>1. d'.bufs[reader.buf] = d.bufs[reader.buf]
        BY <1>19, <3>2 DEF OneBuffer
      <4> QED BY <1>2, <4>1 DEF Buffer
    <3> QED BY <1>21, <3>1, <3>3, <3>4
  <2>3. reader.pc = "reading" =>
           delivered = [i \in 1..(StartOf(length, reader.rPos) + Buffer.off) |-> i - 1]
    BY <1>1, <1>2 DEF Core, Reading
  <2>4. reader.pc \in {"next", "waits"} =>
           delivered = [i \in 1..StartOf(length, reader.rPos + 1) |-> i - 1]
    BY <1>1 DEF Core, Reading
  <2> QED BY <1>2, <2>1, <2>2, <2>3, <2>4 DEF Reading
<1>31. TypeOK' BY <1>1, <1>2, <1>19, <1>20 DEF TypeOK, OneBuffer, Tracks, Buf, Hand
<1>32. ConnectionsCounted' BY <1>2, <1>22 DEF IInv, ConnectionsCounted
<1> QED
  BY <1>24, <1>25, <1>27, <1>28, <1>29, <1>30, <1>31, <1>32, WholeNext DEF Core

-----------------------------------------------------------------------------
(* The whole of it                                                           *)

\* Before anything happens
LEMMA InitIInv == Init => IInv
<1> SUFFICES ASSUME Init PROVE IInv OBVIOUS
<1>1. /\ length \in Lengths /\ length \in Nat /\ limit = Limit /\ others = 0
      /\ d = [nextChunk |-> 0, pos |-> 0, concurrency |-> 0, bufs |-> <<>>,
              chunks |-> <<>>, closed |-> FALSE, written |-> 0, err |-> FALSE,
              done |-> FALSE]
      /\ worker = [w \in Worker |-> NoWorker]
      /\ reader = [pc |-> "start", rPos |-> 0, buf |-> 1]
      /\ delivered = <<>> /\ crashed = FALSE
  BY DEF Init
<1>2. d \in Tracks BY <1>1 DEF Tracks
<1>3. worker \in [Worker -> Hand] BY <1>1, NoHand
<1>4. TypeOK
  <2>1. Limit \in Nat /\ MaxOthers \in Nat OBVIOUS
  <2>2. reader \in [pc : ReaderPc, rPos : Nat, buf : Nat \ {0}] BY <1>1 DEF ReaderPc
  <2>3. limit \in 0..Limit /\ others \in 0..MaxOthers BY <1>1, <2>1
  <2>4. delivered \in Seq(Nat) /\ crashed \in BOOLEAN
    <3>1. <<>> \in Seq(Nat) OBVIOUS
    <3> QED BY <1>1, <3>1
  <2> QED BY <1>1, <1>2, <1>3, <2>2, <2>3, <2>4 DEF TypeOK, Tracks, Buf, Hand
<1>5. Live = {} /\ Started = {} /\ \A w \in Worker : ~Has(worker[w]) /\ worker[w].n = 0
  BY <1>1, NoHand DEF Live, Started, Has
<1>6. Cardinality({}) = 0 BY FS_EmptySet
<1>7. ConnectionsCounted
  <2>1. Limit \in Nat OBVIOUS
  <2> QED BY <1>1, <1>5, <1>6, <2>1 DEF ConnectionsCounted
<1>8. Workers \in Nat /\ PartsOf(length) \in Nat /\ StartOf(length, 0) = 0
  BY <1>1, Sizes, Parts
<1>9. Low = 0 BY <1>1 DEF Low
<1>10. Phases BY <1>1, <1>5 DEF Phases, Early
<1>11. Counts BY <1>1, <1>5, <1>6, <1>8, <1>9 DEF Counts, Most
<1>12. Cuts BY <1>1, <1>5, <1>8 DEF Cuts
<1>13. Once BY <1>1, <1>5 DEF Once
<1>14. Buffers BY <1>1, <1>9 DEF Buffers
<1>15. Reading BY <1>1 DEF Reading
<1> QED BY <1>4, <1>7, <1>10, <1>11, <1>12, <1>13, <1>14, <1>15, Whole DEF Core

\* A step of a worker, of its own or with the server
LEMMA WorkerStepInv ==
    ASSUME IInv, ~crashed, NEW w \in Worker, WorkerStep(w) \/ Answer(w)
    PROVE  IInv'
<1>1. CASE Receive(w) BY <1>1, ReceiveInv
<1>2. CASE ChannelClosed(w) \/ DropChunk(w) BY <1>2, EndsInv
<1>3. CASE Attempt(w) BY <1>3, AttemptInv
<1>4. CASE SizeMismatch(w) BY <1>4, SizeMismatchInv
<1>5. CASE StartCopy(w) BY <1>5, StartCopyInv
<1>6. CASE Overload(w) BY <1>6, OverloadInv
<1>7. CASE Resume(w) BY <1>7, ResumeInv
<1>8. CASE GiveUp(w) BY <1>8, GiveUpInv
<1>9. CASE Copied(w) BY <1>9, CopiedInv
<1>10. CASE NoAnswer(w) BY <1>10, NoAnswerInv
<1>11. CASE Refused(w) \/ Connected(w) BY <1>11, AnsweredInv
<1>12. CASE Copy(w) BY <1>12, CopyInv
<1>13. CASE Interrupted(w) BY <1>13, InterruptedInv
<1> QED
  BY <1>1, <1>2, <1>3, <1>4, <1>5, <1>6, <1>7, <1>8, <1>9, <1>10, <1>11, <1>12, <1>13
     DEF WorkerStep, Answer

\* Every step keeps the invariant; after the crash there are none.
LEMMA NextIInv == IInv /\ [Next]_vars => IInv'
<1> SUFFICES ASSUME IInv, [Next]_vars PROVE IInv' OBVIOUS
<1>1. CASE UNCHANGED vars
  <2>1. /\ UNCHANGED <<length, limit, others, d, worker, reader, delivered, crashed>>
        /\ Low' = Low /\ Started' = Started /\ Live' = Live /\ Buffer' = Buffer
        /\ Workers' = Workers /\ MaxPart' = MaxPart /\ ChannelSize' = ChannelSize
        /\ Free' = Free
    BY <1>1 DEF vars, Low, Started, Live, Buffer, Workers, MaxPart, ChannelSize, Free
  <2>2. TypeOK' /\ ConnectionsCounted' /\ ChunksCoverRange' /\ SendFindsRoom'
    BY <2>1 DEF IInv, TypeOK, ConnectionsCounted, ChunksCoverRange, SendFindsRoom
  <2>3. ASSUME Core PROVE Core'
    <3>1. Phases' /\ Counts' BY <2>1, <2>3 DEF Core, Phases, Counts
    <3>2. Cuts' /\ Once' BY <2>1, <2>3 DEF Core, Cuts, Once
    <3>3. Buffers' BY <2>1, <2>3 DEF Core, Buffers, Fetched
    <3>4. Reading' BY <2>1, <2>3 DEF Core, Reading
    <3> QED BY <3>1, <3>2, <3>3, <3>4 DEF Core
  <2> QED BY <2>1, <2>2, <2>3 DEF IInv
<1>2. CASE Next
  <2>1. ~crashed /\ Step BY <1>2 DEF Next
  <2>2. CASE Download BY <2>1, <2>2, DownloadInv
  <2>3. CASE FirstTask BY <2>1, <2>3, FirstTaskInv
  <2>4. CASE SingleEnds BY <2>1, <2>4, SingleEndsInv
  <2>5. CASE \E w \in Worker : WorkerStep(w) \/ Answer(w)
    BY <2>1, <2>5, WorkerStepInv
  <2>6. CASE ReadBytes BY <2>1, <2>6, ReadBytesInv
  <2>7. CASE ReadFails BY <2>1, <2>7, ReadFailsInv
  <2>8. CASE FinishBuf BY <2>1, <2>8, FinishBufInv
  <2>9. CASE NextBuf BY <2>1, <2>9, NextBufInv
  <2>10. CASE Interrupt \/ Cancel \/ RequestEnds BY <2>1, <2>10, StopsInv
  <2>11. CASE CloseChannel BY <2>1, <2>11, CloseChannelInv
  <2>12. CASE DropBuffers BY <2>1, <2>12, DropBuffersInv
  <2>13. CASE OtherConnects \/ OtherEnds BY <2>1, <2>13, OthersInv
  <2> QED
    BY <2>1, <2>2, <2>3, <2>4, <2>5, <2>6, <2>7, <2>8, <2>9, <2>10, <2>11, <2>12, <2>13
       DEF Step, Read, Closing
<1> QED BY <1>1, <1>2

\* The inductive invariant holds in every state.
THEOREM Invariant == Spec => []IInv
BY InitIInv, NextIInv, PTL DEF Spec

\* Every variable keeps its type, the connections left stay between none and the
\* limit, and no chunk is retried more often than allowed.
THEOREM TypeCorrect == Spec => []TypeOK
<1>1. IInv => TypeOK BY DEF IInv
<1> QED BY <1>1, Invariant, PTL

\* Every connection counted against the limit has an owner.
THEOREM NoConnectionLost == Spec => []ConnectionsCounted
<1>1. IInv => ConnectionsCounted BY DEF IInv
<1> QED BY <1>1, Invariant, PTL

\* The chunks cut so far cover the range from its begin, the whole of it exactly
\* when all were cut.
THEOREM RangeCovered == Spec => []ChunksCoverRange
<1>1. IInv => ChunksCoverRange BY DEF IInv
<1> QED BY <1>1, Invariant, PTL

\* A sender that holds the mutex finds room in the channel, whatever the numbers of
\* workers and chunks, unless an empty rest of a chunk was put back.
THEOREM RoomToSend == Spec => []SendFindsRoom
<1>1. IInv => SendFindsRoom BY DEF IInv
<1> QED BY <1>1, Invariant, PTL

-----------------------------------------------------------------------------
(* No chunk is lost                                                          *)

\* A send on the closed channel, which ends the process, is made after the cancel.
CrashLate == crashed => d.done

\* Only what sends, or closes the channel under a sender, can crash.
LEMMA NextCrashLate == IInv /\ CrashLate /\ [Next]_vars => CrashLate'
<1> SUFFICES ASSUME IInv, CrashLate, [Next]_vars PROVE CrashLate' OBVIOUS
<1>1. CASE UNCHANGED vars BY <1>1 DEF vars, CrashLate
<1>2. CASE Next
  <2>1. ~crashed /\ Step BY <1>2 DEF Next
  <2>2. Phases /\ d \in Tracks BY <2>1, Typed DEF IInv, Core
  <2>3. d.closed => d.done BY <2>2 DEF Phases
  <2>4. ASSUME NEW e, Sends(e) PROVE CrashLate'
    BY <2>3, <2>4 DEF Sends, CrashLate
  <2>5. ASSUME UNCHANGED crashed PROVE CrashLate' BY <2>1, <2>5 DEF CrashLate
  <2>6. CASE FirstTask BY <2>4, <2>6 DEF FirstTask
  <2>7. CASE FinishBuf BY <2>4, <2>5, <2>7 DEF FinishBuf
  <2>8. CASE CloseChannel
    <3>1. d' = [d EXCEPT !.closed = TRUE] /\ d.done
      BY <2>2, <2>8 DEF CloseChannel, Phases
    <3> QED BY <2>2, <3>1 DEF Tracks, CrashLate
  <2>9. ASSUME NEW w \in Worker, WorkerStep(w) \/ Answer(w) PROVE CrashLate'
    <3>1. CASE StartCopy(w) BY <2>4, <2>5, <3>1 DEF StartCopy
    <3>2. CASE Overload(w) BY <2>4, <2>5, <3>2 DEF Overload, PutBack
    <3>3. CASE GiveUp(w) BY <2>5, <3>3 DEF GiveUp, End
    <3>4. CASE \/ Receive(w) \/ Attempt(w) \/ SizeMismatch(w) \/ Resume(w) \/ Copied(w)
               \/ ChannelClosed(w) \/ DropChunk(w)
      BY <2>5, <3>4
         DEF Receive, Attempt, SizeMismatch, Resume, Copied, ChannelClosed, DropChunk, End
    <3>5. CASE Answer(w)
      <4>1. UNCHANGED crashed
        BY <3>5 DEF Answer, NoAnswer, Refused, Connected, Copy, Interrupted
      <4> QED BY <2>5, <4>1
    <3> QED BY <2>9, <3>1, <3>2, <3>3, <3>4, <3>5 DEF WorkerStep
  <2>10. CASE \/ Download \/ SingleEnds \/ ReadBytes \/ ReadFails \/ NextBuf \/ Interrupt
              \/ Cancel \/ DropBuffers \/ RequestEnds \/ OtherConnects \/ OtherEnds
    BY <2>5, <2>10 DEF Download, SingleEnds, ReadBytes, ReadFails, NextBuf, Interrupt,
       Cancel, DropBuffers, RequestEnds, OtherConnects, OtherEnds
  <2> QED BY <2>1, <2>6, <2>7, <2>8, <2>9, <2>10 DEF Step, Read, Closing
<1> QED BY <1>1, <1>2

\* What is alike is one or none.
LEMMA OneOrNone ==
    ASSUME NEW S, \A x, y \in S : x = y
    PROVE  Cardinality(S) = IF S = {} THEN 0 ELSE 1
<1>1. CASE S = {} BY <1>1, FS_EmptySet
<1>2. CASE S # {}
  <2>1. PICK x \in S : TRUE BY <1>2
  <2>2. S = {x} BY <2>1
  <2> QED BY <1>2, <2>2, FS_Singleton
<1> QED BY <1>1, <1>2

\* A chunk the reader has not finished is waited for, fetched, or complete.
LEMMA NotLost == IInv /\ CrashLate => ChunkNotLost
<1> SUFFICES ASSUME IInv, CrashLate, ~d.err, ~d.done, reader.pc = "reading"
             PROVE  /\ reader.rPos < d.nextChunk
                    /\ \A id \in reader.rPos..(d.nextChunk - 1) :
                          LET places == Cardinality(InChannel(id)) + Cardinality(AtWorker(id))
                          IN  places = 1 \/ (places = 0 /\ Complete(id))
  BY DEF ChunkNotLost
<1>1. TypeOK /\ Core BY DEF IInv, CrashLate
<1>2. Low = reader.rPos BY DEF Low
<1>3. reader.rPos < d.nextChunk BY <1>1, <1>2 DEF Core, Reading
<1>4. ASSUME NEW id \in reader.rPos..(d.nextChunk - 1)
      PROVE  LET places == Cardinality(InChannel(id)) + Cardinality(AtWorker(id))
             IN  places = 1 \/ (places = 0 /\ Complete(id))
  <2> DEFINE C == InChannel(id)
             A == AtWorker(id)
  <2>1. A = {w \in Worker : Has(worker[w]) /\ worker[w].chunk.id = id}
    BY DEF AtWorker, Busy, Live, Has
  <2>2. \A x, y \in C : x = y BY <1>1 DEF Core, Once, InChannel
  <2>3. \A x, y \in A : x = y BY <1>1, <2>1 DEF Core, Once
  <2>4. C = {} \/ A = {} BY <1>1, <2>1 DEF Core, Once, InChannel
  <2>5. C = {} /\ A = {} => Fetched(id) BY <2>1 DEF Fetched, InChannel
  <2>6. Fetched(id) => Complete(id) BY <1>1, <1>2 DEF Core, Buffers, Complete
  <2> HIDE DEF C, A
  <2>7. /\ Cardinality(C) = IF C = {} THEN 0 ELSE 1
        /\ Cardinality(A) = IF A = {} THEN 0 ELSE 1
    BY <2>2, <2>3, OneOrNone
  <2> QED BY <2>4, <2>5, <2>6, <2>7 DEF C, A
<1> QED BY <1>3, <1>4

\* Until the download fails or is cancelled no chunk is lost and none is fetched
\* twice at once.
THEOREM NoChunkLost == Spec => []ChunkNotLost
<1>1. Init => CrashLate BY DEF Init, CrashLate
<1> QED BY <1>1, NextCrashLate, NotLost, Invariant, PTL DEF Spec

-----------------------------------------------------------------------------
(* The stream its consumer sees                                              *)

\* How far the reader came in the range
Place == StartOf(length, reader.rPos) + Buffer.off

\* What the reader reads lies in the range, and the last chunk ends it.
LEMMA InRange ==
    ASSUME TypeOK, Core, reader.pc = "reading", ~d.done
    PROVE  /\ Place \in Nat /\ Place <= length
           /\ delivered = [i \in 1..Place |-> i - 1]
           /\ Buffer \in Buf /\ Buffer.off <= Len(Buffer.data)
           /\ Buffer.off >= Buffer.size /\ reader.rPos + 1 >= MaxPart => Place = length
<1> DEFINE r == reader.rPos
           st == StartOf(length, r)
<1>1. /\ length \in Nat /\ r \in Nat /\ d.nextChunk \in Nat /\ d.bufs \in Seq(Buf)
      /\ d.bufs # <<>>
  BY Typed DEF Core, Phases, Early
<1>2. /\ Low = r /\ r < d.nextChunk /\ reader.buf = BufOf(r, d.bufs)
      /\ delivered = [i \in 1..(st + Buffer.off) |-> i - 1]
  BY DEF Core, Reading, Low
<1>3. r \in Low..(d.nextChunk - 1) BY <1>1, <1>2
<1>4. Filled(length, r, Buffer, r) BY <1>2, <1>3 DEF Core, Buffers, Buffer
<1>5. reader.buf \in 1..Len(d.bufs)
  <2>1. BufOf(r, d.bufs) \in 1..Len(d.bufs) BY <1>1, Places
  <2> QED BY <1>2, <2>1
<1>6. /\ Buffer.off \in Nat /\ Len(Buffer.data) \in Nat /\ Buffer \in Buf
      /\ Buffer.off <= Len(Buffer.data)
  <2>1. Buffer \in Buf BY <1>1, <1>5 DEF Buffer
  <2> QED BY <1>4, <2>1 DEF Buf, Filled
<1>7. Buffer.off <= SizeOf(length, r) /\ Buffer.size = SizeOf(length, r)
  <2>1. SizeOf(length, r) \in Nat BY <1>1, Parts
  <2> QED BY <1>4, <1>6, <2>1 DEF Filled
<1>8. /\ st \in Nat /\ SizeOf(length, r) \in Nat
      /\ StartOf(length, r + 1) = st + SizeOf(length, r)
  BY <1>1, Parts
<1>9. PartsOf(length) >= 2 /\ d.nextChunk <= PartsOf(length) BY <1>1, <1>2 DEF Core, Cuts
<1>10. PartsOf(length) \in Nat /\ MaxPart = PartsOf(length) BY <1>1, Parts, Sizes
<1>11. StartOf(length, r + 1) <= length
  <2>1. r < PartsOf(length) BY <1>1, <1>2, <1>9, <1>10
  <2> QED BY <1>1, <1>9, <2>1, Parts
<1>12. ASSUME r + 1 >= MaxPart PROVE StartOf(length, r + 1) = length
  <2>1. r + 1 = PartsOf(length) BY <1>1, <1>2, <1>9, <1>10, <1>12
  <2> QED BY <1>1, <1>9, <2>1, Parts
<1> HIDE DEF r, st
<1>13. st + Buffer.off \in Nat /\ st + Buffer.off <= st + SizeOf(length, r)
  BY <1>6, <1>7, <1>8
<1>14. ASSUME Buffer.off >= Buffer.size, r + 1 >= MaxPart
       PROVE  st + Buffer.off = length
  <2>1. Buffer.off = SizeOf(length, r) BY <1>6, <1>7, <1>8, <1>14
  <2> QED BY <1>8, <1>12, <1>14, <2>1
<1>15. st + Buffer.off <= length BY <1>1, <1>8, <1>11, <1>13
<1> QED BY <1>2, <1>6, <1>13, <1>14, <1>15 DEF r, st, Place

\* The same, of the next state
LEMMA InRangeNext ==
    (TypeOK /\ Core /\ reader.pc = "reading" /\ ~d.done)' =>
        (Place \in Nat /\ Place <= length /\ delivered = [i \in 1..Place |-> i - 1])'
<1>1. TypeOK /\ Core /\ reader.pc = "reading" /\ ~d.done =>
         Place \in Nat /\ Place <= length /\ delivered = [i \in 1..Place |-> i - 1]
  BY InRange
<1> QED BY <1>1, PTL

\* Bytes read are delivered.
LEMMA ReadDelivers ==
    ASSUME IInv, ~crashed, ReadBytes
    PROVE  Stream!Deliver
<1>1. TypeOK /\ Core /\ delivered \in Seq(Nat) /\ d \in Tracks BY Typed DEF IInv
<1>2. /\ reader.pc = "reading" /\ ~d.done
      /\ UNCHANGED <<length, limit, others, worker, reader, crashed>>
  BY DEF ReadBytes
<1>3. d'.done = d.done
  <2>1. PICK x : d' = [d EXCEPT !.bufs[reader.buf].off = x] BY DEF ReadBytes
  <2> QED BY <1>1, <2>1 DEF Tracks
<1>4. IInv' BY ReadBytesInv
<1>5. (TypeOK /\ Core)' BY <1>2, <1>4 DEF IInv
<1>6. Place' \in Nat /\ Place' <= length /\ delivered' = [i \in 1..Place' |-> i - 1]
  BY <1>2, <1>3, <1>5, InRangeNext
<1>7. Buffer.data \in Seq(Nat) /\ Buffer.off \in Nat /\ Buffer.off <= Len(Buffer.data)
  <2>1. Buffer \in Buf /\ Buffer.off <= Len(Buffer.data) BY <1>1, <1>2, InRange
  <2> QED BY <2>1 DEF Buf
<1>9. Len(delivered) < Len(delivered')
  <2> DEFINE unread == SubSeq(Buffer.data, Buffer.off + 1, Len(Buffer.data))
  <2>1. unread \in Seq(Nat) /\ unread # <<>> BY <1>7, RestOf DEF ReadBytes
  <2>2. PICK p \in Pieces : delivered' = delivered \o SubSeq(unread, 1, Least(p, Len(unread)))
    BY DEF ReadBytes
  <2>3. p \in Nat /\ p > 0 OBVIOUS
  <2> HIDE DEF unread
  <2> DEFINE k == Least(p, Len(unread))
  <2>4. k \in Nat /\ k > 0 /\ k <= Len(unread) BY <2>1, <2>3 DEF Least
  <2> HIDE DEF k
  <2> DEFINE y == SubSeq(unread, 1, k)
  <2>5. y \in Seq(Nat) /\ Len(y) = k BY <2>1, <2>4
  <2>6. delivered' = delivered \o y BY <2>2 DEF k
  <2> HIDE DEF y
  <2>7. Len(delivered') = Len(delivered) + Len(y) BY <1>1, <2>5, <2>6, ConcatProperties
  <2>8. Len(delivered) \in Nat BY <1>1
  <2> QED BY <2>4, <2>5, <2>7, <2>8
<1>10. Len(delivered') = Place' BY <1>6
<1>11. Place' \in (Len(delivered) + 1)..length
  <2>1. Len(delivered) \in Nat /\ length \in Nat BY <1>1, Typed
  <2> QED BY <1>6, <1>9, <1>10, <2>1
<1>12. Status = "open" BY <1>2 DEF Status
<1>13. Status' = Status BY <1>2 DEF Status
<1> QED BY <1>2, <1>6, <1>11, <1>12, <1>13 DEF Stream!Deliver, Stream!FirstBytes

\* The end of file comes after the last byte.
LEMMA EndComesLast ==
    ASSUME IInv, ~crashed, FinishBuf
    PROVE  Stream!EndOfFile \/ UNCHANGED Stream!svars
<1>1. TypeOK /\ Core /\ length \in Nat
      /\ reader \in [pc : ReaderPc, rPos : Nat, buf : Nat \ {0}]
  BY Typed DEF IInv
<1>2. /\ reader.pc = "reading" /\ ~d.done /\ Buffer.off >= Buffer.size
      /\ length' = length /\ delivered' = delivered
  BY DEF FinishBuf
<1>3. Status = "open" BY <1>2 DEF Status
<1>4. CASE reader.rPos + 1 >= MaxPart
  <2>1. reader'.pc = "eof" BY <1>1, <1>4 DEF FinishBuf
  <2>2. Status' = "eof" BY <2>1 DEF Status
  <2>3. Len(delivered) = length
    <3>1. Place = length /\ delivered = [i \in 1..Place |-> i - 1]
      BY <1>1, <1>2, <1>4, InRange
    <3> QED BY <1>1, <3>1
  <2> QED BY <1>2, <1>3, <2>2, <2>3 DEF Stream!EndOfFile
<1>5. CASE ~(reader.rPos + 1 >= MaxPart)
  <2>1. reader'.pc \in {"next", "waits"} BY <1>1, <1>5 DEF FinishBuf
  <2>2. Status' = "open" BY <2>1 DEF Status
  <2> QED BY <1>2, <1>3, <2>2 DEF Stream!svars
<1> QED BY <1>4, <1>5

\* What workers do is not seen by the consumer.
LEMMA WorkersUnseen ==
    ASSUME NEW w \in Worker, WorkerStep(w) \/ Answer(w)
    PROVE  UNCHANGED <<length, reader, delivered>>
BY DEF WorkerStep, Answer, Receive, ChannelClosed, DropChunk, Attempt, SizeMismatch,
   StartCopy, Overload, Resume, GiveUp, Copied, NoAnswer, Refused, Connected, Copy,
   Interrupted, End

\* Every step is one of the stream, or is not seen.
LEMMA StepStreams == IInv /\ [Next]_vars => [Stream!SNext]_Stream!svars
<1> SUFFICES ASSUME IInv, [Next]_vars PROVE [Stream!SNext]_Stream!svars OBVIOUS
<1> USE DEF Stream!SNext
<1>1. ASSUME UNCHANGED <<length, reader, delivered>> PROVE UNCHANGED Stream!svars
  BY <1>1 DEF Stream!svars, Status
<1>2. reader \in [pc : ReaderPc, rPos : Nat, buf : Nat \ {0}] BY Typed DEF IInv
<1>3. CASE UNCHANGED vars BY <1>1, <1>3 DEF vars
<1>4. CASE Next
  <2>1. ~crashed /\ Step BY <1>4 DEF Next
  <2>2. CASE Download
    <3>1. reader.pc = "start" /\ UNCHANGED <<length, delivered>> BY <2>2 DEF Download
    <3>2. reader'.pc \in {"refused", "panicked", "single", "sending"}
      BY <1>2, <2>2 DEF Download
    <3>3. Status = "open" /\ Status' \in {"open", "failed"} BY <3>1, <3>2 DEF Status
    <3> QED BY <3>1, <3>3 DEF Stream!Fail, Stream!svars
  <2>3. CASE FirstTask \/ NextBuf
    <3>1. UNCHANGED <<length, delivered>> BY <2>3 DEF FirstTask, NextBuf
    <3>2. reader.pc \in {"sending", "next", "waits"} BY <2>3 DEF FirstTask, NextBuf
    <3>3. reader'.pc = "reading"
      <4>1. FirstTask => reader' = [reader EXCEPT !.pc = "reading"] BY DEF FirstTask
      <4>2. NextBuf => reader'.pc = "reading" BY DEF NextBuf
      <4> QED BY <1>2, <2>3, <4>1, <4>2
    <3>4. Status = "open" /\ Status' = "open" BY <3>2, <3>3 DEF Status
    <3> QED BY <3>1, <3>4 DEF Stream!svars
  <2>4. CASE SingleEnds \/ Interrupt
    <3>1. UNCHANGED <<length, delivered>> BY <2>4 DEF SingleEnds, Interrupt
    <3>2. /\ reader.pc \in {"single", "reading", "eof", "failed"}
          /\ reader'.pc \in {"closed", "cancelling"}
      BY <1>2, <2>4 DEF SingleEnds, Interrupt
    <3>3. Status # "closed" /\ Status' = "closed" BY <3>2 DEF Status
    <3> QED BY <3>1, <3>3 DEF Stream!Close
  <2>5. CASE \E w \in Worker : WorkerStep(w) \/ Answer(w)
    BY <1>1, <2>5, WorkersUnseen
  <2>6. CASE ReadBytes BY <2>1, <2>6, ReadDelivers
  <2>7. CASE ReadFails
    <3>1. /\ UNCHANGED <<length, delivered>> /\ reader.pc = "reading"
          /\ reader'.pc = "failed"
      BY <1>2, <2>7 DEF ReadFails
    <3>2. Status = "open" /\ Status' = "failed" BY <3>1 DEF Status
    <3> QED BY <3>1, <3>2 DEF Stream!Fail
  <2>8. CASE FinishBuf BY <2>1, <2>8, EndComesLast
  <2>9. CASE Closing
    <3>1. UNCHANGED <<length, delivered>> BY <2>9 DEF Closing, Cancel, CloseChannel, DropBuffers
    <3>2. /\ reader.pc \in {"cancelling", "closing", "dropping"}
          /\ reader'.pc \in {"closing", "dropping", "closed"}
      BY <1>2, <2>9 DEF Closing, Cancel, CloseChannel, DropBuffers
    <3>3. Status = "closed" /\ Status' = "closed" BY <3>2 DEF Status
    <3> QED BY <3>1, <3>3 DEF Stream!svars
  <2>10. CASE RequestEnds \/ OtherConnects \/ OtherEnds
    BY <1>1, <2>10 DEF RequestEnds, OtherConnects, OtherEnds
  <2> QED BY <2>1, <2>2, <2>3, <2>4, <2>5, <2>6, <2>7, <2>8, <2>9, <2>10 DEF Step, Read
<1> QED BY <1>3, <1>4

\* The consumer gets the bytes of the range in order, each once, and the end of file
\* after all of them: the download implements the ordered stream.
THEOREM StreamInOrder == Spec => StreamSpec
<1>1. Init => Stream!SInit BY DEF Init, Stream!SInit, Status
<1> QED BY <1>1, StepStreams, Invariant, PTL DEF Spec, StreamSpec, Stream!SSpec

=============================================================================

---------------------------- MODULE Downloader ------------------------------
(***************************************************************************)
(* The concurrent ranged download of internal/net/request.go: one reader,  *)
(* the workers it needs, the channel of chunks between them, the buffers   *)
(* they share, and the process-wide limit of connections.                  *)
(*                                                                         *)
(* What happens under d.m is one step, and so is every access without it   *)
(* that can be told apart: the reader picks its next buffer after it sent  *)
(* a chunk, and interrupt sets the error, cancels, closes the channel and  *)
(* drops the buffers one after the other, while workers go on.             *)
(*                                                                         *)
(* A chunk is sent with d.m held.  A sender that finds the channel full    *)
(* waits with the mutex, which is shown by its chunk: it is there, beyond  *)
(* the capacity, and until a worker receives one nobody gets d.m.          *)
(*                                                                         *)
(* A byte is named by its place in the range.  The server answers a range  *)
(* with bytes of that range, perhaps fewer, or with an error; it does not  *)
(* send others.                                                            *)
(***************************************************************************)
EXTENDS Integers, Sequences, FiniteSets

CONSTANTS
    Concurrency,         \* Downloader.Concurrency
    PartSize,            \* Downloader.PartSize
    PartBodyMaxRetries,  \* Downloader.PartBodyMaxRetries
    Limit,               \* connections allowed to all downloads together
    Lengths,             \* the lengths of range that are asked for
    MaxOthers,           \* bound on the connections of other downloads
    Pieces               \* bound: the numbers of bytes moved by one read or write

ASSUME DownloaderAssumption ==
    /\ {Concurrency, PartSize, Limit} \subseteq Nat \ {0}
    /\ {PartBodyMaxRetries, MaxOthers} \subseteq Nat
    /\ Lengths \subseteq Nat
    /\ Pieces \subseteq Nat \ {0}

Worker == 1..Concurrency

VARIABLES
    length,     \* params.Range.Length
    limit,      \* ConcurrencyLimit.Limit
    others,     \* connections that other downloads hold
    d,          \* the downloader
    worker,     \* its goroutines
    reader,     \* the consumer in MultiReadCloser, and what it does
    delivered,  \* the bytes the consumer got
    crashed     \* a send on the closed channel ended the process

vars == <<length, limit, others, d, worker, reader, delivered, crashed>>

Least(a, b) == IF a < b THEN a ELSE b
Most(a, b) == IF a < b THEN b ELSE a

MaxPart == (length \div PartSize) + (IF length % PartSize > 0 THEN 1 ELSE 0)
Workers == Least(MaxPart, Concurrency)

\* Mutant: the channel has no room for the chunk of the first worker.
ChannelSize_OneLess == Workers - 1

\* The capacity of chunkChannel
ChannelSize == Workers

NewBuf == [size |-> PartSize, data |-> <<>>, off |-> 0]

NoChunk == [start |-> 0, size |-> 0, id |-> 0, buf |-> 0,
            newConcurrency |-> FALSE]

NoWorker == [pc |-> "none", chunk |-> NoChunk, retry |-> 0, n |-> 0]

Init ==
    /\ length \in Lengths
    /\ limit = Limit
    /\ others = 0
    /\ d = [nextChunk |-> 0, pos |-> 0, concurrency |-> 0, bufs |-> <<>>,
            chunks |-> <<>>, closed |-> FALSE, written |-> 0, err |-> FALSE,
            done |-> FALSE]
    /\ worker = [w \in Worker |-> NoWorker]
    /\ reader = [pc |-> "start", rPos |-> 0, buf |-> 1]
    /\ delivered = <<>>
    /\ crashed = FALSE

-----------------------------------------------------------------------------
(* The channel and the buffers *)

\* Mutant: the second chunk does not make up for the first.
ChunkSize_NoMakeUp(id) ==
    LET first == length % PartSize
        half == PartSize \div 2
    IN  IF id = 0 /\ first > 0 THEN Most(first, half) ELSE PartSize

\* A range that is no multiple of PartSize begins with the odd part, which is
\* at least half a part: the second chunk makes up for what that added.
ChunkSize(id) ==
    LET first == length % PartSize
        half == PartSize \div 2
    IN  CASE id = 0 /\ first > 0 -> Most(first, half)
          [] id = 1 /\ first > 0 /\ first < half -> PartSize + first - half
          [] OTHER -> PartSize

\* getBuf
BufOf(id, bufs) == (id % Len(bufs)) + 1

\* Mutant: the test comes after the count went down.
IsNewBuf_Late(new) == d.concurrency > (IF new THEN 1 ELSE 0) \/ d.bufs = <<>>

\* While workers remain to be started a chunk gets a buffer of its own.
IsNewBuf(new) == d.concurrency > 0

\* The rest of sendChunkTask: later the buffers go round.
Enqueued(new) ==
    LET bufs == IF IsNewBuf(new) THEN Append(d.bufs, NewBuf) ELSE d.bufs
        b == IF IsNewBuf(new) THEN Len(bufs) ELSE BufOf(d.nextChunk, bufs)
        size == ChunkSize(d.nextChunk)
        ch == [start |-> d.pos, size |-> size, id |-> d.nextChunk, buf |-> b,
               newConcurrency |-> new]
        e == [d EXCEPT !.concurrency = IF new THEN @ - 1 ELSE @,
                       !.bufs = bufs]
    IN  IF d.pos >= length THEN e
        ELSE [e EXCEPT !.bufs = [bufs EXCEPT ![b] = [NewBuf EXCEPT !.size = size]],
                       !.chunks = Append(@, ch),
                       !.pos = @ + size,
                       !.nextChunk = @ + 1]

\* d.m can be had: no sender waits with it for room in the channel.
Free == Len(d.chunks) <= ChannelSize

\* A send on the channel, which panics when it is closed
Sends(e) ==
    /\ crashed' = (d.closed /\ e.chunks # d.chunks)
    /\ d' = IF crashed' THEN d ELSE e

\* Where worker w goes; a new one may be started by the same step.
Goes(w, to) == [worker EXCEPT ![w] = to]

Idle == [NoWorker EXCEPT !.pc = "idle"]

Fresh == CHOOSE w \in Worker : worker[w].pc = "none"

-----------------------------------------------------------------------------
(* download *)

\* Every connection in use, or nothing to download: d.bufs[0] panics, which the
\* HTTP server recovers, with the connection still counted.
Download ==
    /\ reader.pc = "start"
    /\ IF limit = 0
       THEN /\ reader' = [reader EXCEPT !.pc = "refused"]
            /\ UNCHANGED <<limit, d, worker>>
       ELSE /\ limit' = limit - 1
            /\ CASE Workers = 0 ->
                      /\ reader' = [reader EXCEPT !.pc = "panicked"]
                      /\ UNCHANGED <<d, worker>>
                 [] Workers = 1 ->
                      /\ reader' = [reader EXCEPT !.pc = "single"]
                      /\ UNCHANGED <<d, worker>>
                 [] OTHER ->
                      /\ reader' = [reader EXCEPT !.pc = "sending"]
                      /\ d' = [d EXCEPT !.concurrency = Workers]
                      /\ UNCHANGED worker
    /\ UNCHANGED <<length, others, delivered, crashed>>

\* The first sendChunkTask, whose connection is counted already
FirstTask ==
    /\ reader.pc = "sending"
    /\ Sends(Enqueued(TRUE))
    /\ worker' = Goes(Fresh, Idle)
    /\ reader' = [reader EXCEPT !.pc = "reading"]
    /\ UNCHANGED <<length, limit, others, delivered>>

\* One connection only: the body of the answer is the reader, and the
\* connection is counted until the context of the request ends.
SingleEnds ==
    /\ reader.pc = "single"
    /\ d.done
    /\ limit' = limit + 1
    /\ reader' = [reader EXCEPT !.pc = "closed"]
    /\ UNCHANGED <<length, others, d, worker, delivered, crashed>>

-----------------------------------------------------------------------------
(* downloadPart, downloadChunk and tryDownloadChunk *)

At(w, pc) == worker[w].pc = pc

\* Mutant: the error is kept, and the reader is not told.
Failed_NotCancelled(w) ==
    /\ d' = [d EXCEPT !.err = TRUE]
    /\ worker' = Goes(w, Idle)

\* The error of downloadChunk: kept and told to everybody
Failed(w) ==
    /\ d' = [d EXCEPT !.err = TRUE, !.done = TRUE]
    /\ worker' = Goes(w, Idle)

\* The chunk's next attempt, unless the download failed or was cancelled
Again(w, to) ==
    CASE d.err -> UNCHANGED d /\ worker' = Goes(w, Idle)
      [] ~d.err /\ d.done -> Failed(w)
      [] OTHER -> UNCHANGED d /\ worker' = Goes(w, to)

\* concurrencyFinish
End(w) ==
    /\ worker' = Goes(w, [NoWorker EXCEPT !.pc = "ended"])
    /\ limit' = limit + 1
    /\ UNCHANGED <<length, others, d, reader, delivered, crashed>>

Receive(w) ==
    /\ At(w, "idle")
    /\ d.chunks # <<>>
    /\ worker' = Goes(w, [pc |-> "got", chunk |-> Head(d.chunks), retry |-> 0,
                          n |-> 0])
    /\ d' = [d EXCEPT !.chunks = Tail(@)]
    /\ UNCHANGED <<length, limit, others, reader, delivered, crashed>>

ChannelClosed(w) ==
    /\ At(w, "idle")
    /\ d.chunks = <<>>
    /\ d.closed
    /\ End(w)

DropChunk(w) ==
    /\ At(w, "got")
    /\ Free
    /\ d.err
    /\ End(w)

\* A worker takes its chunk up, or takes it up again.
Attempt(w) ==
    /\ (At(w, "got") /\ ~d.err) \/ At(w, "again")
    /\ Free
    /\ worker' = IF d.err THEN Goes(w, Idle)
                 ELSE Goes(w, [worker[w] EXCEPT !.pc = "asking", !.n = 0])
    /\ UNCHANGED <<length, limit, others, d, reader, delivered, crashed>>

\* No answer, because of the network or the context, or one that is not worth
\* another attempt
NoAnswer(w) ==
    /\ At(w, "asking")
    /\ Free
    /\ IF d.err THEN UNCHANGED d /\ worker' = Goes(w, Idle) ELSE Failed(w)
    /\ UNCHANGED <<length, limit, others, reader, delivered, crashed>>

\* The server refuses: too many requests, or any status for a later chunk.
Refused(w) ==
    /\ At(w, "asking")
    /\ ~d.done
    /\ worker' = Goes(w, [worker[w] EXCEPT !.pc = "refused"])
    /\ UNCHANGED <<length, limit, others, d, reader, delivered, crashed>>

Connected(w) ==
    /\ At(w, "asking")
    /\ ~d.done
    /\ worker[w].chunk.size > 0
    /\ worker' = Goes(w, [worker[w] EXCEPT !.pc = "connected"])
    /\ UNCHANGED <<length, limit, others, d, reader, delivered, crashed>>

\* checkTotalBytes: the file is not as long as expected.
SizeMismatch(w) ==
    /\ At(w, "connected")
    /\ Free
    /\ worker[w].chunk.id = 0
    /\ Failed(w)
    /\ UNCHANGED <<length, limit, others, reader, delivered, crashed>>

\* A connection that works starts the next worker, while there are any to start
\* and connections left; then the answer is copied.
StartCopy(w) ==
    /\ At(w, "connected")
    /\ Free
    /\ LET copying == Goes(w, [worker[w] EXCEPT !.pc = "copying"])
       IN  IF d.concurrency > 0 /\ limit > 0
           THEN /\ limit' = limit - 1
                /\ Sends(Enqueued(TRUE))
                /\ worker' = [copying EXCEPT ![Fresh] = Idle]
           ELSE /\ worker' = copying
                /\ UNCHANGED <<limit, d, crashed>>
    /\ UNCHANGED <<length, others, reader, delivered>>

\* Mutant: a worker that gives up takes its chunk with it.
PutBack_Lost(ch) ==
    Sends([d EXCEPT !.concurrency = (IF @ > 0 THEN -@ ELSE @) - 1])

PutBack(ch) ==
    Sends([d EXCEPT !.concurrency = (IF @ > 0 THEN -@ ELSE @) - 1,
                    !.chunks = Append(@, ch)])

\* The server refuses a later chunk: no more workers are started, and one that
\* came with the chunk, or was about to bring another, puts it back and ends.
\* The others try again for ever.
Overload(w) ==
    LET ch == worker[w].chunk
    IN  /\ At(w, "refused")
        /\ ch.id > 0
        /\ Free
        /\ IF ch.newConcurrency \/ d.concurrency > 0
           THEN /\ worker' = Goes(w, [NoWorker EXCEPT !.pc = "gaveUp"])
                /\ PutBack(ch)
           ELSE /\ worker' = Goes(w, [worker[w] EXCEPT !.pc = "paused"])
                /\ UNCHANGED <<d, crashed>>
        /\ UNCHANGED <<length, limit, others, reader, delivered>>

\* After the pause of errInfiniteRetry
Resume(w) ==
    /\ At(w, "paused")
    /\ Free
    /\ Again(w, [worker[w] EXCEPT !.pc = "again"])
    /\ UNCHANGED <<length, limit, others, reader, delivered, crashed>>

\* Mutant: the connection of a worker that gave up stays counted.
GiveUp_Counted(w) ==
    /\ At(w, "gaveUp")
    /\ Free
    /\ IF d.err \/ d.done
       THEN Again(w, Idle)
       ELSE /\ worker' = Goes(w, [NoWorker EXCEPT !.pc = "ended"])
            /\ UNCHANGED d
    /\ UNCHANGED <<length, limit, others, reader, delivered, crashed>>

\* errCancelConcurrency, when nothing else went wrong meanwhile
GiveUp(w) ==
    /\ At(w, "gaveUp")
    /\ Free
    /\ IF d.err \/ d.done
       THEN /\ Again(w, Idle)
            /\ UNCHANGED <<length, limit, others, reader, delivered, crashed>>
       ELSE End(w)

\* Bytes arrive and can be read at once.
Copy(w) ==
    LET ch == worker[w].chunk
        from == ch.start + worker[w].n
    IN  /\ At(w, "copying")
        /\ ~d.done
        /\ worker[w].n < ch.size
        /\ \E p \in Pieces :
              LET k == Least(p, ch.size - worker[w].n)
              IN  /\ worker' = [worker EXCEPT ![w].n = @ + k]
                  /\ d' = [d EXCEPT !.bufs[ch.buf].data =
                              @ \o [i \in 1..k |-> from + i - 1]]
        /\ UNCHANGED <<length, limit, others, reader, delivered, crashed>>

Copied(w) ==
    /\ At(w, "copying")
    /\ Free
    /\ worker[w].n = worker[w].chunk.size
    /\ d' = [d EXCEPT !.written = @ + worker[w].n]
    /\ worker' = Goes(w, Idle)
    /\ UNCHANGED <<length, limit, others, reader, delivered, crashed>>

\* Mutant: the next attempt asks for the whole chunk again.
Rest_Whole(w) ==
    [worker[w] EXCEPT !.pc = "again", !.retry = @ + 1, !.n = 0]

\* The next attempt asks for what is still missing.
Rest(w) ==
    [worker[w] EXCEPT !.pc = "again", !.retry = @ + 1, !.n = 0,
                      !.chunk.start = @ + worker[w].n,
                      !.chunk.size = @ - worker[w].n]

\* Mutant: one attempt more than PartBodyMaxRetries allows.
LastAttempt_OneMore(w) == worker[w].retry > PartBodyMaxRetries

LastAttempt(w) == worker[w].retry = PartBodyMaxRetries

\* errNeedRetry
NeedRetry(w) ==
    CASE d.err -> UNCHANGED d /\ worker' = Goes(w, Idle)
      [] ~d.err /\ (d.done \/ LastAttempt(w)) -> Failed(w)
      [] OTHER -> /\ d' = [d EXCEPT !.written = @ + worker[w].n]
                  /\ worker' = Goes(w, Rest(w))

\* The answer breaks off, perhaps after its last byte, or the first chunk is
\* refused with a status that may pass.
Interrupted(w) ==
    /\ At(w, "copying") \/ (At(w, "refused") /\ worker[w].chunk.id = 0)
    /\ Free
    /\ NeedRetry(w)
    /\ UNCHANGED <<length, limit, others, reader, delivered, crashed>>

-----------------------------------------------------------------------------
(* MultiReadCloser: Read and Close, called by one goroutine *)

Buffer == d.bufs[reader.buf]

ReadBytes ==
    LET unread == SubSeq(Buffer.data, Buffer.off + 1, Len(Buffer.data))
    IN  /\ reader.pc = "reading"
        /\ ~d.done
        /\ Buffer.off < Buffer.size
        /\ unread # <<>>
        /\ \E p \in Pieces :
              LET k == Least(p, Len(unread))
              IN  /\ delivered' = delivered \o SubSeq(unread, 1, k)
                  /\ d' = [d EXCEPT !.bufs[reader.buf].off = @ + k]
        /\ UNCHANGED <<length, limit, others, worker, reader, crashed>>

ReadFails ==
    /\ reader.pc = "reading"
    /\ d.done
    /\ reader' = [reader EXCEPT !.pc = "failed"]
    /\ UNCHANGED <<length, limit, others, d, worker, delivered, crashed>>

\* finishBuf: nothing follows the last chunk; otherwise one more is sent for.
FinishBuf ==
    /\ reader.pc = "reading"
    /\ ~d.done
    /\ Buffer.off >= Buffer.size
    /\ Free
    /\ IF reader.rPos + 1 >= MaxPart
       THEN /\ reader' = [reader EXCEPT !.pc = "eof"]
            /\ UNCHANGED <<d, crashed>>
       ELSE /\ Sends(Enqueued(FALSE))
            /\ reader' = [reader EXCEPT !.pc =
                              IF Len(d'.chunks) <= ChannelSize THEN "next" ELSE "waits"]
    /\ UNCHANGED <<length, limit, others, worker, delivered>>

\* The next buffer is looked up without the mutex.
NextBuf ==
    /\ reader.pc = "next" \/ (reader.pc = "waits" /\ Free)
    /\ reader' = [pc |-> "reading", rPos |-> reader.rPos + 1,
                  buf |-> BufOf(reader.rPos + 1, d.bufs)]
    /\ UNCHANGED <<length, limit, others, d, worker, delivered, crashed>>

\* interrupt, in the order of its steps; the consumer may close at any time.
Interrupt ==
    /\ reader.pc \in {"reading", "eof", "failed"}
    /\ d.written = length \/ Free
    /\ reader' = [reader EXCEPT !.pc = "cancelling"]
    /\ d' = [d EXCEPT !.err = @ \/ d.written # length]
    /\ UNCHANGED <<length, limit, others, worker, delivered, crashed>>

Cancel ==
    /\ reader.pc = "cancelling"
    /\ reader' = [reader EXCEPT !.pc = "closing"]
    /\ d' = [d EXCEPT !.done = TRUE]
    /\ UNCHANGED <<length, limit, others, worker, delivered, crashed>>

\* Mutant: the channel is left open.
CloseChannel_Open ==
    /\ reader.pc = "closing"
    /\ reader' = [reader EXCEPT !.pc = "dropping"]
    /\ UNCHANGED <<length, limit, others, d, worker, delivered, crashed>>

\* A sender that waits panics.
CloseChannel ==
    /\ reader.pc = "closing"
    /\ reader' = [reader EXCEPT !.pc = "dropping"]
    /\ d' = [d EXCEPT !.closed = TRUE]
    /\ crashed' = ~Free
    /\ UNCHANGED <<length, limit, others, worker, delivered>>

DropBuffers ==
    /\ reader.pc = "dropping"
    /\ reader' = [reader EXCEPT !.pc = "closed"]
    /\ d' = [d EXCEPT !.bufs = <<>>,
                      !.concurrency = IF @ > 0 THEN -@ ELSE @]
    /\ UNCHANGED <<length, limit, others, worker, delivered, crashed>>

-----------------------------------------------------------------------------
(* The environment *)

\* The request that wanted the bytes is gone.
RequestEnds ==
    /\ reader.pc # "start"
    /\ ~d.done
    /\ d' = [d EXCEPT !.done = TRUE]
    /\ UNCHANGED <<length, limit, others, worker, reader, delivered, crashed>>

OtherConnects ==
    /\ limit > 0
    /\ others < MaxOthers
    /\ limit' = limit - 1
    /\ others' = others + 1
    /\ UNCHANGED <<length, d, worker, reader, delivered, crashed>>

OtherEnds ==
    /\ others > 0
    /\ limit' = limit + 1
    /\ others' = others - 1
    /\ UNCHANGED <<length, d, worker, reader, delivered, crashed>>
-----------------------------------------------------------------------------

WorkerStep(w) ==
    \/ Receive(w) \/ ChannelClosed(w) \/ DropChunk(w) \/ Attempt(w)
    \/ SizeMismatch(w) \/ StartCopy(w) \/ Overload(w) \/ Resume(w) \/ GiveUp(w)
    \/ Copied(w)

\* What the server and the network do
Answer(w) ==
    NoAnswer(w) \/ Refused(w) \/ Connected(w) \/ Copy(w) \/ Interrupted(w)

Read == ReadBytes \/ ReadFails \/ FinishBuf \/ NextBuf
Closing == Cancel \/ CloseChannel \/ DropBuffers

Step ==
    \/ Download \/ FirstTask \/ SingleEnds
    \/ \E w \in Worker : WorkerStep(w) \/ Answer(w)
    \/ Read \/ Interrupt \/ Closing
    \/ RequestEnds \/ OtherConnects \/ OtherEnds

Next == ~crashed /\ Step

\* A server gives what it is asked for; of an empty rest of a chunk it says that
\* there is no such range.
Served(w) == Connected(w) \/ (worker[w].chunk.size = 0 /\ NoAnswer(w))

\* Goroutines go on, and the consumer reads, and closes what ended.  A server
\* asked for ever does not refuse for ever.
Fairness ==
    /\ WF_vars(~crashed /\ (Download \/ FirstTask \/ SingleEnds \/ Read \/ Closing))
    /\ WF_vars(~crashed /\ reader.pc \in {"eof", "failed"} /\ Interrupt)
    /\ \A w \in Worker :
          /\ WF_vars(~crashed /\ WorkerStep(w))
          /\ WF_vars(~crashed /\ Answer(w))
          /\ SF_vars(~crashed /\ Served(w))

Spec == Init /\ [][Next]_vars /\ Fairness

-----------------------------------------------------------------------------
(* Properties *)

Chunk == [start : Nat, size : Nat, id : Nat, buf : Nat, newConcurrency : BOOLEAN]

WorkerPc == {"none", "idle", "got", "asking", "connected", "refused", "copying",
             "again", "paused", "gaveUp", "ended"}

ReaderPc == {"start", "refused", "panicked", "single", "sending", "reading",
             "next", "waits", "eof", "failed", "cancelling", "closing", "dropping",
             "closed"}

\* Each variable keeps its type; the connections left never exceed the limit,
\* and no chunk makes more attempts than are allowed (request.go).
TypeOK ==
    /\ length \in Lengths
    /\ limit \in 0..Limit
    /\ others \in 0..MaxOthers
    /\ d \in [nextChunk : Nat, pos : Nat, concurrency : Int,
              bufs : Seq([size : Nat, data : Seq(Nat), off : Nat]),
              chunks : Seq(Chunk), closed : BOOLEAN, written : Nat,
              err : BOOLEAN, done : BOOLEAN]
    /\ worker \in [Worker -> [pc : WorkerPc, chunk : Chunk,
                              retry : 0..PartBodyMaxRetries, n : Nat]]
    /\ reader \in [pc : ReaderPc, rPos : Nat, buf : Nat \ {0}]
    /\ delivered \in Seq(Nat)
    /\ crashed \in BOOLEAN

Live == {w \in Worker : worker[w].pc \notin {"none", "ended"}}

\* The workers that have a chunk in hand; one that gave up has put it back.
Busy == {w \in Live : worker[w].pc \notin {"idle", "gaveUp"}}

\* A send on the channel finds room, unless the empty rest of a chunk was put back
\* before.  A send is made with d.m held, which the workers need before they come
\* back to the channel: one that has to wait, and finds no worker idle, stops the
\* download for ever (request.go:256 and 415).
SendFindsRoom ==
    Free \/ \E i \in 1..Len(d.chunks) : d.chunks[i].size = 0

\* The chunks cut by sendChunkTask cover the range exactly: when all of MaxPart
\* are cut nothing is left, and not before (request.go:224-258).
ChunksCoverRange ==
    /\ d.pos <= length
    /\ reader.pc \in {"reading", "next", "waits"} =>
           (d.pos = length <=> d.nextChunk = MaxPart)

\* Each connection counted against the limit belongs to a worker that lives, to
\* a download on its way to start or with one connection, to another download,
\* or was lost by a download of nothing (request.go:124-174).
ConnectionsCounted ==
    limit + others + Cardinality(Live)
        + (IF reader.pc \in {"sending", "single", "panicked"} THEN 1 ELSE 0) = Limit

\* The places where a chunk waits or is fetched
InChannel(id) == {i \in 1..Len(d.chunks) : d.chunks[i].id = id}
AtWorker(id) == {w \in Busy : worker[w].chunk.id = id}

Complete(id) ==
    LET b == d.bufs[BufOf(id, d.bufs)] IN Len(b.data) = b.size

\* Until the download fails or is cancelled no chunk is lost and none is fetched
\* twice at once, whoever gave it up and whoever took it: what the reader has
\* not finished is in the channel, with one worker, or complete in its buffer.
ChunkNotLost ==
    ~d.err /\ ~d.done /\ reader.pc = "reading" =>
        /\ reader.rPos < d.nextChunk
        /\ \A id \in reader.rPos..(d.nextChunk - 1) :
              LET places == Cardinality(InChannel(id)) + Cardinality(AtWorker(id))
              IN  places = 1 \/ (places = 0 /\ Complete(id))

\* The download as its consumer sees it
Status ==
    CASE reader.pc \in {"start", "sending", "reading", "next", "waits", "single"} ->
              "open"
      [] reader.pc = "eof" -> "eof"
      [] reader.pc \in {"failed", "refused", "panicked"} -> "failed"
      [] OTHER -> "closed"

Stream == INSTANCE OrderedStream WITH status <- Status

\* The consumer gets the bytes of the range in order, each once, and the end of
\* file after all of them, however chunks are retried, given up and passed on
\* and whichever buffers they share (TestDownloadOrder, request_test.go:34).
StreamSpec == Stream!SSpec

\* Once the reader is closed every worker ends and gives its connection back,
\* unless one sent on the channel just closed and ended the process.
WorkersEnd == reader.pc = "closed" ~> (crashed \/ Live = {})

\* The workers all gave up although chunks wait: nobody fetches them any more.
Abandoned == reader.pc = "reading" /\ Live = {} /\ d.chunks # <<>>

\* A sender waits with the mutex, and no worker is left to receive.
Stuck == ~Free /\ \A w \in Worker : ~At(w, "idle")

\* A consumer that goes on reading comes to an end of file or an error, unless
\* the workers all gave up, or are stuck (request.go:406-425).
ReadingEnds ==
    reader.pc = "reading" ~>
        \/ crashed \/ Abandoned \/ Stuck
        \/ reader.pc \notin {"reading", "next", "waits"}

\* "The chunk being read is retried first" (request.go:420): somebody is there
\* to fetch what the reader waits for.
BeingReadRetried == ~(Abandoned /\ ~d.done)

=============================================================================

---------------------------- MODULE AsyncLogging -----------------------------
(***************************************************************************)
(* The asynchronous log (Logging.cpp, AsyncLogging.cpp, LogFile.cpp,       *)
(* FileUtil.cpp).  The first LOG statement of the program starts the       *)
(* back-end thread inside pthread_once.  After that any thread appends its *)
(* line, formatted by module LogStream, to currentBuffer_ under mutex_; a  *)
(* full buffer goes to buffers_ and is replaced by nextBuffer_, or by a    *)
(* new one.  The back-end takes all buffers at once, at the latest after   *)
(* flushInterval_, leaves fresh ones behind, gives what it took to the     *)
(* file, keeps two of the buffers for the next round and flushes.          *)
(*                                                                         *)
(* Buffers are handed over by pointer, so who holds which buffer is the    *)
(* state that matters.  A character is the number of its place in the log, *)
(* in the order in which append was called.                                *)
(***************************************************************************)
EXTENDS Naturals, Sequences, FiniteSets, LogStream

CONSTANTS
  Producers,        \* the threads that log
  NumBufs,          \* bound on the Buffer objects that exist at one time
  Capacity,         \* characters of a Buffer (kLargeBuffer)
  Limit,            \* more buffers than this (25) are thrown away
  FlushEveryN,      \* LogFile flushes after so many appends (1024)
  MaxLines,         \* bound on the lines logged
  MaxFaults         \* bound on the calls of fwrite and fflush that fall short

Bufs == 1 .. NumBufs
NoBuf == 0          \* the null pointer
None == <<>>        \* no LOG statement

ASSUME LogAssumption ==
  /\ NumBufs \in Nat /\ NumBufs >= 4
  /\ Limit \in Nat \ {0, 1}
  /\ FlushEveryN \in Nat \ {0}
  /\ MaxLines \in Nat /\ MaxFaults \in Nat
  /\ Capacity \in Nat /\ Capacity >= SIZE
  /\ None \notin Statements

VARIABLES
  once,             \* once_control_
  statement,        \* per thread: the LOG statement it is in
  stream,           \* per thread: the Logger's stream, complete
  content,          \* per buffer: what is in it
  currentBuffer_, nextBuffer_, buffers_,            \* guarded by mutex_
  newBuffer1, newBuffer2, buffersToWrite,           \* the back-end's own
  written,          \* how many of buffersToWrite LogFile has taken
  part,             \* how much of the next one AppendFile has given to fwrite
  running_,
  pc,               \* where the back-end thread is
  file, flushed,    \* given to fwrite, and how much of it is in the file
  count_,           \* of LogFile
  appended,         \* history: characters appended so far
  lineEnds,         \* history: the last characters of lines
  dropped, lost,    \* history: thrown away by the overload rule, by fwrite
  logged, faults    \* histories for the bounds

front == <<once, statement, stream, logged>>
shared == <<currentBuffer_, nextBuffer_, buffers_>>
own == <<newBuffer1, newBuffer2, buffersToWrite, written>>
disk == <<part, file, flushed, count_, lost, faults>>
log == <<appended, lineEnds>>
vars == <<front, content, shared, own, running_, pc, disk, log, dropped>>

len(p) == Len(stream[p])

Ptr == Bufs \cup {NoBuf}

TypeOK ==
  /\ once \in {"no", "init", "done"}
  /\ \A p \in Producers : statement[p] \in Statements \cup {None}
  /\ \A p \in Producers : len(p) < SIZE
  /\ content \in [Bufs -> Seq(Nat)]
  /\ \A b \in Bufs : Len(content[b]) < Capacity
  /\ {currentBuffer_, nextBuffer_, newBuffer1, newBuffer2} \subseteq Ptr
  /\ buffers_ \in Seq(Bufs) /\ buffersToWrite \in Seq(Bufs)
  /\ {written, part, flushed, appended, logged, faults} \subseteq Nat
  /\ running_ \in BOOLEAN
  /\ pc \in {"none", "created", "top", "lock", "wait", "swapped", "write",
             "done"}
  /\ file \in Seq(Nat) /\ flushed <= Len(file)
  /\ count_ \in 0 .. FlushEveryN - 1
  /\ lineEnds \cup dropped \cup lost \subseteq Nat

\* The buffers somebody holds.
Held == ({currentBuffer_, nextBuffer_, newBuffer1, newBuffer2} \ {NoBuf})
          \cup ToSet(buffers_) \cup ToSet(buffersToWrite)

\* operator new: which of the others it returns makes no difference.
NewBuffer == CHOOSE b \in Bufs \ Held : TRUE

\* The two buffers of AsyncLogging's constructor and those of threadFunc are
\* there from the start.
Init ==
  /\ once = "no"
  /\ statement = [p \in Producers |-> None]
  /\ stream = [p \in Producers |-> <<>>]
  /\ content = [b \in Bufs |-> <<>>]
  /\ currentBuffer_ = 1 /\ nextBuffer_ = 2
  /\ newBuffer1 = 3 /\ newBuffer2 = 4
  /\ buffers_ = <<>> /\ buffersToWrite = <<>>
  /\ written = 0 /\ part = 0
  /\ running_ = FALSE
  /\ pc = "none"
  /\ file = <<>> /\ flushed = 0 /\ count_ = 0
  /\ appended = 0 /\ lineEnds = {}
  /\ dropped = {} /\ lost = {}
  /\ logged = 0 /\ faults = 0

-----------------------------------------------------------------------------
(* output: a line is formatted, and pthread_once passed.                   *)

Log(p) ==
  /\ statement[p] = None
  /\ logged < MaxLines
  /\ logged' = logged + 1
  /\ \E s \in Statements :
       /\ statement' = [statement EXCEPT ![p] = s]
       /\ stream' = [stream EXCEPT ![p] = Line(s)]
  /\ UNCHANGED <<once, content, shared, own, running_, pc, disk, log, dropped>>

\* once_init up to latch_.wait(); pthread_create may fail, and start() does
\* not hear of it.
OnceInit(p) ==
  /\ statement[p] # None
  /\ once = "no" /\ once' = "init"
  /\ running_' = TRUE
  /\ pc' \in {"none", "created"}
  /\ UNCHANGED <<statement, stream, logged, content, shared, own, disk, log,
                 dropped>>

\* Seeded fault: the latch is never counted down.
StartedNever == FALSE

\* threadFunc has counted the latch down.
Started == pc \notin {"none", "created"}

OnceDone ==
  /\ once = "init" /\ Started
  /\ once' = "done"
  /\ UNCHANGED <<statement, stream, logged, content, shared, own, running_, pc,
                 disk, log, dropped>>

-----------------------------------------------------------------------------
(* append.                                                                 *)

Chars(n) == [i \in 1 .. n |-> appended + i]

Fits(p) == Capacity - Len(content[currentBuffer_]) > len(p)

\* Seeded fault: a line that does not fit is cut.
PutCut(p, b, old) ==
  LET room == IF Fits(p) THEN len(p) ELSE 1 IN
  /\ content' = [content EXCEPT ![b] = old \o Chars(room)]
  /\ appended' = appended + len(p)
  /\ lineEnds' = lineEnds \cup {appended + len(p)}
  /\ statement' = [statement EXCEPT ![p] = None]
  /\ stream' = [stream EXCEPT ![p] = <<>>]

\* currentBuffer_->append(logline, len): FixedBuffer::append looks for itself
\* whether there is room, and leaves the line out if not.
Put(p, b, old) ==
  /\ content' = [content EXCEPT ![b] =
                   IF Capacity - Len(old) > len(p)
                   THEN old \o Chars(len(p)) ELSE old]
  /\ appended' = appended + len(p)
  /\ lineEnds' = lineEnds \cup {appended + len(p)}
  /\ statement' = [statement EXCEPT ![p] = None]
  /\ stream' = [stream EXCEPT ![p] = <<>>]

Appends(p) == once = "done" /\ statement[p] # None

\* append, when the current buffer has room.
AppendFits(p) ==
  /\ Appends(p) /\ Fits(p)
  /\ Put(p, currentBuffer_, content[currentBuffer_])
  /\ UNCHANGED <<once, logged, shared, own, running_, pc, disk, dropped>>

\* append, when it is full: nextBuffer_ takes its place, or a new buffer.
AppendFull(p) ==
  /\ Appends(p) /\ ~Fits(p)
  /\ buffers_' = Append(buffers_, currentBuffer_)
  /\ \/ /\ nextBuffer_ # NoBuf
        /\ currentBuffer_' = nextBuffer_
        /\ Put(p, nextBuffer_, content[nextBuffer_])
     \/ /\ nextBuffer_ = NoBuf
        /\ Bufs # Held
        /\ currentBuffer_' = NewBuffer
        /\ Put(p, NewBuffer, <<>>)
  /\ nextBuffer_' = NoBuf
  /\ UNCHANGED <<once, logged, own, running_, pc, disk, dropped>>

\* stop(): the notify may find nobody waiting; join follows.
Stop ==
  /\ once = "done" /\ running_
  /\ running_' = FALSE
  /\ UNCHANGED <<front, content, shared, own, pc, disk, log, dropped>>

-----------------------------------------------------------------------------
(* threadFunc: a round up to the write.                                    *)

\* Entry: the latch is counted down, the file opened.
Begin ==
  /\ pc = "created"
  /\ pc' = "top"
  /\ UNCHANGED <<front, content, shared, own, running_, disk, log, dropped>>

\* AppendFile::flush.  Nobody hears of an fflush that fails; what it did not
\* write stays in stdio's buffer.
Flush(used) ==
  \/ flushed' = Len(file') /\ faults' = used
  \/ used < MaxFaults /\ faults' = used + 1 /\ UNCHANGED flushed

\* while(running_); at the end a last flush.
CheckRunning ==
  /\ pc = "top"
  /\ UNCHANGED <<front, content, shared, own, running_, part, file, count_,
                 lost, log, dropped>>
  /\ \/ running_ /\ pc' = "lock" /\ UNCHANGED <<flushed, faults>>
     \/ ~running_ /\ pc' = "done" /\ Flush(faults)

\* Nothing is full: waitForSeconds releases the mutex.
StartWait ==
  /\ pc = "lock"
  /\ buffers_ = <<>>
  /\ pc' = "wait"
  /\ UNCHANGED <<front, content, shared, own, running_, disk, log, dropped>>

\* Seeded fault: the wait has no time-out and goes on until a buffer is full.
MaySwapFull == pc \in {"lock", "wait"} /\ buffers_ # <<>>

\* The wait ends by a notify, by the time-out or for no reason at all.
MaySwap == pc = "wait" \/ (pc = "lock" /\ buffers_ # <<>>)

\* The critical section.
Swap ==
  /\ MaySwap
  /\ buffersToWrite' = Append(buffers_, currentBuffer_)
  /\ buffers_' = buffersToWrite
  /\ currentBuffer_' = newBuffer1
  /\ newBuffer1' = NoBuf
  /\ nextBuffer_' = IF nextBuffer_ = NoBuf THEN newBuffer2 ELSE nextBuffer_
  /\ newBuffer2' = IF nextBuffer_ = NoBuf THEN NoBuf ELSE newBuffer2
  /\ written' = 0
  /\ pc' = "swapped"
  /\ UNCHANGED <<front, content, running_, disk, log, dropped>>

CharsOf(bs) == UNION {ToSet(content[b]) : b \in ToSet(bs)}

\* Too many buffers: all but the first two are thrown away.
DropExcess ==
  /\ pc = "swapped"
  /\ IF Len(buffersToWrite) > Limit
     THEN /\ buffersToWrite' = SubSeq(buffersToWrite, 1, 2)
          /\ dropped' = dropped \cup
               CharsOf(SubSeq(buffersToWrite, 3, Len(buffersToWrite)))
     ELSE UNCHANGED <<buffersToWrite, dropped>>
  /\ pc' = "write"
  /\ UNCHANGED <<front, content, shared, newBuffer1, newBuffer2, written,
                 running_, disk, log>>

-----------------------------------------------------------------------------
(* LogFile::append and AppendFile::append.                                 *)

Writing == pc = "write" /\ written < Len(buffersToWrite)

Buffer == content[buffersToWrite[written + 1]]

\* Seeded fault: after a partial write the buffer starts again.
RestFromStart == Buffer

\* What fwrite is asked to take.
Rest == SubSeq(Buffer, part + 1, Len(Buffer))

\* Seeded fault: count_ does not start again.
CountOn(used) ==
  /\ written' = written + 1
  /\ part' = 0
  /\ count_' = count_ + 1
  /\ IF count_' >= FlushEveryN THEN Flush(used)
     ELSE UNCHANGED flushed /\ faults' = used

\* append_unlocked after the write.
CountAppend(used) ==
  /\ written' = written + 1
  /\ part' = 0
  /\ count_' = (count_ + 1) % FlushEveryN
  /\ IF count_' = 0 THEN Flush(used)
     ELSE UNCHANGED flushed /\ faults' = used

WriteStays == UNCHANGED <<front, content, shared, newBuffer1, newBuffer2,
                          buffersToWrite, running_, pc, log, dropped>>

\* fwrite takes the rest of a buffer.
WriteBuffer ==
  /\ Writing
  /\ file' = file \o Rest
  /\ CountAppend(faults)
  /\ UNCHANGED lost
  /\ WriteStays

\* It takes less, and is called again with what remains.
WritePart ==
  /\ Writing
  /\ faults < MaxFaults
  /\ \E n \in 1 .. Len(Rest) - 1 :
       /\ file' = file \o SubSeq(Rest, 1, n)
       /\ part' = part + n
  /\ faults' = faults + 1
  /\ UNCHANGED <<written, flushed, count_, lost>>
  /\ WriteStays

\* It takes nothing: the rest of the buffer is given up.
WriteFails ==
  /\ Writing /\ Rest # <<>>
  /\ faults < MaxFaults
  /\ lost' = lost \cup ToSet(Rest)
  /\ UNCHANGED file
  /\ CountAppend(faults + 1)
  /\ WriteStays

-----------------------------------------------------------------------------
(* The end of a round.                                                     *)

\* resize(2): the buffers kept for the next round.
Kept == SubSeq(buffersToWrite, 1,
               IF Len(buffersToWrite) > 2 THEN 2 ELSE Len(buffersToWrite))

\* back() and pop_back(), twice.
First == Kept[Len(Kept)]

\* Seeded fault: the first buffer taken back is not popped.
SecondAgain == First

Second == Kept[Len(Kept) - 1]

\* reset()
Reset(b) == <<>>

\* The last of the kept buffers become newBuffer1 and newBuffer2 where those
\* are missing; newBuffer1 always is.  Then output.flush().
Recycle ==
  /\ pc = "write"
  /\ written = Len(buffersToWrite)
  /\ newBuffer1' = First
  /\ \/ /\ newBuffer2 = NoBuf
        /\ newBuffer2' = Second
        /\ content' = [content EXCEPT ![First] = Reset(First),
                                      ![Second] = Reset(Second)]
     \/ /\ newBuffer2 # NoBuf
        /\ content' = [content EXCEPT ![First] = Reset(First)]
        /\ UNCHANGED newBuffer2
  /\ buffersToWrite' = <<>>
  /\ written' = 0
  /\ pc' = "top"
  /\ UNCHANGED <<front, shared, running_, part, file, count_, lost, log,
                 dropped>>
  /\ Flush(faults)

BackEnd ==
  \/ Begin \/ CheckRunning \/ StartWait \/ Swap \/ DropExcess
  \/ WriteBuffer \/ Recycle

Output(p) == OnceInit(p) \/ AppendFits(p) \/ AppendFull(p)

Next ==
  \/ \E p \in Producers : Log(p) \/ Output(p)
  \/ OnceDone \/ Stop \/ BackEnd \/ WritePart \/ WriteFails

\* The threads run, and waitForSeconds comes back.  Nobody need log.
Spec ==
  /\ Init /\ [][Next]_vars
  /\ WF_vars(BackEnd) /\ WF_vars(OnceDone)
  /\ \A p \in Producers : WF_vars(Output(p))

-----------------------------------------------------------------------------
(* Properties.                                                             *)

\* Whatever the threads put into their statements, each of the lines is made
\* of whole pieces in their order, numbers in decimal; it stays below the
\* stream's size, and its line end is missing only when the rest has filled
\* the stream to the last character but one.
LinesFormatted ==
  \A p \in Producers :
    statement[p] # None => WellFormed(statement[p], stream[p])

\* A buffer is held in one place only: otherwise lines of append would go
\* into a buffer that is being written, or be written twice.
NoAliasing ==
  LET singles == <<currentBuffer_, nextBuffer_, newBuffer1, newBuffer2>>
      places == singles \o buffers_ \o buffersToWrite
  IN \A i, j \in DOMAIN places :
       i # j /\ places[i] # NoBuf => places[i] # places[j]

\* The assertions of threadFunc on its own buffers (AsyncLogging.cpp:65-67,
\* 97 and 104): the spare buffers are there and empty when a round starts,
\* and enough buffers are kept to replace the ones handed out.
RoundAsserts ==
  /\ pc \in {"top", "lock", "wait"} =>
       /\ newBuffer1 # NoBuf /\ content[newBuffer1] = <<>>
       /\ newBuffer2 # NoBuf /\ content[newBuffer2] = <<>>
       /\ buffersToWrite = <<>>
  /\ pc = "write" =>
       /\ newBuffer1 = NoBuf
       /\ Len(buffersToWrite) >= IF newBuffer2 = NoBuf THEN 2 ELSE 1

\* append always has a current buffer, and a spare one that is empty unless a
\* buffer has filled since the last swap.
FrontBuffers ==
  /\ currentBuffer_ # NoBuf
  /\ nextBuffer_ # NoBuf => content[nextBuffer_] = <<>>
  /\ nextBuffer_ = NoBuf /\ pc \in {"top", "lock", "wait"} => buffers_ # <<>>

\* Both sides have the buffers they need for what they do next, and no buffer
\* is with both.
BuffersReady == NoAliasing /\ RoundAsserts /\ FrontBuffers

\* What the file has not been given: the rest of the buffers the back-end is
\* writing, what is in those that are full and in the current one.
Unwritten == SubSeq(buffersToWrite, written + 1, Len(buffersToWrite))
               \o buffers_ \o <<currentBuffer_>>

Left(i) == SubSeq(content[Unwritten[i]], IF i = 1 THEN part + 1 ELSE 1,
                  Len(content[Unwritten[i]]))

Waiting == UNION {ToSet(Left(i)) : i \in DOMAIN Unwritten}

Ordered == INSTANCE OrderedLog WITH
             MaxLine <- SIZE - 1, waiting <- Waiting, stored <- file,
             missing <- dropped \cup lost

\* AsyncLogging implements the ordered log: swapping, recycling and handing
\* over buffers move no character, the file gets them in the order of the
\* appends with nothing twice, and nothing is missing except what the
\* overload rule or a failing fwrite threw away.
RefinesLog == Ordered!Spec

\* Lines stay whole: a buffer ends with the end of a line, and the overload
\* rule throws away lines, not parts of them.
LinesWhole ==
  /\ \A b \in Bufs : content[b] # <<>> => Last(content[b]) \in lineEnds
  /\ \A n \in (1 .. appended) \ lineEnds : n \in dropped <=> n + 1 \in dropped

\* While the log is running a line appended is not only taken by the back-end
\* but flushed to the file, or thrown away, after all lines before it.
OnDisk == ToSet(SubSeq(file, 1, flushed))

Settled == {e \in lineEnds : 1 .. e \subseteq OnDisk \cup dropped \cup lost}

LinesAreWritten ==
  \A n \in 1 .. MaxLines :
    Cardinality(lineEnds) >= n ~> (Cardinality(Settled) >= n \/ ~running_)

\* Logging.cpp:29-30: every thread comes back from its LOG statement, those
\* that find the first one still starting the back-end included; only a
\* back-end thread that could not be created leaves them all in pthread_once.
LogReturns ==
  \A p \in Producers :
    statement[p] # None
      ~> (statement[p] = None \/ (once = "init" /\ pc = "none"))

\* AsyncLogging.cpp:82 asserts, after the mutex is released, that the vector
\* just swapped is empty.
SwappedEmpty == pc = "swapped" => buffers_ = <<>>
=============================================================================

-------------------------- MODULE AsyncLoggingProofs --------------------------
(***************************************************************************)
(* Theorems about AsyncLogging, for any statements, threads and sizes: who *)
(* holds which buffer, what is in it, and that the log implements          *)
(* OrderedLog.                                                             *)
(***************************************************************************)
EXTENDS AsyncLogging, LogStreamProofs

\* A thread's stream is the line of its statement, and the first statement
\* starts the back-end.
StreamInv ==
  /\ once = "no" => pc = "none"
  /\ DOMAIN statement = Producers
  /\ stream = [p \in Producers |->
                 IF statement[p] = None THEN <<>> ELSE Line(statement[p])]

Idle == pc \notin {"swapped", "write"}

Distinct(s) == \A i, j \in DOMAIN s : s[i] = s[j] => i = j

Without(s, b) == \A i \in DOMAIN s : s[i] # b

\* No two places hold the same buffer.
HeldInv ==
  /\ currentBuffer_ \in Bufs
  /\ currentBuffer_ \notin {nextBuffer_, newBuffer1, newBuffer2}
  /\ nextBuffer_ # NoBuf => nextBuffer_ \notin {newBuffer1, newBuffer2}
  /\ newBuffer1 # NoBuf => newBuffer1 # newBuffer2
  /\ Distinct(buffers_) /\ Distinct(buffersToWrite)
  /\ \A i \in DOMAIN buffers_ : Without(buffersToWrite, buffers_[i])
  /\ \A b \in {currentBuffer_, nextBuffer_, newBuffer1, newBuffer2} :
       Without(buffers_, b) /\ Without(buffersToWrite, b)

\* The spare buffers are empty, and there when they are needed: a nextBuffer_
\* is missing only when a buffer has filled since the last swap.
SpareInv ==
  /\ \A b \in {nextBuffer_, newBuffer1, newBuffer2} \ {NoBuf} :
       content[b] = <<>>
  /\ nextBuffer_ = NoBuf => buffers_ # <<>>
  /\ IF Idle
     THEN /\ newBuffer1 # NoBuf /\ newBuffer2 # NoBuf
          /\ buffersToWrite = <<>> /\ written = 0
     ELSE /\ newBuffer1 = NoBuf
          /\ Len(buffersToWrite) >= IF newBuffer2 = NoBuf THEN 2 ELSE 1
          /\ written <= Len(buffersToWrite)
  /\ pc # "write" => written = 0
  /\ ~Writing => part = 0
  /\ Writing => part <= Len(Buffer)

\* The characters of some lines, one after the other.
Run(s) ==
  /\ \A i \in 1 .. Len(s) : s[i] = s[1] + (i - 1)
  /\ s[1] \in Nat \ {0}
  /\ s[1] - 1 \in lineEnds \cup {0}
  /\ s[Len(s)] \in lineEnds

\* A buffer that is not empty holds such a run, and the current one the last
\* lines.
RunInv ==
  /\ appended \in lineEnds \cup {0}
  /\ lineEnds \subseteq 0 .. appended
  /\ \A b \in Bufs : content[b] # <<>> => Run(content[b])
  /\ content[currentBuffer_] # <<>> =>
       content[currentBuffer_][Len(content[currentBuffer_])] = appended

\* The overload rule throws away whole lines.
DroppedInv ==
  /\ dropped \subseteq 1 .. appended
  /\ \A n \in (1 .. appended) \ lineEnds : n \in dropped <=> n + 1 \in dropped

\* What is in a comes before what is in b.
Before(a, b) ==
  \A i \in DOMAIN content[a], j \in DOMAIN content[b] :
    content[a][i] < content[b][j]

\* The buffers wait in the order of what they hold.
OrderInv ==
  /\ \A i \in DOMAIN buffers_ :
       /\ content[buffers_[i]] # <<>>
       /\ \A j \in DOMAIN buffers_ : i < j => Before(buffers_[i], buffers_[j])
       /\ Before(buffers_[i], currentBuffer_)
  /\ \A i \in DOMAIN buffersToWrite :
       /\ i # Len(buffersToWrite) => content[buffersToWrite[i]] # <<>>
       /\ \A j \in DOMAIN buffersToWrite :
            i < j => Before(buffersToWrite[i], buffersToWrite[j])
       /\ \A j \in DOMAIN buffers_ : Before(buffersToWrite[i], buffers_[j])
       /\ Before(buffersToWrite[i], currentBuffer_)

BufferInv == TypeOK /\ StreamInv /\ HeldInv /\ SpareInv
LogInv == BufferInv /\ RunInv /\ DroppedInv /\ OrderInv

-----------------------------------------------------------------------------
(* Who holds which buffer.                                                 *)

\* A thread in a LOG statement has a line, and it fits into an empty buffer.
LEMMA LineLength ==
  ASSUME TypeOK, StreamInv, NEW p \in Producers, statement[p] # None
  PROVE  len(p) \in 1 .. SIZE - 1 /\ len(p) < Capacity
<1>1. statement[p] \in Statements /\ stream[p] = Line(statement[p])
  BY DEF TypeOK, StreamInv
<1>2. len(p) \in 1 .. SIZE - 1
  BY <1>1, LineFits DEF len
<1>3. QED
  BY <1>2, LogAssumption, StreamAssumption

\* The initial state.
LEMMA InitBuffers == Init => BufferInv
<1> SUFFICES ASSUME Init
             PROVE  BufferInv
  OBVIOUS
<1> USE LogAssumption, StreamAssumption DEF Init
<1>1. TypeOK
  <2>1. 1 \in Bufs /\ 2 \in Bufs /\ 3 \in Bufs /\ 4 \in Bufs
    BY DEF Bufs
  <2>2. \A p \in Producers : len(p) < SIZE
    BY DEF len
  <2>3. content \in [Bufs -> Seq(Nat)] /\ \A b \in Bufs : Len(content[b]) < Capacity
    OBVIOUS
  <2>4. /\ {currentBuffer_, nextBuffer_, newBuffer1, newBuffer2} \subseteq Ptr
        /\ {written, part, flushed, appended, logged, faults} \subseteq Nat
        /\ lineEnds \cup dropped \cup lost \subseteq Nat
    BY <2>1 DEF Ptr
  <2>5. /\ buffers_ \in Seq(Bufs) /\ buffersToWrite \in Seq(Bufs)
        /\ file \in Seq(Nat) /\ flushed <= Len(file)
        /\ count_ \in 0 .. FlushEveryN - 1
    OBVIOUS
  <2>6. QED
    BY <2>2, <2>3, <2>4, <2>5 DEF TypeOK
<1>2. StreamInv
  BY DEF StreamInv
<1>3. HeldInv
  BY DEF HeldInv, Bufs, NoBuf, Distinct, Without
<1>4. SpareInv
  BY DEF SpareInv, Bufs, NoBuf, Idle, Writing
<1>5. QED
  BY <1>1, <1>2, <1>3, <1>4 DEF BufferInv

\* A step that moves no buffer and no character.
Quiet ==
  /\ UNCHANGED <<content, shared, own, part, file, log, dropped, lost>>
  /\ pc' = pc \/ {pc, pc'} \cap {"swapped", "write"} = {}

QuietStep ==
  \/ \E p \in Producers : Log(p) \/ OnceInit(p)
  \/ OnceDone \/ Stop \/ Begin \/ CheckRunning \/ StartWait
  \/ UNCHANGED vars

\* They keep the buffers right.
LEMMA QuietSteps ==
  ASSUME BufferInv, QuietStep
  PROVE  Quiet /\ BufferInv'
<1> USE DEF BufferInv, vars, front, shared, own, disk, log
<1>1. Quiet /\ TypeOK' /\ StreamInv'
  <2>1. ASSUME NEW p \in Producers, Log(p)
        PROVE  Quiet /\ TypeOK' /\ StreamInv'
    <3>1. PICK s \in Statements :
            /\ statement' = [statement EXCEPT ![p] = s]
            /\ stream' = [stream EXCEPT ![p] = Line(s)]
      BY <2>1 DEF Log
    <3>2. Quiet
      BY <2>1 DEF Log, Quiet
    <3>3. StreamInv'
      <4>1. s # None
        BY LogAssumption
      <4>2. once' = once /\ pc' = pc
        BY <2>1 DEF Log
      <4>3. QED
        BY <3>1, <4>1, <4>2 DEF StreamInv
    <3>4. \A q \in Producers : Len(stream'[q]) < SIZE
      <4>1. Len(Line(s)) < SIZE
        BY LineFits, StreamAssumption
      <4>2. QED
        BY <3>1, <4>1 DEF TypeOK, StreamInv, len
    <3>5. TypeOK'
      BY <2>1, <3>1, <3>4 DEF Log, TypeOK, StreamInv, len
    <3>6. QED
      BY <3>2, <3>3, <3>5
  <2>2. ASSUME NEW p \in Producers, OnceInit(p)
        PROVE  Quiet /\ TypeOK' /\ StreamInv'
    BY <2>2 DEF OnceInit, Quiet, TypeOK, StreamInv, len
  <2>3. CASE OnceDone
    BY <2>3 DEF OnceDone, Started, Quiet, TypeOK, StreamInv, len
  <2>4. CASE Stop
    BY <2>4 DEF Stop, Quiet, TypeOK, StreamInv, len
  <2>5. CASE Begin
    BY <2>5 DEF Begin, Quiet, TypeOK, StreamInv, len
  <2>6. CASE CheckRunning
    <3>1. file' = file
      BY <2>6 DEF CheckRunning
    <3>2. /\ flushed' \in {flushed, Len(file)}
          /\ faults' \in {faults, faults + 1}
      BY <2>6, <3>1 DEF CheckRunning, Flush
    <3>3. /\ flushed' \in Nat /\ flushed' <= Len(file')
          /\ faults' \in Nat
      BY <3>1, <3>2 DEF TypeOK
    <3>4. QED
      BY <2>6, <3>3 DEF CheckRunning, Quiet, TypeOK, StreamInv, len
  <2>7. CASE StartWait
    BY <2>7 DEF StartWait, Quiet, TypeOK, StreamInv, len
  <2>8. CASE UNCHANGED vars
    BY <2>8 DEF Quiet, TypeOK, StreamInv, len
  <2>9. QED
    BY <2>1, <2>2, <2>3, <2>4, <2>5, <2>6, <2>7, <2>8 DEF QuietStep
<1>2. HeldInv'
  BY <1>1 DEF Quiet, HeldInv, Distinct, Without
<1>3. SpareInv'
  BY <1>1 DEF Quiet, SpareInv, Idle, Writing, Buffer
<1>4. QED
  BY <1>1, <1>2, <1>3

\* What currentBuffer_->append does to the buffers and the threads.
LEMMA PutEffect ==
  ASSUME TypeOK, StreamInv, NEW p \in Producers, statement[p] # None,
         NEW b \in Bufs, NEW old \in Seq(Nat), Len(old) + len(p) < Capacity,
         Put(p, b, old), UNCHANGED <<once, pc>>
  PROVE  /\ content' \in [Bufs -> Seq(Nat)]
         /\ \A c \in Bufs : Len(content'[c]) < Capacity
         /\ \A c \in Bufs \ {b} : content'[c] = content[c]
         /\ Len(content'[b]) = Len(old) + len(p)
         /\ \A i \in 1 .. Len(old) : content'[b][i] = old[i]
         /\ \A i \in Len(old) + 1 .. Len(old) + len(p) :
              content'[b][i] = appended + (i - Len(old))
         /\ appended' = appended + len(p) /\ appended' \in Nat
         /\ lineEnds' = lineEnds \cup {appended + len(p)}
         /\ \A q \in Producers : statement'[q] \in Statements \cup {None}
         /\ \A q \in Producers : Len(stream'[q]) < SIZE
         /\ StreamInv'
<1> DEFINE n == len(p)
           new == Chars(n)
<1>1. n \in 1 .. SIZE - 1 /\ appended \in Nat /\ SIZE \in Nat /\ SIZE > 1
  BY LineLength, StreamAssumption DEF TypeOK
<1>2. /\ new \in Seq(Nat) /\ Len(new) = n
      /\ \A i \in 1 .. n : new[i] = appended + i
  <2> HIDE DEF n
  <2>1. QED
    BY <1>1 DEF Chars
<1>3. /\ content' = [content EXCEPT ![b] = old \o new]
      /\ appended' = appended + n
      /\ lineEnds' = lineEnds \cup {appended + n}
      /\ statement' = [statement EXCEPT ![p] = None]
      /\ stream' = [stream EXCEPT ![p] = <<>>]
  <2>1. Capacity - Len(old) > len(p)
    <3>1. Len(old) \in Nat /\ Capacity \in Nat /\ len(p) \in Nat
      BY <1>1, LogAssumption
    <3>2. QED
      BY <3>1
  <2>2. QED
    BY <2>1 DEF Put
<1>4. content \in [Bufs -> Seq(Nat)] /\ \A c \in Bufs : Len(content[c]) < Capacity
  BY DEF TypeOK
<1>5. /\ \A q \in Producers : statement'[q] \in Statements \cup {None}
      /\ \A q \in Producers : Len(stream'[q]) < SIZE
      /\ StreamInv'
  <2>1. \A q \in Producers : /\ statement'[q] = IF q = p THEN None ELSE statement[q]
                             /\ stream'[q] = IF q = p THEN <<>> ELSE stream[q]
    BY <1>3 DEF StreamInv
  <2>2. StreamInv'
    <3>1. /\ DOMAIN statement' = Producers
          /\ stream' = [q \in Producers |-> stream'[q]]
      BY <1>3 DEF StreamInv
    <3>2. \A q \in Producers : stream'[q] = IF statement'[q] = None THEN <<>>
                                            ELSE Line(statement'[q])
      BY <2>1 DEF StreamInv
    <3>3. once' = "no" => pc' = "none"
      BY DEF StreamInv
    <3>4. QED
      BY <3>1, <3>2, <3>3 DEF StreamInv
  <2>3. \A q \in Producers : statement'[q] \in Statements \cup {None}
    BY <2>1 DEF TypeOK
  <2>4. \A q \in Producers : Len(stream'[q]) < SIZE
    <3>1. \A q \in Producers : Len(stream[q]) < SIZE
      BY DEF TypeOK, len
    <3>2. Len(<<>>) < SIZE
      BY <1>1
    <3>3. QED
      BY <2>1, <3>1, <3>2
  <2>5. QED
    BY <2>2, <2>3, <2>4
<1> HIDE DEF n, new
<1>6. /\ old \o new \in Seq(Nat)
      /\ Len(old \o new) = Len(old) + n
      /\ \A i \in 1 .. Len(old) : (old \o new)[i] = old[i]
      /\ \A i \in Len(old) + 1 .. Len(old) + n :
           (old \o new)[i] = appended + (i - Len(old))
  <2>1. /\ Len(old) \in Nat /\ Len(new) \in Nat
        /\ \A i \in Len(old) + 1 .. Len(old) + n : i - Len(old) \in 1 .. n
    BY <1>1, <1>2
  <2>2. /\ old \o new \in Seq(Nat) /\ Len(old \o new) = Len(old) + n
        /\ \A i \in 1 .. Len(old) : (old \o new)[i] = old[i]
    BY <1>2, SMTT(20)
  <2>3. ASSUME NEW i \in Len(old) + 1 .. Len(old) + n
        PROVE  (old \o new)[i] = new[i - Len(old)]
    BY <1>1, <1>2, <2>1
  <2>4. QED
    BY <1>2, <2>1, <2>2, <2>3
<1>7. QED
  BY <1>1, <1>3, <1>4, <1>5, <1>6, SMTT(20) DEF n

\* The buffer being written is none of those a step of append changes.
LEMMA WritingBuffer ==
  ASSUME TypeOK, Writing
  PROVE  /\ written + 1 \in 1 .. Len(buffersToWrite)
         /\ buffersToWrite[written + 1] \in Bufs
         /\ \A b : Without(buffersToWrite, b) => buffersToWrite[written + 1] # b
<1>1. written + 1 \in 1 .. Len(buffersToWrite) /\ buffersToWrite \in Seq(Bufs)
  BY DEF TypeOK, Writing
<1>2. QED
  BY <1>1 DEF Without

\* append, when the current buffer has room.
LEMMA FitsBuffers ==
  ASSUME BufferInv, NEW p \in Producers, AppendFits(p)
  PROVE  BufferInv'
<1> USE DEF BufferInv
<1>1. /\ statement[p] # None /\ currentBuffer_ \in Bufs
      /\ content[currentBuffer_] \in Seq(Nat)
      /\ Len(content[currentBuffer_]) + len(p) < Capacity
      /\ Put(p, currentBuffer_, content[currentBuffer_])
      /\ UNCHANGED <<once, logged, shared, own, running_, pc, disk, dropped>>
  <2>1. statement[p] # None /\ Fits(p) /\ currentBuffer_ \in Bufs
    BY DEF AppendFits, Appends, HeldInv
  <2>2. len(p) \in Nat /\ Len(content[currentBuffer_]) \in Nat
    BY <2>1, LineLength, StreamAssumption DEF TypeOK
  <2>3. QED
    BY <2>1, <2>2, LogAssumption DEF AppendFits, TypeOK, Fits
<1>2. /\ content' \in [Bufs -> Seq(Nat)]
      /\ \A c \in Bufs : Len(content'[c]) < Capacity
      /\ \A c \in Bufs \ {currentBuffer_} : content'[c] = content[c]
      /\ appended' \in Nat
      /\ lineEnds' = lineEnds \cup {appended'}
      /\ \A q \in Producers : statement'[q] \in Statements \cup {None}
      /\ \A q \in Producers : Len(stream'[q]) < SIZE
      /\ StreamInv'
  BY <1>1, PutEffect
<1> USE DEF shared, own, disk
<1>3. TypeOK'
  BY <1>1, <1>2 DEF TypeOK, len
<1>4. HeldInv'
  BY <1>1 DEF HeldInv, Distinct, Without
<1>5. SpareInv'
  <2>1. \A b \in {nextBuffer_, newBuffer1, newBuffer2} \ {NoBuf} :
          content'[b] = content[b]
    BY <1>1, <1>2 DEF HeldInv, TypeOK, Ptr
  <2>2. Writing => Buffer' = Buffer
    <3>1. SUFFICES ASSUME Writing
                   PROVE  Buffer' = Buffer
      OBVIOUS
    <3>2. buffersToWrite[written + 1] \in Bufs \ {currentBuffer_}
      BY <3>1, WritingBuffer DEF HeldInv
    <3>3. QED
      BY <1>1, <1>2, <3>2 DEF Buffer
  <2>3. QED
    BY <1>1, <2>1, <2>2 DEF SpareInv, Idle, Writing
<1>6. QED
  BY <1>2, <1>3, <1>4, <1>5

\* The buffer that takes the place of the full one, and what is in it.
Fresh == IF nextBuffer_ # NoBuf THEN nextBuffer_ ELSE NewBuffer

\* It is empty and nobody else has it.
LEMMA FreshBuffer ==
  ASSUME BufferInv, NEW p \in Producers, AppendFull(p)
  PROVE  /\ Fresh \in Bufs
         /\ Fresh \notin {currentBuffer_, newBuffer1, newBuffer2}
         /\ Without(buffers_, Fresh) /\ Without(buffersToWrite, Fresh)
         /\ currentBuffer_' = Fresh
         /\ Put(p, Fresh, <<>>)
<1> USE DEF BufferInv
<1>1. CASE nextBuffer_ # NoBuf
  BY <1>1 DEF AppendFull, Fresh, HeldInv, SpareInv, TypeOK, Ptr
<1>2. CASE nextBuffer_ = NoBuf
  <2>1. Bufs # Held /\ currentBuffer_' = NewBuffer /\ Put(p, NewBuffer, <<>>)
    BY <1>2 DEF AppendFull
  <2>2. Held \subseteq Bufs
    BY SMTT(20) DEF Held, TypeOK, Ptr, ToSet
  <2>3. NewBuffer \in Bufs \ Held
    BY <2>1, <2>2 DEF NewBuffer
  <2>4. /\ \A i \in DOMAIN buffers_ : buffers_[i] \in Held
        /\ \A i \in DOMAIN buffersToWrite : buffersToWrite[i] \in Held
        /\ {currentBuffer_, newBuffer1, newBuffer2} \ {NoBuf} \subseteq Held
    BY DEF Held, ToSet
  <2>5. NewBuffer # NoBuf
    BY <2>3 DEF Bufs, NoBuf
  <2>6. QED
    BY <1>2, <2>1, <2>3, <2>4, <2>5 DEF Fresh, Without
<1>3. QED
  BY <1>1, <1>2

\* append, when the current buffer is full.
LEMMA FullBuffers ==
  ASSUME BufferInv, NEW p \in Producers, AppendFull(p)
  PROVE  BufferInv'
<1> USE DEF BufferInv
<1>1. /\ statement[p] # None /\ currentBuffer_ \in Bufs
      /\ buffers_' = Append(buffers_, currentBuffer_)
      /\ nextBuffer_' = NoBuf
      /\ UNCHANGED <<once, logged, own, running_, pc, disk, dropped>>
  BY DEF AppendFull, Appends, HeldInv
<1>2. /\ content' \in [Bufs -> Seq(Nat)]
      /\ \A c \in Bufs : Len(content'[c]) < Capacity
      /\ \A c \in Bufs \ {Fresh} : content'[c] = content[c]
      /\ appended' \in Nat
      /\ lineEnds' = lineEnds \cup {appended'}
      /\ \A q \in Producers : statement'[q] \in Statements \cup {None}
      /\ \A q \in Producers : Len(stream'[q]) < SIZE
      /\ StreamInv'
  <2>1. /\ Fresh \in Bufs /\ Put(p, Fresh, <<>>) /\ len(p) \in Nat
        /\ Len(<<>>) + len(p) < Capacity /\ <<>> \in Seq(Nat)
    BY <1>1, FreshBuffer, LineLength, StreamAssumption
  <2>2. QED
    BY <1>1, <2>1, PutEffect
<1> USE DEF own, disk
<1>3. TypeOK'
  <2>1. buffers_' \in Seq(Bufs) /\ currentBuffer_' \in Ptr /\ nextBuffer_' \in Ptr
    BY <1>1, FreshBuffer DEF TypeOK, Ptr
  <2>2. QED
    BY <1>1, <1>2, <2>1 DEF TypeOK, len
<1>4. HeldInv'
  <2>1. /\ Len(buffers_') = Len(buffers_) + 1 /\ Len(buffers_) \in Nat
        /\ \A i \in 1 .. Len(buffers_) : buffers_'[i] = buffers_[i]
        /\ buffers_'[Len(buffers_) + 1] = currentBuffer_
        /\ DOMAIN buffers_ = 1 .. Len(buffers_)
        /\ DOMAIN buffers_' = 1 .. Len(buffers_) + 1
    BY <1>1 DEF TypeOK
  <2>2. /\ Fresh \in Bufs /\ Fresh # NoBuf /\ currentBuffer_' = Fresh
        /\ Fresh \notin {currentBuffer_, newBuffer1, newBuffer2}
        /\ Without(buffers_, Fresh) /\ Without(buffersToWrite, Fresh)
        /\ currentBuffer_ # NoBuf
    BY <1>1, FreshBuffer DEF Bufs, NoBuf
  <2>3. Distinct(buffers_') /\ Distinct(buffersToWrite')
    BY <1>1, <2>1 DEF HeldInv, Distinct, Without
  <2>4. \A i \in DOMAIN buffers_' : Without(buffersToWrite, buffers_'[i])
    BY <2>1 DEF HeldInv
  <2>5. \A b \in {Fresh, NoBuf, newBuffer1, newBuffer2} : Without(buffers_', b)
    <3>1. Without(buffers_, NoBuf)
      <4>1. \A i \in DOMAIN buffers_ : buffers_[i] \in Bufs
        BY DEF TypeOK
      <4>2. QED
        BY <4>1 DEF Without, Bufs, NoBuf
    <3>2. \A b \in {Fresh, NoBuf, newBuffer1, newBuffer2} :
            Without(buffers_, b) /\ b # currentBuffer_
      BY <2>2, <3>1 DEF HeldInv
    <3>3. QED
      BY <2>1, <3>2 DEF Without
  <2>6. Without(buffersToWrite, NoBuf)
    <3>1. \A i \in DOMAIN buffersToWrite : buffersToWrite[i] \in Bufs
      BY DEF TypeOK
    <3>2. QED
      BY <3>1 DEF Without, Bufs, NoBuf
  <2>7. QED
    BY <1>1, <2>2, <2>3, <2>4, <2>5, <2>6 DEF HeldInv
<1>5. SpareInv'
  <2>1. \A b \in {newBuffer1, newBuffer2} \ {NoBuf} : content'[b] = content[b]
    BY <1>1, <1>2, FreshBuffer DEF TypeOK, Ptr
  <2>2. Writing => Buffer' = Buffer
    <3>1. SUFFICES ASSUME Writing
                   PROVE  Buffer' = Buffer
      OBVIOUS
    <3>2. buffersToWrite[written + 1] \in Bufs \ {Fresh}
      BY <3>1, WritingBuffer, FreshBuffer
    <3>3. QED
      BY <1>1, <1>2, <3>2 DEF Buffer
  <2>3. buffers_' # <<>>
    <3>1. buffers_ \in Seq(Bufs) /\ currentBuffer_ \in Bufs
      BY <1>1 DEF TypeOK
    <3>2. Len(buffers_') = Len(buffers_) + 1 /\ Len(buffers_) \in Nat
      BY <1>1, <3>1
    <3>3. QED
      BY <3>2
  <2>4. QED
    BY <1>1, <2>1, <2>2, <2>3 DEF SpareInv, Idle, Writing
<1>6. QED
  BY <1>2, <1>3, <1>4, <1>5

\* The back-end takes all buffers that hold anything, and the current one.
LEMMA SwapBuffers ==
  ASSUME BufferInv, Swap
  PROVE  BufferInv'
<1> USE DEF BufferInv
<1>1. /\ Idle /\ ~Idle' /\ pc' = "swapped"
      /\ newBuffer1 \in Bufs /\ newBuffer2 \in Bufs /\ currentBuffer_ \in Bufs
      /\ buffersToWrite = <<>> /\ part = 0
      /\ buffersToWrite' = Append(buffers_, currentBuffer_)
      /\ buffers_' = <<>>
      /\ currentBuffer_' = newBuffer1
      /\ newBuffer1' = NoBuf
      /\ nextBuffer_' = IF nextBuffer_ = NoBuf THEN newBuffer2 ELSE nextBuffer_
      /\ newBuffer2' = IF nextBuffer_ = NoBuf THEN NoBuf ELSE newBuffer2
      /\ written' = 0
      /\ UNCHANGED <<front, content, running_, disk, log, dropped>>
  BY DEF Swap, MaySwap, Idle, SpareInv, HeldInv, TypeOK, Ptr, Writing
<1> USE DEF front, disk, log
<1>2. TypeOK'
  <2>1. buffersToWrite' \in Seq(Bufs) /\ buffers_' \in Seq(Bufs)
    BY <1>1 DEF TypeOK
  <2>2. {currentBuffer_', nextBuffer_', newBuffer1', newBuffer2'} \subseteq Ptr
    BY <1>1 DEF TypeOK, Ptr
  <2>3. QED
    BY <1>1, <2>1, <2>2 DEF TypeOK, len
<1>3. StreamInv'
  BY <1>1 DEF StreamInv, Idle, Swap, MaySwap
<1>4. /\ Len(buffersToWrite') = Len(buffers_) + 1 /\ Len(buffers_) \in Nat
      /\ \A i \in 1 .. Len(buffers_) :
           buffersToWrite'[i] = buffers_[i] /\ buffers_[i] \in Bufs
      /\ buffersToWrite'[Len(buffers_) + 1] = currentBuffer_
      /\ DOMAIN buffers_ = 1 .. Len(buffers_)
      /\ DOMAIN buffersToWrite' = 1 .. Len(buffers_) + 1
  BY <1>1 DEF TypeOK
<1>5. HeldInv'
  <2>1. Distinct(buffers_') /\ Distinct(buffersToWrite')
    BY <1>1, <1>4 DEF HeldInv, Distinct, Without
  <2>2. \A b : Without(buffers_', b)
    BY <1>1 DEF Without
  <2>3. \A b \in {newBuffer1, newBuffer2, nextBuffer_, NoBuf} :
          Without(buffersToWrite', b)
    <3>1. Without(buffers_, NoBuf) /\ currentBuffer_ # NoBuf
      BY <1>1, <1>4 DEF Without, Bufs, NoBuf
    <3>2. \A b \in {newBuffer1, newBuffer2, nextBuffer_, NoBuf} :
            Without(buffers_, b) /\ b # currentBuffer_
      BY <3>1 DEF HeldInv
    <3>3. QED
      BY <1>4, <3>2 DEF Without
  <2>4. /\ newBuffer1 # NoBuf /\ newBuffer2 # NoBuf /\ newBuffer1 # newBuffer2
        /\ nextBuffer_ # NoBuf => nextBuffer_ \notin {newBuffer1, newBuffer2}
    BY <1>1 DEF HeldInv, Bufs, NoBuf
  <2>5. currentBuffer_' \notin {nextBuffer_', newBuffer1', newBuffer2'}
    BY <1>1, <2>4
  <2>6. nextBuffer_' # NoBuf => nextBuffer_' \notin {newBuffer1', newBuffer2'}
    BY <1>1, <2>4
  <2>7. \A b \in {currentBuffer_', nextBuffer_', newBuffer1', newBuffer2'} :
          Without(buffers_', b) /\ Without(buffersToWrite', b)
    BY <1>1, <2>2, <2>3
  <2>8. \A i \in DOMAIN buffers_' : Without(buffersToWrite', buffers_'[i])
    BY <1>1
  <2>9. QED
    BY <1>1, <2>1, <2>5, <2>6, <2>7, <2>8 DEF HeldInv
<1>6. SpareInv'
  <2>1. \A b \in {nextBuffer_', newBuffer1', newBuffer2'} \ {NoBuf} :
          content'[b] = <<>>
    BY <1>1 DEF SpareInv
  <2>2. nextBuffer_' # NoBuf
    BY <1>1 DEF Bufs, NoBuf
  <2>3. Len(buffersToWrite') >= IF newBuffer2' = NoBuf THEN 2 ELSE 1
    <3>1. CASE nextBuffer_ = NoBuf
      <4>1. Len(buffers_) # 0
        BY <3>1 DEF SpareInv, TypeOK
      <4>2. QED
        BY <1>4, <4>1
    <3>2. CASE nextBuffer_ # NoBuf
      <4>1. newBuffer2' # NoBuf
        BY <1>1, <3>2 DEF Bufs, NoBuf
      <4>2. QED
        BY <1>4, <4>1
    <3>3. QED
      BY <3>1, <3>2
  <2>4. QED
    BY <1>1, <1>4, <2>1, <2>2, <2>3 DEF SpareInv, Idle, Writing
<1>7. QED
  BY <1>2, <1>3, <1>5, <1>6

\* The buffers that are left when the overload rule has thrown some away, or
\* when the round ends.
LEMMA Shortened ==
  ASSUME NEW s \in Seq(Bufs), NEW k \in 0 .. Len(s)
  PROVE  /\ SubSeq(s, 1, k) \in Seq(Bufs) /\ Len(SubSeq(s, 1, k)) = k
         /\ \A i \in 1 .. k : SubSeq(s, 1, k)[i] = s[i]
         /\ Distinct(s) => Distinct(SubSeq(s, 1, k))
         /\ \A b : Without(s, b) => Without(SubSeq(s, 1, k), b)
<1>1. /\ SubSeq(s, 1, k) \in Seq(Bufs) /\ Len(SubSeq(s, 1, k)) = k
      /\ \A i \in 1 .. k : SubSeq(s, 1, k)[i] = s[i]
  OBVIOUS
<1>2. DOMAIN s = 1 .. Len(s) /\ DOMAIN SubSeq(s, 1, k) = 1 .. k /\ Len(s) \in Nat
  BY <1>1
<1>3. \A i \in 1 .. k : i \in 1 .. Len(s)
  BY <1>2
<1> DEFINE t == SubSeq(s, 1, k)
<1> HIDE DEF t
<1>4. Distinct(s) => Distinct(t)
  BY <1>1, <1>2, <1>3 DEF Distinct, t
<1>5. \A b : Without(s, b) => Without(t, b)
  BY <1>1, <1>2, <1>3 DEF Without, t
<1>6. QED
  BY <1>1, <1>4, <1>5 DEF t

\* The overload rule leaves two buffers at least.
LEMMA DropBuffers ==
  ASSUME BufferInv, DropExcess
  PROVE  /\ BufferInv'
         /\ pc' = "write"
         /\ UNCHANGED <<front, content, shared, newBuffer1, newBuffer2, written,
                        running_, disk, log>>
         /\ \/ UNCHANGED <<buffersToWrite, dropped>>
            \/ /\ Len(buffersToWrite) > 2
               /\ buffersToWrite' = SubSeq(buffersToWrite, 1, 2)
               /\ dropped' = dropped \cup CharsOf(
                    SubSeq(buffersToWrite, 3, Len(buffersToWrite)))
<1> USE DEF BufferInv
<1>1. /\ pc = "swapped" /\ pc' = "write"
      /\ UNCHANGED <<front, content, shared, newBuffer1, newBuffer2, written,
                     running_, disk, log>>
      /\ \/ UNCHANGED <<buffersToWrite, dropped>>
         \/ /\ Len(buffersToWrite) > 2
            /\ buffersToWrite' = SubSeq(buffersToWrite, 1, 2)
            /\ dropped' = dropped \cup CharsOf(
                 SubSeq(buffersToWrite, 3, Len(buffersToWrite)))
  BY LogAssumption, SMTT(20) DEF DropExcess, TypeOK
<1> USE DEF front, shared, disk, log
<1>2. /\ buffersToWrite' \in Seq(Bufs)
      /\ Len(buffersToWrite') >= IF newBuffer2 = NoBuf THEN 2 ELSE 1
      /\ Distinct(buffersToWrite')
      /\ \A b : Without(buffersToWrite, b) => Without(buffersToWrite', b)
  <2>1. CASE UNCHANGED <<buffersToWrite, dropped>>
    BY <1>1, <2>1 DEF TypeOK, HeldInv, SpareInv, Idle
  <2>2. CASE /\ Len(buffersToWrite) > 2
             /\ buffersToWrite' = SubSeq(buffersToWrite, 1, 2)
    <3>1. buffersToWrite \in Seq(Bufs) /\ 2 \in 0 .. Len(buffersToWrite)
      BY <2>2 DEF TypeOK
    <3>2. QED
      BY <2>2, <3>1, Shortened DEF HeldInv
  <2>3. QED
    BY <1>1, <2>1, <2>2
<1>3. TypeOK'
  <2>1. dropped' \subseteq Nat
    <3>1. \A bs \in Seq(Bufs) : CharsOf(bs) \subseteq Nat
      BY SMTT(20) DEF CharsOf, ToSet, TypeOK
    <3>2. Len(buffersToWrite) > 2 =>
            SubSeq(buffersToWrite, 3, Len(buffersToWrite)) \in Seq(Bufs)
      BY DEF TypeOK
    <3>3. QED
      BY <1>1, <3>1, <3>2 DEF TypeOK
  <2>2. QED
    BY <1>1, <1>2, <2>1 DEF TypeOK, len
<1>4. StreamInv'
  BY <1>1 DEF StreamInv
<1>5. HeldInv'
  BY <1>1, <1>2 DEF HeldInv
<1>6. SpareInv'
  <2>1. part = 0 /\ written = 0
    BY <1>1 DEF SpareInv, Writing
  <2>2. Writing' => 0 <= Len(Buffer')
    <3>1. SUFFICES ASSUME Writing'
                   PROVE  0 <= Len(Buffer')
      OBVIOUS
    <3>2. Buffer' \in Seq(Nat)
      BY <1>1, <1>2, <2>1, <3>1 DEF Buffer, Writing, TypeOK
    <3>3. QED
      BY <3>2
  <2>3. /\ \A b \in {nextBuffer_, newBuffer1, newBuffer2} \ {NoBuf} :
             content[b] = <<>>
        /\ nextBuffer_ = NoBuf => buffers_ # <<>>
        /\ newBuffer1 = NoBuf
    BY <1>1 DEF SpareInv, Idle
  <2>4. 0 <= Len(buffersToWrite')
    BY <1>2
  <2>5. QED
    BY <1>1, <1>2, <2>1, <2>2, <2>3, <2>4 DEF SpareInv, Idle
<1>7. QED
  BY <1>1, <1>3, <1>4, <1>5, <1>6

\* What fwrite is asked to take.
LEMMA RestIs ==
  ASSUME BufferInv, Writing
  PROVE  /\ Buffer \in Seq(Nat) /\ Rest \in Seq(Nat)
         /\ part \in 0 .. Len(Buffer)
         /\ Len(Rest) = Len(Buffer) - part
         /\ \A i \in 1 .. Len(Rest) : Rest[i] = Buffer[part + i]
<1>1. Buffer \in Seq(Nat)
  BY WritingBuffer DEF BufferInv, TypeOK, Buffer
<1>2. part \in Nat /\ part <= Len(Buffer)
  BY DEF BufferInv, TypeOK, SpareInv
<1>3. part \in 0 .. Len(Buffer)
  BY <1>1, <1>2
<1> HIDE DEF Buffer
<1>4. QED
  BY <1>1, <1>3 DEF Rest

\* The back-end gives some of what it holds to the file, or gives it up.
WriteStep == WriteBuffer \/ WritePart \/ WriteFails

\* LogFile has had a buffer, all of it or what fwrite would take.
Taken == \E used \in {faults, faults + 1} : CountAppend(used)

\* What append_unlocked counts, whether its flush comes off or not.
LEMMA TakenFacts ==
  ASSUME TypeOK, Taken
  PROVE  /\ written' = written + 1 /\ part' = 0
         /\ count_' = (count_ + 1) % FlushEveryN
         /\ flushed' \in {flushed, Len(file')}
         /\ faults' \in Nat
<1>1. PICK used \in {faults, faults + 1} : CountAppend(used)
  BY DEF Taken
<1>2. used \in Nat
  BY DEF TypeOK
<1>3. QED
  BY <1>1, <1>2 DEF CountAppend, Flush

\* That keeps the buffers right.
LEMMA WriteBuffers ==
  ASSUME BufferInv, WriteStep
  PROVE  BufferInv'
<1> USE DEF BufferInv
<1>1. /\ Writing /\ WriteStays
      /\ file' \in Seq(Nat) /\ Len(file') >= Len(file)
      /\ lost' \subseteq Nat
      /\ faults' \in Nat
      /\ \/ Taken
         \/ /\ UNCHANGED <<written, flushed, count_>>
            /\ part' \in part + 1 .. Len(Buffer)
  <2>1. CASE WriteBuffer
    <3>1. Rest \in Seq(Nat) /\ file \in Seq(Nat)
      BY <2>1, RestIs DEF WriteBuffer, TypeOK
    <3>2. Taken
      BY <2>1 DEF WriteBuffer, Taken
    <3>3. QED
      BY <2>1, <3>1, <3>2, TakenFacts DEF WriteBuffer, TypeOK
  <2>2. CASE WritePart
    <3>1. PICK n \in 1 .. Len(Rest) - 1 :
            file' = file \o SubSeq(Rest, 1, n) /\ part' = part + n
      BY <2>2 DEF WritePart
    <3>2. /\ Rest \in Seq(Nat) /\ file \in Seq(Nat) /\ Buffer \in Seq(Nat)
          /\ part \in Nat /\ Len(Rest) = Len(Buffer) - part
      BY <2>2, RestIs DEF WritePart, TypeOK
    <3>3. SubSeq(Rest, 1, n) \in Seq(Nat) /\ n \in Nat
      BY <3>2
    <3>4. file' \in Seq(Nat) /\ Len(file') >= Len(file)
      BY <3>1, <3>2, <3>3
    <3>5. part' \in part + 1 .. Len(Buffer)
      <4> HIDE DEF Rest, Buffer
      <4>1. Len(Buffer) \in Nat /\ n \in 1 .. Len(Buffer) - part - 1
        BY <3>2
      <4>2. QED
        BY <3>1, <3>2, <4>1
    <3>6. lost' \subseteq Nat /\ faults' \in Nat
      <4>1. lost' = lost /\ faults' = faults + 1
        BY <2>2 DEF WritePart
      <4>2. QED
        BY <4>1 DEF TypeOK
    <3>7. QED
      BY <2>2, <3>4, <3>5, <3>6 DEF WritePart
  <2>3. CASE WriteFails
    <3>1. Rest \in Seq(Nat)
      BY <2>3, RestIs DEF WriteFails
    <3>2. ToSet(Rest) \subseteq Nat
      BY <3>1 DEF ToSet
    <3>3. Taken
      BY <2>3 DEF WriteFails, Taken
    <3>4. QED
      BY <2>3, <3>2, <3>3, TakenFacts DEF WriteFails, TypeOK
  <2>4. QED
    BY <2>1, <2>2, <2>3 DEF WriteStep
<1>2. /\ UNCHANGED <<front, content, shared, newBuffer1, newBuffer2,
                     buffersToWrite, running_, pc, log, dropped>>
      /\ pc = "write" /\ pc' = "write" /\ written < Len(buffersToWrite)
  BY <1>1 DEF WriteStays, Writing
<1> USE DEF front, shared, log
<1>3. /\ written' \in Nat /\ written' <= Len(buffersToWrite)
      /\ part' \in Nat /\ count_' \in 0 .. FlushEveryN - 1
      /\ flushed' \in Nat /\ flushed' <= Len(file')
  <2>1. CASE Taken
    <3>1. (count_ + 1) % FlushEveryN \in 0 .. FlushEveryN - 1
      <4>1. count_ \in Nat /\ FlushEveryN \in Nat \ {0}
        BY LogAssumption DEF TypeOK
      <4>2. QED
        BY <4>1
    <3>2. flushed' \in {flushed, Len(file')}
      BY <2>1, TakenFacts
    <3>3. flushed' \in Nat /\ flushed' <= Len(file')
      BY <1>1, <3>2 DEF TypeOK
    <3>4. written' = written + 1 /\ part' = 0 /\ count_' \in 0 .. FlushEveryN - 1
      BY <2>1, <3>1, TakenFacts
    <3>5. written \in Nat /\ Len(buffersToWrite) \in Nat
      BY DEF TypeOK
    <3>6. QED
      BY <1>2, <3>3, <3>4, <3>5
  <2>2. CASE /\ UNCHANGED <<written, flushed, count_>>
             /\ part' \in part + 1 .. Len(Buffer)
    <3>1. Buffer \in Seq(Nat)
      BY <1>1, RestIs
    <3>2. /\ written \in Nat /\ Len(buffersToWrite) \in Nat /\ part \in Nat
          /\ flushed \in Nat /\ flushed <= Len(file) /\ file \in Seq(Nat)
          /\ count_ \in 0 .. FlushEveryN - 1
      BY DEF TypeOK
    <3>3. Len(Buffer) \in Nat
      BY <3>1
    <3>4. QED
      BY <1>1, <1>2, <2>2, <3>2, <3>3
  <2>3. QED
    BY <1>1, <2>1, <2>2
<1>4. TypeOK'
  BY <1>1, <1>2, <1>3 DEF TypeOK, len
<1>5. StreamInv'
  BY <1>2 DEF StreamInv
<1>6. HeldInv'
  BY <1>2 DEF HeldInv
<1>7. SpareInv'
  <2>1. (~Writing)' => part' = 0
    BY <1>1, <1>2, TakenFacts DEF Writing, TypeOK
  <2>2. Writing' => part' <= Len(Buffer')
    <3>1. CASE Taken
      <4>1. SUFFICES ASSUME Writing'
                     PROVE  0 <= Len(Buffer')
        BY <3>1, TakenFacts
      <4>2. written' + 1 \in 1 .. Len(buffersToWrite)
        <5>1. written' < Len(buffersToWrite)
          BY <1>2, <4>1 DEF Writing
        <5>2. written' \in Nat /\ Len(buffersToWrite) \in Nat
          BY <1>3 DEF TypeOK
        <5>3. \A i, n \in Nat : i < n => i + 1 \in 1 .. n
          OBVIOUS
        <5>4. QED
          BY <5>1, <5>2, <5>3
      <4>3. buffersToWrite[written' + 1] \in Bufs
        BY <4>2 DEF TypeOK
      <4>4. Buffer' = content[buffersToWrite[written' + 1]]
        BY <1>2 DEF Buffer
      <4>5. Buffer' \in Seq(Nat)
        BY <4>3, <4>4 DEF TypeOK
      <4>6. QED
        BY <4>5
    <3>2. CASE UNCHANGED written /\ part' \in part + 1 .. Len(Buffer)
      <4>1. Buffer' = Buffer
        BY <1>2, <3>2 DEF Buffer
      <4>2. Buffer \in Seq(Nat)
        BY <1>1, RestIs
      <4>3. QED
        BY <3>2, <4>1, <4>2 DEF TypeOK
    <3>3. QED
      BY <1>1, <3>1, <3>2
  <2>3. QED
    BY <1>2, <1>3, <2>1, <2>2 DEF SpareInv, Idle
<1>8. QED
  BY <1>4, <1>5, <1>6, <1>7

\* The buffers taken back at the end of a round are two, if both are needed.
LEMMA RecycleFacts ==
  ASSUME BufferInv, Recycle
  PROVE  /\ First \in Bufs
         /\ \A b : Without(buffersToWrite, b) => First # b
         /\ newBuffer2 = NoBuf =>
              /\ Second \in Bufs /\ Second # First
              /\ \A b : Without(buffersToWrite, b) => Second # b
         /\ newBuffer1' = First
         /\ newBuffer2' = IF newBuffer2 = NoBuf THEN Second ELSE newBuffer2
         /\ content' = [b \in Bufs |->
              IF b \in {First, newBuffer2'} THEN <<>> ELSE content[b]]
<1> USE DEF BufferInv
<1>1. /\ pc = "write" /\ newBuffer1 = NoBuf
      /\ Len(buffersToWrite) >= IF newBuffer2 = NoBuf THEN 2 ELSE 1
      /\ Len(buffersToWrite) \in Nat
      /\ buffersToWrite \in Seq(Bufs) /\ Distinct(buffersToWrite)
      /\ Without(buffersToWrite, newBuffer2)
  BY DEF Recycle, SpareInv, HeldInv, Idle, TypeOK
<1> DEFINE k == IF Len(buffersToWrite) > 2 THEN 2 ELSE Len(buffersToWrite)
<1>2. /\ k \in 1 .. Len(buffersToWrite)
      /\ newBuffer2 = NoBuf => k = 2
  <2> DEFINE n == Len(buffersToWrite)
  <2>1. n \in Nat /\ n >= 1 /\ (newBuffer2 = NoBuf => n >= 2)
    <3>1. CASE newBuffer2 = NoBuf
      BY <1>1, <3>1
    <3>2. CASE newBuffer2 # NoBuf
      BY <1>1, <3>2
    <3>3. QED
      BY <3>1, <3>2
  <2> HIDE DEF n
  <2>2. k = IF n > 2 THEN 2 ELSE n
    BY DEF n
  <2> HIDE DEF k
  <2>3. k \in 1 .. n /\ (n >= 2 => k = 2)
    BY <2>1, <2>2
  <2>4. QED
    BY <2>1, <2>3 DEF n
<1>3. Kept = SubSeq(buffersToWrite, 1, k)
  BY DEF Kept
<1> HIDE DEF k
<1>4. /\ Len(Kept) = k
      /\ \A i \in 1 .. k : Kept[i] = buffersToWrite[i]
  BY <1>1, <1>2, <1>3, Shortened
<1>5. First = buffersToWrite[k] /\ (k = 2 => Second = buffersToWrite[1])
  BY <1>2, <1>4 DEF First, Second
<1>6. DOMAIN buffersToWrite = 1 .. Len(buffersToWrite)
  BY <1>1
<1>7. /\ First \in Bufs
      /\ \A b : Without(buffersToWrite, b) => First # b
  BY <1>1, <1>2, <1>5, <1>6 DEF Without
<1>8. newBuffer2 = NoBuf =>
        /\ Second \in Bufs /\ Second # First
        /\ \A b : Without(buffersToWrite, b) => Second # b
  BY <1>1, <1>2, <1>5, <1>6 DEF Without, Distinct
<1> HIDE DEF First, Second
<1>9. /\ newBuffer1' = First
      /\ newBuffer2' = IF newBuffer2 = NoBuf THEN Second ELSE newBuffer2
  BY DEF Recycle
<1>10. content' = [b \in Bufs |->
         IF b \in {First, newBuffer2'} THEN <<>> ELSE content[b]]
  <2>1. content \in [Bufs -> Seq(Nat)]
    BY DEF TypeOK
  <2>2. CASE newBuffer2 = NoBuf
    <3>1. content' = [content EXCEPT ![First] = <<>>, ![Second] = <<>>]
      BY <2>2 DEF Recycle, Reset
    <3>2. QED
      BY <1>7, <1>8, <1>9, <2>1, <2>2, <3>1
  <2>3. CASE newBuffer2 # NoBuf
    <3>1. content' = [content EXCEPT ![First] = <<>>]
      BY <2>3 DEF Recycle, Reset
    <3>2. newBuffer2 \in Bufs /\ content[newBuffer2] = <<>>
      BY <2>3 DEF TypeOK, Ptr, SpareInv
    <3>3. QED
      BY <1>7, <1>9, <2>1, <2>3, <3>1, <3>2
  <2>4. QED
    BY <2>2, <2>3
<1>11. QED
  BY <1>7, <1>8, <1>9, <1>10

\* The end of a round.
LEMMA RecycleBuffers ==
  ASSUME BufferInv, Recycle
  PROVE  BufferInv'
<1> USE DEF BufferInv
<1>1. /\ pc = "write" /\ pc' = "top" /\ newBuffer1 = NoBuf
      /\ buffersToWrite' = <<>> /\ written' = 0
      /\ flushed' \in {flushed, Len(file')} /\ faults' \in {faults, faults + 1}
      /\ part = 0 /\ part' = 0 /\ file' = file
      /\ UNCHANGED <<front, shared, running_, count_, lost, log, dropped>>
  BY DEF Recycle, Flush, SpareInv, Idle, Writing, TypeOK
<1> USE DEF front, shared, log
<1>2. /\ newBuffer1' \in Bufs /\ newBuffer2' \in Bufs
      /\ newBuffer1' # newBuffer2'
      /\ newBuffer1' \notin {currentBuffer_, nextBuffer_}
      /\ newBuffer2' \notin {currentBuffer_, nextBuffer_}
      /\ Without(buffers_, newBuffer1') /\ Without(buffers_, newBuffer2')
  <2>1. /\ First \notin {currentBuffer_, nextBuffer_, newBuffer2}
        /\ Without(buffers_, First)
    BY RecycleFacts DEF HeldInv, Without
  <2>2. newBuffer2 = NoBuf => /\ Second \notin {currentBuffer_, nextBuffer_}
                             /\ Without(buffers_, Second)
    BY RecycleFacts DEF HeldInv, Without
  <2>3. newBuffer2 # NoBuf => /\ newBuffer2 \in Bufs
                             /\ newBuffer2 \notin {currentBuffer_, nextBuffer_}
                             /\ Without(buffers_, newBuffer2)
    BY DEF HeldInv, TypeOK, Ptr
  <2>4. QED
    BY <2>1, <2>2, <2>3, RecycleFacts
<1>3. /\ content' \in [Bufs -> Seq(Nat)]
      /\ \A b \in Bufs : content'[b] = IF b \in {newBuffer1', newBuffer2'}
                                       THEN <<>> ELSE content[b]
  <2>1. content' = [b \in Bufs |-> IF b \in {newBuffer1', newBuffer2'}
                                  THEN <<>> ELSE content[b]]
    BY RecycleFacts
  <2>2. /\ \A b \in Bufs : content[b] \in Seq(Nat)
        /\ <<>> \in Seq(Nat)
    BY DEF TypeOK
  <2>3. QED
    BY <2>1, <2>2
<1>4. TypeOK'
  <2>1. \A b \in Bufs : Len(content'[b]) < Capacity
    <3>1. Len(<<>>) < Capacity
      BY LogAssumption, StreamAssumption
    <3>2. QED
      BY <1>3, <3>1 DEF TypeOK
  <2>2. newBuffer1' \in Ptr /\ newBuffer2' \in Ptr
    BY <1>2 DEF Ptr
  <2>3. flushed' \in Nat /\ flushed' <= Len(file') /\ faults' \in Nat
    BY <1>1 DEF TypeOK
  <2>4. QED
    BY <1>1, <1>3, <2>1, <2>2, <2>3 DEF TypeOK, len
<1>5. StreamInv'
  BY <1>1 DEF StreamInv
<1>6. HeldInv'
  <2>1. \A b : Without(<<>>, b)
    BY DEF Without
  <2>2. Distinct(<<>>)
    BY DEF Distinct
  <2>3. QED
    BY <1>1, <1>2, <2>1, <2>2 DEF HeldInv
<1>7. SpareInv'
  <2>1. newBuffer1' # NoBuf /\ newBuffer2' # NoBuf
    BY <1>2 DEF Bufs, NoBuf
  <2>2. \A b \in {nextBuffer_, newBuffer1', newBuffer2'} \ {NoBuf} :
          content'[b] = <<>>
    BY <1>2, <1>3 DEF SpareInv, TypeOK, Ptr
  <2>3. QED
    BY <1>1, <2>1, <2>2 DEF SpareInv, Idle, Writing
<1>8. QED
  BY <1>4, <1>5, <1>6, <1>7

\* The steps of Next, by what they do to the buffers.
LEMMA StepKinds ==
  ASSUME [Next]_vars
  PROVE  \/ QuietStep
         \/ \E p \in Producers : AppendFits(p) \/ AppendFull(p)
         \/ Swap \/ DropExcess \/ WriteStep \/ Recycle
BY DEF Next, Output, BackEnd, QuietStep, WriteStep

\* Every step keeps the buffers right.
LEMMA StepBuffers ==
  ASSUME BufferInv, [Next]_vars
  PROVE  BufferInv'
BY StepKinds, QuietSteps, FitsBuffers, FullBuffers, SwapBuffers, DropBuffers,
   WriteBuffers, RecycleBuffers

\* Every state is of its type: no buffer and no stream is ever filled beyond
\* its size, whatever is logged and whenever the back-end runs.
THEOREM LogTypes == Spec => []TypeOK
<1>1. BufferInv => TypeOK
  BY DEF BufferInv
<1>2. QED
  BY <1>1, InitBuffers, StepBuffers, PTL DEF Spec

\* Whatever the threads log, each of their lines is made of whole pieces in
\* their order, with its numbers in decimal and its line end, unless the stream
\* is full.
THEOREM LinesRight == Spec => []LinesFormatted
<1>1. BufferInv => LinesFormatted
  <2>1. SUFFICES ASSUME BufferInv, NEW p \in Producers, statement[p] # None
                 PROVE  WellFormed(statement[p], stream[p])
    BY DEF LinesFormatted
  <2>2. statement[p] \in Statements /\ stream[p] = Line(statement[p])
    BY <2>1 DEF BufferInv, TypeOK, StreamInv
  <2>3. QED
    BY <2>2, LineWellFormed
<1>2. QED
  BY <1>1, InitBuffers, StepBuffers, PTL DEF Spec

\* A buffer is in one place only.
LEMMA OneHolder ==
  ASSUME BufferInv
  PROVE  NoAliasing
<1> USE DEF BufferInv
<1> DEFINE singles == <<currentBuffer_, nextBuffer_, newBuffer1, newBuffer2>>
           places == singles \o buffers_ \o buffersToWrite
           n == Len(buffers_)
           m == Len(buffersToWrite)
<1>1. /\ n \in Nat /\ m \in Nat /\ buffers_ \in Seq(Bufs)
      /\ buffersToWrite \in Seq(Bufs) /\ singles \in Seq(Ptr)
      /\ DOMAIN buffers_ = 1 .. n /\ DOMAIN buffersToWrite = 1 .. m
  BY DEF TypeOK
<1>2. /\ DOMAIN places = 1 .. 4 + n + m
      /\ \A i \in 1 .. 4 : places[i] = singles[i]
      /\ \A i \in 5 .. 4 + n : places[i] = buffers_[i - 4]
      /\ \A i \in 5 + n .. 4 + n + m : places[i] = buffersToWrite[i - 4 - n]
  BY <1>1
<1> DEFINE Apart(i, j) == places[i] # NoBuf => places[i] # places[j]
<1> HIDE DEF places
<1>full. \A j \in 5 .. 4 + n :
           j - 4 \in DOMAIN buffers_ /\ places[j] = buffers_[j - 4]
  BY <1>1, <1>2
<1>taken. \A j \in 5 + n .. 4 + n + m :
            /\ j - 4 - n \in DOMAIN buffersToWrite
            /\ places[j] = buffersToWrite[j - 4 - n]
  BY <1>1, <1>2
<1>3. \A i, j \in 1 .. 4 : i # j => Apart(i, j)
  <2>1. \A i, j \in 1 .. 4 : i # j /\ singles[i] # NoBuf => singles[i] # singles[j]
    BY DEF HeldInv, Bufs, NoBuf
  <2>2. QED
    BY <1>2, <2>1
<1>4. \A i \in 1 .. 4 : \A j \in 5 .. 4 + n + m : places[i] # places[j]
  <2>1. \A i \in 1 .. 4 : singles[i] \in
          {currentBuffer_, nextBuffer_, newBuffer1, newBuffer2}
    OBVIOUS
  <2> HIDE DEF singles
  <2>2. \A i \in 1 .. 4 :
          Without(buffers_, places[i]) /\ Without(buffersToWrite, places[i])
    BY <1>2, <2>1 DEF HeldInv
  <2>3. \A j \in 5 .. 4 + n + m : j \in 5 .. 4 + n \/ j \in 5 + n .. 4 + n + m
    BY <1>1
  <2>4. SUFFICES ASSUME NEW i \in 1 .. 4, NEW j \in 5 .. 4 + n + m
                 PROVE  places[i] # places[j]
    OBVIOUS
  <2> HIDE DEF n, m
  <2>5. CASE j \in 5 .. 4 + n
    BY <2>2, <2>5, <1>full DEF Without
  <2>6. CASE j \in 5 + n .. 4 + n + m
    BY <2>2, <2>6, <1>taken DEF Without
  <2>7. QED
    BY <2>3, <2>5, <2>6
<1>5. ASSUME NEW i \in 5 .. 4 + n, NEW j \in 5 .. 4 + n, i # j
      PROVE  places[i] # places[j]
  <2>1. i - 4 # j - 4
    BY <1>1, <1>5
  <2> HIDE DEF n, m
  <2>2. QED
    BY <2>1, <1>full DEF HeldInv, Distinct
<1>6. ASSUME NEW i \in 5 + n .. 4 + n + m, NEW j \in 5 + n .. 4 + n + m, i # j
      PROVE  places[i] # places[j]
  <2>1. i - 4 - n # j - 4 - n
    BY <1>1, <1>6
  <2> HIDE DEF n, m
  <2>2. QED
    BY <2>1, <1>taken DEF HeldInv, Distinct
<1>7. ASSUME NEW i \in 5 .. 4 + n, NEW j \in 5 + n .. 4 + n + m
      PROVE  places[i] # places[j]
  <2> HIDE DEF n, m
  <2>1. QED
    BY <1>full, <1>taken DEF HeldInv, Without
<1>8. \A i, j \in 1 .. 4 + n + m : i # j => Apart(i, j)
  <2>1. \A i \in 1 .. 4 + n + m :
          \/ i \in 1 .. 4
          \/ i \in 5 .. 4 + n /\ i \in 5 .. 4 + n + m
          \/ i \in 5 + n .. 4 + n + m /\ i \in 5 .. 4 + n + m
    BY <1>1
  <2> HIDE DEF n, m
  <2>2. QED
    BY <1>3, <1>4, <1>5, <1>6, <1>7, <2>1
<1>9. QED
  BY <1>2, <1>8 DEF NoAliasing, places

\* A full buffer finds its successor, a round finds its two spare buffers, and
\* no buffer is in two places, however often the threads and the back-end
\* exchange them.
THEOREM BuffersAreReady == Spec => []BuffersReady
<1>1. BufferInv => BuffersReady
  <2>1. BufferInv => RoundAsserts
    BY DEF BufferInv, SpareInv, RoundAsserts, Idle
  <2>2. BufferInv => FrontBuffers
    BY DEF BufferInv, SpareInv, HeldInv, FrontBuffers, Bufs, NoBuf
  <2>3. QED
    BY <2>1, <2>2, OneHolder DEF BuffersReady
<1>2. QED
  BY <1>1, InitBuffers, StepBuffers, PTL DEF Spec

-----------------------------------------------------------------------------
(* What is in the buffers.                                                 *)

\* The characters in a buffer have been appended.
LEMMA CharsBelow ==
  ASSUME BufferInv, RunInv, NEW b \in Bufs, NEW i \in 1 .. Len(content[b])
  PROVE  content[b][i] \in 1 .. appended
<1> DEFINE s == content[b]
<1>1. s \in Seq(Nat) /\ s # <<>> /\ Len(s) \in Nat /\ i \in 1 .. Len(s)
  BY DEF BufferInv, TypeOK
<1>2. Run(s) /\ lineEnds \subseteq 0 .. appended /\ appended \in Nat
  BY <1>1 DEF BufferInv, TypeOK, RunInv
<1> HIDE DEF s
<1>3. /\ s[i] = s[1] + (i - 1) /\ s[Len(s)] = s[1] + (Len(s) - 1)
      /\ s[1] \in Nat \ {0} /\ s[Len(s)] <= appended
  BY <1>1, <1>2 DEF Run
<1>4. QED
  BY <1>1, <1>2, <1>3, SMTT(20) DEF s

\* A line appended continues the run of the buffer it goes to.
LEMMA PutRun ==
  ASSUME BufferInv, RunInv, NEW p \in Producers, statement[p] # None,
         NEW b \in Bufs, NEW old \in Seq(Nat), Len(old) + len(p) < Capacity,
         Put(p, b, old), UNCHANGED <<once, pc>>,
         old # <<>> => Run(old) /\ old[Len(old)] = appended
  PROVE  /\ appended' = appended + len(p) /\ len(p) \in Nat \ {0}
         /\ lineEnds' = lineEnds \cup {appended'}
         /\ \A c \in Bufs \ {b} : content'[c] = content[c]
         /\ content'[b] \in Seq(Nat)
         /\ \A c \in Bufs : content'[c] # <<>> => Run(content[c])'
         /\ content'[b][Len(content'[b])] = appended'
         /\ Len(content'[b]) = Len(old) + len(p)
         /\ \A i \in 1 .. Len(old) : content'[b][i] = old[i]
         /\ \A i \in Len(old) + 1 .. Len(old) + len(p) :
              content'[b][i] = appended + (i - Len(old))
<1> DEFINE n == len(p)
           new == content'[b]
           k == Len(old)
<1>1. n \in Nat \ {0} /\ appended \in Nat /\ k \in Nat
  <2>1. TypeOK /\ StreamInv
    BY DEF BufferInv
  <2>2. n \in 1 .. SIZE - 1
    BY <2>1, LineLength
  <2>3. appended \in Nat
    BY <2>1 DEF TypeOK
  <2>4. QED
    BY <2>2, <2>3, StreamAssumption
<1>2. /\ content' \in [Bufs -> Seq(Nat)]
      /\ \A c \in Bufs \ {b} : content'[c] = content[c]
      /\ Len(new) = k + n
      /\ \A i \in 1 .. k : new[i] = old[i]
      /\ \A i \in k + 1 .. k + n : new[i] = appended + (i - k)
      /\ appended' = appended + n
      /\ lineEnds' = lineEnds \cup {appended'}
  BY PutEffect DEF BufferInv
<1>3. new \in Seq(Nat)
  BY <1>2
<1>4. Run(content[b])'
  <2> HIDE DEF n, new, k
  <2>1. CASE old = <<>>
    <3>1. k = 0
      BY <2>1 DEF k
    <3>2. /\ new[1] = appended + 1
          /\ \A i \in 1 .. Len(new) : new[i] = new[1] + (i - 1)
          /\ new[Len(new)] = appended'
      BY <1>1, <1>2, <3>1
    <3>3. new[1] - 1 \in lineEnds' \cup {0}
      BY <1>1, <1>2, <3>2 DEF RunInv
    <3>4. QED
      BY <1>1, <1>2, <3>2, <3>3 DEF Run, new
  <2>2. CASE old # <<>>
    <3>1. k \in Nat \ {0}
      BY <1>1, <2>2 DEF k
    <3>2. /\ \A i \in 1 .. k : old[i] = old[1] + (i - 1)
          /\ old[1] \in Nat \ {0} /\ old[1] - 1 \in lineEnds \cup {0}
          /\ old[k] = appended
      BY <2>2 DEF Run, k
    <3>3. old[1] + (k - 1) = appended
      BY <3>1, <3>2
    <3>4. /\ new[1] = old[1] /\ Len(new) = k + n
          /\ new[Len(new)] = appended'
      BY <1>1, <1>2, <3>1
    <3>5. \A i \in 1 .. Len(new) : new[i] = new[1] + (i - 1)
      <4>1. SUFFICES ASSUME NEW i \in 1 .. Len(new)
                     PROVE  new[i] = new[1] + (i - 1)
        OBVIOUS
      <4>2. CASE i \in 1 .. k
        BY <1>2, <3>2, <3>4, <4>2
      <4>3. CASE i \in k + 1 .. k + n
        <5>1. new[i] = appended + (i - k) /\ i \in Nat
          BY <1>1, <1>2, <4>3
        <5>2. old[1] \in Nat /\ new[1] = old[1]
          BY <3>2, <3>4
        <5>3. \A x, y, z, j \in Nat : x + (y - 1) = z => z + (j - y) = x + (j - 1)
          OBVIOUS
        <5>4. appended + (i - k) = old[1] + (i - 1)
          BY <1>1, <3>3, <5>1, <5>2, <5>3
        <5>5. QED
          BY <5>1, <5>2, <5>4
      <4>4. QED
        BY <1>1, <3>4, <4>2, <4>3
    <3>6. QED
      BY <1>2, <3>2, <3>4, <3>5 DEF Run, new
  <2>3. QED
    BY <2>1, <2>2
<1>5. ASSUME NEW c \in Bufs, content'[c] # <<>>
      PROVE  Run(content[c])'
  <2>1. CASE c = b
    BY <1>4, <2>1
  <2>2. CASE c # b
    BY <1>2, <1>5, <2>2 DEF RunInv, Run
  <2>3. QED
    BY <2>1, <2>2
<1>6. new[Len(new)] = appended'
  <2> HIDE DEF n, new, k
  <2>1. QED
    BY <1>1, <1>2
<1>7. QED
  BY <1>1, <1>2, <1>3, <1>5, <1>6

\* What a step of append does: the line goes to the end of a buffer that is
\* then the current one.
LEMMA AppendEffect ==
  ASSUME BufferInv, RunInv,
         NEW p \in Producers, AppendFits(p) \/ AppendFull(p)
  PROVE  LET cur == currentBuffer_' IN
         /\ cur \in Bufs
         /\ appended' = appended + len(p) /\ len(p) \in 1 .. SIZE - 1
         /\ lineEnds' = lineEnds \cup {appended'}
         /\ \A c \in Bufs \ {cur} : content'[c] = content[c]
         /\ \A c \in Bufs : content'[c] # <<>> => Run(content[c])'
         /\ content'[cur][Len(content'[cur])] = appended'
         /\ \E old \in Seq(Nat) :
              /\ \/ /\ cur = currentBuffer_ /\ old = content[cur]
                    /\ buffers_' = buffers_
                 \/ /\ cur = Fresh /\ Fresh # currentBuffer_ /\ old = <<>>
                    /\ buffers_' = Append(buffers_, currentBuffer_)
                    /\ content[currentBuffer_] # <<>>
              /\ Len(content'[cur]) = Len(old) + len(p)
              /\ \A i \in 1 .. Len(old) : content'[cur][i] = old[i]
              /\ \A i \in Len(old) + 1 .. Len(old) + len(p) :
                   content'[cur][i] = appended + (i - Len(old))
         /\ Without(buffers_, cur) /\ Without(buffersToWrite, cur)
         /\ UNCHANGED <<own, part, file, pc, dropped, lost>>
<1> DEFINE cur == currentBuffer_'
<1>1. /\ statement[p] # None /\ currentBuffer_ \in Bufs
      /\ UNCHANGED <<once, own, part, file, pc, dropped, lost>>
  BY DEF AppendFits, AppendFull, Appends, BufferInv, HeldInv, disk
<1>2. len(p) \in 1 .. SIZE - 1 /\ len(p) < Capacity /\ len(p) \in Nat
  BY <1>1, LineLength, StreamAssumption DEF BufferInv
<1>3. /\ content[currentBuffer_] \in Seq(Nat)
      /\ content[currentBuffer_] # <<>> =>
           /\ Run(content[currentBuffer_])
           /\ content[currentBuffer_][Len(content[currentBuffer_])] = appended
  BY <1>1 DEF BufferInv, TypeOK, RunInv
<1>4. PICK old \in Seq(Nat) :
        /\ \/ /\ cur = currentBuffer_ /\ old = content[cur]
              /\ buffers_' = buffers_
           \/ /\ cur = Fresh /\ Fresh # currentBuffer_ /\ old = <<>>
              /\ buffers_' = Append(buffers_, currentBuffer_)
              /\ content[currentBuffer_] # <<>>
        /\ cur \in Bufs
        /\ Without(buffers_, cur) /\ Without(buffersToWrite, cur)
        /\ Put(p, cur, old)
        /\ Len(old) + len(p) < Capacity
        /\ old # <<>> => Run(old) /\ old[Len(old)] = appended
  <2>1. CASE AppendFits(p)
    <3>1. cur = currentBuffer_ /\ buffers_' = buffers_
      BY <2>1 DEF AppendFits, shared
    <3>2. Put(p, currentBuffer_, content[currentBuffer_])
      BY <2>1 DEF AppendFits
    <3>3. Len(content[currentBuffer_]) + len(p) < Capacity
      BY <1>2, <1>3, <2>1, LogAssumption DEF AppendFits, Fits
    <3>4. /\ Without(buffers_, currentBuffer_)
          /\ Without(buffersToWrite, currentBuffer_)
      BY DEF BufferInv, HeldInv
    <3>5. QED
      BY <1>1, <1>3, <3>1, <3>2, <3>3, <3>4
  <2>2. CASE AppendFull(p)
    <3>1. /\ Fresh \in Bufs /\ Fresh # currentBuffer_ /\ cur = Fresh
          /\ Without(buffers_, Fresh) /\ Without(buffersToWrite, Fresh)
          /\ Put(p, Fresh, <<>>)
      BY <2>2, FreshBuffer
    <3>2. buffers_' = Append(buffers_, currentBuffer_)
      BY <2>2 DEF AppendFull
    <3>3. content[currentBuffer_] # <<>>
      <4>1. ~(Capacity - Len(content[currentBuffer_]) > len(p))
        BY <2>2 DEF AppendFull, Fits
      <4>2. Len(content[currentBuffer_]) # 0
        BY <1>2, <1>3, <4>1, LogAssumption
      <4>3. QED
        BY <4>2
    <3>4. <<>> \in Seq(Nat) /\ Len(<<>>) + len(p) < Capacity
      BY <1>2
    <3>5. QED
      BY <3>1, <3>2, <3>3, <3>4
  <2>3. QED
    BY <2>1, <2>2
<1> HIDE DEF cur
<1>5. /\ appended' = appended + len(p)
      /\ lineEnds' = lineEnds \cup {appended'}
      /\ \A c \in Bufs \ {cur} : content'[c] = content[c]
      /\ \A c \in Bufs : content'[c] # <<>> => Run(content[c])'
      /\ content'[cur][Len(content'[cur])] = appended'
      /\ Len(content'[cur]) = Len(old) + len(p)
      /\ \A i \in 1 .. Len(old) : content'[cur][i] = old[i]
      /\ \A i \in Len(old) + 1 .. Len(old) + len(p) :
           content'[cur][i] = appended + (i - Len(old))
  BY <1>1, <1>4, PutRun
<1>6. QED
  BY <1>1, <1>2, <1>4, <1>5 DEF cur

\* Every step leaves runs of whole lines in the buffers.
LEMMA StepRuns ==
  ASSUME BufferInv, RunInv, [Next]_vars
  PROVE  RunInv'
<1> USE DEF BufferInv
<1>1. CASE QuietStep
  BY <1>1, QuietSteps DEF Quiet, RunInv, Run, shared, log
<1>2. ASSUME NEW p \in Producers, AppendFits(p) \/ AppendFull(p)
      PROVE  RunInv'
  <2>1. /\ appended' = appended + len(p) /\ len(p) \in 1 .. SIZE - 1
        /\ lineEnds' = lineEnds \cup {appended'}
        /\ \A c \in Bufs : content'[c] # <<>> => Run(content[c])'
        /\ content'[currentBuffer_'][Len(content'[currentBuffer_'])] = appended'
    BY <1>2, AppendEffect
  <2>2. appended' \in Nat /\ appended \in Nat /\ appended' >= appended
    BY <2>1, StreamAssumption, SMTT(20) DEF TypeOK
  <2>3. lineEnds' \subseteq 0 .. appended'
    <3>1. \A e \in lineEnds : e \in 0 .. appended
      BY DEF RunInv
    <3>2. \A e \in lineEnds : e \in 0 .. appended'
      BY <2>2, <3>1
    <3>3. QED
      BY <2>1, <2>2, <3>2
  <2>4. QED
    BY <2>1, <2>3 DEF RunInv
<1>3. CASE Swap
  <2>1. /\ currentBuffer_' = newBuffer1 /\ content[newBuffer1] = <<>>
        /\ content' = content /\ appended' = appended /\ lineEnds' = lineEnds
    BY <1>3 DEF Swap, MaySwap, SpareInv, Idle, log
  <2>2. QED
    BY <2>1 DEF RunInv, Run
<1>4. CASE DropExcess
  BY <1>4 DEF DropExcess, shared, log, RunInv, Run
<1>5. CASE WriteStep
  BY <1>5 DEF WriteStep, WriteBuffer, WritePart, WriteFails, WriteStays, shared,
              log, RunInv, Run
<1>6. CASE Recycle
  <2>1. /\ currentBuffer_' = currentBuffer_
        /\ appended' = appended /\ lineEnds' = lineEnds
    BY <1>6 DEF Recycle, shared, log
  <2>2. \A b \in Bufs : content'[b] = <<>> \/ content'[b] = content[b]
    BY <1>6, RecycleFacts
  <2>3. currentBuffer_ \in Bufs
    BY DEF HeldInv
  <2>4. QED
    BY <2>1, <2>2, <2>3 DEF RunInv, Run
<1>7. QED
  BY <1>1, <1>2, <1>3, <1>4, <1>5, <1>6, StepKinds

\* What the overload rule throws away starts and ends with a line.
LEMMA WholeLinesDropped ==
  ASSUME BufferInv, RunInv, NEW bs \in Seq(Bufs),
         NEW n \in (1 .. appended) \ lineEnds
  PROVE  n \in CharsOf(bs) <=> n + 1 \in CharsOf(bs)
<1> USE DEF BufferInv
<1>1. \A k : k \in CharsOf(bs) <=>
         \E b \in ToSet(bs) : \E i \in 1 .. Len(content[b]) : k = content[b][i]
  <2>1. \A b \in ToSet(bs) : content[b] \in Seq(Nat)
    BY DEF ToSet, TypeOK
  <2>2. \A b \in ToSet(bs) : DOMAIN content[b] = 1 .. Len(content[b])
    BY <2>1
  <2>3. QED
    BY <2>2 DEF CharsOf, ToSet
<1>2. ToSet(bs) \subseteq Bufs
  BY DEF ToSet
<1>3. ASSUME NEW b \in ToSet(bs), NEW i \in 1 .. Len(content[b]), n = content[b][i]
      PROVE  \E j \in 1 .. Len(content[b]) : n + 1 = content[b][j]
  <2> DEFINE s == content[b]
  <2>1. s \in Seq(Nat) /\ Len(s) \in Nat /\ s # <<>>
    BY <1>2, <1>3 DEF TypeOK
  <2>2. Run(s)
    BY <1>2, <2>1 DEF RunInv
  <2> HIDE DEF s
  <2>3. i \in 1 .. Len(s) /\ n = s[i]
    BY <1>3 DEF s
  <2>4. i # Len(s)
    BY <2>2, <2>3 DEF Run
  <2>5. i + 1 \in 1 .. Len(s)
    BY <2>1, <2>3, <2>4
  <2>6. s[i + 1] = s[1] + i /\ s[i] = s[1] + (i - 1) /\ s[1] \in Nat
    BY <2>1, <2>2, <2>3, <2>5 DEF Run
  <2>7. n + 1 = s[i + 1]
    BY <2>3, <2>6
  <2>8. QED
    BY <2>5, <2>7 DEF s
<1>4. ASSUME NEW b \in ToSet(bs), NEW i \in 1 .. Len(content[b]),
             n + 1 = content[b][i]
      PROVE  \E j \in 1 .. Len(content[b]) : n = content[b][j]
  <2> DEFINE s == content[b]
  <2>1. s \in Seq(Nat) /\ Len(s) \in Nat /\ s # <<>>
    BY <1>2, <1>4 DEF TypeOK
  <2>2. Run(s)
    BY <1>2, <2>1 DEF RunInv
  <2> HIDE DEF s
  <2>3. i \in 1 .. Len(s) /\ n + 1 = s[i] /\ n \in Nat \ {0}
    BY <1>4 DEF s, TypeOK
  <2>4. i # 1
    <3>1. SUFFICES ASSUME i = 1
                   PROVE  FALSE
      OBVIOUS
    <3>2. s[1] - 1 = n /\ s[1] - 1 \in lineEnds \cup {0}
      BY <2>2, <2>3, <3>1 DEF Run
    <3>3. QED
      BY <2>3, <3>2
  <2>5. i - 1 \in 1 .. Len(s)
    BY <2>1, <2>3, <2>4
  <2>6. s[i - 1] = s[1] + (i - 2) /\ s[i] = s[1] + (i - 1) /\ s[1] \in Nat
    <3>1. s[i - 1] = s[1] + ((i - 1) - 1) /\ s[i] = s[1] + (i - 1) /\ s[1] \in Nat
      BY <2>2, <2>3, <2>5 DEF Run
    <3>2. QED
      BY <2>3, <3>1
  <2>7. n = s[i - 1]
    BY <2>3, <2>6
  <2>8. QED
    BY <2>5, <2>7 DEF s
<1>5. QED
  BY <1>1, <1>3, <1>4

\* Every step throws away whole lines.
LEMMA StepDropped ==
  ASSUME BufferInv, RunInv, DroppedInv, [Next]_vars
  PROVE  DroppedInv'
<1> USE DEF BufferInv
<1>1. CASE UNCHANGED <<dropped, appended, lineEnds>>
  BY <1>1 DEF DroppedInv
<1>2. ASSUME NEW p \in Producers, AppendFits(p) \/ AppendFull(p)
      PROVE  DroppedInv'
  <2>1. /\ appended' = appended + len(p) /\ len(p) \in 1 .. SIZE - 1
        /\ lineEnds' = lineEnds \cup {appended'} /\ dropped' = dropped
    BY <1>2, AppendEffect
  <2>2. appended' \in Nat /\ appended \in Nat /\ appended' > appended
    BY <2>1, StreamAssumption DEF TypeOK
  <2>3. \A n \in dropped : n \in 1 .. appended
    BY DEF DroppedInv
  <2>4. dropped' \subseteq 1 .. appended'
    BY <2>1, <2>2, <2>3
  <2>5. ASSUME NEW n \in (1 .. appended') \ lineEnds'
        PROVE  n \in dropped <=> n + 1 \in dropped
    <3>1. n \in Nat /\ n # appended
      BY <2>1, <2>2, <2>5 DEF RunInv
    <3>2. CASE n < appended
      <4>1. n \in (1 .. appended) \ lineEnds
        BY <2>1, <2>2, <2>5, <3>2
      <4>2. QED
        BY <4>1 DEF DroppedInv
    <3>3. CASE n > appended
      BY <2>2, <2>3, <3>1, <3>3
    <3>4. QED
      BY <2>2, <3>1, <3>2, <3>3
  <2>6. QED
    BY <2>1, <2>4, <2>5 DEF DroppedInv
<1>3. CASE DropExcess
  <2>1. appended' = appended /\ lineEnds' = lineEnds
    BY <1>3 DEF DropExcess, log
  <2>2. \/ dropped' = dropped
        \/ /\ Len(buffersToWrite) > 2
           /\ dropped' = dropped \cup CharsOf(
                SubSeq(buffersToWrite, 3, Len(buffersToWrite)))
    BY <1>3, DropBuffers
  <2>3. CASE dropped' = dropped
    BY <2>1, <2>3 DEF DroppedInv
  <2>4. CASE /\ Len(buffersToWrite) > 2
             /\ dropped' = dropped \cup CharsOf(
                  SubSeq(buffersToWrite, 3, Len(buffersToWrite)))
    <3> DEFINE bs == SubSeq(buffersToWrite, 3, Len(buffersToWrite))
    <3>1. bs \in Seq(Bufs)
      BY <2>4 DEF TypeOK
    <3> HIDE DEF bs
    <3>2. CharsOf(bs) \subseteq 1 .. appended
      <4>1. \A b \in ToSet(bs) : b \in Bufs
        BY <3>1 DEF ToSet
      <4>2. \A b \in Bufs : DOMAIN content[b] = 1 .. Len(content[b])
        BY DEF TypeOK
      <4>3. \A b \in Bufs : \A i \in 1 .. Len(content[b]) :
              content[b][i] \in 1 .. appended
        BY CharsBelow
      <4>4. QED
        BY <4>1, <4>2, <4>3 DEF CharsOf, ToSet
    <3>3. \A n \in (1 .. appended) \ lineEnds :
            n \in CharsOf(bs) <=> n + 1 \in CharsOf(bs)
      BY <3>1, WholeLinesDropped
    <3>4. dropped' = dropped \cup CharsOf(bs)
      BY <2>4 DEF bs
    <3>5. QED
      BY <2>1, <3>2, <3>3, <3>4 DEF DroppedInv
  <2>5. QED
    BY <2>2, <2>3, <2>4
<1>4. QED
  BY <1>1, <1>2, <1>3, StepKinds, QuietSteps
     DEF Quiet, log, Swap, WriteStep, WriteBuffer, WritePart, WriteFails,
         WriteStays, Recycle

\* Lines stay whole in the buffers and when the overload rule throws some of
\* them away, wherever the threads and the back-end are.
THEOREM LinesStayWhole == Spec => []LinesWhole
<1>1. Init => RunInv /\ DroppedInv
  BY LogAssumption DEF Init, RunInv, DroppedInv, Bufs
<1>2. BufferInv /\ RunInv /\ DroppedInv => LinesWhole
  <2>1. SUFFICES ASSUME BufferInv, RunInv, DroppedInv
                 PROVE  LinesWhole
    OBVIOUS
  <2>2. \A b \in Bufs : content[b] # <<>> => Last(content[b]) \in lineEnds
    BY <2>1 DEF RunInv, Run, Last
  <2>3. QED
    BY <2>1, <2>2 DEF DroppedInv, LinesWhole
<1>3. QED
  BY <1>1, <1>2, InitBuffers, StepBuffers, StepRuns, StepDropped, PTL DEF Spec

-----------------------------------------------------------------------------
(* The order of what waits.                                                *)

\* Without an append what is in the buffers the threads hold stays where it is.
LEMMA SameOrder ==
  ASSUME BufferInv, OrderInv,
         \A b \in Bufs : content'[b] = <<>> \/ content'[b] = content[b],
         \A b \in ToSet(buffers_) \cup {currentBuffer_} : content'[b] = content[b],
         UNCHANGED <<buffers_, currentBuffer_>>,
         \/ UNCHANGED <<buffersToWrite, content>>
         \/ buffersToWrite' = <<>>
         \/ /\ Len(buffersToWrite) > 2 /\ content' = content
            /\ buffersToWrite' = SubSeq(buffersToWrite, 1, 2)
  PROVE  OrderInv'
<1> USE DEF BufferInv
<1>1. /\ buffers_ \in Seq(Bufs) /\ buffersToWrite \in Seq(Bufs)
      /\ currentBuffer_ \in Bufs
  BY DEF TypeOK, HeldInv
<1>2. \A i \in DOMAIN buffers_' :
        /\ buffers_'[i] \in Bufs
        /\ content'[buffers_'[i]] = content[buffers_[i]]
  BY <1>1 DEF ToSet
<1>3. content'[currentBuffer_'] = content[currentBuffer_]
  OBVIOUS
<1>4. \A i \in DOMAIN buffers_' :
       /\ content'[buffers_'[i]] # <<>>
       /\ \A j \in DOMAIN buffers_' :
            i < j => Before(buffers_[i], buffers_[j])'
       /\ Before(buffers_[i], currentBuffer_)'
  BY <1>2, <1>3 DEF OrderInv, Before
<1>5. \A i \in DOMAIN buffersToWrite' :
       /\ i \in DOMAIN buffersToWrite
       /\ buffersToWrite'[i] = buffersToWrite[i]
       /\ content' = content
       /\ i # Len(buffersToWrite') => i # Len(buffersToWrite)
  <2>1. CASE UNCHANGED <<buffersToWrite, content>>
    BY <2>1
  <2>2. CASE buffersToWrite' = <<>>
    BY <2>2
  <2>3. CASE /\ Len(buffersToWrite) > 2 /\ content' = content
             /\ buffersToWrite' = SubSeq(buffersToWrite, 1, 2)
    <3>1. /\ Len(buffersToWrite') = 2 /\ Len(buffersToWrite) \in Nat
          /\ \A i \in 1 .. 2 : buffersToWrite'[i] = buffersToWrite[i]
          /\ DOMAIN buffersToWrite = 1 .. Len(buffersToWrite)
          /\ DOMAIN buffersToWrite' = 1 .. 2
      BY <1>1, <2>3
    <3>2. QED
      BY <2>3, <3>1
  <2>4. QED
    BY <2>1, <2>2, <2>3
<1>6. \A i \in DOMAIN buffersToWrite' :
       /\ i # Len(buffersToWrite') => content'[buffersToWrite'[i]] # <<>>
       /\ \A j \in DOMAIN buffersToWrite' :
            i < j => Before(buffersToWrite[i], buffersToWrite[j])'
       /\ \A j \in DOMAIN buffers_' : Before(buffersToWrite[i], buffers_[j])'
       /\ Before(buffersToWrite[i], currentBuffer_)'
  BY <1>5 DEF OrderInv, Before
<1>7. QED
  BY <1>4, <1>6 DEF OrderInv

\* Every step leaves the buffers in the order of what they hold.
LEMMA StepOrder ==
  ASSUME BufferInv, RunInv, OrderInv, [Next]_vars
  PROVE  OrderInv'
<1> USE DEF BufferInv
<1>1. CASE QuietStep
  BY <1>1, QuietSteps DEF Quiet, OrderInv, Before, shared, own
<1>2. ASSUME NEW p \in Producers, AppendFits(p) \/ AppendFull(p)
      PROVE  OrderInv'
  <2> DEFINE cur == currentBuffer_'
  <2>1. PICK old \in Seq(Nat) :
         /\ \/ /\ cur = currentBuffer_ /\ old = content[cur]
               /\ buffers_' = buffers_
            \/ /\ cur = Fresh /\ Fresh # currentBuffer_ /\ old = <<>>
               /\ buffers_' = Append(buffers_, currentBuffer_)
               /\ content[currentBuffer_] # <<>>
         /\ Len(content'[cur]) = Len(old) + len(p)
         /\ \A i \in 1 .. Len(old) : content'[cur][i] = old[i]
         /\ \A i \in Len(old) + 1 .. Len(old) + len(p) :
              content'[cur][i] = appended + (i - Len(old))
    BY <1>2, AppendEffect
  <2>2. /\ cur \in Bufs /\ len(p) \in Nat
        /\ \A c \in Bufs \ {cur} : content'[c] = content[c]
        /\ Without(buffers_, cur) /\ Without(buffersToWrite, cur)
        /\ buffersToWrite' = buffersToWrite
    BY <1>2, AppendEffect, StreamAssumption DEF own
  <2>3. /\ buffers_ \in Seq(Bufs) /\ buffersToWrite \in Seq(Bufs)
        /\ currentBuffer_ \in Bufs /\ appended \in Nat
        /\ \A b \in Bufs : DOMAIN content[b] = 1 .. Len(content[b])
    BY DEF TypeOK, HeldInv
  <2>4. DOMAIN content'[cur] = 1 .. Len(old) + len(p)
    <3>1. content'[cur] \in Seq(Nat)
      BY <1>2, <2>2, StepBuffers DEF TypeOK
    <3>2. QED
      BY <2>1, <3>1
  <2> HIDE DEF cur
  <2>5. ASSUME NEW b \in Bufs \ {cur}, cur = currentBuffer_ => Before(b, cur)
        PROVE  \A i \in DOMAIN content'[b], j \in DOMAIN content'[cur] :
                 content'[b][i] < content'[cur][j]
    <3>1. SUFFICES ASSUME NEW i \in 1 .. Len(content[b]),
                          NEW j \in DOMAIN content'[cur]
                   PROVE  content[b][i] < content'[cur][j]
      BY <2>2, <2>3
    <3>2. content[b][i] \in 1 .. appended
      BY CharsBelow
    <3>3. CASE j \in Len(old) + 1 .. Len(old) + len(p)
      BY <2>1, <2>3, <3>2, <3>3
    <3>4. CASE j \in 1 .. Len(old)
      <4>1. old = content[cur] /\ cur = currentBuffer_ /\ j \in DOMAIN content[cur]
        BY <2>1, <3>4
      <4>2. QED
        BY <2>1, <2>3, <2>5, <3>4, <4>1 DEF Before
    <3>5. QED
      BY <2>2, <2>4, <3>3, <3>4
  <2>6. /\ \A i \in DOMAIN buffers_ : buffers_[i] \in Bufs \ {cur}
        /\ \A i \in DOMAIN buffersToWrite : buffersToWrite[i] \in Bufs \ {cur}
    BY <2>2, <2>3 DEF Without
  <2>7. /\ \A i \in DOMAIN buffers_ : Before(buffers_[i], currentBuffer_)
        /\ \A i \in DOMAIN buffersToWrite :
             Before(buffersToWrite[i], currentBuffer_)
    BY DEF OrderInv
  <2>8. \A a, b \in Bufs \ {cur} : Before(a, b) => Before(a, b)'
    BY <2>2 DEF Before
  <2>9. /\ \A i \in DOMAIN buffers_ : \A j \in DOMAIN content'[cur] :
             \A k \in DOMAIN content'[buffers_[i]] :
               content'[buffers_[i]][k] < content'[cur][j]
        /\ \A i \in DOMAIN buffersToWrite : \A j \in DOMAIN content'[cur] :
             \A k \in DOMAIN content'[buffersToWrite[i]] :
               content'[buffersToWrite[i]][k] < content'[cur][j]
    BY <2>5, <2>6, <2>7
  <2>10. CASE cur = currentBuffer_ /\ buffers_' = buffers_
    BY <2>2, <2>6, <2>8, <2>9, <2>10 DEF OrderInv, Before, cur
  <2>11. CASE /\ cur = Fresh /\ Fresh # currentBuffer_
              /\ buffers_' = Append(buffers_, currentBuffer_)
              /\ content[currentBuffer_] # <<>>
    <3> DEFINE n == Len(buffers_)
    <3>1. /\ n \in Nat /\ DOMAIN buffers_ = 1 .. n
          /\ DOMAIN buffers_' = 1 .. n + 1
          /\ \A i \in 1 .. n : buffers_'[i] = buffers_[i]
          /\ buffers_'[n + 1] = currentBuffer_
      BY <2>3, <2>11
    <3> HIDE DEF n
    <3>2. \A i \in 1 .. n + 1 : i \in 1 .. n \/ i = n + 1
      BY <3>1
    <3>3. currentBuffer_ \in Bufs \ {cur}
      BY <2>3, <2>11
    <3>4. \A i \in 1 .. n + 1 : /\ buffers_'[i] \in Bufs \ {cur}
                               /\ content'[buffers_'[i]] # <<>>
      BY <2>2, <2>6, <2>11, <3>1, <3>2, <3>3 DEF OrderInv
    <3>5. \A i \in 1 .. n + 1 : Before(buffers_[i], currentBuffer_)'
      <4>1. SUFFICES ASSUME NEW i \in 1 .. n + 1
                     PROVE  Before(buffers_[i], currentBuffer_)'
        OBVIOUS
      <4>2. buffers_'[i] \in Bufs \ {cur}
        BY <3>4
      <4>3. QED
        BY <2>5, <2>11, <4>2 DEF Before, cur
    <3>6. \A i, j \in 1 .. n + 1 : i < j => Before(buffers_[i], buffers_[j])'
      <4>1. SUFFICES ASSUME NEW i \in 1 .. n + 1, NEW j \in 1 .. n + 1, i < j
                     PROVE  Before(buffers_[i], buffers_[j])'
        OBVIOUS
      <4>2. i \in 1 .. n
        BY <3>1, <4>1
      <4>3. CASE j \in 1 .. n
        <5>1. Before(buffers_[i], buffers_[j])
          BY <3>1, <4>1, <4>2, <4>3 DEF OrderInv
        <5>2. /\ buffers_'[i] = buffers_[i] /\ buffers_'[j] = buffers_[j]
              /\ buffers_[i] \in Bufs \ {cur} /\ buffers_[j] \in Bufs \ {cur}
          BY <2>6, <3>1, <4>2, <4>3
        <5>3. QED
          BY <2>2, <5>1, <5>2 DEF Before
      <4>4. CASE j = n + 1
        <5>1. Before(buffers_[i], currentBuffer_)
          BY <2>7, <3>1, <4>2
        <5>2. /\ buffers_'[i] = buffers_[i] /\ buffers_'[j] = currentBuffer_
              /\ buffers_[i] \in Bufs \ {cur}
          BY <2>6, <3>1, <4>2, <4>4
        <5>3. QED
          BY <2>2, <3>3, <5>1, <5>2 DEF Before
      <4>5. QED
        BY <3>2, <4>3, <4>4
    <3>7. \A i \in DOMAIN buffersToWrite :
            \A j \in 1 .. n + 1 : Before(buffersToWrite[i], buffers_[j])'
      <4>1. SUFFICES ASSUME NEW i \in DOMAIN buffersToWrite, NEW j \in 1 .. n + 1
                     PROVE  Before(buffersToWrite[i], buffers_[j])'
        OBVIOUS
      <4>2. Before(buffersToWrite[i], buffers_'[j])
        <5>1. CASE j \in 1 .. n
          BY <3>1, <5>1 DEF OrderInv
        <5>2. CASE j = n + 1
          BY <2>7, <3>1, <5>2
        <5>3. QED
          BY <3>2, <5>1, <5>2
      <4>3. /\ buffersToWrite[i] \in Bufs \ {cur}
            /\ buffers_'[j] \in Bufs \ {cur}
        BY <2>6, <3>4
      <4>4. QED
        BY <2>2, <4>2, <4>3 DEF Before
    <3>8. \A i \in DOMAIN buffersToWrite :
            /\ i # Len(buffersToWrite) => content'[buffersToWrite[i]] # <<>>
            /\ \A j \in DOMAIN buffersToWrite :
                 i < j => Before(buffersToWrite[i], buffersToWrite[j])'
            /\ Before(buffersToWrite[i], currentBuffer_)'
      BY <2>2, <2>6, <2>8, <2>9 DEF OrderInv, Before, cur
    <3>9. QED
      BY <2>2, <3>1, <3>4, <3>5, <3>6, <3>7, <3>8 DEF OrderInv
  <2>12. QED
    BY <2>1, <2>10, <2>11
<1>3. CASE Swap
  <2>1. /\ currentBuffer_' = newBuffer1 /\ content[newBuffer1] = <<>>
        /\ content' = content /\ buffers_' = <<>>
        /\ buffersToWrite' = Append(buffers_, currentBuffer_)
    BY <1>3 DEF Swap, MaySwap, SpareInv, Idle
  <2> DEFINE n == Len(buffers_)
  <2>2. /\ n \in Nat /\ DOMAIN buffers_ = 1 .. n
        /\ DOMAIN buffersToWrite' = 1 .. n + 1 /\ Len(buffersToWrite') = n + 1
        /\ \A i \in 1 .. n : buffersToWrite'[i] = buffers_[i]
        /\ buffersToWrite'[n + 1] = currentBuffer_
    BY <2>1 DEF TypeOK, HeldInv
  <2> HIDE DEF n
  <2>3. \A i \in 1 .. n + 1 : i \in 1 .. n \/ i = n + 1
    BY <2>2
  <2>4. ASSUME NEW i \in 1 .. n + 1, NEW j \in 1 .. n + 1, i < j
        PROVE  Before(buffersToWrite[i], buffersToWrite[j])'
    <3>1. i \in 1 .. n
      BY <2>2, <2>4
    <3>2. Before(buffersToWrite'[i], buffersToWrite'[j])
      BY <2>2, <2>3, <2>4, <3>1 DEF OrderInv
    <3>3. QED
      BY <2>1, <3>2 DEF Before
  <2>5. \A i \in 1 .. n + 1 : i # n + 1 => content'[buffersToWrite'[i]] # <<>>
    BY <2>1, <2>2, <2>3 DEF OrderInv
  <2>6. \A i \in 1 .. n + 1 : Before(buffersToWrite[i], currentBuffer_)'
    BY <2>1 DEF Before
  <2>7. QED
    BY <2>1, <2>2, <2>4, <2>5, <2>6 DEF OrderInv
<1>4. CASE DropExcess
  BY <1>4, DropBuffers, SameOrder DEF shared
<1>5. CASE WriteStep
  BY <1>5, SameOrder DEF WriteStep, WriteBuffer, WritePart, WriteFails,
                         WriteStays, shared
<1>6. CASE Recycle
  <2>1. \A b \in Bufs : content'[b] = <<>> \/ content'[b] = content[b]
    BY <1>6, RecycleFacts
  <2>2. /\ buffers_' = buffers_ /\ currentBuffer_' = currentBuffer_
        /\ buffersToWrite' = <<>>
    BY <1>6 DEF Recycle, shared
  <2>3. \A b \in ToSet(buffers_) \cup {currentBuffer_} : content'[b] = content[b]
    <3>1. HeldInv'
      BY <1>6, RecycleBuffers
    <3>2. \A b \in ToSet(buffers_) \cup {currentBuffer_} :
            b \in Bufs /\ b # newBuffer1' /\ b # newBuffer2'
      BY <2>2, <3>1 DEF HeldInv, Without, ToSet, TypeOK
    <3>3. QED
      BY <1>6, <3>2, RecycleFacts
  <2>4. QED
    BY <2>1, <2>2, <2>3, SameOrder
<1>7. QED
  BY <1>1, <1>2, <1>3, <1>4, <1>5, <1>6, StepKinds

\* The whole invariant.
LEMMA LogInvariant == Spec => []LogInv
<1>1. Init => RunInv /\ DroppedInv
  BY LogAssumption DEF Init, RunInv, DroppedInv, Bufs
<1>2. Init => OrderInv
  BY DEF Init, OrderInv
<1>3. Init => LogInv
  BY <1>1, <1>2, InitBuffers DEF LogInv
<1>4. LogInv /\ [Next]_vars => LogInv'
  BY StepBuffers, StepRuns, StepDropped, StepOrder DEF LogInv
<1>5. QED
  BY <1>3, <1>4, PTL DEF Spec

-----------------------------------------------------------------------------
(* AsyncLogging implements OrderedLog.                                     *)

\* The rest of a sequence, from one of its places.
LEMMA RestOf ==
  ASSUME NEW S, NEW s \in Seq(S), NEW k \in 0 .. Len(s)
  PROVE  /\ SubSeq(s, k + 1, Len(s)) \in Seq(S)
         /\ Len(SubSeq(s, k + 1, Len(s))) = Len(s) - k
         /\ \A i \in 1 .. Len(s) - k : SubSeq(s, k + 1, Len(s))[i] = s[k + i]
OBVIOUS

\* The places of three sequences put together.
LEMMA Joined ==
  ASSUME NEW S, NEW r \in Seq(S), NEW s \in Seq(S), NEW c \in S,
         NEW t, t = r \o s \o <<c>>
  PROVE  /\ DOMAIN t = 1 .. Len(r) + Len(s) + 1
         /\ \A i \in 1 .. Len(r) : t[i] = r[i]
         /\ \A i \in 1 .. Len(s) : t[Len(r) + i] = s[i]
         /\ t[Len(r) + Len(s) + 1] = c
<1> DEFINE n == Len(r)
           m == Len(s)
           q == r \o s
<1>1. n \in Nat /\ m \in Nat
  OBVIOUS
<1>2. /\ q \in Seq(S) /\ Len(q) = n + m
      /\ \A i \in 1 .. n : q[i] = r[i]
      /\ \A i \in 1 .. m : q[n + i] = s[i]
  OBVIOUS
<1> HIDE DEF q, n, m
<1>3. /\ DOMAIN t = 1 .. n + m + 1
      /\ \A i \in 1 .. n + m : t[i] = q[i]
      /\ t[n + m + 1] = c
  <2>1. t = q \o <<c>>
    BY DEF q
  <2>2. QED
    BY <1>1, <1>2, <2>1
<1>4. /\ \A i \in 1 .. n : i \in 1 .. n + m
      /\ \A i \in 1 .. m : n + i \in 1 .. n + m
  BY <1>1
<1>5. QED
  BY <1>2, <1>3, <1>4 DEF q, n, m

\* The characters in a sequence of buffers.
LEMMA CharsOfIs ==
  ASSUME NEW bs \in Seq(Bufs)
  PROVE  CharsOf(bs) = UNION {ToSet(content[bs[i]]) : i \in 1 .. Len(bs)}
<1>1. DOMAIN bs = 1 .. Len(bs)
  OBVIOUS
<1>2. \A b : b \in ToSet(bs) <=> \E i \in 1 .. Len(bs) : b = bs[i]
  BY <1>1 DEF ToSet
<1>3. \A k : k \in CharsOf(bs) <=> \E b \in ToSet(bs) : k \in ToSet(content[b])
  BY DEF CharsOf
<1>4. QED
  BY <1>2, <1>3

\* The characters in the buffers the threads hold.
WithThreads == CharsOf(buffers_) \cup ToSet(content[currentBuffer_])

\* The characters of the i-th of the back-end's buffers that are not given to
\* the file, and those of them all.
Part(i) == SubSeq(content[buffersToWrite[i]],
                  IF i = written + 1 THEN part + 1 ELSE 1,
                  Len(content[buffersToWrite[i]]))
WithBackEnd == UNION {ToSet(Part(i)) : i \in written + 1 .. Len(buffersToWrite)}

\* What waits is with the back-end or with the threads.
LEMMA WaitingIs == BufferInv => Waiting = WithBackEnd \cup WithThreads
<1> SUFFICES ASSUME BufferInv
             PROVE  Waiting = WithBackEnd \cup WithThreads
  OBVIOUS
<1> USE DEF BufferInv
<1> DEFINE n == Len(buffersToWrite) - written
           m == Len(buffers_)
<1>1. /\ n \in Nat /\ m \in Nat /\ written \in Nat
      /\ buffersToWrite \in Seq(Bufs) /\ buffers_ \in Seq(Bufs)
      /\ currentBuffer_ \in Bufs /\ n + written = Len(buffersToWrite)
  <2>1. written <= Len(buffersToWrite)
    BY DEF SpareInv, TypeOK
  <2>2. QED
    BY <2>1 DEF TypeOK, HeldInv
<1>2. /\ DOMAIN Unwritten = 1 .. n + m + 1
      /\ \A i \in 1 .. n : Unwritten[i] = buffersToWrite[written + i]
      /\ \A i \in 1 .. m : Unwritten[n + i] = buffers_[i]
      /\ Unwritten[n + m + 1] = currentBuffer_
  <2> DEFINE tail == SubSeq(buffersToWrite, written + 1, Len(buffersToWrite))
  <2>1. written \in 0 .. Len(buffersToWrite)
    BY <1>1
  <2>2. /\ tail \in Seq(Bufs) /\ Len(tail) = n
        /\ \A i \in 1 .. n : tail[i] = buffersToWrite[written + i]
    BY <1>1, <2>1, RestOf
  <2>3. Unwritten = tail \o buffers_ \o <<currentBuffer_>>
    BY DEF Unwritten
  <2> HIDE DEF tail, n
  <2>4. /\ DOMAIN Unwritten = 1 .. Len(tail) + Len(buffers_) + 1
        /\ \A i \in 1 .. Len(tail) : Unwritten[i] = tail[i]
        /\ \A i \in 1 .. Len(buffers_) : Unwritten[Len(tail) + i] = buffers_[i]
        /\ Unwritten[Len(tail) + Len(buffers_) + 1] = currentBuffer_
    <3>1. tail \in Seq(Bufs) /\ buffers_ \in Seq(Bufs) /\ currentBuffer_ \in Bufs
      BY <1>1, <2>2
    <3> HIDE DEF BufferInv
    <3>2. QED
      BY <2>3, <3>1, Joined
  <2>5. QED
    BY <2>2, <2>4
<1>3. n = 0 => part = 0
  BY <1>1 DEF SpareInv, Writing
<1>4. \A b \in Bufs : SubSeq(content[b], 1, Len(content[b])) = content[b]
  BY DEF TypeOK
<1> HIDE DEF n, m
<1>5. \A i \in 1 .. n : Left(i) = Part(written + i)
  <2>1. \A i \in 1 .. n : (i = 1) <=> (written + i = written + 1)
    BY <1>1
  <2>2. QED
    BY <1>2, <2>1 DEF Left, Part
<1>6. \A i \in 1 .. m : Left(n + i) = content[buffers_[i]]
  <2>1. SUFFICES ASSUME NEW i \in 1 .. m
                 PROVE  Left(n + i) = content[buffers_[i]]
    OBVIOUS
  <2>2. buffers_[i] \in Bufs /\ Unwritten[n + i] = buffers_[i]
    BY <1>1, <1>2 DEF m
  <2>3. n + i = 1 => part + 1 = 1
    BY <1>1, <1>3
  <2>4. QED
    BY <1>4, <2>2, <2>3 DEF Left
<1>7. Left(n + m + 1) = content[currentBuffer_]
  <2>1. n + m + 1 = 1 => part + 1 = 1
    BY <1>1, <1>3
  <2>2. QED
    BY <1>1, <1>2, <1>4, <2>1 DEF Left
<1>8. Waiting = UNION {ToSet(Left(i)) : i \in 1 .. n + m + 1}
  BY <1>2 DEF Waiting
<1>9. WithBackEnd = UNION {ToSet(Left(i)) : i \in 1 .. n}
  <2>1. \A j \in written + 1 .. Len(buffersToWrite) :
          \E i \in 1 .. n : j = written + i
    <3>1. \A j \in written + 1 .. Len(buffersToWrite) :
            j - written \in 1 .. n /\ j = written + (j - written)
      BY <1>1
    <3>2. QED
      BY <3>1
  <2>2. \A i \in 1 .. n : written + i \in written + 1 .. Len(buffersToWrite)
    BY <1>1
  <2>3. WithBackEnd = UNION {ToSet(Part(written + i)) : i \in 1 .. n}
    BY <2>1, <2>2 DEF WithBackEnd
  <2>4. QED
    BY <1>5, <2>3
<1>10. CharsOf(buffers_) = UNION {ToSet(Left(n + i)) : i \in 1 .. m}
  <2>1. CharsOf(buffers_) = UNION {ToSet(content[buffers_[i]]) : i \in 1 .. m}
    BY <1>1, CharsOfIs DEF m
  <2>2. QED
    BY <1>6, <2>1
<1>11. \A i \in 1 .. n + m + 1 : \/ i \in 1 .. n
                                \/ (\E j \in 1 .. m : i = n + j)
                                \/ i = n + m + 1
  <2>1. \A i \in 1 .. n + m + 1 : \/ i \in 1 .. n
                                 \/ (i - n \in 1 .. m /\ i = n + (i - n))
                                 \/ i = n + m + 1
    BY <1>1
  <2>2. QED
    BY <2>1
<1>12. /\ \A i \in 1 .. n : i \in 1 .. n + m + 1
       /\ \A j \in 1 .. m : n + j \in 1 .. n + m + 1
       /\ n + m + 1 \in 1 .. n + m + 1
  BY <1>1
<1> DEFINE L(i) == ToSet(Left(i))
<1> HIDE DEF L
<1>13. UNION {L(i) : i \in 1 .. n + m + 1}
         = (UNION {L(i) : i \in 1 .. n}) \cup (UNION {L(n + i) : i \in 1 .. m})
             \cup L(n + m + 1)
  <2> DEFINE All == UNION {L(i) : i \in 1 .. n + m + 1}
             Three == (UNION {L(i) : i \in 1 .. n})
                        \cup (UNION {L(n + i) : i \in 1 .. m}) \cup L(n + m + 1)
  <2>1. \A k : k \in All <=> \E i \in 1 .. n + m + 1 : k \in L(i)
    OBVIOUS
  <2> DEFINE A == UNION {L(i) : i \in 1 .. n}
             B == UNION {L(n + i) : i \in 1 .. m}
             C == L(n + m + 1)
  <2>2. \A k : k \in A <=> \E i \in 1 .. n : k \in L(i)
    OBVIOUS
  <2>2a. \A k : k \in B <=> \E i \in 1 .. m : k \in L(n + i)
    OBVIOUS
  <2>2b. Three = A \cup B \cup C
    OBVIOUS
  <2> HIDE DEF All, Three, A, B
  <2>3. \A k : k \in All <=> k \in A \/ k \in B \/ k \in C
    BY <1>11, <1>12, <2>1, <2>2, <2>2a
  <2> HIDE DEF C
  <2>4. All = Three
    BY <2>2b, <2>3
  <2>5. QED
    BY <2>4 DEF All, Three
<1>14. QED
  BY <1>7, <1>8, <1>9, <1>10, <1>13 DEF L, WithThreads

\* The characters of the back-end's buffers when it has given none of them.
LEMMA NoneGiven ==
  BufferInv /\ written = 0 /\ part = 0
    => Waiting = CharsOf(buffersToWrite) \cup WithThreads
<1> SUFFICES ASSUME BufferInv, written = 0, part = 0
             PROVE  WithBackEnd = CharsOf(buffersToWrite)
  BY WaitingIs
<1> DEFINE n == Len(buffersToWrite)
<1>1. /\ n \in Nat /\ DOMAIN buffersToWrite = 1 .. n
      /\ \A i \in 1 .. n : buffersToWrite[i] \in Bufs
      /\ \A b \in Bufs : SubSeq(content[b], 1, Len(content[b])) = content[b]
  BY DEF BufferInv, TypeOK
<1> HIDE DEF n
<1>2. \A i \in 1 .. n : Part(i) = content[buffersToWrite[i]]
  BY <1>1 DEF Part, n
<1>3. WithBackEnd = UNION {ToSet(content[buffersToWrite[i]]) : i \in 1 .. n}
  BY <1>2 DEF WithBackEnd, n
<1>4. buffersToWrite \in Seq(Bufs)
  BY DEF BufferInv, TypeOK
<1>5. QED
  BY <1>3, <1>4, CharsOfIs DEF n

\* Both hold of the state after a step as well.
LEMMA WaitingNext ==
  /\ (BufferInv => Waiting = WithBackEnd \cup WithThreads)'
  /\ (BufferInv /\ written = 0 /\ part = 0
        => Waiting = CharsOf(buffersToWrite) \cup WithThreads)'
BY WaitingIs, NoneGiven, PTL

\* What waits behind the buffer that is being written.
Later == (UNION {ToSet(Part(i)) : i \in written + 2 .. Len(buffersToWrite)})
           \cup WithThreads

\* The rest of that buffer is an ascending sequence of what waits.
LEMMA RestWaits ==
  ASSUME LogInv, Writing
  PROVE  /\ Waiting = ToSet(Rest) \cup Later
         /\ Ordered!Ascending(Rest)
         /\ \A j \in ToSet(Rest) : \A k \in Later : j < k
         /\ ToSet(Rest) \subseteq Nat \ {0}
         /\ Later \subseteq Nat
<1> USE DEF LogInv, BufferInv
<1> DEFINE b == buffersToWrite[written + 1]
           n == Len(buffersToWrite)
<1>1. /\ n \in Nat /\ written \in Nat /\ written < n /\ written + 1 \in 1 .. n
      /\ b \in Bufs /\ DOMAIN buffersToWrite = 1 .. n
      /\ \A i \in 1 .. n : buffersToWrite[i] \in Bufs
  BY WritingBuffer, SMTT(20) DEF TypeOK, Writing
<1>2. /\ \A c \in Bufs : /\ content[c] \in Seq(Nat)
                         /\ DOMAIN content[c] = 1 .. Len(content[c])
      /\ part \in Nat
  BY DEF TypeOK
<1>3. Part(written + 1) = Rest
  BY DEF Part, Rest, Buffer
<1>4. Waiting = ToSet(Rest) \cup Later
  <2>1. \A i : i \in written + 1 .. n <=> i = written + 1 \/ i \in written + 2 .. n
    BY <1>1
  <2> HIDE DEF n
  <2>2. WithBackEnd = ToSet(Rest)
          \cup (UNION {ToSet(Part(i)) : i \in written + 2 .. n})
    BY <1>3, <2>1 DEF WithBackEnd, n
  <2>3. QED
    BY <2>2, WaitingIs DEF Later, n
<1>5. \A i \in 1 .. n : ToSet(Part(i)) \subseteq ToSet(content[buffersToWrite[i]])
  <2>1. \A s \in Seq(Nat) : \A m \in Nat :
          ToSet(SubSeq(s, m + 1, Len(s))) \subseteq ToSet(s)
    <3>1. SUFFICES ASSUME NEW s \in Seq(Nat), NEW m \in Nat,
                          NEW x \in ToSet(SubSeq(s, m + 1, Len(s)))
                   PROVE  x \in ToSet(s)
      OBVIOUS
    <3>2. CASE m \in 0 .. Len(s)
      <4>1. PICK i \in DOMAIN SubSeq(s, m + 1, Len(s)) :
              x = SubSeq(s, m + 1, Len(s))[i]
        BY <3>1 DEF ToSet
      <4>2. i \in 1 .. Len(s) - m /\ x = s[m + i]
        <5>1. m \in 0 .. Len(s)
          BY <3>2
        <5>2. /\ SubSeq(s, m + 1, Len(s)) \in Seq(Nat)
              /\ Len(SubSeq(s, m + 1, Len(s))) = Len(s) - m
              /\ \A j \in 1 .. Len(s) - m :
                   SubSeq(s, m + 1, Len(s))[j] = s[m + j]
          BY <5>1, RestOf
        <5>3. i \in 1 .. Len(s) - m
          BY <4>1, <5>2
        <5>4. QED
          BY <4>1, <5>2, <5>3
      <4>3. m + i \in DOMAIN s
        BY <3>2, <4>2
      <4>4. QED
        BY <4>2, <4>3 DEF ToSet
    <3>3. CASE m \notin 0 .. Len(s)
      <4>1. SubSeq(s, m + 1, Len(s)) = <<>>
        BY <3>3
      <4>2. QED
        BY <3>1, <4>1 DEF ToSet
    <3>4. QED
      BY <3>2, <3>3
  <2>2. SUFFICES ASSUME NEW i \in 1 .. n
                 PROVE  ToSet(Part(i)) \subseteq ToSet(content[buffersToWrite[i]])
    OBVIOUS
  <2>3. content[buffersToWrite[i]] \in Seq(Nat)
    BY <1>1, <1>2
  <2>4. PICK m \in Nat : Part(i) = SubSeq(content[buffersToWrite[i]], m + 1,
                                         Len(content[buffersToWrite[i]]))
    <3>1. CASE i = written + 1
      BY <1>2, <3>1 DEF Part
    <3>2. CASE i # written + 1
      BY <3>2, SMTT(20) DEF Part
    <3>3. QED
      BY <3>1, <3>2
  <2>5. QED
    BY <2>1, <2>3, <2>4
<1>6. Ordered!Ascending(Rest)
  <2>1. /\ Rest \in Seq(Nat) /\ part \in 0 .. Len(Buffer) /\ Buffer \in Seq(Nat)
        /\ Len(Rest) = Len(Buffer) - part
        /\ \A i \in 1 .. Len(Rest) : Rest[i] = Buffer[part + i]
    BY RestIs
  <2>d. DOMAIN Rest = 1 .. Len(Rest)
    BY <2>1
  <2>2. SUFFICES ASSUME NEW i \in 1 .. Len(Rest), NEW j \in 1 .. Len(Rest), i < j
                 PROVE  Rest[i] < Rest[j]
    BY <2>d DEF Ordered!Ascending
  <2>3. Buffer # <<>> /\ Run(Buffer)
    <3>1. Len(Buffer) # 0
      BY <2>1, <2>2
    <3>2. Buffer # <<>>
      BY <3>1
    <3>3. QED
      BY <1>1, <3>2 DEF RunInv, Buffer
  <2> HIDE DEF Buffer, Rest
  <2>4. part + i \in 1 .. Len(Buffer) /\ part + j \in 1 .. Len(Buffer)
    BY <2>1, <2>2
  <2>5. /\ Rest[i] = Buffer[1] + ((part + i) - 1)
        /\ Rest[j] = Buffer[1] + ((part + j) - 1)
        /\ Buffer[1] \in Nat
    <3>1. Rest[i] = Buffer[part + i] /\ Rest[j] = Buffer[part + j]
      BY <2>1
    <3>2. /\ \A m \in 1 .. Len(Buffer) : Buffer[m] = Buffer[1] + (m - 1)
          /\ Buffer[1] \in Nat
      BY <2>3 DEF Run
    <3>3. QED
      BY <2>4, <3>1, <3>2
  <2>6. QED
    BY <1>2, <2>2, <2>5
<1>7. \A j \in ToSet(content[b]) : \A k \in Later : j < k
  <2>1. SUFFICES ASSUME NEW j \in ToSet(content[b]), NEW k \in Later
                 PROVE  j < k
    OBVIOUS
  <2>2. PICK i \in DOMAIN content[b] : j = content[b][i]
    BY DEF ToSet
  <2>3. CASE k \in WithThreads
    <3>1. \/ k \in ToSet(content[currentBuffer_])
          \/ \E m \in DOMAIN buffers_ : k \in ToSet(content[buffers_[m]])
      BY <2>3 DEF WithThreads, CharsOf, ToSet
    <3>2. /\ Before(b, currentBuffer_)
          /\ \A m \in DOMAIN buffers_ : Before(b, buffers_[m])
      BY <1>1 DEF OrderInv
    <3>3. QED
      BY <2>2, <3>1, <3>2 DEF Before, ToSet
  <2>4. CASE k \notin WithThreads
    <3>1. PICK m \in written + 2 .. n : k \in ToSet(Part(m))
      BY <2>4 DEF Later
    <3>2. m \in 1 .. n /\ written + 1 < m
      BY <1>1, <3>1
    <3>3. k \in ToSet(content[buffersToWrite[m]])
      BY <1>5, <3>1, <3>2
    <3>4. Before(b, buffersToWrite[m])
      BY <1>1, <3>2 DEF OrderInv
    <3>5. QED
      BY <2>2, <3>3, <3>4 DEF Before, ToSet
  <2>5. QED
    BY <2>3, <2>4
<1>8. \A c \in Bufs : ToSet(content[c]) \subseteq Nat \ {0}
  <2>1. \A k \in 1 .. appended : k \in Nat \ {0}
    BY DEF TypeOK
  <2>2. QED
    BY <1>2, <2>1, CharsBelow DEF ToSet
<1>9. Later \subseteq Nat
  <2>1. WithThreads \subseteq Nat
    <3>1. currentBuffer_ \in Bufs /\ ToSet(buffers_) \subseteq Bufs
      BY DEF HeldInv, TypeOK, ToSet
    <3>2. QED
      BY <1>8, <3>1 DEF WithThreads, CharsOf
  <2>2. \A i \in written + 2 .. n : ToSet(Part(i)) \subseteq Nat
    <3>1. \A i \in written + 2 .. n : i \in 1 .. n
      BY <1>1
    <3>2. QED
      BY <1>1, <1>5, <1>8, <3>1
  <2>3. QED
    BY <2>1, <2>2 DEF Later
<1>10. ToSet(Rest) \subseteq ToSet(content[b])
  BY <1>1, <1>3, <1>5
<1>11. QED
  BY <1>1, <1>4, <1>6, <1>7, <1>8, <1>9, <1>10

\* The elements of a sequence with another one at its end.
LEMMA AppendedSet ==
  ASSUME NEW S, NEW s \in Seq(S), NEW c \in S
  PROVE  ToSet(Append(s, c)) = ToSet(s) \cup {c}
<1> DEFINE n == Len(s)
           t == Append(s, c)
<1>1. /\ n \in Nat /\ DOMAIN s = 1 .. n /\ DOMAIN t = 1 .. n + 1
      /\ \A i \in 1 .. n : t[i] = s[i]
      /\ t[n + 1] = c
  OBVIOUS
<1> HIDE DEF n, t
<1>2. /\ \A i \in 1 .. n + 1 : i \in 1 .. n \/ i = n + 1
      /\ \A i \in 1 .. n : i \in 1 .. n + 1
      /\ n + 1 \in 1 .. n + 1
  BY <1>1
<1>3. \A b : b \in ToSet(t) <=> b \in ToSet(s) \/ b = c
  BY <1>1, <1>2 DEF ToSet
<1>4. ToSet(t) = ToSet(s) \cup {c}
  BY <1>3
<1>5. QED
  BY <1>4 DEF t

\* Steps that give nothing to the file and append nothing.
LEMMA QuietMaps ==
  ASSUME BufferInv, QuietStep \/ Swap \/ Recycle
  PROVE  UNCHANGED Ordered!vars
<1> USE DEF BufferInv
<1>1. CASE QuietStep
  BY <1>1, QuietSteps DEF Quiet, shared, own, log, Ordered!vars, Waiting,
                          Unwritten, Left
<1>2. CASE Swap
  <2>1. /\ buffersToWrite = <<>> /\ written = 0 /\ part = 0
        /\ content[newBuffer1] = <<>>
        /\ currentBuffer_' = newBuffer1 /\ content' = content
        /\ buffers_' = <<>> /\ written' = 0 /\ part' = 0
        /\ buffersToWrite' = Append(buffers_, currentBuffer_)
        /\ UNCHANGED <<appended, file, dropped, lost>>
    BY <1>2 DEF Swap, MaySwap, SpareInv, Idle, Writing, log, disk
  <2>2. ToSet(Append(buffers_, currentBuffer_)) =
          ToSet(buffers_) \cup {currentBuffer_}
    BY AppendedSet DEF TypeOK, HeldInv
  <2>3. Waiting = CharsOf(buffersToWrite) \cup WithThreads
    BY <2>1, NoneGiven
  <2>4. Waiting' = CharsOf(buffersToWrite)' \cup WithThreads'
    BY <1>2, <2>1, SwapBuffers, WaitingNext
  <2>5. ToSet(<<>>) = {}
    BY DEF ToSet
  <2>6. CharsOf(<<>>) = {} /\ CharsOf(<<>>)' = {}
    BY <2>5 DEF CharsOf
  <2>7. Waiting = CharsOf(buffers_) \cup ToSet(content[currentBuffer_])
    BY <2>1, <2>3, <2>6 DEF WithThreads
  <2>8. WithThreads' = {}
    BY <2>1, <2>5, <2>6 DEF WithThreads, CharsOf
  <2>9. CharsOf(buffersToWrite)' =
          CharsOf(buffers_) \cup ToSet(content[currentBuffer_])
    BY <2>1, <2>2 DEF CharsOf
  <2>10. Waiting' = Waiting
    BY <2>4, <2>7, <2>8, <2>9
  <2>11. QED
    BY <2>1, <2>10 DEF Ordered!vars
<1>3. CASE Recycle
  <2>1. /\ written = Len(buffersToWrite) /\ buffersToWrite' = <<>> /\ written' = 0
        /\ buffers_' = buffers_ /\ currentBuffer_' = currentBuffer_
        /\ UNCHANGED <<appended, file, dropped, lost>>
    BY <1>3 DEF Recycle, shared, log
  <2>2. BufferInv'
    BY <1>3, RecycleBuffers
  <2>3. WithBackEnd = {}
    <3>1. \A i \in written + 1 .. Len(buffersToWrite) : FALSE
      BY <2>1 DEF TypeOK
    <3>2. QED
      BY <3>1 DEF WithBackEnd
  <2>4. WithBackEnd' = {}
    <3>1. \A i \in written' + 1 .. Len(buffersToWrite') : FALSE
      BY <2>1
    <3>2. QED
      BY <3>1 DEF WithBackEnd
  <2>5. \A b \in ToSet(buffers_) \cup {currentBuffer_} : content'[b] = content[b]
    <3>1. \A b \in ToSet(buffers_) \cup {currentBuffer_} :
            b \in Bufs /\ b # newBuffer1' /\ b # newBuffer2'
      BY <2>1, <2>2, SMTT(20) DEF HeldInv, Without, ToSet, TypeOK
    <3>2. QED
      BY <1>3, <3>1, RecycleFacts
  <2>6. WithThreads' = WithThreads
    BY <2>1, <2>5 DEF WithThreads, CharsOf
  <2>7. Waiting' = Waiting
    BY <2>2, <2>3, <2>4, <2>6, WaitingIs, WaitingNext
  <2>8. QED
    BY <2>1, <2>7 DEF Ordered!vars
<1>4. QED
  BY <1>1, <1>2, <1>3

\* append appends a line, in one piece.
LEMMA AppendMaps ==
  ASSUME LogInv, NEW p \in Producers, AppendFits(p) \/ AppendFull(p)
  PROVE  \E n \in 1 .. SIZE - 1 : Ordered!Take(n)
<1> USE DEF LogInv, BufferInv
<1> DEFINE cur == currentBuffer_'
           new == appended + 1 .. appended + len(p)
<1>1. PICK old \in Seq(Nat) :
       /\ \/ /\ cur = currentBuffer_ /\ old = content[cur]
             /\ buffers_' = buffers_
          \/ /\ cur = Fresh /\ Fresh # currentBuffer_ /\ old = <<>>
             /\ buffers_' = Append(buffers_, currentBuffer_)
             /\ content[currentBuffer_] # <<>>
       /\ Len(content'[cur]) = Len(old) + len(p)
       /\ \A i \in 1 .. Len(old) : content'[cur][i] = old[i]
       /\ \A i \in Len(old) + 1 .. Len(old) + len(p) :
            content'[cur][i] = appended + (i - Len(old))
  BY AppendEffect
<1>2. /\ cur \in Bufs /\ len(p) \in 1 .. SIZE - 1 /\ len(p) \in Nat
      /\ \A c \in Bufs \ {cur} : content'[c] = content[c]
      /\ Without(buffers_, cur) /\ Without(buffersToWrite, cur)
      /\ appended' = appended + len(p) /\ appended \in Nat
      /\ UNCHANGED <<buffersToWrite, written, part, file, dropped, lost>>
  BY AppendEffect, StreamAssumption, SMTT(20) DEF TypeOK, own
<1>3. BufferInv'
  BY StepBuffers DEF Next, Output
<1> HIDE DEF cur, new
<1>4. ToSet(content'[cur]) = ToSet(old) \cup new
  <2>1. /\ DOMAIN content'[cur] = 1 .. Len(old) + len(p) /\ Len(old) \in Nat
        /\ DOMAIN old = 1 .. Len(old)
    <3>1. content'[cur] \in Seq(Nat)
      BY <1>2, <1>3 DEF TypeOK
    <3>2. QED
      BY <1>1, <3>1
  <2>2. \A k \in new : /\ k - appended + Len(old) \in 1 .. Len(old) + len(p)
                      /\ content'[cur][k - appended + Len(old)] = k
    <3>1. SUFFICES ASSUME NEW k \in new
                   PROVE  /\ k - appended + Len(old) \in 1 .. Len(old) + len(p)
                          /\ content'[cur][k - appended + Len(old)] = k
      OBVIOUS
    <3> DEFINE i == k - appended + Len(old)
    <3>2. /\ i \in Len(old) + 1 .. Len(old) + len(p)
          /\ i \in 1 .. Len(old) + len(p)
          /\ appended + (i - Len(old)) = k
      BY <1>2, <2>1 DEF new
    <3> HIDE DEF i
    <3>3. content'[cur][i] = k
      BY <1>1, <3>2
    <3>4. QED
      BY <3>2, <3>3 DEF i
  <2>3. \A i \in 1 .. Len(old) + len(p) :
          \/ i \in 1 .. Len(old) /\ content'[cur][i] = old[i]
          \/ content'[cur][i] \in new
    <3>1. SUFFICES ASSUME NEW i \in 1 .. Len(old) + len(p), i \notin 1 .. Len(old)
                   PROVE  content'[cur][i] \in new
      BY <1>1
    <3>2. i \in Len(old) + 1 .. Len(old) + len(p) /\ i \in Nat
      BY <1>2, <2>1, <3>1
    <3>3. content'[cur][i] = appended + (i - Len(old))
      BY <1>1, <3>2
    <3>4. QED
      BY <1>2, <2>1, <3>2, <3>3 DEF new
  <2>4. \A i \in 1 .. Len(old) : /\ i \in 1 .. Len(old) + len(p)
                                /\ content'[cur][i] = old[i]
    <3>1. \A i \in 1 .. Len(old) : i \in 1 .. Len(old) + len(p)
      BY <1>2, <2>1
    <3>2. QED
      BY <1>1, <3>1
  <2>5. \A k : k \in ToSet(content'[cur]) <=> k \in ToSet(old) \/ k \in new
    BY <2>1, <2>2, <2>3, <2>4 DEF ToSet
  <2>6. QED
    BY <2>5
<1>5. WithBackEnd' = WithBackEnd
  <2>1. \A i \in written + 1 .. Len(buffersToWrite) :
          buffersToWrite[i] \in Bufs \ {cur}
    <3>1. /\ buffersToWrite \in Seq(Bufs) /\ written \in Nat
          /\ DOMAIN buffersToWrite = 1 .. Len(buffersToWrite)
      BY DEF TypeOK
    <3>2. \A i \in written + 1 .. Len(buffersToWrite) : i \in DOMAIN buffersToWrite
      BY <3>1
    <3>3. QED
      BY <1>2, <3>1, <3>2 DEF Without
  <2>2. \A i \in written + 1 .. Len(buffersToWrite) : Part(i)' = Part(i)
    BY <1>2, <2>1 DEF Part
  <2>3. QED
    BY <1>2, <2>2 DEF WithBackEnd
<1>6. \A b \in ToSet(buffers_) : b \in Bufs /\ content'[b] = content[b]
  BY <1>2, SMTT(20) DEF ToSet, TypeOK, Without
<1>7. WithThreads' = WithThreads \cup new
  <2>1. CASE /\ cur = currentBuffer_ /\ old = content[cur]
             /\ buffers_' = buffers_
    <3>1. CharsOf(buffers_)' = CharsOf(buffers_)
      BY <1>6, <2>1 DEF CharsOf
    <3>2. QED
      BY <1>4, <2>1, <3>1 DEF WithThreads, cur
  <2>2. CASE /\ cur = Fresh /\ Fresh # currentBuffer_ /\ old = <<>>
             /\ buffers_' = Append(buffers_, currentBuffer_)
    <3>1. ToSet(buffers_') = ToSet(buffers_) \cup {currentBuffer_}
      BY <2>2, AppendedSet DEF TypeOK, HeldInv
    <3>2. content'[currentBuffer_] = content[currentBuffer_]
      BY <1>2, <2>2 DEF HeldInv
    <3>3. CharsOf(buffers_)' = CharsOf(buffers_) \cup ToSet(content[currentBuffer_])
      BY <1>6, <3>1, <3>2 DEF CharsOf
    <3>4. ToSet(old) = {}
      BY <2>2 DEF ToSet
    <3>5. QED
      BY <1>4, <3>3, <3>4 DEF WithThreads, cur
  <2>3. QED
    BY <1>1, <2>1, <2>2
<1>8. Waiting' = Waiting \cup new
  BY <1>3, <1>5, <1>7, WaitingIs, WaitingNext
<1>9. Ordered!Take(len(p))
  BY <1>2, <1>8 DEF Ordered!Take, new
<1>10. QED
  BY <1>2, <1>9

\* An ascending sequence without its first elements.
LEMMA FirstGone ==
  ASSUME NEW s \in Seq(Nat), Ordered!Ascending(s), NEW n \in 0 .. Len(s)
  PROVE  LET gone == {s[i] : i \in 1 .. n} IN
         /\ gone \subseteq ToSet(s)
         /\ n = Len(s) => gone = ToSet(s)
         /\ ToSet(SubSeq(s, n + 1, Len(s))) = ToSet(s) \ gone
<1> DEFINE m == Len(s)
           gone == {s[i] : i \in 1 .. n}
           rest == SubSeq(s, n + 1, m)
<1>1. /\ m \in Nat /\ DOMAIN s = 1 .. m /\ n \in 0 .. m
      /\ \A i \in 1 .. m : s[i] \in Nat
  OBVIOUS
<1>2. DOMAIN rest = 1 .. m - n /\ \A i \in 1 .. m - n : rest[i] = s[n + i]
  BY RestOf
<1> HIDE DEF m, rest
<1>3. \A i, j \in 1 .. m : s[i] = s[j] => i = j
  <2>1. SUFFICES ASSUME NEW i \in 1 .. m, NEW j \in 1 .. m, i < j
                 PROVE  s[i] # s[j]
    BY <1>1
  <2>2. s[i] < s[j]
    BY <1>1, <2>1 DEF Ordered!Ascending
  <2>3. QED
    BY <1>1, <2>2
<1>4. /\ \A i \in 1 .. n : i \in 1 .. m
      /\ \A i \in 1 .. m - n : n + i \in 1 .. m /\ n + i \notin 1 .. n
      /\ \A i \in 1 .. m : i \in 1 .. n
           \/ (i - n \in 1 .. m - n /\ n + (i - n) = i)
  BY <1>1
<1>5. /\ \A k : k \in ToSet(rest) <=> \E i \in 1 .. m - n : k = s[n + i]
      /\ \A k : k \in ToSet(s) <=> \E i \in 1 .. m : k = s[i]
      /\ \A k : k \in gone <=> \E i \in 1 .. n : k = s[i]
  BY <1>1, <1>2 DEF ToSet
<1> HIDE DEF gone
<1>6. gone \subseteq ToSet(s)
  BY <1>4, <1>5
<1>7. n = m => gone = ToSet(s)
  BY <1>5
<1>8. ASSUME NEW k \in ToSet(rest)
      PROVE  k \in ToSet(s) /\ k \notin gone
  <2>1. PICK i \in 1 .. m - n : k = s[n + i]
    BY <1>5
  <2>2. k \in ToSet(s)
    BY <1>4, <1>5, <2>1
  <2>3. \A j \in 1 .. n : k # s[j]
    BY <1>3, <1>4, <2>1
  <2>4. QED
    BY <1>5, <2>2, <2>3
<1>9. ASSUME NEW k \in ToSet(s), k \notin gone
      PROVE  k \in ToSet(rest)
  <2>1. PICK i \in 1 .. m : k = s[i]
    BY <1>5
  <2>2. i \notin 1 .. n
    BY <1>5, <1>9, <2>1
  <2>3. QED
    BY <1>4, <1>5, <2>1, <2>2
<1>10. ToSet(rest) = ToSet(s) \ gone
  BY <1>8, <1>9
<1>11. QED
  BY <1>6, <1>7, <1>10 DEF gone, rest, m

\* What waits after a step that takes the first of the rest.
LEMMA GivenAway ==
  ASSUME LogInv, WriteStep, NEW n \in 0 .. Len(Rest),
         \/ Taken /\ n = Len(Rest)
         \/ UNCHANGED written /\ part' = part + n /\ n < Len(Rest)
  PROVE  Waiting' = Waiting \ {Rest[i] : i \in 1 .. n}
<1> USE DEF LogInv, BufferInv
<1> DEFINE N == Len(buffersToWrite)
           gone == {Rest[i] : i \in 1 .. n}
<1>1. /\ Writing /\ BufferInv'
      /\ UNCHANGED <<content, buffers_, currentBuffer_, buffersToWrite>>
  BY WriteBuffers
     DEF WriteStep, WriteBuffer, WritePart, WriteFails, WriteStays, shared
<1>2. /\ Rest \in Seq(Nat) /\ DOMAIN Rest = 1 .. Len(Rest) /\ Len(Rest) \in Nat
      /\ Ordered!Ascending(Rest)
      /\ Waiting = ToSet(Rest) \cup Later
      /\ \A j \in ToSet(Rest) : \A k \in Later : j < k
      /\ Later \subseteq Nat /\ ToSet(Rest) \subseteq Nat
  BY <1>1, RestIs, RestWaits
<1>3. /\ N \in Nat /\ written \in Nat /\ written < N
  BY <1>1 DEF Writing, TypeOK
<1>4. WithThreads' = WithThreads
  BY <1>1 DEF WithThreads, CharsOf
<1>5. /\ gone \subseteq ToSet(Rest)
      /\ n = Len(Rest) => gone = ToSet(Rest)
      /\ ToSet(SubSeq(Rest, n + 1, Len(Rest))) = ToSet(Rest) \ gone
  <2>1. Rest \in Seq(Nat) /\ Ordered!Ascending(Rest)
    BY <1>2
  <2>2. QED
    BY <2>1, FirstGone
<1>d. ToSet(Rest) \cap Later = {}
  <2>1. SUFFICES ASSUME NEW j \in ToSet(Rest), j \in Later
                 PROVE  FALSE
    OBVIOUS
  <2>2. j < j /\ j \in Nat
    BY <1>2, <2>1
  <2>3. QED
    BY <2>2
<1>w. Waiting = ToSet(Rest) \cup Later
  BY <1>2
<1> HIDE DEF gone
<1>6. CASE Taken /\ n = Len(Rest)
  <2>1. written' = written + 1 /\ part' = 0
    BY <1>6, TakenFacts
  <2>2. \A i \in written + 2 .. N : Part(i)' = Part(i)
    <3>1. SUFFICES ASSUME NEW i \in written + 2 .. N
                   PROVE  Part(i)' = Part(i)
      OBVIOUS
    <3>2. i # written + 1
      BY <1>3
    <3>3. Part(i) =
            SubSeq(content[buffersToWrite[i]], 1,
                   Len(content[buffersToWrite[i]]))
      BY <3>2 DEF Part
    <3>4. Part(i)' =
            SubSeq(content[buffersToWrite[i]], 1,
                   Len(content[buffersToWrite[i]]))
      BY <1>1, <2>1 DEF Part
    <3>5. QED
      BY <3>3, <3>4
  <2>3. written' + 1 .. N = written + 2 .. N
    BY <1>3, <2>1
  <2>4. WithBackEnd' = UNION {ToSet(Part(i)) : i \in written + 2 .. N}
    BY <1>1, <2>2, <2>3 DEF WithBackEnd
  <2>5. Waiting' = Later
    BY <1>1, <1>4, <2>4, WaitingNext DEF Later
  <2>6. gone = ToSet(Rest)
    BY <1>5, <1>6
  <2>7. QED
    BY <1>d, <1>w, <2>5, <2>6 DEF gone
<1>7. CASE UNCHANGED written /\ part' = part + n /\ n < Len(Rest)
  <2> DEFINE rest == SubSeq(Rest, n + 1, Len(Rest))
  <2>1. /\ rest \in Seq(Nat) /\ Len(rest) = Len(Rest) - n
        /\ \A i \in 1 .. Len(Rest) - n : rest[i] = Rest[n + i]
    BY <1>2, RestOf
  <2>2. ASSUME NEW m, m = written + 1
        PROVE  Part(m)' = rest
    <3>1. /\ Buffer \in Seq(Nat) /\ part \in 0 .. Len(Buffer)
          /\ Len(Rest) = Len(Buffer) - part
      BY <1>1, RestIs
    <3>2. Part(m)' = SubSeq(Buffer, (part + n) + 1, Len(Buffer))
      BY <1>1, <1>7, <2>2 DEF Part, Buffer
    <3> HIDE DEF Buffer, N
    <3>3. SubSeq(Buffer, (part + n) + 1, Len(Buffer)) = rest
      <4>1. part + n \in 0 .. Len(Buffer)
        BY <1>2, <1>7, <3>1
      <4>2. /\ SubSeq(Buffer, (part + n) + 1, Len(Buffer)) \in Seq(Nat)
            /\ Len(SubSeq(Buffer, (part + n) + 1, Len(Buffer)))
                 = Len(Buffer) - (part + n)
            /\ \A i \in 1 .. Len(Buffer) - (part + n) :
                 SubSeq(Buffer, (part + n) + 1, Len(Buffer))[i]
                   = Buffer[(part + n) + i]
        BY <3>1, <4>1, RestOf
      <4>3. Len(Buffer) - (part + n) = Len(Rest) - n
        BY <1>2, <3>1
      <4>4. \A i \in 1 .. Len(Rest) - n : rest[i] = Buffer[(part + n) + i]
        <5>1. SUFFICES ASSUME NEW i \in 1 .. Len(Rest) - n
                       PROVE  rest[i] = Buffer[(part + n) + i]
          OBVIOUS
        <5>2. n + i \in 1 .. Len(Rest) /\ part + (n + i) = (part + n) + i
          BY <1>2, <3>1
        <5>3. Rest[n + i] = Buffer[part + (n + i)]
          BY <1>1, <5>2, RestIs
        <5>4. QED
          BY <2>1, <5>2, <5>3
      <4> DEFINE tail == SubSeq(Buffer, (part + n) + 1, Len(Buffer))
      <4> HIDE DEF tail, rest
      <4>5. /\ tail \in Seq(Nat) /\ rest \in Seq(Nat) /\ Len(tail) = Len(rest)
            /\ \A i \in 1 .. Len(rest) : tail[i] = rest[i]
        BY <2>1, <4>2, <4>3, <4>4 DEF tail
      <4>6. tail = rest
        BY <4>5
      <4>7. QED
        BY <4>6 DEF tail
    <3>4. QED
      BY <3>2, <3>3
  <2>3. \A i \in written + 2 .. N : Part(i)' = Part(i)
    <3>1. SUFFICES ASSUME NEW i \in written + 2 .. N
                   PROVE  Part(i)' = Part(i)
      OBVIOUS
    <3>2. i # written + 1
      BY <1>3
    <3>3. QED
      BY <1>1, <1>7, <3>2 DEF Part
  <2>4. \A i : i \in written + 1 .. N <=> i = written + 1 \/ i \in written + 2 .. N
    BY <1>3
  <2> HIDE DEF rest
  <2>5. WithBackEnd' = ToSet(rest)
          \cup (UNION {ToSet(Part(i)) : i \in written + 2 .. N})
    <3>1. WithBackEnd' = UNION {ToSet(Part(i)') : i \in written + 1 .. N}
      BY <1>1, <1>7 DEF WithBackEnd
    <3>2. \A k : k \in WithBackEnd'
                <=> \E i \in written + 1 .. N : k \in ToSet(Part(i)')
      BY <3>1
    <3> HIDE DEF N
    <3>3. \A k : k \in WithBackEnd' <=> \/ k \in ToSet(rest)
               \/ \E i \in written + 2 .. N : k \in ToSet(Part(i))
      BY <2>2, <2>3, <2>4, <3>2
    <3>4. QED
      BY <3>3
  <2>6. Waiting' = ToSet(rest) \cup Later
    BY <1>1, <1>4, <2>5, WaitingNext DEF Later
  <2>7. ToSet(rest) = ToSet(Rest) \ gone
    BY <1>5 DEF rest
  <2>8. QED
    BY <1>5, <1>d, <1>w, <2>6, <2>7 DEF gone
<1>8. QED
  BY <1>6, <1>7

\* The first of the rest are the first of what waits.
LEMMA FirstWaiting ==
  ASSUME LogInv, Writing, NEW n \in 1 .. Len(Rest)
  PROVE  LET gone == {Rest[i] : i \in 1 .. n} IN
         /\ Rest[n] \in Waiting /\ Rest[n] \in Nat \ {0} /\ Rest[1] \in Nat \ {0}
         /\ gone \subseteq Waiting /\ Waiting \subseteq Nat
         /\ Rest[1] <= Rest[n]
         /\ \A k \in Waiting : k \in gone <=> k <= Rest[n]
         /\ \A k \in Waiting : Rest[1] <= k
<1> DEFINE r == Rest
           m == Len(r)
           gone == {r[i] : i \in 1 .. n}
<1>1. /\ r \in Seq(Nat) /\ m \in Nat /\ DOMAIN r = 1 .. m /\ n \in 1 .. m
      /\ Waiting = ToSet(r) \cup Later
      /\ \A i, j \in 1 .. m : i < j => r[i] < r[j]
      /\ \A j \in ToSet(r) : \A k \in Later : j < k
      /\ ToSet(r) \subseteq Nat \ {0} /\ Later \subseteq Nat
  <2>1. /\ r \in Seq(Nat) /\ Ordered!Ascending(r)
        /\ Waiting = ToSet(r) \cup Later
        /\ \A j \in ToSet(r) : \A k \in Later : j < k
        /\ ToSet(r) \subseteq Nat \ {0} /\ Later \subseteq Nat
    BY RestIs, RestWaits DEF LogInv
  <2>2. DOMAIN r = 1 .. m /\ m \in Nat
    BY <2>1
  <2>3. QED
    BY <2>1, <2>2 DEF Ordered!Ascending
<1> HIDE DEF r, m
<1>2. \A i \in 1 .. m : r[i] \in ToSet(r) /\ r[i] \in Nat \ {0}
  BY <1>1 DEF ToSet
<1>3. 1 \in 1 .. m /\ \A i \in 1 .. n : i \in 1 .. m
  BY <1>1
<1>4. gone \subseteq ToSet(r)
  BY <1>2, <1>3
<1>5. \A i, j \in 1 .. m : i <= j => r[i] <= r[j]
  <2>1. SUFFICES ASSUME NEW i \in 1 .. m, NEW j \in 1 .. m, i <= j
                 PROVE  r[i] <= r[j]
    OBVIOUS
  <2>2. CASE i = j
    BY <1>2, <2>2
  <2>3. CASE i < j
    BY <1>1, <1>2, <2>3
  <2>4. QED
    BY <1>1, <2>1, <2>2, <2>3
<1>6. ASSUME NEW k \in ToSet(r)
      PROVE  (k \in gone <=> k <= r[n]) /\ r[1] <= k
  <2>1. PICK i \in 1 .. m : k = r[i]
    BY <1>1 DEF ToSet
  <2>2. r[1] <= k
    BY <1>1, <1>3, <1>5, <2>1
  <2>3. CASE i \in 1 .. n
    BY <1>1, <1>3, <1>5, <2>1, <2>2, <2>3
  <2>4. CASE i \notin 1 .. n
    <3>1. n < i
      BY <1>1, <2>1, <2>4
    <3>2. r[n] < k /\ k \in Nat /\ r[n] \in Nat
      BY <1>1, <1>2, <2>1, <3>1
    <3>3. \A j \in 1 .. n : r[j] <= r[n] /\ r[j] \in Nat
      BY <1>1, <1>2, <1>3, <1>5
    <3>4. k \notin gone
      BY <3>2, <3>3
    <3>5. QED
      BY <2>2, <3>2, <3>4
  <2>5. QED
    BY <2>3, <2>4
<1>7. ASSUME NEW k \in Later
      PROVE  k \notin gone /\ ~(k <= r[n]) /\ r[1] <= k
  <2>1. /\ k \in Nat /\ r[n] < k /\ r[1] < k /\ r[n] \in Nat /\ r[1] \in Nat
        /\ \A j \in 1 .. n : r[j] < k /\ r[j] \in Nat
    BY <1>1, <1>2, <1>3
  <2>2. QED
    BY <2>1
<1> HIDE DEF gone
<1>8. /\ \A k \in Waiting : k \in gone <=> k <= r[n]
      /\ \A k \in Waiting : r[1] <= k
  BY <1>1, <1>6, <1>7
<1>9. /\ r[n] \in Waiting /\ r[n] \in Nat \ {0} /\ r[1] \in Nat \ {0}
      /\ gone \subseteq Waiting /\ Waiting \subseteq Nat
      /\ r[1] <= r[n]
  BY <1>1, <1>2, <1>3, <1>4, <1>8
<1>10. QED
  BY <1>8, <1>9 DEF gone, r

\* What a sequence has been given.
LEMMA Given ==
  ASSUME NEW S, NEW r \in Seq(S), NEW s \in Seq(S)
  PROVE  SubSeq(r \o s, Len(r) + 1, Len(r \o s)) = s
<1> DEFINE t == r \o s
           u == SubSeq(t, Len(r) + 1, Len(t))
<1>1. /\ t \in Seq(S) /\ Len(t) = Len(r) + Len(s) /\ Len(r) \in 0 .. Len(t)
      /\ \A i \in 1 .. Len(s) : t[Len(r) + i] = s[i]
  OBVIOUS
<1> HIDE DEF t
<1>2. /\ u \in Seq(S) /\ Len(u) = Len(t) - Len(r)
      /\ \A i \in 1 .. Len(t) - Len(r) : u[i] = t[Len(r) + i]
  BY <1>1, RestOf
<1>3. Len(t) - Len(r) = Len(s)
  BY <1>1
<1> HIDE DEF u
<1>4. /\ Len(u) = Len(s)
      /\ \A i \in 1 .. Len(s) : u[i] = s[i]
  BY <1>1, <1>2, <1>3
<1>e. u = s
  BY <1>2, <1>4
<1>5. QED
  BY <1>e DEF u, t

\* What fwrite is given is stored, and what it refuses is lost.
LEMMA WriteMaps ==
  ASSUME LogInv, WriteStep
  PROVE  [Ordered!Next]_(Ordered!vars)
<1> USE DEF LogInv, BufferInv
<1>1. /\ Writing
      /\ Rest \in Seq(Nat) /\ DOMAIN Rest = 1 .. Len(Rest) /\ Len(Rest) \in Nat
      /\ Ordered!Ascending(Rest) /\ file \in Seq(Nat)
  <2>1. Writing
    BY DEF WriteStep, WriteBuffer, WritePart, WriteFails
  <2>2. Rest \in Seq(Nat) /\ file \in Seq(Nat)
    BY <2>1, RestIs DEF TypeOK
  <2>3. Ordered!Ascending(Rest)
    BY <2>1, RestWaits
  <2>4. DOMAIN Rest = 1 .. Len(Rest) /\ Len(Rest) \in Nat
    BY <2>2
  <2>5. QED
    BY <2>1, <2>2, <2>3, <2>4
<1>2. appended' = appended /\ dropped' = dropped
  BY DEF WriteStep, WriteBuffer, WritePart, WriteFails, WriteStays, log
<1>3. ASSUME NEW n \in 1 .. Len(Rest), file' = file \o SubSeq(Rest, 1, n),
             Waiting' = Waiting \ {Rest[i] : i \in 1 .. n}, lost' = lost
      PROVE  Ordered!Next
  <2> DEFINE given == SubSeq(Rest, 1, n)
             gone == {Rest[i] : i \in 1 .. n}
  <2>1. /\ given \in Seq(Nat) /\ DOMAIN given = 1 .. n
        /\ \A i \in 1 .. n : given[i] = Rest[i] /\ i \in DOMAIN Rest
    <3>1. n \in 0 .. Len(Rest) /\ \A i \in 1 .. n : i \in 1 .. Len(Rest)
      BY <1>1
    <3>2. QED
      BY <1>1, <3>1
  <2>2. Ordered!Ascending(given)
    BY <1>1, <2>1 DEF Ordered!Ascending
  <2>3. ToSet(given) = gone
    BY <2>1 DEF ToSet
  <2>4. SubSeq(file', Len(file) + 1, Len(file')) = given
    BY <1>1, <1>3, <2>1, Given
  <2> HIDE DEF given, gone
  <2>5. /\ Rest[n] \in Waiting
        /\ gone \subseteq Waiting /\ Waiting \subseteq Nat
        /\ \A k \in Waiting : k \in gone <=> k <= Rest[n]
        /\ Rest[n] \in Nat
    BY <1>1, FirstWaiting DEF gone
  <2>6. Waiting' = Waiting \ gone
    BY <1>3 DEF gone
  <2>7. Waiting' = {k \in Waiting : k > Rest[n]}
    <3>1. \A k \in Waiting : k \notin gone <=> k > Rest[n]
      BY <2>5
    <3>2. QED
      BY <2>6, <3>1
  <2>8. ToSet(given) = Waiting \ Waiting'
    BY <2>3, <2>5, <2>6
  <2>9. file' = file \o given
    BY <1>3 DEF given
  <2>10. Ordered!Store(Rest[n])
    <3>1. dropped' \cup lost' = dropped \cup lost
      BY <1>2, <1>3
    <3>2. Ordered!ToSet(given) = Waiting \ Waiting'
      BY <2>8 DEF ToSet, Ordered!ToSet
    <3> HIDE DEF LogInv, BufferInv, Rest
    <3>3. QED
      BY <1>2, <2>2, <2>4, <2>7, <2>9, <3>1, <3>2 DEF Ordered!Store
  <2>11. QED
    BY <2>5, <2>10 DEF Ordered!Next
<1>4. CASE WriteBuffer
  <2>1. file' = file \o Rest /\ Taken /\ lost' = lost
    BY <1>4 DEF WriteBuffer, Taken
  <2>2. Waiting' = Waiting \ {Rest[i] : i \in 1 .. Len(Rest)}
    <3>1. Len(Rest) \in 0 .. Len(Rest)
      BY <1>1
    <3>2. QED
      BY <2>1, <3>1, GivenAway
  <2>3. CASE Len(Rest) = 0
    <3>1. file' = file
      BY <1>1, <2>1, <2>3
    <3>2. Waiting' = Waiting
      BY <2>2, <2>3
    <3>3. QED
      BY <1>2, <2>1, <3>1, <3>2 DEF Ordered!vars
  <2>4. CASE Len(Rest) # 0
    <3>1. Len(Rest) \in 1 .. Len(Rest) /\ SubSeq(Rest, 1, Len(Rest)) = Rest
      BY <1>1, <2>4
    <3>2. QED
      BY <1>3, <2>1, <2>2, <3>1
  <2>5. QED
    BY <2>3, <2>4
<1>5. CASE WritePart
  <2>1. PICK n \in 1 .. Len(Rest) - 1 :
          file' = file \o SubSeq(Rest, 1, n) /\ part' = part + n
    BY <1>5 DEF WritePart
  <2>2. n \in 0 .. Len(Rest) /\ n \in 1 .. Len(Rest) /\ n < Len(Rest)
    BY <1>1, <2>1
  <2>3. written' = written /\ lost' = lost
    BY <1>5 DEF WritePart
  <2>4. Waiting' = Waiting \ {Rest[i] : i \in 1 .. n}
    BY <2>1, <2>2, <2>3, GivenAway
  <2>5. QED
    BY <1>3, <2>1, <2>2, <2>3, <2>4
<1>6. CASE WriteFails
  <2> DEFINE n == Len(Rest)
             gone == {Rest[i] : i \in 1 .. n}
  <2>1. /\ Rest # <<>> /\ lost' = lost \cup ToSet(Rest) /\ file' = file
        /\ Taken
    BY <1>6 DEF WriteFails, Taken
  <2>2. n \in 0 .. n /\ n \in 1 .. n /\ n \in Nat
    BY <1>1, <2>1
  <2>3. Waiting' = Waiting \ gone
    BY <2>1, <2>2, GivenAway
  <2>4. ToSet(Rest) = gone
    BY <1>1 DEF ToSet
  <2>5. /\ Rest[n] \in Waiting /\ Rest[n] \in Nat \ {0} /\ Rest[1] \in Nat \ {0}
        /\ gone \subseteq Waiting /\ Waiting \subseteq Nat
        /\ Rest[1] <= Rest[n]
        /\ \A k \in Waiting : k \in gone <=> k <= Rest[n]
        /\ \A k \in Waiting : Rest[1] <= k
    BY <1>1, <2>2, FirstWaiting
  <2> DEFINE first == Rest[1] - 1
             last == Rest[n]
  <2> HIDE DEF n, gone
  <2>6. first \in 0 .. last - 1
    BY <2>5
  <2>7. \A k \in Waiting : k \notin gone <=> (k <= first \/ k > last)
    BY <2>5
  <2> HIDE DEF first, last
  <2>8. Waiting' = {k \in Waiting : k <= first \/ k > last}
    BY <2>3, <2>7
  <2>9. dropped' \cup lost' = (dropped \cup lost) \cup (Waiting \ Waiting')
    BY <1>2, <2>1, <2>3, <2>4, <2>5
  <2>10. Ordered!Lose(first, last)
    BY <1>2, <2>1, <2>8, <2>9 DEF Ordered!Lose
  <2>11. last \in Waiting
    BY <2>5 DEF last
  <2>12. QED
    BY <2>6, <2>10, <2>11 DEF Ordered!Next
<1>7. QED
  BY <1>4, <1>5, <1>6 DEF WriteStep

\* A run of characters starts with its least and ends with its greatest.
LEMMA RunBounds ==
  ASSUME NEW s \in Seq(Nat), s # <<>>, Run(s), NEW k \in ToSet(s)
  PROVE  s[1] <= k /\ k <= s[Len(s)] /\ s[1] \in Nat \ {0} /\ k \in Nat
<1>1. PICK i \in 1 .. Len(s) : k = s[i]
  BY DEF ToSet
<1>2. Len(s) \in 1 .. Len(s) /\ Len(s) \in Nat
  <2>1. Len(s) # 0 /\ Len(s) \in Nat
    OBVIOUS
  <2>2. QED
    BY <2>1
<1>3. /\ k = s[1] + (i - 1) /\ s[Len(s)] = s[1] + (Len(s) - 1)
      /\ s[1] \in Nat \ {0}
  BY <1>1, <1>2 DEF Run
<1>4. QED
  BY <1>2, <1>3

\* The overload rule throws away one stretch of what waits.
LEMMA DropMaps ==
  ASSUME LogInv, DropExcess
  PROVE  [Ordered!Next]_(Ordered!vars)
<1> USE DEF LogInv, BufferInv
<1> DEFINE w == buffersToWrite
           N == Len(w)
           D == CharsOf(SubSeq(w, 3, N))
           Two == CharsOf(SubSeq(w, 1, 2))
<1>1. /\ written = 0 /\ part = 0 /\ written' = 0 /\ part' = 0 /\ BufferInv'
      /\ appended' = appended /\ file' = file /\ lost' = lost
      /\ content' = content /\ buffers_' = buffers_
      /\ currentBuffer_' = currentBuffer_
      /\ \/ UNCHANGED <<buffersToWrite, dropped>>
         \/ N > 2 /\ w' = SubSeq(w, 1, 2) /\ dropped' = dropped \cup D
  BY DropBuffers DEF DropExcess, SpareInv, Writing, shared, disk, log
<1>2. /\ w \in Seq(Bufs) /\ N \in Nat /\ DOMAIN w = 1 .. N
      /\ \A i \in 1 .. N : w[i] \in Bufs
      /\ currentBuffer_ \in Bufs /\ buffers_ \in Seq(Bufs)
  BY DEF TypeOK, HeldInv
<1>3. /\ Waiting = CharsOf(w) \cup WithThreads
      /\ Waiting' = CharsOf(w)' \cup WithThreads'
      /\ WithThreads' = WithThreads
  BY <1>1, NoneGiven, WaitingNext DEF WithThreads, CharsOf
<1>4. CASE UNCHANGED <<buffersToWrite, dropped>>
  <2>1. CharsOf(w)' = CharsOf(w)
    BY <1>1, <1>4 DEF CharsOf
  <2>2. QED
    BY <1>1, <1>3, <1>4, <2>1 DEF Ordered!vars
<1>5. CASE N > 2 /\ w' = SubSeq(w, 1, 2) /\ dropped' = dropped \cup D
  <2>1. CharsOf(w)' = Two
    BY <1>1, <1>5 DEF CharsOf
  <2>2. \A b \in Bufs : /\ content[b] \in Seq(Nat)
                      /\ DOMAIN content[b] = 1 .. Len(content[b])
    BY DEF TypeOK
  <2>3. /\ CharsOf(w) = UNION {ToSet(content[w[i]]) : i \in 1 .. N}
        /\ Two = UNION {ToSet(content[w[i]]) : i \in 1 .. 2}
        /\ D = UNION {ToSet(content[w[i]]) : i \in 3 .. N}
    <3>1. CharsOf(w) = UNION {ToSet(content[w[i]]) : i \in 1 .. N}
      BY <1>2, CharsOfIs
    <3>2. Two = UNION {ToSet(content[w[i]]) : i \in 1 .. 2}
      <4> DEFINE s == SubSeq(w, 1, 2)
      <4>1. 2 \in 0 .. Len(w)
        BY <1>2, <1>5
      <4>2. s \in Seq(Bufs) /\ Len(s) = 2 /\ \A i \in 1 .. 2 : s[i] = w[i]
        BY <1>2, <4>1, Shortened
      <4> HIDE DEF s, w
      <4>3. CharsOf(s) = UNION {ToSet(content[s[i]]) : i \in 1 .. 2}
        BY <4>2, CharsOfIs
      <4>4. QED
        BY <4>2, <4>3 DEF s
    <3>3. D = UNION {ToSet(content[w[i]]) : i \in 3 .. N}
      <4> DEFINE s == SubSeq(w, 3, N)
      <4>1. 2 \in 0 .. Len(w) /\ 2 + 1 = 3
        BY <1>2, <1>5
      <4>2. /\ s \in Seq(Bufs) /\ Len(s) = N - 2
            /\ \A i \in 1 .. N - 2 : s[i] = w[2 + i]
        BY <1>2, <4>1, RestOf
      <4> HIDE DEF s, w, N
      <4>3. D = UNION {ToSet(content[s[i]]) : i \in 1 .. N - 2}
        BY <4>2, CharsOfIs DEF s
      <4>4. /\ \A i \in 1 .. N - 2 : 2 + i \in 3 .. N
            /\ \A i \in 3 .. N : i - 2 \in 1 .. N - 2 /\ 2 + (i - 2) = i
        BY <1>2
      <4>5. \A k : (\E i \in 1 .. N - 2 : k \in ToSet(content[s[i]]))
                    <=> (\E i \in 3 .. N : k \in ToSet(content[w[i]]))
        <5>1. \A i \in 1 .. N - 2 : s[i] = w[2 + i]
          BY <4>2
        <5>2. \A i \in 3 .. N : s[i - 2] = w[i]
          BY <4>4, <5>1
        <5>3. QED
          BY <4>4, <5>1, <5>2
      <4> HIDE DEF D
      <4>6. QED
        BY <4>3, <4>5
    <3>4. QED
      BY <3>1, <3>2, <3>3
  <2>4. /\ \A k : k \in CharsOf(w) <=> \E i \in 1 .. N : k \in ToSet(content[w[i]])
        /\ \A k : k \in Two <=> \E i \in 1 .. 2 : k \in ToSet(content[w[i]])
        /\ \A k : k \in D <=> \E i \in 3 .. N : k \in ToSet(content[w[i]])
    BY <2>3
  <2> HIDE DEF D, Two
  <2>5. CharsOf(w) = Two \cup D
    <3>1. \A i : i \in 1 .. N <=> i \in 1 .. 2 \/ i \in 3 .. N
      BY <1>2, <1>5
    <3> HIDE DEF N, w
    <3>2. QED
      BY <2>4, <3>1
  <2>6. Waiting = Two \cup D \cup WithThreads /\ Waiting' = Two \cup WithThreads
    BY <1>3, <2>1, <2>5
  <2>7. CASE D = {}
    <3>1. Waiting' = Waiting /\ dropped' = dropped
      BY <1>5, <2>6, <2>7
    <3>2. QED
      BY <1>1, <3>1 DEF Ordered!vars
  <2>8. CASE D # {}
    <3>1. PICK L \in 3 .. N :
            /\ content[w[3]] # <<>> /\ content[w[L]] # <<>>
            /\ \A i \in 3 .. N : content[w[i]] # <<>> => i <= L
      <4>1. /\ \A i \in 1 .. N : i # N => content[w[i]] # <<>>
        BY <1>2 DEF OrderInv
      <4>2. CASE content[w[N]] # <<>>
        <5>1. 3 \in 1 .. N /\ N \in 3 .. N
          BY <1>2, <1>5
        <5>2. content[w[3]] # <<>>
          BY <4>1, <4>2, <5>1
        <5>3. \A i \in 3 .. N : i <= N
          BY <1>2
        <5>4. QED
          BY <4>2, <5>1, <5>2, <5>3
      <4>3. CASE content[w[N]] = <<>>
        <5>1. N # 3
          <6>1. SUFFICES ASSUME N = 3
                         PROVE  D = {}
            BY <2>8
          <6>2. \A i \in 3 .. N : content[w[i]] = <<>>
            BY <4>3, <6>1
          <6>3. \A i \in 3 .. N : ToSet(content[w[i]]) = {}
            BY <6>2 DEF ToSet
          <6>4. QED
            BY <2>4, <6>3
        <5>n. N \in Nat /\ N > 3
          BY <1>2, <1>5, <5>1
        <5> HIDE DEF N
        <5>2. 3 \in 1 .. N /\ N - 1 \in 3 .. N /\ N - 1 \in 1 .. N /\ N - 1 # N
          BY <5>n
        <5>3. content[w[3]] # <<>> /\ content[w[N - 1]] # <<>>
          BY <4>1, <5>1, <5>2
        <5>4. \A i \in 3 .. N : content[w[i]] # <<>> => i <= N - 1
          <6>1. \A i \in 3 .. N : i # N => i <= N - 1
            BY <5>n
          <6>2. QED
            BY <4>3, <6>1
        <5>5. QED
          BY <5>2, <5>3, <5>4
      <4>4. QED
        BY <4>2, <4>3
    <3> DEFINE s == content[w[3]]
               t == content[w[L]]
               first == s[1]
               last == t[Len(t)]
    <3>2. /\ 3 \in 1 .. N /\ L \in 1 .. N
          /\ \A i \in 1 .. 2 : i \in 1 .. N /\ i < 3
          /\ \A i \in 3 .. N : i \in 1 .. N /\ (i = 3 \/ 3 < i)
      BY <1>2, <1>5
    <3>3. /\ s \in Seq(Nat) /\ s # <<>> /\ Run(s)
          /\ t \in Seq(Nat) /\ t # <<>> /\ Run(t)
      BY <1>2, <2>2, <3>1, <3>2 DEF RunInv
    <3>4. /\ 1 \in DOMAIN s /\ Len(t) \in DOMAIN t
          /\ first \in Nat \ {0} /\ last \in Nat
          /\ first \in ToSet(s) /\ last \in ToSet(t)
      <4> HIDE DEF s, t
      <4>1. 1 \in 1 .. Len(s) /\ Len(t) \in 1 .. Len(t)
        <5>1. Len(s) # 0 /\ Len(t) # 0 /\ Len(s) \in Nat /\ Len(t) \in Nat
          BY <3>3
        <5>2. QED
          BY <5>1
      <4>2. 1 \in DOMAIN s /\ Len(t) \in DOMAIN t
        BY <3>3, <4>1
      <4>3. QED
        BY <3>3, <4>2 DEF ToSet, Run
    <3>5. /\ \A i \in DOMAIN w : \A j \in DOMAIN w : i < j => Before(w[i], w[j])
          /\ \A i \in DOMAIN w : \A j \in DOMAIN buffers_ :
               Before(w[i], buffers_[j])
          /\ \A i \in DOMAIN w : Before(w[i], currentBuffer_)
      BY DEF OrderInv
    <3>6. \A x, y \in Bufs : Before(x, y) =>
            \A k \in ToSet(content[x]) : \A j \in ToSet(content[y]) : k < j
      BY DEF Before, ToSet
    <3>7. ASSUME NEW k \in D
          PROVE  first <= k /\ k <= last /\ k \in Nat
      <4>1. PICK i \in 3 .. N : k \in ToSet(content[w[i]])
        BY <2>4
      <4>2. i \in 1 .. N /\ w[i] \in Bufs /\ content[w[i]] \in Seq(Nat)
        BY <1>2, <2>2, <3>2
      <4>3. content[w[i]] # <<>>
        BY <4>1 DEF ToSet
      <4>4. k \in Nat
        BY <4>1, <4>2 DEF ToSet
      <4>5. first <= k
        <5>1. CASE i = 3
          BY <3>3, <4>1, <5>1, RunBounds
        <5>2. CASE 3 < i
          <6>1. first < k
            BY <1>2, <3>2, <3>4, <3>5, <3>6, <4>1, <4>2, <5>2
          <6>2. QED
            BY <3>4, <4>4, <6>1
        <5>3. QED
          BY <3>2, <5>1, <5>2
      <4>6. k <= last
        <5>1. i <= L
          BY <3>1, <4>3
        <5>2. CASE i = L
          BY <3>3, <4>1, <5>2, RunBounds
        <5>3. CASE i < L
          <6>1. k < last
            BY <1>2, <3>2, <3>4, <3>5, <3>6, <4>1, <4>2, <5>3
          <6>2. QED
            BY <3>4, <4>4, <6>1
        <5>4. QED
          BY <1>2, <4>2, <5>1, <5>2, <5>3
      <4>7. QED
        BY <4>4, <4>5, <4>6
    <3>8. ASSUME NEW k \in Two
          PROVE  k < first /\ k \in Nat
      <4>1. PICK i \in 1 .. 2 : k \in ToSet(content[w[i]])
        BY <2>4
      <4>2. i \in 1 .. N /\ i < 3 /\ w[i] \in Bufs /\ content[w[i]] \in Seq(Nat)
        BY <1>2, <2>2, <3>2
      <4>3. k \in Nat
        BY <4>1, <4>2 DEF ToSet
      <4>4. k < first
        BY <1>2, <3>2, <3>4, <3>5, <3>6, <4>1, <4>2
      <4>5. QED
        BY <4>3, <4>4
    <3>9. ASSUME NEW k \in WithThreads
          PROVE  last < k /\ k \in Nat
      <4>1. \/ k \in ToSet(content[currentBuffer_])
            \/ \E j \in DOMAIN buffers_ : k \in ToSet(content[buffers_[j]])
        BY DEF WithThreads, CharsOf, ToSet
      <4>2. PICK b \in Bufs : Before(w[L], b) /\ k \in ToSet(content[b])
        <5>1. \A j \in DOMAIN buffers_ : buffers_[j] \in Bufs
          BY <1>2
        <5>2. QED
          BY <1>2, <3>2, <3>5, <4>1, <5>1
      <4>3. content[b] \in Seq(Nat)
        BY <2>2
      <4>4. k \in Nat
        BY <4>2, <4>3 DEF ToSet
      <4>5. last < k
        BY <1>2, <3>2, <3>4, <3>6, <4>2
      <4>6. QED
        BY <4>4, <4>5
    <3>10. last \in D
      BY <2>4, <3>4
    <3>11. first <= last
      BY <3>7, <3>10
    <3> HIDE DEF first, last, s, t
    <3>12. first - 1 \in 0 .. last - 1
      BY <3>4, <3>11
    <3>13. \A k \in Waiting : k \notin D <=> k <= first - 1 \/ k > last
      <4>1. \A k \in D : ~(k <= first - 1 \/ k > last)
        BY <3>4, <3>7
      <4>2. \A k \in Two : k \notin D /\ k <= first - 1
        BY <3>4, <3>7, <3>8
      <4>3. \A k \in WithThreads : k \notin D /\ k > last
        BY <3>4, <3>7, <3>9
      <4>4. QED
        BY <2>6, <4>1, <4>2, <4>3
    <3>14. Waiting' = Waiting \ D
      <4>1. \A k \in D : k \notin Two /\ k \notin WithThreads
        BY <3>4, <3>7, <3>8, <3>9
      <4>2. QED
        BY <2>6, <4>1
    <3>15. Waiting' = {k \in Waiting : k <= first - 1 \/ k > last}
      BY <3>13, <3>14
    <3>16. dropped' \cup lost' = (dropped \cup lost) \cup (Waiting \ Waiting')
      BY <1>1, <1>5, <2>6, <3>14
    <3>17. Ordered!Lose(first - 1, last)
      BY <1>1, <3>15, <3>16 DEF Ordered!Lose
    <3>18. last \in Waiting
      BY <2>6, <3>10
    <3>19. QED
      BY <3>12, <3>17, <3>18 DEF Ordered!Next
  <2>9. QED
    BY <2>7, <2>8
<1>6. QED
  BY <1>1, <1>4, <1>5

\* The asynchronous log implements the ordered log: wherever its buffers are,
\* the file gets the characters of the lines in the order of the appends, each
\* once, and what is missing there was thrown away by the overload rule or
\* refused by fwrite, in whole stretches.
THEOREM LogImplementsOrderedLog == Spec => RefinesLog
<1>1. Init => Ordered!Init
  <2>1. SUFFICES ASSUME Init
                 PROVE  Ordered!Init
    OBVIOUS
  <2>2. Waiting = CharsOf(buffersToWrite) \cup WithThreads
    BY <2>1, InitBuffers, NoneGiven DEF Init
  <2>3. ToSet(<<>>) = {} /\ content[1] = <<>>
    BY <2>1, LogAssumption DEF ToSet, Init, Bufs
  <2>4. Waiting = {}
    BY <2>1, <2>2, <2>3 DEF CharsOf, WithThreads, Init
  <2>5. QED
    BY <2>1, <2>4 DEF Init, Ordered!Init
<1>2. LogInv /\ [Next]_vars => [Ordered!Next]_(Ordered!vars)
  <2>1. SUFFICES ASSUME LogInv, [Next]_vars
                 PROVE  [Ordered!Next]_(Ordered!vars)
    OBVIOUS
  <2>2. CASE QuietStep \/ Swap \/ Recycle
    BY <2>1, <2>2, QuietMaps DEF LogInv
  <2>3. ASSUME NEW p \in Producers, AppendFits(p) \/ AppendFull(p)
        PROVE  Ordered!Next
    BY <2>1, <2>3, AppendMaps DEF Ordered!Next
  <2>4. CASE DropExcess
    BY <2>1, <2>4, DropMaps
  <2>5. CASE WriteStep
    BY <2>1, <2>5, WriteMaps
  <2>6. QED
    BY <2>1, <2>2, <2>3, <2>4, <2>5, StepKinds
<1>3. QED
  BY <1>1, <1>2, LogInvariant, PTL DEF Spec, RefinesLog, Ordered!Spec
=============================================================================

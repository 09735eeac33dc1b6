# WebServer: models and proofs

TLA+ models of the web server in `src/`: a multi-threaded, edge-triggered epoll
reactor (one event loop per thread) that serves HTTP over keep-alive
connections, with an asynchronous log. TLC checks the models on small
instances; TLAPS proves theorems about all six systems of actions for every
value of their constants. Paths in this file are relative to `src/`.

## 1. The system

The main thread owns the listening socket and an event loop for it. It accepts
connections and deals them out, round robin, to a pool of threads that run one
event loop each. From then on a connection belongs to its loop: only the loop's
thread reads, parses, answers, times and closes it. The threads share three
things: the queue of functors of each loop, the start-up state of each thread,
and the buffers of the log.

| Component | Source | State | Operations |
|---|---|---|---|
| Event loop | `EventLoop.cpp` | `looping_`, `quit_`, `callingPendingFunctors_`, `pendingFunctors_` (mutex), an eventfd watched edge triggered | `loop`, `queueInLoop`, `runInLoop`, `quit`, `wakeup`, `handleRead`, `doPendingFunctors` |
| Epoll and channels | `Epoll.cpp`, `Channel.h` | `fd2chan_`, `fd2http_`, the kernel's interest set; per channel `events_`, `revents_`, `lastEvents_` | `epoll_add`, `epoll_mod`, `epoll_del`, `poll`, `getEventsRequest`, `handleEvents` |
| Acceptor | `Server.cpp`, `Util.cpp` | listening socket, its channel | constructor, `socket_bind_listen`, `start`, `handNewConn`, `handThisConn` |
| Timers | `Timer.cpp` | heap of nodes ordered by `expiredTime_`, `deleted_` and the held `HttpData` of each | `addTimer`, `clearReq`, `isValid`, `handleExpiredEvent`, `~TimerNode` |
| HTTP connection | `HttpData.cpp` | `inBuffer_`, `outBuffer_`, parser state, `connectionState_`, `error_`, link to its timer node | `newEvent`, `handleRead`, `handleWrite`, `handleConn`, `handleError`, `handleClose`, `seperateTimer`, `parseURI`, `parseHeaders`, `analysisRequest`, `reset` |
| Loop threads and pool | `EventLoopThread.cpp`, `EventLoopThreadPool.cpp` | `loop_` (mutex and condition), `loops_`, `next_` | `start`, `startLoop`, `threadFunc`, `getNextLoop`, destructors |
| Threads, latch, conditions | `base/Thread.cpp`, `base/CountDownLatch.cpp`, `base/Condition.h` | `started_`, `joined_`, `tid_`, `count_` | `start`, `join`, `wait`, `countDown` |
| Asynchronous log | `base/AsyncLogging.cpp` | `currentBuffer_`, `nextBuffer_`, `buffers_` (mutex and condition), the back-end's own buffers, `running_` | `append`, `threadFunc`, `stop` |
| Log front end | `base/Logging.cpp`, `base/LogStream.cpp` | a fixed buffer on the stack, `once_control_` | `operator<<`, `convert`, `once_init`, `output` |
| Log file | `base/LogFile.cpp`, `base/FileUtil.cpp` | flush counter, `FILE*` | `append`, `flush` |
| Socket helpers | `Util.cpp` | none | `readn`, `writen`, socket options |
| Main | `Main.cpp` | none | options, start-up |

How they interact:

- acceptor → pool: `getNextLoop`; acceptor → loop: `queueInLoop(newEvent)`,
  across threads, with a wake-up through the eventfd;
- loop → epoll → channel → `HttpData`: calls on the loop's thread, through
  handlers bound to the bare address of the `HttpData`;
- `HttpData` → loop → epoll → timers: `updatePoller` re-registers a connection
  and links a new timer node, `removeFromPoller` takes it out of both tables;
- timers → `HttpData`: `~TimerNode` calls `handleClose` of what it still holds;
- any thread → log: `append` under the mutex; the back-end takes all buffers by
  swapping pointers.

What is hard here, with the properties that a correct server has:

- *Wake-ups.* A functor is pushed under the mutex and the eventfd written after
  it, while the loop swaps the vector and reads the eventfd in another order. No
  functor may wait for an unrelated event (`NoLostWakeup`), none may be lost,
  repeated or overtaken (`RefinesTaskQueue`, `QueueMovesOn`).
- *Descriptor numbers are reused* by the kernel at once, on another loop too. A
  table entry that outlives its connection would hand events to a stranger
  (`TablesMatchKernel`), and a batch of channels that outlives it
  would call a dead object (`DispatchedAreAlive`).
- *Timers* are replaced at every event and deleted lazily: one too many closes a
  busy connection, one too few leaves a dead one (`OneTimer`, `NoneForgotten`,
  `NodesMatch`, `KeptHasNode`), under a clock that starts again at zero every
  10000 s: no node may close a connection early (`NeverEarly`), and one whose
  time falls behind the restart never closes it (`SweepWithinPeriod`,
  `CrossingNodesGo`).
- *Edge triggering and EPOLLONESHOT*: what is not read, or happens between the
  read and the re-registration, must be reported again (`NoMissedEdge`), and the
  cached `lastEvents_` must be what the kernel watches (`InterestFits`).
- *Parsing what has arrived so far.* A request may be cut anywhere, and the next
  one may be in the buffer already: no state of the parser may be one it stays in,
  and no header may be taken for another request's (`Settled`, `HeadersKnown`).
- *Order of answers* over partial reads and writes and resets (`AnswersInOrder`,
  `ErrorIsLast`, `PoliteAnswered`).
- *The listening socket* is edge triggered too, and open before anything else
  exists: every way out of `handNewConn` must leave it watched, with nothing in
  it that epoll does not report, and no descriptor without an owner
  (`AcceptorListens`, `DescriptorsOwned`, `ConnectionsServed`).
- *Buffers by pointer* between the threads that log (`BuffersReady`,
  `RefinesLog`), an overload rule that throws buffers away, partial writes to
  the file, and a back-end that the first `LOG` of the program starts inside
  `pthread_once` (`LinesAreWritten`, `LogReturns`).
- *Lines in fixed buffers*: numbers at the ends of their type and pieces that do
  not fit (`LinesFormatted`, `LinesWhole`).
- *Start-up hand-shakes* under spurious wake-ups, and the order of destruction,
  where `quit()` is two steps between which its loop may end (`ThreadsUsable`,
  `LoopsEndInTurn`, `StartReturns`).

`PROJECT.json` lists each hazard with its line and its properties.

## 2. The modules

### TaskQueue (abstract) and EventLoop

`TaskQueue` is what a loop promises its callers: a first-in first-out queue of
tasks, each executed once, and, as long as nobody asks the loop to quit, each
eventually. Threads, the mutex and the eventfd do not appear in it.

`EventLoop` is `EventLoop.cpp` with the threads that use it. `pc` follows the
loop thread through `loop()`: `constructed`, `check` (test of `quit_`), `poll`
(in `epoll_wait`), `handle` (dispatch), `pending` (before the swap), `run` and
`body` (between functors and inside one), `exited`. Each critical section of the
mutex is one vector operation and so one step; the write to the eventfd comes
after the unlock and is a step of its own (`posterPc`), and so is each functor.
The eventfd is a counter (`wakeupCount`) and a mark on epoll's ready list
(`wakeupEdge`). All other descriptors are one channel whose handler may call
back into the loop. `fresh`, `ran` and `quitRequested` are history.

The refinement maps the abstract queue to `functors \o pendingFunctors_`: the
local batch of `doPendingFunctors` is the older half of the queue.

### Reactor

The life of connections across the acceptor, several loops, their `Epoll`
tables, the kernel's interest sets and the descriptor numbers. One action per
step of a loop: `Poll` (`epoll_wait` and `getEventsRequest`), `HandleEvents`
(`Channel::handleEvents` through `handleConn`), `IgnoreFailure` (the early
return on EPOLLERR and EPOLLHUP), `SwapPending`, `NewEvent` (`newEvent` and
`epoll_add`, which may fail), `Expire` (`handleExpiredEvent` and `~TimerNode`),
`Destroy` (`~HttpData`, where `close()` is). `Accept` is one successful turn of
`handNewConn`. Clients send, half-close, reset and read at any time.

`epoll_mod` may fail as well (`EpollMod`): `lastEvents_` and the timer have been
set by then, the kernel keeps its old entry, and the channel is taken out of
`fd2chan_`. What the kernel reports of such an entry has no channel: `Poll`
passes over it, and when nothing else is reported `poll()` waits again
(`PollAgain`). The kernel consumes the edge all the same (`Consume`).

Time is the clock of the code: `Tick` restarts it after `Wrap` ticks, `AddTimer`
stores `clock + timeout` and `ExpiredNodes` compares with `clock`. `quiet` and
`granted` are history: how long nothing was dispatched for a connection, and how
long it was given.

The bytes are abstracted: a run of `handleRead` and `handleWrite` is known by its
outcome (`Outcomes`), every combination of error, end of input, output left,
EPOLLOUT asked for (with output left, or without after an overwriting, as
`HttpSession` shows), request incomplete and keep-alive that what was reported
allows. The queue
between acceptor and loop is a sequence (`pending`), which the refinement above
justifies; a timer node that was marked deleted has no further effect, which is
`NodesMatch` of `TimerManager`, and is dropped at once.

### TimerManager

The heap with lazy deletion under the code's clock. `now` is true time, which the
code does not see; `clock` is `now % Wrap`, from which the constructor computes
`expiredTime_` and `isValid` its test. A sweep is several steps, in the order in
which the heap gives its nodes; nodes of equal time come out in any order, and
the sweep ends at the first on top that is valid. A connection is re-registered
(`RestartTimer`), closed (`SeparateAndClose`) or left open without a timer
(`SeparateAndLeave`, `HttpData.cpp:303-304`), after which its later events
separate nothing. `due` is history: when the time-out has truly passed.

### HttpParser

`parseURI` and `parseHeaders` as operators on the text in `inBuffer_`. Text is a
sequence of tokens: what the parsers compare or count is one (`\r`, `\n`, `:`,
the space, the first character of the method), what they never look into is one
as well (the rest of the request line, a header's name, its value). Each token
knows the request it comes from. `Step` is one round of the loop of
`parseHeaders`, state by state; `parseHeaders` keeps what the code keeps, so what
the code does wrong is what the model does: it consumes the character after the
blank line, it gives an incomplete head back from the last line end on without
taking `hState_` back, its positions start at -1 in each call, and line ends
before the first header are skipped, the blank line of a request without headers
included. `Request` is what clients send.

### HttpSession

The data of one connection. Input is text, which may arrive in two parts, cut
after any token; output is a sequence of chunks, and the socket takes `Room`
chunks before its client reads. `handleRead` is split into steps (`Read`,
`ParseURI`, `ParseHeaders`, `RefuseBody` and `ReceiveBody`, `AnalysisRequest`,
`Flush...`), because the client goes on sending, reading, half-closing and
resetting meanwhile, which is when an edge could be missed. After a reset reads
and writes fail (`ReadFails`, `SendFails`) and epoll reports EPOLLERR, on which
`handleEvents` returns early (`IgnoreFailure`). `parsed` stands for `method_` and
`fileName_`: the request they were taken from.

### LogStream, OrderedLog (abstract) and AsyncLogging

`LogStream` is the log front end as operators: a `LOG` statement is a sequence of
pieces (`Piece`), `Insert` is `operator<<` with its two tests for room, and
`Line` what is in the stream after the last piece. `convert` works
with C++'s division on numbers of `Width` bits; `WellFormed` states, with none of
that arithmetic, what a line should look like.

`AsyncLogging` is the threads that log and the back-end. A thread formats its line
(`Log`), passes `pthread_once` (`OnceInit`, `OnceDone`) and calls `append`, one
critical section and so one step. The back-end goes through a round of
`threadFunc` step by step: wait with time-out, swap, the overload rule, one
`LogFile::append` per buffer, taking two buffers back, flush. `fwrite` may take
part of what it is given, which `AppendFile::append` repeats, or nothing, which
gives the rest of the buffer up; `fflush` may fail, which leaves what it did not
write in stdio's buffer, and nobody looks (`Flush`). `file` is what stdio was
given, `flushed` how much of it is in the file. Buffers are numbered objects, and every pointer of the
code is a variable that holds a number; a character is the number of its place in
the log. `pthread_create` may fail.

`OrderedLog` is what the log promises: characters reach the file in the order in
which they were appended, each once, and stretches of what waits may be thrown
away, but are accounted for. There are no buffers in it, only the set of the
characters that wait. The refinement maps it to what is in the rest of the buffers
being written, the full ones and the current one (`Unwritten`, `Left`), so a swap,
the recycling of buffers and a round of the back-end without anything to write are
steps that change nothing.

### LoopThread and Server

`LoopThread` is the start-up and destruction of the pool: the main thread goes
through `Thread::start`, the latch, `startLoop` and its condition, deals out
connections and destroys one `EventLoopThread` after the other; each thread
goes through `runInThread` and `threadFunc`. `pthread_create` may fail and
condition variables may wake for no reason. `EventLoop::quit` is two steps:
`QuitLoop` sets `quit_`, and from then on the loop may leave in a round that
something else has woken, and its thread end; `WakeLoop` is the rest, made on
the loop whether or not it still exists.

`Server` extends it with the acceptor: the constructor with
`socket_bind_listen`, `start()`, and the turns of the main loop, each of them
`Poll`, some turns of the loop in `handNewConn` (`Accept`, or a way out of it:
`BacklogEmpty`, `AcceptFails`, `NonBlockingFails`) and `HandThisConn`.
`epoll_ctl` may fail for the acceptor too, in `epoll_add` and in `epoll_mod`
(`EpollCtl`).
Connections arrive at any moment from the constructor on. Descriptors are the
lowest free numbers, as in the kernel, and one is refused at `MAXFDS`. `owner`
and `queued` follow a descriptor from `accept` over the queue of its loop to its
`close`. Every step of `LoopThread` is a step of `Server`, which is what TLC
runs.

### How they compose

`EventLoop` refines `TaskQueue`, and `AsyncLogging` `OrderedLog`. `Server` is composed with `LoopThread` by
extending it; `AsyncLogging` uses `LogStream`, and `HttpSession` `HttpParser`, as
operators. `Reactor` stands on `EventLoop` (`pending` is that queue), on
`TimerManager` (one live node a connection), on `HttpSession` (which outcomes
exist) and on `Server` (`Accept`).

The `MC` modules extend these for TLC; the `.cfg` files give the constants.

Definitions that a comment calls a seeded fault are altered forms of the
definition that follows them. No specification uses them. Each stands for a
plausible mistake in the code, and with it in place of the original the property
named in `PROJECT.json` fails: that is how we know the property looks at the code.

## 3. The runs

| Run | Module, cfg | What it asks |
|---|---|---|
| `event_loop` | MCEventLoop, EventLoop.cfg | 2 posting threads, 3 functors. No lost wake-up, FIFO queue, progress, quit ends a running loop. |
| `event_loop_quit` | MCEventLoop, EventLoopQuit.cfg | *violated:* every quit() ends the loop. |
| `reactor` | MCReactor, Reactor.cfg | 2 connections, 2 descriptor numbers, 1 loop, failing `epoll_ctl`: tables, kernel, timers and lifetimes agree. |
| `reactor_wrap` | MCReactor, ReactorWrap.cfg | *violated:* nodes whose time falls behind the restart of the clock go away. |
| `reactor_half_close` | MCReactor, ReactorHalfClose.cfg | *violated:* output left at the end of the input is sent. |
| `reactor_idle` | MCReactor, ReactorIdle.cfg | *violated:* nodes whose time is up go away, on a loop that nobody wakes. |
| `timer` | MCTimerManager, TimerManager.cfg | 2 connections, 2 time-outs, a clock that starts again twice. |
| `async_logging` | MCAsyncLogging, AsyncLogging.cfg | 2 threads, 4 lines, overload above 2 buffers, one short or failing `fwrite` or failing `fflush`: an ordered log. |
| `log_assert` | MCAsyncLogging, LogAssert.cfg | *violated:* the assertion after the swap. |
| `http_session` | MCHttpSession, HttpSession.cfg | 5 kinds of client, 7 of request, 3 requests (2 of the client that sends ahead and is cut), room for one chunk. |
| `http_refused` | MCHttpSession, HttpRefused.cfg | *violated:* no pipelined request is refused. |
| `server` | MCServer, Server.cfg | Pool of 3 threads, 4 connections, one of them refused, failing calls. |

Bounds, and why they are enough:

- `EventLoop`: a lost wake-up needs one thread between its push and its write
  while another's write is consumed: two posters. Three tasks put one in the
  batch, one in the queue and one in a functor's hands.
- `Reactor`: reuse of a number needs two connections, and two numbers let both
  live at once, too. TLC has them on one loop: with `epoll_ctl` failing at any
  time, two loops are more than it gets through. That a number is reused on
  another loop is covered by the theorems, which are for any number of loops.
  For the same reason TLC looks only into states in which at most one connection
  is in trouble (`OneInTrouble`: its client has ended its input or reset, or its
  channel is gone after a failing `epoll_ctl`); the theorems have no such bound.
  Time-outs of 1, 1 and 2 ticks keep the two lengths the code tells apart, and
  `Wrap` 2 lets every time-out fall behind a restart of the clock. `reactor` uses
  the symmetry of connections and numbers, the liveness runs do not. Each
  connection lives once; a dead object is never used again by the code.
- `TimerManager`: `Wrap` 3 and `MaxNow` 6 let a node be made in one period of the
  clock, and be looked at in the next and the one after. Time-outs are shorter than the
  period, as in the code (300 s at most, against 10000 s). `MaxNow` bounds time.
- `AsyncLogging`: `Limit` 2 stands for 25. A buffer takes one or two lines
  (`Capacity` 8, lines of 3 to 5 characters), so four lines (`MaxLines`) can be
  three buffers behind, which is over the limit, and one after it. `FlushEveryN` 2
  flushes in the middle of a round and not at its end. One fault of
  `fwrite` or `fflush` (`MaxFaults`) comes at any character of any buffer, or at
  any flush. `NumBufs` 6 is enough for no step to be
  blocked for want of a buffer. The front end has `Width` 8, `kMaxNumericSize` 5
  (the longest number of 8 bits, with its sign and its terminator; 32 has room for
  any type of the code) and `SIZE` 6; the three statements are a number that
  leaves no room for the next, the least number of the type, which leaves none
  for the line end, and a string that does not fit before a number that does.
- `HttpSession`: three requests put an answered one, one in progress and one
  behind it. `Room` 1 makes every answer of two chunks a partial write. The kinds
  of request are one for each way through `analysisRequest`, one without headers,
  and a POST with and without a Content-length. The kinds of client are one that
  waits, one that waits but may reset at any time, one that sends ahead, one of
  whose requests one (`MaxSplits`) arrives in two pieces, and one that sends
  ahead *and* is cut; the third and the fourth may half-close. The last one sends
  two requests (`MaxAheadAndCut`), which is what it takes for one answer to be
  assigned over another; the theorems are for any number.
- `Server`: three threads so that the round robin is neither constant nor an
  alternation. `MAXFDS` 3 leaves two descriptors below it, so that a third
  connection that is open at the same time is refused; the fourth comes after.

Runs switch the deadlock check off where the system may stop: a loop that has
quit, a log that has stopped, clients that have nothing more to send, a main
thread that waits for a thread that was never created.

Fairness, and why the code justifies it:

- `EventLoop`: weak fairness of the loop thread and of a poster that has pushed
  and has still to write: threads that are not blocked run. Nothing is assumed of
  posters otherwise, nor of I/O.
- `Reactor`: weak fairness of each loop's thread and of the clock, none of
  clients. `BusySpec` also assumes that `epoll_wait` keeps returning for some
  other channel of the loop: `reactor_wrap` and `reactor_half_close` assume it,
  because timers are looked at only then, and `reactor_idle` shows what happens
  without it.
- `AsyncLogging`: weak fairness of the back-end, which includes the time-out of
  its wait, and of a thread inside a `LOG` statement. Nobody need log.
- `HttpSession`: weak fairness of the loop's thread and of a client that takes
  what it is sent. None of sending, none of the timer.
- `Server`: weak fairness of the main thread, while it starts the pool and in the
  turns of its loop, and of the loop threads with the functors queued in them.
  None of arrivals, failures, closing or shutting down.

## 4. What the checks show

The passing runs: within the bounds, the mechanisms above do what they are for.
The runs that are expected to fail show where the code departs from what the
repository says of it:

1. `quit()` before `loop()` is erased (`EventLoop.cpp:95`), and the destructor
   that called it joins for ever.
2. A client that ends its input while output is left never gets the rest, and the
   connection stays open without a timer (`HttpData.cpp:304`: `events_` is set and
   the poller not told). `Stranded` names these connections; `NoneForgotten`
   excludes exactly them, and `KeptHasNode` says that no node holds them.
3. An idle loop never looks at its timers (`Epoll.cpp:89`), while `README.md:159`
   has a node gone at its time at the latest.
4. A node whose time falls behind the restart of the clock never expires: times
   are `tv_sec % 10000` (`Timer.cpp:20`), so its `expiredTime_` is 10000000 or
   more, which the clock of `isValid` never reaches. Unless there is another
   event for it, the connection stays open for ever, on a loop that keeps being
   woken too. `README.md:159` says otherwise. `SweepWithinPeriod` states it as
   well: what a sweep can be relied on for is the nodes of the current period.
5. `assert(buffers_.empty())` is made after the unlock
   (`base/AsyncLogging.cpp:82`); the log is right all the same.
6. A pipelined request loses its first character and is refused
   (`HttpData.cpp:465`), while `README.md:53` names pipelining among what the
   server does. Section 5 (`PoliteNotRefused`) says who is safe from it.

More departures that properties state by name. The first two are against the
repository's README as well; of the others it says nothing.

- `/hello` is assigned to `outBuffer_`, not appended (`HttpData.cpp:504`), which
  throws away output that is left. A client meets it that pipelines, which
  `README.md:53` promises to serve, *and* whose text the network cuts in a blank
  line: it keeps its first character. `AnswersInOrder` holds of this client too,
  but for what a later `/hello` may have taken the place of (`MayBeGone`), and so
  does `Settled` (`Overwritten`). `NoMissedEdge` names what follows: `events_`
  keeps EPOLLOUT, so the connection may wait to write when nothing is left to be
  written, and reads on when the socket has room. TLC refutes each of the three
  without its exception. No other client and no other page is excepted.
- `README.md:105` has `AppendFile` write all content to the file. A failing
  `fwrite` gives up the rest of a buffer, in the middle of a line
  (`base/FileUtil.cpp:38`), which `RefinesLog` counts as lost and
  `LinesAreWritten` as settled. Nor are the lines written that `append` has taken
  after the back-end's last swap when `stop()` ends it: `LinesAreWritten` is about
  a log that has not been stopped.
- A request without headers is not answered: its blank line is skipped, and
  `parseHeaders` waits for a header (`WaitsForMore` in `Settled`). A POST is
  received and its connection closed without an answer (`AnswerPost`).
- A request that is cut is answered or refused, depending on the place: in the
  request line it is refused (`pos < 0` is never true, `HttpData.cpp:314`), inside
  a header line it is read on from its last line end in a state that does not fit
  it and refused, or read without that header. `Settled` says that it is one or the
  other, and nothing is waited for in vain.
- After a failed `fcntl` the acceptor is registered for nothing and its descriptor
  is lost (`Server.cpp:57`); after a failed `epoll_ctl` nothing is accepted either
  (`Epoll.cpp:53`, `Epoll.cpp:69`); after a failed `accept` what is in the backlog
  waits for one more connection (`Server.cpp:48`). `AcceptorListens`,
  `DescriptorsOwned` and `ConnectionsServed` except exactly these.
- After an `epoll_mod` that failed, the connection has no channel any more while
  the kernel keeps its old entry: its events are dropped, and its timer is all that
  can close it. `TablesMatchKernel` says what still holds, `InterestFits` is about
  the connections that have a channel, and `NoneForgotten` about all.
- `quit()` from the destructor of an `EventLoopThread` may call `isInLoopThread()`
  and `wakeup()` on a loop that has ended (`EventLoop.cpp:124-127`): between the
  two halves a round that something else has woken may see `quit_`, and the
  `EventLoop` lives on the stack of its thread. `LoopsEndInTurn` has this call as
  its one exception. What it reads is stack that is still mapped, since the thread
  is not joined, and it writes eight bytes to the descriptor number found there;
  what these do to whom the number belongs to by then is not modelled.
- If `pthread_create` fails nobody is told: `startLoop` waits for ever
  (`base/Thread.cpp:106`), and so does every thread that logs, in `pthread_once`.
  `StartReturns`, `ConnectionsServed` and `LogReturns` except exactly this.

## 5. What is proved

`EventLoopProofs`, for any sets of posting threads and tasks, of `SafeSpec`
(no fairness is used):

- `TypeCorrect`: `[]TypeOK`.
- `LoopInvariant`: `[]LoopInv`. `NoLostWakeup` is not inductive: when the loop has
  consumed the wake-up it is on its way to `doPendingFunctors`, and when a
  functor is pushed from inside a functor it is `callingPendingFunctors_` that
  makes `queueInLoop` write to the eventfd. `LoopInv` says so: whatever is queued
  is either about to be swapped (`pc` is `handle` or `pending`) or has a wake-up
  coming; the flag is set while functors run; the batch is empty elsewhere.
- `WakeupNotLost` and `CounterRead`: the two invariants that follow; the run
  `event_loop` checks these, and `LoopInv` is proved only.
- `QueueRefined`: `SafeSpec => RefinesTaskQueue`, by `StepSimulated`, one case per
  action: swapping the vectors leaves the abstract queue alone because the batch
  is empty then, which `LoopInv` gives; running a functor is `Execute`.

`TimerProofs`, for any connections, time-outs and period `Wrap`, of `Spec`:

- `TimerTypes`: `[]TypeOK`.
- `TimerInvariant`: the inductive invariant `NodesMatch /\ KeptHasNode /\
  NeverAhead`. The first two need each other: a new node may be linked because
  the old one was marked, and marking finds the node because it is linked.
- `NodesAgree`, `NodeKnown`, `WrapOnlyDelays`: its three parts; the run `timer`
  checks the first two and `NeverEarly`.
- `NoneClosedEarly`: `Spec => NeverEarly`, from `NeverAhead`: a node is popped as
  expired when `expiredTime_ <= clock`, hence `due <= now`.
- `SweepReach`: `Spec => SweepWithinPeriod`. A sweep ends at a top that is still
  valid, and no node is before the top (`TopIsFirst`, from the least element of a
  set of numbers), so whatever is left in the heap is not due, unless it was set in
  an earlier period of the clock (`SweepEnds`). And `clock < Wrap`, so no sweep
  pops a node set across the restart (`BehindRestartStays`).

`ServerProofs`, for any numbers of loops, descriptors and connections, of
`ServerSpec` (no fairness is used):

- `PoolInvariant`: `[](TypeOK /\ PoolInv)`. What a thread has done follows from
  where it is (`ThreadFacts`): its latch, its tid, whether its loop exists and is
  published. How far the main thread is decides where the others are: while it
  starts thread `cur`, those before are up and those behind do not exist, and
  `loops_` holds exactly the ones before (`StartFacts`); when it destroys them,
  those before have finished and those behind have not been asked to quit
  (`StopFacts`); the one that has been asked may be anywhere between its loop and
  its end, also while the main thread is still inside `quit()`. That a loop leaves only when asked, and is asked only after it
  was waited for, makes both halves hold. `ServerSteps` carries it over: every
  step of the server is one of the pool or leaves the pool alone.
- `HandshakesHold` and `LoopsEnd`: `ThreadsUsable` and `LoopsEndInTurn`.
- `ServerInvariant`: with `PoolInv`, `ServerTypeOK /\ ServerInv`. The acceptor
  serves only when the pool has started (`PhaseFacts`), so what it indexes in
  `loops_` is a loop that exists (`DealtToLoop`). The channel's two event fields
  agree with epoll except in the middle of a turn (`ChannelFacts`). The last
  descriptor is never given away (`OwnerFacts`), so `accept` always has a least
  closed one to return (`NewFdClosed`, by well-foundedness of `<`), and no
  descriptor in use is dealt out again.
- `ServerTypes`, `OwnersExist` and `ListensBetweenTurns`: `ServerTypeOK`,
  `DescriptorsOwned` and `AcceptorListens`.

`ReactorProofs`, for any connections, descriptor numbers, loops and time-outs, of
`Spec`:

- `ReactorTypes`: `[]TypeOK`.
- `ReactorInvariant`: `[]ReactorInv`, one lemma per action, and one for what
  actions share (`CloseInv` for `handleClose` from a handler or a timer,
  `RearmInv` for `updatePoller`). None of the properties below is inductive, for
  each table is only right because of another. `OwnerInv`: the kernel's
  descriptors and the connections' agree, so a number that the kernel gives away
  again is in nobody's hands. `QueueInv`: a `newEvent` waits once, for a connection
  that is not registered. `TableInv`: an open connection is in `fd2http_` of its own
  loop under its own number, nothing else is in any table, and what has a channel
  is watched, also after an `epoll_mod` that failed. `PhaseInv` and
  `BatchInv`: what is dispatched is registered, and what was closed is destroyed
  before the loop goes on. `TimerInv`: one timer, and its time minus the clock is at
  least what the last event granted less the silence since (`NotYetDue`; it is
  more once the clock has started again). `InterestInv`: the kernel watches for
  `lastEvents_`, or an EPOLLONESHOT has fired (`Fired`) and the connection's turn
  is still to come, or the channel is gone.
- `TablesMatch`, `BatchAlive`, `TimersRight` and `InterestRight`: all the
  invariants of the run `reactor` follow (`TablesMatchKernel`,
  `DispatchedAreAlive`, `OneTimer` and `NoneForgotten`, `InterestFits`).
- `NoneClosedEarly`: `Spec => NoEarlyExpiry`: of all the steps only `Expire` closes
  a connection whose turn it is not, and there `TimerInv` gives the silence.

`LogStreamProofs`, for any sizes, prefix and statements:

- `ConvertIsDecimal`: `convert(v) = Decimal(v)` for every integer, of any width.
  The loop of `convert` takes C++'s quotients and remainders, negative ones for a
  negative number; `Mirrored` and `BackwardsIs` say that it yields the digits of
  the absolute value, the last first. `NumeralIs` and `BackwardsIs` also show that
  both recursive functions exist, which TLA+ does not give for free.
- `LineFits`: a line is text, is not empty and leaves room for the terminator, by
  induction over the pieces (`LineSteps`).
- `LineWellFormed`: every line is `WellFormed`: each piece is put in whole or left
  out (`WholeOrNot`), and the line end is left out only when nothing else fits.

`AsyncLoggingProofs`, for any threads, statements, numbers of buffers, capacity,
limit and faults, of `Spec`:

- `LinesRight`: `LinesFormatted`, from `LineWellFormed`: what a thread has ready for
  `append` is the line of its statement (`StreamInv`).
- `LogTypes` and `BuffersAreReady`: `TypeOK` and `BuffersReady`, from `BufferInv`.
  `HeldInv`: no two places hold the same buffer. `SpareInv`: the spare buffers are
  empty, and there whenever the code asserts that they are; that `nextBuffer_` is
  missing only after a buffer has filled is why the back-end, which takes at least
  two buffers then, gets back as many as it gave.
- `LinesStayWhole`: `LinesWhole`, from `RunInv` (a buffer holds the characters of
  some whole lines, one after the other, and the current one the last) and
  `DroppedInv`. A line is not empty and fits an empty buffer, by `LineFits`: with a
  line longer than a buffer `append` would push an empty one.
- `LogImplementsOrderedLog`: `Spec => RefinesLog`. With `OrderInv` (the buffers
  wait in the order of what they hold) the characters that wait are those of the
  back-end and those of the threads (`WaitingIs`). Appending is `Take`
  (`AppendMaps`); writing all or part of a buffer, or failing to, is `Store` or
  `Lose` of what comes before the rest (`WriteMaps`); the overload rule is `Lose`
  of what lies between the buffers kept and those the threads have (`DropMaps`);
  all other steps leave the abstract log alone (`QuietMaps`).

`HttpSessionProofs`, for any requests, clients (those that do everything at once
included), room and bounds, of `Spec`:

- `SessionTypes`: `[]TypeOK`. That the parsers yield what `HttpData` can hold is
  proved about each of them (`UriType`, `StepType`, `ScanType`, `HeadersType`), for
  any text, however it is cut; `ScanType` is an induction over the rounds of the
  loop of `parseHeaders`.
- `ErrorsAreLast`: `[]ErrorIsLast`, from `ErrorInv`: `handleError` is the only one
  that sends an error, `outBuffer_` never holds one, and once `error_` is set the
  last flush and `handleConn` are all that is left to be done.
- `HeadersAreKnown`: `[]HeadersKnown`, of every client, from `HeadsInv`. What has
  been sent and not parsed (`Pending`: the buffer, the socket, and what the network
  still has) is the end of a text that keeps to the grammar of requests (`Chain`),
  wherever it is cut. `Turn` says, in each state of the parser, whose headers it is
  reading and what it expects of that text: a request line of the next request, or
  of nobody (`Due`); the rest of a head, in a state of `hState_` that may not fit it
  (`Under`), or in one that it does not leave without an error (`Stuck`). A request
  in one piece is in the buffer as a whole once its line is found (`WholeInv`), so
  it has all of its own headers in the end (`WholeHead`, an induction over its
  lines). `HeadsStep` has one lemma per action that changes the text or the parser.
- `AnswersComeInOrder`: `[]AnswersInOrder`, of every client. `OrderInv` says it of
  what is on the wire and in `outBuffer_` together, and that all answers up to the
  request whose turn it is are there (`Done`), or gone (`Gone`, what `MayBeGone`
  says of them). A new answer is put behind, unless `/hello` is assigned over
  output that is left, and then it is behind what is on the wire. For a client
  that does not both send ahead and come in pieces (`Orderly`), `OutInv` has it
  that no output is left where a request line can be found: one that waits has
  everything on the wire before it sends more (`WaitInv`), and what one sends ahead
  in one piece has lost its first character and is refused before it is answered
  (`Lost`).
- `NoEdgeMissed`: `[]NoMissedEdge`, of every client. `EdgeInv` says in each part of
  `handleEvents` what `events_` and the entry in epoll must be for what
  `handleConn` does at the end to be right, `ReadInv` that nobody reads for
  nothing. They leave open that the connection waits to write with nothing to write
  (`WaitsToWrite`), and `OutInv` excludes that of orderly clients.
- `PoliteNotRefused`: `[](Polite => NoneRefused)`: a client that waits for each
  answer and sends every request in one piece is refused only what is not there,
  and a POST. The run `http_refused` shows that it does not hold of one that
  pipelines. `PoliteInv` says that what is left between two requests begins with a
  method: it is the turn of the last request (`LastTurn`), so nothing is behind it
  (`LoneRequest`) of which `parseHeaders` could take the first character.

`Recursion` holds what the inductions rest on, for functions defined from one
number to the next: `AllNumbers`, `AllBelow`, `LeastNumber`, `AllAlong`, and
`StepsExist`, that there is a function as the definition describes it. They are
stated of sets, not of operators, and proved from the well-foundedness of `<`.

The assumptions are those stated in the modules (EventLoop needs none): they say
that constants have their types, that there is a loop, a descriptor and enough
buffers, and that `None` is none of the values it stands in for.
`PieceAssumption` says that what `snprintf` makes of a floating-point number is
shorter than `kMaxNumericSize`, and `NumberAssumption` that every integer of the
type is, once converted. Both are so in the code: `kMaxNumericSize` is 32, and no
integer of 64 bits and nothing `%.12g` makes of a number has more than 20
characters. TLC evaluates each assumption on every run of its module.

Only model-checked: all liveness (`QuitStopsLoop`, `QueueMovesOn`,
`LinesAreWritten`, `LogReturns`, `PoliteAnswered`, `Settled`, `StartReturns`,
`ConnectionsServed`), which rests on fairness and ENABLED. Every other property
of the passing runs is stated by a theorem.

## 6. What is not modelled

- What the parsers do not branch on: MIME types, the query of a file name, the
  wording of answers. More ways to be refused than the model has: a request line
  that is complete but malformed or of another version (`parseURI`), a value
  longer than 255 characters (`HttpData.cpp:431`). A Content-length that `stoi`
  throws on ends the process, and so does a null `FILE*` after a failed `fopen`.
- The memory before `inBuffer_` that `parseHeaders` reads when it is resumed with
  positions of -1: such a name is one that `analysisRequest` does not look for.
- The loops of `readn` and `writen` under EINTR: they are modelled by what they
  take, leave or fail with. That a client which sends as fast as it is read keeps
  a loop inside `readn` is not in the model.
- The text of time stamps, which a `localtime` shared by all threads may mix up.
- Log lines that an empty large buffer has no room for. There are none, since
  `Capacity` is at least `SIZE`, as in the code (4000000 and 4000).
- That registering the eventfd in the constructor of `EventLoop` fails
  (`EventLoop.cpp:46`): a loop it fails for is never woken by anybody.
- Option parsing, signals, static pages, the test program, the load test.
- Weak memory. `quit_`, `running_` and `loop_` are plain members read across
  threads; steps here are sequentially consistent.

## 7. Plan

In this order. The first ten are done.

1. `TaskQueue`, `EventLoop`, `EventLoopProofs`: the hand-over between threads.
2. `Reactor`: tables, descriptors, timers and lifetimes.
3. `TimerManager`, `TimerProofs`.
4. `HttpSession`: edge triggering and the order of answers.
5. `AsyncLogging`, `LoopThread`.
6. `Server`: the acceptor, with every way out of `handNewConn`, on top of the pool.
7. `LogStream`, `OrderedLog`, and the file in `AsyncLogging`: what is on disk, and
   in which state the lines get there.
8. `HttpParser`: both parsers, with requests cut anywhere.
9. `ServerProofs`: the pool and the acceptor on top of it.
10. `ReactorProofs`, `LogStreamProofs`, `AsyncLoggingProofs`, `HttpSessionProofs`.
11. Abstract specifications still to state: a map from descriptors to owners that
    `Reactor` implements; a set of deadlines that `TimerManager` implements.
12. `ReadWrite`: the loops of `readn` and `writen` under EINTR, EAGAIN and errors,
    refining the `Read` and `Write` of `HttpSession`.

No safety property of the passing runs is left without a theorem. What 11 and 12
bring will want its own: that `Reactor` implements the map of owners follows from
`ReactorInv`, and that `TimerManager` implements the deadlines from `NeverAhead`
and `TopIsFirst`.

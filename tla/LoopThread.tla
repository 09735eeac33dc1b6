------------------------------ MODULE LoopThread ------------------------------
(***************************************************************************)
(* The pool of loop threads (EventLoopThreadPool.cpp, EventLoopThread.cpp, *)
(* base/Thread.cpp, base/CountDownLatch.cpp): how the main thread starts   *)
(* each loop on a thread of its own, deals connections out to them and     *)
(* destroys them again.                                                    *)
(*                                                                         *)
(* Starting one takes two hand-shakes.  Thread::start waits for the latch  *)
(* that the new thread counts down once its tid is stored; startLoop waits *)
(* on a condition variable for threadFunc to publish the address of the    *)
(* EventLoop on its stack.  Both tests are made under the mutex that the   *)
(* wait releases, so "test and fall asleep" is one step.  What a loop does *)
(* between loop()'s entry and its end is module EventLoop.                 *)
(***************************************************************************)
EXTENDS Naturals, Sequences

CONSTANTS
  NumLoops          \* numThreads_ of the pool

Threads == 1 .. NumLoops

ASSUME PoolAssumption == NumLoops \in Nat \ {0}

VARIABLES
  pc,               \* where the main thread is
  cur,              \* the EventLoopThread it is at
  loops_, next_,    \* of the pool; a null pointer in loops_ is 0
  thread,           \* per thread: where it is
  tid_, count_,     \* per thread: of its Thread, of the Thread's latch_
  loop_,            \* per thread: loop_ of the EventLoopThread is not null
  alive,            \* per thread: the EventLoop on its stack exists
  quit_             \* per thread: of that EventLoop

poolVars == <<loops_, next_>>
threadVars == <<thread, tid_, count_, loop_, alive, quit_>>
vars == <<pc, cur, poolVars, threadVars>>

TypeOK ==
  /\ pc \in {"create", "latch", "latchAsleep", "wait", "asleep", "return",
             "serving", "test", "quit", "wake", "join", "gone"}
  /\ cur \in Threads
  /\ loops_ \in Seq(Threads \cup {0})
  /\ next_ \in 0 .. NumLoops - 1
  /\ thread \in [Threads -> {"none", "created", "known", "run",
                             "constructed", "published", "looping", "left",
                             "cleared", "finished"}]
  /\ tid_ \in [Threads -> 0 .. NumLoops]
  /\ count_ \in [Threads -> {0, 1}]
  /\ loop_ \in [Threads -> BOOLEAN]
  /\ alive \in [Threads -> BOOLEAN]
  /\ quit_ \in [Threads -> BOOLEAN]

Init ==
  /\ pc = "create" /\ cur = 1
  /\ loops_ = <<>> /\ next_ = 0
  /\ thread = [i \in Threads |-> "none"]
  /\ tid_ = [i \in Threads |-> 0]
  /\ count_ = [i \in Threads |-> 1]
  /\ loop_ = [i \in Threads |-> FALSE]
  /\ alive = [i \in Threads |-> FALSE]
  /\ quit_ = [i \in Threads |-> FALSE]

-----------------------------------------------------------------------------
(* The main thread: EventLoopThreadPool::start.                            *)

\* Thread::start up to latch_.wait().
Create ==
  /\ pc = "create"
  /\ thread' = [thread EXCEPT ![cur] = "created"]
  /\ pc' = "latch"
  /\ UNCHANGED <<cur, poolVars, tid_, count_, loop_, alive, quit_>>

\* pthread_create fails; startLoop does not hear of it and waits.
CreateFails ==
  /\ pc = "create"
  /\ pc' = "wait"
  /\ UNCHANGED <<cur, poolVars, threadVars>>

\* CountDownLatch::wait.
WaitLatch ==
  /\ pc = "latch"
  /\ pc' = IF count_[cur] > 0 THEN "latchAsleep" ELSE "wait"
  /\ UNCHANGED <<cur, poolVars, threadVars>>

\* Seeded fault: cond_.wait() without a test before it.
WaitLoopUntested ==
  /\ pc = "wait"
  /\ pc' = "asleep"
  /\ UNCHANGED <<cur, poolVars, threadVars>>

\* EventLoopThread::startLoop after thread_.start().
WaitLoop ==
  /\ pc = "wait"
  /\ pc' = IF loop_[cur] THEN "return" ELSE "asleep"
  /\ UNCHANGED <<cur, poolVars, threadVars>>

\* Seeded fault: "if" for "while".
WakeUpUntested ==
  /\ pc \in {"latchAsleep", "asleep"}
  /\ pc' = IF pc = "asleep" THEN "return" ELSE "wait"
  /\ UNCHANGED <<cur, poolVars, threadVars>>

\* pthread_cond_wait may come back for no reason; the test is made again.
WakeUp ==
  /\ pc \in {"latchAsleep", "asleep"}
  /\ pc' = IF pc = "asleep" THEN "wait" ELSE "latch"
  /\ UNCHANGED <<cur, poolVars, threadVars>>

\* startLoop reads loop_ once more, after the unlock; start() goes on.
ReturnLoop ==
  /\ pc = "return"
  /\ loops_' = Append(loops_, IF loop_[cur] THEN cur ELSE 0)
  /\ \/ cur < NumLoops /\ cur' = cur + 1 /\ pc' = "create"
     \/ cur = NumLoops /\ pc' = "serving" /\ UNCHANGED cur
  /\ UNCHANGED <<next_, threadVars>>

\* Seeded fault: next_ is not taken modulo numThreads_.
NextPast == next_ + 1

NextIndex == (next_ + 1) % NumLoops

\* EventLoopThreadPool::getNextLoop for another connection.
GetNextLoop ==
  /\ pc = "serving"
  /\ next_' = NextIndex
  /\ UNCHANGED <<pc, cur, loops_, threadVars>>

-----------------------------------------------------------------------------
(* The main thread: the destructors of the pool.                           *)

Shutdown ==
  /\ pc = "serving"
  /\ pc' = "test" /\ cur' = 1
  /\ UNCHANGED <<poolVars, threadVars>>

GoOn == \/ cur < NumLoops /\ cur' = cur + 1 /\ pc' = "test"
        \/ cur = NumLoops /\ pc' = "gone" /\ UNCHANGED cur

\* ~EventLoopThread reads loop_ without the mutex.  (It is never null then:
\* nothing but the next step ends a loop.)
TestLoop ==
  /\ pc = "test"
  /\ loop_[cur]
  /\ pc' = "quit"
  /\ UNCHANGED <<cur, poolVars, threadVars>>

\* EventLoop::quit, first half: from here on the loop may leave by itself, in
\* a round that something else has woken, and end its thread.
QuitLoop ==
  /\ pc = "quit"
  /\ quit_' = [quit_ EXCEPT ![cur] = TRUE]
  /\ pc' = "wake"
  /\ UNCHANGED <<cur, poolVars, thread, tid_, count_, loop_, alive>>

\* Second half: isInLoopThread() and wakeup() read threadId_ and wakeupFd_ of
\* an EventLoop that need not exist any more.  Its thread is not joined yet,
\* so what they read is stack memory that is still there, and eight bytes go
\* to the descriptor found in it, open or not: nothing of this module, and
\* the main thread goes on to the join in any case.
WakeLoop ==
  /\ pc = "wake"
  /\ pc' = "join"
  /\ UNCHANGED <<cur, poolVars, threadVars>>

\* Seeded fault: the thread is not joined.
JoinNobody ==
  /\ pc = "join"
  /\ GoOn
  /\ UNCHANGED <<poolVars, threadVars>>

Join ==
  /\ pc = "join"
  /\ thread[cur] = "finished"
  /\ GoOn
  /\ UNCHANGED <<poolVars, threadVars>>

-----------------------------------------------------------------------------
(* A loop thread.                                                          *)

Goes(i, from, to) ==
  /\ thread[i] = from
  /\ thread' = [thread EXCEPT ![i] = to]

\* notify and notifyAll wake the main thread if it sleeps there.
Notify(i, asleep, awake) ==
  pc' = IF pc = asleep /\ cur = i THEN awake ELSE pc

\* ThreadData::runInThread up to the latch.
StoreTid(i) ==
  /\ Goes(i, "created", "known")
  /\ tid_' = [tid_ EXCEPT ![i] = i]
  /\ UNCHANGED <<pc, cur, poolVars, count_, loop_, alive, quit_>>

CountDown(i) ==
  /\ Goes(i, "known", "run")
  /\ count_' = [count_ EXCEPT ![i] = @ - 1]
  /\ Notify(i, "latchAsleep", "latch")
  /\ UNCHANGED <<cur, poolVars, tid_, loop_, alive, quit_>>

\* EventLoopThread::threadFunc: EventLoop loop;
Construct(i) ==
  /\ Goes(i, "run", "constructed")
  /\ alive' = [alive EXCEPT ![i] = TRUE]
  /\ UNCHANGED <<pc, cur, poolVars, tid_, count_, loop_, quit_>>

Publish(i) ==
  /\ Goes(i, "constructed", "published")
  /\ loop_' = [loop_ EXCEPT ![i] = TRUE]
  /\ Notify(i, "asleep", "wait")
  /\ UNCHANGED <<cur, poolVars, tid_, count_, alive, quit_>>

\* Entry of EventLoop::loop.
EnterLoop(i) ==
  /\ Goes(i, "published", "looping")
  /\ quit_' = [quit_ EXCEPT ![i] = FALSE]
  /\ UNCHANGED <<pc, cur, poolVars, tid_, count_, loop_, alive>>

\* Its end, once quit has been seen.
LeaveLoop(i) ==
  /\ quit_[i]
  /\ Goes(i, "looping", "left")
  /\ UNCHANGED <<pc, cur, poolVars, tid_, count_, loop_, alive, quit_>>

ClearLoop(i) ==
  /\ Goes(i, "left", "cleared")
  /\ loop_' = [loop_ EXCEPT ![i] = FALSE]
  /\ UNCHANGED <<pc, cur, poolVars, tid_, count_, alive, quit_>>

\* threadFunc returns and destroys its EventLoop; the thread ends.
Finish(i) ==
  /\ Goes(i, "cleared", "finished")
  /\ alive' = [alive EXCEPT ![i] = FALSE]
  /\ UNCHANGED <<pc, cur, poolVars, tid_, count_, loop_, quit_>>

ThreadNext(i) ==
  \/ StoreTid(i) \/ CountDown(i) \/ Construct(i) \/ Publish(i)
  \/ EnterLoop(i) \/ LeaveLoop(i) \/ ClearLoop(i) \/ Finish(i)

MainNext ==
  \/ Create \/ WaitLatch \/ WaitLoop \/ ReturnLoop
  \/ TestLoop \/ QuitLoop \/ WakeLoop \/ Join

Next ==
  \/ MainNext \/ CreateFails \/ WakeUp \/ GetNextLoop \/ Shutdown
  \/ \E i \in Threads : ThreadNext(i)

\* Every thread runs.  Condition variables wake nobody without a notify, no
\* connection need come and nobody need shut the server down.
Spec ==
  /\ Init /\ [][Next]_vars
  /\ WF_vars(MainNext)
  /\ \A i \in Threads : WF_vars(ThreadNext(i))

-----------------------------------------------------------------------------
(* Properties.                                                             *)

\* The main thread is in the destructors of the pool.
Stopping == {"test", "quit", "wake", "join"}

\* Thread.cpp:111: once the latch has let the main thread go on, the thread's
\* tid is stored.  After a failed pthread_create there is none.
TidKnown ==
  pc \in {"wait", "asleep", "return"} /\ thread[cur] # "none" => tid_[cur] > 0

\* Until it is destroyed the pool has the address of an EventLoop that exists
\* for every thread started, in the order of the threads: connections can be
\* queued there even before the loop runs.
LoopsUsable ==
  \A i \in DOMAIN loops_ :
    /\ loops_[i] = i
    /\ pc \in {"create", "latch", "latchAsleep", "wait", "asleep", "return",
               "serving"} => alive[i]

\* What the two hand-shakes of a thread's start promise.
ThreadsUsable == TidKnown /\ LoopsUsable

\* A loop whose thread exists is delivered to the pool; no wake-up is lost.
StartReturns ==
  \A i \in Threads :
    thread[i] # "none" ~> \E k \in DOMAIN loops_ : loops_[k] = i

\* The destructors take the loops down one after the other: a loop handed out
\* exists until the destructor of its thread has asked it to quit, and none
\* exists when that destructor is done, the pool's at last.  quit() itself is
\* not covered by its join: wakeup(), its second half, is the one call that
\* may be made on a loop that has ended (pc = "wake" here), and no other.
LoopsEndInTurn ==
  /\ \A i \in DOMAIN loops_ :
       ~alive[i] =>
         \/ pc = "gone"
         \/ pc \in Stopping /\ i < cur
         \/ pc \in {"wake", "join"} /\ i = cur /\ quit_[i]
  /\ \A i \in Threads : alive[i] => pc # "gone" /\ (pc \in Stopping => cur <= i)
=============================================================================

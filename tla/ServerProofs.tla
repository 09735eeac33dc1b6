----------------------------- MODULE ServerProofs -----------------------------
(***************************************************************************)
(* Theorems about LoopThread and Server, for any number of loop threads,   *)
(* descriptors and connections: the start-up hand-shakes, the order of     *)
(* destruction, who owns a descriptor, and what the acceptor leaves to     *)
(* epoll.                                                                  *)
(***************************************************************************)
EXTENDS Server, WellFoundedInduction, TLAPS

\* The phases of the main thread's start, and the places of a loop thread that has
\* its loop published and was not asked to quit.
Starting == {"create", "latch", "latchAsleep", "wait", "asleep", "return"}
Waiting == {"wait", "asleep", "return"}
Up == {"published", "looping"}

\* What a loop thread has done, from where it is.
ThreadFacts ==
  \A i \in Threads :
    /\ count_[i] = 0 <=> thread[i] \notin {"none", "created", "known"}
    /\ thread[i] \notin {"none", "created"} => tid_[i] = i
    /\ loop_[i] <=> thread[i] \in Up \cup {"left"}
    /\ alive[i] <=> thread[i] \in Up \cup {"constructed", "left", "cleared"}
    /\ thread[i] \in {"left", "cleared", "finished"} => quit_[i]

\* The loops published so far, in the order of the threads.
Published(n) ==
  /\ Len(loops_) = n
  /\ \A i \in 1 .. n : loops_[i] = i

\* How far the main thread is with each of the threads.
StartFacts ==
  pc \in Starting =>
    /\ Published(cur - 1)
    /\ \A i \in Threads : ~quit_[i]
    /\ \A i \in Threads : i < cur => thread[i] \in Up
    /\ \A i \in Threads : i > cur => thread[i] = "none"
    /\ pc = "create" => thread[cur] = "none"
    /\ pc \in Waiting =>
         thread[cur] \notin {"created", "known"}
    /\ pc = "return" => thread[cur] \in Up

ServeFacts ==
  pc = "serving" =>
    /\ Published(NumLoops)
    /\ \A i \in Threads : ~quit_[i] /\ thread[i] \in Up

StopFacts ==
  /\ pc \in Stopping =>
       /\ Published(NumLoops)
       /\ \A i \in Threads : i < cur => thread[i] = "finished"
       /\ \A i \in Threads : i > cur => ~quit_[i] /\ thread[i] \in Up
       /\ thread[cur] \in Up \cup {"left", "cleared", "finished"}
       /\ pc \in {"test", "quit"} => ~quit_[cur] /\ thread[cur] \in Up
  /\ pc = "gone" =>
       /\ Published(NumLoops)
       /\ \A i \in Threads : thread[i] = "finished"

PoolInv == ThreadFacts /\ StartFacts /\ ServeFacts /\ StopFacts

\* The acceptor starts serving when the pool has started.
PhaseFacts ==
  /\ at \in {"construct", "aborted"} => pc = "create" /\ cur = 1
  /\ at = "start" => pc \in Starting \cup {"serving"}
  /\ at \in {"accept", "conn"} => pc = "serving"
  /\ at = "poll" => pc \in {"serving", "gone"} \cup Stopping
  /\ backlog <= arrived

\* What the channel of the acceptor says is what epoll watches, and what is
\* in the backlog is reported or about to be accepted.
ChannelFacts ==
  /\ at \in {"poll", "accept", "conn"} /\ faults \cap {"fcntl", "epoll"} = {} =>
       registered /\ lastEvents_ /\ (at = "conn" => events_)
  /\ at \in {"poll", "conn"} /\ faults = {} /\ backlog > 0 => ready

\* A descriptor that is open belongs to a loop that exists; the last one is
\* never given away.
OwnerFacts ==
  /\ at \in {"construct", "aborted", "start"} => \A fd \in Fds : owner[fd] = 0
  /\ \A fd \in queued : owner[fd] \in Threads
  /\ owner[MAXFDS] = 0

ServerInv == PhaseFacts /\ ChannelFacts /\ OwnerFacts /\ DescriptorsOwned
-----------------------------------------------------------------------------
(* The pool: types.                                                        *)

\* The pool starts with the right types.
LEMMA PoolTypeInit == Init => TypeOK
  BY PoolAssumption DEF Init, TypeOK, Threads

\* Every step of the pool keeps the types.
LEMMA PoolTypeStep == TypeOK /\ ThreadFacts /\ [Next]_vars => TypeOK'
<1> SUFFICES ASSUME TypeOK, ThreadFacts, [Next]_vars
             PROVE  TypeOK'
  OBVIOUS
<1> USE PoolAssumption
<1>1. CASE Create \/ CreateFails
  BY <1>1 DEF Create, CreateFails, poolVars, threadVars, TypeOK
<1>2. CASE WaitLatch \/ WaitLoop \/ WakeUp
  BY <1>2 DEF WaitLatch, WaitLoop, WakeUp, poolVars, threadVars, TypeOK
<1>3. CASE ReturnLoop
  BY <1>3 DEF ReturnLoop, threadVars, TypeOK, Threads
<1>4. CASE GetNextLoop
  BY <1>4 DEF GetNextLoop, NextIndex, threadVars, TypeOK
<1>5. CASE Shutdown \/ TestLoop \/ QuitLoop \/ WakeLoop
  <2>1. 1 \in Threads
    BY DEF Threads
  <2>2. QED
    BY <1>5, <2>1
       DEF Shutdown, TestLoop, QuitLoop, WakeLoop, poolVars, threadVars, TypeOK
<1>6. CASE Join
  BY <1>6 DEF Join, GoOn, poolVars, threadVars, TypeOK, Threads
<1>7. ASSUME NEW i \in Threads, ThreadNext(i)
      PROVE  TypeOK'
  <2>1. CASE StoreTid(i)
    BY <2>1 DEF StoreTid, Goes, poolVars, TypeOK, Threads
  <2>2. CASE CountDown(i)
    BY <2>2 DEF CountDown, Goes, Notify, poolVars, TypeOK, ThreadFacts
  <2>3. CASE Construct(i) \/ EnterLoop(i) \/ LeaveLoop(i)
    BY <2>3 DEF Construct, EnterLoop, LeaveLoop, Goes, poolVars, TypeOK
  <2>4. CASE Publish(i)
    BY <2>4 DEF Publish, Goes, Notify, poolVars, TypeOK
  <2>5. CASE ClearLoop(i) \/ Finish(i)
    BY <2>5 DEF ClearLoop, Finish, Goes, poolVars, TypeOK
  <2>6. QED
    BY <1>7, <2>1, <2>2, <2>3, <2>4, <2>5 DEF ThreadNext
<1>8. CASE UNCHANGED vars
  BY <1>8 DEF vars, poolVars, threadVars, TypeOK
<1>9. QED
  BY <1>1, <1>2, <1>3, <1>4, <1>5, <1>6, <1>7, <1>8 DEF Next, MainNext
-----------------------------------------------------------------------------
(* The pool: the inductive invariant.                                      *)

\* Nothing is published and no thread exists at the start.
LEMMA PoolInit == Init => PoolInv
<1> SUFFICES ASSUME Init
             PROVE  PoolInv
  OBVIOUS
<1>1. ThreadFacts /\ ServeFacts /\ StopFacts
  BY DEF Init, ThreadFacts, ServeFacts, StopFacts, Up, Stopping
<1>2. StartFacts
  BY PoolAssumption DEF Init, StartFacts, Published, Starting, Waiting, Threads
<1>3. QED
  BY <1>1, <1>2 DEF PoolInv

\* Every step of the pool keeps it.
LEMMA PoolStep == TypeOK /\ PoolInv /\ [Next]_vars => PoolInv'
<1> SUFFICES ASSUME TypeOK, PoolInv, [Next]_vars
             PROVE  PoolInv'
  OBVIOUS
<1> USE PoolAssumption DEF PoolInv
<1> USE DEF Starting, Waiting, Stopping, Up, Published
<1>1. CASE Create \/ CreateFails
  BY <1>1, SMTT(20)
     DEF Create, CreateFails, poolVars, threadVars, TypeOK, ThreadFacts, StartFacts,
         ServeFacts, StopFacts, Threads
<1>2. CASE WaitLatch \/ WaitLoop \/ WakeUp
  BY <1>2 DEF WaitLatch, WaitLoop, WakeUp, poolVars, threadVars, TypeOK,
              ThreadFacts, StartFacts, ServeFacts, StopFacts
<1>3. CASE ReturnLoop
  BY <1>3 DEF ReturnLoop, threadVars, TypeOK, ThreadFacts,
              StartFacts, ServeFacts, StopFacts, Threads
<1>4. CASE GetNextLoop
  BY <1>4 DEF GetNextLoop, threadVars, TypeOK, ThreadFacts,
              StartFacts, ServeFacts, StopFacts
<1>5. CASE Shutdown \/ TestLoop \/ QuitLoop \/ WakeLoop
  BY <1>5, SMTT(20)
     DEF Shutdown, TestLoop, QuitLoop, WakeLoop, poolVars, threadVars, TypeOK,
              ThreadFacts, StartFacts, ServeFacts, StopFacts, Threads
<1>6. CASE Join
  BY <1>6 DEF Join, GoOn, poolVars, threadVars, TypeOK, ThreadFacts,
              StartFacts, ServeFacts, StopFacts, Threads
<1>7. ASSUME NEW i \in Threads, ThreadNext(i)
      PROVE  PoolInv'
  <2>0. \A j, k \in Threads : j < k \/ j = k \/ j > k
    BY DEF Threads
  <2>1. CASE StoreTid(i)
    BY <2>1 DEF StoreTid, Goes, poolVars, TypeOK, ThreadFacts,
              StartFacts, ServeFacts, StopFacts
  <2>2. CASE CountDown(i)
    BY <2>0, <2>2 DEF CountDown, Goes, Notify, poolVars, TypeOK, ThreadFacts,
                StartFacts, ServeFacts, StopFacts
  <2>3. CASE Construct(i)
    BY <2>0, <2>3, SMTT(20) DEF Construct, Goes, poolVars, TypeOK, ThreadFacts,
                StartFacts, ServeFacts, StopFacts
  <2>4. CASE EnterLoop(i)
    BY <2>0, <2>4 DEF EnterLoop, Goes, poolVars, TypeOK, ThreadFacts,
                StartFacts, ServeFacts, StopFacts
  <2>5. CASE LeaveLoop(i)
    BY <2>0, <2>5 DEF LeaveLoop, Goes, poolVars, TypeOK, ThreadFacts,
                StartFacts, ServeFacts, StopFacts
  <2>6. CASE Publish(i)
    BY <2>0, <2>6 DEF Publish, Goes, Notify, poolVars, TypeOK, ThreadFacts,
                StartFacts, ServeFacts, StopFacts
  <2>7. CASE ClearLoop(i)
    BY <2>0, <2>7 DEF ClearLoop, Goes, poolVars, TypeOK, ThreadFacts,
                StartFacts, ServeFacts, StopFacts
  <2>8. CASE Finish(i)
    <3>1. ThreadFacts'
      BY <2>8 DEF Finish, Goes, TypeOK, ThreadFacts
    <3>2. (StartFacts /\ ServeFacts)'
      BY <2>0, <2>8 DEF Finish, Goes, poolVars, TypeOK, ThreadFacts,
                        StartFacts, ServeFacts
    <3>3. StopFacts'
      BY <2>0, <2>8 DEF Finish, Goes, poolVars, TypeOK, ThreadFacts,
                        StartFacts, ServeFacts, StopFacts
    <3>4. QED
      BY <3>1, <3>2, <3>3
  <2>9. QED
    BY <1>7, <2>1, <2>2, <2>3, <2>4, <2>5, <2>6, <2>7, <2>8 DEF ThreadNext
<1>8. CASE UNCHANGED vars
  BY <1>8 DEF vars, poolVars, threadVars, ThreadFacts,
              StartFacts, ServeFacts, StopFacts
<1>9. QED
  BY <1>1, <1>2, <1>3, <1>4, <1>5, <1>6, <1>7, <1>8 DEF Next, MainNext
-----------------------------------------------------------------------------
(* The acceptor.                                                           *)

\* What the main thread and the loops do to the pool are steps of LoopThread.
LEMMA ServerSteps == [ServerNext]_allVars => [Next]_vars
<1> SUFFICES ASSUME [ServerNext]_allVars
             PROVE  [Next]_vars
  OBVIOUS
<1>1. CASE StartPool \/ LoopThreads \/ Destroy
  BY <1>1 DEF StartPool, LoopThreads, Destroy, Next, MainNext
<1>2. CASE Accept \/ NonBlockingFails
  BY <1>2 DEF Accept, TakeConnection, NonBlockingFails, Next
<1>3. CASE \/ Arrive \/ ConstructServer \/ StartAcceptor \/ Poll
           \/ BacklogEmpty \/ AcceptFails \/ HandThisConn
           \/ \E fd \in Fds : NewEvent(fd) \/ CloseFd(fd)
  BY <1>3 DEF Arrive, ConstructServer, StartAcceptor, Poll, BacklogEmpty,
              AcceptFails, EndAccept, HandThisConn, NewEvent, CloseFd
<1>4. CASE UNCHANGED allVars
  BY <1>4 DEF allVars
<1>5. QED
  BY <1>1, <1>2, <1>3, <1>4 DEF ServerNext, Acceptor

\* The pool's invariant, of the server.
THEOREM PoolInvariant == ServerSpec => [](TypeOK /\ PoolInv)
<1>1. ServerInit => TypeOK /\ PoolInv
  BY PoolTypeInit, PoolInit DEF ServerInit
<1>2. TypeOK /\ PoolInv /\ [ServerNext]_allVars => (TypeOK /\ PoolInv)'
  BY ServerSteps, PoolTypeStep, PoolStep DEF PoolInv
<1>3. QED
  BY <1>1, <1>2, PTL DEF ServerSpec

\* The two hand-shakes of a start keep what they promise: when Thread::start
\* returns the tid is known, and each address in loops_ is the one of a loop
\* that exists until the pool is destroyed.
THEOREM HandshakesHold == ServerSpec => []ThreadsUsable
<1>1. TypeOK /\ PoolInv => ThreadsUsable
  <2> SUFFICES ASSUME TypeOK, PoolInv
               PROVE  ThreadsUsable
    OBVIOUS
  <2>1. TidKnown
    BY DEF TidKnown, PoolInv, ThreadFacts, StartFacts, Starting, Waiting,
           TypeOK, Threads
  <2>2. LoopsUsable
    BY PoolAssumption
       DEF LoopsUsable, PoolInv, ThreadFacts, StartFacts, ServeFacts,
           StopFacts, Published, Starting, Stopping, Up, TypeOK, Threads
  <2>3. QED
    BY <2>1, <2>2 DEF ThreadsUsable
<1>2. QED
  BY <1>1, PoolInvariant, PTL

\* The destructors take the loops down one after the other and wait for each:
\* no loop ends before it is asked to quit or outlives its join, and only the
\* wakeup() of quit() itself can be a call on a loop that has ended.
THEOREM LoopsEnd == ServerSpec => []LoopsEndInTurn
<1>1. TypeOK /\ PoolInv => LoopsEndInTurn
  <2> SUFFICES ASSUME TypeOK, PoolInv
               PROVE  LoopsEndInTurn
    OBVIOUS
  <2> USE DEF PoolInv, ThreadFacts, Up
  <2>1. pc \in Starting \/ pc = "serving" \/ pc \in Stopping \/ pc = "gone"
    BY DEF TypeOK, Starting, Stopping
  <2>2. \A i, j \in Threads : i < j \/ i = j \/ j < i
    BY DEF Threads
  <2>3. DOMAIN loops_ \subseteq Threads
    BY <2>1, PoolAssumption
       DEF StartFacts, ServeFacts, StopFacts, Published, TypeOK, Threads
  <2>4. CASE pc \in Starting
    <3>1. \A i \in DOMAIN loops_ : i \in Threads /\ i < cur
      BY <2>3, <2>4 DEF StartFacts, Published, TypeOK, Threads
    <3>2. \A i \in DOMAIN loops_ : alive[i]
      BY <2>4, <3>1 DEF StartFacts
    <3>3. pc \notin Stopping /\ pc # "gone"
      BY <2>4 DEF Starting, Stopping
    <3>4. QED
      BY <3>2, <3>3 DEF LoopsEndInTurn
  <2>5. CASE pc = "serving"
    BY <2>3, <2>5 DEF ServeFacts, LoopsEndInTurn, Stopping
  <2>6. CASE pc \in Stopping
    <3>1. \A i \in Threads :
            /\ i < cur => ~alive[i]
            /\ cur < i => alive[i]
      BY <2>6 DEF StopFacts, TypeOK, Threads
    <3>2. ~alive[cur] => pc \in {"wake", "join"} /\ quit_[cur]
      BY <2>6 DEF StopFacts, Stopping, TypeOK
    <3>3. cur \in Threads /\ pc # "gone"
      BY <2>6 DEF TypeOK, Stopping
    <3>4. \A i \in DOMAIN loops_ :
            ~alive[i] =>
              \/ i < cur
              \/ i = cur /\ pc \in {"wake", "join"} /\ quit_[i]
      BY <2>2, <2>3, <3>1, <3>2, <3>3
    <3>5. \A i \in Threads : alive[i] => cur <= i
      BY <3>1, <3>3 DEF Threads
    <3>6. QED
      BY <2>6, <3>3, <3>4, <3>5 DEF LoopsEndInTurn
  <2>7. CASE pc = "gone"
    BY <2>7 DEF StopFacts, LoopsEndInTurn
  <2>8. QED
    BY <2>1, <2>4, <2>5, <2>6, <2>7
<1>2. QED
  BY <1>1, PoolInvariant, PTL
-----------------------------------------------------------------------------
(* The acceptor: the inductive invariant.                                  *)

\* The descriptor that accept returns is a closed one: the last one is never
\* given away, so some descriptor is closed.
LEMMA NewFdClosed == ServerTypeOK /\ OwnerFacts => NewFd \in Closed
<1> SUFFICES ASSUME ServerTypeOK, OwnerFacts
             PROVE  NewFd \in Closed
  OBVIOUS
<1>1. MAXFDS \in Closed /\ Closed \subseteq Nat
  BY ServerAssumption DEF Closed, OwnerFacts, Fds
<1>2. PICK fd \in Closed :
        \A other \in Closed : <<other, fd>> \notin OpToRel(<, Nat)
  BY <1>1, NatLessThanWellFounded, WFMin
<1>3. \A other \in Closed : fd <= other
  <2> SUFFICES ASSUME NEW other \in Closed, other < fd
               PROVE  FALSE
    BY <1>1
  <2>1. <<other, fd>> \in {ss \in Nat \X Nat : ss[1] < ss[2]}
    BY <1>1
  <2>2. <<other, fd>> \in OpToRel(<, Nat)
    BY <2>1, Zenon DEF OpToRel
  <2>3. QED
    BY <1>2, <2>2, Zenon
<1>4. QED
  BY <1>2, <1>3 DEF NewFd

\* The acceptor's invariant holds at the start.
LEMMA ServerInitInv == ServerInit => ServerTypeOK /\ ServerInv
<1> SUFFICES ASSUME ServerInit
             PROVE  ServerTypeOK /\ ServerInv
  OBVIOUS
<1>1. MAXFDS \in Fds /\ 0 # NotOwned /\ 0 \notin Threads
  BY ServerAssumption DEF Fds, NotOwned, Threads
<1>2. ServerTypeOK
  <2>1. TypeOK /\ backlog \in 0 .. MaxArrivals /\ arrived \in 0 .. MaxArrivals
    BY PoolTypeInit, ServerAssumption DEF ServerInit
  <2>2. owner \in [Fds -> Threads \cup {0, NotOwned}]
    BY DEF ServerInit
  <2>3. {registered, ready, events_, lastEvents_} \subseteq BOOLEAN
    BY DEF ServerInit
  <2>4. QED
    BY <2>1, <2>2, <2>3 DEF ServerInit, ServerTypeOK
<1>3. at = "construct" /\ pc = "create" /\ cur = 1 /\ backlog <= arrived
  BY DEF ServerInit, Init
<1>4. OwnerFacts /\ DescriptorsOwned
  BY <1>1 DEF ServerInit, OwnerFacts, DescriptorsOwned
<1>5. PhaseFacts /\ ChannelFacts
  BY <1>3 DEF PhaseFacts, ChannelFacts
<1>6. QED
  BY <1>2, <1>4, <1>5 DEF ServerInv

\* A connection accepted is dealt to a loop that exists.
LEMMA DealtToLoop ==
  ServerTypeOK /\ PoolInv /\ pc = "serving" =>
    loops_[next_ + 1] \in Threads /\ alive[loops_[next_ + 1]]
<1> SUFFICES ASSUME ServerTypeOK, PoolInv, pc = "serving"
             PROVE  loops_[next_ + 1] \in Threads /\ alive[loops_[next_ + 1]]
  OBVIOUS
<1>1. next_ + 1 \in Threads
  BY PoolAssumption DEF ServerTypeOK, TypeOK, Threads
<1>2. loops_[next_ + 1] = next_ + 1
  BY <1>1 DEF PoolInv, ServeFacts, Published, Threads
<1>3. QED
  BY <1>1, <1>2 DEF PoolInv, ServeFacts, ThreadFacts

\* Steps that leave the descriptors, and the loops that own them, alone.
LEMMA OwnersKept ==
  ASSUME OwnerFacts, DescriptorsOwned, UNCHANGED connVars,
         faults \subseteq faults',
         \A i \in Threads : alive[i] => alive'[i],
         at' \in {"construct", "aborted", "start"}
           => at \in {"construct", "aborted", "start"}
  PROVE  (OwnerFacts /\ DescriptorsOwned)'
  BY DEF OwnerFacts, DescriptorsOwned, connVars

\* Every step of the server keeps its types.
LEMMA ServerTypeStep ==
  ServerTypeOK /\ TypeOK' /\ PoolInv /\ ServerInv /\ [ServerNext]_allVars
    => ServerTypeOK'
<1> SUFFICES ASSUME ServerTypeOK, TypeOK', PoolInv, ServerInv,
                    [ServerNext]_allVars
             PROVE  ServerTypeOK'
  OBVIOUS
<1> USE DEF ServerTypeOK
<1>1. CASE StartPool \/ Destroy \/ ConstructServer \/ UNCHANGED allVars
  BY <1>1 DEF StartPool, Destroy, ConstructServer, allVars, acceptorVars,
              sockVars, chanVars, connVars
<1>2. CASE Arrive
  BY <1>2, ServerAssumption
     DEF Arrive, chanVars, connVars, ServerInv, PhaseFacts
<1>3. CASE StartAcceptor \/ Poll \/ HandThisConn
  BY <1>3 DEF StartAcceptor, Poll, HandThisConn, EpollCtl, Watch, connVars
<1>4. CASE Accept
  <2>1. NewFd \in Fds
    BY NewFdClosed DEF ServerInv, Closed
  <2>2. loops_[next_ + 1] \in Threads
    BY <1>4, DealtToLoop DEF Accept, TakeConnection, GetNextLoop
  <2>3. backlog' \in 0 .. MaxArrivals
    BY <1>4, ServerAssumption DEF Accept, TakeConnection
  <2>4. owner' \in [Fds -> Threads \cup {0, NotOwned}] /\ queued' \subseteq Fds
    BY <1>4, <2>1, <2>2 DEF Accept, TakeConnection, Refuse, connVars
  <2>5. QED
    BY <1>4, <2>3, <2>4 DEF Accept, TakeConnection
<1>5. CASE NonBlockingFails
  <2>1. backlog' \in 0 .. MaxArrivals
    BY <1>5, ServerAssumption DEF NonBlockingFails
  <2>2. owner' \in [Fds -> Threads \cup {0, NotOwned}]
    BY <1>5 DEF NonBlockingFails
  <2>3. faults' \subseteq {"accept", "fcntl", "epoll"} /\ at' = "conn"
    BY <1>5 DEF NonBlockingFails
  <2>4. QED
    BY <1>5, <2>1, <2>2, <2>3 DEF NonBlockingFails, chanVars
<1>6. CASE BacklogEmpty \/ AcceptFails
  BY <1>6 DEF BacklogEmpty, AcceptFails, EndAccept, EventsAfter, sockVars,
              connVars
<1>7. ASSUME NEW fd \in Fds, NewEvent(fd) \/ CloseFd(fd)
      PROVE  ServerTypeOK'
  BY <1>7 DEF NewEvent, CloseFd, sockVars, chanVars
<1>8. CASE LoopThreads
  BY <1>8 DEF LoopThreads, FreeOf, sockVars, chanVars, connVars
<1>9. QED
  BY <1>1, <1>2, <1>3, <1>4, <1>5, <1>6, <1>7, <1>8 DEF ServerNext, Acceptor

\* Every step of the server keeps the invariant.
LEMMA ServerStep ==
  ServerTypeOK /\ PoolInv /\ ServerInv /\ [ServerNext]_allVars => ServerInv'
<1> SUFFICES ASSUME ServerTypeOK, PoolInv, ServerInv, [ServerNext]_allVars
             PROVE  ServerInv'
  OBVIOUS
<1> USE DEF ServerInv
<1>1. CASE StartPool
  <2>1. UNCHANGED alive
    BY <1>1 DEF StartPool, MainNext, Create, WaitLatch, WaitLoop, ReturnLoop,
                TestLoop, QuitLoop, WakeLoop, Join, CreateFails, WakeUp,
                threadVars
  <2>2. PhaseFacts'
    BY <1>1 DEF StartPool, MainNext, Create, WaitLatch, WaitLoop, ReturnLoop,
                TestLoop, QuitLoop, WakeLoop, Join, CreateFails, WakeUp,
                PhaseFacts,
                Starting, acceptorVars, sockVars
  <2>3. ChannelFacts'
    BY <1>1 DEF StartPool, ChannelFacts, acceptorVars, sockVars, chanVars
  <2>4. QED
    BY <1>1, <2>1, <2>2, <2>3, OwnersKept DEF StartPool, acceptorVars
<1>2. CASE Destroy
  <2>1. UNCHANGED alive
    BY <1>2 DEF Destroy, Shutdown, TestLoop, QuitLoop, WakeLoop, Join,
                threadVars
  <2>2. PhaseFacts'
    BY <1>2 DEF Destroy, Shutdown, TestLoop, QuitLoop, WakeLoop, Join, GoOn,
                PhaseFacts, Stopping, acceptorVars, sockVars
  <2>3. ChannelFacts'
    BY <1>2 DEF Destroy, ChannelFacts, acceptorVars, sockVars, chanVars
  <2>4. QED
    BY <1>2, <2>1, <2>2, <2>3, OwnersKept DEF Destroy, acceptorVars
<1>3. CASE \/ Arrive \/ ConstructServer \/ StartAcceptor \/ Poll
           \/ BacklogEmpty \/ HandThisConn \/ UNCHANGED allVars
  <2>1. UNCHANGED <<pc, cur, alive, connVars>> /\ faults \subseteq faults'
    BY <1>3 DEF Arrive, ConstructServer, StartAcceptor, Poll, BacklogEmpty,
                EndAccept, HandThisConn, EpollCtl, allVars, acceptorVars, vars,
                threadVars
  <2>2. at' \in {"construct", "aborted", "start"}
          => at \in {"construct", "aborted", "start"}
    BY <1>3 DEF Arrive, ConstructServer, StartAcceptor, Poll, BacklogEmpty,
                EndAccept, HandThisConn, allVars, acceptorVars
  <2>3. (OwnerFacts /\ DescriptorsOwned)'
    BY <2>1, <2>2, OwnersKept
  <2>4. CASE Arrive
    BY <2>1, <2>3, <2>4 DEF Arrive, PhaseFacts, ChannelFacts, chanVars,
                            ServerTypeOK
  <2>5. CASE ConstructServer
    BY <2>1, <2>3, <2>5 DEF ConstructServer, PhaseFacts, ChannelFacts,
                            sockVars, Starting
  <2>6. CASE StartAcceptor
    BY <2>1, <2>3, <2>6 DEF StartAcceptor, EpollCtl, Watch, PhaseFacts,
                            ChannelFacts
  <2>7. CASE Poll
    BY <2>1, <2>3, <2>7 DEF Poll, PhaseFacts, ChannelFacts
  <2>8. CASE BacklogEmpty
    BY <2>1, <2>3, <2>8 DEF BacklogEmpty, EndAccept, EventsAfter, PhaseFacts,
                            ChannelFacts, sockVars
  <2>9. CASE HandThisConn
    BY <2>1, <2>3, <2>9 DEF HandThisConn, EpollCtl, Watch, PhaseFacts,
                            ChannelFacts
  <2>10. CASE UNCHANGED allVars
    BY <2>1, <2>3, <2>10 DEF allVars, acceptorVars, sockVars, chanVars,
                             PhaseFacts, ChannelFacts
  <2>11. QED
    BY <1>3, <2>4, <2>5, <2>6, <2>7, <2>8, <2>9, <2>10
<1>4. CASE Accept
  <2>1. NewFd \in Fds /\ owner[NewFd] = 0
    BY NewFdClosed DEF Closed
  <2>2. loops_[next_ + 1] \in Threads /\ alive[loops_[next_ + 1]]
    BY <1>4, DealtToLoop DEF Accept, TakeConnection, GetNextLoop
  <2>3. UNCHANGED <<alive, at, faults>>
    BY <1>4 DEF Accept, TakeConnection, GetNextLoop, threadVars
  <2>4. PhaseFacts'
    BY <1>4, <2>3 DEF Accept, TakeConnection, GetNextLoop, PhaseFacts,
                      ServerTypeOK
  <2>5. ChannelFacts'
    BY <1>4 DEF Accept, TakeConnection, ChannelFacts
  <2>6. CASE Refused(NewFd)
    BY <1>4, <2>3, <2>4, <2>5, <2>6, OwnersKept
       DEF Accept, TakeConnection, Refuse
  <2>7. CASE ~Refused(NewFd)
    <3>1. NewFd # MAXFDS
      BY <2>7, ServerAssumption DEF Refused
    <3>2. 0 \notin Threads /\ NotOwned \notin Threads
      BY DEF Threads, NotOwned
    <3>3. /\ owner' = [owner EXCEPT ![NewFd] = loops_[next_ + 1]]
          /\ queued' = queued \cup {NewFd}
      BY <1>4, <2>7 DEF Accept, TakeConnection
    <3>4. OwnerFacts'
      BY <1>4, <2>1, <2>2, <3>1, <3>3
         DEF OwnerFacts, ServerTypeOK, Accept, TakeConnection
    <3>5. DescriptorsOwned'
      BY <2>1, <2>2, <2>3, <3>2, <3>3 DEF DescriptorsOwned, ServerTypeOK
    <3>6. QED
      BY <2>4, <2>5, <3>4, <3>5
  <2>8. QED
    BY <2>6, <2>7
<1>5. CASE NonBlockingFails
  <2>1. NewFd \in Fds /\ owner[NewFd] = 0 /\ NewFd # MAXFDS
    BY <1>5, NewFdClosed, ServerAssumption
       DEF Closed, NonBlockingFails, Refused
  <2>2. UNCHANGED <<alive, queued>> /\ NotOwned \notin Threads
    BY <1>5 DEF NonBlockingFails, GetNextLoop, threadVars, NotOwned, Threads
  <2>3. PhaseFacts'
    BY <1>5 DEF NonBlockingFails, GetNextLoop, PhaseFacts, ServerTypeOK
  <2>4. ChannelFacts'
    BY <1>5 DEF NonBlockingFails, ChannelFacts
  <2>5. NewFd \notin queued
    BY <2>1 DEF OwnerFacts, Threads
  <2>6. OwnerFacts'
    BY <1>5, <2>1, <2>2, <2>5
       DEF OwnerFacts, ServerTypeOK, NonBlockingFails
  <2>7. DescriptorsOwned'
    BY <1>5, <2>1, <2>2 DEF DescriptorsOwned, ServerTypeOK, NonBlockingFails
  <2>8. QED
    BY <2>3, <2>4, <2>6, <2>7
<1>6. CASE AcceptFails
  <2>1. PhaseFacts' /\ ChannelFacts'
    BY <1>6 DEF AcceptFails, EndAccept, EventsAfter, PhaseFacts, ChannelFacts,
                sockVars, vars
  <2>2. (OwnerFacts /\ DescriptorsOwned)'
    BY <1>6 DEF AcceptFails, EndAccept, OwnerFacts, DescriptorsOwned,
                connVars, vars, threadVars
  <2>3. QED
    BY <2>1, <2>2
<1>7. ASSUME NEW fd \in Fds, NewEvent(fd) \/ CloseFd(fd)
      PROVE  ServerInv'
  <2>1. UNCHANGED <<vars, at, sockVars, chanVars, faults>>
    BY <1>7 DEF NewEvent, CloseFd
  <2>2. PhaseFacts' /\ ChannelFacts'
    BY <2>1 DEF PhaseFacts, ChannelFacts, vars, sockVars, chanVars
  <2>3. UNCHANGED alive
    BY <2>1 DEF vars, threadVars
  <2>4. CASE NewEvent(fd)
    BY <2>1, <2>2, <2>3, <2>4 DEF NewEvent, OwnerFacts, DescriptorsOwned
  <2>5. CASE CloseFd(fd)
    <3>1. 0 \notin Threads /\ 0 # NotOwned
      BY DEF Threads, NotOwned
    <3>2. QED
      BY <2>1, <2>2, <2>3, <2>5, <3>1
         DEF CloseFd, OwnerFacts, DescriptorsOwned, ServerTypeOK
  <2>6. QED
    BY <1>7, <2>4, <2>5
<1>8. CASE LoopThreads
  <2>1. PICK i \in Threads :
          /\ ThreadNext(i)
          /\ IF alive[i] /\ ~alive'[i] THEN FreeOf(i) ELSE UNCHANGED connVars
          /\ UNCHANGED <<at, sockVars, chanVars, faults>>
    BY <1>8 DEF LoopThreads
  <2>2. PhaseFacts'
    BY <2>1 DEF ThreadNext, StoreTid, CountDown, Construct, Publish, EnterLoop,
                LeaveLoop, ClearLoop, Finish, Notify, PhaseFacts, Starting,
                Stopping, sockVars
  <2>3. ChannelFacts'
    BY <2>1 DEF ChannelFacts, sockVars, chanVars
  <2>4. \A j \in Threads : j # i => alive'[j] = alive[j]
    BY <2>1 DEF ThreadNext, StoreTid, CountDown, Construct, Publish, EnterLoop,
                LeaveLoop, ClearLoop, Finish, ServerTypeOK, TypeOK
  <2>5. CASE alive[i] /\ ~alive'[i]
    <3>1. FreeOf(i) /\ UNCHANGED <<at, faults>>
      BY <2>1, <2>5
    <3>2. 0 \notin Threads /\ 0 # NotOwned
      BY DEF Threads, NotOwned
    <3>3. \A fd \in Fds :
            owner'[fd] = IF owner[fd] = i THEN 0 ELSE owner[fd]
      BY <3>1 DEF FreeOf
    <3>4. OwnerFacts'
      <4>1. MAXFDS \in Fds /\ queued \subseteq Fds
        BY ServerAssumption DEF Fds, ServerTypeOK
      <4>2. QED
        BY <3>1, <3>3, <4>1 DEF FreeOf, OwnerFacts
    <3>5. DescriptorsOwned'
      BY <2>4, <3>1, <3>2, <3>3 DEF DescriptorsOwned
    <3>6. QED
      BY <2>2, <2>3, <3>4, <3>5
  <2>6. CASE ~(alive[i] /\ ~alive'[i])
    BY <2>1, <2>2, <2>3, <2>4, <2>6, OwnersKept
  <2>7. QED
    BY <2>5, <2>6
<1>9. QED
  BY <1>1, <1>2, <1>3, <1>4, <1>5, <1>6, <1>7, <1>8 DEF ServerNext, Acceptor

\* The pool's invariant and the acceptor's, of the server.
THEOREM ServerInvariant ==
  ServerSpec => [](ServerTypeOK /\ PoolInv /\ ServerInv)
<1>1. ServerInit => ServerTypeOK /\ PoolInv /\ ServerInv
  BY ServerInitInv, PoolInit DEF ServerInit
<1>2. ServerTypeOK /\ PoolInv /\ ServerInv /\ [ServerNext]_allVars
        => (ServerTypeOK /\ PoolInv /\ ServerInv)'
  <2> SUFFICES ASSUME ServerTypeOK, PoolInv, ServerInv, [ServerNext]_allVars
               PROVE  (ServerTypeOK /\ PoolInv /\ ServerInv)'
    OBVIOUS
  <2>1. TypeOK
    BY DEF ServerTypeOK
  <2>2. TypeOK' /\ PoolInv'
    BY <2>1, ServerSteps, PoolTypeStep, PoolStep DEF PoolInv
  <2>3. QED
    BY <2>2, ServerTypeStep, ServerStep
<1>3. QED
  BY <1>1, <1>2, PTL DEF ServerSpec

\* The variables of the server keep their types.
THEOREM ServerTypes == ServerSpec => []ServerTypeOK
  BY ServerInvariant, PTL

\* An open descriptor belongs to a loop that exists, through the round robin,
\* the reuse of numbers and the destruction of the pool.
THEOREM OwnersExist == ServerSpec => []DescriptorsOwned
<1>1. ServerInv => DescriptorsOwned
  BY DEF ServerInv
<1>2. QED
  BY <1>1, ServerInvariant, PTL

\* Between two turns of the main loop epoll watches the listening socket and
\* has an edge for whatever waits in it, unless epoll_ctl, fcntl or accept has
\* failed.
THEOREM ListensBetweenTurns == ServerSpec => []AcceptorListens
<1>1. ServerInv => AcceptorListens
  BY DEF ServerInv, ChannelFacts, AcceptorListens
<1>2. QED
  BY <1>1, ServerInvariant, PTL
=============================================================================

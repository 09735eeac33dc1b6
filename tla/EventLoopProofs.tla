--------------------------- MODULE EventLoopProofs ---------------------------
(***************************************************************************)
(* Theorems about EventLoop, for any set of posting threads and of tasks:  *)
(* its type, the absence of lost wake-ups, and that every step of it is a  *)
(* step of the abstract queue (module TaskQueue) or leaves that unchanged. *)
(***************************************************************************)
EXTENDS EventLoop, SequenceTheorems, TLAPS

-----------------------------------------------------------------------------
(* Types.                                                                  *)

\* queueInLoop and runInLoop on the loop's own thread keep the types.
LEMMA OwnCallTypes ==
  ASSUME TypeOK, NEW t \in Tasks, QueueFromLoop(t) \/ RunHere(t)
  PROVE  /\ fresh' \in SUBSET Tasks
         /\ pendingFunctors_' \in Seq(Tasks)
         /\ wakeupCount' \in Nat
         /\ wakeupEdge' \in BOOLEAN
<1>1. CASE QueueFromLoop(t)
  <2>1. pendingFunctors_' \in Seq(Tasks)
    BY <1>1, AppendProperties DEF QueueFromLoop, TypeOK
  <2>2. SignalEventfd \/ UNCHANGED wakeVars
    BY <1>1 DEF QueueFromLoop
  <2>3. wakeupCount' \in Nat
    BY <2>2 DEF TypeOK, SignalEventfd, wakeVars
  <2>4. wakeupEdge' \in BOOLEAN
    BY <2>2, Zenon DEF TypeOK, SignalEventfd, wakeVars
  <2>5. QED
    BY <1>1, <2>1, <2>3, <2>4 DEF QueueFromLoop, TypeOK
<1>2. CASE RunHere(t)
  BY <1>2 DEF RunHere, TypeOK, wakeVars
<1>3. QED
  BY <1>1, <1>2

\* The state of the loop always has the types of TypeOK.
LEMMA TypeStep == TypeOK /\ [Next]_vars => TypeOK'
<1> SUFFICES ASSUME TypeOK, [Next]_vars
             PROVE  TypeOK'
  OBVIOUS
<1> USE DEF TypeOK, LoopPcs, Channels
<1>1. CASE LoopStart
  BY <1>1 DEF LoopStart, wakeVars
<1>2. CASE CheckQuit
  BY <1>2 DEF CheckQuit, wakeVars
<1>3. CASE Poll
  BY <1>3 DEF Poll, EventfdReported
<1>4. CASE HandleWakeup
  BY <1>4 DEF HandleWakeup
<1>5. CASE HandleIo
  <2>1. CASE \E t \in Tasks : QueueFromLoop(t) \/ RunHere(t)
    BY <1>5, <2>1, OwnCallTypes DEF HandleIo
  <2>2. CASE UNCHANGED <<fresh, pendingFunctors_, wakeVars>>
    BY <1>5, <2>2 DEF HandleIo, wakeVars
  <2>3. QED
    BY <1>5, <2>1, <2>2 DEF HandleIo
<1>6. CASE EndHandling
  BY <1>6 DEF EndHandling, wakeVars
<1>7. CASE SwapPending
  BY <1>7 DEF SwapPending, wakeVars
<1>8. CASE RunFunctor
  BY <1>8, HeadTailProperties DEF RunFunctor, wakeVars
<1>9. CASE FunctorCalls
  BY <1>9, OwnCallTypes DEF FunctorCalls, loopVars
<1>10. CASE FunctorQuits
  BY <1>10 DEF FunctorQuits, wakeVars, loopVars
<1>11. CASE FunctorReturns
  BY <1>11 DEF FunctorReturns, wakeVars
<1>12. CASE EndPending
  BY <1>12 DEF EndPending, wakeVars
<1>13. ASSUME NEW p \in Posters, Quit(p)
       PROVE  TypeOK'
  BY <1>13 DEF Quit, wakeVars, loopVars
<1>14. ASSUME NEW p \in Posters, Wakeup(p)
       PROVE  TypeOK'
  BY <1>14 DEF Wakeup, SignalEventfd, loopVars
<1>15. ASSUME NEW p \in Posters, NEW t \in Tasks, QueueInLoop(p, t)
       PROVE  TypeOK'
  BY <1>15 DEF QueueInLoop, wakeVars, loopVars
<1>16. CASE IoArrives
  BY <1>16 DEF IoArrives, wakeVars, loopVars
<1>17. CASE UNCHANGED vars
  BY <1>17 DEF vars
<1>18. QED
  BY <1>1, <1>2, <1>3, <1>4, <1>5, <1>6, <1>7, <1>8, <1>9, <1>10, <1>11,
     <1>12, <1>13, <1>14, <1>15, <1>16, <1>17 DEF Next, LoopNext

\* TypeOK is an invariant of the event loop.
THEOREM TypeCorrect == SafeSpec => []TypeOK
<1>1. ASSUME Init
      PROVE  TypeOK
  <2>1. /\ pendingFunctors_ \in Seq(Tasks)
        /\ functors \in Seq(Tasks)
        /\ ran \in Seq(Tasks)
    BY <1>1, EmptySeq DEF Init
  <2>2. /\ quit_ \in BOOLEAN /\ callingPendingFunctors_ \in BOOLEAN
        /\ wakeupEdge \in BOOLEAN /\ ioReady \in BOOLEAN
        /\ quitRequested \in BOOLEAN
    BY <1>1, Zenon DEF Init
  <2>3. /\ pc \in LoopPcs /\ active \in SUBSET Channels
        /\ wakeupCount \in Nat /\ fresh \in SUBSET Tasks
    BY <1>1 DEF Init, LoopPcs
  <2>4. posterPc \in [Posters -> {"idle", "wakeup"}]
    BY <1>1 DEF Init
  <2>5. QED
    BY <2>1, <2>2, <2>3, <2>4, Zenon DEF TypeOK
<1>2. QED
  BY <1>1, TypeStep, PTL DEF SafeSpec

-----------------------------------------------------------------------------
(* No lost wake-up.                                                        *)

\* Writing to the eventfd makes epoll_wait report it.
LEMMA SignalWakes ==
  ASSUME TypeOK, SignalEventfd
  PROVE  EventfdReported'
BY DEF TypeOK, SignalEventfd, EventfdReported

\* A step of another thread, or an arrival, loses no announced wake-up.
LEMMA WakeupStays ==
  ASSUME TypeOK, WakeupComing,
         UNCHANGED wakeVars \/ SignalEventfd,
         UNCHANGED posterPc
  PROVE  WakeupComing'
BY SignalWakes DEF WakeupComing, EventfdReported, wakeVars

\* Every step keeps the invariant.
LEMMA LoopInvStep == TypeOK /\ LoopInv /\ [Next]_vars => LoopInv'
<1> SUFFICES ASSUME TypeOK, LoopInv, [Next]_vars
             PROVE  LoopInv'
  OBVIOUS
<1> USE DEF LoopInv, ReadFindsCounter
<1>1. CASE LoopStart
  BY <1>1, WakeupStays DEF LoopStart, wakeVars
<1>2. CASE CheckQuit
  BY <1>2, WakeupStays DEF CheckQuit, wakeVars
<1>3. CASE Poll
  <2>1. pc = "poll" /\ pc' = "handle" /\ UNCHANGED <<wakeupCount, functors>>
    BY <1>3 DEF Poll
  <2>2. "wakeup" \in active' => wakeupCount' > 0
    BY <1>3 DEF Poll, EventfdReported
  <2>3. QED
    BY <2>1, <2>2
<1>4. CASE HandleWakeup
  BY <1>4 DEF HandleWakeup
<1>5. CASE HandleIo
  BY <1>5 DEF HandleIo, QueueFromLoop, RunHere, SignalEventfd, wakeVars,
              TypeOK
<1>6. CASE EndHandling
  BY <1>6, WakeupStays DEF EndHandling, wakeVars
<1>7. CASE SwapPending
  BY <1>7 DEF SwapPending
<1>8. CASE RunFunctor
  <2>1. UNCHANGED <<wakeVars, posterPc, pendingFunctors_, active>>
        /\ pc = "run" /\ pc' = "body"
    BY <1>8 DEF RunFunctor
  <2>2. WakeupComing => WakeupComing'
    BY <2>1, WakeupStays
  <2>3. QED
    BY <2>1, <2>2, <1>8 DEF RunFunctor, wakeVars
<1>9. CASE FunctorCalls
  BY <1>9, WakeupStays, SignalWakes
     DEF FunctorCalls, QueueFromLoop, RunHere, loopVars, WakeupComing
<1>10. CASE FunctorQuits
  BY <1>10, WakeupStays DEF FunctorQuits, wakeVars, loopVars
<1>11. CASE FunctorReturns
  BY <1>11, WakeupStays DEF FunctorReturns, wakeVars
<1>12. CASE EndPending
  BY <1>12, WakeupStays DEF EndPending, wakeVars
<1>13. ASSUME NEW p \in Posters, Quit(p)
       PROVE  LoopInv'
  <2>1. WakeupComing'
    BY <1>13 DEF Quit, WakeupComing, TypeOK
  <2>2. QED
    BY <1>13, <2>1 DEF Quit, wakeVars, loopVars
<1>14. ASSUME NEW p \in Posters, Wakeup(p)
       PROVE  LoopInv'
  <2>1. WakeupComing'
    BY <1>14, SignalWakes DEF Wakeup, WakeupComing
  <2>2. wakeupCount' > 0
    BY <1>14 DEF Wakeup, SignalEventfd, TypeOK
  <2>3. QED
    BY <1>14, <2>1, <2>2 DEF Wakeup, loopVars
<1>15. ASSUME NEW p \in Posters, NEW t \in Tasks, QueueInLoop(p, t)
       PROVE  LoopInv'
  <2>1. WakeupComing'
    BY <1>15 DEF QueueInLoop, WakeupComing, TypeOK
  <2>2. QED
    BY <1>15, <2>1 DEF QueueInLoop, wakeVars, loopVars
<1>16. CASE IoArrives
  BY <1>16, WakeupStays DEF IoArrives, wakeVars, loopVars
<1>17. CASE UNCHANGED vars
  BY <1>17 DEF vars, WakeupComing, EventfdReported
<1>18. QED
  BY <1>1, <1>2, <1>3, <1>4, <1>5, <1>6, <1>7, <1>8, <1>9, <1>10, <1>11,
     <1>12, <1>13, <1>14, <1>15, <1>16, <1>17 DEF Next, LoopNext

\* LoopInv is an invariant, whatever the number of threads and of tasks.
THEOREM LoopInvariant == SafeSpec => []LoopInv
<1>1. Init => LoopInv
  BY DEF Init, LoopInv, ReadFindsCounter
<1>2. QED
  BY <1>1, LoopInvStep, TypeCorrect, PTL DEF SafeSpec

\* queueInLoop and quit never leave the loop asleep in epoll_wait with work
\* to do: the loop is woken, or the caller is about to wake it.
THEOREM WakeupNotLost == SafeSpec => []NoLostWakeup
<1>1. LoopInv => NoLostWakeup
  BY DEF LoopInv, NoLostWakeup
<1>2. QED
  BY <1>1, LoopInvariant, PTL

\* EventLoop::handleRead never finds the eventfd empty, so readn, which
\* does not recognise EAGAIN there, always returns.
THEOREM CounterRead == SafeSpec => []ReadFindsCounter
<1>1. LoopInv => ReadFindsCounter
  BY DEF LoopInv
<1>2. QED
  BY <1>1, LoopInvariant, PTL

-----------------------------------------------------------------------------
(* Refinement of TaskQueue.                                                *)

\* Appending to the queued vector appends to the abstract queue.
LEMMA AppendToQueue ==
  ASSUME NEW S, NEW f \in Seq(S), NEW q \in Seq(S), NEW t \in S
  PROVE  f \o Append(q, t) = Append(f \o q, t)
<1>1. <<t>> \in Seq(S)
  OBVIOUS
<1>2. f \o (q \o <<t>>) = (f \o q) \o <<t>>
  BY <1>1, ConcatAssociative
<1>3. f \o q \in Seq(S)
  BY ConcatProperties
<1>4. QED
  BY <1>2, <1>3, AppendIsConcat

\* The oldest entry of the abstract queue is the head of the running batch.
LEMMA HeadOfQueue ==
  ASSUME NEW S, NEW f \in Seq(S), NEW q \in Seq(S), f # <<>>
  PROVE  /\ f \o q # <<>>
         /\ Head(f \o q) = Head(f)
         /\ Tail(f \o q) = Tail(f) \o q
<1>1. /\ f \o q \in Seq(S)
      /\ Len(f \o q) = Len(f) + Len(q)
      /\ \A i \in 1 .. Len(f) + Len(q) :
           (f \o q)[i] = IF i <= Len(f) THEN f[i] ELSE q[i - Len(f)]
  BY ConcatProperties
<1>2. Len(f) \in Nat \ {0} /\ Len(q) \in Nat
  BY EmptySeq, LenProperties
<1>3. f \o q # <<>>
  BY <1>1, <1>2, EmptySeq
<1>4. Head(f \o q) = Head(f)
  BY <1>1, <1>2
<1>5. Tail(f \o q) = Tail(f) \o q
  <2>1. /\ Tail(f) \in Seq(S)
        /\ Len(Tail(f)) = Len(f) - 1
        /\ \A i \in 1 .. Len(Tail(f)) : Tail(f)[i] = f[i + 1]
    BY HeadTailProperties
  <2>2. /\ Tail(f \o q) \in Seq(S)
        /\ Len(Tail(f \o q)) = Len(f \o q) - 1
        /\ \A i \in 1 .. Len(Tail(f \o q)) : Tail(f \o q)[i] = (f \o q)[i + 1]
    BY <1>1, <1>3, HeadTailProperties
  <2>3. /\ Tail(f) \o q \in Seq(S)
        /\ Len(Tail(f) \o q) = Len(Tail(f)) + Len(q)
        /\ \A i \in 1 .. Len(Tail(f)) + Len(q) :
             (Tail(f) \o q)[i] = IF i <= Len(Tail(f)) THEN Tail(f)[i]
                                 ELSE q[i - Len(Tail(f))]
    BY <2>1, ConcatProperties
  <2>4. Len(Tail(f \o q)) = Len(Tail(f) \o q)
    BY <1>1, <1>2, <2>1, <2>2, <2>3
  <2>5. ASSUME NEW i \in 1 .. Len(Tail(f \o q))
        PROVE  Tail(f \o q)[i] = (Tail(f) \o q)[i]
    <3>1. i \in 1 .. Len(f) + Len(q) - 1
      BY <2>5, <1>1, <1>2, <2>2
    <3>2. Tail(f \o q)[i] = IF i + 1 <= Len(f) THEN f[i + 1]
                            ELSE q[i + 1 - Len(f)]
      BY <3>1, <1>1, <1>2, <2>2
    <3>3. (Tail(f) \o q)[i] = IF i <= Len(f) - 1 THEN f[i + 1]
                              ELSE q[i - (Len(f) - 1)]
      BY <3>1, <1>2, <2>1, <2>3
    <3>4. QED
      BY <3>1, <3>2, <3>3, <1>2
  <2>6. QED
    BY <2>2, <2>3, <2>4, <2>5, SeqEqual
<1>6. QED
  BY <1>3, <1>4, <1>5

\* The loop's own queueInLoop and runInLoop are abstract steps.
LEMMA OwnCallSimulated ==
  ASSUME TypeOK, UNCHANGED <<functors, ran, quitRequested>>,
         NEW t \in Tasks, QueueFromLoop(t) \/ RunHere(t)
  PROVE  TQ!Next
<1>1. CASE QueueFromLoop(t)
  <2>1. TQ!Submit(t)
    BY <1>1, AppendToQueue DEF QueueFromLoop, TQ!Submit, TypeOK
  <2>2. QED
    BY <2>1 DEF TQ!Next
<1>2. CASE RunHere(t)
  BY <1>2 DEF RunHere, TQ!ExecuteNow, TQ!Next
<1>3. QED
  BY <1>1, <1>2

\* Every step is one of the abstract queue's, or none.
LEMMA StepSimulated == TypeOK /\ LoopInv /\ [Next]_vars => [TQ!Next]_TQ!vars
<1> SUFFICES ASSUME TypeOK, LoopInv, [Next]_vars
             PROVE  TQ!Next \/ UNCHANGED TQ!vars
  OBVIOUS
<1>1. CASE \/ LoopStart \/ CheckQuit \/ Poll \/ HandleWakeup \/ EndHandling
           \/ FunctorReturns \/ EndPending \/ IoArrives
           \/ \E p \in Posters : Wakeup(p)
  BY <1>1 DEF LoopStart, CheckQuit, Poll, HandleWakeup, EndHandling,
              FunctorReturns, EndPending, IoArrives, Wakeup, loopVars,
              TQ!vars
<1>2. CASE HandleIo
  <2>1. CASE \E t \in Tasks : QueueFromLoop(t) \/ RunHere(t)
    BY <1>2, <2>1, OwnCallSimulated DEF HandleIo
  <2>2. CASE UNCHANGED <<fresh, pendingFunctors_, wakeVars>>
    BY <1>2, <2>2 DEF HandleIo, TQ!vars
  <2>3. QED
    BY <1>2, <2>1, <2>2 DEF HandleIo
<1>3. CASE SwapPending
  <2>1. functors = <<>>
    BY <1>3 DEF SwapPending, LoopInv
  <2>2. functors' \o pendingFunctors_' = functors \o pendingFunctors_
    BY <1>3, <2>1, ConcatEmptySeq DEF SwapPending, TypeOK
  <2>3. QED
    BY <1>3, <2>2 DEF SwapPending, TQ!vars
<1>4. CASE RunFunctor
  <2>1. TQ!Execute
    BY <1>4, HeadOfQueue DEF RunFunctor, TypeOK, TQ!Execute
  <2>2. QED
    BY <2>1 DEF TQ!Next
<1>5. CASE FunctorCalls
  BY <1>5, OwnCallSimulated DEF FunctorCalls, loopVars
<1>6. CASE FunctorQuits \/ \E p \in Posters : Quit(p)
  BY <1>6 DEF FunctorQuits, Quit, loopVars, TQ!Close, TQ!Next
<1>7. ASSUME NEW p \in Posters, NEW t \in Tasks, QueueInLoop(p, t)
      PROVE  TQ!Next
  <2>1. TQ!Submit(t)
    BY <1>7, AppendToQueue DEF QueueInLoop, TQ!Submit, TypeOK, loopVars
  <2>2. QED
    BY <2>1 DEF TQ!Next
<1>8. CASE UNCHANGED vars
  BY <1>8 DEF vars, TQ!vars
<1>9. QED
  BY <1>1, <1>2, <1>3, <1>4, <1>5, <1>6, <1>7, <1>8 DEF Next, LoopNext

\* Every behaviour of the loop is one of the abstract queue: what is handed
\* over runs once and in the order in which it was handed over.
THEOREM QueueRefined == SafeSpec => RefinesTaskQueue
<1>1. Init => TQ!Init
  BY DEF Init, TQ!Init
<1>2. QED
  BY <1>1, StepSimulated, TypeCorrect, LoopInvariant, PTL
     DEF SafeSpec, RefinesTaskQueue, TQ!SafeSpec
=============================================================================

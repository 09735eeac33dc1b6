------------------------------ MODULE EventLoop ------------------------------
(***************************************************************************)
(* One EventLoop (EventLoop.cpp) and the threads that hand it work.        *)
(*                                                                         *)
(* The loop thread runs loop(): wait in epoll_wait, dispatch the active    *)
(* channels, run the queued functors, test quit_, again.  Other threads    *)
(* call queueInLoop, runInLoop and quit, which write to the loop's eventfd *)
(* so that epoll_wait returns.  The mutex of queueInLoop and of            *)
(* doPendingFunctors is held for one vector operation each, so each of     *)
(* those is one step here; the eventfd write comes after the unlock and is *)
(* a step of its own.  The eventfd is watched edge triggered (EPOLLET).    *)
(*                                                                         *)
(* The channels of other descriptors are one channel "io" whose handler    *)
(* may call back into the loop.  What connections do is module Reactor.    *)
(***************************************************************************)
EXTENDS Naturals, Sequences

CONSTANTS
  Posters,    \* the threads, other than the loop's own, that use the loop
  Tasks       \* the functors; each is handed to the loop at most once

VARIABLES
  pc,                       \* where the loop thread is in loop()
  quit_,
  callingPendingFunctors_,
  pendingFunctors_,         \* shared vector, guarded by mutex_
  functors,                 \* local of doPendingFunctors: what is left of it
  active,                   \* local ret of loop(): channels left to dispatch
  wakeupCount,              \* counter of the eventfd wakeupFd_
  wakeupEdge,               \* the eventfd is on epoll's ready list
  ioReady,                  \* some other descriptor is on epoll's ready list
  posterPc,                 \* where each poster is in queueInLoop / quit
  fresh,                    \* history: tasks nobody handed over yet
  ran,                      \* history: functors run by doPendingFunctors
  quitRequested             \* history: quit() has been called

loopVars == <<pc, callingPendingFunctors_, functors, active>>
wakeVars == <<wakeupCount, wakeupEdge>>
vars == <<pc, quit_, callingPendingFunctors_, pendingFunctors_, functors,
          active, wakeupCount, wakeupEdge, ioReady, posterPc, fresh, ran,
          quitRequested>>

Channels == {"wakeup", "io"}
LoopPcs == {"constructed", "check", "poll", "handle", "pending", "run",
            "body", "exited"}

TypeOK ==
  /\ pc \in LoopPcs
  /\ quit_ \in BOOLEAN
  /\ callingPendingFunctors_ \in BOOLEAN
  /\ pendingFunctors_ \in Seq(Tasks)
  /\ functors \in Seq(Tasks)
  /\ active \in SUBSET Channels
  /\ wakeupCount \in Nat
  /\ wakeupEdge \in BOOLEAN
  /\ ioReady \in BOOLEAN
  /\ posterPc \in [Posters -> {"idle", "wakeup"}]
  /\ fresh \in SUBSET Tasks
  /\ ran \in Seq(Tasks)
  /\ quitRequested \in BOOLEAN

\* The constructed loop: EventLoop::EventLoop has registered the eventfd.
Init ==
  /\ pc = "constructed"
  /\ quit_ = FALSE
  /\ callingPendingFunctors_ = FALSE
  /\ pendingFunctors_ = <<>>
  /\ functors = <<>>
  /\ active = {}
  /\ wakeupCount = 0
  /\ wakeupEdge = FALSE
  /\ ioReady = FALSE
  /\ posterPc = [p \in Posters |-> "idle"]
  /\ fresh = Tasks
  /\ ran = <<>>
  /\ quitRequested = FALSE

-----------------------------------------------------------------------------
(* The eventfd.                                                            *)

\* write(wakeupFd_, 1): the counter grows and the descriptor becomes ready.
SignalEventfd ==
  /\ wakeupCount' = wakeupCount + 1
  /\ wakeupEdge' = TRUE

\* epoll_wait asks the descriptor again before it reports it: an eventfd
\* whose counter is zero is not reported although it was on the ready list.
EventfdReported == wakeupEdge /\ wakeupCount > 0

-----------------------------------------------------------------------------
(* Other threads.                                                          *)

\* queueInLoop (or runInLoop, which forwards to it) up to the unlock.
QueueInLoop(p, t) ==
  /\ pc # "exited"                    \* callers stay within its lifetime
  /\ posterPc[p] = "idle"
  /\ t \in fresh
  /\ fresh' = fresh \ {t}
  /\ pendingFunctors_' = Append(pendingFunctors_, t)
  /\ posterPc' = [posterPc EXCEPT ![p] = "wakeup"]
  /\ UNCHANGED <<loopVars, wakeVars, quit_, ioReady, ran, quitRequested>>

\* Seeded fault: quit() does not wake the loop.
QuitSilently(p) ==
  /\ pc # "exited"
  /\ ~quitRequested
  /\ quit_' = TRUE
  /\ quitRequested' = TRUE
  /\ UNCHANGED <<loopVars, wakeVars, pendingFunctors_, ioReady, posterPc,
                 fresh, ran>>

\* quit(): called once, by ~EventLoopThread, hence the bound.
Quit(p) ==
  /\ pc # "exited"
  /\ posterPc[p] = "idle"
  /\ ~quitRequested
  /\ quit_' = TRUE
  /\ quitRequested' = TRUE
  /\ posterPc' = [posterPc EXCEPT ![p] = "wakeup"]
  /\ UNCHANGED <<loopVars, wakeVars, pendingFunctors_, ioReady, fresh, ran>>

\* The wakeup() at the end of queueInLoop and of quit.
Wakeup(p) ==
  /\ posterPc[p] = "wakeup"
  /\ SignalEventfd
  /\ posterPc' = [posterPc EXCEPT ![p] = "idle"]
  /\ UNCHANGED <<loopVars, quit_, pendingFunctors_, ioReady, fresh, ran,
                 quitRequested>>

\* A descriptor other than the eventfd becomes ready.
IoArrives ==
  /\ ~ioReady
  /\ ioReady' = TRUE
  /\ UNCHANGED <<loopVars, wakeVars, quit_, pendingFunctors_, posterPc,
                 fresh, ran, quitRequested>>

-----------------------------------------------------------------------------
(* The loop thread.                                                        *)

\* Entry of loop(): note that it clears quit_.
LoopStart ==
  /\ pc = "constructed"
  /\ pc' = "check"
  /\ quit_' = FALSE
  /\ UNCHANGED <<callingPendingFunctors_, functors, active, wakeVars,
                 pendingFunctors_, ioReady, posterPc, fresh, ran,
                 quitRequested>>

\* while(!quit_)
CheckQuit ==
  /\ pc = "check"
  /\ pc' = IF quit_ THEN "exited" ELSE "poll"
  /\ UNCHANGED <<quit_, callingPendingFunctors_, functors, active, wakeVars,
                 pendingFunctors_, ioReady, posterPc, fresh, ran,
                 quitRequested>>

\* Seeded fault: getEventsRequest also hands out the entry of a descriptor
\* that has no channel any more.
PollAnyEntry ==
  /\ pc = "poll"
  /\ ioReady
  /\ active' = {"none"}
  /\ ioReady' = FALSE
  /\ pc' = "handle"
  /\ UNCHANGED <<quit_, callingPendingFunctors_, functors, wakeVars,
                 pendingFunctors_, posterPc, fresh, ran, quitRequested>>

\* Epoll::poll comes back with at least one channel.  A time-out of
\* epoll_wait stays inside poll and changes nothing.
Poll ==
  /\ pc = "poll"
  /\ EventfdReported \/ ioReady
  /\ active' = (IF EventfdReported THEN {"wakeup"} ELSE {})
                 \cup (IF ioReady THEN {"io"} ELSE {})
  /\ wakeupEdge' = FALSE
  /\ ioReady' = FALSE
  /\ pc' = "handle"
  /\ UNCHANGED <<quit_, callingPendingFunctors_, functors, wakeupCount,
                 pendingFunctors_, posterPc, fresh, ran, quitRequested>>

\* Seeded fault: the channel stays among the channels to dispatch.
HandleWakeupAgain ==
  /\ pc = "handle"
  /\ "wakeup" \in active
  /\ wakeupCount' = 0
  /\ UNCHANGED <<loopVars, quit_, wakeupEdge, pendingFunctors_, ioReady,
                 posterPc, fresh, ran, quitRequested>>

\* handleEvents of the eventfd's channel: EventLoop::handleRead empties the
\* counter, handleConn finds the registration unchanged.
HandleWakeup ==
  /\ pc = "handle"
  /\ "wakeup" \in active
  /\ active' = active \ {"wakeup"}
  /\ wakeupCount' = 0
  /\ UNCHANGED <<pc, quit_, callingPendingFunctors_, functors, wakeupEdge,
                 pendingFunctors_, ioReady, posterPc, fresh, ran,
                 quitRequested>>

\* Seeded fault: a call on the loop's own thread never wakes the loop.
QueueFromLoopSilently(t) ==
  /\ t \in fresh
  /\ fresh' = fresh \ {t}
  /\ pendingFunctors_' = Append(pendingFunctors_, t)
  /\ UNCHANGED wakeVars

\* queueInLoop called on the loop's own thread.
QueueFromLoop(t) ==
  /\ t \in fresh
  /\ fresh' = fresh \ {t}
  /\ pendingFunctors_' = Append(pendingFunctors_, t)
  /\ IF callingPendingFunctors_ THEN SignalEventfd ELSE UNCHANGED wakeVars

\* runInLoop called on the loop's own thread: t runs on the spot.
RunHere(t) ==
  /\ t \in fresh
  /\ fresh' = fresh \ {t}
  /\ UNCHANGED <<pendingFunctors_, wakeVars>>

\* handleEvents of another channel, whose handler may use the loop.
HandleIo ==
  /\ pc = "handle"
  /\ "io" \in active
  /\ active' = active \ {"io"}
  /\ \/ \E t \in Tasks : QueueFromLoop(t) \/ RunHere(t)
     \/ UNCHANGED <<fresh, pendingFunctors_, wakeVars>>
  /\ UNCHANGED <<pc, quit_, callingPendingFunctors_, functors, ioReady,
                 posterPc, ran, quitRequested>>

\* All active channels are dispatched.
EndHandling ==
  /\ pc = "handle"
  /\ active = {}
  /\ pc' = "pending"
  /\ UNCHANGED <<quit_, callingPendingFunctors_, functors, active, wakeVars,
                 pendingFunctors_, ioReady, posterPc, fresh, ran,
                 quitRequested>>

\* Seeded fault: callingPendingFunctors_ is not set.
SwapUnmarked ==
  /\ pc = "pending"
  /\ functors' = pendingFunctors_
  /\ pendingFunctors_' = <<>>
  /\ pc' = "run"
  /\ UNCHANGED <<quit_, callingPendingFunctors_, active, wakeVars, ioReady,
                 posterPc, fresh, ran, quitRequested>>

\* Seeded fault: the vector is copied and not swapped.
CopyPending ==
  /\ pc = "pending"
  /\ callingPendingFunctors_' = TRUE
  /\ functors' = pendingFunctors_
  /\ pc' = "run"
  /\ UNCHANGED <<quit_, pendingFunctors_, active, wakeVars, ioReady,
                 posterPc, fresh, ran, quitRequested>>

\* doPendingFunctors: the swap under the mutex.
SwapPending ==
  /\ pc = "pending"
  /\ callingPendingFunctors_' = TRUE
  /\ functors' = pendingFunctors_
  /\ pendingFunctors_' = <<>>
  /\ pc' = "run"
  /\ UNCHANGED <<quit_, active, wakeVars, ioReady, posterPc, fresh, ran,
                 quitRequested>>

\* doPendingFunctors: the next functor of the batch is called ...
RunFunctor ==
  /\ pc = "run"
  /\ functors # <<>>
  /\ ran' = Append(ran, Head(functors))
  /\ functors' = Tail(functors)
  /\ pc' = "body"
  /\ UNCHANGED <<quit_, callingPendingFunctors_, active, wakeVars,
                 pendingFunctors_, ioReady, posterPc, fresh, quitRequested>>

\* ... may itself use the loop, any number of times ...
FunctorCalls ==
  /\ pc = "body"
  /\ \E t \in Tasks : QueueFromLoop(t) \/ RunHere(t)
  /\ UNCHANGED <<loopVars, quit_, ioReady, posterPc, ran, quitRequested>>

\* ... or end the loop (quit() on the loop's own thread does not wake it) ...
FunctorQuits ==
  /\ pc = "body"
  /\ ~quitRequested
  /\ quit_' = TRUE
  /\ quitRequested' = TRUE
  /\ UNCHANGED <<loopVars, wakeVars, pendingFunctors_, ioReady, posterPc,
                 fresh, ran>>

\* ... and returns.
FunctorReturns ==
  /\ pc = "body"
  /\ pc' = "run"
  /\ UNCHANGED <<quit_, callingPendingFunctors_, functors, active, wakeVars,
                 pendingFunctors_, ioReady, posterPc, fresh, ran,
                 quitRequested>>

\* End of doPendingFunctors; Epoll::handleExpired follows, which does not
\* call back into the loop (module Reactor).
EndPending ==
  /\ pc = "run"
  /\ functors = <<>>
  /\ callingPendingFunctors_' = FALSE
  /\ pc' = "check"
  /\ UNCHANGED <<quit_, functors, active, wakeVars, pendingFunctors_,
                 ioReady, posterPc, fresh, ran, quitRequested>>

LoopNext ==
  \/ LoopStart \/ CheckQuit \/ Poll \/ HandleWakeup \/ HandleIo
  \/ EndHandling \/ SwapPending \/ RunFunctor \/ FunctorCalls
  \/ FunctorQuits \/ FunctorReturns \/ EndPending

Next ==
  \/ LoopNext
  \/ \E p \in Posters :
       Quit(p) \/ Wakeup(p) \/ \E t \in Tasks : QueueInLoop(p, t)
  \/ IoArrives

SafeSpec == Init /\ [][Next]_vars

\* The kernel schedules the loop thread and a thread that is in the middle
\* of queueInLoop or quit.  Nobody has to post, and no I/O has to arrive.
Fairness ==
  /\ WF_vars(LoopNext)
  /\ \A p \in Posters : WF_vars(Wakeup(p))

Spec == SafeSpec /\ Fairness

-----------------------------------------------------------------------------
(* Properties.                                                             *)

\* A thread is about to write to the eventfd, or the write has not been
\* reported yet: epoll_wait is going to return.
WakeupComing ==
  \/ EventfdReported
  \/ \E p \in Posters : posterPc[p] = "wakeup"

\* No lost wake-up: the loop never waits in epoll_wait while a functor is
\* queued or quit is asked for, unless a wake-up is on its way.  This is what
\* the order "push, then wakeup" of queueInLoop, its test of
\* callingPendingFunctors_ and the order "dispatch, then doPendingFunctors"
\* of loop() are for.
NoLostWakeup ==
  pc = "poll" /\ (pendingFunctors_ # <<>> \/ quit_) => WakeupComing

\* EventLoop::handleRead never reads an empty eventfd.  readn keeps read's
\* result in a size_t, so on EAGAIN it would not stop (Util.cpp:21-35).
ReadFindsCounter == "wakeup" \in active => wakeupCount > 0

\* The inductive strengthening of the two invariants above: a wake-up that
\* was consumed is made up for by the doPendingFunctors of the same round
\* (pc "handle" or "pending"), and the functors' own calls see the flag that
\* makes queueInLoop write to the eventfd.
LoopInv ==
  /\ pendingFunctors_ # <<>> => pc \in {"handle", "pending"} \/ WakeupComing
  /\ pc = "poll" /\ quit_ => WakeupComing
  /\ pc \in {"run", "body"} => callingPendingFunctors_
  /\ functors # <<>> => pc \in {"run", "body"}
  /\ active # {} => pc = "handle"
  /\ ReadFindsCounter

\* quit() on a loop that has entered loop() ends it.
QuitStopsLoop == (quit_ /\ pc # "constructed") ~> pc = "exited"

\* README.md:167: the loop runs until a round finds the quit state set and
\* then leaves.  So a call of quit() is followed by the exit of the loop.
EveryQuitStopsLoop == quitRequested ~> pc = "exited"

\* What is handed to the loop waits in functors, then in pendingFunctors_.
TQ == INSTANCE TaskQueue WITH
        queue <- functors \o pendingFunctors_, done <- ran,
        open <- ~quitRequested

\* EventLoop implements the abstract queue: a functor runs once, and after
\* all that were queued before it.
RefinesTaskQueue == TQ!SafeSpec

\* And as long as nobody has called quit() the oldest one runs eventually.
QueueMovesOn == TQ!Progress
=============================================================================

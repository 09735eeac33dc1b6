------------------------------ MODULE TaskQueue ------------------------------
(***************************************************************************)
(* What EventLoop promises its callers: a task handed to a loop with       *)
(* queueInLoop is executed once, after every task handed over before it,   *)
(* and as long as nobody asks the loop to quit it is executed eventually.  *)
(* Threads, the mutex, the eventfd and the batches do not appear here.     *)
(***************************************************************************)
EXTENDS Sequences

CONSTANT Tasks              \* the callbacks (Functor) that can be handed over

VARIABLES fresh,            \* tasks not yet handed to the loop
          queue,            \* handed over, not yet executed, oldest first
          done,             \* executed, in order of execution
          open              \* nobody has asked the loop to quit

vars == <<fresh, queue, done, open>>

Init ==
  /\ fresh = Tasks
  /\ queue = <<>>
  /\ done = <<>>
  /\ open = TRUE

\* A thread hands task t to the loop.
Submit(t) ==
  /\ t \in fresh
  /\ fresh' = fresh \ {t}
  /\ queue' = Append(queue, t)
  /\ UNCHANGED <<done, open>>

\* A thread of the loop runs t at once, without queueing it (runInLoop).
ExecuteNow(t) ==
  /\ t \in fresh
  /\ fresh' = fresh \ {t}
  /\ UNCHANGED <<queue, done, open>>

\* The oldest task is executed.
Execute ==
  /\ queue # <<>>
  /\ done' = Append(done, Head(queue))
  /\ queue' = Tail(queue)
  /\ UNCHANGED <<fresh, open>>

\* Somebody asks the loop to quit; what is queued may or may not still run.
Close ==
  /\ open
  /\ open' = FALSE
  /\ UNCHANGED <<fresh, queue, done>>

Next ==
  \/ \E t \in Tasks : Submit(t) \/ ExecuteNow(t)
  \/ Execute
  \/ Close

SafeSpec == Init /\ [][Next]_vars

\* The oldest task does not wait for ever.
Progress == WF_vars(Execute /\ open)

Spec == SafeSpec /\ Progress
=============================================================================

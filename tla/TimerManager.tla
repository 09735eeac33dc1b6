---------------------------- MODULE TimerManager -----------------------------
(***************************************************************************)
(* The timers of one event loop (Timer.cpp): a heap of TimerNodes ordered  *)
(* by expiredTime_, from which nodes are removed lazily.  A connection     *)
(* that is heard of has its node marked deleted (clearReq) and gets a new  *)
(* one; the old one stays in the heap until it comes to the top.  After    *)
(* each round the loop sweeps the heap (handleExpiredEvent): it pops the   *)
(* deleted and the expired nodes from the top and stops at the first node  *)
(* that is neither.                                                        *)
(*                                                                         *)
(* Times are taken from a clock that starts again at zero, tv_sec % 10000, *)
(* while expiredTime_ does not: a node whose time falls behind the start   *)
(* of the next period has an expiredTime_ the clock never reaches.         *)
(***************************************************************************)
EXTENDS Naturals

CONSTANTS
  Conns,
  Timeouts,         \* the time-outs in use, in ticks
  Wrap,             \* ticks after which the clock starts again (10000 s)
  MaxNow,           \* bound on the time the model runs
  None

ASSUME TimerAssumption ==
  /\ None \notin Conns
  /\ Timeouts \subseteq Nat \ {0}
  /\ Wrap \in Nat \ {0}
  /\ MaxNow \in Nat

VARIABLES
  now,              \* true time, which the code does not see
  clock,            \* what isValid and the constructor compute
  heap,             \* timerNodeQueue, as a set of nodes
  timer_,           \* per connection: the node linkTimer linked, or None
  conn,             \* per connection: what became of it; "left" is open
                    \* without a timer (HttpData.cpp:303-304)
  due,              \* history, per connection: when its time-out has passed
  sweeping          \* the loop is in handleExpiredEvent

vars == <<now, clock, heap, timer_, conn, due, sweeping>>

\* due is history here too: the true time at which the node is to expire.
Node == [SPHttpData : Conns \cup {None}, expiredTime_ : Nat,
         deleted_ : BOOLEAN, due : Nat]

ASSUME NoneAssumption == None \notin Node

TypeOK ==
  /\ now \in Nat
  /\ clock \in 0 .. Wrap - 1
  /\ heap \subseteq Node
  /\ timer_ \in [Conns -> Node \cup {None}]
  /\ conn \in [Conns -> {"new", "open", "left", "closed", "expired"}]
  /\ due \in [Conns -> Nat]
  /\ sweeping \in BOOLEAN

Init ==
  /\ now = 0
  /\ clock = 0
  /\ heap = {}
  /\ timer_ = [c \in Conns |-> None]
  /\ conn = [c \in Conns |-> "new"]
  /\ due = [c \in Conns |-> 0]
  /\ sweeping = FALSE

-----------------------------------------------------------------------------

\* Seeded fault: one tick too many before the clock starts again.
TickPast ==
  /\ now < MaxNow
  /\ now' = now + 1
  /\ clock' = IF clock = Wrap THEN 0 ELSE clock + 1
  /\ UNCHANGED <<heap, timer_, conn, due, sweeping>>

\* A second of tv_sec % 10000: the clock starts again, true time does not.
Tick ==
  /\ now < MaxNow
  /\ now' = now + 1
  /\ clock' = IF clock + 1 = Wrap THEN 0 ELSE clock + 1
  /\ UNCHANGED <<heap, timer_, conn, due, sweeping>>

\* Seeded fault: the node is marked deleted and keeps its connection.
ClearNothing(n) == [n EXCEPT !.deleted_ = TRUE]

\* TimerNode::clearReq: the node lets go of its connection.
ClearReq(n) == [n EXCEPT !.SPHttpData = None, !.deleted_ = TRUE]

\* The constructor of TimerNode, for connection c.
NewNode(c, timeout) ==
  [SPHttpData |-> c, expiredTime_ |-> clock + timeout,
   deleted_ |-> FALSE, due |-> now + timeout]

\* Seeded fault: clearReq is not called.
SeparatedNot(c) == heap

\* HttpData::seperateTimer on heap h: timer_.lock() finds the linked node as
\* long as the heap holds it.
Separated(c) ==
  IF timer_[c] \in heap THEN (heap \ {timer_[c]}) \cup {ClearReq(timer_[c])}
  ELSE heap

\* TimerManager::addTimer, for the registration of a connection.
AddTimer(c, timeout) ==
  /\ ~sweeping
  /\ conn[c] = "new"
  /\ conn' = [conn EXCEPT ![c] = "open"]
  /\ heap' = heap \cup {NewNode(c, timeout)}
  /\ timer_' = [timer_ EXCEPT ![c] = NewNode(c, timeout)]
  /\ due' = [due EXCEPT ![c] = now + timeout]
  /\ UNCHANGED <<now, clock, sweeping>>

\* Seeded fault: addTimer comes before seperateTimer.
RestartSwapped(c, timeout) ==
  /\ ~sweeping
  /\ conn[c] = "open"
  /\ heap' = heap \cup {ClearReq(NewNode(c, timeout))}
  /\ timer_' = [timer_ EXCEPT ![c] = None]
  /\ due' = [due EXCEPT ![c] = now + timeout]
  /\ UNCHANGED <<now, clock, conn, sweeping>>

\* HttpData::handleConn of a connection that stays: seperateTimer, addTimer.
RestartTimer(c, timeout) ==
  /\ ~sweeping
  /\ conn[c] = "open"
  /\ heap' = Separated(c) \cup {NewNode(c, timeout)}
  /\ timer_' = [timer_ EXCEPT ![c] = NewNode(c, timeout)]
  /\ due' = [due EXCEPT ![c] = now + timeout]
  /\ UNCHANGED <<now, clock, conn, sweeping>>

\* HttpData::handleConn of a connection that gets no new timer: it has
\* called seperateTimer, and either queues handleClose, or, for one whose
\* client has ended its input while output is left, only sets events_.  An
\* event of one left so comes here again, and finds no node to separate.
SeparateAnd(c, end) ==
  /\ ~sweeping
  /\ conn[c] \in {"open", "left"}
  /\ heap' = Separated(c)
  /\ timer_' = [timer_ EXCEPT ![c] = None]
  /\ conn' = [conn EXCEPT ![c] = end]
  /\ UNCHANGED <<now, clock, due, sweeping>>

SeparateAndClose(c) == SeparateAnd(c, "closed")
SeparateAndLeave(c) == SeparateAnd(c, "left")

-----------------------------------------------------------------------------
(* TimerManager::handleExpiredEvent.                                       *)

\* Seeded fault: TimerCmp the wrong way round.
Bottoms == {n \in heap : \A m \in heap : n.expiredTime_ >= m.expiredTime_}

\* priority_queue::top under TimerCmp; nodes of equal time in any order.
Tops == {n \in heap : \A m \in heap : n.expiredTime_ <= m.expiredTime_}

IsValid(n) == clock < n.expiredTime_

StartSweep ==
  /\ ~sweeping
  /\ sweeping' = TRUE
  /\ UNCHANGED <<now, clock, heap, timer_, conn, due>>

\* A node marked deleted is popped; it holds no connection any more.
PopDeleted ==
  /\ sweeping
  /\ \E n \in Tops : n.deleted_ /\ heap' = heap \ {n}
  /\ UNCHANGED <<now, clock, timer_, conn, due, sweeping>>

\* A node whose time is up is popped, and ~TimerNode closes its connection.
PopExpired ==
  /\ sweeping
  /\ \E n \in Tops :
       /\ ~n.deleted_
       /\ ~IsValid(n)
       /\ heap' = heap \ {n}
       /\ conn' = [conn EXCEPT ![n.SPHttpData] = "expired"]
  /\ UNCHANGED <<now, clock, timer_, due, sweeping>>

\* The heap is empty, or the node on top is neither deleted nor expired.
EndSweep ==
  /\ sweeping
  /\ heap = {} \/ \E n \in Tops : ~n.deleted_ /\ IsValid(n)
  /\ sweeping' = FALSE
  /\ UNCHANGED <<now, clock, heap, timer_, conn, due>>

Next ==
  \/ Tick
  \/ \E c \in Conns, timeout \in Timeouts :
       AddTimer(c, timeout) \/ RestartTimer(c, timeout)
  \/ \E c \in Conns : SeparateAndClose(c) \/ SeparateAndLeave(c)
  \/ StartSweep \/ PopDeleted \/ PopExpired \/ EndSweep

Spec == Init /\ [][Next]_vars

-----------------------------------------------------------------------------
(* Properties.                                                             *)

\* A node that is not deleted holds an open connection, is the one node its
\* connection knows, and is due when the connection's last time-out is.  A
\* deleted one holds nothing, so popping it closes nothing.
NodesMatch ==
  \A n \in heap :
    IF n.deleted_ THEN n.SPHttpData = None
    ELSE /\ n.SPHttpData \in Conns
         /\ conn[n.SPHttpData] = "open"
         /\ timer_[n.SPHttpData] = n
         /\ due[n.SPHttpData] = n.due

\* A connection that handleConn keeps has a node in the heap that holds it,
\* and knows it: seperateTimer and addTimer always come in that order.  The
\* one that handleConn leaves open without re-registering it has none, and
\* when the node expires is the clock's matter (SweepWithinPeriod).
KeptHasNode ==
  \A c \in Conns :
    /\ conn[c] = "open" =>
         timer_[c] \in heap /\ ~timer_[c].deleted_ /\ timer_[c].SPHttpData = c
    /\ conn[c] = "left" =>
         timer_[c] = None /\ \A n \in heap : n.SPHttpData # c

\* The clock's start from zero never brings a node's time forward: added to
\* the start of the current period, expiredTime_ is never before the true one.
NeverAhead == \A n \in heap : n.due <= n.expiredTime_ + (now - clock)

\* A connection is never closed by its timer before the time-out set by its
\* last event has truly passed, whatever the clock has done meanwhile.
NeverEarly ==
  [][\A c \in Conns :
       conn[c] = "open" /\ conn'[c] = "expired" => due[c] <= now]_vars

\* The node was set in an earlier period of the clock.
SetEarlier(n) == n.due - n.expiredTime_ # now - clock

\* How far a sweep can be relied on.  When it ends, each node left whose
\* time has passed was set in an earlier period of the clock: none is hidden
\* behind another.  And a node whose time falls behind the restart of the
\* clock is not popped by any sweep, ever: only seperateTimer, at a later
\* event of its connection, takes it out of use (README.md:159 says that a
\* node is gone at its time at the latest; run reactor_wrap).
SweepWithinPeriod ==
  [][/\ sweeping /\ ~sweeping' => \A n \in heap : now < n.due \/ SetEarlier(n)
     /\ \A n \in heap :
          ~n.deleted_ /\ Wrap <= n.expiredTime_ =>
            n \in heap' \/ ClearReq(n) \in heap']_vars
=============================================================================

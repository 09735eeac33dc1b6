----------------------------- MODULE TimerProofs -----------------------------
(***************************************************************************)
(* Theorems about TimerManager, for any connections, time-outs and period  *)
(* of the clock: no connection is closed early, whatever the clock does, a *)
(* sweep misses no node of the clock's current period whose time has come, *)
(* and takes none whose time falls behind the restart of the clock.        *)
(***************************************************************************)
EXTENDS TimerManager, TLAPS

\* What a step can disturb, apart from the types: the facts NeverEarly needs.
Inv == NodesMatch /\ KeptHasNode /\ NeverAhead

-----------------------------------------------------------------------------
(* Types.                                                                  *)

\* A new node, and a node that has let go of its connection, are nodes.
LEMMA NodeTypes ==
  ASSUME TypeOK
  PROVE  /\ \A c \in Conns, t \in Timeouts : NewNode(c, t) \in Node
         /\ \A n \in Node : ClearReq(n) \in Node
         /\ \A c \in Conns : Separated(c) \subseteq Node
<1>1. \A c \in Conns, t \in Timeouts : NewNode(c, t) \in Node
  BY TimerAssumption DEF TypeOK, NewNode, Node
<1>2. \A n \in Node : ClearReq(n) \in Node
  BY DEF ClearReq, Node
<1>3. \A c \in Conns : Separated(c) \subseteq Node
  BY <1>2 DEF Separated, TypeOK
<1>4. QED
  BY <1>1, <1>2, <1>3

\* Every step keeps the types.
LEMMA TypeStep == TypeOK /\ [Next]_vars => TypeOK'
<1> SUFFICES ASSUME TypeOK, [Next]_vars
             PROVE  TypeOK'
  OBVIOUS
<1>1. CASE Tick
  BY <1>1, TimerAssumption DEF Tick, TypeOK
<1>2. ASSUME NEW c \in Conns, NEW t \in Timeouts, AddTimer(c, t)
      PROVE  TypeOK'
  BY <1>2, NodeTypes, TimerAssumption DEF AddTimer, TypeOK
<1>3. ASSUME NEW c \in Conns, NEW t \in Timeouts, RestartTimer(c, t)
      PROVE  TypeOK'
  BY <1>3, NodeTypes, TimerAssumption DEF RestartTimer, TypeOK
<1>4. ASSUME NEW c \in Conns, SeparateAndClose(c) \/ SeparateAndLeave(c)
      PROVE  TypeOK'
  BY <1>4, NodeTypes DEF SeparateAndClose, SeparateAndLeave, SeparateAnd, TypeOK
<1>5. CASE StartSweep \/ EndSweep
  BY <1>5 DEF StartSweep, EndSweep, TypeOK
<1>6. CASE PopDeleted
  BY <1>6 DEF PopDeleted, TypeOK
<1>7. CASE PopExpired
  BY <1>7 DEF PopExpired, TypeOK
<1>8. CASE UNCHANGED vars
  BY <1>8 DEF vars, TypeOK
<1>9. QED
  BY <1>1, <1>2, <1>3, <1>4, <1>5, <1>6, <1>7, <1>8 DEF Next

\* The timers of a loop always have the types of TypeOK.
THEOREM TimerTypes == Spec => []TypeOK
<1>1. ASSUME Init
      PROVE  TypeOK
  <2>1. now \in Nat /\ clock \in 0 .. Wrap - 1
    BY <1>1, TimerAssumption DEF Init
  <2>2. heap \subseteq Node /\ timer_ \in [Conns -> Node \cup {None}]
    BY <1>1 DEF Init
  <2>3. /\ conn \in [Conns -> {"new", "open", "left", "closed", "expired"}]
        /\ due \in [Conns -> Nat]
    BY <1>1 DEF Init
  <2>4. sweeping \in BOOLEAN
    BY <1>1, Zenon DEF Init
  <2>5. QED
    BY <2>1, <2>2, <2>3, <2>4, Zenon DEF TypeOK
<1>2. QED
  BY <1>1, TypeStep, PTL DEF Spec

-----------------------------------------------------------------------------
(* The nodes and the connections agree.                                    *)

\* The node a connection knows is the only one that holds it, so once it is
\* separated no node does.
LEMMA SeparatedNodes ==
  ASSUME TypeOK, Inv, NEW c \in Conns, conn[c] \in {"open", "left"}
  PROVE  /\ \A n \in Separated(c) :
              /\ n.deleted_ => n.SPHttpData = None
              /\ ~n.deleted_ => n \in heap /\ n.SPHttpData # c
         /\ \A n \in heap : n # timer_[c] => n \in Separated(c)
         /\ \A n \in Separated(c) : n.due <= n.expiredTime_ + (now - clock)
<1>1. CASE conn[c] = "open"
  <2>1. timer_[c] \in heap /\ ~timer_[c].deleted_
    BY <1>1 DEF Inv, KeptHasNode
  <2>2. Separated(c) = (heap \ {timer_[c]}) \cup {ClearReq(timer_[c])}
    BY <2>1 DEF Separated
  <2>3. /\ ClearReq(timer_[c]).deleted_
        /\ ClearReq(timer_[c]).SPHttpData = None
        /\ ClearReq(timer_[c]).due = timer_[c].due
        /\ ClearReq(timer_[c]).expiredTime_ = timer_[c].expiredTime_
    BY <2>1 DEF ClearReq, TypeOK, Node
  <2>4. ASSUME NEW n \in heap \ {timer_[c]}
        PROVE  /\ n.deleted_ => n.SPHttpData = None
               /\ ~n.deleted_ => n \in heap /\ n.SPHttpData # c
    BY <2>4 DEF Inv, NodesMatch
  <2>5. QED
    BY <2>1, <2>2, <2>3, <2>4 DEF Inv, NeverAhead
<1>2. CASE conn[c] = "left"
  <2>1. timer_[c] \notin heap /\ \A n \in heap : n.SPHttpData # c
    BY <1>2, NoneAssumption DEF Inv, KeptHasNode, TypeOK
  <2>2. Separated(c) = heap
    BY <2>1 DEF Separated
  <2>3. QED
    BY <2>1, <2>2 DEF Inv, NodesMatch, NeverAhead
<1>3. QED
  BY <1>1, <1>2

\* A fresh node is due exactly when its time on the clock comes in the
\* current period.
LEMMA NewNodeDue ==
  ASSUME TypeOK, NEW c \in Conns, NEW t \in Timeouts
  PROVE  LET n == NewNode(c, t)
         IN /\ n.due = now + t
            /\ n.due <= n.expiredTime_ + (now - clock)
            /\ n.SPHttpData = c /\ ~n.deleted_
BY TimerAssumption DEF NewNode, TypeOK

\* Putting the node of c into a heap without other nodes of c keeps Inv.
LEMMA NewNodeKeepsInv ==
  ASSUME TypeOK, Inv, NEW c \in Conns, NEW t \in Timeouts,
         NewNode(c, t) \in heap',
         \A n \in heap' : n = NewNode(c, t) \/
           /\ n.deleted_ => n.SPHttpData = None
           /\ ~n.deleted_ => n \in heap /\ n.SPHttpData # c
           /\ n.due <= n.expiredTime_ + (now - clock),
         \A d \in Conns \ {c} : conn[d] = "open" => timer_[d] \in heap',
         timer_' = [timer_ EXCEPT ![c] = NewNode(c, t)],
         due' = [due EXCEPT ![c] = now + t],
         conn' = [conn EXCEPT ![c] = "open"],
         UNCHANGED <<now, clock>>
  PROVE  Inv'
<1> DEFINE new == NewNode(c, t)
<1>1. /\ new.due = now + t
      /\ new.due <= new.expiredTime_ + (now - clock)
      /\ new.SPHttpData = c /\ ~new.deleted_
  BY NewNodeDue
<1>2. timer_'[c] = new /\ due'[c] = new.due /\ conn'[c] = "open"
  BY <1>1 DEF TypeOK
<1>3. \A d \in Conns \ {c} : /\ timer_'[d] = timer_[d] /\ due'[d] = due[d]
                             /\ conn'[d] = conn[d]
  BY DEF TypeOK
<1> HIDE DEF new
<1>4. NodesMatch'
  <2> SUFFICES ASSUME NEW n \in heap'
               PROVE  IF n.deleted_ THEN n.SPHttpData = None
                      ELSE /\ n.SPHttpData \in Conns
                           /\ conn'[n.SPHttpData] = "open"
                           /\ timer_'[n.SPHttpData] = n
                           /\ due'[n.SPHttpData] = n.due
    BY DEF NodesMatch
  <2>1. CASE n = new
    BY <2>1, <1>1, <1>2
  <2>2. CASE n # new /\ n.deleted_
    BY <2>2 DEF new
  <2>3. CASE n # new /\ ~n.deleted_
    <3>1. n \in heap /\ n.SPHttpData \in Conns \ {c}
      BY <2>3 DEF Inv, NodesMatch, new
    <3>2. QED
      BY <2>3, <3>1, <1>3 DEF Inv, NodesMatch
  <2>4. QED
    BY <2>1, <2>2, <2>3
<1>5. KeptHasNode'
  <2> SUFFICES ASSUME NEW d \in Conns
               PROVE  /\ conn'[d] = "open" =>
                           /\ timer_'[d] \in heap' /\ ~timer_'[d].deleted_
                           /\ timer_'[d].SPHttpData = d
                      /\ conn'[d] = "left" =>
                           /\ timer_'[d] = None
                           /\ \A n \in heap' : n.SPHttpData # d
    BY DEF KeptHasNode
  <2>1. CASE d = c
    BY <2>1, <1>1, <1>2 DEF new
  <2>2. CASE d # c /\ conn[d] = "open"
    BY <2>2, <1>3 DEF Inv, KeptHasNode
  <2>3. CASE d # c /\ conn[d] = "left"
    <3>1. timer_[d] = None /\ \A n \in heap : n.SPHttpData # d
      BY <2>3 DEF Inv, KeptHasNode
    <3>2. None # d
      BY TimerAssumption
    <3>3. \A n \in heap' : n.SPHttpData # d
      BY <2>3, <1>1, <3>1, <3>2 DEF new
    <3>4. QED
      BY <2>3, <1>3, <3>1, <3>3
  <2>4. QED
    BY <2>1, <2>2, <2>3, <1>3
<1>6. NeverAhead'
  BY <1>1 DEF NeverAhead, new
<1>7. QED
  BY <1>4, <1>5, <1>6 DEF Inv

\* Every step keeps Inv.
LEMMA InvStep == TypeOK /\ Inv /\ [Next]_vars => Inv'
<1> SUFFICES ASSUME TypeOK, Inv, [Next]_vars
             PROVE  Inv'
  OBVIOUS
<1>1. CASE Tick
  <2>1. NeverAhead'
    <3> SUFFICES ASSUME NEW n \in heap'
                 PROVE  n.due <= n.expiredTime_ + (now' - clock')
      BY DEF NeverAhead
    <3>1. n \in heap /\ n.due \in Nat /\ n.expiredTime_ \in Nat
      BY <1>1 DEF Tick, TypeOK, Node
    <3>2. n.due <= n.expiredTime_ + (now - clock)
      BY <3>1 DEF Inv, NeverAhead
    <3>3. /\ now \in Nat /\ clock \in Nat /\ now' = now + 1
          /\ clock' = 0 \/ clock' = clock + 1
      BY <1>1, TimerAssumption DEF Tick, TypeOK
    <3>4. CASE clock' = 0
      BY <3>1, <3>2, <3>3, <3>4
    <3>5. CASE clock' = clock + 1
      BY <3>1, <3>2, <3>3, <3>5
    <3>6. QED
      BY <3>3, <3>4, <3>5
  <2>2. QED
    BY <1>1, <2>1 DEF Tick, Inv, NodesMatch, KeptHasNode
<1>2. ASSUME NEW c \in Conns, NEW t \in Timeouts, AddTimer(c, t)
      PROVE  Inv'
  <2>1. heap' = heap \cup {NewNode(c, t)}
    BY <1>2 DEF AddTimer
  <2>2. \A n \in heap : /\ n.deleted_ => n.SPHttpData = None
                        /\ ~n.deleted_ => n.SPHttpData # c
                        /\ n.due <= n.expiredTime_ + (now - clock)
    BY <1>2 DEF AddTimer, Inv, NodesMatch, NeverAhead
  <2>3. \A d \in Conns \ {c} : conn[d] = "open" => timer_[d] \in heap'
    BY <2>1 DEF Inv, KeptHasNode
  <2>4. /\ timer_' = [timer_ EXCEPT ![c] = NewNode(c, t)]
        /\ due' = [due EXCEPT ![c] = now + t]
        /\ conn' = [conn EXCEPT ![c] = "open"]
        /\ UNCHANGED <<now, clock>>
    BY <1>2 DEF AddTimer
  <2>5. QED
    BY <2>1, <2>2, <2>3, <2>4, NewNodeKeepsInv
<1>3. ASSUME NEW c \in Conns, NEW t \in Timeouts, RestartTimer(c, t)
      PROVE  Inv'
  <2>1. conn[c] = "open" /\ conn' = [conn EXCEPT ![c] = "open"]
    BY <1>3 DEF RestartTimer, TypeOK
  <2>2. \A d \in Conns \ {c} : conn[d] = "open" => timer_[d] \in Separated(c)
    <3>1. ASSUME NEW d \in Conns \ {c}, conn[d] = "open"
          PROVE  timer_[d] \in heap /\ timer_[d] # timer_[c]
      BY <2>1, <3>1 DEF Inv, KeptHasNode
    <3>2. QED
      BY <2>1, <3>1, SeparatedNodes
  <2>3. QED
    BY <1>3, <2>1, <2>2, SeparatedNodes, NewNodeKeepsInv DEF RestartTimer
<1>4. ASSUME NEW c \in Conns, NEW end \in {"closed", "left"},
             SeparateAnd(c, end)
      PROVE  Inv'
  <2>1. /\ conn[c] \in {"open", "left"} /\ heap' = Separated(c)
        /\ UNCHANGED <<now, clock, due>>
    BY <1>4 DEF SeparateAnd
  <2>2. \A d \in Conns \ {c} : conn'[d] = conn[d] /\ timer_'[d] = timer_[d]
    BY <1>4 DEF SeparateAnd, TypeOK
  <2>3. conn'[c] = end /\ timer_'[c] = None
    BY <1>4 DEF SeparateAnd, TypeOK
  <2>4. NodesMatch'
    BY <2>1, <2>2, SeparatedNodes DEF Inv, NodesMatch
  <2>5. \A n \in heap' : n.SPHttpData # c
    BY <2>1, SeparatedNodes, TimerAssumption
  <2>6. KeptHasNode'
    <3> SUFFICES ASSUME NEW d \in Conns
                 PROVE  /\ conn'[d] = "open" =>
                             /\ timer_'[d] \in heap' /\ ~timer_'[d].deleted_
                             /\ timer_'[d].SPHttpData = d
                        /\ conn'[d] = "left" =>
                             /\ timer_'[d] = None
                             /\ \A n \in heap' : n.SPHttpData # d
      BY DEF KeptHasNode
    <3>1. CASE d = c
      BY <3>1, <2>3, <2>5
    <3>2. CASE d # c /\ conn[d] = "open"
      <4>1. /\ timer_[d] \in heap /\ ~timer_[d].deleted_
            /\ timer_[d].SPHttpData = d
        BY <3>2 DEF Inv, KeptHasNode
      <4>2. timer_[d] # timer_[c]
        BY <2>1, <3>2, <4>1, NoneAssumption DEF Inv, KeptHasNode, TypeOK
      <4>3. QED
        BY <2>1, <2>2, <3>2, <4>1, <4>2, SeparatedNodes
    <3>3. CASE d # c /\ conn[d] = "left"
      <4>1. timer_[d] = None /\ \A n \in heap : n.SPHttpData # d
        BY <3>3 DEF Inv, KeptHasNode
      <4>2. None # d
        BY TimerAssumption
      <4>3. \A n \in heap' : n.SPHttpData # d
        BY <2>1, <4>1, <4>2, SeparatedNodes
      <4>4. QED
        BY <2>2, <3>3, <4>1, <4>3
    <3>4. QED
      BY <2>2, <3>1, <3>2, <3>3
  <2>7. NeverAhead'
    BY <2>1, SeparatedNodes DEF NeverAhead
  <2>8. QED
    BY <2>4, <2>6, <2>7 DEF Inv
<1>5. CASE StartSweep \/ EndSweep
  BY <1>5 DEF StartSweep, EndSweep, Inv, NodesMatch, KeptHasNode, NeverAhead
<1>6. CASE PopDeleted
  BY <1>6 DEF PopDeleted, Inv, NodesMatch, KeptHasNode, NeverAhead
<1>7. CASE PopExpired
  <2>1. PICK n \in Tops : /\ ~n.deleted_
                          /\ heap' = heap \ {n}
                          /\ conn' = [conn EXCEPT ![n.SPHttpData] = "expired"]
                          /\ UNCHANGED <<now, clock, timer_, due, sweeping>>
    BY <1>7 DEF PopExpired
  <2>2. n \in heap /\ n.SPHttpData \in Conns /\ timer_[n.SPHttpData] = n
    BY <2>1 DEF Tops, Inv, NodesMatch
  <2>3. \A m \in heap' : m \in heap /\ m # n
    BY <2>1
  <2>4. \A m \in heap' : ~m.deleted_ => m.SPHttpData # n.SPHttpData
    BY <2>2, <2>3 DEF Inv, NodesMatch
  <2>5. NodesMatch'
    BY <2>1, <2>2, <2>3, <2>4 DEF Inv, NodesMatch, TypeOK
  <2>6. KeptHasNode'
    <3> SUFFICES ASSUME NEW d \in Conns
                 PROVE  /\ conn'[d] = "open" =>
                             /\ timer_[d] \in heap' /\ ~timer_[d].deleted_
                             /\ timer_[d].SPHttpData = d
                        /\ conn'[d] = "left" =>
                             /\ timer_[d] = None
                             /\ \A m \in heap' : m.SPHttpData # d
      BY <2>1 DEF KeptHasNode
    <3>1. conn'[n.SPHttpData] = "expired"
      BY <2>1, <2>2 DEF TypeOK
    <3>2. CASE d = n.SPHttpData
      BY <3>1, <3>2
    <3>3. CASE d # n.SPHttpData
      <4>1. conn'[d] = conn[d]
        BY <2>1, <3>3 DEF TypeOK
      <4>2. /\ conn[d] = "open" =>
                 /\ timer_[d] \in heap /\ ~timer_[d].deleted_
                 /\ timer_[d].SPHttpData = d
            /\ conn[d] = "left" =>
                 timer_[d] = None /\ \A m \in heap : m.SPHttpData # d
        BY DEF Inv, KeptHasNode
      <4>3. QED
        BY <2>1, <2>3, <3>3, <4>1, <4>2
    <3>4. QED
      BY <3>2, <3>3
  <2>7. QED
    BY <2>1, <2>3, <2>5, <2>6 DEF Inv, NeverAhead
<1>8. CASE UNCHANGED vars
  BY <1>8 DEF vars, Inv, NodesMatch, KeptHasNode, NeverAhead
<1>9. QED
  BY <1>1, <1>2, <1>3, <1>4, <1>5, <1>6, <1>7, <1>8
     DEF Next, SeparateAndClose, SeparateAndLeave

\* Nodes and connections agree in every reachable state, for any clock.
THEOREM TimerInvariant == Spec => []Inv
<1>1. Init => Inv
  BY DEF Init, Inv, NodesMatch, KeptHasNode, NeverAhead
<1>2. QED
  BY <1>1, InvStep, TimerTypes, PTL DEF Spec

\* A node marked deleted closes nothing, and no connection has two nodes.
THEOREM NodesAgree == Spec => []NodesMatch
<1>1. Inv => NodesMatch
  BY DEF Inv
<1>2. QED
  BY <1>1, TimerInvariant, PTL

\* A connection that handleConn keeps has one node and knows it, and one it
\* leaves open without re-registering it (HttpData.cpp:303-304) has none.
THEOREM NodeKnown == Spec => []KeptHasNode
<1>1. Inv => KeptHasNode
  BY DEF Inv
<1>2. QED
  BY <1>1, TimerInvariant, PTL

\* The clock's wrap never brings the time of a node forward.
THEOREM WrapOnlyDelays == Spec => []NeverAhead
<1>1. Inv => NeverAhead
  BY DEF Inv
<1>2. QED
  BY <1>1, TimerInvariant, PTL

-----------------------------------------------------------------------------
(* No connection is closed early.                                          *)

\* The step that closes a connection finds its time-out passed.
LEMMA ExpiryStep ==
  ASSUME TypeOK, Inv, [Next]_vars,
         NEW c \in Conns, conn[c] = "open", conn'[c] = "expired"
  PROVE  due[c] <= now
<1>1. CASE PopExpired
  <2>1. PICK n \in Tops : /\ ~n.deleted_ /\ ~IsValid(n)
                          /\ conn' = [conn EXCEPT ![n.SPHttpData] = "expired"]
    BY <1>1 DEF PopExpired
  <2>2. n \in heap /\ n.SPHttpData = c
    BY <2>1 DEF Tops, TypeOK
  <2>3. n.due = due[c] /\ n.due <= n.expiredTime_ + (now - clock)
    BY <2>1, <2>2 DEF Inv, NodesMatch, NeverAhead
  <2>4. /\ n.due \in Nat /\ n.expiredTime_ \in Nat
        /\ now \in Nat /\ clock \in Nat
    BY <2>2, TimerAssumption DEF TypeOK, Node
  <2>5. n.expiredTime_ <= clock
    BY <2>1, <2>4 DEF IsValid
  <2>6. QED
    BY <2>3, <2>4, <2>5
<1>2. CASE conn' = conn
  BY <1>2
<1>3. ASSUME NEW d \in Conns, NEW t \in Timeouts, AddTimer(d, t)
      PROVE  conn'[c] # "expired"
  BY <1>3 DEF AddTimer, TypeOK
<1>4. ASSUME NEW d \in Conns, SeparateAndClose(d) \/ SeparateAndLeave(d)
      PROVE  conn'[c] # "expired"
  BY <1>4 DEF SeparateAndClose, SeparateAndLeave, SeparateAnd, TypeOK
<1>5. QED
  BY <1>1, <1>2, <1>3, <1>4
     DEF Next, Tick, RestartTimer, StartSweep, PopDeleted, EndSweep, vars

\* TimerManager closes no connection before the time-out its last event set
\* has truly passed, for every clock period and every choice of time-outs.
THEOREM NoneClosedEarly == Spec => NeverEarly
<1>1. TypeOK /\ Inv /\ [Next]_vars =>
        [\A c \in Conns :
           conn[c] = "open" /\ conn'[c] = "expired" => due[c] <= now]_vars
  BY ExpiryStep
<1>2. QED
  BY <1>1, TimerTypes, TimerInvariant, PTL DEF Spec, NeverEarly

-----------------------------------------------------------------------------
(* What a sweep takes and what it does not.                                *)

\* The sweep ends at a node that is not due on the clock, so none behind it is.
LEMMA SweepEnds ==
  ASSUME TypeOK, EndSweep, NEW n \in heap
  PROVE  now < n.due \/ SetEarlier(n)
<1>1. PICK m \in Tops : IsValid(m)
  BY DEF EndSweep
<1>2. m \in heap /\ m.expiredTime_ <= n.expiredTime_
  BY <1>1 DEF Tops
<1>3. /\ n.due \in Nat /\ n.expiredTime_ \in Nat /\ m.expiredTime_ \in Nat
      /\ now \in Nat /\ clock \in Nat
  BY <1>2, TimerAssumption DEF TypeOK, Node
<1>4. QED
  BY <1>1, <1>2, <1>3 DEF IsValid, SetEarlier

\* Only its connection's next event takes a node out whose expiredTime_ is
\* one the clock does not reach.
LEMMA BehindRestartStays ==
  ASSUME TypeOK, [Next]_vars, NEW n \in heap, ~n.deleted_,
         Wrap <= n.expiredTime_
  PROVE  n \in heap' \/ ClearReq(n) \in heap'
<1>1. n.expiredTime_ \in Nat /\ clock \in Nat /\ clock < Wrap /\ Wrap \in Nat
  BY TimerAssumption DEF TypeOK, Node
<1>2. IsValid(n)
  BY <1>1 DEF IsValid
<1>3. \A c \in Conns : n \in Separated(c) \/ ClearReq(n) \in Separated(c)
  BY DEF Separated
<1>4. CASE PopDeleted \/ PopExpired
  BY <1>2, <1>4 DEF PopDeleted, PopExpired
<1>5. CASE UNCHANGED heap
  BY <1>5
<1>6. ASSUME NEW c \in Conns, NEW t \in Timeouts,
             AddTimer(c, t) \/ RestartTimer(c, t)
      PROVE  n \in heap' \/ ClearReq(n) \in heap'
  BY <1>3, <1>6 DEF AddTimer, RestartTimer
<1>7. ASSUME NEW c \in Conns, SeparateAndClose(c) \/ SeparateAndLeave(c)
      PROVE  n \in heap' \/ ClearReq(n) \in heap'
  BY <1>3, <1>7 DEF SeparateAndClose, SeparateAndLeave, SeparateAnd
<1>8. QED
  BY <1>4, <1>5, <1>6, <1>7 DEF Next, Tick, StartSweep, EndSweep, vars

\* When handleExpiredEvent has come to its end, no node of the clock's current
\* period is left in the heap whose time has passed, for any number of nodes,
\* deleted ones and equal times among them; and no sweep takes a node whose
\* time falls behind the restart of the clock.
THEOREM SweepReach == Spec => SweepWithinPeriod
<1>1. ASSUME [Next]_vars, sweeping, ~sweeping'
      PROVE  EndSweep
  BY <1>1 DEF Next, Tick, AddTimer, RestartTimer, SeparateAndClose,
              SeparateAndLeave, SeparateAnd, StartSweep, PopDeleted,
              PopExpired, vars
<1>2. TypeOK /\ [Next]_vars =>
        [/\ sweeping /\ ~sweeping' =>
              \A n \in heap : now < n.due \/ SetEarlier(n)
         /\ \A n \in heap :
              ~n.deleted_ /\ Wrap <= n.expiredTime_ =>
                n \in heap' \/ ClearReq(n) \in heap']_vars
  BY <1>1, SweepEnds, BehindRestartStays
<1>3. QED
  BY <1>2, TimerTypes, PTL DEF Spec, SweepWithinPeriod
=============================================================================

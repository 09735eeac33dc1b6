---------------------------- MODULE ReactorProofs -----------------------------
(***************************************************************************)
(* Theorems about Reactor, for any connections, descriptors, loops and     *)
(* time-outs: what the tables of the loops name, who may be dispatched,    *)
(* the timer of each connection, and what the kernel watches it for.       *)
(***************************************************************************)
EXTENDS Reactor, TLAPS

\* A connection has a descriptor from accept to the destruction of its
\* HttpData.
Holds(c) == http[c].life \in {"queued", "open", "closing"}

\* A batch is dispatched, and what was closed destroyed, before anything else
\* happens on the loop.
PhaseInv ==
  \A l \in Loops :
    /\ pc[l] # "dispatch" => batch[l] = {}
    /\ dying[l] # None => pc[l] \in {"dispatch", "expire"}

\* The kernel's descriptors and the connections' agree.
OwnerInv ==
  /\ \A c \in Conns : Holds(c) =>
       http[c].fd \in Fds /\ http[c].loop \in Loops /\ fdOwner[http[c].fd] = c
  /\ \A f \in Fds : fdOwner[f] # None =>
       Holds(fdOwner[f]) /\ http[fdOwner[f]].fd = f
  /\ \A l \in Loops : dying[l] # None =>
       http[dying[l]].life = "closing" /\ http[dying[l]].loop = l

\* Connection c waits in q for loop l, alone.
QueuedOnce(q, l) ==
  /\ \A i \in 1 .. Len(q) : http[q[i]].life = "queued" /\ http[q[i]].loop = l
  /\ \A i, j \in 1 .. Len(q) : q[i] = q[j] => i = j

\* A newEvent waits in one place only, and only for a connection that is not
\* registered yet.
QueueInv ==
  \A l \in Loops :
    /\ QueuedOnce(pending[l], l) /\ QueuedOnce(functors[l], l)
    /\ \A i \in 1 .. Len(pending[l]), j \in 1 .. Len(functors[l]) :
         pending[l][i] # functors[l][j]

\* What the tables of a loop name.
TableInv ==
  /\ \A c \in Conns : Open(c) => fd2http_[http[c].loop][http[c].fd] = c
  /\ \A l \in Loops, f \in Fds :
       /\ fd2http_[l][f] # None =>
            /\ Open(fd2http_[l][f])
            /\ http[fd2http_[l][f]].loop = l /\ http[fd2http_[l][f]].fd = f
       /\ fd2chan_[l][f] # None => fd2chan_[l][f] = fd2http_[l][f]
       /\ fd2chan_[l][f] # None => interest[l][f] # None
       /\ interest[l][f] # None => fd2http_[l][f] # None

\* What is dispatched is registered; events not handled belong to it; errors
\* come from resets.
BatchInv ==
  /\ \A l \in Loops : \A c \in batch[l] :
       Open(c) /\ http[c].loop = l /\ fd2chan_[l][http[c].fd] = c
  /\ \A c \in Conns :
       /\ revents_[c] # {} => Open(c) /\ InBatch(c)
       /\ "err" \in revents_[c] \cup edge[c] => peer[c] = "rst"

\* What is missing of the time-out of n is still ahead on the clock, which its
\* restart never brings nearer.
NotYetDue(n) ==
  quiet[n.conn] < granted[n.conn] =>
    clock + granted[n.conn] <= n.expiredTime_ + quiet[n.conn]

\* The timer of a connection, and what it says of the time since its last
\* event.
TimerInv ==
  /\ \A n \in timers :
       /\ n.linked /\ Open(n.conn) /\ NotYetDue(n)
       /\ \A m \in timers : m.conn = n.conn => m = n
  /\ NoneForgotten

\* What a connection asked for last is what the kernel watches, unless
\* EPOLLONESHOT has fired and nothing was asked for since, or epoll_ctl has
\* failed.
Fired(c) ==
  /\ interest[http[c].loop][http[c].fd] = {}
  /\ lastEvents_[c] = {"in", "oneshot"}
  /\ InBatch(c) \/ Stranded(c) \/ peer[c] = "rst"

InterestInv ==
  \A c \in Conns :
    /\ http[c].life = "queued" => ~http[c].owes /\ ~http[c].asks
    /\ Open(c) =>
         /\ lastEvents_[c] \in {{"in", "oneshot"}, {"in"}, {"out"}}
         /\ http[c].owes => http[c].asks
         /\ ~Stranded(c) => (http[c].asks <=> lastEvents_[c] = {"out"})
         /\ \/ fd2chan_[http[c].loop][http[c].fd] = None
            \/ interest[http[c].loop][http[c].fd] = lastEvents_[c]
            \/ Fired(c)

ReactorInv ==
  /\ PhaseInv /\ OwnerInv /\ QueueInv /\ TableInv /\ BatchInv /\ TimerInv
  /\ InterestInv
-----------------------------------------------------------------------------
(* Types.                                                                  *)

Node == [conn : Conns, linked : BOOLEAN,
         expiredTime_ : 0 .. Wrap - 1 + KeepAliveTime]

\* The initial state has the types of TypeOK.
LEMMA TypeInit == Init => TypeOK
<1> SUFFICES ASSUME Init
             PROVE  TypeOK
  OBVIOUS
<1> USE ReactorAssumption
<1>1. next_ \in Loops
  BY DEF Init, Loops
<1>2. /\ pc \in [Loops -> {"poll", "dispatch", "pending", "expire"}]
      /\ batch \in [Loops -> SUBSET Conns]
      /\ pending \in [Loops -> Seq(Conns)]
      /\ functors \in [Loops -> Seq(Conns)]
      /\ dying \in [Loops -> Conns \cup {None}]
  BY DEF Init
<1>3. /\ fd2chan_ \in [Loops -> [Fds -> Conns \cup {None}]]
      /\ fd2http_ \in [Loops -> [Fds -> Conns \cup {None}]]
      /\ fdOwner \in [Fds -> Conns \cup {None}]
  BY DEF Init
<1>4. interest \in [Loops -> [Fds -> (SUBSET Events) \cup {None}]]
  BY DEF Init
<1>5. /\ edge \in [Conns -> SUBSET {"in", "out", "err"}]
      /\ peer \in [Conns -> {"open", "fin", "rst"}]
      /\ revents_ \in [Conns -> SUBSET {"in", "out", "err"}]
      /\ lastEvents_ \in [Conns -> SUBSET Events]
  BY DEF Init
<1>6. http \in [Conns -> HttpType]
  <2>1. Unborn \in HttpType
    BY DEF Unborn, HttpType
  <2>2. QED
    BY <2>1 DEF Init
<1>7. timers \subseteq Node /\ clock \in 0 .. Wrap - 1
  BY DEF Init
<1>8. /\ granted \in [Conns -> 0 .. KeepAliveTime]
      /\ quiet \in [Conns -> 0 .. KeepAliveTime]
  BY DEF Init
<1>9. QED
  BY <1>1, <1>2, <1>3, <1>4, <1>5, <1>6, <1>7, <1>8 DEF TypeOK, Node

\* What the operations on the timers make of a set of nodes.
LEMMA NodeTypes ==
  ASSUME clock \in 0 .. Wrap - 1, NEW S \in SUBSET Node, NEW c \in Conns,
         NEW t \in 0 .. KeepAliveTime
  PROVE  /\ AddTimer(S, c, t) \subseteq Node
         /\ Separate(S, c) \subseteq S
         /\ Separate(S, c) \subseteq Node
<1>1. \A n \in S : [n EXCEPT !.linked = @ /\ n.conn # c] \in Node
  BY DEF Node
<1>2. [conn |-> c, linked |-> TRUE, expiredTime_ |-> clock + t] \in Node
  BY ReactorAssumption DEF Node
<1>3. AddTimer(S, c, t) \subseteq Node
  BY <1>1, <1>2 DEF AddTimer
<1>4. QED
  BY <1>3 DEF Separate

\* One entry of a table of the loops changes.
LEMMA TableUpdate ==
  ASSUME NEW V, NEW table \in [Loops -> [Fds -> V]], NEW new,
         NEW l \in Loops, NEW f, NEW v \in V,
         new = [table EXCEPT ![l] = [@ EXCEPT ![f] = v]]
  PROVE  /\ new \in [Loops -> [Fds -> V]]
         /\ \A m \in Loops, g \in Fds :
              new[m][g] = IF m = l /\ g = f THEN v ELSE table[m][g]
<1> DEFINE row == [table[l] EXCEPT ![f] = v]
<1>1. table[l] \in [Fds -> V]
  OBVIOUS
<1>2. row \in [Fds -> V] /\ \A g \in Fds : row[g] = IF g = f THEN v
                                                  ELSE table[l][g]
  BY <1>1
<1>3. new = [table EXCEPT ![l] = row]
  OBVIOUS
<1> HIDE DEF row
<1>4. QED
  BY <1>2, <1>3

\* What the two ways to leave a connection's handlers do keeps the types.
LEMMA UpdateTypes ==
  ASSUME TypeOK, NEW l \in Loops, NEW c \in Conns, NEW events \in SUBSET Events,
         NEW t \in 0 .. KeepAliveTime, UpdatePoller(l, c, events, t)
  PROVE  /\ timers' \subseteq Node
         /\ lastEvents_' \in [Conns -> SUBSET Events]
         /\ interest' \in [Loops -> [Fds -> (SUBSET Events) \cup {None}]]
         /\ fd2chan_' \in [Loops -> [Fds -> Conns \cup {None}]]
         /\ granted' \in [Conns -> 0 .. KeepAliveTime]
         /\ quiet' \in [Conns -> 0 .. KeepAliveTime]
<1>1. timers' \subseteq Node
  <2>1. timers \in SUBSET Node /\ clock \in 0 .. Wrap - 1
    BY DEF TypeOK, Node
  <2>2. Separate(timers, c) \in SUBSET Node
    BY <2>1, NodeTypes
  <2>3. AddTimer(Separate(timers, c), c, t) \subseteq Node
    BY <2>1, <2>2, NodeTypes
  <2>4. QED
    BY <2>3 DEF UpdatePoller
<1>2. lastEvents_' \in [Conns -> SUBSET Events]
  BY DEF UpdatePoller, TypeOK
<1>3. /\ interest' \in [Loops -> [Fds -> (SUBSET Events) \cup {None}]]
      /\ fd2chan_' \in [Loops -> [Fds -> Conns \cup {None}]]
  <2>1. /\ interest \in [Loops -> [Fds -> (SUBSET Events) \cup {None}]]
        /\ fd2chan_ \in [Loops -> [Fds -> Conns \cup {None}]]
    BY DEF TypeOK
  <2>2. CASE UNCHANGED <<interest, fd2chan_>>
    BY <2>1, <2>2
  <2>3. CASE /\ interest' = [interest EXCEPT ![l] =
                               [@ EXCEPT ![http[c].fd] = events]]
             /\ UNCHANGED fd2chan_
    BY <2>1, <2>3, TableUpdate
  <2>4. CASE /\ fd2chan_' = [fd2chan_ EXCEPT ![l] =
                               [@ EXCEPT ![http[c].fd] = None]]
             /\ UNCHANGED interest
    BY <2>1, <2>4, TableUpdate
  <2>5. QED
    BY <2>2, <2>3, <2>4 DEF UpdatePoller, EpollMod
<1>4. /\ granted' \in [Conns -> 0 .. KeepAliveTime]
      /\ quiet' \in [Conns -> 0 .. KeepAliveTime]
  BY ReactorAssumption DEF UpdatePoller, Restart, TypeOK
<1>5. QED
  BY <1>1, <1>2, <1>3, <1>4

\* One connection's HttpData changes.
LEMMA HttpChange ==
  ASSUME TypeOK, NEW c \in Conns, NEW h \in HttpType,
         http' = [http EXCEPT ![c] = h]
  PROVE  /\ http' \in [Conns -> HttpType]
         /\ http'[c] = h
         /\ \A d \in Conns \ {c} : http'[d] = http[d]
  BY DEF TypeOK

\* What closing a connection does to the HttpData and to the tables.
LEMMA CloseFacts ==
  ASSUME TypeOK, NEW l \in Loops, NEW c \in Conns, HandleClose(l, c)
  PROVE  /\ http' \in [Conns -> HttpType]
         /\ http'[c].life = "closing" /\ http'[c].state = "H_DISCONNECTED"
         /\ http'[c].fd = http[c].fd /\ http'[c].loop = http[c].loop
         /\ \A d \in Conns \ {c} : http'[d] = http[d]
         /\ interest' \in [Loops -> [Fds -> (SUBSET Events) \cup {None}]]
         /\ fd2chan_' \in [Loops -> [Fds -> Conns \cup {None}]]
         /\ fd2http_' \in [Loops -> [Fds -> Conns \cup {None}]]
         /\ \A m \in Loops, g \in Fds :
              LET gone == m = l /\ g = http[c].fd IN
              /\ interest'[m][g] = IF gone THEN None ELSE interest[m][g]
              /\ fd2chan_'[m][g] = IF gone THEN None ELSE fd2chan_[m][g]
              /\ fd2http_'[m][g] = IF gone THEN None ELSE fd2http_[m][g]
         /\ dying' \in [Loops -> Conns \cup {None}]
         /\ dying'[l] = c /\ \A m \in Loops \ {l} : dying'[m] = dying[m]
         /\ UNCHANGED <<lastEvents_, granted, quiet>>
<1>1. http[c] \in HttpType
  BY DEF TypeOK
<1> DEFINE h == [http[c] EXCEPT !.life = "closing", !.state = "H_DISCONNECTED"]
<1>2. /\ h \in HttpType
      /\ h.life = "closing" /\ h.state = "H_DISCONNECTED"
      /\ h.fd = http[c].fd /\ h.loop = http[c].loop
  BY <1>1 DEF HttpType
<1>3. http' = [http EXCEPT ![c] = h]
  BY DEF HandleClose, TypeOK
<1>4. /\ http' \in [Conns -> HttpType]
      /\ http'[c] = h
      /\ \A d \in Conns \ {c} : http'[d] = http[d]
  BY <1>2, <1>3, HttpChange
<1>5. /\ interest' \in [Loops -> [Fds -> (SUBSET Events) \cup {None}]]
      /\ \A m \in Loops, g \in Fds :
           interest'[m][g] = IF m = l /\ g = http[c].fd THEN None
                             ELSE interest[m][g]
  <2>1. /\ interest \in [Loops -> [Fds -> (SUBSET Events) \cup {None}]]
        /\ interest' = [interest EXCEPT ![l] = [@ EXCEPT ![http[c].fd] = None]]
    BY DEF HandleClose, TypeOK
  <2>2. QED
    BY <2>1
<1>6. /\ fd2chan_' \in [Loops -> [Fds -> Conns \cup {None}]]
      /\ \A m \in Loops, g \in Fds :
           fd2chan_'[m][g] = IF m = l /\ g = http[c].fd THEN None
                             ELSE fd2chan_[m][g]
  <2>1. /\ fd2chan_ \in [Loops -> [Fds -> Conns \cup {None}]]
        /\ fd2chan_' = [fd2chan_ EXCEPT ![l] = [@ EXCEPT ![http[c].fd] = None]]
    BY DEF HandleClose, TypeOK
  <2>2. QED
    BY <2>1
<1>7. /\ fd2http_' \in [Loops -> [Fds -> Conns \cup {None}]]
      /\ \A m \in Loops, g \in Fds :
           fd2http_'[m][g] = IF m = l /\ g = http[c].fd THEN None
                             ELSE fd2http_[m][g]
  <2>1. /\ fd2http_ \in [Loops -> [Fds -> Conns \cup {None}]]
        /\ fd2http_' = [fd2http_ EXCEPT ![l] = [@ EXCEPT ![http[c].fd] = None]]
    BY DEF HandleClose, TypeOK
  <2>2. QED
    BY <2>1
<1>8. /\ dying' \in [Loops -> Conns \cup {None}]
      /\ dying'[l] = c /\ \A m \in Loops \ {l} : dying'[m] = dying[m]
  BY DEF HandleClose, TypeOK
<1>9. UNCHANGED <<lastEvents_, granted, quiet>>
  BY DEF HandleClose
<1>10. QED
  BY <1>2, <1>4, <1>5, <1>6, <1>7, <1>8, <1>9

\* What handleConn does to the HttpData of a connection that is not closed.
LEMMA GoesOnFacts ==
  ASSUME TypeOK, NEW l \in Loops, NEW c \in Conns, NEW o \in Outcomes(c),
         KeepConn(l, c, o) \/ LeaveConn(l, c, o)
  PROVE  /\ http' \in [Conns -> HttpType]
         /\ http'[c].life = http[c].life
         /\ http'[c].fd = http[c].fd /\ http'[c].loop = http[c].loop
         /\ http'[c].owes = o.owes /\ http'[c].asks = o.asks
         /\ KeepConn(l, c, o) => http'[c].state = http[c].state
         /\ LeaveConn(l, c, o) => http'[c].state = "H_DISCONNECTING"
         /\ \A d \in Conns \ {c} : http'[d] = http[d]
<1>1. http[c] \in HttpType
  BY DEF TypeOK
<1>2. o.owes \in BOOLEAN /\ o.asks \in BOOLEAN /\ o.keepAlive \in BOOLEAN
  BY DEF Outcomes
<1>3. CASE KeepConn(l, c, o)
  <2> DEFINE h == [http[c] EXCEPT !.owes = o.owes, !.asks = o.asks,
                                  !.keepAlive = o.keepAlive]
  <2>1. /\ h \in HttpType
        /\ h.life = http[c].life /\ h.fd = http[c].fd /\ h.loop = http[c].loop
        /\ h.owes = o.owes /\ h.asks = o.asks /\ h.state = http[c].state
    BY <1>1, <1>2 DEF HttpType
  <2>2. http' = [http EXCEPT ![c] = h]
    BY <1>3 DEF KeepConn, TypeOK
  <2>3. ~LeaveConn(l, c, o)
    BY <1>3 DEF KeepConn, LeaveConn
  <2>4. QED
    BY <1>3, <2>1, <2>2, <2>3, HttpChange
<1>4. CASE LeaveConn(l, c, o)
  <2> DEFINE h == [http[c] EXCEPT !.state = "H_DISCONNECTING",
                                  !.owes = o.owes, !.asks = TRUE,
                                  !.keepAlive = o.keepAlive]
  <2>1. /\ h \in HttpType
        /\ h.life = http[c].life /\ h.fd = http[c].fd /\ h.loop = http[c].loop
        /\ h.owes = o.owes /\ h.asks = TRUE /\ h.state = "H_DISCONNECTING"
    BY <1>1, <1>2 DEF HttpType
  <2>2. http' = [http EXCEPT ![c] = h] /\ o.asks = TRUE
    BY <1>2, <1>4 DEF LeaveConn, TypeOK
  <2>3. ~KeepConn(l, c, o)
    BY <1>4 DEF KeepConn, LeaveConn
  <2>4. QED
    BY <1>4, <2>1, <2>2, <2>3, HttpChange
<1>5. QED
  BY <1>3, <1>4

\* newEvent of connection c, and what is left where of it.
NewEventOf(l, c) ==
  /\ pc[l] = "pending" /\ functors[l] # <<>> /\ c = functors[l][1]
  /\ functors' = [functors EXCEPT ![l] = Tail(@)]
  /\ functors' \in [Loops -> Seq(Conns)]
  /\ http' \in [Conns -> HttpType]
  /\ http'[c].life = "open" /\ http'[c].fd = http[c].fd
  /\ http'[c].loop = http[c].loop /\ http'[c].state = http[c].state
  /\ http'[c].owes = http[c].owes /\ http'[c].asks = http[c].asks
  /\ \A d \in Conns \ {c} : http'[d] = http[d]
  /\ timers' = AddTimer(timers, c, HeaderTime)
  /\ Restart(c, HeaderTime)
  /\ lastEvents_' = [lastEvents_ EXCEPT ![c] = {"in", "oneshot"}]
  /\ fd2http_' = [fd2http_ EXCEPT ![l] = [@ EXCEPT ![http[c].fd] = c]]
  /\ \/ /\ interest[l][http[c].fd] = None
        /\ interest' = [interest EXCEPT ![l] =
                          [@ EXCEPT ![http[c].fd] = {"in", "oneshot"}]]
        /\ fd2chan_' = [fd2chan_ EXCEPT ![l] = [@ EXCEPT ![http[c].fd] = c]]
     \/ /\ fd2chan_' = [fd2chan_ EXCEPT ![l] = [@ EXCEPT ![http[c].fd] = None]]
        /\ UNCHANGED interest
  /\ UNCHANGED <<next_, pc, batch, pending, dying, fdOwner, envVars, revents_>>

\* newEvent is about the connection at the head of the functors, which opens.
LEMMA NewEventFacts ==
  ASSUME TypeOK, NEW l \in Loops, NewEvent(l)
  PROVE  \E c \in Conns : NewEventOf(l, c)
<1> DEFINE c == Head(functors[l])
<1>1. functors[l] \in Seq(Conns) /\ functors[l] # <<>>
  BY DEF NewEvent, TypeOK
<1>2. c \in Conns /\ c = functors[l][1] /\ Tail(functors[l]) \in Seq(Conns)
  BY <1>1
<1>3. functors' \in [Loops -> Seq(Conns)]
  BY <1>2 DEF NewEvent, TypeOK
<1>4. http[c] \in HttpType
  BY <1>2 DEF TypeOK
<1> DEFINE h == [http[c] EXCEPT !.life = "open"]
<1>5. /\ h \in HttpType /\ h.life = "open"
      /\ h.fd = http[c].fd /\ h.loop = http[c].loop
      /\ h.state = http[c].state /\ h.owes = http[c].owes
      /\ h.asks = http[c].asks
  BY <1>4 DEF HttpType
<1>6. http' = [http EXCEPT ![c] = h]
  BY DEF NewEvent
<1>7. /\ http' \in [Conns -> HttpType]
      /\ http'[c] = h
      /\ \A d \in Conns \ {c} : http'[d] = http[d]
  BY <1>2, <1>5, <1>6, HttpChange
<1> HIDE DEF h
<1>8. NewEventOf(l, c)
  BY <1>1, <1>2, <1>3, <1>5, <1>7, Zenon DEF NewEvent, NewEventOf
<1>9. QED
  BY <1>2, <1>8

\* Reporting takes edges away, and disarms entries under EPOLLONESHOT.
LEMMA ConsumeFacts ==
  ASSUME TypeOK, NEW l \in Loops, NEW ready, Consume(l, ready)
  PROVE  /\ edge' \in [Conns -> SUBSET {"in", "out", "err"}]
         /\ interest' \in [Loops -> [Fds -> (SUBSET Events) \cup {None}]]
         /\ \A c \in Conns : edge'[c] \subseteq edge[c]
         /\ \A m \in Loops, f \in Fds :
              \/ interest'[m][f] = interest[m][f]
              \/ /\ m = l /\ f \in ready /\ interest'[m][f] = {}
                 /\ "oneshot" \in interest[m][f]
<1>1. \A c \in Conns : edge'[c] \subseteq edge[c]
  BY DEF Consume
<1>2. edge' \in [Conns -> SUBSET {"in", "out", "err"}]
  <2>1. \A c \in Conns : edge[c] \subseteq {"in", "out", "err"}
    BY DEF TypeOK
  <2>2. edge' = [c \in Conns |-> edge'[c]]
    BY DEF Consume
  <2>3. QED
    BY <1>1, <2>1, <2>2
<1>3. interest' \in [Loops -> [Fds -> (SUBSET Events) \cup {None}]]
  BY DEF Consume, TypeOK
<1>4. \A m \in Loops, f \in Fds :
        \/ interest'[m][f] = interest[m][f]
        \/ /\ m = l /\ f \in ready /\ interest'[m][f] = {}
           /\ "oneshot" \in interest[m][f]
  BY DEF Consume, TypeOK
<1>5. QED
  BY <1>1, <1>2, <1>3, <1>4

\* Every step keeps the types.
LEMMA TypeStep == TypeOK /\ [Next]_vars => TypeOK'
<1> SUFFICES ASSUME TypeOK, [Next]_vars
             PROVE  TypeOK'
  OBVIOUS
<1> USE ReactorAssumption
<1>1. ASSUME NEW c \in Conns, PeerSends(c) \/ PeerFinishes(c) \/ PeerResets(c)
                              \/ RoomAppears(c)
      PROVE  TypeOK'
  <2>1. /\ edge' \in [Conns -> SUBSET {"in", "out", "err"}]
        /\ peer' \in [Conns -> {"open", "fin", "rst"}]
    <3>1. CASE PeerSends(c)
      BY <3>1 DEF PeerSends, TypeOK
    <3>2. CASE PeerFinishes(c)
      BY <3>2 DEF PeerFinishes, TypeOK
    <3>3. CASE PeerResets(c)
      BY <3>3 DEF PeerResets, TypeOK
    <3>4. CASE RoomAppears(c)
      BY <3>4 DEF RoomAppears, TypeOK
    <3>5. QED
      BY <1>1, <3>1, <3>2, <3>3, <3>4
  <2>2. UNCHANGED <<next_, loopVars, tableVars, fdOwner, clock, connVars,
                    revents_>>
    BY <1>1 DEF PeerSends, PeerFinishes, PeerResets, RoomAppears
  <2>3. QED
    BY <2>1, <2>2 DEF TypeOK, loopVars, tableVars, connVars
<1>2. CASE Tick
  <2>1. clock' \in 0 .. Wrap - 1
    BY <1>2 DEF Tick, TypeOK
  <2>2. quiet' \in [Conns -> 0 .. KeepAliveTime]
    BY <1>2 DEF Tick, TypeOK
  <2>3. UNCHANGED <<next_, loopVars, tableVars, fdOwner, edge, peer, http,
                    lastEvents_, timers, granted, revents_>>
    BY <1>2 DEF Tick
  <2>4. QED
    BY <2>1, <2>2, <2>3 DEF TypeOK, loopVars, tableVars
<1>3. ASSUME NEW c \in Conns, Accept(c)
      PROVE  TypeOK'
  <2>1. PICK f \in Fds :
          /\ fdOwner' = [fdOwner EXCEPT ![f] = c]
          /\ http' = [http EXCEPT ![c] = [Unborn EXCEPT !.life = "queued",
                                            !.fd = f, !.loop = next_]]
    BY <1>3 DEF Accept
  <2>2. next_' \in Loops
    BY <1>3 DEF Accept, TypeOK, Loops
  <2>3. [Unborn EXCEPT !.life = "queued", !.fd = f, !.loop = next_] \in HttpType
    BY DEF Unborn, HttpType, TypeOK
  <2>4. http' \in [Conns -> HttpType] /\ fdOwner' \in [Fds -> Conns \cup {None}]
    BY <2>1, <2>3 DEF TypeOK
  <2>5. pending' \in [Loops -> Seq(Conns)]
    BY <1>3 DEF Accept, TypeOK
  <2>6. UNCHANGED <<pc, batch, functors, dying, tableVars, envVars,
                    lastEvents_, timers, granted, quiet, revents_>>
    BY <1>3 DEF Accept
  <2>7. QED
    BY <2>2, <2>4, <2>5, <2>6 DEF TypeOK, tableVars, envVars
<1>4. ASSUME NEW l \in Loops, Poll(l) \/ PollAgain(l) \/ PollOther(l)
      PROVE  TypeOK'
  <2>1. CASE PollOther(l)
    BY <2>1 DEF PollOther, TypeOK, tableVars, envVars, connVars
  <2>2. CASE Poll(l)
    <3> DEFINE ready == {f \in Ready(l) : fd2chan_[l][f] # None}
               channel == [f \in ready |-> fd2chan_[l][f]]
    <3>1. \A f \in ready : f \in Fds /\ channel[f] \in Conns
      BY DEF TypeOK, Ready
    <3>2. \A f \in Fds : Reported(l, f) \subseteq {"in", "out", "err"}
      BY DEF Reported, TypeOK
    <3>3. batch' \in [Loops -> SUBSET Conns]
      <4>1. batch' = [batch EXCEPT ![l] = {channel[f] : f \in ready}]
        BY <2>2 DEF Poll
      <4>2. {channel[f] : f \in ready} \subseteq Conns
        BY <3>1
      <4>3. QED
        BY <4>1, <4>2 DEF TypeOK
    <3>4. revents_' \in [Conns -> SUBSET {"in", "out", "err"}]
      <4>1. revents_' = [c \in Conns |->
                    IF \E f \in ready : channel[f] = c
                    THEN UNION {Reported(l, f) :
                                  f \in {g \in ready : channel[g] = c}}
                    ELSE revents_[c]]
        BY <2>2 DEF Poll
      <4>2. \A F \in SUBSET Fds :
              UNION {Reported(l, f) : f \in F} \subseteq {"in", "out", "err"}
        BY <3>2
      <4>3. \A c \in Conns : {g \in ready : channel[g] = c} \in SUBSET Fds
        BY <3>1
      <4> HIDE DEF ready, channel
      <4>4. QED
        BY <4>1, <4>2, <4>3 DEF TypeOK
    <3>5. /\ edge' \in [Conns -> SUBSET {"in", "out", "err"}]
          /\ interest' \in [Loops -> [Fds -> (SUBSET Events) \cup {None}]]
      BY <2>2, ConsumeFacts DEF Poll
    <3>7. pc' \in [Loops -> {"poll", "dispatch", "pending", "expire"}]
      BY <2>2 DEF Poll, TypeOK
    <3>8. UNCHANGED <<next_, pending, functors, dying, fd2chan_, fd2http_,
                      fdOwner, peer, clock, connVars>>
      BY <2>2 DEF Poll
    <3>9. QED
      BY <3>3, <3>4, <3>5, <3>7, <3>8 DEF TypeOK, connVars
  <2>3. CASE PollAgain(l)
    <3>1. /\ edge' \in [Conns -> SUBSET {"in", "out", "err"}]
          /\ interest' \in [Loops -> [Fds -> (SUBSET Events) \cup {None}]]
      BY <2>3, ConsumeFacts DEF PollAgain
    <3>2. UNCHANGED <<next_, loopVars, fd2chan_, fd2http_, fdOwner, peer, clock,
                      connVars, revents_>>
      BY <2>3 DEF PollAgain
    <3>3. QED
      BY <3>1, <3>2 DEF TypeOK, loopVars, connVars
  <2>4. QED
    BY <1>4, <2>1, <2>2, <2>3
<1>5. ASSUME NEW l \in Loops, NEW c \in Conns, IgnoreFailure(l, c)
      PROVE  TypeOK'
  BY <1>5 DEF IgnoreFailure, TypeOK, tableVars, envVars, connVars
<1>6. ASSUME NEW l \in Loops, NEW c \in Conns, HandleEvents(l, c)
      PROVE  TypeOK'
  <2>1. PICK o \in Outcomes(c) :
          /\ KeepConn(l, c, o) \/ LeaveConn(l, c, o) \/ DropConn(l, c, o)
          /\ edge' = [edge EXCEPT ![c] =
                     @ \ ((IF "in" \in revents_[c] /\ peer[c] # "rst"
                           THEN {"in"} ELSE {})
                          \cup (IF o.owes THEN {"out"} ELSE {}))]
    BY <1>6 DEF HandleEvents
  <2>3. /\ batch' \in [Loops -> SUBSET Conns]
        /\ revents_' \in [Conns -> SUBSET {"in", "out", "err"}]
    BY <1>6 DEF HandleEvents, TypeOK
  <2>4. edge' \in [Conns -> SUBSET {"in", "out", "err"}]
    BY <2>1 DEF TypeOK
  <2>5. UNCHANGED <<next_, pc, pending, functors, fdOwner, peer, clock>>
    BY <1>6 DEF HandleEvents
  <2>6. CASE KeepConn(l, c, o)
    <3>1. PICK events \in {{"out"}, {"in"}},
               t \in {KeepAliveTime, HeaderTime, IdleTime} :
            UpdatePoller(l, c, events, t)
      BY <2>6 DEF KeepConn
    <3>2. events \in SUBSET Events /\ t \in 0 .. KeepAliveTime
      BY DEF Events
    <3>3. /\ timers' \subseteq Node
          /\ lastEvents_' \in [Conns -> SUBSET Events]
          /\ interest' \in [Loops -> [Fds -> (SUBSET Events) \cup {None}]]
          /\ fd2chan_' \in [Loops -> [Fds -> Conns \cup {None}]]
          /\ granted' \in [Conns -> 0 .. KeepAliveTime]
          /\ quiet' \in [Conns -> 0 .. KeepAliveTime]
      BY <3>1, <3>2, UpdateTypes
    <3>4. http' \in [Conns -> HttpType]
      BY <2>6, GoesOnFacts
    <3>5. UNCHANGED <<dying, fd2http_>>
      BY <3>1 DEF UpdatePoller
    <3>6. QED
      BY <2>3, <2>4, <2>5, <3>3, <3>4, <3>5 DEF TypeOK, Node
  <2>7. CASE LeaveConn(l, c, o)
    <3>1. http' \in [Conns -> HttpType]
      BY <2>7, GoesOnFacts
    <3>2. timers' \subseteq Node
      BY <2>7 DEF LeaveConn, Separate, TypeOK, Node
    <3>3. UNCHANGED <<tableVars, lastEvents_, granted, quiet, dying>>
      BY <2>7 DEF LeaveConn
    <3>4. QED
      BY <2>3, <2>4, <2>5, <3>1, <3>2, <3>3 DEF TypeOK, Node, tableVars
  <2>8. CASE DropConn(l, c, o)
    <3>1. timers' \subseteq Node
      BY <2>8 DEF DropConn, Separate, TypeOK, Node
    <3>2. HandleClose(l, c) /\ UNCHANGED <<lastEvents_, granted, quiet>>
      BY <2>8 DEF DropConn, HandleClose
    <3>3. QED
      BY <2>3, <2>4, <2>5, <3>1, <3>2, CloseFacts DEF TypeOK, Node
  <2>9. QED
    BY <2>1, <2>6, <2>7, <2>8
<1>7. ASSUME NEW l \in Loops, SwapPending(l) \/ EndPending(l) \/ EndExpire(l)
      PROVE  TypeOK'
  <2>1. /\ pc' \in [Loops -> {"poll", "dispatch", "pending", "expire"}]
        /\ pending' \in [Loops -> Seq(Conns)]
        /\ functors' \in [Loops -> Seq(Conns)]
    <3>1. CASE SwapPending(l)
      BY <3>1 DEF SwapPending, TypeOK
    <3>2. CASE EndPending(l)
      BY <3>2 DEF EndPending, TypeOK
    <3>3. CASE EndExpire(l)
      BY <3>3 DEF EndExpire, TypeOK
    <3>4. QED
      BY <1>7, <3>1, <3>2, <3>3
  <2>2. UNCHANGED <<next_, batch, dying, tableVars, fdOwner, envVars, connVars,
                    revents_>>
    BY <1>7 DEF SwapPending, EndPending, EndExpire
  <2>3. QED
    BY <2>1, <2>2 DEF TypeOK, tableVars, envVars, connVars
<1>8. ASSUME NEW l \in Loops, NewEvent(l)
      PROVE  TypeOK'
  <2>1. PICK c \in Conns : NewEventOf(l, c)
    BY <1>8, NewEventFacts
  <2>2. functors' \in [Loops -> Seq(Conns)] /\ http' \in [Conns -> HttpType]
    BY <2>1 DEF NewEventOf
  <2>3. timers' \subseteq Node
    <3>1. /\ timers \in SUBSET Node /\ HeaderTime \in 0 .. KeepAliveTime
          /\ clock \in 0 .. Wrap - 1
      BY DEF TypeOK, Node
    <3>2. AddTimer(timers, c, HeaderTime) \subseteq Node
      BY <3>1, NodeTypes
    <3>3. QED
      BY <2>1, <3>2 DEF NewEventOf
  <2>4. /\ granted' \in [Conns -> 0 .. KeepAliveTime]
        /\ quiet' \in [Conns -> 0 .. KeepAliveTime]
    <3>1. Restart(c, HeaderTime)
      BY <2>1 DEF NewEventOf
    <3>2. QED
      BY <3>1 DEF Restart, TypeOK
  <2>5. lastEvents_' \in [Conns -> SUBSET Events]
    BY <2>1 DEF NewEventOf, TypeOK, Events
  <2>6. fd2http_' \in [Loops -> [Fds -> Conns \cup {None}]]
    <3>1. fd2http_' = [fd2http_ EXCEPT ![l] = [@ EXCEPT ![http[c].fd] = c]]
      BY <2>1 DEF NewEventOf
    <3>2. fd2http_ \in [Loops -> [Fds -> Conns \cup {None}]]
      BY DEF TypeOK
    <3>3. QED
      BY <3>1, <3>2, TableUpdate
  <2>7. fd2chan_' \in [Loops -> [Fds -> Conns \cup {None}]]
    <3>1. PICK v \in Conns \cup {None} :
            fd2chan_' = [fd2chan_ EXCEPT ![l] = [@ EXCEPT ![http[c].fd] = v]]
      BY <2>1 DEF NewEventOf
    <3>2. fd2chan_ \in [Loops -> [Fds -> Conns \cup {None}]]
      BY DEF TypeOK
    <3>3. QED
      BY <3>1, <3>2, TableUpdate
  <2>8. interest' \in [Loops -> [Fds -> (SUBSET Events) \cup {None}]]
    <3>1. \/ interest' = [interest EXCEPT ![l] =
                            [@ EXCEPT ![http[c].fd] = {"in", "oneshot"}]]
          \/ interest' = interest
      BY <2>1 DEF NewEventOf
    <3>2. interest \in [Loops -> [Fds -> (SUBSET Events) \cup {None}]]
      BY DEF TypeOK
    <3>3. {"in", "oneshot"} \in (SUBSET Events) \cup {None}
      BY DEF Events
    <3>4. CASE interest' = [interest EXCEPT ![l] =
                              [@ EXCEPT ![http[c].fd] = {"in", "oneshot"}]]
      BY <3>2, <3>3, <3>4, TableUpdate
    <3>5. QED
      BY <3>1, <3>2, <3>4
  <2>9. UNCHANGED <<next_, pc, batch, pending, dying, fdOwner, envVars,
                    revents_>>
    BY <1>8 DEF NewEvent
  <2>10. QED
    BY <2>2, <2>3, <2>4, <2>5, <2>6, <2>7, <2>8, <2>9 DEF TypeOK, Node, envVars
<1>9. ASSUME NEW l \in Loops, Destroy(l)
      PROVE  TypeOK'
  <2>1. dying[l] \in Conns
    BY <1>9 DEF Destroy, TypeOK
  <2>2. [Unborn EXCEPT !.life = "dead", !.state = "H_DISCONNECTED"] \in HttpType
    BY DEF Unborn, HttpType
  <2>3. http' \in [Conns -> HttpType] /\ fdOwner' \in [Fds -> Conns \cup {None}]
    BY <1>9, <2>2 DEF Destroy, TypeOK
  <2>4. /\ edge' \in [Conns -> SUBSET {"in", "out", "err"}]
        /\ peer' \in [Conns -> {"open", "fin", "rst"}]
        /\ lastEvents_' \in [Conns -> SUBSET Events]
        /\ granted' \in [Conns -> 0 .. KeepAliveTime]
        /\ quiet' \in [Conns -> 0 .. KeepAliveTime]
        /\ dying' \in [Loops -> Conns \cup {None}]
    BY <1>9 DEF Destroy, TypeOK
  <2>5. UNCHANGED <<next_, pc, batch, pending, functors, tableVars, timers,
                    clock, revents_>>
    BY <1>9 DEF Destroy
  <2>6. QED
    BY <2>3, <2>4, <2>5 DEF TypeOK, tableVars
<1>10. ASSUME NEW l \in Loops, Expire(l)
       PROVE  TypeOK'
  <2>1. PICK n \in timers : timers' = timers \ {n} /\ HandleClose(l, n.conn)
    BY <1>10 DEF Expire, ExpiredNodes
  <2>2. n.conn \in Conns
    BY DEF TypeOK
  <2>3. UNCHANGED <<next_, pc, batch, pending, functors, fdOwner, envVars,
                    revents_, lastEvents_, granted, quiet>>
    BY <1>10, <2>1 DEF Expire, HandleClose
  <2>4. QED
    BY <2>1, <2>2, <2>3, CloseFacts DEF TypeOK, envVars
<1>11. CASE UNCHANGED vars
  BY <1>11 DEF vars, TypeOK, loopVars, tableVars, envVars, connVars
<1>12. QED
  BY <1>1, <1>2, <1>3, <1>4, <1>5, <1>6, <1>7, <1>8, <1>9, <1>10, <1>11
     DEF Next, LoopStep, Environment

\* Every variable keeps its type: what the tables, the queues and the nodes
\* hold are connections, and no time-out exceeds the longest one.
THEOREM ReactorTypes == Spec => []TypeOK
<1>1. QED
  BY TypeInit, TypeStep, PTL DEF Spec
-----------------------------------------------------------------------------
(* The inductive invariant.                                                *)

\* Nothing is open at first.
LEMMA InvInit == Init => ReactorInv
<1> SUFFICES ASSUME Init
             PROVE  ReactorInv
  OBVIOUS
<1>1. \A c \in Conns : http[c] = Unborn /\ revents_[c] = {} /\ edge[c] = {}
  BY DEF Init
<1>2. \A c \in Conns : http[c].life = "unborn"
  BY <1>1 DEF Unborn
<1>3. PhaseInv /\ OwnerInv
  BY <1>2 DEF Init, PhaseInv, OwnerInv, Holds
<1>4. QueueInv
  BY DEF Init, QueueInv, QueuedOnce
<1>5. TableInv
  BY <1>2 DEF Init, TableInv, Open
<1>6. BatchInv
  BY <1>1, <1>2 DEF Init, BatchInv
<1>7. TimerInv /\ InterestInv
  BY <1>2 DEF Init, TimerInv, NoneForgotten, InterestInv, Open
<1>8. QED
  BY <1>3, <1>4, <1>5, <1>6, <1>7 DEF ReactorInv

\* No connection changes hands or begins or ends its life.
SameLives ==
  \A c \in Conns : /\ http'[c].life = http[c].life
                   /\ http'[c].fd = http[c].fd /\ http'[c].loop = http[c].loop

\* Who owns a descriptor, what waits in the queues and what the tables name
\* depend on nothing else of the connections.
LEMMA SameLivesKeep ==
  ASSUME TypeOK, ReactorInv, SameLives
  PROVE  /\ UNCHANGED <<fdOwner, dying>> => OwnerInv'
         /\ UNCHANGED <<pending, functors>> => QueueInv'
         /\ UNCHANGED tableVars => TableInv'
<1>1. ASSUME UNCHANGED <<fdOwner, dying>>
      PROVE  OwnerInv'
  <2>1. /\ fdOwner \in [Fds -> Conns \cup {None}]
        /\ dying \in [Loops -> Conns \cup {None}]
    BY DEF TypeOK
  <2>2. OwnerInv
    BY DEF ReactorInv
  <2>3. QED
    BY <1>1, <2>1, <2>2 DEF OwnerInv, Holds, SameLives
<1>2. ASSUME UNCHANGED <<pending, functors>>
      PROVE  QueueInv'
  <2>1. \A l \in Loops : pending[l] \in Seq(Conns) /\ functors[l] \in Seq(Conns)
    BY DEF TypeOK
  <2>2. \A q \in Seq(Conns), l \in Loops : QueuedOnce(q, l) => QueuedOnce(q, l)'
    BY DEF QueuedOnce, SameLives
  <2>3. QueueInv
    BY DEF ReactorInv
  <2>4. QED
    BY <1>2, <2>1, <2>2, <2>3 DEF QueueInv
<1>3. ASSUME UNCHANGED tableVars
      PROVE  TableInv'
  <2>1. \A l \in Loops, f \in Fds : fd2http_[l][f] \in Conns \cup {None}
    BY DEF TypeOK
  <2>2. TableInv
    BY DEF ReactorInv
  <2>3. QED
    BY <1>3, <2>1, <2>2 DEF TableInv, tableVars, Open, SameLives
<1>4. QED
  BY <1>1, <1>2, <1>3

\* What the clients do changes only what is ready, and a reset stays one.
LEMMA EnvironmentInv ==
  ASSUME TypeOK, ReactorInv, NEW c \in Conns,
         PeerSends(c) \/ PeerFinishes(c) \/ PeerResets(c) \/ RoomAppears(c)
  PROVE  ReactorInv'
<1>1. UNCHANGED <<next_, loopVars, tableVars, fdOwner, clock, connVars,
                  revents_>>
  BY DEF PeerSends, PeerFinishes, PeerResets, RoomAppears
<1>2. \A d \in Conns : peer[d] = "rst" => peer'[d] = "rst"
  BY DEF PeerSends, PeerFinishes, PeerResets, RoomAppears, TypeOK
<1>3. \A d \in Conns : "err" \in edge'[d] => "err" \in edge[d]
                                             \/ peer'[d] = "rst"
  <2>1. CASE PeerSends(c)
    BY <2>1 DEF PeerSends, TypeOK
  <2>2. CASE PeerFinishes(c)
    BY <2>2 DEF PeerFinishes, TypeOK
  <2>3. CASE PeerResets(c)
    BY <2>3 DEF PeerResets, TypeOK
  <2>4. CASE RoomAppears(c)
    BY <2>4 DEF RoomAppears, TypeOK
  <2>5. QED
    BY <2>1, <2>2, <2>3, <2>4
<1>4. PhaseInv' /\ TimerInv'
  BY <1>1 DEF ReactorInv, PhaseInv, TimerInv, NotYetDue, NoneForgotten, Open,
              Stranded, Nodes, loopVars, connVars
<1>5. OwnerInv' /\ QueueInv' /\ TableInv'
  BY <1>1, SameLivesKeep DEF SameLives, loopVars, connVars
<1>6. BatchInv'
  BY <1>1, <1>2, <1>3 DEF ReactorInv, BatchInv, InBatch, Open, loopVars,
                          tableVars, connVars
<1>7. InterestInv'
  BY <1>1, <1>2 DEF ReactorInv, InterestInv, Fired, InBatch, Open, Stranded,
                    loopVars, tableVars, connVars
<1>8. QED
  BY <1>4, <1>5, <1>6, <1>7 DEF ReactorInv

\* A tick brings the clock no nearer to a node than it adds to the silence.
LEMMA TickInv ==
  ASSUME TypeOK, ReactorInv, Tick
  PROVE  ReactorInv'
<1>1. UNCHANGED <<next_, loopVars, tableVars, fdOwner, edge, peer, http,
                  lastEvents_, timers, granted, revents_>>
  BY DEF Tick
<1>2. PhaseInv' /\ InterestInv' /\ BatchInv'
  BY <1>1 DEF ReactorInv, PhaseInv, BatchInv, InterestInv, Fired, InBatch, Open,
              Stranded, loopVars, tableVars
<1>3. OwnerInv' /\ QueueInv' /\ TableInv'
  BY <1>1, SameLivesKeep DEF SameLives, loopVars
<1>4. TimerInv
  BY DEF ReactorInv
<1>5. ASSUME NEW n \in timers
      PROVE  NotYetDue(n)'
  <2> DEFINE c == n.conn
  <2>1. c \in Conns /\ Open(c) /\ NotYetDue(n)
    BY <1>4 DEF TimerInv, TypeOK
  <2>2. /\ clock \in Nat /\ clock' \in Nat /\ clock' <= clock + 1
        /\ quiet[c] \in Nat /\ granted[c] \in Nat /\ n.expiredTime_ \in Nat
    BY <2>1, ReactorAssumption DEF TypeOK, Tick
  <2>3. quiet'[c] = IF quiet[c] < granted[c] THEN quiet[c] + 1 ELSE quiet[c]
    BY <2>1 DEF Tick
  <2>4. granted'[c] = granted[c]
    BY <1>1
  <2> HIDE DEF c
  <2>5. QED
    BY <2>1, <2>2, <2>3, <2>4 DEF NotYetDue, c
<1>6. TimerInv'
  BY <1>1, <1>4, <1>5 DEF TimerInv, NoneForgotten, Open, Stranded, Nodes
<1>7. QED
  BY <1>2, <1>3, <1>6 DEF ReactorInv

\* The three steps that only move the loop on to its next phase.
LEMMA PhaseStep ==
  ASSUME TypeOK, ReactorInv, NEW l \in Loops,
         SwapPending(l) \/ EndPending(l) \/ EndExpire(l) \/ PollOther(l)
  PROVE  ReactorInv'
<1>1. UNCHANGED <<next_, batch, dying, tableVars, fdOwner, envVars, connVars,
                  revents_>>
  BY DEF SwapPending, EndPending, EndExpire, PollOther
<1>2. PhaseInv'
  BY DEF SwapPending, EndPending, EndExpire, PollOther, TypeOK, ReactorInv,
         PhaseInv
<1>3. OwnerInv' /\ TableInv'
  BY <1>1, SameLivesKeep DEF SameLives, connVars
<1>4. QueueInv'
  <2>1. CASE SwapPending(l)
    <3>1. /\ \A m \in Loops : functors'[m] = IF m = l THEN pending[l]
                                             ELSE functors[m]
          /\ \A m \in Loops : pending'[m] = IF m = l THEN <<>> ELSE pending[m]
      BY <2>1 DEF SwapPending, TypeOK
    <3>2. \A q, m : QueuedOnce(q, m) => QueuedOnce(q, m)'
      BY <1>1 DEF QueuedOnce, connVars
    <3>3. \A m \in Loops : QueuedOnce(<<>>, m)
      BY DEF QueuedOnce
    <3>4. QueueInv
      BY DEF ReactorInv
    <3>5. \A m \in Loops : QueuedOnce(pending[m], m) /\ QueuedOnce(functors[m], m)
      BY <3>4 DEF QueueInv
    <3>6. \A m \in Loops : QueuedOnce(pending'[m], m) /\ QueuedOnce(functors'[m], m)
      BY <3>1, <3>3, <3>5
    <3>7. \A m \in Loops :
            \A i \in 1 .. Len(pending'[m]), j \in 1 .. Len(functors'[m]) :
              pending'[m][i] # functors'[m][j]
      BY <3>1, <3>4 DEF QueueInv
    <3>8. QED
      BY <3>6, <3>7, <1>1 DEF QueueInv, QueuedOnce, connVars
  <2>2. CASE UNCHANGED <<pending, functors>>
    BY <1>1, <2>2, SameLivesKeep DEF SameLives, connVars
  <2>3. QED
    BY <2>1, <2>2 DEF EndPending, EndExpire, PollOther
<1>5. BatchInv' /\ TimerInv' /\ InterestInv'
  BY <1>1 DEF ReactorInv, BatchInv, TimerInv, NotYetDue, NoneForgotten,
              InterestInv, Fired, InBatch, Open, Stranded, Nodes, tableVars,
              envVars, connVars
<1>6. QED
  BY <1>2, <1>3, <1>4, <1>5 DEF ReactorInv

\* A channel in error leaves the batch; only a reset puts one in error.
LEMMA IgnoreInv ==
  ASSUME TypeOK, ReactorInv, NEW l \in Loops, NEW c \in Conns,
         IgnoreFailure(l, c)
  PROVE  ReactorInv'
<1>1. /\ UNCHANGED <<next_, pc, pending, functors, dying, tableVars, fdOwner,
                     envVars, connVars>>
      /\ pc[l] = "dispatch" /\ c \in batch[l] /\ "err" \in revents_[c]
  BY DEF IgnoreFailure
<1>2. /\ \A m \in Loops : batch'[m] = IF m = l THEN batch[l] \ {c} ELSE batch[m]
      /\ \A d \in Conns : revents_'[d] = IF d = c THEN {} ELSE revents_[d]
  BY DEF IgnoreFailure, TypeOK
<1>3. /\ peer[c] = "rst" /\ Open(c) /\ http[c].loop = l
      /\ \A d \in Conns : Open(d) => http[d].loop \in Loops
  BY <1>1 DEF ReactorInv, BatchInv, OwnerInv, Holds, Open
<1>4. PhaseInv' /\ TimerInv'
  BY <1>1, <1>2 DEF ReactorInv, PhaseInv, TimerInv, NotYetDue, NoneForgotten,
                    Open, Stranded, Nodes, envVars, connVars
<1>5. OwnerInv' /\ QueueInv' /\ TableInv'
  BY <1>1, SameLivesKeep DEF SameLives, connVars
<1>6. \A d \in Conns \ {c} : InBatch(d) /\ Open(d) => InBatch(d)'
  BY <1>1, <1>2, <1>3 DEF InBatch, connVars
<1>7. BatchInv'
  <2>1. BatchInv
    BY DEF ReactorInv
  <2>2. \A m \in Loops : \A d \in batch'[m] :
          Open(d) /\ http[d].loop = m /\ fd2chan_[m][http[d].fd] = d
    BY <1>2, <2>1 DEF BatchInv
  <2>3. \A d \in Conns : revents_'[d] # {} => d # c /\ Open(d) /\ InBatch(d)
    BY <1>2, <2>1 DEF BatchInv
  <2>4. \A d \in Conns : "err" \in revents_'[d] \cup edge[d] => peer[d] = "rst"
    BY <1>2, <2>1 DEF BatchInv
  <2>5. QED
    BY <1>1, <1>6, <2>2, <2>3, <2>4 DEF BatchInv, Open, tableVars, envVars,
                                        connVars
<1>8. InterestInv'
  BY <1>1, <1>3, <1>6 DEF ReactorInv, InterestInv, Fired, Open, Stranded,
                          tableVars, envVars, connVars
<1>9. QED
  BY <1>4, <1>5, <1>7, <1>8 DEF ReactorInv

\* Two connections that hold a descriptor hold different ones.
LEMMA OwnFds ==
  ASSUME OwnerInv, NEW c \in Conns, NEW d \in Conns, Holds(c), Holds(d),
         http[c].fd = http[d].fd
  PROVE  c = d
  BY DEF OwnerInv

\* Closing an open connection of the loop: by the handlers, or by its timer.
\* Its descriptor leaves the tables, it leaves the batch and the timers.
LEMMA CloseInv ==
  ASSUME TypeOK, ReactorInv, NEW l \in Loops, NEW c \in Conns,
         Open(c), http[c].loop = l, dying[l] = None,
         pc[l] \in {"dispatch", "expire"}, HandleClose(l, c),
         \A m \in Loops : batch'[m] = batch[m] \ (IF m = l THEN {c} ELSE {}),
         \A d \in Conns : revents_'[d] = IF d = c THEN {} ELSE revents_[d],
         \A d \in Conns : edge'[d] \subseteq edge[d],
         timers' = {n \in timers : n.conn # c},
         UNCHANGED <<pc, pending, functors, fdOwner, peer, clock>>
  PROVE  ReactorInv'
<1> DEFINE f == http[c].fd
<1>1. /\ http'[c].life = "closing" /\ http'[c].fd = f /\ http'[c].loop = l
      /\ \A d \in Conns \ {c} : http'[d] = http[d]
      /\ dying'[l] = c /\ \A m \in Loops \ {l} : dying'[m] = dying[m]
      /\ UNCHANGED <<lastEvents_, granted, quiet>>
  BY CloseFacts
<1>2. \A m \in Loops, g \in Fds :
        /\ m = l /\ g = f => /\ interest'[m][g] = None
                             /\ fd2chan_'[m][g] = None
                             /\ fd2http_'[m][g] = None
        /\ ~(m = l /\ g = f) => /\ interest'[m][g] = interest[m][g]
                                /\ fd2chan_'[m][g] = fd2chan_[m][g]
                                /\ fd2http_'[m][g] = fd2http_[m][g]
  BY CloseFacts
<1>3. /\ PhaseInv /\ OwnerInv /\ QueueInv /\ TableInv /\ BatchInv /\ TimerInv
      /\ InterestInv
  BY DEF ReactorInv
<1>4. /\ \A m \in Loops : dying[m] \in Conns \cup {None}
      /\ \A g \in Fds : fdOwner[g] \in Conns \cup {None}
      /\ \A m \in Loops, g \in Fds : fd2http_[m][g] \in Conns \cup {None}
      /\ \A m \in Loops : batch[m] \subseteq Conns
      /\ \A n \in timers : n.conn \in Conns
      /\ None \notin Conns
  BY ReactorAssumption DEF TypeOK
<1>5. \A d \in Conns : Holds(d)' <=> Holds(d)
  BY <1>1 DEF Holds, Open
<1>6. \A d \in Conns : Open(d)' <=> d # c /\ Open(d)
  BY <1>1 DEF Open
<1>7. \A d \in Conns : Open(d) /\ d # c =>
        http[d].fd \in Fds /\ http[d].loop \in Loops /\ http[d].fd # f
  BY <1>3, OwnFds DEF OwnerInv, Holds, Open
<1> HIDE DEF f
<1>8. PhaseInv'
  BY <1>1, <1>3 DEF PhaseInv
<1>9. OwnerInv'
  <2>1. \A d \in Conns : http'[d].fd = http[d].fd /\ http'[d].loop = http[d].loop
    BY <1>1 DEF f
  <2>2. \A m \in Loops : dying'[m] # None =>
          http'[dying'[m]].life = "closing" /\ http'[dying'[m]].loop = m
    BY <1>1, <1>3, <1>4 DEF OwnerInv, Open
  <2>3. QED
    BY <1>3, <1>4, <1>5, <2>1, <2>2 DEF OwnerInv
<1>10. QueueInv'
  <2>1. \A m \in Loops : pending[m] \in Seq(Conns) /\ functors[m] \in Seq(Conns)
    BY DEF TypeOK
  <2>2. \A q \in Seq(Conns), m \in Loops : QueuedOnce(q, m) => QueuedOnce(q, m)'
    BY <1>1 DEF QueuedOnce, Open
  <2>3. QED
    BY <1>3, <2>1, <2>2 DEF QueueInv
<1>11. TableInv'
  <2>1. ASSUME NEW d \in Conns, Open(d)'
        PROVE  fd2http_'[http'[d].loop][http'[d].fd] = d
    BY <1>1, <1>2, <1>3, <1>6, <1>7, <2>1 DEF TableInv
  <2>2. ASSUME NEW m \in Loops, NEW g \in Fds, NEW d,
               fd2http_'[m][g] = d, d # None
        PROVE  Open(d)' /\ http'[d].loop = m /\ http'[d].fd = g
    <3>1. ~(m = l /\ g = f) /\ fd2http_[m][g] = d
      BY <1>2, <2>2
    <3>2. d \in Conns /\ Open(d) /\ http[d].loop = m /\ http[d].fd = g
      BY <1>3, <1>4, <2>2, <3>1 DEF TableInv
    <3>3. d # c
      BY <3>1, <3>2 DEF f
    <3>4. QED
      BY <1>1, <1>6, <3>2, <3>3
  <2>3. ASSUME NEW m \in Loops, NEW g \in Fds
        PROVE  /\ fd2chan_'[m][g] # None => fd2chan_'[m][g] = fd2http_'[m][g]
               /\ fd2chan_'[m][g] # None => interest'[m][g] # None
               /\ interest'[m][g] # None => fd2http_'[m][g] # None
    BY <1>2, <1>3 DEF TableInv
  <2>4. QED
    BY <2>1, <2>2, <2>3 DEF TableInv
<1>12. BatchInv'
  <2>1. ASSUME NEW m \in Loops, NEW d \in batch'[m]
        PROVE  /\ Open(d)' /\ http'[d].loop = m
               /\ fd2chan_'[m][http'[d].fd] = d
    <3>1. d \in batch[m] /\ (m = l => d # c)
      OBVIOUS
    <3>2. /\ d \in Conns /\ Open(d) /\ http[d].loop = m
          /\ fd2chan_[m][http[d].fd] = d
      BY <1>3, <1>4, <3>1 DEF BatchInv
    <3>3. d # c
      BY <3>1, <3>2
    <3>4. QED
      BY <1>1, <1>2, <1>6, <1>7, <3>2, <3>3
  <2>2. ASSUME NEW d \in Conns, revents_'[d] # {}
        PROVE  Open(d)' /\ InBatch(d)'
    BY <1>1, <1>3, <1>6, <1>7, <2>2 DEF BatchInv, InBatch
  <2>3. \A d \in Conns : "err" \in revents_'[d] \cup edge'[d] => peer[d] = "rst"
    BY <1>3 DEF BatchInv
  <2>4. QED
    BY <2>1, <2>2, <2>3 DEF BatchInv
<1>13. TimerInv'
  <2>1. \A n \in timers' : n \in timers /\ n.conn \in Conns \ {c}
    BY <1>4
  <2>2. \A n \in timers' : Open(n.conn)' /\ NotYetDue(n)'
    BY <1>1, <1>3, <1>6, <2>1 DEF TimerInv, NotYetDue
  <2>3. NoneForgotten'
    <3>1. SUFFICES ASSUME NEW d \in Conns, Open(d)', ~Stranded(d)'
                   PROVE  \E n \in timers' : n.conn = d
      BY DEF NoneForgotten, Nodes
    <3>2. d # c /\ Open(d) /\ ~Stranded(d)
      BY <1>1, <1>6, <3>1 DEF Stranded
    <3>3. QED
      BY <1>3, <3>2 DEF TimerInv, NoneForgotten, Nodes
  <2>4. QED
    BY <1>1, <1>3, <2>1, <2>2, <2>3 DEF TimerInv
<1>14. InterestInv'
  <2>1. ASSUME NEW d \in Conns \ {c}, Open(d)
        PROVE  /\ interest'[http[d].loop][http[d].fd] =
                    interest[http[d].loop][http[d].fd]
               /\ fd2chan_'[http[d].loop][http[d].fd] =
                    fd2chan_[http[d].loop][http[d].fd]
               /\ InBatch(d)' <=> InBatch(d)
               /\ Stranded(d)' <=> Stranded(d)
               /\ Fired(d) => Fired(d)'
    <3>1. /\ interest'[http[d].loop][http[d].fd] =
               interest[http[d].loop][http[d].fd]
          /\ fd2chan_'[http[d].loop][http[d].fd] =
               fd2chan_[http[d].loop][http[d].fd]
      BY <1>2, <1>7, <2>1
    <3>2. InBatch(d)' <=> InBatch(d)
      BY <1>1, <1>7, <2>1 DEF InBatch
    <3>3. Stranded(d)' <=> Stranded(d)
      BY <1>1, <1>6, <2>1 DEF Stranded
    <3>4. QED
      BY <1>1, <3>1, <3>2, <3>3 DEF Fired
  <2>2. \A d \in Conns : Open(d)' => d # c /\ Open(d)
    BY <1>6
  <2>3. QED
    BY <1>1, <1>3, <2>1, <2>2 DEF InterestInv
<1>15. QED
  BY <1>8, <1>9, <1>10, <1>11, <1>12, <1>13, <1>14 DEF ReactorInv

\* The node that addTimer makes.
NodeOf(c, t) == [conn |-> c, linked |-> TRUE, expiredTime_ |-> clock + t]

\* With every node linked, separateTimer leaves no node of the connection, and
\* a new one leaves the nodes of the others as they are.
LEMMA TimerSets ==
  ASSUME NEW S \in SUBSET Node, \A n \in S : n.linked, NEW c \in Conns, NEW t
  PROVE  /\ Separate(S, c) = {n \in S : n.conn # c}
         /\ (\A n \in S : n.conn # c) =>
              AddTimer(S, c, t) =
                S \cup {NodeOf(c, t)}
<1>1. Separate(S, c) = {n \in S : n.conn # c}
  BY DEF Separate
<1>2. ASSUME \A n \in S : n.conn # c
      PROVE  AddTimer(S, c, t) =
               S \cup {NodeOf(c, t)}
  <2>1. \A n \in S : [n EXCEPT !.linked = @ /\ n.conn # c] = n
    BY <1>2 DEF Node
  <2>2. {[n EXCEPT !.linked = @ /\ n.conn # c] : n \in S} = S
    BY <2>1
  <2>3. QED
    BY <2>2 DEF AddTimer, NodeOf
<1>3. QED
  BY <1>1, <1>2

\* A connection gets a new timer and the silence starts again.
LEMMA RearmInv ==
  ASSUME TypeOK, TimerInv, NEW c \in Conns, NEW t \in 0 .. KeepAliveTime,
         Open(c)', Restart(c, t), UNCHANGED clock,
         \A d \in Conns \ {c} : http'[d] = http[d],
         timers' = {n \in timers : n.conn # c}
                     \cup {NodeOf(c, t)}
  PROVE  TimerInv'
<1> DEFINE new == NodeOf(c, t)
<1>1. /\ granted'[c] = t /\ quiet'[c] = 0
      /\ \A d \in Conns \ {c} : granted'[d] = granted[d] /\ quiet'[d] = quiet[d]
  BY DEF Restart, TypeOK
<1>2. new.conn = c /\ new.expiredTime_ = clock + t /\ new.linked
  BY DEF NodeOf
<1>3. \A n \in timers : n.conn \in Conns
  BY DEF TypeOK
<1>4. timers' = {n \in timers : n.conn # c} \cup {new}
  OBVIOUS
<1> HIDE DEF new
<1>5. \A n \in timers' : n = new \/ (n \in timers /\ n.conn \in Conns \ {c})
  BY <1>3, <1>4
<1>6. ASSUME NEW n \in timers'
      PROVE  /\ n.linked /\ Open(n.conn)' /\ NotYetDue(n)'
             /\ \A m \in timers' : m.conn = n.conn => m = n
  <2>1. CASE n = new
    <3>1. \A m \in timers' : m.conn = c => m = new
      BY <1>5
    <3>2. clock \in Nat /\ t \in Nat
      BY ReactorAssumption DEF TypeOK
    <3>3. NotYetDue(n)'
      BY <1>1, <1>2, <2>1, <3>2 DEF NotYetDue
    <3>4. QED
      BY <1>2, <2>1, <3>1, <3>3
  <2>2. CASE n \in timers /\ n.conn \in Conns \ {c}
    <3>1. /\ n.linked /\ Open(n.conn) /\ NotYetDue(n)
          /\ \A m \in timers : m.conn = n.conn => m = n
      BY <2>2 DEF TimerInv
    <3>2. \A m \in timers' : m.conn = n.conn => m = n
      BY <1>2, <1>5, <2>2, <3>1
    <3>3. NotYetDue(n)'
      BY <1>1, <2>2, <3>1 DEF NotYetDue
    <3>4. QED
      BY <2>2, <3>1, <3>2, <3>3 DEF Open
  <2>3. QED
    BY <1>5, <2>1, <2>2
<1>7. NoneForgotten'
  <2>1. SUFFICES ASSUME NEW d \in Conns, Open(d)', ~Stranded(d)'
                 PROVE  \E n \in timers' : n.conn = d
    BY DEF NoneForgotten, Nodes
  <2>2. CASE d = c
    BY <1>2, <1>4, <2>2
  <2>3. CASE d # c
    BY <1>4, <2>1, <2>3 DEF TimerInv, NoneForgotten, Nodes, Open, Stranded
  <2>4. QED
    BY <2>2, <2>3
<1>8. QED
  BY <1>6, <1>7 DEF TimerInv

\* Only an expired timer closes a connection outside the dispatch, and no
\* channel is left to dispatch then.
LEMMA ExpireInv ==
  ASSUME TypeOK, ReactorInv, NEW l \in Loops, Expire(l)
  PROVE  ReactorInv'
<1>1. PICK n \in timers : /\ http[n.conn].loop = l
                          /\ timers' = timers \ {n} /\ HandleClose(l, n.conn)
  BY DEF Expire, ExpiredNodes
<1>2. /\ pc[l] = "expire" /\ dying[l] = None
      /\ UNCHANGED <<next_, pc, batch, pending, functors, fdOwner, envVars,
                     revents_>>
  BY DEF Expire
<1> DEFINE c == n.conn
<1>3. c \in Conns
  BY DEF TypeOK
<1>4. Open(c) /\ \A m \in timers : m.conn = c => m = n
  BY DEF ReactorInv, TimerInv
<1>5. timers' = {m \in timers : m.conn # c}
  BY <1>1, <1>4
<1>6. batch[l] = {}
  BY <1>2 DEF ReactorInv, PhaseInv
<1>7. revents_[c] = {}
  BY <1>1, <1>3, <1>6 DEF ReactorInv, BatchInv, InBatch
<1>8. \A m \in Loops : batch'[m] = batch[m] \ (IF m = l THEN {c} ELSE {})
  BY <1>2, <1>6
<1>9. /\ \A d \in Conns : revents_'[d] = IF d = c THEN {} ELSE revents_[d]
      /\ \A d \in Conns : edge'[d] \subseteq edge[d]
  BY <1>2, <1>7 DEF envVars
<1>10. QED
  BY <1>1, <1>2, <1>3, <1>4, <1>5, <1>8, <1>9, CloseInv DEF envVars

\* Channel c is dispatched: it leaves the batch, and its events are handled.
Dispatched(l, c) ==
  /\ pc[l] = "dispatch" /\ dying[l] = None /\ c \in batch[l]
  /\ \A m \in Loops : batch'[m] = batch[m] \ (IF m = l THEN {c} ELSE {})
  /\ \A d \in Conns : revents_'[d] = IF d = c THEN {} ELSE revents_[d]
  /\ \A d \in Conns : edge'[d] \subseteq edge[d]
  /\ UNCHANGED <<next_, pc, pending, functors, fdOwner, peer, clock>>

\* The handlers of a channel dispatch it and end in one of three ways.
LEMMA HandleFacts ==
  ASSUME TypeOK, ReactorInv, NEW l \in Loops, NEW c \in Conns,
         HandleEvents(l, c)
  PROVE  /\ Dispatched(l, c) /\ Open(c) /\ http[c].loop = l
         /\ http[c].fd \in Fds /\ interest[l][http[c].fd] # None
         /\ \E o \in Outcomes(c) :
              KeepConn(l, c, o) \/ LeaveConn(l, c, o) \/ DropConn(l, c, o)
<1>1. PICK o \in Outcomes(c) :
          /\ KeepConn(l, c, o) \/ LeaveConn(l, c, o) \/ DropConn(l, c, o)
          /\ edge' = [edge EXCEPT ![c] =
                     @ \ ((IF "in" \in revents_[c] /\ peer[c] # "rst"
                           THEN {"in"} ELSE {})
                          \cup (IF o.owes THEN {"out"} ELSE {}))]
  BY DEF HandleEvents
<1>2. \A d \in Conns : edge'[d] \subseteq edge[d]
  BY <1>1 DEF TypeOK
<1>3. /\ \A m \in Loops : batch'[m] = batch[m] \ (IF m = l THEN {c} ELSE {})
      /\ \A d \in Conns : revents_'[d] = IF d = c THEN {} ELSE revents_[d]
  BY DEF HandleEvents, TypeOK
<1>4. Dispatched(l, c)
  BY <1>2, <1>3 DEF HandleEvents, Dispatched
<1>5. c \in batch[l] /\ BatchInv /\ OwnerInv /\ TableInv
  BY <1>4 DEF Dispatched, ReactorInv
<1>6. Open(c) /\ http[c].loop = l /\ fd2chan_[l][http[c].fd] = c
  BY <1>5 DEF BatchInv
<1>7. http[c].fd \in Fds
  BY <1>5, <1>6 DEF OwnerInv, Holds, Open
<1>8. interest[l][http[c].fd] # None
  BY <1>5, <1>6, <1>7, ReactorAssumption DEF TableInv
<1>9. QED
  BY <1>1, <1>4, <1>6, <1>7, <1>8

\* What a dispatch that does not close the connection keeps, whatever its
\* timer and its registration become.
LEMMA GoesOnInv ==
  ASSUME TypeOK, ReactorInv, NEW l \in Loops, NEW c \in Conns,
         Dispatched(l, c), Open(c), http[c].loop = l, http[c].fd \in Fds,
         SameLives, UNCHANGED <<fd2http_, dying>>,
         \A m \in Loops, g \in Fds :
           /\ interest'[m][g] # None <=> interest[m][g] # None
           /\ fd2chan_'[m][g] \in {fd2chan_[m][g], None}
           /\ ~(m = l /\ g = http[c].fd) => fd2chan_'[m][g] = fd2chan_[m][g]
  PROVE  PhaseInv' /\ OwnerInv' /\ QueueInv' /\ TableInv' /\ BatchInv'
<1>1. PhaseInv /\ OwnerInv /\ TableInv /\ BatchInv
  BY DEF ReactorInv
<1>2. PhaseInv'
  BY <1>1 DEF Dispatched, PhaseInv
<1>3. OwnerInv' /\ QueueInv'
  BY SameLivesKeep DEF Dispatched
<1>4. TableInv'
  <2>1. \A m \in Loops, g \in Fds : fd2http_[m][g] \in Conns \cup {None}
    BY DEF TypeOK
  <2>2. QED
    BY <1>1, <2>1 DEF TableInv, Open, SameLives
<1>5. BatchInv'
  <2>1. \A m \in Loops : \A d \in batch'[m] : d \in batch[m] /\ d \in Conns
    BY DEF Dispatched, TypeOK
  <2>2. \A d \in Conns \ {c} : Open(d) /\ InBatch(d) => InBatch(d)'
    BY <1>1 DEF InBatch, Dispatched, SameLives, OwnerInv, Holds, Open
  <2>3. \A d \in Conns : revents_'[d] # {} => d # c /\ Open(d) /\ InBatch(d)
    BY <1>1 DEF Dispatched, BatchInv
  <2>4. \A d \in Conns : "err" \in revents_'[d] \cup edge'[d] => peer[d] = "rst"
    BY <1>1 DEF Dispatched, BatchInv
  <2>5. \A d \in Conns : Open(d)' <=> Open(d)
    BY DEF SameLives, Open
  <2>6. UNCHANGED peer
    BY DEF Dispatched
  <2>7. ASSUME NEW m \in Loops, NEW d \in batch'[m]
        PROVE  /\ Open(d)' /\ http'[d].loop = m
               /\ fd2chan_'[m][http'[d].fd] = d
    <3>1. d \in Conns /\ d \in batch[m] /\ ~(m = l /\ d = c)
      BY <2>1 DEF Dispatched
    <3>2. Open(d) /\ http[d].loop = m /\ fd2chan_[m][http[d].fd] = d
      BY <1>1, <3>1 DEF BatchInv
    <3>3. http[d].fd \in Fds /\ http[d].fd # http[c].fd
      BY <1>1, <3>1, <3>2, OwnFds DEF OwnerInv, Holds, Open
    <3>4. QED
      BY <2>5, <3>1, <3>2, <3>3 DEF SameLives
  <2>8. QED
    BY <2>2, <2>3, <2>4, <2>5, <2>6, <2>7 DEF BatchInv
<1>6. QED
  BY <1>2, <1>3, <1>4, <1>5

\* What is watched for another connection than the one dispatched.
LEMMA OthersInterest ==
  ASSUME TypeOK, ReactorInv, NEW l \in Loops, NEW c \in Conns,
         Dispatched(l, c), Open(c), http[c].loop = l, SameLives,
         NEW d \in Conns \ {c}, Open(d), http'[d] = http[d],
         lastEvents_'[d] = lastEvents_[d],
         \A m \in Loops, g \in Fds : ~(m = l /\ g = http[c].fd) =>
           /\ interest'[m][g] = interest[m][g]
           /\ fd2chan_'[m][g] = fd2chan_[m][g]
  PROVE  /\ interest'[http[d].loop][http[d].fd] =
              interest[http[d].loop][http[d].fd]
         /\ fd2chan_'[http[d].loop][http[d].fd] =
              fd2chan_[http[d].loop][http[d].fd]
         /\ Fired(d) => Fired(d)'
         /\ Stranded(d)' <=> Stranded(d)
<1>1. OwnerInv
  BY DEF ReactorInv
<1>2. /\ http[d].fd \in Fds /\ http[d].loop \in Loops
      /\ http[d].fd # http[c].fd
  BY <1>1, OwnFds DEF OwnerInv, Holds, Open
<1>3. /\ interest'[http[d].loop][http[d].fd] =
           interest[http[d].loop][http[d].fd]
      /\ fd2chan_'[http[d].loop][http[d].fd] =
           fd2chan_[http[d].loop][http[d].fd]
  BY <1>2
<1>4. InBatch(d)' <=> InBatch(d)
  BY <1>2 DEF InBatch, Dispatched
<1>5. Stranded(d)' <=> Stranded(d)
  BY DEF Stranded, Open
<1>6. QED
  BY <1>3, <1>4, <1>5 DEF Fired, Dispatched

\* handleConn re-arms the connection for what it asks for now, with a timer.
LEMMA KeepInv ==
  ASSUME TypeOK, ReactorInv, NEW l \in Loops, NEW c \in Conns,
         Dispatched(l, c), Open(c), http[c].loop = l, http[c].fd \in Fds,
         interest[l][http[c].fd] # None,
         NEW o \in Outcomes(c), KeepConn(l, c, o)
  PROVE  ReactorInv'
<1>1. /\ http'[c].life = "open" /\ http'[c].fd = http[c].fd
      /\ http'[c].loop = l /\ http'[c].owes = o.owes
      /\ http'[c].asks = o.asks /\ http'[c].state = http[c].state
      /\ \A d \in Conns \ {c} : http'[d] = http[d]
  BY GoesOnFacts DEF Open
<1>2. ~Stranded(c)
  BY DEF KeepConn, Outcomes, Stranded
<1> DEFINE events == IF o.asks THEN {"out"} ELSE {"in"}
<1>3. PICK t \in {KeepAliveTime, HeaderTime, IdleTime} :
        UpdatePoller(l, c, events, t)
  BY DEF KeepConn
<1>4. t \in 0 .. KeepAliveTime
  BY ReactorAssumption
<1>5. /\ timers' = AddTimer(Separate(timers, c), c, t) /\ Restart(c, t)
      /\ UNCHANGED <<dying, fd2http_>>
  BY <1>3 DEF UpdatePoller
<1>6. /\ lastEvents_'[c] = events
      /\ \A d \in Conns \ {c} : lastEvents_'[d] = lastEvents_[d]
  BY <1>3 DEF UpdatePoller, TypeOK
<1>7. /\ \A m \in Loops, g \in Fds : ~(m = l /\ g = http[c].fd) =>
           /\ interest'[m][g] = interest[m][g]
           /\ fd2chan_'[m][g] = fd2chan_[m][g]
      /\ \/ lastEvents_[c] = events /\ UNCHANGED <<interest, fd2chan_>>
         \/ /\ lastEvents_[c] # events /\ interest'[l][http[c].fd] = events
            /\ UNCHANGED fd2chan_
         \/ /\ fd2chan_'[l][http[c].fd] = None /\ UNCHANGED interest
  BY <1>3 DEF UpdatePoller, EpollMod, TypeOK
<1>8. /\ events \in {{"in"}, {"out"}} /\ (o.asks <=> events = {"out"})
      /\ events # {"in", "oneshot"} /\ events # None
  <2>1. {"in"} # {"out"} /\ {"in"} # {"in", "oneshot"}
        /\ {"out"} # {"in", "oneshot"}
    OBVIOUS
  <2>2. {"in"} # None /\ {"out"} # None
    BY ReactorAssumption
  <2>3. o.asks \in BOOLEAN
    BY DEF Outcomes
  <2>4. QED
    BY <2>1, <2>2, <2>3
<1> HIDE DEF events
<1>9. SameLives
  BY <1>1 DEF SameLives, Open
<1>10. PhaseInv' /\ OwnerInv' /\ QueueInv' /\ TableInv' /\ BatchInv'
  <2>1. \A m \in Loops, g \in Fds :
          /\ interest'[m][g] # None <=> interest[m][g] # None
          /\ fd2chan_'[m][g] \in {fd2chan_[m][g], None}
    BY <1>7, <1>8
  <2>2. QED
    BY <1>5, <1>7, <1>9, <2>1, GoesOnInv
<1>11. TimerInv'
  <2>1. TimerInv /\ timers \in SUBSET Node /\ \A n \in timers : n.linked
    BY DEF ReactorInv, TimerInv, TypeOK, Node
  <2> DEFINE S == {n \in timers : n.conn # c}
  <2>2. Separate(timers, c) = S
    BY <2>1, TimerSets
  <2>3. S \in SUBSET Node /\ \A n \in S : n.linked /\ n.conn # c
    BY <2>1
  <2> HIDE DEF S
  <2>4. AddTimer(S, c, t) = S \cup {NodeOf(c, t)}
    BY <2>3, TimerSets
  <2>5. timers' = S \cup {NodeOf(c, t)}
    BY <1>5, <2>2, <2>4
  <2>6. Open(c)'
    BY <1>1 DEF Open
  <2>7. QED
    BY <1>1, <1>4, <1>5, <2>1, <2>5, <2>6, RearmInv DEF S, Dispatched
<1>12. InterestInv'
  <2>1. InterestInv
    BY DEF ReactorInv
  <2>2. \/ fd2chan_'[l][http[c].fd] = None
        \/ interest'[l][http[c].fd] = lastEvents_'[c]
    <3>1. \/ fd2chan_[l][http[c].fd] = None
          \/ interest[l][http[c].fd] = lastEvents_[c]
          \/ lastEvents_[c] = {"in", "oneshot"}
      BY <2>1 DEF InterestInv, Fired
    <3>2. QED
      BY <1>6, <1>7, <1>8, <3>1
  <2>3. /\ lastEvents_'[c] \in {{"in", "oneshot"}, {"in"}, {"out"}}
        /\ http'[c].asks <=> lastEvents_'[c] = {"out"}
        /\ http'[c].owes => http'[c].asks
    BY <1>1, <1>6, <1>8 DEF Outcomes
  <2>4. ASSUME NEW d \in Conns \ {c}, Open(d)
        PROVE  /\ interest'[http[d].loop][http[d].fd] =
                    interest[http[d].loop][http[d].fd]
               /\ fd2chan_'[http[d].loop][http[d].fd] =
                    fd2chan_[http[d].loop][http[d].fd]
               /\ Fired(d) => Fired(d)'
               /\ Stranded(d)' <=> Stranded(d)
    BY <1>1, <1>6, <1>7, <1>9, <2>4, OthersInterest
  <2>5. \A d \in Conns : Open(d)' <=> Open(d)
    BY <1>9 DEF SameLives, Open
  <2>6. QED
    BY <1>1, <1>6, <2>1, <2>2, <2>3, <2>4, <2>5 DEF InterestInv
<1>13. QED
  BY <1>10, <1>11, <1>12 DEF ReactorInv

\* handleConn leaves a connection stranded: its timer goes, and the kernel
\* watches it as before.
LEMMA LeaveInv ==
  ASSUME TypeOK, ReactorInv, NEW l \in Loops, NEW c \in Conns,
         Dispatched(l, c), Open(c), http[c].loop = l, http[c].fd \in Fds,
         NEW o \in Outcomes(c), LeaveConn(l, c, o)
  PROVE  ReactorInv'
<1>1. /\ http'[c].life = "open" /\ http'[c].fd = http[c].fd
      /\ http'[c].loop = l /\ http'[c].state = "H_DISCONNECTING"
      /\ http'[c].owes => http'[c].asks
      /\ \A d \in Conns \ {c} : http'[d] = http[d]
  BY GoesOnFacts DEF Open, Outcomes
<1>2. /\ timers' = Separate(timers, c)
      /\ UNCHANGED <<tableVars, lastEvents_, granted, quiet, dying>>
  BY DEF LeaveConn
<1>3. SameLives
  BY <1>1 DEF SameLives, Open
<1>4. PhaseInv' /\ OwnerInv' /\ QueueInv' /\ TableInv' /\ BatchInv'
  BY <1>2, <1>3, GoesOnInv DEF tableVars
<1>5. Stranded(c)'
  BY <1>1 DEF Stranded, Open
<1>6. TimerInv'
  <2>1. TimerInv /\ timers \in SUBSET Node /\ \A n \in timers : n.linked
    BY DEF ReactorInv, TimerInv, TypeOK, Node
  <2>2. timers' = {n \in timers : n.conn # c}
    BY <1>2, <2>1, TimerSets
  <2>3. \A n \in timers' : n \in timers /\ n.conn \in Conns \ {c}
    BY <2>1, <2>2 DEF Node
  <2>4. NoneForgotten'
    <3>1. SUFFICES ASSUME NEW d \in Conns, Open(d)', ~Stranded(d)'
                   PROVE  \E n \in timers' : n.conn = d
      BY DEF NoneForgotten, Nodes
    <3>2. d # c /\ Open(d) /\ ~Stranded(d)
      BY <1>1, <1>5, <3>1 DEF Open, Stranded
    <3>3. QED
      BY <2>1, <2>2, <3>2 DEF TimerInv, NoneForgotten, Nodes
  <2>5. \A n \in timers' : Open(n.conn)' /\ NotYetDue(n)'
    BY <1>1, <1>2, <2>1, <2>3 DEF TimerInv, NotYetDue, Open, Dispatched
  <2>6. QED
    BY <1>2, <2>1, <2>3, <2>4, <2>5 DEF TimerInv
<1>7. InterestInv'
  <2>1. InterestInv
    BY DEF ReactorInv
  <2>2. ASSUME NEW d \in Conns \ {c}, Open(d)
        PROVE  /\ interest'[http[d].loop][http[d].fd] =
                    interest[http[d].loop][http[d].fd]
               /\ fd2chan_'[http[d].loop][http[d].fd] =
                    fd2chan_[http[d].loop][http[d].fd]
               /\ Fired(d) => Fired(d)'
               /\ Stranded(d)' <=> Stranded(d)
    BY <1>1, <1>2, <1>3, <2>2, OthersInterest DEF tableVars
  <2>3. \A d \in Conns : Open(d)' <=> Open(d)
    BY <1>3 DEF SameLives, Open
  <2>4. Fired(c) => Fired(c)'
    BY <1>1, <1>2, <1>5 DEF Fired, tableVars
  <2>5. QED
    BY <1>1, <1>2, <1>5, <2>1, <2>2, <2>3, <2>4 DEF InterestInv, tableVars
<1>8. QED
  BY <1>4, <1>6, <1>7 DEF ReactorInv

\* Every way out of the handlers.
LEMMA HandleInv ==
  ASSUME TypeOK, ReactorInv, NEW l \in Loops, NEW c \in Conns,
         HandleEvents(l, c)
  PROVE  ReactorInv'
<1>1. /\ Dispatched(l, c) /\ Open(c) /\ http[c].loop = l
      /\ http[c].fd \in Fds /\ interest[l][http[c].fd] # None
  BY HandleFacts
<1>2. PICK o \in Outcomes(c) :
        KeepConn(l, c, o) \/ LeaveConn(l, c, o) \/ DropConn(l, c, o)
  BY HandleFacts
<1>3. CASE KeepConn(l, c, o)
  BY <1>1, <1>3, KeepInv
<1>4. CASE LeaveConn(l, c, o)
  BY <1>1, <1>4, LeaveInv
<1>5. CASE DropConn(l, c, o)
  <2>1. timers' = Separate(timers, c) /\ HandleClose(l, c)
    BY <1>5 DEF DropConn
  <2>2. timers \in SUBSET Node /\ \A n \in timers : n.linked
    BY DEF ReactorInv, TimerInv, TypeOK, Node
  <2>3. timers' = {n \in timers : n.conn # c}
    BY <2>1, <2>2, TimerSets
  <2>4. QED
    BY <1>1, <2>1, <2>3, CloseInv DEF Dispatched
<1>6. QED
  BY <1>2, <1>3, <1>4, <1>5

\* A closed connection gives its descriptor back; nothing names it any more.
LEMMA DestroyInv ==
  ASSUME TypeOK, ReactorInv, NEW l \in Loops, Destroy(l)
  PROVE  ReactorInv'
<1> DEFINE c == dying[l]
<1>1. c \in Conns /\ http[c].life = "closing" /\ http[c].loop = l
  BY ReactorAssumption DEF Destroy, TypeOK, ReactorInv, OwnerInv
<1>2. /\ http'[c].life = "dead" /\ \A d \in Conns \ {c} : http'[d] = http[d]
      /\ http'[c].owes = FALSE /\ http'[c].asks = FALSE
  <2>1. http' = [http EXCEPT ![c] = [Unborn EXCEPT !.life = "dead",
                                       !.state = "H_DISCONNECTED"]]
    BY DEF Destroy
  <2> DEFINE h == [Unborn EXCEPT !.life = "dead", !.state = "H_DISCONNECTED"]
  <2>2. h.life = "dead" /\ h.owes = FALSE /\ h.asks = FALSE
    BY DEF Unborn
  <2>3. http' = [http EXCEPT ![c] = h]
    BY <2>1
  <2> HIDE DEF h
  <2>4. QED
    BY <1>1, <2>2, <2>3 DEF TypeOK
<1>3. /\ \A d \in Conns : edge'[d] = IF d = c THEN {} ELSE edge[d]
      /\ \A d \in Conns \ {c} : /\ peer'[d] = peer[d]
                                /\ lastEvents_'[d] = lastEvents_[d]
                                /\ granted'[d] = granted[d]
                                /\ quiet'[d] = quiet[d]
      /\ dying'[l] = None /\ \A m \in Loops \ {l} : dying'[m] = dying[m]
      /\ UNCHANGED <<next_, pc, batch, pending, functors, tableVars, timers,
                     clock, revents_>>
  BY <1>1 DEF Destroy, TypeOK
<1>4. \A g \in Fds : fdOwner'[g] = IF g = http[c].fd THEN None ELSE fdOwner[g]
  BY DEF Destroy, TypeOK
<1>5. /\ PhaseInv /\ OwnerInv /\ QueueInv /\ TableInv /\ BatchInv /\ TimerInv
      /\ InterestInv
  BY DEF ReactorInv
<1>6. \A d \in Conns : Holds(d)' <=> d # c /\ Holds(d)
  BY <1>2 DEF Holds
<1>7. ~Open(c) /\ \A d \in Conns : Open(d)' <=> Open(d)
  BY <1>1, <1>2 DEF Open
<1>8. \A d \in Conns \ {c} : Holds(d) => http[d].fd # http[c].fd
  BY <1>1, <1>5, OwnFds DEF Holds
<1>9. /\ \A m \in Loops : dying[m] \in Conns \cup {None}
      /\ \A g \in Fds : fdOwner[g] \in Conns \cup {None}
      /\ \A m \in Loops, g \in Fds : fd2http_[m][g] \in Conns \cup {None}
      /\ \A m \in Loops : batch[m] \subseteq Conns
      /\ \A n \in timers : n.conn \in Conns
      /\ None \notin Conns
  BY ReactorAssumption DEF TypeOK
<1> HIDE DEF c
<1>10. PhaseInv'
  BY <1>3, <1>5 DEF PhaseInv
<1>11. OwnerInv'
  <2>1. \A m \in Loops : dying'[m] # None => m # l /\ dying'[m] \in Conns \ {c}
    BY <1>1, <1>3, <1>5, <1>9 DEF OwnerInv
  <2>2. \A g \in Fds : fdOwner'[g] # None =>
          g # http[c].fd /\ fdOwner'[g] = fdOwner[g] /\ fdOwner[g] \in Conns \ {c}
    BY <1>4, <1>5, <1>9 DEF OwnerInv
  <2>3. \A d \in Conns : Holds(d)' =>
          http'[d].fd \in Fds /\ http'[d].loop \in Loops
          /\ fdOwner'[http'[d].fd] = d
    BY <1>2, <1>4, <1>5, <1>6, <1>8 DEF OwnerInv
  <2>4. \A m \in Loops : dying'[m] # None =>
          http'[dying'[m]].life = "closing" /\ http'[dying'[m]].loop = m
    BY <1>2, <1>3, <1>5, <2>1 DEF OwnerInv
  <2>5. \A g \in Fds : fdOwner'[g] # None =>
          http'[fdOwner'[g]].fd = g
    BY <1>2, <1>5, <2>2 DEF OwnerInv
  <2>6. \A g \in Fds : fdOwner'[g] # None =>
          http'[fdOwner'[g]].life \in {"queued", "open", "closing"}
    BY <1>2, <1>5, <2>2 DEF OwnerInv, Holds
  <2>7. QED
    BY <2>3, <2>4, <2>5, <2>6 DEF OwnerInv, Holds
<1>12. QueueInv'
  <2>1. \A m \in Loops : pending[m] \in Seq(Conns) /\ functors[m] \in Seq(Conns)
    BY DEF TypeOK
  <2>2. \A q \in Seq(Conns), m \in Loops : QueuedOnce(q, m) => QueuedOnce(q, m)'
    BY <1>1, <1>2 DEF QueuedOnce
  <2>3. QED
    BY <1>3, <1>5, <2>1, <2>2 DEF QueueInv
<1>13. TableInv'
  BY <1>2, <1>3, <1>5, <1>7, <1>9 DEF TableInv, tableVars
<1>14. BatchInv'
  <2>1. \A d \in Conns : Open(d) => (InBatch(d)' <=> InBatch(d))
    BY <1>2, <1>3, <1>7 DEF InBatch
  <2>2. \A d \in Conns : "err" \in revents_'[d] \cup edge'[d] =>
          peer'[d] = "rst"
    BY <1>3, <1>5, <1>7 DEF BatchInv
  <2>3. \A m \in Loops : \A d \in batch'[m] :
          Open(d)' /\ http'[d].loop = m /\ fd2chan_'[m][http'[d].fd] = d
    BY <1>2, <1>3, <1>5, <1>7, <1>9 DEF BatchInv, tableVars
  <2>4. QED
    BY <1>3, <1>5, <1>7, <2>1, <2>2, <2>3 DEF BatchInv
<1>15. TimerInv'
  <2>1. \A n \in timers : n.conn \in Conns \ {c}
    BY <1>5, <1>7, <1>9 DEF TimerInv
  <2>2. \A n \in timers : Open(n.conn)' /\ NotYetDue(n)'
    BY <1>3, <1>5, <1>7, <2>1 DEF TimerInv, NotYetDue
  <2>3. NoneForgotten'
    BY <1>2, <1>3, <1>5, <1>7 DEF TimerInv, NoneForgotten, Nodes, Stranded
  <2>4. QED
    BY <1>3, <1>5, <2>1, <2>2, <2>3 DEF TimerInv
<1>16. InterestInv'
  <2>1. \A d \in Conns \ {c} : Open(d) => (Fired(d) => Fired(d)')
    BY <1>2, <1>3 DEF Fired, InBatch, Stranded, Open, tableVars
  <2>2. QED
    BY <1>2, <1>3, <1>5, <1>7, <2>1 DEF InterestInv, Stranded, tableVars
<1>17. QED
  BY <1>10, <1>11, <1>12, <1>13, <1>14, <1>15, <1>16 DEF ReactorInv

\* A new connection gets a free descriptor and waits in the queue of its loop
\* alone.
LEMMA AcceptInv ==
  ASSUME TypeOK, ReactorInv, NEW c \in Conns, Accept(c)
  PROVE  ReactorInv'
<1>1. PICK f \in Fds :
        /\ fdOwner[f] = None /\ fdOwner' = [fdOwner EXCEPT ![f] = c]
        /\ http' = [http EXCEPT ![c] = [Unborn EXCEPT !.life = "queued",
                                          !.fd = f, !.loop = next_]]
  BY DEF Accept
<1>2. /\ http[c].life = "unborn" /\ next_ \in Loops
      /\ UNCHANGED <<pc, batch, functors, dying, tableVars, envVars,
                     lastEvents_, timers, granted, quiet, revents_>>
  BY DEF Accept, TypeOK
<1>3. /\ http'[c].life = "queued" /\ http'[c].fd = f
      /\ http'[c].loop = next_
      /\ http'[c].owes = FALSE /\ http'[c].asks = FALSE
      /\ \A d \in Conns \ {c} : http'[d] = http[d]
  <2> DEFINE h == [Unborn EXCEPT !.life = "queued", !.fd = f, !.loop = next_]
  <2>1. /\ h.life = "queued" /\ h.fd = f /\ h.loop = next_
        /\ h.owes = FALSE /\ h.asks = FALSE
    BY DEF Unborn
  <2>2. http' = [http EXCEPT ![c] = h]
    BY <1>1
  <2> HIDE DEF h
  <2>3. QED
    BY <2>1, <2>2 DEF TypeOK
<1>4. \A g \in Fds : fdOwner'[g] = IF g = f THEN c ELSE fdOwner[g]
  BY <1>1 DEF TypeOK
<1>5. /\ PhaseInv /\ OwnerInv /\ QueueInv /\ TableInv /\ BatchInv /\ TimerInv
      /\ InterestInv
  BY DEF ReactorInv
<1>6. /\ \A m \in Loops : dying[m] \in Conns \cup {None}
      /\ \A g \in Fds : fdOwner[g] \in Conns \cup {None}
      /\ \A m \in Loops, g \in Fds : fd2http_[m][g] \in Conns \cup {None}
      /\ \A m \in Loops : batch[m] \subseteq Conns
      /\ \A n \in timers : n.conn \in Conns
      /\ None \notin Conns
  BY ReactorAssumption DEF TypeOK
<1>7. ~Holds(c) /\ ~Open(c) /\ \A d \in Conns : Open(d)' <=> Open(d)
  BY <1>2, <1>3 DEF Holds, Open
<1>8. PhaseInv'
  BY <1>2, <1>5 DEF PhaseInv
<1>9. OwnerInv'
  <2>1. Holds(c)' /\ \A d \in Conns \ {c} : Holds(d)' <=> Holds(d)
    BY <1>3 DEF Holds
  <2>2. \A d \in Conns \ {c} : Holds(d) => http[d].fd \in Fds \ {f}
    BY <1>1, <1>5, <1>6 DEF OwnerInv
  <2>3. \A d \in Conns : Holds(d)' =>
          http'[d].fd \in Fds /\ http'[d].loop \in Loops
          /\ fdOwner'[http'[d].fd] = d
    BY <1>2, <1>3, <1>4, <1>5, <2>1, <2>2 DEF OwnerInv
  <2>4. \A g \in Fds \ {f} : fdOwner[g] # None => fdOwner[g] \in Conns \ {c}
    BY <1>5, <1>6, <1>7 DEF OwnerInv
  <2>5. \A g \in Fds, d \in Conns : fdOwner'[g] = d =>
          Holds(d)' /\ http'[d].fd = g
    <3>1. SUFFICES ASSUME NEW g \in Fds, NEW d \in Conns, fdOwner'[g] = d
                   PROVE  Holds(d)' /\ http'[d].fd = g
      OBVIOUS
    <3>2. CASE g = f
      BY <1>3, <1>4, <2>1, <3>1, <3>2
    <3>3. CASE g # f
      BY <1>3, <1>4, <1>5, <1>6, <2>1, <2>4, <3>1, <3>3 DEF OwnerInv
    <3>4. QED
      BY <3>2, <3>3
  <2>6. \A m \in Loops : dying[m] # None => dying[m] \in Conns \ {c}
    BY <1>2, <1>5, <1>6 DEF OwnerInv
  <2>7. \A m \in Loops : dying[m] # None =>
          http'[dying[m]].life = "closing" /\ http'[dying[m]].loop = m
    BY <1>3, <1>5, <2>6 DEF OwnerInv
  <2>8. \A g \in Fds : fdOwner'[g] \in Conns \cup {None}
    BY <1>4, <1>6
  <2>9. QED
    BY <1>2, <2>3, <2>5, <2>7, <2>8 DEF OwnerInv, Holds
<1>10. QueueInv'
  <2>1. /\ \A m \in Loops : pending[m] \in Seq(Conns) /\ functors[m] \in Seq(Conns)
        /\ \A m \in Loops : pending'[m] = IF m = next_ THEN Append(pending[m], c)
                                          ELSE pending[m]
    BY DEF Accept, TypeOK
  <2>2. ASSUME NEW q \in Seq(Conns), NEW m \in Loops, QueuedOnce(q, m)
        PROVE  /\ QueuedOnce(q, m)' /\ \A i \in 1 .. Len(q) : q[i] # c
               /\ m = next_ => QueuedOnce(Append(q, c), m)'
    <3>1. \A i \in 1 .. Len(q) : q[i] \in Conns \ {c}
      BY <1>2, <2>2 DEF QueuedOnce
    <3>2. QueuedOnce(q, m)'
      BY <1>3, <2>2, <3>1 DEF QueuedOnce
    <3>3. ASSUME m = next_
          PROVE  QueuedOnce(Append(q, c), m)'
      BY <1>3, <3>1, <3>2, <3>3 DEF QueuedOnce
    <3>4. QED
      BY <3>1, <3>2, <3>3
  <2>3. \A m \in Loops : QueuedOnce(pending[m], m) /\ QueuedOnce(functors[m], m)
    BY <1>5 DEF QueueInv
  <2>4. ASSUME NEW m \in Loops, NEW q,
               q = pending'[m] \/ q = functors[m]
        PROVE  QueuedOnce(q, m)'
    BY <2>1, <2>2, <2>3, <2>4
  <2>5. ASSUME NEW m \in Loops, NEW i \in 1 .. Len(pending'[m]),
               NEW j \in 1 .. Len(functors[m])
        PROVE  pending'[m][i] # functors[m][j]
    <3>1. functors[m][j] # c
      BY <2>1, <2>2, <2>3
    <3>2. pending'[m][i] = c \/ (i \in 1 .. Len(pending[m])
                                 /\ pending'[m][i] = pending[m][i])
      <4>1. CASE m = next_
        <5>1. pending[m] \in Seq(Conns) /\ pending'[m] = Append(pending[m], c)
          BY <2>1, <4>1
        <5>2. Len(pending'[m]) = Len(pending[m]) + 1
              /\ Len(pending[m]) \in Nat
          BY <5>1
        <5>3. i \in 1 .. Len(pending[m]) \/ i = Len(pending[m]) + 1
          BY <5>2
        <5>4. QED
          BY <5>1, <5>3
      <4>2. CASE m # next_
        BY <2>1, <4>2
      <4>3. QED
        BY <4>1, <4>2
    <3>3. QED
      BY <1>5, <3>1, <3>2 DEF QueueInv
  <2>6. \A m \in Loops : QueuedOnce(pending[m], m)' /\ QueuedOnce(functors[m], m)'
    BY <1>2, <2>4 DEF QueuedOnce
  <2>7. QED
    BY <1>2, <2>5, <2>6 DEF QueueInv
<1>11. TableInv'
  BY <1>2, <1>3, <1>5, <1>6, <1>7 DEF TableInv, tableVars
<1>12. BatchInv'
  <2>1. \A d \in Conns : Open(d) => (InBatch(d)' <=> InBatch(d))
    BY <1>2, <1>3, <1>7 DEF InBatch
  <2>2. \A m \in Loops : \A d \in batch[m] :
          Open(d)' /\ http'[d].loop = m /\ fd2chan_[m][http'[d].fd] = d
    BY <1>3, <1>5, <1>6, <1>7 DEF BatchInv
  <2>3. QED
    BY <1>2, <1>5, <1>7, <2>1, <2>2 DEF BatchInv, tableVars, envVars
<1>13. TimerInv'
  <2>1. \A n \in timers : n.conn \in Conns /\ Open(n.conn)' /\ NotYetDue(n)'
    BY <1>2, <1>5, <1>6, <1>7 DEF TimerInv, NotYetDue, envVars
  <2>2. NoneForgotten'
    BY <1>2, <1>3, <1>5, <1>7 DEF TimerInv, NoneForgotten, Nodes, Stranded
  <2>3. QED
    BY <1>2, <1>5, <2>1, <2>2 DEF TimerInv
<1>14. InterestInv'
  <2>1. \A d \in Conns \ {c} : Open(d) => (Fired(d) => Fired(d)')
    BY <1>2, <1>3 DEF Fired, InBatch, Stranded, Open, tableVars, envVars
  <2>2. QED
    BY <1>2, <1>3, <1>5, <1>7, <2>1 DEF InterestInv, Stranded, tableVars
<1>15. QED
  BY <1>8, <1>9, <1>10, <1>11, <1>12, <1>13, <1>14 DEF ReactorInv

\* newEvent opens the connection at the head of the functors: its descriptor
\* was in no table, and it waited nowhere else.
LEMMA NewEventInv ==
  ASSUME TypeOK, ReactorInv, NEW l \in Loops, NewEvent(l)
  PROVE  ReactorInv'
<1>1. PICK c \in Conns : NewEventOf(l, c)
  BY NewEventFacts
<1> DEFINE f == http[c].fd
<1>2. /\ PhaseInv /\ OwnerInv /\ QueueInv /\ TableInv /\ BatchInv /\ TimerInv
      /\ InterestInv
  BY DEF ReactorInv
<1>3. functors[l] \in Seq(Conns) /\ functors[l] # <<>> /\ c = functors[l][1]
  BY <1>1 DEF NewEventOf, TypeOK
<1>4. http[c].life = "queued" /\ http[c].loop = l
  <2>1. 1 \in 1 .. Len(functors[l])
    BY <1>3
  <2>2. QED
    BY <1>2, <1>3, <2>1 DEF QueueInv, QueuedOnce
<1>5. ~Open(c) /\ Holds(c) /\ f \in Fds /\ fdOwner[f] = c
  BY <1>2, <1>4 DEF Open, Holds, OwnerInv
<1>6. /\ \A m \in Loops : dying[m] \in Conns \cup {None}
      /\ \A g \in Fds : fdOwner[g] \in Conns \cup {None}
      /\ \A m \in Loops, g \in Fds : fd2http_[m][g] \in Conns \cup {None}
      /\ \A m \in Loops : batch[m] \subseteq Conns
      /\ \A n \in timers : n.conn \in Conns
      /\ None \notin Conns /\ {"in", "oneshot"} # None
  <2>1. {"in", "oneshot"} \in SUBSET {"in", "out", "oneshot"}
    OBVIOUS
  <2>2. None # {"in", "oneshot"}
    BY <2>1, ReactorAssumption
  <2>3. QED
    BY <2>2, ReactorAssumption DEF TypeOK
<1>7. /\ http'[c].life = "open" /\ http'[c].fd = f /\ http'[c].loop = l
      /\ http'[c].state = http[c].state /\ http'[c].owes = http[c].owes
      /\ http'[c].asks = http[c].asks
      /\ \A d \in Conns \ {c} : http'[d] = http[d]
      /\ UNCHANGED <<next_, pc, batch, pending, dying, fdOwner, envVars,
                     revents_>>
  BY <1>1, <1>4 DEF NewEventOf
<1>8. /\ lastEvents_'[c] = {"in", "oneshot"}
      /\ \A d \in Conns \ {c} : lastEvents_'[d] = lastEvents_[d]
  BY <1>1 DEF NewEventOf, TypeOK
<1>9. /\ fd2http_'[l][f] = c
      /\ \A m \in Loops, g \in Fds :
           ~(m = l /\ g = f) => fd2http_'[m][g] = fd2http_[m][g]
  BY <1>1, <1>5, SMTT(20) DEF NewEventOf, TypeOK
<1>10. interest[l][f] = None
  <2>1. fd2http_[l][f] = None
    BY <1>2, <1>5, <1>6 DEF TableInv, OwnerInv, Holds, Open
  <2>2. QED
    BY <1>2, <1>5, <2>1 DEF TableInv
<1>11. /\ \A m \in Loops, g \in Fds : ~(m = l /\ g = f) =>
            /\ fd2chan_'[m][g] = fd2chan_[m][g]
            /\ interest'[m][g] = interest[m][g]
       /\ \/ fd2chan_'[l][f] = c /\ interest'[l][f] = {"in", "oneshot"}
          \/ fd2chan_'[l][f] = None /\ interest'[l][f] = None
  <2>1. CASE /\ interest' = [interest EXCEPT ![l] =
                               [@ EXCEPT ![f] = {"in", "oneshot"}]]
             /\ fd2chan_' = [fd2chan_ EXCEPT ![l] = [@ EXCEPT ![f] = c]]
    BY <1>5, <2>1 DEF TypeOK
  <2>2. CASE /\ fd2chan_' = [fd2chan_ EXCEPT ![l] = [@ EXCEPT ![f] = None]]
             /\ UNCHANGED interest
    BY <1>5, <1>10, <2>2 DEF TypeOK
  <2>3. QED
    BY <1>1, <2>1, <2>2 DEF NewEventOf
<1> HIDE DEF f
<1>12. \A d \in Conns : Open(d)' <=> d = c \/ Open(d)
  BY <1>7 DEF Open
<1>13. \A d \in Conns : Open(d) => d # c /\ http[d].fd \in Fds \ {f}
                                   /\ http[d].loop \in Loops
  BY <1>2, <1>5, OwnFds DEF OwnerInv, Holds, Open, f
<1>14. PhaseInv'
  BY <1>2, <1>7 DEF PhaseInv
<1>15. OwnerInv'
  <2>1. \A d \in Conns : /\ Holds(d)' <=> Holds(d)
                         /\ http'[d].fd = http[d].fd
                         /\ http'[d].loop = http[d].loop
    BY <1>4, <1>5, <1>7 DEF Holds, f
  <2>2. \A m \in Loops : dying[m] # None => dying[m] \in Conns \ {c}
    BY <1>2, <1>4, <1>6 DEF OwnerInv
  <2>3. \A m \in Loops : dying[m] # None =>
          http'[dying[m]].life = "closing" /\ http'[dying[m]].loop = m
    BY <1>2, <1>7, <2>2 DEF OwnerInv
  <2>4. QED
    BY <1>2, <1>6, <1>7, <2>1, <2>3 DEF OwnerInv
<1>16. TableInv'
  <2>1. ASSUME NEW d \in Conns, Open(d)'
        PROVE  fd2http_'[http'[d].loop][http'[d].fd] = d
    BY <1>2, <1>7, <1>9, <1>12, <1>13, <2>1 DEF TableInv
  <2>2. ASSUME NEW m \in Loops, NEW g \in Fds, NEW d,
               fd2http_'[m][g] = d, d # None
        PROVE  Open(d)' /\ http'[d].loop = m /\ http'[d].fd = g
    <3>1. CASE m = l /\ g = f
      BY <1>7, <1>9, <1>12, <2>2, <3>1
    <3>2. CASE ~(m = l /\ g = f)
      <4>1. d \in Conns /\ Open(d) /\ http[d].loop = m /\ http[d].fd = g
        BY <1>2, <1>6, <1>9, <2>2, <3>2 DEF TableInv
      <4>2. QED
        BY <1>7, <1>12, <1>13, <4>1
    <3>3. QED
      BY <3>1, <3>2
  <2>3. ASSUME NEW m \in Loops, NEW g \in Fds
        PROVE  /\ fd2chan_'[m][g] # None => fd2chan_'[m][g] = fd2http_'[m][g]
               /\ fd2chan_'[m][g] # None => interest'[m][g] # None
               /\ interest'[m][g] # None => fd2http_'[m][g] # None
    BY <1>2, <1>6, <1>9, <1>11 DEF TableInv
  <2>4. QED
    BY <2>1, <2>2, <2>3 DEF TableInv
<1>17. BatchInv'
  <2>1. ASSUME NEW m \in Loops, NEW d \in batch[m]
        PROVE  /\ Open(d)' /\ http'[d].loop = m
               /\ fd2chan_'[m][http'[d].fd] = d
    <3>1. /\ d \in Conns /\ Open(d) /\ http[d].loop = m
          /\ fd2chan_[m][http[d].fd] = d
      BY <1>2, <1>6 DEF BatchInv
    <3>2. QED
      BY <1>7, <1>11, <1>12, <1>13, <3>1
  <2>2. ASSUME NEW d \in Conns, revents_[d] # {}
        PROVE  Open(d)' /\ InBatch(d)'
    BY <1>2, <1>7, <1>12, <1>13, <2>2 DEF BatchInv, InBatch
  <2>3. QED
    BY <1>2, <1>7, <2>1, <2>2 DEF BatchInv, envVars
<1>18. TimerInv'
  <2>1. \A n \in timers : n.linked /\ n.conn # c
    BY <1>2, <1>13, <1>6 DEF TimerInv
  <2>2. timers \in SUBSET Node /\ timers = {n \in timers : n.conn # c}
    BY <2>1 DEF TypeOK, Node
  <2>3. timers' = timers \cup
                    {NodeOf(c, HeaderTime)}
    <3>1. AddTimer(timers, c, HeaderTime) =
            timers \cup {NodeOf(c, HeaderTime)}
      BY <2>1, <2>2, TimerSets
    <3>2. QED
      BY <1>1, <3>1 DEF NewEventOf
  <2>4. timers' = {n \in timers : n.conn # c} \cup
                    {NodeOf(c, HeaderTime)}
    BY <2>2, <2>3
  <2>5. HeaderTime \in 0 .. KeepAliveTime
    BY ReactorAssumption
  <2>6. Restart(c, HeaderTime) /\ Open(c)' /\ UNCHANGED clock
    BY <1>1, <1>12 DEF NewEventOf, envVars
  <2>7. QED
    BY <1>2, <1>7, <2>4, <2>5, <2>6, RearmInv
<1>19. InterestInv'
  <2>1. ASSUME NEW d \in Conns, Open(d)
        PROVE  /\ interest'[http[d].loop][http[d].fd] =
                    interest[http[d].loop][http[d].fd]
               /\ fd2chan_'[http[d].loop][http[d].fd] =
                    fd2chan_[http[d].loop][http[d].fd]
               /\ Stranded(d)' <=> Stranded(d)
               /\ Fired(d) => Fired(d)'
    <3>1. /\ interest'[http[d].loop][http[d].fd] =
               interest[http[d].loop][http[d].fd]
          /\ fd2chan_'[http[d].loop][http[d].fd] =
               fd2chan_[http[d].loop][http[d].fd]
      BY <1>11, <1>13, <2>1
    <3>2. Stranded(d)' <=> Stranded(d)
      BY <1>7, <1>12, <1>13, <2>1 DEF Stranded
    <3>3. QED
      BY <1>7, <1>8, <1>13, <2>1, <3>1, <3>2 DEF Fired, InBatch, envVars
  <2>2. ~http'[c].owes /\ ~http'[c].asks
    BY <1>2, <1>4, <1>7 DEF InterestInv
  <2>3. {"in", "oneshot"} # {"out"}
    OBVIOUS
  <2>4. /\ lastEvents_'[c] \in {{"in", "oneshot"}, {"in"}, {"out"}}
        /\ http'[c].asks <=> lastEvents_'[c] = {"out"}
        /\ http'[c].owes => http'[c].asks
        /\ \/ fd2chan_'[http'[c].loop][http'[c].fd] = None
           \/ interest'[http'[c].loop][http'[c].fd] = lastEvents_'[c]
    BY <1>7, <1>8, <1>11, <2>2, <2>3
  <2>5. ASSUME NEW d \in Conns \ {c}, Open(d)
        PROVE  /\ http'[d] = http[d] /\ lastEvents_'[d] = lastEvents_[d]
               /\ \/ fd2chan_'[http[d].loop][http[d].fd] = None
                  \/ interest'[http[d].loop][http[d].fd] = lastEvents_[d]
                  \/ Fired(d)'
    BY <1>2, <1>7, <1>8, <2>1, <2>5 DEF InterestInv
  <2>6. \A d \in Conns : http'[d].life = "queued" =>
          ~http'[d].owes /\ ~http'[d].asks
    BY <1>2, <1>7 DEF InterestInv
  <2>7. QED
    BY <1>2, <1>12, <2>1, <2>4, <2>5, <2>6 DEF InterestInv
<1>20. QueueInv'
  <2>1. /\ \A m \in Loops : pending[m] \in Seq(Conns) /\ functors[m] \in Seq(Conns)
        /\ \A m \in Loops : functors'[m] = IF m = l THEN Tail(functors[l])
                                           ELSE functors[m]
    BY <1>1 DEF NewEventOf, TypeOK
  <2>2. /\ Len(Tail(functors[l])) \in Nat
        /\ \A i \in 1 .. Len(Tail(functors[l])) :
             i + 1 \in 1 .. Len(functors[l])
             /\ Tail(functors[l])[i] = functors[l][i + 1]
    BY <1>3
  <2>3. \A m \in Loops : \A i \in 1 .. Len(functors'[m]) :
          \E j \in 1 .. Len(functors[m]) :
            /\ functors'[m][i] = functors[m][j]
            /\ j = IF m = l THEN i + 1 ELSE i
    BY <2>1, <2>2
  <2>4. \A m \in Loops : \A i \in 1 .. Len(functors'[m]) : functors'[m][i] # c
    <3>1. SUFFICES ASSUME NEW m \in Loops, NEW i \in 1 .. Len(functors'[m]),
                          functors'[m][i] = c
                   PROVE  FALSE
      OBVIOUS
    <3>2. PICK j \in 1 .. Len(functors[m]) :
            functors[m][j] = c /\ j = IF m = l THEN i + 1 ELSE i
      BY <2>3, <3>1
    <3>3. m = l
      BY <1>2, <1>4, <3>2 DEF QueueInv, QueuedOnce
    <3>4. Len(functors'[m]) \in Nat /\ 1 \in 1 .. Len(functors[l])
      BY <1>3, <2>1, <2>2, <3>3
    <3>5. j = 1
      BY <1>2, <1>3, <3>2, <3>3, <3>4 DEF QueueInv, QueuedOnce
    <3>6. QED
      BY <3>2, <3>3, <3>4, <3>5
  <2>5. \A m \in Loops : \A i \in 1 .. Len(pending[m]) : pending[m][i] # c
    <3>1. 1 \in 1 .. Len(functors[l])
      BY <1>3
    <3>2. QED
      BY <1>2, <1>3, <1>4, <3>1 DEF QueueInv, QueuedOnce
  <2>6. ASSUME NEW m \in Loops
        PROVE  QueuedOnce(pending[m], m)' /\ QueuedOnce(functors[m], m)'
    <3>1. \A i \in 1 .. Len(pending[m]) : pending[m][i] \in Conns \ {c}
      BY <2>1, <2>5
    <3>2. QueuedOnce(pending[m], m)'
      BY <1>2, <1>7, <3>1 DEF QueueInv, QueuedOnce
    <3>3. \A i \in 1 .. Len(functors'[m]) : functors'[m][i] \in Conns \ {c}
      BY <2>1, <2>3, <2>4, SMTT(20)
    <3>4. \A i \in 1 .. Len(functors'[m]) :
            http'[functors'[m][i]].life = "queued"
            /\ http'[functors'[m][i]].loop = m
      <4>1. \A i \in 1 .. Len(functors'[m]) :
              /\ http[functors'[m][i]].life = "queued"
              /\ http[functors'[m][i]].loop = m
        BY <1>2, <2>3, SMTT(20) DEF QueueInv, QueuedOnce
      <4>2. QED
        BY <1>7, <3>3, <4>1
    <3>5. \A i, j \in 1 .. Len(functors'[m]) :
            functors'[m][i] = functors'[m][j] => i = j
      <4>1. Len(functors'[m]) \in Nat
        BY <2>1, <2>2
      <4>2. QED
        BY <1>2, <2>3, <4>1 DEF QueueInv, QueuedOnce
    <3>6. QED
      BY <3>2, <3>4, <3>5 DEF QueuedOnce
  <2>7. \A m \in Loops : \A i \in 1 .. Len(pending[m]),
                            j \in 1 .. Len(functors'[m]) :
          pending[m][i] # functors'[m][j]
    BY <1>2, <2>3 DEF QueueInv
  <2>8. QED
    BY <1>7, <2>6, <2>7 DEF QueueInv
<1>21. QED
  BY <1>14, <1>15, <1>16, <1>17, <1>18, <1>19, <1>20 DEF ReactorInv

\* The reported entries that have a channel.
Known(l) == {f \in Ready(l) : fd2chan_[l][f] # None}

\* epoll_wait returns the channels of entries the tables name, all open and
\* of this loop; an entry under EPOLLONESHOT has its channel in the batch, or
\* has none.
LEMMA ReportInv ==
  ASSUME TypeOK, ReactorInv, NEW l \in Loops, pc[l] = "poll",
         Consume(l, Ready(l)),
         batch'[l] = {fd2chan_[l][f] : f \in Known(l)},
         pc'[l] = "dispatch" \/ Known(l) = {},
         \A m \in Loops \ {l} : batch'[m] = batch[m] /\ pc'[m] = pc[m],
         \A c \in Conns : revents_'[c] =
           IF \E f \in Known(l) : fd2chan_[l][f] = c
           THEN UNION {Reported(l, f) :
                         f \in {g \in Known(l) : fd2chan_[l][g] = c}}
           ELSE revents_[c],
         UNCHANGED <<next_, pending, functors, dying, fd2chan_, fd2http_,
                     fdOwner, peer, clock, connVars>>
  PROVE  ReactorInv'
<1>1. /\ PhaseInv /\ OwnerInv /\ QueueInv /\ TableInv /\ BatchInv /\ TimerInv
      /\ InterestInv
  BY DEF ReactorInv
<1>2. /\ pc[l] = "poll"
      /\ UNCHANGED <<next_, pending, functors, dying, fd2chan_, fd2http_,
                     fdOwner, peer, clock, connVars>>
  OBVIOUS
<1>3. batch[l] = {}
  BY <1>1, <1>2 DEF PhaseInv
<1>4. \A f \in Known(l) : fd2chan_[l][f] # None
  BY DEF Known
<1>5. Known(l) \subseteq Ready(l) /\ Ready(l) \subseteq Fds
  BY DEF Known, Ready
<1>6. \A f \in Ready(l) : interest[l][f] \notin {None, {}} /\ fdOwner[f] # None
                          /\ Reported(l, f) \subseteq edge[fdOwner[f]]
  BY DEF Reported, Ready
<1>7. \A f \in Known(l) :
        /\ fd2chan_[l][f] \in Conns /\ Open(fd2chan_[l][f])
        /\ http[fd2chan_[l][f]].loop = l
        /\ http[fd2chan_[l][f]].fd = f
        /\ fdOwner[f] = fd2chan_[l][f]
  <2>1. SUFFICES ASSUME NEW f \in Known(l)
                 PROVE  /\ fd2chan_[l][f] \in Conns /\ Open(fd2chan_[l][f])
                        /\ http[fd2chan_[l][f]].loop = l
                        /\ http[fd2chan_[l][f]].fd = f
                        /\ fdOwner[f] = fd2chan_[l][f]
    OBVIOUS
  <2>2. fd2chan_[l][f] = fd2http_[l][f] /\ fd2http_[l][f] # None
    BY <1>1, <1>4, <1>5 DEF TableInv
  <2>3. f \in Fds /\ fd2http_[l][f] \in Conns
    BY <1>5, <2>2 DEF TypeOK
  <2>4. /\ Open(fd2chan_[l][f]) /\ http[fd2chan_[l][f]].loop = l
        /\ http[fd2chan_[l][f]].fd = f
    BY <1>1, <2>2, <2>3 DEF TableInv
  <2>5. fdOwner[f] = fd2chan_[l][f]
    BY <1>1, <2>2, <2>3, <2>4 DEF OwnerInv, Holds, Open
  <2>6. QED
    BY <2>2, <2>3, <2>4, <2>5
<1>8. /\ batch'[l] = {fd2chan_[l][f] : f \in Known(l)}
      /\ \A m \in Loops \ {l} : batch'[m] = batch[m] /\ pc'[m] = pc[m]
      /\ pc'[l] = "dispatch" \/ batch'[l] = {}
  OBVIOUS
<1>9. \A c \in Conns :
        revents_'[c] = IF \E f \in Known(l) : fd2chan_[l][f] = c
                       THEN UNION {Reported(l, f) :
                                     f \in {g \in Known(l) : fd2chan_[l][g] = c}}
                       ELSE revents_[c]
  OBVIOUS
<1>10. \A c \in Conns : edge'[c] \subseteq edge[c]
  BY ConsumeFacts
<1>11. \A m \in Loops, f \in Fds :
         \/ interest'[m][f] = interest[m][f]
         \/ /\ m = l /\ f \in Ready(l) /\ interest'[m][f] = {}
            /\ "oneshot" \in interest[m][f]
  BY ConsumeFacts
<1>12. {} # None
  BY ReactorAssumption
<1>13. \A m \in Loops, f \in Fds :
         interest'[m][f] # None <=> interest[m][f] # None
  BY <1>5, <1>6, <1>11, <1>12
<1>14. \A c \in Conns : Open(c) /\ InBatch(c) => InBatch(c)'
  BY <1>1, <1>2, <1>3, <1>8 DEF InBatch, OwnerInv, Holds, Open, connVars
<1>15. PhaseInv'
  BY <1>1, <1>2, <1>8 DEF PhaseInv
<1>16. OwnerInv' /\ QueueInv'
  BY <1>2, SameLivesKeep DEF SameLives, connVars
<1>17. TableInv'
  BY <1>1, <1>2, <1>13 DEF TableInv, Open, connVars
<1>18. BatchInv'
  <2>1. ASSUME NEW m \in Loops, NEW c \in batch'[m]
        PROVE  Open(c) /\ http[c].loop = m /\ fd2chan_[m][http[c].fd] = c
    <3>1. CASE m = l
      <4>1. PICK f \in Known(l) : c = fd2chan_[l][f]
        BY <1>8, <2>1, <3>1
      <4>2. QED
        BY <1>4, <1>7, <3>1, <4>1
    <3>2. CASE m # l
      BY <1>1, <1>8, <2>1, <3>2 DEF BatchInv
    <3>3. QED
      BY <3>1, <3>2
  <2>2. ASSUME NEW c \in Conns, NEW f \in Known(l), fd2chan_[l][f] = c
        PROVE  /\ Open(c) /\ c \in batch'[http[c].loop]
               /\ revents_'[c] \subseteq edge[c]
    <3>1. Open(c) /\ c \in batch'[http[c].loop]
      BY <1>7, <1>8, <2>2
    <3>2. \A g \in Known(l) : fd2chan_[l][g] = c => Reported(l, g) \subseteq edge[c]
      BY <1>5, <1>6, <1>7
    <3>3. revents_'[c] = UNION {Reported(l, g) :
                                  g \in {h \in Known(l) : fd2chan_[l][h] = c}}
      BY <1>9, <2>2
    <3>4. QED
      BY <3>1, <3>2, <3>3
  <2>3. ASSUME NEW c \in Conns
        PROVE  /\ revents_'[c] # {} => Open(c) /\ c \in batch'[http[c].loop]
               /\ "err" \in revents_'[c] \cup edge'[c] => peer[c] = "rst"
    <3>1. CASE \E f \in Known(l) : fd2chan_[l][f] = c
      BY <1>1, <1>10, <2>2, <3>1 DEF BatchInv
    <3>2. CASE ~ \E f \in Known(l) : fd2chan_[l][f] = c
      <4>1. revents_'[c] = revents_[c]
        BY <1>9, <3>2
      <4>2. InBatch(c)' => c \in batch'[http[c].loop]
        BY <1>2 DEF InBatch, connVars
      <4>3. QED
        BY <1>1, <1>10, <1>14, <4>1, <4>2 DEF BatchInv
    <3>3. QED
      BY <3>1, <3>2
  <2>4. QED
    BY <1>2, <2>1, <2>3 DEF BatchInv, Open, InBatch, connVars
<1>19. TimerInv'
  BY <1>1, <1>2 DEF TimerInv, NotYetDue, NoneForgotten, Open, Stranded, Nodes,
                    connVars
<1>20. InterestInv'
  <2>1. ASSUME NEW c \in Conns, Open(c)
        PROVE  \/ fd2chan_[http[c].loop][http[c].fd] = None
               \/ interest'[http[c].loop][http[c].fd] = lastEvents_[c]
               \/ Fired(c)'
    <3>1. http[c].fd \in Fds /\ http[c].loop \in Loops
      BY <1>1, <2>1 DEF OwnerInv, Holds, Open
    <3>2. CASE interest'[http[c].loop][http[c].fd] =
                 interest[http[c].loop][http[c].fd]
      <4>1. Fired(c) => Fired(c)'
        BY <1>2, <1>14, <2>1, <3>2 DEF Fired, Stranded, Open, connVars
      <4>2. QED
        BY <1>1, <2>1, <3>2, <4>1 DEF InterestInv
    <3>3. CASE /\ http[c].loop = l /\ http[c].fd \in Known(l)
               /\ interest'[l][http[c].fd] = {}
               /\ "oneshot" \in interest[l][http[c].fd]
      <4>1. interest[l][http[c].fd] = lastEvents_[c]
        BY <1>1, <1>4, <2>1, <3>3 DEF InterestInv, Fired
      <4>2. lastEvents_[c] = {"in", "oneshot"}
        BY <1>1, <2>1, <3>3, <4>1 DEF InterestInv
      <4>3. fd2chan_[l][http[c].fd] = c
        BY <1>1, <1>7, <2>1, <3>3 DEF OwnerInv, Holds, Open
      <4>4. InBatch(c)'
        BY <1>2, <1>8, <3>3, <4>3 DEF InBatch, connVars
      <4>5. QED
        BY <1>2, <3>3, <4>2, <4>4 DEF Fired, connVars
    <3>4. CASE http[c].loop = l /\ http[c].fd \in Ready(l) \ Known(l)
      BY <3>4 DEF Known
    <3>5. QED
      BY <1>11, <3>1, <3>2, <3>3, <3>4
  <2>2. QED
    BY <1>1, <1>2, <2>1 DEF InterestInv, Open, Stranded, connVars
<1>21. QED
  BY <1>15, <1>16, <1>17, <1>18, <1>19, <1>20 DEF ReactorInv

\* Whether epoll_wait's report makes a round or is passed over.
LEMMA PollInv ==
  ASSUME TypeOK, ReactorInv, NEW l \in Loops, Poll(l) \/ PollAgain(l)
  PROVE  ReactorInv'
<1> DEFINE known == Known(l)
           channel == [f \in known |-> fd2chan_[l][f]]
<1>1. /\ pc[l] = "poll" /\ Consume(l, Ready(l))
      /\ UNCHANGED <<next_, pending, functors, dying, fd2chan_, fd2http_,
                     fdOwner, peer, clock, connVars>>
  BY DEF Poll, PollAgain, loopVars
<1>2. \A m \in Loops \ {l} : batch'[m] = batch[m] /\ pc'[m] = pc[m]
  BY DEF Poll, PollAgain, loopVars, TypeOK
<1>3. CASE Poll(l)
  <2>1. batch'[l] = {channel[f] : f \in known} /\ pc'[l] = "dispatch"
    BY <1>3 DEF Poll, Known, TypeOK
  <2>2. \A c \in Conns :
          revents_'[c] = IF \E f \in known : channel[f] = c
                         THEN UNION {Reported(l, f) :
                                       f \in {g \in known : channel[g] = c}}
                         ELSE revents_[c]
    BY <1>3 DEF Poll, Known
  <2>3. \A f \in known : channel[f] = fd2chan_[l][f]
    OBVIOUS
  <2>4. batch'[l] = {fd2chan_[l][f] : f \in known}
    BY <2>1, <2>3
  <2>5. \A c \in Conns : {g \in known : channel[g] = c} =
                            {g \in known : fd2chan_[l][g] = c}
    BY <2>3
  <2>6. \A c \in Conns :
          revents_'[c] = IF \E f \in known : fd2chan_[l][f] = c
                         THEN UNION {Reported(l, f) :
                                f \in {g \in known : fd2chan_[l][g] = c}}
                         ELSE revents_[c]
    BY <2>2, <2>3, <2>5
  <2> HIDE DEF known, channel
  <2>7. QED
    BY <1>1, <1>2, <2>1, <2>4, <2>6, ReportInv DEF known
<1>4. CASE PollAgain(l)
  <2>1. known = {} /\ UNCHANGED <<batch, revents_>>
    BY <1>4 DEF PollAgain, Known, loopVars
  <2>2. batch'[l] = {}
    BY <1>1, <2>1 DEF ReactorInv, PhaseInv
  <2>3. batch'[l] = {fd2chan_[l][f] : f \in known}
    BY <2>1, <2>2
  <2>4. \A c \in Conns :
          revents_'[c] = IF \E f \in known : fd2chan_[l][f] = c
                         THEN UNION {Reported(l, f) :
                                f \in {g \in known : fd2chan_[l][g] = c}}
                         ELSE revents_[c]
    BY <2>1
  <2> HIDE DEF known, channel
  <2>5. QED
    BY <1>1, <1>2, <2>1, <2>3, <2>4, ReportInv DEF known
<1>5. QED
  BY <1>3, <1>4

\* Every step keeps the invariant.
LEMMA InvStep == TypeOK /\ ReactorInv /\ [Next]_vars => ReactorInv'
<1> SUFFICES ASSUME TypeOK, ReactorInv, [Next]_vars
             PROVE  ReactorInv'
  OBVIOUS
<1>1. ASSUME NEW c \in Conns, PeerSends(c) \/ PeerFinishes(c) \/ PeerResets(c)
                              \/ RoomAppears(c)
      PROVE  ReactorInv'
  BY <1>1, EnvironmentInv
<1>2. CASE Tick
  BY <1>2, TickInv
<1>3. ASSUME NEW c \in Conns, Accept(c)
      PROVE  ReactorInv'
  BY <1>3, AcceptInv
<1>4. ASSUME NEW l \in Loops, Poll(l) \/ PollAgain(l)
      PROVE  ReactorInv'
  BY <1>4, PollInv
<1>5. ASSUME NEW l \in Loops, NEW c \in Conns, IgnoreFailure(l, c)
      PROVE  ReactorInv'
  BY <1>5, IgnoreInv
<1>6. ASSUME NEW l \in Loops, NEW c \in Conns, HandleEvents(l, c)
      PROVE  ReactorInv'
  BY <1>6, HandleInv
<1>7. ASSUME NEW l \in Loops,
             SwapPending(l) \/ EndPending(l) \/ EndExpire(l) \/ PollOther(l)
      PROVE  ReactorInv'
  BY <1>7, PhaseStep
<1>8. ASSUME NEW l \in Loops, NewEvent(l)
      PROVE  ReactorInv'
  BY <1>8, NewEventInv
<1>9. ASSUME NEW l \in Loops, Destroy(l)
      PROVE  ReactorInv'
  BY <1>9, DestroyInv
<1>10. ASSUME NEW l \in Loops, Expire(l)
       PROVE  ReactorInv'
  BY <1>10, ExpireInv
<1>11. CASE UNCHANGED vars
  <2>1. UNCHANGED <<loopVars, tableVars, fdOwner, envVars, connVars, revents_>>
    BY <1>11 DEF vars
  <2>2. OwnerInv' /\ QueueInv' /\ TableInv'
    BY <2>1, SameLivesKeep DEF SameLives, loopVars, connVars
  <2>3. PhaseInv' /\ TimerInv'
    BY <2>1 DEF loopVars, envVars, connVars, ReactorInv, PhaseInv, TimerInv,
                NotYetDue, NoneForgotten, Open, Stranded, Nodes
  <2>4. BatchInv'
    BY <2>1 DEF loopVars, tableVars, envVars, connVars, ReactorInv, BatchInv,
                Open, InBatch
  <2>5. InterestInv'
    BY <2>1 DEF loopVars, tableVars, envVars, connVars, ReactorInv, InterestInv,
                Fired, Open, Stranded, InBatch
  <2>6. QED
    BY <2>2, <2>3, <2>4, <2>5 DEF ReactorInv
<1>12. QED
  BY <1>1, <1>2, <1>3, <1>4, <1>5, <1>6, <1>7, <1>8, <1>9, <1>10, <1>11
     DEF Next, LoopStep, Environment

\* The invariant holds throughout.
THEOREM ReactorInvariant == Spec => []ReactorInv
<1>1. QED
  BY ReactorTypes, InvInit, InvStep, PTL DEF Spec
-----------------------------------------------------------------------------
(* What follows from it.                                                   *)

\* A table entry that outlives its connection would hand the events of the
\* descriptor's next owner to it: the tables name only open connections of
\* the loop under their own descriptors, the kernel watches none but these,
\* and all of them that have a channel.
THEOREM TablesMatch == Spec => []TablesMatchKernel
<1>1. ASSUME TypeOK, ReactorInv
      PROVE  TablesMatchKernel
  <2>1. OwnerInv /\ TableInv
    BY <1>1 DEF ReactorInv
  <2>2. /\ \A m \in Loops, g \in Fds : fd2http_[m][g] \in Conns \cup {None}
        /\ \A l \in Loops : dying[l] \in Conns \cup {None}
    BY <1>1 DEF TypeOK
  <2>3. \A l \in Loops, f \in Fds : fd2http_[l][f] # None =>
          /\ fdOwner[f] = fd2http_[l][f]
          /\ Open(fdOwner[f]) /\ http[fdOwner[f]].loop = l
          /\ http[fdOwner[f]].fd = f
    BY <2>1, <2>2 DEF OwnerInv, Holds, TableInv, Open
  <2>4. ASSUME NEW l \in Loops, dying[l] # None
        PROVE  /\ http[dying[l]].life = "closing" /\ http[dying[l]].loop = l
               /\ fdOwner[http[dying[l]].fd] = dying[l]
               /\ \A m \in Loops : interest[m][http[dying[l]].fd] = None
    <3> DEFINE c == dying[l]
    <3>1. /\ c \in Conns /\ http[c].life = "closing" /\ http[c].loop = l
          /\ http[c].fd \in Fds /\ fdOwner[http[c].fd] = c
      BY <2>1, <2>2, <2>4 DEF OwnerInv, Holds
    <3>2. \A m \in Loops : fd2http_[m][http[c].fd] = None
      BY <2>3, <3>1 DEF Open
    <3>3. \A m \in Loops : interest[m][http[c].fd] = None
      BY <2>1, <3>1, <3>2 DEF TableInv
    <3>4. QED
      BY <3>1, <3>3
  <2>5. QED
    BY <2>1, <2>3, <2>4 DEF TablesMatchKernel, ClosesOnce, TableInv
<1>2. QED
  BY <1>1, ReactorTypes, ReactorInvariant, PTL

\* The handlers of a channel hold the bare address of its HttpData: whatever
\* poll returned is still open when its turn comes.
THEOREM BatchAlive == Spec => []DispatchedAreAlive
<1>1. ASSUME TypeOK, ReactorInv
      PROVE  DispatchedAreAlive
  <2>1. BatchInv /\ TableInv
    BY <1>1 DEF ReactorInv
  <2>2. \A l \in Loops : batch[l] \subseteq Conns
    BY <1>1 DEF TypeOK
  <2>3. QED
    BY <2>1, <2>2 DEF BatchInv, TableInv, DispatchedAreAlive
<1>2. QED
  BY <1>1, ReactorTypes, ReactorInvariant, PTL

\* A connection has one timer at most, which it knows and which dies with it,
\* and a connection that is not stranded has one.
THEOREM TimersRight == Spec => [](OneTimer /\ NoneForgotten)
<1>1. ASSUME TypeOK, ReactorInv
      PROVE  OneTimer /\ NoneForgotten
  <2>1. TimerInv
    BY <1>1 DEF ReactorInv
  <2>2. \A n \in timers : Nodes(n.conn) = {n}
    BY <2>1 DEF TimerInv, Nodes
  <2>3. QED
    BY <2>1, <2>2 DEF TimerInv, OneTimer
<1>2. QED
  BY <1>1, ReactorTypes, ReactorInvariant, PTL

\* What the kernel watches a connection for is what handleConn has asked for
\* last, be it room for output, as whenever output is left, or input.
THEOREM InterestRight == Spec => []InterestFits
<1>1. ASSUME TypeOK, ReactorInv
      PROVE  InterestFits
  <2>1. InterestInv
    BY <1>1 DEF ReactorInv
  <2>2. SUFFICES ASSUME NEW c \in Conns, Open(c), ~Stranded(c), ~InBatch(c),
                        fd2chan_[http[c].loop][http[c].fd] # None,
                        peer[c] # "rst"
                 PROVE  /\ http[c].owes => http[c].asks
                        /\ IF http[c].asks
                           THEN interest[http[c].loop][http[c].fd] = {"out"}
                           ELSE "in" \in interest[http[c].loop][http[c].fd]
    BY DEF InterestFits
  <2>3. interest[http[c].loop][http[c].fd] = lastEvents_[c]
    BY <2>1, <2>2 DEF InterestInv, Fired
  <2>4. /\ lastEvents_[c] \in {{"in", "oneshot"}, {"in"}, {"out"}}
        /\ http[c].owes => http[c].asks
        /\ http[c].asks <=> lastEvents_[c] = {"out"}
    BY <2>1, <2>2 DEF InterestInv
  <2>5. QED
    BY <2>3, <2>4
<1>2. QED
  BY <1>1, ReactorTypes, ReactorInvariant, PTL

\* A connection that no handler closes is closed by its timer, which has run
\* for as long as the last event allowed.
THEOREM NoneClosedEarly == Spec => NoEarlyExpiry
<1> DEFINE Step(c) == (Open(c) /\ http'[c].life = "closing" /\ ~InBatch(c))
                        => quiet[c] >= granted[c]
<1>1. ASSUME TypeOK, ReactorInv, [Next]_vars, NEW c \in Conns
      PROVE  Step(c)
  <2> SUFFICES ASSUME Open(c), http'[c].life = "closing", ~InBatch(c)
               PROVE  quiet[c] >= granted[c]
    OBVIOUS
  <2> USE <1>1
  <2>1. CASE UNCHANGED http
    BY <2>1 DEF Open
  <2>2. ASSUME NEW d \in Conns, Accept(d)
        PROVE  FALSE
    <3>1. PICK f \in Fds : http' = [http EXCEPT ![d] =
            [Unborn EXCEPT !.life = "queued", !.fd = f, !.loop = next_]]
      BY <2>2 DEF Accept
    <3>2. http[d].life = "unborn"
      BY <2>2 DEF Accept
    <3>3. c # d
      BY <3>2 DEF Open
    <3>4. http'[c] = http[c]
      BY <3>1, <3>3 DEF TypeOK
    <3>5. QED
      BY <3>4 DEF Open
  <2>3. ASSUME NEW l \in Loops, NewEvent(l)
        PROVE  FALSE
    <3>1. PICK d \in Conns : NewEventOf(l, d)
      BY <2>3, NewEventFacts
    <3>2. http'[c] = http[c] \/ http'[c].life = "open"
      BY <3>1 DEF NewEventOf
    <3>3. QED
      BY <3>2 DEF Open
  <2>4. ASSUME NEW l \in Loops, Destroy(l)
        PROVE  FALSE
    <3>1. \A e \in Conns : http'[e] = http[e] \/ http'[e].life = "dead"
      <4> DEFINE h == [Unborn EXCEPT !.life = "dead", !.state = "H_DISCONNECTED"]
      <4>1. http' = [http EXCEPT ![dying[l]] = h]
        BY <2>4 DEF Destroy
      <4>2. h.life = "dead"
        BY DEF Unborn
      <4> HIDE DEF h
      <4>3. QED
        BY <4>1, <4>2 DEF TypeOK
    <3>2. QED
      BY <3>1 DEF Open
  <2>5. ASSUME NEW l \in Loops, NEW d \in Conns, HandleEvents(l, d)
        PROVE  FALSE
    <3>1. d \in batch[l] /\ http[d].loop = l /\ Open(d)
      BY <2>5, HandleFacts DEF Dispatched
    <3>2. c # d
      BY <3>1 DEF InBatch
    <3>3. PICK o \in Outcomes(d) :
            KeepConn(l, d, o) \/ LeaveConn(l, d, o) \/ DropConn(l, d, o)
      BY <2>5, HandleFacts
    <3>4. http'[c] = http[c]
      BY <3>2, <3>3, GoesOnFacts, CloseFacts DEF DropConn
    <3>5. QED
      BY <3>4 DEF Open
  <2>6. ASSUME NEW l \in Loops, Expire(l)
        PROVE  quiet[c] >= granted[c]
    <3>1. PICK n \in timers : n.expiredTime_ <= clock /\ HandleClose(l, n.conn)
      BY <2>6 DEF Expire, ExpiredNodes
    <3>2. n.conn \in Conns
      BY DEF TypeOK
    <3>3. n.conn = c
      BY <3>1, <3>2, CloseFacts DEF Open
    <3>4. quiet[c] < granted[c] => clock + granted[c] <= n.expiredTime_ + quiet[c]
      BY <3>3 DEF ReactorInv, TimerInv, NotYetDue
    <3>5. /\ granted[c] \in Nat /\ quiet[c] \in Nat
          /\ clock \in Nat /\ n.expiredTime_ \in Nat
      BY ReactorAssumption DEF TypeOK
    <3>6. QED
      BY <3>1, <3>4, <3>5
  <2>7. \/ UNCHANGED http
        \/ \E d \in Conns : Accept(d)
        \/ \E l \in Loops : NewEvent(l) \/ Destroy(l) \/ Expire(l)
        \/ \E l \in Loops : \E d \in Conns : HandleEvents(l, d)
    BY DEF Next, LoopStep, Environment, PeerSends, PeerFinishes, PeerResets,
           RoomAppears, Tick, Poll, PollAgain, PollOther, SwapPending,
           EndPending, EndExpire, IgnoreFailure, connVars, vars
  <2>8. QED
    BY <2>1, <2>2, <2>3, <2>4, <2>5, <2>6, <2>7
<1>2. TypeOK /\ ReactorInv /\ [Next]_vars => [\A c \in Conns : Step(c)]_vars
  BY <1>1
<1>3. Spec => [][\A c \in Conns : Step(c)]_vars
  BY <1>2, ReactorTypes, ReactorInvariant, PTL DEF Spec
<1>4. QED
  BY <1>3 DEF NoEarlyExpiry
=============================================================================

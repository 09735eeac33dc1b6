------------------------------- MODULE Reactor -------------------------------
(***************************************************************************)
(* The life of a connection across the acceptor, the event loops, their    *)
(* Epoll objects and their timers (Server.cpp, Epoll.cpp, Channel.h,       *)
(* HttpData.cpp, Timer.cpp).                                               *)
(*                                                                         *)
(* The acceptor (main thread) takes a descriptor from the kernel, builds   *)
(* an HttpData for it and queues HttpData::newEvent in the next loop.  The *)
(* loop registers it, dispatches its events, re-registers it and restarts  *)
(* its timer after each, and closes it on error, at end of file or when    *)
(* the timer runs out.  close() comes with the destruction of the HttpData *)
(* (its last shared_ptr), after which the kernel may hand the descriptor   *)
(* number out again, to a connection of another loop too.                  *)
(*                                                                         *)
(* What is abstracted: the bytes.  A handler's run is known by its outcome *)
(* (Outcomes), which module HttpSession computes from the data.  A deleted *)
(* timer node has dropped its HttpData and waits in the heap for its turn  *)
(* to be popped, with no further effect (module TimerManager); here it is  *)
(* dropped at once.  queueInLoop and its wake-up are module EventLoop.     *)
(*                                                                         *)
(* The clock of the timers starts again at zero (tv_sec % 10000), and the  *)
(* expiredTime_ of a node is a reading of it plus a time-out: one that     *)
(* falls behind the restart is never reached.                              *)
(***************************************************************************)
EXTENDS Naturals, Sequences, FiniteSets

CONSTANTS
  Conns,            \* the HttpData objects, one per accepted connection
  Fds,              \* the descriptor numbers accept can return (< MAXFDS)
  NumLoops,         \* size of the EventLoopThreadPool
  None,
  Wrap,             \* ticks after which the clock starts again
  HeaderTime,       \* DEFAULT_EXPIRED_TIME, in ticks
  IdleTime,         \* DEFAULT_KEEP_ALIVE_TIME >> 1
  KeepAliveTime     \* DEFAULT_KEEP_ALIVE_TIME

Loops == 1 .. NumLoops

ASSUME ReactorAssumption ==
  /\ None \notin Conns
  /\ \A events \in SUBSET {"in", "out", "oneshot"} : None # events
  /\ NumLoops \in Nat \ {0}
  /\ {Wrap, HeaderTime, IdleTime, KeepAliveTime} \subseteq Nat \ {0}
  /\ HeaderTime <= KeepAliveTime /\ IdleTime <= KeepAliveTime

VARIABLES
  next_,            \* EventLoopThreadPool::next_
  pc,               \* per loop: where its thread is in EventLoop::loop
  batch,            \* per loop: ret of loop(), the channels left to dispatch
  pending,          \* per loop: pendingFunctors_, each a newEvent
  functors,         \* per loop: the batch of doPendingFunctors
  dying,            \* per loop: HttpData whose handleClose has been called
  fd2chan_, fd2http_,   \* per loop: the tables of its Epoll, by descriptor
  interest,         \* kernel: per loop and descriptor, the epoll entry
  fdOwner,          \* kernel: connection behind an open descriptor
  edge,             \* kernel: per connection, readiness not reported yet
  peer,             \* per connection: what its client has done
  http,             \* per connection: the HttpData
  revents_, lastEvents_,    \* per connection: fields of its Channel
  clock,            \* what isValid and the constructor of TimerNode compute
  timers,           \* nodes of the TimerManagers that hold an HttpData
  granted, quiet    \* history: last time-out set, ticks since then

loopVars == <<pc, batch, pending, functors, dying>>
tableVars == <<fd2chan_, fd2http_, interest>>
connVars == <<http, lastEvents_, timers, granted, quiet>>
envVars == <<edge, peer, clock>>
vars == <<next_, loopVars, tableVars, fdOwner, envVars, connVars, revents_>>

-----------------------------------------------------------------------------

\* EPOLLET is always asked for; "none armed" (a EPOLLONESHOT entry that has
\* fired) is the empty set and is not even told of errors.
Events == {"in", "out", "oneshot"}

Open(c) == http[c].life = "open"
Stranded(c) == Open(c) /\ http[c].state = "H_DISCONNECTING"
Nodes(c) == {n \in timers : n.conn = c}
InBatch(c) == c \in batch[http[c].loop]

HttpType == [life : {"unborn", "queued", "open", "closing", "dead"},
             fd : Fds \cup {None}, loop : Loops \cup {None},
             state : {"H_CONNECTED", "H_DISCONNECTING", "H_DISCONNECTED"},
             owes : BOOLEAN,        \* outBuffer_ is not empty
             asks : BOOLEAN,        \* EPOLLOUT is in events_
             keepAlive : BOOLEAN]

TypeOK ==
  /\ next_ \in Loops
  /\ pc \in [Loops -> {"poll", "dispatch", "pending", "expire"}]
  /\ batch \in [Loops -> SUBSET Conns]
  /\ pending \in [Loops -> Seq(Conns)]
  /\ functors \in [Loops -> Seq(Conns)]
  /\ dying \in [Loops -> Conns \cup {None}]
  /\ fd2chan_ \in [Loops -> [Fds -> Conns \cup {None}]]
  /\ fd2http_ \in [Loops -> [Fds -> Conns \cup {None}]]
  /\ interest \in [Loops -> [Fds -> (SUBSET Events) \cup {None}]]
  /\ fdOwner \in [Fds -> Conns \cup {None}]
  /\ edge \in [Conns -> SUBSET {"in", "out", "err"}]
  /\ peer \in [Conns -> {"open", "fin", "rst"}]
  /\ http \in [Conns -> HttpType]
  /\ revents_ \in [Conns -> SUBSET {"in", "out", "err"}]
  /\ lastEvents_ \in [Conns -> SUBSET Events]
  /\ clock \in 0 .. Wrap - 1
  /\ timers \subseteq [conn : Conns, linked : BOOLEAN,
                       expiredTime_ : 0 .. Wrap - 1 + KeepAliveTime]
  /\ granted \in [Conns -> 0 .. KeepAliveTime]
  /\ quiet \in [Conns -> 0 .. KeepAliveTime]

Unborn == [life |-> "unborn", fd |-> None, loop |-> None,
           state |-> "H_CONNECTED", owes |-> FALSE, asks |-> FALSE,
           keepAlive |-> FALSE]

Init ==
  /\ next_ = 1
  /\ pc = [l \in Loops |-> "poll"]
  /\ batch = [l \in Loops |-> {}]
  /\ pending = [l \in Loops |-> <<>>]
  /\ functors = [l \in Loops |-> <<>>]
  /\ dying = [l \in Loops |-> None]
  /\ fd2chan_ = [l \in Loops |-> [f \in Fds |-> None]]
  /\ fd2http_ = [l \in Loops |-> [f \in Fds |-> None]]
  /\ interest = [l \in Loops |-> [f \in Fds |-> None]]
  /\ fdOwner = [f \in Fds |-> None]
  /\ edge = [c \in Conns |-> {}]
  /\ peer = [c \in Conns |-> "open"]
  /\ http = [c \in Conns |-> Unborn]
  /\ revents_ = [c \in Conns |-> {}]
  /\ lastEvents_ = [c \in Conns |-> {}]
  /\ clock = 0
  /\ timers = {}
  /\ granted = [c \in Conns |-> 0]
  /\ quiet = [c \in Conns |-> 0]

-----------------------------------------------------------------------------
(* The clients, the network and the clock.                                 *)

Connected(c) == http[c].life \in {"queued", "open"}

\* Something to read arrives.
PeerSends(c) ==
  /\ Connected(c)
  /\ peer[c] = "open"
  /\ edge' = [edge EXCEPT ![c] = @ \cup {"in"}]
  /\ UNCHANGED <<next_, loopVars, tableVars, fdOwner, peer, clock, connVars,
                 revents_>>

\* The client shuts its sending side down: read returns 0 after the data.
PeerFinishes(c) ==
  /\ Connected(c)
  /\ peer[c] = "open"
  /\ peer' = [peer EXCEPT ![c] = "fin"]
  /\ edge' = [edge EXCEPT ![c] = @ \cup {"in"}]
  /\ UNCHANGED <<next_, loopVars, tableVars, fdOwner, clock, connVars,
                 revents_>>

\* A reset: EPOLLERR and EPOLLHUP, which epoll reports unasked.
PeerResets(c) ==
  /\ Connected(c)
  /\ peer[c] # "rst"
  /\ peer' = [peer EXCEPT ![c] = "rst"]
  /\ edge' = [edge EXCEPT ![c] = {"in", "out", "err"}]
  /\ UNCHANGED <<next_, loopVars, tableVars, fdOwner, clock, connVars,
                 revents_>>

\* The client has read enough for the socket to take more output.
RoomAppears(c) ==
  /\ Open(c) /\ http[c].asks
  /\ edge' = [edge EXCEPT ![c] = @ \cup {"out"}]
  /\ UNCHANGED <<next_, loopVars, tableVars, fdOwner, peer, clock, connVars,
                 revents_>>

\* A second of tv_sec % 10000.  quiet counts true time, up to the time-out
\* it is compared with.
Tick ==
  /\ clock' = IF clock + 1 = Wrap THEN 0 ELSE clock + 1
  /\ quiet' = [c \in Conns |->
                 IF Open(c) /\ quiet[c] < granted[c] THEN quiet[c] + 1
                 ELSE quiet[c]]
  /\ UNCHANGED <<next_, loopVars, tableVars, fdOwner, edge, peer, http,
                 lastEvents_, timers, granted, revents_>>

-----------------------------------------------------------------------------
(* The acceptor: one turn of Server::handNewConn.                          *)

\* EventLoopThreadPool::getNextLoop chooses the loop, accept a free
\* descriptor.
Accept(c) ==
  /\ http[c].life = "unborn"
  /\ \E f \in {g \in Fds : fdOwner[g] = None} :
       /\ fdOwner' = [fdOwner EXCEPT ![f] = c]
       /\ http' = [http EXCEPT ![c] = [Unborn EXCEPT !.life = "queued",
                                         !.fd = f, !.loop = next_]]
  /\ pending' = [pending EXCEPT ![next_] = Append(@, c)]
  /\ next_' = (next_ % NumLoops) + 1
  /\ UNCHANGED <<pc, batch, functors, dying, tableVars, envVars,
                 lastEvents_, timers, granted, quiet, revents_>>

-----------------------------------------------------------------------------
(* What a loop does to a connection.                                       *)

\* Seeded fault: the time-out is added to the longest one.
AddTimerLate(nodes, c, timeout) ==
  {[n EXCEPT !.linked = @ /\ n.conn # c] : n \in nodes}
    \cup {[conn |-> c, linked |-> TRUE,
           expiredTime_ |-> clock + KeepAliveTime + timeout]}

\* addTimer and the constructor of TimerNode, on the nodes of all loops.
\* linkTimer: the newest node of a connection is the one it knows.
AddTimer(nodes, c, timeout) ==
  {[n EXCEPT !.linked = @ /\ n.conn # c] : n \in nodes}
    \cup {[conn |-> c, linked |-> TRUE, expiredTime_ |-> clock + timeout]}

\* Seeded fault: the connection no longer knows its node.
SeparateNothing(nodes, c) == nodes

\* HttpData::seperateTimer.
Separate(nodes, c) == {n \in nodes : ~(n.conn = c /\ n.linked)}

\* The time-out starts again.
Restart(c, timeout) ==
  /\ granted' = [granted EXCEPT ![c] = timeout]
  /\ quiet' = [quiet EXCEPT ![c] = 0]

\* HttpData::newEvent, Epoll::epoll_add.  epoll_ctl may fail (it must when
\* the descriptor is registered already), which only takes fd2chan_ back.
NewEvent(l) ==
  LET c == Head(functors[l])
      f == http[c].fd
  IN
  /\ pc[l] = "pending"
  /\ functors[l] # <<>>
  /\ functors' = [functors EXCEPT ![l] = Tail(@)]
  /\ http' = [http EXCEPT ![c].life = "open"]
  /\ timers' = AddTimer(timers, c, HeaderTime)
  /\ Restart(c, HeaderTime)
  /\ fd2http_' = [fd2http_ EXCEPT ![l][f] = c]
  /\ lastEvents_' = [lastEvents_ EXCEPT ![c] = {"in", "oneshot"}]
  /\ \/ /\ interest[l][f] = None
        /\ interest' = [interest EXCEPT ![l][f] = {"in", "oneshot"}]
        /\ fd2chan_' = [fd2chan_ EXCEPT ![l][f] = c]
     \/ /\ fd2chan_' = [fd2chan_ EXCEPT ![l][f] = None]
        /\ UNCHANGED interest
  /\ UNCHANGED <<next_, pc, batch, pending, dying, fdOwner, envVars, revents_>>

\* What a run of HttpData::handleRead and handleWrite can leave behind: an
\* error, the end of the input seen, output that the socket did not take, for
\* which EPOLLOUT is asked; a request not complete yet (EPOLLIN asked for), a
\* keep-alive request.  EPOLLOUT stays asked for when handleRead goes on to
\* another request and the output is gone, or replaced, before it ends.
Outcomes(c) ==
  LET read == "in" \in revents_[c]
      seenEnd == read /\ peer[c] = "fin"
  IN {o \in [error : BOOLEAN, ended : BOOLEAN, owes : BOOLEAN,
             asks : BOOLEAN, more : BOOLEAN, keepAlive : BOOLEAN] :
        /\ o.ended = (seenEnd \/ http[c].state = "H_DISCONNECTING")
        /\ o.owes => o.asks /\ (http[c].owes \/ read)
        /\ o.asks => o.owes \/ read
        /\ o.more => read
        /\ o.keepAlive => http[c].keepAlive \/ read
        /\ http[c].keepAlive => o.keepAlive}

\* epoll_ctl(MOD) for connection c on loop l.  When it fails, the kernel's
\* entry stays as it is and the channel is taken out of fd2chan_.
EpollMod(l, c, events) ==
  \/ /\ interest' = [interest EXCEPT ![l][http[c].fd] = events]
     /\ UNCHANGED fd2chan_
  \/ /\ fd2chan_' = [fd2chan_ EXCEPT ![l][http[c].fd] = None]
     /\ UNCHANGED interest

\* Seeded fault: the old node is not separated.
UpdateKeepingTimer(l, c, events, timeout) ==
  /\ timers' = AddTimer(timers, c, timeout)
  /\ Restart(c, timeout)
  /\ lastEvents_' = [lastEvents_ EXCEPT ![c] = events]
  /\ IF lastEvents_[c] = events THEN UNCHANGED <<interest, fd2chan_>>
     ELSE EpollMod(l, c, events)
  /\ UNCHANGED <<dying, fd2http_>>

\* Seeded fault: no new timer when the events are those asked for before.
UpdateTimerOnChange(l, c, events, timeout) ==
  /\ timers' = IF lastEvents_[c] = events THEN Separate(timers, c)
               ELSE AddTimer(Separate(timers, c), c, timeout)
  /\ Restart(c, timeout)
  /\ lastEvents_' = [lastEvents_ EXCEPT ![c] = events]
  /\ IF lastEvents_[c] = events THEN UNCHANGED <<interest, fd2chan_>>
     ELSE EpollMod(l, c, events)
  /\ UNCHANGED <<dying, fd2http_>>

\* Seeded fault: EPOLLONESHOT is left out of the comparison.
UpdateUnlessAsked(l, c, events, timeout) ==
  /\ timers' = AddTimer(Separate(timers, c), c, timeout)
  /\ Restart(c, timeout)
  /\ lastEvents_' = [lastEvents_ EXCEPT ![c] = events]
  /\ IF lastEvents_[c] \ {"oneshot"} = events
     THEN UNCHANGED <<interest, fd2chan_>>
     ELSE EpollMod(l, c, events)
  /\ UNCHANGED <<dying, fd2http_>>

\* EventLoop::updatePoller, Epoll::epoll_mod after seperateTimer: lastEvents_
\* and the timer are set before the system call, whatever comes of it.
UpdatePoller(l, c, events, timeout) ==
  /\ timers' = AddTimer(Separate(timers, c), c, timeout)
  /\ Restart(c, timeout)
  /\ lastEvents_' = [lastEvents_ EXCEPT ![c] = events]
  /\ IF lastEvents_[c] = events THEN UNCHANGED <<interest, fd2chan_>>
     ELSE EpollMod(l, c, events)
  /\ UNCHANGED <<dying, fd2http_>>

\* Seeded fault: fd2http_ keeps its entry.
CloseKeepingEntry(l, c) ==
  LET f == http[c].fd IN
  /\ http' = [http EXCEPT ![c].life = "closing",
                          ![c].state = "H_DISCONNECTED"]
  /\ interest' = [interest EXCEPT ![l][f] = None]
  /\ fd2chan_' = [fd2chan_ EXCEPT ![l][f] = None]
  /\ dying' = [dying EXCEPT ![l] = c]
  /\ UNCHANGED <<fd2http_, lastEvents_, granted, quiet>>

\* HttpData::handleClose, Epoll::epoll_del.
HandleClose(l, c) ==
  LET f == http[c].fd IN
  /\ http' = [http EXCEPT ![c].life = "closing",
                          ![c].state = "H_DISCONNECTED"]
  /\ interest' = [interest EXCEPT ![l][f] = None]
  /\ fd2chan_' = [fd2chan_ EXCEPT ![l][f] = None]
  /\ fd2http_' = [fd2http_ EXCEPT ![l][f] = None]
  /\ dying' = [dying EXCEPT ![l] = c]
  /\ UNCHANGED <<lastEvents_, granted, quiet>>

\* HttpData::handleConn of a connection that goes on.
KeepConn(l, c, o) ==
  LET asked == (IF o.more THEN {"in"} ELSE {})
                 \cup (IF o.asks THEN {"out"} ELSE {})
      events == IF o.asks THEN {"out"} ELSE {"in"}
      timeout == IF o.keepAlive THEN KeepAliveTime
                 ELSE IF asked # {} THEN HeaderTime ELSE IdleTime
  IN
  /\ ~o.error /\ ~o.ended
  /\ http' = [http EXCEPT ![c].owes = o.owes, ![c].asks = o.asks,
                          ![c].keepAlive = o.keepAlive]
  /\ UpdatePoller(l, c, events, timeout)

\* HttpData::handleConn at the end of the input with EPOLLOUT asked for:
\* events_ is set but the poller is not told, and the timer is gone.
LeaveConn(l, c, o) ==
  /\ ~o.error /\ o.ended /\ o.asks
  /\ http' = [http EXCEPT ![c].state = "H_DISCONNECTING",
                          ![c].owes = o.owes, ![c].asks = TRUE,
                          ![c].keepAlive = o.keepAlive]
  /\ timers' = Separate(timers, c)
  /\ UNCHANGED <<tableVars, lastEvents_, granted, quiet, dying>>

\* HttpData::handleConn otherwise.
DropConn(l, c, o) ==
  /\ o.error \/ (o.ended /\ ~o.asks)
  /\ timers' = Separate(timers, c)
  /\ HandleClose(l, c)

-----------------------------------------------------------------------------
(* The loop thread.                                                        *)

\* The entry (l, f) of the epoll set has something to report; an entry that
\* has fired under EPOLLONESHOT has not.
Reported(l, f) ==
  IF interest[l][f] \in {None, {}} \/ fdOwner[f] = None THEN {}
  ELSE edge[fdOwner[f]] \cap (interest[l][f] \cup {"err"})

\* epoll_wait: the descriptors with something to report.
Ready(l) == {f \in Fds : Reported(l, f) # {}}

\* What epoll_wait reports of these descriptors is not reported again.
Consume(l, ready) ==
  /\ edge' = [c \in Conns |->
                edge[c] \ UNION {Reported(l, f) :
                                   f \in {g \in ready : fdOwner[g] = c}}]
  /\ interest' = [interest EXCEPT ![l] = [f \in Fds |->
                    IF f \in ready /\ "oneshot" \in @[f] THEN {} ELSE @[f]]]

\* Epoll::poll and getEventsRequest: the channels of the reported entries.
\* An entry whose channel fd2chan_ has lost is passed over, its events with it.
Poll(l) ==
  LET known == {f \in Ready(l) : fd2chan_[l][f] # None}
      channel == [f \in known |-> fd2chan_[l][f]]
  IN
  /\ pc[l] = "poll"
  /\ known # {} \/ pending[l] # <<>>       \* a queued functor has woken it
  /\ batch' = [batch EXCEPT ![l] = {channel[f] : f \in known}]
  /\ revents_' = [c \in Conns |->
                    IF \E f \in known : channel[f] = c
                    THEN UNION {Reported(l, f) :
                                  f \in {g \in known : channel[g] = c}}
                    ELSE revents_[c]]
  /\ Consume(l, Ready(l))
  /\ pc' = [pc EXCEPT ![l] = "dispatch"]
  /\ UNCHANGED <<next_, pending, functors, dying, fd2chan_, fd2http_,
                 fdOwner, peer, clock, connVars>>

\* A turn of poll() in which no reported entry has a channel: it waits again.
PollAgain(l) ==
  /\ pc[l] = "poll"
  /\ Ready(l) # {}
  /\ \A f \in Ready(l) : fd2chan_[l][f] = None
  /\ Consume(l, Ready(l))
  /\ UNCHANGED <<next_, loopVars, fd2chan_, fd2http_, fdOwner, peer, clock,
                 connVars, revents_>>

\* epoll_wait returns for a channel that is none of the connections here.
PollOther(l) ==
  /\ pc[l] = "poll"
  /\ pc' = [pc EXCEPT ![l] = "dispatch"]
  /\ UNCHANGED <<next_, batch, pending, functors, dying, tableVars, fdOwner,
                 envVars, connVars, revents_>>

\* Channel::handleEvents on EPOLLERR, or EPOLLHUP without EPOLLIN.
IgnoreFailure(l, c) ==
  /\ pc[l] = "dispatch" /\ dying[l] = None
  /\ c \in batch[l]
  /\ "err" \in revents_[c]
  /\ batch' = [batch EXCEPT ![l] = @ \ {c}]
  /\ revents_' = [revents_ EXCEPT ![c] = {}]
  /\ UNCHANGED <<next_, pc, pending, functors, dying, tableVars, fdOwner,
                 envVars, connVars>>

\* Channel::handleEvents: read until there is nothing left, write until the
\* socket is full, then handleConn.
HandleEvents(l, c) ==
  /\ pc[l] = "dispatch" /\ dying[l] = None
  /\ c \in batch[l]
  /\ "err" \notin revents_[c]
  /\ batch' = [batch EXCEPT ![l] = @ \ {c}]
  /\ revents_' = [revents_ EXCEPT ![c] = {}]
  /\ \E o \in Outcomes(c) :
       /\ KeepConn(l, c, o) \/ LeaveConn(l, c, o) \/ DropConn(l, c, o)
       /\ edge' = [edge EXCEPT ![c] =
                     @ \ ((IF "in" \in revents_[c] /\ peer[c] # "rst"
                           THEN {"in"} ELSE {})
                          \cup (IF o.owes THEN {"out"} ELSE {}))]
  /\ UNCHANGED <<next_, pc, pending, functors, fdOwner, peer, clock>>

\* The last shared_ptr goes: ~HttpData closes the descriptor.
Destroy(l) ==
  LET c == dying[l] IN
  /\ c # None
  /\ fdOwner' = [fdOwner EXCEPT ![http[c].fd] = None]
  /\ http' = [http EXCEPT ![c] = [Unborn EXCEPT !.life = "dead",
                                    !.state = "H_DISCONNECTED"]]
  /\ edge' = [edge EXCEPT ![c] = {}]
  /\ peer' = [peer EXCEPT ![c] = "open"]
  /\ lastEvents_' = [lastEvents_ EXCEPT ![c] = {}]
  /\ granted' = [granted EXCEPT ![c] = 0]
  /\ quiet' = [quiet EXCEPT ![c] = 0]
  /\ dying' = [dying EXCEPT ![l] = None]
  /\ UNCHANGED <<next_, pc, batch, pending, functors, tableVars, timers,
                 clock, revents_>>

\* Seeded fault: the queued functors run between two dispatches.
SwapPendingEarly(l) ==
  /\ pc[l] = "dispatch" /\ dying[l] = None
  /\ functors' = [functors EXCEPT ![l] = pending[l]]
  /\ pending' = [pending EXCEPT ![l] = <<>>]
  /\ pc' = [pc EXCEPT ![l] = "pending"]
  /\ UNCHANGED <<next_, batch, dying, tableVars, fdOwner, envVars, connVars,
                 revents_>>

\* All channels are dispatched; doPendingFunctors swaps the vectors.
SwapPending(l) ==
  /\ pc[l] = "dispatch" /\ dying[l] = None
  /\ batch[l] = {}
  /\ functors' = [functors EXCEPT ![l] = pending[l]]
  /\ pending' = [pending EXCEPT ![l] = <<>>]
  /\ pc' = [pc EXCEPT ![l] = "pending"]
  /\ UNCHANGED <<next_, batch, dying, tableVars, fdOwner, envVars, connVars,
                 revents_>>

EndPending(l) ==
  /\ pc[l] = "pending"
  /\ functors[l] = <<>>
  /\ pc' = [pc EXCEPT ![l] = "expire"]
  /\ UNCHANGED <<next_, batch, pending, functors, dying, tableVars, fdOwner,
                 envVars, connVars, revents_>>

\* The nodes of the loop for which isValid is false.
ExpiredNodes(l) ==
  {n \in timers : n.expiredTime_ <= clock /\ http[n.conn].loop = l}

\* TimerManager::handleExpiredEvent pops an expired node; ~TimerNode closes.
Expire(l) ==
  /\ pc[l] = "expire" /\ dying[l] = None
  /\ \E n \in ExpiredNodes(l) :
       /\ timers' = timers \ {n}
       /\ HandleClose(l, n.conn)
  /\ UNCHANGED <<next_, pc, batch, pending, functors, fdOwner, envVars,
                 revents_>>

EndExpire(l) ==
  /\ pc[l] = "expire" /\ dying[l] = None
  /\ ExpiredNodes(l) = {}
  /\ pc' = [pc EXCEPT ![l] = "poll"]
  /\ UNCHANGED <<next_, batch, pending, functors, dying, tableVars, fdOwner,
                 envVars, connVars, revents_>>

LoopStep(l) ==
  \/ Poll(l) \/ PollAgain(l) \/ SwapPending(l) \/ NewEvent(l)
  \/ EndPending(l)
  \/ Expire(l) \/ EndExpire(l) \/ Destroy(l)
  \/ \E c \in Conns : HandleEvents(l, c) \/ IgnoreFailure(l, c)

Environment ==
  \/ \E c \in Conns :
       PeerSends(c) \/ PeerFinishes(c) \/ PeerResets(c) \/ RoomAppears(c)
  \/ Tick

Next ==
  \/ \E c \in Conns : Accept(c)
  \/ \E l \in Loops : LoopStep(l) \/ PollOther(l)
  \/ Environment

\* The loop threads run and time passes.  Nothing is assumed of clients.
Fairness == WF_vars(Tick) /\ \A l \in Loops : WF_vars(LoopStep(l))

Spec == Init /\ [][Next]_vars /\ Fairness

\* Besides, every loop keeps being woken, by whatever channel.
BusySpec == Spec /\ \A l \in Loops : WF_vars(PollOther(l))

-----------------------------------------------------------------------------
(* Properties.                                                             *)

\* A connection that is being destroyed has left the epoll set before its
\* descriptor is closed, which is its own and is closed by its own loop.
ClosesOnce ==
  \A l \in Loops : dying[l] # None =>
    /\ http[dying[l]].life = "closing" /\ http[dying[l]].loop = l
    /\ fdOwner[http[dying[l]].fd] = dying[l]
    /\ \A m \in Loops : interest[m][http[dying[l]].fd] = None

\* The tables of a loop name only connections of that loop whose descriptor
\* is still theirs.  What has a channel is watched by the kernel, and what the
\* kernel watches is a connection registered in fd2http_: after an epoll_mod
\* that failed the channel is gone and the entry stays.  An entry left behind
\* by a closed connection would hand the events of the next owner of the
\* descriptor number to it.
TablesMatchKernel ==
  /\ ClosesOnce
  /\ \A l \in Loops, f \in Fds :
       /\ fd2http_[l][f] # None =>
            /\ fdOwner[f] = fd2http_[l][f]
            /\ Open(fdOwner[f]) /\ http[fdOwner[f]].loop = l
            /\ http[fdOwner[f]].fd = f
       /\ fd2chan_[l][f] # None => fd2chan_[l][f] = fd2http_[l][f]
       /\ fd2chan_[l][f] # None => interest[l][f] # None
       /\ interest[l][f] # None => fd2http_[l][f] # None

\* The handlers of a channel are bound to the bare address of its HttpData:
\* what poll returned is dispatched before anything can destroy it.
DispatchedAreAlive ==
  \A l \in Loops : \A c \in batch[l] : Open(c) /\ fd2http_[l][http[c].fd] = c

\* A connection never has two timers that could close it: seperateTimer finds
\* every node that addTimer has made, and a node dies with its connection.
OneTimer ==
  \A n \in timers : Nodes(n.conn) = {n} /\ n.linked /\ Open(n.conn)

\* No connection is forgotten: apart from those handleConn leaves at the end
\* of the input, a registered one always has a node, also when epoll_ctl has
\* failed for it.  (When the node expires is the clock's matter.)
NoneForgotten == \A c \in Conns : Open(c) /\ ~Stranded(c) => Nodes(c) # {}

\* What handleConn has asked for is what the kernel watches, lastEvents_ and
\* the skipped system call notwithstanding: for room, and nothing else, when
\* EPOLLOUT is in events_, as it is whenever output is left, and for input
\* otherwise.  Not so while an event of the connection waits to be dispatched,
\* nor when its registration failed or a reset was ignored.
InterestFits ==
  \A c \in Conns :
    LET l == http[c].loop
        f == http[c].fd
    IN Open(c) /\ ~Stranded(c) /\ ~InBatch(c) /\ fd2chan_[l][f] # None
         /\ peer[c] # "rst"
         => /\ http[c].owes => http[c].asks
            /\ IF http[c].asks THEN interest[l][f] = {"out"}
               ELSE "in" \in interest[l][f]

\* The timer closes a connection only when nothing was dispatched for it for
\* as long as its last event allowed.
NoEarlyExpiry ==
  [][\A c \in Conns :
       (Open(c) /\ http'[c].life = "closing" /\ ~InBatch(c))
         => quiet[c] >= granted[c]]_vars

\* README.md:129: what is to be written is written completely.  So output
\* left at the end of the input, once the socket has room for it again, is
\* sent, or the connection fails.
OutputLeftIsSent ==
  \A c \in Conns :
    (Stranded(c) /\ http[c].owes /\ "out" \in edge[c])
      ~> (~Stranded(c) \/ peer[c] = "rst")

\* The time-out of c has passed and a node waits to close it.
Overdue(c) == Open(c) /\ quiet[c] >= granted[c] /\ Nodes(c) # {}

\* README.md:159: a node is gone at its time at the latest.  Here for the
\* nodes whose time is in the clock's current period, on a loop that need not
\* be woken.
ExpiredNodesGo ==
  \A c \in Conns :
    []<>(Overdue(c) => \E n \in Nodes(c) : Wrap <= n.expiredTime_)

\* README.md:159 again, for the nodes whose time falls behind the restart of
\* the clock, on a loop that keeps being woken.
CrossingNodesGo ==
  \A c \in Conns :
    []<>(Overdue(c) => \A n \in Nodes(c) : n.expiredTime_ < Wrap)
=============================================================================

-------------------------------- MODULE Server ---------------------------------
(***************************************************************************)
(* The acceptor (Server.cpp, socket_bind_listen in Util.cpp) on top of the *)
(* pool of module LoopThread: the constructor binds the listening socket,  *)
(* start() starts the pool and registers the socket, edge triggered, with  *)
(* the main loop, and from then on every wake-up runs handNewConn and      *)
(* handThisConn.  A connection accepted is dealt to a loop and waits there *)
(* as a queued newEvent.                                                   *)
(*                                                                         *)
(* Clients connect from the moment the socket listens, before any loop     *)
(* exists, and between any two calls of accept.  What a loop does with a   *)
(* connection between newEvent and the close is module Reactor.            *)
(***************************************************************************)
EXTENDS LoopThread, FiniteSets

CONSTANTS
  MAXFDS,           \* a descriptor from here on is refused (100000)
  MaxArrivals       \* bound on the connections that clients make

ASSUME ServerAssumption == MAXFDS \in Nat \ {0} /\ MaxArrivals \in Nat

Fds == 1 .. MAXFDS  \* descriptors accept can return, the lowest one first

VARIABLES
  at,               \* where the main thread is in Server
  backlog,          \* connections complete and not accepted
  arrived,          \* history: connections made
  registered,       \* epoll watches the socket for EPOLLIN|EPOLLET, and
                    \* fd2chan_ has the channel its events go to
  ready,            \* epoll has an edge to report
  events_, lastEvents_,     \* of acceptChannel_, as in registered
  owner,            \* per descriptor: the loop dealt to; 0: closed; -1: nobody
  queued,           \* descriptors whose newEvent is not run yet
  faults            \* history: calls that failed

sockVars == <<backlog, arrived, registered, ready>>
chanVars == <<events_, lastEvents_>>
connVars == <<owner, queued>>
acceptorVars == <<at, sockVars, chanVars, connVars, faults>>
allVars == <<vars, acceptorVars>>

NotOwned == 0 - 1

ServerTypeOK ==
  /\ TypeOK
  /\ at \in {"construct", "start", "poll", "accept", "conn", "aborted"}
  /\ backlog \in 0 .. MaxArrivals
  /\ arrived \in 0 .. MaxArrivals
  /\ {registered, ready, events_, lastEvents_} \subseteq BOOLEAN
  /\ owner \in [Fds -> Threads \cup {0, NotOwned}]
  /\ queued \subseteq Fds
  /\ faults \subseteq {"accept", "fcntl", "epoll"}

ServerInit ==
  /\ Init
  /\ at = "construct"
  /\ backlog = 0 /\ arrived = 0
  /\ registered = FALSE /\ ready = FALSE
  /\ events_ = FALSE /\ lastEvents_ = FALSE
  /\ owner = [fd \in Fds |-> 0]
  /\ queued = {}
  /\ faults = {}

-----------------------------------------------------------------------------
(* The clients and the kernel.                                             *)

Arrive ==
  /\ at \notin {"construct", "aborted"}
  /\ arrived < MaxArrivals
  /\ arrived' = arrived + 1
  /\ backlog' = backlog + 1
  /\ ready' = registered
  /\ UNCHANGED <<vars, at, registered, chanVars, connVars, faults>>

\* epoll_ctl reports at once what is ready already.
Watch(in) ==
  /\ registered' = in
  /\ ready' = (in /\ backlog > 0)

-----------------------------------------------------------------------------
(* The constructor and start().                                            *)

\* The socket listens; or a call of socket_bind_listen fails, -1 is no
\* descriptor for setSocketNonBlocking either, and the process aborts.
ConstructServer ==
  /\ at = "construct"
  /\ at' \in {"start", "aborted"}
  /\ UNCHANGED <<vars, sockVars, chanVars, connVars, faults>>

\* EventLoopThreadPool::start, a step of module LoopThread.
StartPool ==
  /\ at = "start"
  /\ MainNext \/ CreateFails \/ WakeUp
  /\ UNCHANGED acceptorVars

\* epoll_ctl for the acceptor, in epoll_add and epoll_mod: when it fails the
\* channel is taken out of fd2chan_, so poll() drops whatever is reported.
EpollCtl(in) ==
  \/ Watch(in) /\ UNCHANGED faults
  \/ Watch(FALSE) /\ faults' = faults \cup {"epoll"}

\* start() once the pool has started: epoll_add.
StartAcceptor ==
  /\ at = "start" /\ pc = "serving"
  /\ events_' = TRUE /\ lastEvents_' = TRUE
  /\ EpollCtl(TRUE)
  /\ at' = "poll"
  /\ UNCHANGED <<vars, backlog, arrived, connVars>>

-----------------------------------------------------------------------------
(* A turn of the main loop.                                                *)

\* poll() and handleEvents up to handNewConn.
Poll ==
  /\ at = "poll" /\ pc = "serving"
  /\ ready
  /\ ready' = FALSE
  /\ events_' = FALSE
  /\ at' = "accept"
  /\ UNCHANGED <<vars, backlog, arrived, registered, lastEvents_, connVars,
                 faults>>

Closed == {fd \in Fds : owner[fd] = 0}

\* What accept returns.
NewFd == CHOOSE fd \in Closed : \A other \in Closed : fd <= other

Refused(fd) == fd >= MAXFDS

\* Seeded fault: a descriptor refused is not closed.
RefuseKeeps(fd) ==
  owner' = [owner EXCEPT ![fd] = NotOwned] /\ UNCHANGED queued

\* What becomes of a descriptor that is refused: close().
Refuse(fd) == UNCHANGED connVars

\* accept returns a descriptor: it is closed again, or dealt to a loop where
\* its newEvent is queued.  Either way it has its turn of the round robin.
TakeConnection ==
  /\ at = "accept"
  /\ backlog > 0
  /\ backlog' = backlog - 1
  /\ GetNextLoop
  /\ \/ Refused(NewFd) /\ Refuse(NewFd)
     \/ /\ ~Refused(NewFd)
        /\ owner' = [owner EXCEPT ![NewFd] = loops_[next_ + 1]]
        /\ queued' = queued \cup {NewFd}
  /\ UNCHANGED <<arrived, registered, ready, lastEvents_, faults>>

\* Seeded fault: "if" for "while", one connection for each wake-up.
AcceptOnce == TakeConnection /\ events_' = TRUE /\ at' = "conn"

\* One turn of the loop of handNewConn.
Accept == TakeConnection /\ UNCHANGED <<at, events_>>

\* setSocketNonBlocking fails: handNewConn returns from inside the loop, with
\* the descriptor open and the channel's events still zero.
NonBlockingFails ==
  /\ at = "accept"
  /\ backlog > 0
  /\ ~Refused(NewFd)
  /\ backlog' = backlog - 1
  /\ GetNextLoop
  /\ owner' = [owner EXCEPT ![NewFd] = NotOwned]
  /\ faults' = faults \cup {"fcntl"}
  /\ at' = "conn"
  /\ UNCHANGED <<arrived, registered, ready, chanVars, queued>>

\* Seeded fault: setEvents is missing.
EventsMissing == events_

\* The channel's events after the loop.
EventsAfter == TRUE

EndAccept ==
  /\ at = "accept"
  /\ events_' = EventsAfter
  /\ at' = "conn"
  /\ UNCHANGED <<vars, sockVars, lastEvents_, connVars>>

\* accept finds nothing more: EAGAIN.
BacklogEmpty == backlog = 0 /\ EndAccept /\ UNCHANGED faults

\* accept fails for a reason of its own (EMFILE, ECONNABORTED): the same.
AcceptFails ==
  /\ backlog > 0
  /\ EndAccept
  /\ faults' = faults \cup {"accept"}

\* handThisConn: epoll_mod, which leaves epoll alone when nothing changed.
HandThisConn ==
  /\ at = "conn"
  /\ lastEvents_' = events_
  /\ IF events_ = lastEvents_ THEN UNCHANGED <<registered, ready, faults>>
     ELSE EpollCtl(events_)
  /\ at' = "poll"
  /\ UNCHANGED <<vars, backlog, arrived, events_, connVars>>

-----------------------------------------------------------------------------
(* The loop threads and the destructors.                                   *)

\* A loop runs the newEvent queued in it.
NewEvent(fd) ==
  /\ fd \in queued
  /\ thread[owner[fd]] = "looping"
  /\ queued' = queued \ {fd}
  /\ UNCHANGED <<vars, at, sockVars, chanVars, owner, faults>>

\* The connection's HttpData is destroyed.
CloseFd(fd) ==
  /\ owner[fd] \in Threads /\ fd \notin queued
  /\ thread[owner[fd]] = "looping"
  /\ owner' = [owner EXCEPT ![fd] = 0]
  /\ UNCHANGED <<vars, at, sockVars, chanVars, queued, faults>>

\* An EventLoop destroyed takes its pendingFunctors_ and its tables along.
FreeOf(i) ==
  /\ owner' = [fd \in Fds |-> IF owner[fd] = i THEN 0 ELSE owner[fd]]
  /\ queued' = {fd \in queued : owner[fd] # i}

LoopThreads ==
  \E i \in Threads :
    /\ ThreadNext(i)
    /\ IF alive[i] /\ ~alive'[i] THEN FreeOf(i) ELSE UNCHANGED connVars
    /\ UNCHANGED <<at, sockVars, chanVars, faults>>

\* The main loop ends, and the pool is destroyed.
Destroy ==
  /\ at = "poll"
  /\ Shutdown \/ TestLoop \/ QuitLoop \/ WakeLoop \/ Join
  /\ UNCHANGED acceptorVars

Acceptor ==
  \/ StartAcceptor \/ Poll \/ Accept \/ BacklogEmpty \/ HandThisConn

ServerNext ==
  \/ Arrive \/ ConstructServer \/ StartPool \/ Acceptor
  \/ NonBlockingFails \/ AcceptFails
  \/ \E fd \in Fds : NewEvent(fd) \/ CloseFd(fd)
  \/ LoopThreads \/ Destroy

\* The threads run.  The main loop is not ended by anything that must happen.
ServerSpec ==
  /\ ServerInit /\ [][ServerNext]_allVars
  /\ WF_allVars(at = "start" /\ MainNext /\ UNCHANGED acceptorVars)
  /\ WF_allVars(Acceptor)
  /\ WF_allVars(LoopThreads)
  /\ \A fd \in Fds : WF_allVars(NewEvent(fd))

-----------------------------------------------------------------------------
(* Properties.                                                             *)

\* Between two turns of the main loop the socket is watched, and connections
\* wait in it only when epoll will report them.  A call that fails is the only
\* way out: epoll_ctl's or fcntl's leaves the socket unwatched for good,
\* accept's leaves the backlog waiting until one more connection comes.
AcceptorListens ==
  at = "poll" =>
    /\ faults \cap {"fcntl", "epoll"} = {} => registered
    /\ faults = {} /\ backlog > 0 => ready

\* An open descriptor belongs to a loop that exists, from the moment it is
\* dealt out to the destruction of the pool; only the return after a failed
\* fcntl loses one.
DescriptorsOwned ==
  \A fd \in Fds :
    /\ owner[fd] \in Threads => alive[owner[fd]]
    /\ owner[fd] = NotOwned => "fcntl" \in faults

\* The pool waits for a loop whose thread could not be created.
StartHangs == pc = "asleep" /\ thread[cur] = "none"

\* Clients may connect before the loops exist, during handNewConn or while the
\* main loop sleeps: each connection is accepted and its newEvent is run, as
\* long as nothing fails and the server is not shut down.
ConnectionsServed ==
  (backlog > 0 \/ queued # {}) ~>
    \/ backlog = 0 /\ queued = {}
    \/ faults # {} \/ StartHangs \/ pc \in Stopping \cup {"gone"}
=============================================================================

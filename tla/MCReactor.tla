----------------------------- MODULE MCReactor ------------------------------
(* Reactor for TLC.                                                        *)
EXTENDS Reactor, TLC

\* Connections are interchangeable, and so are descriptor numbers.  Only for
\* the runs without liveness.
Symmetry == Permutations(Conns) \cup Permutations(Fds)

\* Bound on the states looked into: in at most one place at a time there is
\* trouble, a client that has ended its input or reset, or a connection that
\* has lost its channel to a failing epoll_ctl.
OneInTrouble ==
  \A c, d \in Conns : c # d =>
    \E x \in {c, d} :
      /\ peer[x] = "open"
      /\ Open(x) => fd2chan_[http[x].loop][http[x].fd] # None
=============================================================================

---------------------------- MODULE MCEventLoop ----------------------------
(* EventLoop for TLC: two posting threads and three functors.              *)
EXTENDS EventLoop
=============================================================================

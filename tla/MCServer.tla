------------------------------- MODULE MCServer --------------------------------
(* Server, with the pool of LoopThread, for TLC.                           *)
EXTENDS Server
=============================================================================

-------------------------- MODULE MCEventLoopThread --------------------------
(* Instances of EventLoopThread for TLC: the owner and the started thread. *)
EXTENDS EventLoopThread

CONSTANTS loop, owner, f1, f2
=============================================================================

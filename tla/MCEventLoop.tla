----------------------------- MODULE MCEventLoop -----------------------------
(***************************************************************************)
(* Instances of EventLoop for TLC: the loop thread, other threads that post*)
(* and quit, functors that are posted again and again, one user channel.   *)
(***************************************************************************)
EXTENDS EventLoop, TLC

CONSTANTS loop, t1, t2, f1, f2, f3

OtherThreads == Threads \ {LoopThread}

\* Threads other than the loop thread are interchangeable, functors too.
Symmetric == Permutations(OtherThreads) \union Permutations(Functors)
=============================================================================

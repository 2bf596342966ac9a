---------------------------- MODULE FunctorQueue ----------------------------
(***************************************************************************)
(* What EventLoop promises to the callers of queueInLoop() and runInLoop():*)
(* one FIFO queue of functors, any thread may append to it, and the loop   *)
(* runs them one at a time, in the order in which they were appended, each *)
(* exactly once.  The two vectors, the mutex, the eventfd and the poll of  *)
(* the implementation do not appear here.                                  *)
(***************************************************************************)
EXTENDS Sequences

CONSTANTS Functors,   \* the functors callers may post
          NoFunctor   \* not a functor: the loop runs none

VARIABLES queue,      \* the functors posted and not yet started, oldest first
          running     \* the functor the loop is executing, or NoFunctor

absVars == <<queue, running>>

AbsInit == queue = <<>> /\ running = NoFunctor

Post(f) == queue' = Append(queue, f) /\ UNCHANGED running

Start == /\ running = NoFunctor /\ queue # <<>>
         /\ running' = Head(queue)
         /\ queue' = Tail(queue)

Finish == running # NoFunctor /\ running' = NoFunctor /\ UNCHANGED queue

AbsNext == (\E f \in Functors : Post(f)) \/ Start \/ Finish

AbsSpec == AbsInit /\ [][AbsNext]_absVars
=============================================================================

------------------------------ MODULE EventLoop ------------------------------
(***************************************************************************)
(* net/EventLoop.cc: the reactor.  One thread, the loop thread, alternates *)
(* between epoll_wait, the callbacks of the active channels and the batch  *)
(* of pending functors; every thread may hand it functors (queueInLoop,    *)
(* runInLoop) or ask it to stop (quit).  An eventfd, registered with the   *)
(* poller, gets the loop out of epoll_wait.                                *)
(*                                                                         *)
(* A step is what another thread can observe at once: a critical section   *)
(* of _mutex, a read or write of the atomic _quit, a system call.          *)
(* runInLoop() called by the loop thread is a plain call of the functor:   *)
(* its body is user code of the loop thread, like any other callback.      *)
(***************************************************************************)
EXTENDS Naturals, Sequences

CONSTANTS Threads,      \* every thread that holds a pointer to the loop
          LoopThread,   \* the thread whose id is _tid
          Functors,     \* the functors callers may post
          NoFunctor,    \* no functor is executing
          Channels,     \* registered channels other than _wakeChnnel
          WakeChnnel,   \* _wakeChnnel
          WakeMax       \* the largest value the eventfd counter can hold

ASSUME LoopThreadAssumption == LoopThread \in Threads
ASSUME FunctorAssumption == NoFunctor \notin Functors
ASSUME ChannelAssumption == WakeChnnel \notin Channels
ASSUME WakeMaxAssumption == WakeMax \in Nat \ {0}

VARIABLES pc,           \* where the loop thread is
          looping,      \* _looping
          quit,         \* _quit
          callPending,  \* _callPendingFunctors
          pending,      \* _pendingFunctors
          batch,        \* vec of dpPendingFunctors(): what is left of it
          running,      \* the functor being executed
          active,       \* _activeChnnels: those not yet dispatched
          wakeFd,       \* the counter of the eventfd
          todo,         \* the threads between a push or a store to _quit and the wakeUp() after it
          early         \* history: functors the loop thread posted outside loop()

vars == <<pc, looping, quit, callPending, pending, batch, running, active,
          wakeFd, todo, early>>

(***************************************************************************)
(* idle: outside loop().  reset: between "_looping = true" and             *)
(* "_quit = false".  check: at "while(!_quit)".  poll: in epoll_wait.      *)
(* dispatch: in the for loop over _activeChnnels.  callback: in the        *)
(* callback of a user channel.  swap: _callPendingFunctors is set, vec not *)
(* yet swapped.  run: in the for loop over vec.  functor: in a functor.    *)
(* leave: after the while loop.                                            *)
(***************************************************************************)
Locations == {"idle", "reset", "check", "poll", "dispatch", "callback",
              "swap", "run", "functor", "leave"}

UserCode == {"idle", "callback", "functor"}

Queued == batch \o pending

Elems(s) == {s[i] : i \in 1..Len(s)}

TypeOK == /\ pc \in Locations
          /\ looping \in BOOLEAN /\ quit \in BOOLEAN /\ callPending \in BOOLEAN
          /\ pending \in Seq(Functors) /\ batch \in Seq(Functors)
          /\ running \in Functors \union {NoFunctor}
          /\ active \subseteq Channels \union {WakeChnnel}
          /\ wakeFd \in 0..WakeMax
          /\ todo \subseteq Threads
          /\ early \subseteq Functors

Init == /\ pc = "idle"
        /\ looping = FALSE /\ quit = FALSE /\ callPending = FALSE
        /\ pending = <<>> /\ batch = <<>> /\ running = NoFunctor
        /\ active = {} /\ wakeFd = 0 /\ todo = {} /\ early = {}

-----------------------------------------------------------------------------
(* Operations any thread may call.                                         *)

\* t is executing user code and is not inside an operation of the loop.
CanCall(t) == t \notin todo /\ (t = LoopThread => pc \in UserCode)

\* Mutant: the test forgets functors posted by functors.
MustWakeMutantInLoop(t) == t # LoopThread

\* Mutant: the test forgets the other threads.
MustWakeMutantOthers(t) == callPending

\* "if(!isInLoopThread() || _callPendingFunctors)"
MustWake(t) == t # LoopThread \/ callPending

\* The critical section of queueInLoop() and the test after it.  A functor is
\* a token: it is posted again only after it has left the queue.
QueueInLoop(t, f) ==
    /\ CanCall(t)
    /\ f \notin Elems(Queued)
    /\ pending' = Append(pending, f)
    /\ todo' = IF MustWake(t) THEN todo \union {t} ELSE todo
    /\ early' = IF t = LoopThread /\ pc = "idle" THEN early \union {f} ELSE early \ {f}
    /\ UNCHANGED <<pc, looping, quit, callPending, batch, running, active, wakeFd>>

\* Mutant: quit() without the wakeup.
QuitMutant(t) ==
    /\ CanCall(t)
    /\ quit' = TRUE
    /\ UNCHANGED <<pc, looping, callPending, pending, batch, running, active, wakeFd, todo, early>>

\* The store to _quit, and the test of isInLoopThread() after it.
Quit(t) ==
    /\ CanCall(t)
    /\ quit' = TRUE
    /\ todo' = IF t # LoopThread THEN todo \union {t} ELSE todo
    /\ UNCHANGED <<pc, looping, callPending, pending, batch, running, active, wakeFd, early>>

\* The write to the eventfd; at the limit of the counter the write fails with
\* EAGAIN, which is only logged.
WakeUp(t) ==
    /\ t \in todo
    /\ todo' = todo \ {t}
    /\ wakeFd' = IF wakeFd < WakeMax THEN wakeFd + 1 ELSE wakeFd
    /\ UNCHANGED <<pc, looping, quit, callPending, pending, batch, running, active, early>>

-----------------------------------------------------------------------------
(* The loop thread.                                                        *)

LoopFree == LoopThread \notin todo

\* "_looping = true"
EnterLoop ==
    /\ pc = "idle" /\ LoopFree
    /\ looping' = TRUE /\ pc' = "reset"
    /\ UNCHANGED <<quit, callPending, pending, batch, running, active, wakeFd, todo, early>>

\* "_quit = false": it also erases a quit() that came before.
ResetQuit ==
    /\ pc = "reset"
    /\ quit' = FALSE /\ pc' = "check"
    /\ UNCHANGED <<looping, callPending, pending, batch, running, active, wakeFd, todo, early>>

\* "while(!_quit)" and "_activeChnnels.clear()"
CheckQuit ==
    /\ pc = "check"
    /\ pc' = IF quit THEN "leave" ELSE "poll"
    /\ active' = {}
    /\ UNCHANGED <<looping, quit, callPending, pending, batch, running, wakeFd, todo, early>>

\* epoll_wait returns some of the ready channels: a user channel may be ready
\* at any time, the wake channel is ready when the counter is not zero.  More
\* channels may be ready than the event array holds, so any of them may be
\* missing from what is returned.
PollReturns ==
    /\ pc = "poll"
    /\ \E ready \in SUBSET (Channels \union (IF wakeFd > 0 THEN {WakeChnnel} ELSE {})) :
          ready # {} /\ active' = ready
    /\ pc' = "dispatch"
    /\ UNCHANGED <<looping, quit, callPending, pending, batch, running, wakeFd, todo, early>>

\* epoll_wait returns 0 after cEpollTimeOutMs, or -1 with EINTR.
PollTimesOut ==
    /\ pc = "poll"
    /\ pc' = "dispatch"
    /\ UNCHANGED <<looping, quit, callPending, pending, batch, running, active, wakeFd, todo, early>>

\* EventLoop::handleRead(), the callback of the wake channel: one read returns
\* the counter and resets it.
HandleRead ==
    /\ pc = "dispatch" /\ WakeChnnel \in active
    /\ active' = active \ {WakeChnnel}
    /\ wakeFd' = 0
    /\ UNCHANGED <<pc, looping, quit, callPending, pending, batch, running, todo, early>>

\* handleEvent() of a user channel starts ...
CallbackStarts(c) ==
    /\ pc = "dispatch" /\ c \in active
    /\ active' = active \ {c}
    /\ pc' = "callback"
    /\ UNCHANGED <<looping, quit, callPending, pending, batch, running, wakeFd, todo, early>>

\* ... and returns.
CallbackReturns ==
    /\ pc = "callback" /\ LoopFree
    /\ pc' = "dispatch"
    /\ UNCHANGED <<looping, quit, callPending, pending, batch, running, active, wakeFd, todo, early>>

\* dpPendingFunctors(): "_callPendingFunctors = true"
BeginPending ==
    /\ pc = "dispatch" /\ active = {}
    /\ callPending' = TRUE /\ pc' = "swap"
    /\ UNCHANGED <<looping, quit, pending, batch, running, active, wakeFd, todo, early>>

\* Mutant: the vector is copied, not swapped.
SwapPendingMutant ==
    /\ pc = "swap"
    /\ batch' = pending /\ pending' = pending
    /\ pc' = "run"
    /\ UNCHANGED <<looping, quit, callPending, running, active, wakeFd, todo, early>>

\* dpPendingFunctors(): the critical section
SwapPending ==
    /\ pc = "swap"
    /\ batch' = pending /\ pending' = <<>>
    /\ pc' = "run"
    /\ UNCHANGED <<looping, quit, callPending, running, active, wakeFd, todo, early>>

FunctorStarts ==
    /\ pc = "run" /\ batch # <<>>
    /\ running' = Head(batch) /\ batch' = Tail(batch)
    /\ pc' = "functor"
    /\ UNCHANGED <<looping, quit, callPending, pending, active, wakeFd, todo, early>>

FunctorReturns ==
    /\ pc = "functor" /\ LoopFree
    /\ running' = NoFunctor
    /\ pc' = "run"
    /\ UNCHANGED <<looping, quit, callPending, pending, batch, active, wakeFd, todo, early>>

\* Mutant: dpPendingFunctors() goes on until no functor is left.
EndPendingMutant ==
    /\ pc = "run" /\ batch = <<>>
    /\ batch' = pending /\ pending' = <<>>
    /\ callPending' = (pending # <<>>)
    /\ pc' = IF pending = <<>> THEN "check" ELSE "run"
    /\ UNCHANGED <<looping, quit, running, active, wakeFd, todo, early>>

\* dpPendingFunctors(): "_callPendingFunctors = false" and the return to loop()
EndPending ==
    /\ pc = "run" /\ batch = <<>>
    /\ callPending' = FALSE /\ pc' = "check"
    /\ UNCHANGED <<looping, quit, pending, batch, running, active, wakeFd, todo, early>>

\* "_looping = false"
LeaveLoop ==
    /\ pc = "leave"
    /\ looping' = FALSE /\ pc' = "idle"
    /\ UNCHANGED <<quit, callPending, pending, batch, running, active, wakeFd, todo, early>>

LoopStep == \/ ResetQuit \/ CheckQuit \/ HandleRead
            \/ (\E c \in Channels : CallbackStarts(c)) \/ CallbackReturns
            \/ BeginPending \/ SwapPending \/ FunctorStarts \/ FunctorReturns
            \/ EndPending \/ LeaveLoop

Next == \/ EnterLoop \/ PollReturns \/ PollTimesOut \/ LoopStep
        \/ \E t \in Threads : \/ \E f \in Functors : QueueInLoop(t, f)
                              \/ Quit(t) \/ WakeUp(t)

Spec == Init /\ [][Next]_vars

\* The scheduler runs every thread: a thread inside an operation of the loop
\* completes it, and the loop thread goes on.  A ready channel gets epoll_wait
\* to return.  Nothing is assumed of the timeout of epoll_wait, nor that user
\* channels become ready: what leads to something below does so by a wakeup.
\* User code returns: a callback or functor does not run for ever.
Fairness == /\ WF_vars(LoopStep)
            /\ WF_vars(PollReturns /\ wakeFd > 0)
            /\ \A t \in Threads : WF_vars(WakeUp(t))

FairSpec == Spec /\ Fairness
-----------------------------------------------------------------------------
(* Properties.                                                             *)

\* A pending functor that is not one of the loop thread's own early posts.
Unannounced == \E i \in 1..Len(pending) : pending[i] \notin early

\* Some wakeup is in the eventfd or on its way to it.
WakeOnTheWay == wakeFd > 0 \/ todo # {}

(* queueInLoop() and dpPendingFunctors(): the loop never sits in epoll_wait
   while a functor waits, unless a wakeup is in the eventfd or a thread is
   about to write it.  It needs "_callPendingFunctors = true" to come before the
   swap, and the read of the eventfd to come before the swap of the same pass.
   The functors the loop thread itself posts outside loop() are excepted: the
   code posts no wakeup for them and they wait for the first epoll_wait to
   return.                                                                  *)
NoLostWakeup == pc = "poll" /\ Unannounced => WakeOnTheWay

(* quit(): the loop never sits in epoll_wait after a quit() without a wakeup
   in the eventfd or on its way.                                            *)
NoLostQuit == pc = "poll" /\ quit => WakeOnTheWay

\* Inside dpPendingFunctors() after "_callPendingFunctors = true".
InPending == pc \in {"swap", "run", "functor"}

\* Between the return of epoll_wait and the swap of the same pass.
BeforeSwap == pc \in {"dispatch", "callback", "swap"}

(* The inductive invariant behind the two: the wakeup a posted functor needs can
   be missing only where the swap that takes the functor is still to come.  The
   other parts tie _callPendingFunctors, vec and the running functor to the
   place the loop thread is at.                                             *)
FlagFollowsLoop == callPending <=> InPending
LoopWakesItself == LoopThread \in todo => pc = "functor"
BatchOnlyInRun == batch # <<>> => pc \in {"run", "functor"}
RunningInFunctor == running # NoFunctor <=> pc = "functor"
WakeupCovered == ~BeforeSwap /\ Unannounced => WakeOnTheWay

WakeupInv == /\ FlagFollowsLoop /\ LoopWakesItself /\ BatchOnlyInRun
             /\ RunningInFunctor /\ WakeupCovered /\ NoLostQuit

(* dpPendingFunctors(): the pair of vectors behaves as one FIFO queue whose
   elements are run one at a time, each once (module FunctorQueue).         *)
Abs == INSTANCE FunctorQueue WITH queue <- Queued
FunctorsFIFO == Abs!AbsSpec

(* queueInLoop(): while loop() runs, a posted functor starts, or the loop is
   left, without help from the timeout of epoll_wait.                       *)
PostedFunctorStarts ==
    \A f \in Functors :
        (looping /\ f \in Elems(Queued) /\ f \notin early)
            ~> (~looping \/ f \notin Elems(Queued))

(* quit(): called once loop() has begun its first pass, it ends loop().     *)
QuitEndsLoop == (quit /\ pc \notin {"idle", "reset"}) ~> pc = "idle"

(* dpPendingFunctors() runs the functors it swapped out and returns to the
   poll, even when functors keep posting functors, themselves included.     *)
FunctorsDoNotStarvePoll == pc = "run" ~> pc = "check"
=============================================================================

--------------------------- MODULE EventLoopThread ---------------------------
(***************************************************************************)
(* net/EventLoopThread.cc with base/Thread.cc and base/CountDownLatch.cc:  *)
(* an owner thread starts a thread that constructs an EventLoop on its     *)
(* stack, publishes a pointer to it and runs it; the destructor stops the  *)
(* loop and joins the thread.  The loop itself is module EventLoop, whose  *)
(* actions this module composes with those of the two threads.             *)
(*                                                                         *)
(* A step is a critical section of a mutex, an access to _loop outside it, *)
(* or a step of EventLoop.  A thread that finds its condition false blocks *)
(* on the condition variable until it is notified.                         *)
(***************************************************************************)
EXTENDS EventLoop

CONSTANTS Owner,       \* the thread that owns the EventLoopThread object
          OwnerSyncs   \* the owner waits for the loop before it destroys the object

ASSUME OwnerAssumption == Owner \in Threads /\ Owner # LoopThread
ASSUME UsageAssumption == OwnerSyncs \in BOOLEAN

VARIABLES opc,      \* where the owner is
          tpc,      \* where the started thread is
          tidSet,   \* Thread::_tid has been stored
          latch,    \* the count of Thread::_latch
          loopPtr,  \* _loop # nullptr
          alive,    \* the EventLoop on the thread's stack exists
          selfQuit  \* how the program is written: code the loop runs may call quit()

threadVars == <<opc, tpc, tidSet, latch, loopPtr, alive, selfQuit>>
allVars == <<vars, threadVars>>

(***************************************************************************)
(* Owner.  new: constructed.  latch, latchBlocked: in _latch.wait().       *)
(* wait, waitBlocked: in the while loop of startLoop().  ready: startLoop()*)
(* returned.  quit: the destructor has read a _loop that is not null.      *)
(* join: in _thread.join().  destroyed: the destructor returned.           *)
(* Thread.  unborn: before pthread_create().  born: before the store to    *)
(* _tid.  count: before countDown().  construct: before the EventLoop      *)
(* constructor.  init: in the ThreadInitCallBack.  enter: published,       *)
(* before loop().  loop: in loop().  clear: before "_loop = nullptr".      *)
(* destruct: before ~EventLoop.  gone: the thread has ended.               *)
(***************************************************************************)
OwnerPlaces == {"new", "latch", "latchBlocked", "wait", "waitBlocked", "ready",
                "quit", "join", "destroyed"}
ThreadPlaces == {"unborn", "born", "count", "construct", "init", "enter", "loop",
                 "clear", "destruct", "gone"}

ThreadTypeOK == /\ TypeOK
                /\ opc \in OwnerPlaces /\ tpc \in ThreadPlaces
                /\ tidSet \in BOOLEAN /\ latch \in {0, 1}
                /\ loopPtr \in BOOLEAN /\ alive \in BOOLEAN /\ selfQuit \in BOOLEAN

ThreadInit == /\ Init
              /\ opc = "new" /\ tpc = "unborn"
              /\ tidSet = FALSE /\ latch = 1
              /\ loopPtr = FALSE /\ alive = FALSE /\ selfQuit \in BOOLEAN

-----------------------------------------------------------------------------
(* The owner.                                                              *)

\* startLoop(): Thread::start() creates the thread.
StartThread ==
    /\ opc = "new"
    /\ opc' = "latch" /\ tpc' = "born"
    /\ UNCHANGED <<vars, tidSet, latch, loopPtr, alive, selfQuit>>

\* CountDownLatch::wait()
LatchWait ==
    /\ opc = "latch"
    /\ opc' = IF latch > 0 THEN "latchBlocked" ELSE "wait"
    /\ UNCHANGED <<vars, tpc, tidSet, latch, loopPtr, alive, selfQuit>>

\* startLoop(): "while(_loop == nullptr) _cond.wait()"
WaitLoop ==
    /\ opc = "wait"
    /\ opc' = IF loopPtr THEN "ready" ELSE "waitBlocked"
    /\ UNCHANGED <<vars, tpc, tidSet, latch, loopPtr, alive, selfQuit>>

\* Mutant: "if" instead of "while" around _cond.wait().
SpuriousWakeupMutant ==
    /\ opc \in {"latchBlocked", "waitBlocked"}
    /\ opc' = IF opc = "latchBlocked" THEN "wait" ELSE "ready"
    /\ UNCHANGED <<vars, tpc, tidSet, latch, loopPtr, alive, selfQuit>>

\* pthread_cond_wait() may return without a notification.
SpuriousWakeup ==
    /\ opc \in {"latchBlocked", "waitBlocked"}
    /\ opc' = IF opc = "latchBlocked" THEN "latch" ELSE "wait"
    /\ UNCHANGED <<vars, tpc, tidSet, latch, loopPtr, alive, selfQuit>>

\* The owner posts to the loop that startLoop() returned.
OwnerPosts ==
    /\ opc = "ready" /\ alive
    /\ \E f \in Functors : QueueInLoop(Owner, f)
    /\ UNCHANGED threadVars

OwnerWakes == WakeUp(Owner) /\ UNCHANGED threadVars

\* How a careful owner times the destruction: while loop() runs and only the
\* owner can end it, or once the thread has ended by itself.
GoodMoment == IF selfQuit THEN tpc = "gone" ELSE pc \notin {"idle", "reset"}

\* ~EventLoopThread(): "if(_loop != nullptr)", read without the mutex.
Destroy ==
    /\ opc \in {"new", "ready"} /\ Owner \notin todo
    /\ opc = "ready" /\ OwnerSyncs => GoodMoment
    /\ opc' = IF loopPtr THEN "quit" ELSE "destroyed"
    /\ UNCHANGED <<vars, tpc, tidSet, latch, loopPtr, alive, selfQuit>>

\* ~EventLoopThread(): "_loop->quit()".  Its wakeUp() is OwnerWakes, which may
\* come after the loop thread has seen _quit and destroyed the EventLoop: the
\* write then goes to a descriptor that no longer matters to this model.
DestroyQuits ==
    /\ opc = "quit"
    /\ Quit(Owner)
    /\ opc' = "join"
    /\ UNCHANGED <<tpc, tidSet, latch, loopPtr, alive, selfQuit>>

\* Mutant: the destructor does not join.
JoinMutant ==
    /\ opc = "join" /\ Owner \notin todo
    /\ opc' = "destroyed"
    /\ UNCHANGED <<vars, tpc, tidSet, latch, loopPtr, alive, selfQuit>>

\* ~EventLoopThread(): "_thread.join()"
Join ==
    /\ opc = "join" /\ Owner \notin todo
    /\ tpc = "gone"
    /\ opc' = "destroyed"
    /\ UNCHANGED <<vars, tpc, tidSet, latch, loopPtr, alive, selfQuit>>

-----------------------------------------------------------------------------
(* The started thread.                                                     *)

\* A notification gets the owner out of pthread_cond_wait().
Notified(blocked, test) == IF opc = blocked THEN test ELSE opc

\* runInThread(): "*_tid = CurrentThread::tid()"
StoreTid ==
    /\ tpc = "born"
    /\ tidSet' = TRUE /\ tpc' = "count"
    /\ UNCHANGED <<vars, opc, latch, loopPtr, alive, selfQuit>>

\* CountDownLatch::countDown()
CountDown ==
    /\ tpc = "count"
    /\ latch' = latch - 1
    /\ opc' = IF latch' = 0 THEN Notified("latchBlocked", "latch") ELSE opc
    /\ tpc' = "construct"
    /\ UNCHANGED <<vars, tidSet, loopPtr, alive, selfQuit>>

\* threadFunc(): "EventLoop loop;"
ConstructLoop ==
    /\ tpc = "construct"
    /\ alive' = TRUE /\ tpc' = "init"
    /\ UNCHANGED <<vars, opc, tidSet, latch, loopPtr, selfQuit>>

\* threadFunc(): the ThreadInitCallBack may post to the loop, or quit() it.
InitCallback ==
    /\ tpc = "init"
    /\ \/ \E f \in Functors : QueueInLoop(LoopThread, f)
       \/ selfQuit /\ Quit(LoopThread)
    /\ UNCHANGED threadVars

\* Mutant: _loop is stored without a notification.
PublishMutant ==
    /\ tpc = "init"
    /\ loopPtr' = TRUE /\ tpc' = "enter"
    /\ UNCHANGED <<vars, opc, tidSet, latch, alive, selfQuit>>

\* threadFunc(): "_loop = &loop; _cond.notify()"
Publish ==
    /\ tpc = "init"
    /\ loopPtr' = TRUE
    /\ opc' = Notified("waitBlocked", "wait")
    /\ tpc' = "enter"
    /\ UNCHANGED <<vars, tidSet, latch, alive, selfQuit>>

\* threadFunc(): "loop.loop()"
ThreadEnters ==
    /\ tpc = "enter"
    /\ EnterLoop
    /\ tpc' = "loop"
    /\ UNCHANGED <<opc, tidSet, latch, loopPtr, alive, selfQuit>>

ThreadLoops ==
    /\ tpc = "loop" /\ pc # "leave"
    /\ LoopStep
    /\ UNCHANGED threadVars

ThreadPolls == (PollReturns \/ PollTimesOut) /\ UNCHANGED threadVars

\* Callbacks and functors post to their own loop, or quit() it.
ThreadCalls ==
    /\ tpc = "loop"
    /\ \/ \E f \in Functors : QueueInLoop(LoopThread, f)
       \/ selfQuit /\ Quit(LoopThread)
    /\ UNCHANGED threadVars

ThreadWakes == WakeUp(LoopThread) /\ UNCHANGED threadVars

ThreadLeaves ==
    /\ tpc = "loop"
    /\ LeaveLoop
    /\ tpc' = "clear"
    /\ UNCHANGED <<opc, tidSet, latch, loopPtr, alive, selfQuit>>

\* Mutant: the pointer is left dangling.
ClearLoopMutant ==
    /\ tpc = "clear"
    /\ tpc' = "destruct"
    /\ UNCHANGED <<vars, opc, tidSet, latch, loopPtr, alive, selfQuit>>

\* threadFunc(): "_loop = nullptr", under the mutex
ClearLoop ==
    /\ tpc = "clear"
    /\ loopPtr' = FALSE /\ tpc' = "destruct"
    /\ UNCHANGED <<vars, opc, tidSet, latch, alive, selfQuit>>

\* threadFunc() returns: ~MutexLock, then ~EventLoop
DestructLoop ==
    /\ tpc = "destruct"
    /\ alive' = FALSE /\ tpc' = "gone"
    /\ UNCHANGED <<vars, opc, tidSet, latch, loopPtr, selfQuit>>

-----------------------------------------------------------------------------
ThreadStep == \/ StoreTid \/ CountDown \/ ConstructLoop \/ Publish \/ ThreadEnters
              \/ ThreadLoops \/ ThreadLeaves \/ ClearLoop \/ DestructLoop

OwnerStep == LatchWait \/ WaitLoop \/ DestroyQuits \/ Join

\* The object is destroyed, the thread is gone or was never started.
Terminated == opc = "destroyed" /\ tpc \in {"unborn", "gone"} /\ UNCHANGED allVars

ThreadNext == \/ StartThread \/ SpuriousWakeup \/ OwnerPosts \/ OwnerWakes \/ Destroy
              \/ OwnerStep \/ ThreadStep \/ InitCallback \/ ThreadCalls \/ ThreadPolls
              \/ ThreadWakes \/ Terminated

\* The scheduler runs both threads; spurious wakeups, the poll timeout and the
\* owner's decision to destroy the object are left to chance.
ThreadFairness == /\ WF_allVars(ThreadStep)
                  /\ WF_allVars(ThreadPolls /\ wakeFd > 0)
                  /\ WF_allVars(OwnerStep)
                  /\ WF_allVars(OwnerWakes)
                  /\ WF_allVars(ThreadWakes)

ThreadSpec == ThreadInit /\ [][ThreadNext]_allVars /\ ThreadFairness

-----------------------------------------------------------------------------
(* Properties.                                                             *)

(* What the owner uses exists: Thread::start() returns only after the new
   thread has stored its id ("assert(_tid > 0)"), startLoop() only with a loop
   that is alive, and ~EventLoopThread() calls quit() on no other.          *)
OwnerFindsLoop ==
    /\ opc \in {"wait", "waitBlocked", "ready", "quit", "join"} => tidSet
    /\ opc = "ready" /\ ~selfQuit => alive
    /\ opc = "quit" => alive

(* When ~EventLoopThread() has returned, the thread uses none of its members
   any more.                                                                *)
ThreadGoneAfterDestructor == opc = "destroyed" => tpc \in {"unborn", "gone"}

(* startLoop() returns, whichever of the two threads is faster at the latch and
   at the condition variable, if the loop does not end before its starter has
   seen it.                                                                 *)
StartLoopReturns == opc = "latch" /\ ~selfQuit ~> opc = "ready"

(* ~EventLoopThread() returns: quit() gets the loop to end and join() ends.  *)
DestructorReturns == opc = "quit" ~> opc = "destroyed"
=============================================================================

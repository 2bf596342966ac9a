--------------------------- MODULE EventLoopProofs ---------------------------
(***************************************************************************)
(* Proofs about EventLoop for any number of threads, functors and channels *)
(* and any limit of the eventfd, and about EventLoopThread: the loop its   *)
(* thread runs is an EventLoop, so what is proved of EventLoop holds of    *)
(* it; and the life of the thread and of its owner.                        *)
(***************************************************************************)
EXTENDS EventLoopThread, TLAPS, SequenceTheorems

(* Type correctness: every action keeps every variable in its type. *)
LEMMA TypeInductive == TypeOK /\ [Next]_vars => TypeOK'
<1> SUFFICES ASSUME TypeOK, [Next]_vars PROVE TypeOK'
  OBVIOUS
<1> USE LoopThreadAssumption, FunctorAssumption, WakeMaxAssumption DEF TypeOK, Locations
<1>1. CASE UNCHANGED vars
  BY <1>1 DEF vars
<1>2. ASSUME NEW t \in Threads, NEW f \in Functors, QueueInLoop(t, f) PROVE TypeOK'
  BY <1>2 DEF QueueInLoop
<1>3. ASSUME NEW t \in Threads, Quit(t) PROVE TypeOK'
  BY <1>3 DEF Quit
<1>4. ASSUME NEW t \in Threads, WakeUp(t) PROVE TypeOK'
  BY <1>4 DEF WakeUp
<1>5. CASE EnterLoop
  BY <1>5 DEF EnterLoop
<1>6. CASE PollReturns
  BY <1>6 DEF PollReturns
<1>7. CASE PollTimesOut
  BY <1>7 DEF PollTimesOut
<1>8. CASE ResetQuit
  BY <1>8 DEF ResetQuit
<1>9. CASE CheckQuit
  BY <1>9 DEF CheckQuit
<1>10. CASE HandleRead
  BY <1>10 DEF HandleRead
<1>11. ASSUME NEW c \in Channels, CallbackStarts(c) PROVE TypeOK'
  BY <1>11 DEF CallbackStarts
<1>12. CASE CallbackReturns
  BY <1>12 DEF CallbackReturns
<1>13. CASE BeginPending
  BY <1>13 DEF BeginPending
<1>14. CASE SwapPending
  BY <1>14 DEF SwapPending
<1>15. CASE FunctorStarts
  BY <1>15 DEF FunctorStarts
<1>16. CASE FunctorReturns
  BY <1>16 DEF FunctorReturns
<1>17. CASE EndPending
  BY <1>17 DEF EndPending
<1>18. CASE LeaveLoop
  BY <1>18 DEF LeaveLoop
<1> QED
  BY <1>1, <1>2, <1>3, <1>4, <1>5, <1>6, <1>7, <1>8, <1>9, <1>10, <1>11, <1>12,
     <1>13, <1>14, <1>15, <1>16, <1>17, <1>18 DEF Next, LoopStep

(* A new EventLoop has members of the right types. *)
LEMMA InitTypeOK == Init => TypeOK
<1> SUFFICES ASSUME Init PROVE TypeOK
  OBVIOUS
<1>1. <<>> \in Seq(Functors)
  OBVIOUS
<1>2. 0 \in 0..WakeMax
  BY WakeMaxAssumption
<1> QED
  BY <1>1, <1>2 DEF Init, TypeOK, Locations

(* EventLoop keeps the types of its members; in particular the eventfd counter
   stays within its limit however many threads write it. *)
THEOREM TypeCorrect == Spec => []TypeOK
BY InitTypeOK, TypeInductive, PTL DEF Spec
-----------------------------------------------------------------------------
(* Every step keeps the invariant behind the wakeup protocol. *)
LEMMA WakeupInductive == TypeOK /\ WakeupInv /\ [Next]_vars => WakeupInv'
<1> SUFFICES ASSUME TypeOK, WakeupInv, [Next]_vars PROVE WakeupInv'
  OBVIOUS
<1> USE LoopThreadAssumption, FunctorAssumption, WakeMaxAssumption
    DEF TypeOK, WakeupInv, FlagFollowsLoop, LoopWakesItself, BatchOnlyInRun,
        RunningInFunctor, WakeupCovered, NoLostQuit, InPending, BeforeSwap,
        Unannounced, WakeOnTheWay
<1>1. CASE UNCHANGED vars
  BY <1>1 DEF vars
<1>2. ASSUME NEW t \in Threads, NEW f \in Functors, QueueInLoop(t, f) PROVE WakeupInv'
  BY <1>2 DEF QueueInLoop, CanCall, UserCode, MustWake
<1>3. ASSUME NEW t \in Threads, Quit(t) PROVE WakeupInv'
  BY <1>3 DEF Quit, CanCall, UserCode
<1>4. ASSUME NEW t \in Threads, WakeUp(t) PROVE WakeupInv'
  BY <1>4 DEF WakeUp
<1>5. CASE ResetQuit
  BY <1>5 DEF ResetQuit, LoopFree
<1>6. CASE CheckQuit
  BY <1>6 DEF CheckQuit, LoopFree
<1>7. CASE HandleRead
  BY <1>7 DEF HandleRead, LoopFree
<1>8. CASE CallbackReturns
  BY <1>8 DEF CallbackReturns, LoopFree
<1>9. CASE BeginPending
  BY <1>9 DEF BeginPending, LoopFree
<1>10. CASE SwapPending
  BY <1>10 DEF SwapPending, LoopFree
<1>11. CASE FunctorStarts
  BY <1>11 DEF FunctorStarts, LoopFree
<1>12. CASE FunctorReturns
  BY <1>12 DEF FunctorReturns, LoopFree
<1>13. CASE EndPending
  BY <1>13 DEF EndPending, LoopFree
<1>14. CASE LeaveLoop
  BY <1>14 DEF LeaveLoop, LoopFree
<1>15. CASE EnterLoop
  BY <1>15 DEF EnterLoop, LoopFree
<1>16. CASE PollReturns
  BY <1>16 DEF PollReturns, LoopFree
<1>17. CASE PollTimesOut
  BY <1>17 DEF PollTimesOut, LoopFree
<1>18. ASSUME NEW c \in Channels, CallbackStarts(c) PROVE WakeupInv'
  BY <1>18 DEF CallbackStarts
<1> QED
  BY <1>1, <1>2, <1>3, <1>4, <1>5, <1>6, <1>7, <1>8, <1>9, <1>10, <1>11, <1>12, <1>13, <1>14, <1>15, <1>16, <1>17, <1>18
     DEF Next, LoopStep

(* The invariant holds in every reachable state. *)
THEOREM WakeupInvariant == Spec => []WakeupInv
<1>1. Init => WakeupInv
  BY FunctorAssumption
     DEF Init, WakeupInv, FlagFollowsLoop, LoopWakesItself, BatchOnlyInRun, RunningInFunctor,
         WakeupCovered, NoLostQuit, InPending, BeforeSwap, Unannounced, WakeOnTheWay
<1> QED
  BY <1>1, TypeCorrect, WakeupInductive, PTL DEF Spec

(* queueInLoop(), dpPendingFunctors(): no posted functor is left behind by a
   loop that sleeps in epoll_wait with no wakeup coming. *)
THEOREM WakeupNotLost == Spec => []NoLostWakeup
<1>1. WakeupInv => NoLostWakeup
  BY DEF WakeupInv, WakeupCovered, NoLostWakeup, BeforeSwap
<1> QED
  BY <1>1, WakeupInvariant, PTL

(* quit(): the loop does not sleep in epoll_wait after quit() with no wakeup
   coming. *)
THEOREM QuitNotLost == Spec => []NoLostQuit
<1>1. WakeupInv => NoLostQuit
  BY DEF WakeupInv
<1> QED
  BY <1>1, WakeupInvariant, PTL

-----------------------------------------------------------------------------
(* Taking the first element of a concatenation whose left part is not empty. *)
LEMMA HeadTailConcat ==
  ASSUME NEW S, NEW s \in Seq(S), NEW u \in Seq(S), s # <<>>
  PROVE  /\ s \o u # <<>>
         /\ Head(s \o u) = Head(s)
         /\ Tail(s \o u) = Tail(s) \o u
  BY HeadTailAppend, ConcatProperties, HeadTailProperties

(* Appending to a concatenation appends to its right part. *)
LEMMA AppendConcat ==
  ASSUME NEW S, NEW s \in Seq(S), NEW u \in Seq(S), NEW e \in S
  PROVE  s \o Append(u, e) = Append(s \o u, e)
  BY AppendProperties, ConcatProperties

(* dpPendingFunctors(): with the two vectors read as one queue, every step of
   the loop is a step of FunctorQueue or leaves it unchanged: the swap changes
   nothing because vec is empty when it happens. *)
THEOREM FunctorsRefineFIFO == Spec => FunctorsFIFO
<1> USE DEF Queued
<1>1. Init => Abs!AbsInit
  BY DEF Init, Abs!AbsInit
<1>2. TypeOK /\ WakeupInv /\ [Next]_vars => [Abs!AbsNext]_(Abs!absVars)
  <2> SUFFICES ASSUME TypeOK, WakeupInv, [Next]_vars PROVE [Abs!AbsNext]_(Abs!absVars)
    OBVIOUS
  <2> USE DEF Abs!AbsNext, Abs!absVars
  <2> DEFINE Same == UNCHANGED <<batch, pending, running>>
  <2>1. Same => UNCHANGED (Abs!absVars)
    BY DEF Abs!absVars
  <2>2. ASSUME NEW t \in Threads, NEW f \in Functors, QueueInLoop(t, f)
        PROVE  Abs!Post(f)
    BY <2>2, AppendConcat DEF QueueInLoop, Abs!Post, TypeOK
  <2>3. CASE SwapPending
    <3>1. batch = <<>>
      BY <2>3 DEF SwapPending, WakeupInv, BatchOnlyInRun
    <3> QED
      BY <2>3, <3>1 DEF SwapPending, TypeOK
  <2>4. CASE FunctorStarts
    <3>1. running = NoFunctor
      BY <2>4 DEF FunctorStarts, WakeupInv, RunningInFunctor
    <3> QED
      BY <2>4, <3>1, HeadTailConcat DEF FunctorStarts, TypeOK, Abs!Start
  <2>5. CASE FunctorReturns
    BY <2>5 DEF FunctorReturns, WakeupInv, RunningInFunctor, Abs!Finish
  <2>6. ASSUME NEW t \in Threads, Quit(t) \/ WakeUp(t) PROVE Same
    BY <2>6 DEF Quit, WakeUp
  <2>7. ASSUME NEW c \in Channels, CallbackStarts(c) PROVE Same
    BY <2>7 DEF CallbackStarts
  <2>8. ASSUME \/ UNCHANGED vars \/ EnterLoop \/ PollReturns \/ PollTimesOut \/ ResetQuit
               \/ CheckQuit \/ HandleRead \/ CallbackReturns \/ BeginPending \/ EndPending
               \/ LeaveLoop
        PROVE  Same
    BY <2>8 DEF vars, EnterLoop, PollReturns, PollTimesOut, ResetQuit, CheckQuit, HandleRead,
                CallbackReturns, BeginPending, EndPending, LeaveLoop
  <2> QED
    BY <2>1, <2>2, <2>3, <2>4, <2>5, <2>6, <2>7, <2>8 DEF Next, LoopStep
<1> QED
  BY <1>1, <1>2, TypeCorrect, WakeupInvariant, PTL DEF Spec, FunctorsFIFO, Abs!AbsSpec

------------------------------------------------------------------------------
(***************************************************************************)
(* The inductive invariant.  The parts, in the order of the code: what the *)
(* started thread has stored when it is at a place; where the owner can be *)
(* only after the latch is open; that the places of the two threads and of *)
(* the loop agree; and who can have ended the loop.                        *)
(***************************************************************************)
ThreadHasStored ==
    /\ tidSet <=> tpc \notin {"unborn", "born"}
    /\ latch = 0 <=> tpc \notin {"unborn", "born", "count"}
    /\ alive <=> tpc \in {"init", "enter", "loop", "clear", "destruct"}
    /\ loopPtr <=> tpc \in {"enter", "loop", "clear"}

LatchIsOpen == opc \in {"wait", "waitBlocked", "ready", "quit", "join"} => latch = 0

PlacesAgree ==
    /\ opc = "new" => tpc = "unborn"
    /\ tpc = "unborn" => opc \in {"new", "destroyed"}
    /\ opc = "destroyed" => tpc \in {"unborn", "gone"}
    /\ pc # "idle" <=> tpc = "loop"
    /\ opc = "quit" => tpc \in {"enter", "loop"}

\* Without a quit() of its own the loop ends by that of the destructor.
OwnerEndsLoop ==
    ~selfQuit /\ opc \notin {"join", "destroyed"} =>
        /\ ~quit
        /\ tpc \notin {"clear", "destruct", "gone"}

\* A careful owner calls quit() only on a loop that does not quit by itself;
\* and it has seen the loop when it does.
QuitIsCareful == /\ opc = "quit" => ~selfQuit
                 /\ opc \in {"ready", "quit"} /\ ~selfQuit => tpc \in {"enter", "loop"}
                 /\ pc = "leave" => quit

LifeInv == /\ ThreadTypeOK /\ ThreadHasStored /\ LatchIsOpen /\ PlacesAgree
           /\ OwnerEndsLoop /\ QuitIsCareful
-----------------------------------------------------------------------------
(* Every step of the two threads is a step of the loop or leaves it alone. *)
LEMMA LoopStepOrStutter == [ThreadNext]_allVars => [Next]_vars
<1> SUFFICES ASSUME [ThreadNext]_allVars PROVE [Next]_vars
  OBVIOUS
<1>1. CASE UNCHANGED allVars
  BY <1>1 DEF allVars
<1>2. CASE StartThread \/ SpuriousWakeup \/ Destroy \/ LatchWait \/ WaitLoop \/ Join
  BY <1>2 DEF StartThread, SpuriousWakeup, Destroy, LatchWait, WaitLoop, Join
<1>3. CASE StoreTid \/ CountDown \/ ConstructLoop \/ Publish \/ ClearLoop \/ DestructLoop
  BY <1>3 DEF StoreTid, CountDown, ConstructLoop, Publish, ClearLoop, DestructLoop
<1>4. CASE OwnerPosts \/ OwnerWakes \/ DestroyQuits
  BY <1>4, OwnerAssumption DEF OwnerPosts, OwnerWakes, DestroyQuits, Next
<1>5. CASE InitCallback \/ ThreadCalls \/ ThreadWakes
  BY <1>5, LoopThreadAssumption DEF InitCallback, ThreadCalls, ThreadWakes, Next
<1>6. CASE ThreadEnters \/ ThreadLoops \/ ThreadLeaves \/ ThreadPolls
  BY <1>6 DEF ThreadEnters, ThreadLoops, ThreadLeaves, ThreadPolls, LoopStep, Next
<1>7. CASE Terminated
  BY <1>7 DEF Terminated, allVars
<1> QED
  BY <1>1, <1>2, <1>3, <1>4, <1>5, <1>6, <1>7 DEF ThreadNext, OwnerStep, ThreadStep

(* threadFunc(): the EventLoop on the thread's stack, driven by that thread and
   its owner only, does what module EventLoop says. *)
THEOREM ThreadRunsAnEventLoop == ThreadSpec => Spec
<1>1. ThreadInit => Init
  BY DEF ThreadInit
<1> QED
  BY <1>1, LoopStepOrStutter, PTL DEF ThreadSpec, Spec

(* Hence a functor that the owner posts to the loop of startLoop(), and the
   quit() of ~EventLoopThread(), are not left behind in epoll_wait. *)
THEOREM ThreadLosesNoWakeup == ThreadSpec => [](NoLostWakeup /\ NoLostQuit)
BY ThreadRunsAnEventLoop, WakeupNotLost, QuitNotLost, PTL

-----------------------------------------------------------------------------
(* Each step keeps the types of the two threads' state. *)
LEMMA ThreadTypeInductive == ThreadTypeOK /\ ThreadHasStored /\ [ThreadNext]_allVars => ThreadTypeOK'
<1> SUFFICES ASSUME ThreadTypeOK, ThreadHasStored, [ThreadNext]_allVars PROVE ThreadTypeOK'
  OBVIOUS
<1>1. TypeOK'
  BY LoopStepOrStutter, TypeInductive DEF ThreadTypeOK
<1> HIDE DEF TypeOK, vars
<1> USE <1>1 DEF ThreadTypeOK, OwnerPlaces, ThreadPlaces, threadVars
<1>2. CASE UNCHANGED allVars
  BY <1>2 DEF allVars
<1>3. CASE StartThread \/ SpuriousWakeup \/ Destroy \/ LatchWait \/ WaitLoop \/ Join
  BY <1>3 DEF StartThread, SpuriousWakeup, Destroy, LatchWait, WaitLoop, Join
<1>4. CASE CountDown
  BY <1>4 DEF CountDown, ThreadHasStored, Notified
<1>5. CASE StoreTid \/ ConstructLoop \/ Publish \/ ClearLoop \/ DestructLoop
  BY <1>5 DEF StoreTid, ConstructLoop, Publish, ClearLoop, DestructLoop, Notified
<1>6. CASE OwnerPosts \/ OwnerWakes \/ DestroyQuits
  BY <1>6 DEF OwnerPosts, OwnerWakes, DestroyQuits
<1>7. CASE InitCallback \/ ThreadCalls \/ ThreadWakes
  BY <1>7 DEF InitCallback, ThreadCalls, ThreadWakes
<1>8. CASE ThreadEnters \/ ThreadLoops \/ ThreadLeaves \/ ThreadPolls
  BY <1>8 DEF ThreadEnters, ThreadLoops, ThreadLeaves, ThreadPolls
<1>9. CASE Terminated
  BY <1>9 DEF Terminated, allVars
<1> QED
  BY <1>2, <1>3, <1>4, <1>5, <1>6, <1>7, <1>8, <1>9 DEF ThreadNext, OwnerStep, ThreadStep

(* What a step of the loop inside loop() can do to the state this argument is
   about: it stays inside, it does not set _quit, and it goes to the end of
   the while loop only with _quit set. *)
LEMMA LoopStepStaysInside ==
  ASSUME TypeOK, pc # "idle", LoopStep, pc # "leave"
  PROVE  /\ pc' # "idle"
         /\ quit' => quit
         /\ pc' = "leave" => quit'
<1>1. CASE ResetQuit \/ CheckQuit \/ HandleRead \/ CallbackReturns \/ BeginPending
  BY <1>1 DEF ResetQuit, CheckQuit, HandleRead, CallbackReturns, BeginPending
<1>2. CASE SwapPending \/ FunctorStarts \/ FunctorReturns \/ EndPending \/ LeaveLoop
  BY <1>2 DEF SwapPending, FunctorStarts, FunctorReturns, EndPending, LeaveLoop
<1>3. ASSUME NEW c \in Channels, CallbackStarts(c)
      PROVE  pc' # "idle" /\ (quit' => quit) /\ (pc' = "leave" => quit')
  BY <1>3 DEF CallbackStarts
<1> QED
  BY <1>1, <1>2, <1>3 DEF LoopStep

(* With an owner that waits for the loop before it destroys the object, every
   step keeps the invariant. *)
LEMMA LifeInductive == OwnerSyncs /\ LifeInv /\ [ThreadNext]_allVars => LifeInv'
<1> SUFFICES ASSUME OwnerSyncs, LifeInv, [ThreadNext]_allVars PROVE LifeInv'
  OBVIOUS
<1>1. ThreadTypeOK'
  BY ThreadTypeInductive DEF LifeInv
<1>2. TypeOK /\ opc \in OwnerPlaces /\ tpc \in ThreadPlaces /\ latch \in {0, 1}
  BY DEF LifeInv, ThreadTypeOK
<1> USE <1>1, <1>2 DEF LifeInv, ThreadHasStored, LatchIsOpen, PlacesAgree, OwnerEndsLoop, QuitIsCareful,
             OwnerPlaces, ThreadPlaces
<1>3. CASE UNCHANGED allVars
  BY <1>3 DEF allVars, vars, threadVars
<1>4. CASE StartThread
  BY <1>4 DEF StartThread, vars
<1>5. CASE SpuriousWakeup
  BY <1>5 DEF SpuriousWakeup, vars
<1>6. CASE Destroy
  BY <1>6 DEF Destroy, GoodMoment, vars
<1>7. CASE LatchWait
  BY <1>7 DEF LatchWait, vars
<1>8. CASE WaitLoop
  BY <1>8 DEF WaitLoop, vars
<1>9. CASE DestroyQuits
  BY <1>9 DEF DestroyQuits, Quit
<1>10. CASE Join
  BY <1>10 DEF Join, vars
<1>11. CASE OwnerPosts
  BY <1>11 DEF OwnerPosts, QueueInLoop, threadVars
<1>12. CASE OwnerWakes \/ ThreadWakes
  BY <1>12 DEF OwnerWakes, ThreadWakes, WakeUp, threadVars
<1>13. CASE StoreTid
  BY <1>13 DEF StoreTid, vars
<1>14. CASE CountDown
  BY <1>14 DEF CountDown, Notified, vars
<1>15. CASE ConstructLoop
  BY <1>15 DEF ConstructLoop, vars
<1>16. CASE Publish
  BY <1>16 DEF Publish, Notified, vars
<1>17. CASE InitCallback \/ ThreadCalls
  BY <1>17 DEF InitCallback, ThreadCalls, QueueInLoop, Quit, threadVars
<1>18. CASE ThreadEnters
  BY <1>18 DEF ThreadEnters, EnterLoop
<1>19. CASE ThreadLoops
  BY <1>19, LoopStepStaysInside DEF ThreadLoops, threadVars
<1>20. CASE ThreadPolls
  BY <1>20 DEF ThreadPolls, PollReturns, PollTimesOut, threadVars
<1>21. CASE ThreadLeaves
  BY <1>21 DEF ThreadLeaves, LeaveLoop
<1>22. CASE ClearLoop
  BY <1>22 DEF ClearLoop, vars
<1>23. CASE DestructLoop
  BY <1>23 DEF DestructLoop, vars
<1>24. CASE Terminated
  BY <1>24 DEF Terminated, allVars, vars, threadVars
<1> QED
  BY <1>3, <1>4, <1>5, <1>6, <1>7, <1>8, <1>9, <1>10, <1>11, <1>12, <1>13, <1>14, <1>15, <1>16,
     <1>17, <1>18, <1>19, <1>20, <1>21, <1>22, <1>23, <1>24 DEF ThreadNext, OwnerStep, ThreadStep

(* The invariant holds in every reachable state of a program whose owner waits
   for the loop before it destroys the object. *)
THEOREM LifeInvariant == ASSUME OwnerSyncs PROVE ThreadSpec => []LifeInv
<1>1. ThreadInit => LifeInv
  <2> SUFFICES ASSUME ThreadInit PROVE LifeInv
    OBVIOUS
  <2>1. TypeOK
    BY InitTypeOK DEF ThreadInit
  <2>2. ThreadTypeOK
    BY <2>1 DEF ThreadInit, ThreadTypeOK, OwnerPlaces, ThreadPlaces
  <2> QED
    BY <2>2 DEF ThreadInit, Init, LifeInv, ThreadHasStored, LatchIsOpen, PlacesAgree,
                OwnerEndsLoop, QuitIsCareful
<1>2. LifeInv /\ [ThreadNext]_allVars => LifeInv'
  BY LifeInductive
<1> QED
  BY <1>1, <1>2, PTL DEF ThreadSpec

(* startLoop() and ~EventLoopThread() use a loop that exists, and
   Thread::start() returns after the thread has stored its id. *)
THEOREM OwnerAlwaysFindsLoop == ASSUME OwnerSyncs PROVE ThreadSpec => []OwnerFindsLoop
<1>1. LifeInv => OwnerFindsLoop
  BY DEF LifeInv, ThreadTypeOK, ThreadHasStored, LatchIsOpen, PlacesAgree, OwnerEndsLoop,
         QuitIsCareful, OwnerFindsLoop, ThreadPlaces
<1> QED
  BY <1>1, LifeInvariant, PTL

(* ~EventLoopThread(): no member is used after it has returned, because it has
   joined the thread or the thread had ended or was never started. *)
THEOREM DestructorOutlivesThread == ASSUME OwnerSyncs PROVE ThreadSpec => []ThreadGoneAfterDestructor
<1>1. LifeInv => ThreadGoneAfterDestructor
  BY DEF LifeInv, PlacesAgree, ThreadGoneAfterDestructor
<1> QED
  BY <1>1, LifeInvariant, PTL
=============================================================================

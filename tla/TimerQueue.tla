----------------------------- MODULE TimerQueue -----------------------------
(***************************************************************************)
(* net/TimerQueue.cc and net/Timer.cc: the timers of an EventLoop, kept in *)
(* two sets, one ordered by expiration and one that TimerIds are looked up *)
(* in, and a timerfd that wakes the loop at the earliest expiration.       *)
(*                                                                         *)
(* Timers are objects on the heap: an address is used again after delete,  *)
(* and a TimerId (address, sequence) may outlive its timer.  The callbacks *)
(* of expired timers are user code that adds and cancels timers, the timer *)
(* that is running included.  Other threads reach the queue through the    *)
(* loop's functors, the FIFO queue that module EventLoop implements.       *)
(* Time is one clock that advances in ticks.                               *)
(***************************************************************************)
EXTENDS Integers, Sequences, FiniteSets

CONSTANTS Addrs,      \* the addresses the allocator hands out
          OffAdders,  \* threads other than the loop thread that call addTimer()
          OffCancel,  \* other threads call cancleTimer()
          Intervals,  \* the intervals of timers; 0: runs once
          MaxDelay,   \* bound: delay of a new timer
          MaxSeq,     \* bound: timers ever made
          MaxTime,    \* bound: the last tick
          MaxQueue    \* bound: functors in the queue

ASSUME IntervalsAssumption == Intervals \subseteq Nat
ASSUME OffCancelAssumption == OffCancel \in BOOLEAN
ASSUME TimerBoundsAssumption == /\ MaxDelay \in Nat /\ MaxSeq \in Nat
                                /\ MaxTime \in Nat /\ MaxQueue \in Nat

VARIABLES now,        \* Time::now()
          alloc,      \* the addresses of timers that have not been deleted
          mem,        \* the Timer at an address: its last one once it is deleted
          lastSeq,    \* Timer::INDEX
          timers,     \* _timers
          active,     \* _activeTimers
          canceling,  \* _canllingTimers
          calling,    \* _callingExpiredTimer
          pc,         \* the loop thread: "idle", "batch" (in handleRead()), "callback" (in a timer's)
          batch,      \* expired: the addresses of its timers
          torun,      \* those of batch that have not run
          hnow,       \* the local now of handleRead()
          fdAt,       \* when the timerfd fires, or Never
          fdReady,    \* the timerfd has fired and has not been read
          functors,   \* addTimerInLoop() and cancleInLoop() in the loop's queue
          adding,     \* the timer a thread has posted and not yet read the sequence of
          ids,        \* the TimerIds users hold, each with the timer addTimer() made for it
          cancelled,  \* history: the timers whose users cancelled them; not before they were added
          dropped     \* history: the timers that were deleted though they waited or were to repeat

setVars == <<alloc, mem, lastSeq, timers, active>>
batchVars == <<canceling, calling, pc, batch, torun, hnow>>
fdVars == <<fdAt, fdReady>>
historyVars == <<ids, cancelled, dropped>>
vars == <<now, setVars, batchVars, fdVars, functors, adding, historyVars>>

Never == -1
NoAddr == "none"
Ids == Addrs \X (0..MaxSeq)
Handles == [id : Ids, of : 0..MaxSeq]  \* a TimerId and the sequence of the timer it was returned for
TimerObjects == [seq : 0..MaxSeq, when : Nat, every : Nat]

TypeOK == /\ now \in 0..MaxTime
          /\ alloc \subseteq Addrs /\ mem \in [Addrs -> TimerObjects]
          /\ lastSeq \in 0..MaxSeq
          /\ timers \subseteq Nat \X Addrs
          /\ active \subseteq Ids /\ canceling \subseteq Ids
          /\ calling \in BOOLEAN /\ pc \in {"idle", "batch", "callback"}
          /\ batch \subseteq Addrs /\ torun \subseteq batch /\ hnow \in Nat
          /\ fdAt \in Nat \union {Never} /\ fdReady \in BOOLEAN
          /\ functors \in Seq([op : {"add", "cancel"}, id : Ids, of : 0..MaxSeq])
          /\ adding \in [OffAdders -> (Addrs \union {NoAddr}) \X (0..MaxSeq)]
          /\ ids \subseteq Handles
          /\ cancelled \subseteq 0..MaxSeq /\ dropped \subseteq 0..MaxSeq

Init == /\ now = 0
        /\ alloc = {} /\ mem = [a \in Addrs |-> [seq |-> 0, when |-> 0, every |-> 0]]
        /\ lastSeq = 0 /\ timers = {} /\ active = {} /\ canceling = {}
        /\ calling = FALSE /\ pc = "idle" /\ batch = {} /\ torun = {} /\ hnow = 0
        /\ fdAt = Never /\ fdReady = FALSE
        /\ functors = <<>> /\ adding = [u \in OffAdders |-> <<NoAddr, 0>>]
        /\ ids = {} /\ cancelled = {} /\ dropped = {}

-----------------------------------------------------------------------------
Earliest(set) == CHOOSE w \in {e[1] : e \in set} : \A e \in set : w <= e[1]

\* The timers that wait in the functor queue to be added.
ToBeAdded == {functors[i].id : i \in {j \in 1..Len(functors) : functors[j].op = "add"}}

EntryOf(a, m) == <<m[a].when, a>>
IdOf(a, m) == <<a, m[a].seq>>

\* resetTimerFd(): sets the expiration, which forgets one that was not read.
\* An expiration in the past fires at once (after 100 microseconds).
ResetTimerFd(when) == fdAt' = when /\ fdReady' = FALSE

\* new Timer(...): a free address, the next sequence.
NewTimer(a, delay, every) ==
    /\ a \notin alloc /\ lastSeq < MaxSeq
    /\ alloc' = alloc \union {a}
    /\ lastSeq' = lastSeq + 1
    /\ mem' = [mem EXCEPT ![a] = [seq |-> lastSeq + 1, when |-> now + delay, every |-> every]]

\* Mutant: the timerfd is set only when the queue was empty.
AddTimerInLoopMutant(a, m) ==
    /\ timers' = timers \union {EntryOf(a, m)}
    /\ active' = active \union {IdOf(a, m)}
    /\ IF timers = {} THEN ResetTimerFd(m[a].when) ELSE UNCHANGED fdVars

\* addTimerInLoop() and insert() of the timer at address a of memory m.
AddTimerInLoop(a, m) ==
    /\ timers' = timers \union {EntryOf(a, m)}
    /\ active' = active \union {IdOf(a, m)}
    /\ IF timers = {} \/ m[a].when < Earliest(timers)
       THEN ResetTimerFd(m[a].when) ELSE UNCHANGED fdVars

\* The cancels that count: one that comes to the loop before its timer was added is lost.
Cancelled(h) == cancelled \union ({h.of} \ {id[2] : id \in ToBeAdded})

\* Mutant: a cancelled timer is left in _timers.
CancleInLoopMutantEntry(h) ==
    /\ cancelled' = Cancelled(h)
    /\ IF h.id \in active
       THEN /\ active' = active \ {h.id}
            /\ alloc' = alloc \ {h.id[1]}
            /\ dropped' = dropped \union {mem[h.id[1]].seq}
            /\ UNCHANGED <<timers, canceling>>
       ELSE /\ canceling' = IF calling THEN canceling \union {h.id} ELSE canceling
            /\ UNCHANGED <<timers, active, alloc, dropped>>

\* Mutant: a TimerId is looked up by its address alone.
CancleInLoopMutantAddress(h) ==
    /\ cancelled' = Cancelled(h)
    /\ IF \E e \in timers : e[2] = h.id[1]
       THEN /\ timers' = timers \ {EntryOf(h.id[1], mem)}
            /\ active' = active \ {IdOf(h.id[1], mem)}
            /\ alloc' = alloc \ {h.id[1]}
            /\ dropped' = dropped \union {mem[h.id[1]].seq}
            /\ UNCHANGED canceling
       ELSE /\ canceling' = IF calling THEN canceling \union {h.id} ELSE canceling
            /\ UNCHANGED <<timers, active, alloc, dropped>>

\* cancleInLoop(): a timer that waits is deleted at once; one of the batch is
\* remembered for reset(); any other id is ignored.
CancleInLoop(h) ==
    /\ cancelled' = Cancelled(h)
    /\ IF h.id \in active
       THEN /\ timers' = timers \ {EntryOf(h.id[1], mem)}
            /\ active' = active \ {h.id}
            /\ alloc' = alloc \ {h.id[1]}
            /\ dropped' = dropped \union {mem[h.id[1]].seq}
            /\ UNCHANGED canceling
       ELSE /\ canceling' = IF calling THEN canceling \union {h.id} ELSE canceling
            /\ UNCHANGED <<timers, active, alloc, dropped>>

-----------------------------------------------------------------------------
(* User code on the loop thread: timer callbacks, and other code of the loop.*)

UserCode == pc \in {"idle", "callback"}

\* addTimer() on the loop thread
InLoopAdd ==
    /\ UserCode
    /\ \E a \in Addrs, d \in 0..MaxDelay, i \in Intervals :
          /\ NewTimer(a, d, i)
          /\ AddTimerInLoop(a, mem')
          /\ ids' = ids \union {[id |-> IdOf(a, mem'), of |-> mem'[a].seq]}
    /\ UNCHANGED <<now, batchVars, functors, adding, cancelled, dropped>>

\* cancleTimer() on the loop thread, with any TimerId it ever got
InLoopCancel ==
    /\ UserCode
    /\ \E h \in ids : CancleInLoop(h)
    /\ UNCHANGED <<now, mem, lastSeq, calling, pc, batch, torun, hnow, fdVars, functors,
                   adding, ids>>

-----------------------------------------------------------------------------
(* Other threads.                                                          *)

QueueHasRoom == Len(functors) < MaxQueue

\* addTimer(): the new timer is posted to the loop ...
OffLoopAdd(u) ==
    /\ adding[u][1] = NoAddr /\ QueueHasRoom
    /\ \E a \in Addrs, d \in 0..MaxDelay, i \in Intervals :
          /\ NewTimer(a, d, i)
          /\ functors' = Append(functors, [op |-> "add", id |-> IdOf(a, mem'), of |-> mem'[a].seq])
          /\ adding' = [adding EXCEPT ![u] = IdOf(a, mem')]
    /\ UNCHANGED <<now, timers, active, batchVars, fdVars, historyVars>>

\* ... and "timer->sequence()" is read after that: by then the timer may have
\* run and been deleted, and the address may hold another timer.
OffLoopAddReturns(u) ==
    /\ adding[u][1] # NoAddr
    /\ ids' = ids \union {[id |-> IdOf(adding[u][1], mem), of |-> adding[u][2]]}
    /\ adding' = [adding EXCEPT ![u] = <<NoAddr, 0>>]
    /\ UNCHANGED <<now, setVars, batchVars, fdVars, functors, cancelled, dropped>>

\* cancleTimer()
OffLoopCancel ==
    /\ OffCancel /\ QueueHasRoom
    /\ \E h \in ids : functors' = Append(functors, [op |-> "cancel", id |-> h.id, of |-> h.of])
    /\ UNCHANGED <<now, setVars, batchVars, fdVars, adding, historyVars>>

-----------------------------------------------------------------------------
(* The loop thread.                                                        *)

Run(op) == pc = "idle" /\ functors # <<>> /\ Head(functors).op = op

RunAdd ==
    /\ Run("add")
    /\ AddTimerInLoop(Head(functors).id[1], mem)
    /\ functors' = Tail(functors)
    /\ UNCHANGED <<now, alloc, mem, lastSeq, batchVars, adding, historyVars>>

RunCancel ==
    /\ Run("cancel")
    /\ CancleInLoop(Head(functors))
    /\ functors' = Tail(functors)
    /\ UNCHANGED <<now, mem, lastSeq, calling, pc, batch, torun, hnow, fdVars, adding, ids>>

\* getExpired(): the entries that sort before (now, the largest pointer).
Expired == {e \in timers : e[1] <= now}

\* handleRead(): readTimerFd() and getExpired()
HandleReadStarts ==
    /\ pc = "idle" /\ fdReady
    /\ fdReady' = FALSE
    /\ hnow' = now
    /\ batch' = {e[2] : e \in Expired} /\ torun' = batch'
    /\ timers' = timers \ Expired
    /\ active' = active \ {IdOf(a, mem) : a \in batch'}
    /\ calling' = TRUE /\ canceling' = {}
    /\ pc' = "batch"
    /\ UNCHANGED <<now, alloc, mem, lastSeq, fdAt, functors, adding, historyVars>>

\* handleRead(): "it.second->run()", in the order of expiration
TimerStarts ==
    /\ pc = "batch"
    /\ \E a \in torun : /\ \A b \in torun : mem[a].when <= mem[b].when
                        /\ torun' = torun \ {a}
    /\ pc' = "callback"
    /\ UNCHANGED <<now, setVars, canceling, calling, batch, hnow, fdVars, functors, adding,
                   historyVars>>

TimerReturns ==
    /\ pc = "callback"
    /\ pc' = "batch"
    /\ UNCHANGED <<now, setVars, canceling, calling, batch, torun, hnow, fdVars, functors,
                   adding, historyVars>>

\* Mutant: reset() does not look at _canllingTimers.
AgainMutant == {a \in batch : mem[a].every > 0}

\* reset(): the timers of the batch that repeat and were not cancelled.
Again == {a \in batch : mem[a].every > 0 /\ IdOf(a, mem) \notin canceling}

\* Mutant: reset() does not delete the timers that are done.
HandleReadEndsMutantLeak ==
    /\ pc = "batch" /\ torun = {}
    /\ calling' = FALSE
    /\ mem' = [a \in Addrs |-> IF a \in Again THEN [mem[a] EXCEPT !.when = hnow + mem[a].every]
                               ELSE mem[a]]
    /\ timers' = timers \union {EntryOf(a, mem') : a \in Again}
    /\ active' = active \union {IdOf(a, mem) : a \in Again}
    /\ IF timers' # {} THEN ResetTimerFd(Earliest(timers')) ELSE UNCHANGED fdVars
    /\ batch' = {} /\ pc' = "idle"
    /\ UNCHANGED <<now, alloc, lastSeq, canceling, torun, hnow, functors, adding, historyVars>>

\* Mutant: reset() does not set the timerfd again.
HandleReadEndsMutantFd ==
    /\ pc = "batch" /\ torun = {}
    /\ calling' = FALSE
    /\ mem' = [a \in Addrs |-> IF a \in Again THEN [mem[a] EXCEPT !.when = hnow + mem[a].every]
                               ELSE mem[a]]
    /\ alloc' = alloc \ (batch \ Again)
    /\ timers' = timers \union {EntryOf(a, mem') : a \in Again}
    /\ active' = active \union {IdOf(a, mem) : a \in Again}
    /\ batch' = {} /\ pc' = "idle"
    /\ UNCHANGED <<now, lastSeq, canceling, torun, hnow, fdVars, functors, adding, historyVars>>

\* handleRead(): reset() restarts or deletes the timers of the batch and sets the
\* timerfd to the earliest expiration.
HandleReadEnds ==
    /\ pc = "batch" /\ torun = {}
    /\ calling' = FALSE
    /\ mem' = [a \in Addrs |-> IF a \in Again THEN [mem[a] EXCEPT !.when = hnow + mem[a].every]
                               ELSE mem[a]]
    /\ alloc' = alloc \ (batch \ Again)
    /\ dropped' = dropped \union {mem[a].seq : a \in {b \in batch \ Again : mem[b].every > 0}}
    /\ timers' = timers \union {EntryOf(a, mem') : a \in Again}
    /\ active' = active \union {IdOf(a, mem) : a \in Again}
    /\ IF timers' # {} THEN ResetTimerFd(Earliest(timers')) ELSE UNCHANGED fdVars
    /\ batch' = {} /\ pc' = "idle"
    /\ UNCHANGED <<now, lastSeq, canceling, torun, hnow, functors, adding, ids, cancelled>>

-----------------------------------------------------------------------------
(* The kernel.                                                             *)

Tick == /\ now < MaxTime
        /\ now' = now + 1
        /\ UNCHANGED <<setVars, batchVars, fdVars, functors, adding, historyVars>>

\* The timerfd fires once.
TimerFdFires ==
    /\ fdAt # Never /\ now >= fdAt
    /\ fdAt' = Never /\ fdReady' = TRUE
    /\ UNCHANGED <<now, setVars, batchVars, functors, adding, historyVars>>

LoopStep == RunAdd \/ RunCancel \/ TimerStarts \/ TimerReturns \/ HandleReadEnds

Next == \/ InLoopAdd \/ InLoopCancel \/ OffLoopCancel
        \/ \E u \in OffAdders : OffLoopAdd(u) \/ OffLoopAddReturns(u)
        \/ LoopStep \/ HandleReadStarts \/ Tick \/ TimerFdFires

Spec == Init /\ [][Next]_vars

\* Time passes, the timerfd fires, every pass of the loop dispatches it when it
\* is ready and runs the functors, callbacks return.
Fairness == /\ WF_vars(LoopStep) /\ SF_vars(HandleReadStarts)
            /\ WF_vars(Tick) /\ WF_vars(TimerFdFires)

FairSpec == Spec /\ Fairness

-----------------------------------------------------------------------------
(* Properties.                                                             *)

(* "assert(_timers.size() == _activeTimers.size())", and more: the two sets hold
   the same timers, each under the expiration and the sequence it has now.   *)
SetsAgree == /\ timers = {EntryOf(e[2], mem) : e \in timers}
             /\ active = {IdOf(e[2], mem) : e \in timers}

(* Every timer is deleted exactly once and never while it can still be used:
   the timers that exist are those that wait, those of the batch being run and
   those on their way to the loop, and no timer is two of these.            *)
TimersOwnedOnce ==
    LET waiting == {e[2] : e \in timers}
        queued == {id[1] : id \in ToBeAdded} IN
    /\ alloc = waiting \union batch \union queued
    /\ waiting \intersect batch = {}
    /\ (waiting \union batch) \intersect queued = {}

(* addTimerInLoop(), reset(): between two runs of handleRead() the timerfd is
   set for the earliest timer or has fired, whatever was cancelled.         *)
TimerFdArmed ==
    pc = "idle" /\ timers # {} =>
        fdReady \/ (fdAt # Never /\ fdAt <= Earliest(timers))

(* cancle(): a timer that its user cancelled waits no more, and reset() does not put
   it back: from inside a callback, from the batch it expired in, and through
   a TimerId whose timer is gone.  A cancel that overtakes the add of its timer is
   lost in cancleInLoop() and not meant here.                               *)
CancelledStaysCancelled == pc = "idle" => \A id \in active : id[2] \notin cancelled

\* The timers whose sequence addTimer() of another thread has read for that of its own.
Mistaken == {h.id[2] : h \in {g \in ids : g.id[2] # g.of}}

(* cancle(): a timer is only deleted before its time if its own user cancelled it:
   a stale TimerId never deletes the timer that now has its address, at once or in
   reset().  The one way to lose another's timer is the TimerId addTimer() makes when
   it reads timer->sequence() of a timer that is gone.                      *)
CancelHitsItsTimer == dropped \subseteq cancelled \union Mistaken

\* The timer of id waits although its time has come.
Overdue(id) == id \in active /\ mem[id[1]].when <= now

(* A timer whose time has come is taken out to be run, or cancelled.         *)
TimerRuns == \A id \in Ids : Overdue(id) ~> ~Overdue(id)
=============================================================================

---------------------------- MODULE TcpConnection ----------------------------
(***************************************************************************)
(* net/TcpConnection.cc with its channel (net/Chnnel.cc), the channel's    *)
(* registration with epoll (net/Epoller.cc) and the server that owns it    *)
(* (net/TcpServer.cc, removeConnection and the destructor): the life of    *)
(* one accepted connection.                                                *)
(*                                                                         *)
(* Actors: the loop thread of the connection (handlers, functors and user  *)
(* callbacks), other threads that hold a TcpConnectionPtr, the server's    *)
(* thread, the peer and the kernel.  The loop's functor queue is the FIFO  *)
(* queue that module EventLoop implements.                                 *)
(*                                                                         *)
(* A handler of the loop thread is one step.  Other threads see it through *)
(* _state, which they read and write without a lock: their calls are split *)
(* into the test of _state and what follows it.  Between the return of     *)
(* epoll_wait and the dispatch of this channel the callbacks of other      *)
(* channels run; they may call any operation, so _revevts may be stale     *)
(* when it is used.                                                        *)
(***************************************************************************)
EXTENDS Naturals, Sequences, FiniteSets

CONSTANTS OffThreads,   \* threads other than the loop thread that use the connection
          Programs,     \* the programs: the operations each calls on the loop thread and off it
          ServerDies,   \* the TcpServer may be destroyed first
          CallbacksSet, \* the write-complete and high-water callbacks are set
          HighWater,    \* _hightWaterMark
          MaxSend,      \* bound: bytes in one message
          MaxBytes,     \* bound: bytes given to send() in all
          MaxQueue      \* bound: functors user calls may leave in the queue

Ops == {"send", "shutdown", "forceClose", "forceCloseWithDelay", "startRead", "stopRead"}
OffOps == Ops \ {"forceCloseWithDelay"}

ASSUME ProgramsAssumption == Programs \subseteq [inLoop : SUBSET Ops, offLoop : SUBSET OffOps]
ASSUME FlagsAssumption == ServerDies \in BOOLEAN /\ CallbacksSet \in BOOLEAN
ASSUME BoundsAssumption == /\ HighWater \in Nat \ {0} /\ MaxSend \in Nat \ {0}
                           /\ MaxBytes \in Nat /\ MaxQueue \in Nat

VARIABLES program,    \* the program that uses the connection
          state,      \* _state
          events,     \* _chnnel->_events
          flag,       \* _chnnel->_flag; with it whether epoll knows the descriptor
          reading,    \* _reading
          output,     \* _outputBuffer: the bytes, numbered in the order of the calls of send()
          revents,    \* _chnnel->_revevts: what is left to dispatch of it
          functors,   \* the loop's functors that concern the connection
          delayed,    \* a timer of forceCloseWithDelay() is pending
          inServer,   \* TcpServer::_connections has the connection
          removals,   \* removeConnectionInLoop() functors in the server's loop
          holders,    \* the threads of OffThreads that hold a TcpConnectionPtr
          calling,    \* what a thread of OffThreads is calling: it has passed the test of _state
          marked,     \* the threads of OffThreads that have since stored cDisconnecting
          peer,       \* what the peer did last: "open", "fin" or "reset"
          dataIn,     \* received data has not been read
          sockErr,    \* SO_ERROR of the socket is set
          wrShut,     \* shutdownWrite() was called: a FIN is queued behind the data
          sent,       \* the bytes the kernel has taken, in order
          asked       \* history: bytes given to send() that passed its test

connVars == <<state, events, flag, reading, output>>
loopVars == <<revents, functors, delayed>>
refVars == <<inServer, removals, holders, calling, marked>>
sockVars == <<peer, dataIn, sockErr, wrShut, sent>>
steps == <<connVars, loopVars, refVars, sockVars, asked>>  \* what steps change
vars == <<program, steps>>

States == {"Connecting", "Connected", "Disconnecting", "Disconnected"}
Bytes == 1..MaxBytes
Shared == {"established", "destroyed", "forceClose", "writeComplete", "highWater"}
Raw == {"send", "shutdown", "startRead", "stopRead"}
Functor(op) == [op |-> op, data |-> <<>>]

\* A user callback is queued if the user has set it.
Notify(op, q) == IF CallbacksSet THEN Append(q, Functor(op)) ELSE q

(***************************************************************************)
(* The reference count: the server's map, the functors bound to a          *)
(* shared_ptr and the users' pointers.  Functors in Raw hold "this" only.  *)
(***************************************************************************)
SharedQueued == \E i \in 1..Len(functors) : functors[i].op \in Shared
Alive == inServer \/ removals > 0 \/ SharedQueued \/ holders # {}

TypeOK == /\ program \in Programs
          /\ state \in States
          /\ events \subseteq {"read", "write"}
          /\ flag \in {"new", "added", "deleted"}
          /\ reading \in BOOLEAN
          /\ output \in Seq(Bytes)
          /\ revents \subseteq {"ERR", "HUP", "IN", "OUT"}
          /\ functors \in Seq([op : Shared \union Raw, data : Seq(Bytes)])
          /\ delayed \in BOOLEAN /\ inServer \in BOOLEAN
          /\ removals \in Nat
          /\ holders \subseteq OffThreads
          /\ calling \in [OffThreads -> OffOps \union {"nothing"}]
          /\ marked \subseteq OffThreads
          /\ peer \in {"open", "fin", "reset"}
          /\ dataIn \in BOOLEAN /\ sockErr \in BOOLEAN /\ wrShut \in BOOLEAN
          /\ sent \in Seq(Bytes)
          /\ asked \in 0..MaxBytes

\* TcpServer::newConnection() has made the connection and posted
\* connectEstablished() to its loop.
Init == /\ program \in Programs
        /\ state = "Connecting" /\ events = {} /\ flag = "new" /\ reading = TRUE
        /\ output = <<>> /\ revents = {} /\ functors = <<Functor("established")>>
        /\ delayed = FALSE /\ inServer = TRUE /\ removals = 0 /\ holders = {}
        /\ calling = [u \in OffThreads |-> "nothing"] /\ marked = {}
        /\ peer = "open" /\ dataIn = FALSE /\ sockErr = FALSE /\ wrShut = FALSE
        /\ sent = <<>> /\ asked = 0

-----------------------------------------------------------------------------
(* The channel and the kernel.                                             *)

\* Chnnel::update() and Epoller::updateChnnel(): the flag after the channel's
\* events become evts.  A channel that epoll does not know is added even when
\* it has no events.
Updated(evts) == IF flag = "added" /\ evts = {} THEN "deleted" ELSE "added"

SetEvents(evts) == events' = evts /\ flag' = Updated(evts)

\* write() fails with EPIPE or ECONNRESET.
WriteFails == peer = "reset" \/ wrShut

\* How many of n bytes one write() takes; none is EWOULDBLOCK.
Takes(n) == 0..n

After(s, n) == SubSeq(s, n + 1, Len(s))

-----------------------------------------------------------------------------
(* What the operations do on the loop thread.  q is the functor queue they  *)
(* add to.                                                                  *)

\* Mutant: the whole message is appended after a partial write.
SendInLoopMutantWhole(msg, q) ==
    LET direct == "write" \notin events /\ output = <<>> IN
    IF state = "Disconnected" \/ (direct /\ WriteFails)
    THEN functors' = q /\ UNCHANGED <<connVars, sockErr, sent>>
    ELSE \E k \in IF direct THEN Takes(Len(msg)) ELSE {0} :
         LET rest == IF k = Len(msg) THEN <<>> ELSE msg IN
         /\ sent' = sent \o SubSeq(msg, 1, k)
         /\ output' = output \o rest
         /\ functors' = q
         /\ IF rest # <<>> THEN SetEvents(events \union {"write"}) ELSE UNCHANGED <<events, flag>>
         /\ UNCHANGED <<state, reading, sockErr>>

\* Mutant: write() is tried although bytes wait in the buffer.
SendInLoopMutantDirect(msg, q) ==
    IF state = "Disconnected" \/ WriteFails
    THEN functors' = q /\ UNCHANGED <<connVars, sockErr, sent>>
    ELSE \E k \in Takes(Len(msg)) :
         LET rest == After(msg, k) IN
         /\ sent' = sent \o SubSeq(msg, 1, k)
         /\ output' = output \o rest
         /\ functors' = q
         /\ IF rest # <<>> THEN SetEvents(events \union {"write"}) ELSE UNCHANGED <<events, flag>>
         /\ UNCHANGED <<state, reading, sockErr>>

\* Mutant: enableWriting() is forgotten.
SendInLoopMutantInterest(msg, q) ==
    IF state = "Disconnected" \/ WriteFails
    THEN functors' = q /\ UNCHANGED <<connVars, sockErr, sent>>
    ELSE \E k \in IF output = <<>> THEN Takes(Len(msg)) ELSE {0} :
         /\ sent' = sent \o SubSeq(msg, 1, k)
         /\ output' = output \o After(msg, k)
         /\ functors' = q
         /\ UNCHANGED <<events, flag, state, reading, sockErr>>

\* sendInLoop().  write() is tried first when nothing waits to be written;
\* what it does not take is appended to the output buffer.
SendInLoop(msg, q) ==
    LET direct == "write" \notin events /\ output = <<>> IN
    IF state = "Disconnected" \/ (direct /\ WriteFails)
    THEN /\ functors' = q
         /\ sockErr' = IF state = "Disconnected" THEN sockErr ELSE FALSE
         /\ UNCHANGED <<connVars, sent>>
    ELSE \E k \in IF direct THEN Takes(Len(msg)) ELSE {0} :
         LET rest == After(msg, k)
             newLen == Len(output) + Len(rest) IN
         /\ sent' = sent \o SubSeq(msg, 1, k)
         /\ output' = output \o rest
         /\ functors' = IF rest = <<>> THEN Notify("writeComplete", q)
                        ELSE IF newLen >= HighWater /\ Len(output) < HighWater
                        THEN Notify("highWater", q) ELSE q
         /\ IF rest # <<>> /\ "write" \notin events
            THEN SetEvents(events \union {"write"}) ELSE UNCHANGED <<events, flag>>
         /\ UNCHANGED <<state, reading, sockErr>>

\* Mutant: shutdownInLoop() does not look at isWriting().
ShutdownInLoopMutant == wrShut' = TRUE

\* shutdownInLoop(): the write side is shut once nothing waits to be written.
ShutdownInLoop == wrShut' = (wrShut \/ "write" \notin events)

\* handleClose(): diableAll() and, through the close callback,
\* TcpServer::removeConnection().
HandleClose ==
    /\ state' = "Disconnected"
    /\ SetEvents({})
    /\ removals' = removals + 1
    /\ UNCHANGED <<reading, output, inServer, holders, calling, marked>>

StartReadInLoop ==
    /\ IF ~reading \/ "read" \notin events
       THEN SetEvents(events \union {"read"}) /\ reading' = TRUE
       ELSE UNCHANGED <<events, flag, reading>>
    /\ UNCHANGED <<state, output>>

StopReadInLoop ==
    /\ IF reading \/ "read" \in events
       THEN SetEvents(events \ {"read"}) /\ reading' = FALSE
       ELSE UNCHANGED <<events, flag, reading>>
    /\ UNCHANGED <<state, output>>

-----------------------------------------------------------------------------
(* The loop thread: dispatch of the channel (Chnnel::handleEventWithGuard). *)

Hup == peer = "reset" \/ (peer = "fin" /\ wrShut)

\* epoll_wait() reports the channel: what it asked for and is ready, and
\* errors and hangups whether asked for or not.
PollReturns ==
    /\ Alive /\ revents = {} /\ flag = "added"
    /\ LET in == IF "read" \in events /\ (dataIn \/ peer # "open") THEN {"IN"} ELSE {}
           hup == IF Hup THEN {"HUP"} ELSE {}
           err == IF sockErr THEN {"ERR"} ELSE {}
           canOut == IF "write" \in events THEN {"OUT"} ELSE {}
       IN  \E out \in SUBSET canOut : revents' = in \union hup \union err \union out
    /\ revents' # {}
    /\ UNCHANGED <<connVars, functors, delayed, refVars, sockVars, asked>>

\* handleError(): getSocketError() clears the error, which is only logged.
HandleError ==
    /\ Alive /\ "ERR" \in revents
    /\ revents' = revents \ {"ERR"} /\ sockErr' = FALSE
    /\ UNCHANGED <<connVars, functors, delayed, refVars, peer, dataIn, wrShut, sent, asked>>

\* POLLHUP without POLLIN calls handleClose().
HandleHup ==
    /\ Alive /\ "HUP" \in revents /\ "ERR" \notin revents
    /\ revents' = revents \ {"HUP"}
    /\ IF "IN" \in revents THEN UNCHANGED <<connVars, refVars>> ELSE HandleClose
    /\ UNCHANGED <<functors, delayed, sockVars, asked>>

\* Mutant: the end of the stream is taken for an empty message.
HandleReadMutant ==
    /\ Alive /\ "IN" \in revents /\ revents \intersect {"ERR", "HUP"} = {}
    /\ revents' = revents \ {"IN"}
    /\ dataIn' = FALSE
    /\ UNCHANGED <<connVars, functors, delayed, refVars, peer, sockErr, wrShut, sent, asked>>

\* handleRead(): data goes to the message callback; 0 is the end of the
\* stream and closes; an error is only logged.
HandleRead ==
    /\ Alive /\ "IN" \in revents /\ revents \intersect {"ERR", "HUP"} = {}
    /\ revents' = revents \ {"IN"}
    /\ dataIn' = FALSE
    /\ sockErr' = IF dataIn THEN sockErr ELSE FALSE
    /\ IF ~dataIn /\ ~sockErr /\ peer # "open"
       THEN HandleClose ELSE UNCHANGED <<connVars, refVars>>
    /\ UNCHANGED <<functors, delayed, peer, wrShut, sent, asked>>

\* Mutant: handleWrite() forgets the shutdown that waits for it.
HandleWriteMutant ==
    /\ Alive /\ revents = {"OUT"}
    /\ revents' = {}
    /\ \E k \in IF "write" \in events /\ ~WriteFails THEN Takes(Len(output)) ELSE {0} :
       /\ sent' = sent \o SubSeq(output, 1, k)
       /\ output' = After(output, k)
       /\ IF k > 0 /\ k = Len(output)
          THEN SetEvents(events \ {"write"}) ELSE UNCHANGED <<events, flag>>
    /\ UNCHANGED <<state, reading, functors, delayed, refVars, peer, dataIn, sockErr, wrShut, asked>>

\* handleWrite(): the last byte ends the interest in writing and completes a
\* shutdown() that waits for it.
HandleWrite ==
    /\ Alive /\ revents = {"OUT"}
    /\ revents' = {}
    /\ \E k \in IF "write" \in events /\ ~WriteFails THEN Takes(Len(output)) ELSE {0} :
       LET drained == k > 0 /\ k = Len(output) IN
       /\ sent' = sent \o SubSeq(output, 1, k)
       /\ output' = After(output, k)
       /\ IF drained
          THEN /\ SetEvents(events \ {"write"})
               /\ functors' = Notify("writeComplete", functors)
               /\ wrShut' = (wrShut \/ state = "Disconnecting")
          ELSE UNCHANGED <<events, flag, functors, wrShut>>
    /\ sockErr' = IF "write" \in events /\ WriteFails THEN FALSE ELSE sockErr
    /\ UNCHANGED <<state, reading, delayed, refVars, peer, dataIn, asked>>

-----------------------------------------------------------------------------
(* The loop thread: functors.  They run after the dispatch of the events.   *)

Run(op) == Alive /\ revents = {} /\ functors # <<>> /\ Head(functors).op = op
Rest == Tail(functors)

\* connectEstablished()
RunEstablished ==
    /\ Run("established")
    /\ state' = "Connected"
    /\ SetEvents(events \union {"read"})
    /\ functors' = Rest
    /\ UNCHANGED <<reading, output, revents, delayed, refVars, sockVars, asked>>

\* Mutant: conncetDestoryed() without _chnnel->remove().
RunDestroyedMutant ==
    /\ Run("destroyed")
    /\ functors' = Rest
    /\ UNCHANGED <<connVars, revents, delayed, refVars, sockVars, asked>>

\* conncetDestoryed(): diableAll() only when still connected, then
\* Chnnel::remove() and Epoller::removeChnnel().
RunDestroyed ==
    /\ Run("destroyed")
    /\ state' = IF state = "Connected" THEN "Disconnected" ELSE state
    /\ events' = IF state = "Connected" THEN {} ELSE events
    /\ flag' = "new"
    /\ functors' = Rest
    /\ UNCHANGED <<reading, output, revents, delayed, refVars, sockVars, asked>>

\* Mutant: forceCloseInLoop() does not test _state.
RunForceCloseMutant ==
    /\ Run("forceClose")
    /\ HandleClose
    /\ functors' = Rest
    /\ UNCHANGED <<revents, delayed, sockVars, asked>>

\* forceCloseInLoop()
RunForceClose ==
    /\ Run("forceClose")
    /\ IF state \in {"Connected", "Disconnecting"}
       THEN HandleClose ELSE UNCHANGED <<connVars, refVars>>
    /\ functors' = Rest
    /\ UNCHANGED <<revents, delayed, sockVars, asked>>

\* The write-complete and high-water callbacks: user code.
RunCallback ==
    /\ Run("writeComplete") \/ Run("highWater")
    /\ functors' = Rest
    /\ UNCHANGED <<connVars, revents, delayed, refVars, sockVars, asked>>

RunSend ==
    /\ Run("send")
    /\ SendInLoop(Head(functors).data, Rest)
    /\ UNCHANGED <<revents, delayed, refVars, peer, dataIn, wrShut, asked>>

RunShutdown ==
    /\ Run("shutdown")
    /\ ShutdownInLoop
    /\ functors' = Rest
    /\ UNCHANGED <<connVars, revents, delayed, refVars, peer, dataIn, sockErr, sent, asked>>

RunStartStopRead ==
    /\ \/ Run("startRead") /\ StartReadInLoop
       \/ Run("stopRead") /\ StopReadInLoop
    /\ functors' = Rest
    /\ UNCHANGED <<revents, delayed, refVars, sockVars, asked>>

RunFunctor == \/ RunEstablished \/ RunDestroyed \/ RunForceClose \/ RunCallback
              \/ RunSend \/ RunShutdown \/ RunStartStopRead

-----------------------------------------------------------------------------
(* User code on the loop thread: callbacks of this and of other channels.   *)

\* The bound on what user calls leave behind in the two loops.
QueueHasRoom == Len(functors) + removals < MaxQueue

\* Users get the connection from the callback of connectEstablished().
CanCallInLoop(op) == op \in program.inLoop /\ state # "Connecting" /\ Alive /\ QueueHasRoom

\* The next message: its bytes are numbered on from the last one.
NextMessage(n) == [i \in 1..n |-> asked + i]

SendSizes == {n \in 1..MaxSend : asked + n <= MaxBytes}

InLoopSend ==
    /\ CanCallInLoop("send") /\ state = "Connected"
    /\ \E n \in SendSizes : asked' = asked + n /\ SendInLoop(NextMessage(n), functors)
    /\ UNCHANGED <<revents, delayed, refVars, peer, dataIn, wrShut>>

InLoopShutdown ==
    /\ CanCallInLoop("shutdown") /\ state = "Connected"
    /\ state' = "Disconnecting"
    /\ ShutdownInLoop
    /\ UNCHANGED <<events, flag, reading, output, loopVars, refVars, peer, dataIn, sockErr, sent, asked>>

\* forceClose(), called by user code
ForceClose ==
    /\ state \in {"Connected", "Disconnecting"}
    /\ state' = "Disconnecting"
    /\ functors' = Append(functors, Functor("forceClose"))
    /\ UNCHANGED <<events, flag, reading, output, revents, refVars, sockVars, asked>>

InLoopForceClose == CanCallInLoop("forceClose") /\ ForceClose /\ UNCHANGED delayed

\* forceCloseWithDelay(): a timer with a weak pointer; one at a time here.
InLoopForceCloseWithDelay ==
    /\ CanCallInLoop("forceCloseWithDelay") /\ ~delayed
    /\ state \in {"Connected", "Disconnecting"}
    /\ state' = "Disconnecting"
    /\ delayed' = TRUE
    /\ UNCHANGED <<events, flag, reading, output, revents, functors, refVars, sockVars, asked>>

\* The timer fires: WeakCallBack calls forceClose() if the connection exists.
DelayExpires ==
    /\ delayed
    /\ delayed' = FALSE
    /\ IF Alive /\ state \in {"Connected", "Disconnecting"}
       THEN ForceClose
       ELSE UNCHANGED <<connVars, revents, functors, refVars, sockVars, asked>>

InLoopStartStopRead ==
    /\ \/ CanCallInLoop("startRead") /\ StartReadInLoop
       \/ CanCallInLoop("stopRead") /\ StopReadInLoop
    /\ UNCHANGED <<loopVars, refVars, sockVars, asked>>

-----------------------------------------------------------------------------
(* Other threads.                                                          *)

\* A callback hands a TcpConnectionPtr to thread u, or u drops its pointer.
TakePointer(u) ==
    /\ program.offLoop # {} /\ u \notin holders /\ Alive /\ state = "Connected"
    /\ holders' = holders \union {u}
    /\ UNCHANGED <<connVars, loopVars, inServer, removals, calling, marked, sockVars, asked>>

DropPointer(u) ==
    /\ u \in holders /\ calling[u] = "nothing"
    /\ holders' = holders \ {u}
    /\ UNCHANGED <<connVars, loopVars, inServer, removals, calling, marked, sockVars, asked>>

\* The test of _state at the start of an operation.
MayCall(op) == CASE op \in {"send", "shutdown"} -> state = "Connected"
                 [] op = "forceClose" -> state \in {"Connected", "Disconnecting"}
                 [] OTHER -> TRUE

\* The threads that have passed the test of send(): the bound on bytes allows for them.
Senders == Cardinality({u \in OffThreads : calling[u] = "send"})

OffLoopTest(u, op) ==
    /\ op \in program.offLoop /\ u \in holders /\ calling[u] = "nothing"
    /\ QueueHasRoom
    /\ MayCall(op)
    /\ op = "send" => asked + MaxSend * (1 + Senders) <= MaxBytes
    /\ calling' = [calling EXCEPT ![u] = op]
    /\ UNCHANGED <<connVars, loopVars, inServer, removals, holders, marked, sockVars, asked>>

\* shutdown() and forceClose() go on with setState(cDisconnecting) ...
OffLoopMark(u) ==
    /\ calling[u] \in {"shutdown", "forceClose"} /\ u \notin marked
    /\ state' = "Disconnecting"
    /\ marked' = marked \union {u}
    /\ UNCHANGED <<events, flag, reading, output, loopVars, inServer, removals, holders,
                   calling, sockVars, asked>>

\* ... and every operation ends with its functor.
OffLoopPost(u) ==
    /\ calling[u] # "nothing"
    /\ calling[u] \in {"shutdown", "forceClose"} => u \in marked
    /\ calling' = [calling EXCEPT ![u] = "nothing"]
    /\ marked' = marked \ {u}
    /\ IF calling[u] = "send"
       THEN \E n \in SendSizes :
              /\ functors' = Append(functors, [op |-> "send", data |-> NextMessage(n)])
              /\ asked' = asked + n
       ELSE functors' = Append(functors, Functor(calling[u])) /\ UNCHANGED asked
    /\ UNCHANGED <<connVars, revents, delayed, inServer, removals, holders, sockVars>>

-----------------------------------------------------------------------------
(* The server's thread.                                                    *)

\* Mutant: a removal is counted down twice.
RemoveConnectionInLoopMutant ==
    /\ removals > 0
    /\ removals' = removals - 2
    /\ inServer' = FALSE
    /\ functors' = Append(functors, Functor("destroyed"))
    /\ UNCHANGED <<connVars, revents, delayed, holders, calling, marked, sockVars, asked>>

\* removeConnectionInLoop(): the erase, and conncetDestoryed() for the loop.
\* After ~TcpServer() the call is made on a server that is gone; the step is
\* then one of the things it may do.
RemoveConnectionInLoop ==
    /\ removals > 0
    /\ removals' = removals - 1
    /\ inServer' = FALSE
    /\ functors' = Append(functors, Functor("destroyed"))
    /\ UNCHANGED <<connVars, revents, delayed, holders, calling, marked, sockVars, asked>>

\* ~TcpServer(): conncetDestoryed() for every connection it still has.  It runs
\* in the server's loop thread, here after the functors that were queued there.
ServerDestructor ==
    /\ ServerDies /\ inServer /\ removals = 0
    /\ inServer' = FALSE
    /\ functors' = Append(functors, Functor("destroyed"))
    /\ UNCHANGED <<connVars, revents, delayed, removals, holders, calling, marked, sockVars, asked>>

-----------------------------------------------------------------------------
(* The peer.                                                               *)

PeerSends ==
    /\ Alive /\ peer = "open" /\ ~dataIn
    /\ dataIn' = TRUE
    /\ UNCHANGED <<connVars, loopVars, refVars, peer, sockErr, wrShut, sent, asked>>

PeerCloses ==
    /\ Alive /\ peer = "open"
    /\ peer' = "fin"
    /\ UNCHANGED <<connVars, loopVars, refVars, dataIn, sockErr, wrShut, sent, asked>>

PeerResets ==
    /\ Alive /\ peer # "reset"
    /\ peer' = "reset" /\ sockErr' = TRUE
    /\ UNCHANGED <<connVars, loopVars, refVars, dataIn, wrShut, sent, asked>>

-----------------------------------------------------------------------------
Dispatch == HandleError \/ HandleHup \/ HandleRead \/ HandleWrite

\* Nothing more happens to a connection that has been destroyed.
Destroyed == ~Alive /\ UNCHANGED steps

Step == \/ PollReturns \/ Dispatch \/ RunFunctor
        \/ InLoopSend \/ InLoopShutdown \/ InLoopForceClose
        \/ InLoopForceCloseWithDelay \/ InLoopStartStopRead \/ DelayExpires
        \/ \E u \in OffThreads : \/ TakePointer(u) \/ DropPointer(u)
                                 \/ OffLoopMark(u) \/ OffLoopPost(u)
                                 \/ \E op \in Ops : OffLoopTest(u, op)
        \/ RemoveConnectionInLoop \/ ServerDestructor
        \/ PeerSends \/ PeerCloses \/ PeerResets \/ Destroyed

Next == Step /\ UNCHANGED program

Spec == Init /\ [][Next]_vars

\* Every pass of the loop polls, dispatches what is ready and runs the functors
\* it finds (module EventLoop: PostedFunctorStarts); timers fire; the other
\* threads and the server's loop are scheduled.  The peer keeps reading:
\* while bytes wait, the socket is writable again and again and takes some.
Fairness == /\ SF_steps(PollReturns) /\ WF_steps(Dispatch)
            /\ SF_steps(RunFunctor)
            /\ WF_steps(DelayExpires) /\ WF_steps(RemoveConnectionInLoop)
            /\ \A u \in OffThreads : WF_steps(OffLoopMark(u) \/ OffLoopPost(u))
            /\ SF_steps(PollReturns /\ "OUT" \in revents')
            /\ SF_steps(HandleWrite /\ sent' # sent)

FairSpec == Spec /\ Fairness

-----------------------------------------------------------------------------
(* Properties.                                                             *)

(* The interest in writing: while the connection is not closed, the channel
   waits for POLLOUT exactly when bytes wait in the output buffer.  sendInLoop()
   and handleWrite() decide everything by it: a lost interest strands the
   bytes, a left-over one spins the loop.                                   *)
WritingWhileOutput ==
    state \in {"Connected", "Disconnecting"} => ("write" \in events <=> output # <<>>)

(* shutdown(): the FIN is sent only behind the last byte of the buffer.      *)
ShutdownAfterOutput == wrShut => output = <<>>

(* ~TcpConnection(), "assert(_state == cDisconnected)", and ~Chnnel(),
   "assert(!_addedToLoop)": when the last pointer goes, the connection is
   closed and epoll does not know its channel.                              *)
DestroyedWhenClosed == ~Alive => state = "Disconnected" /\ flag = "new"

(* TcpServer::removeConnectionInLoop(), "assert(n == 1)": the close callback
   reaches the server once per connection.                                  *)
RemovedOnce == removals <= 1 /\ (removals = 1 => inServer)

(* handleClose(), "assert(_state == cDisconnecting || _state == cDisconnected)":
   the connection is closed only after this side has asked for it.          *)
CloseAssertion == [][removals' > removals => state \in {"Disconnecting", "Disconnected"}]_vars

\* The message that functor i takes to sendInLoop(); the bytes before it.
Data(i) == functors[i].data
Written == sent \o output

(* send(), sendInLoop(), handleWrite(): with one sender, until the connection
   closes or the peer resets it, what the kernel took, what the output buffer
   holds and what is queued make up, in this order, all that was sent: no byte
   is lost, repeated or overtaken, through partial writes, functors and
   shutdown().                                                              *)
StreamIntact ==
    (peer # "reset" /\ state # "Disconnected") =>
        /\ Len(Written) <= asked /\ \A i \in 1..Len(Written) : Written[i] = i
        /\ UNION {{Data(i)[x] : x \in 1..Len(Data(i))} : i \in 1..Len(functors)}
             = Len(Written) + 1 .. asked
        /\ \A i, j \in 1..Len(functors) : \A x \in 1..Len(Data(i)), y \in 1..Len(Data(j)) :
              i < j \/ (i = j /\ x < y) => Data(i)[x] < Data(j)[y]

(* What the kernel took is a prefix of what was sent, whatever happens.      *)
SentInOrder == \A i \in 1..Len(sent) : sent[i] = i

(* shutdown(): the FIN is sent, or the connection closes.                    *)
ShutdownCompletes == state = "Disconnecting" ~> (wrShut \/ state = "Disconnected")

(* A connection whose peer closes or resets is closed, removed from the server
   and destroyed, unless user code of another thread keeps its pointer.     *)
PeerEndDestroys == peer # "open" ~> (~Alive \/ holders # {})
=============================================================================

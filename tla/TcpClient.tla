------------------------------ MODULE TcpClient ------------------------------
(***************************************************************************)
(* net/TcpClient.cc and net/Connector.cc: a client and the connector that  *)
(* opens its connections, retries with a growing delay and can be stopped. *)
(*                                                                         *)
(* Actors: the loop thread, one user that calls from the loop thread or    *)
(* from another one, and the server.  A handler of the loop thread is one  *)
(* step, but for removeConnection(), which tests _connect and then calls   *)
(* restart(); a call from another thread sets the flags and then posts its *)
(* functor.  The connections themselves are module TcpConnection: here one *)
(* is made, may close at any time, and reports it once.                    *)
(*                                                                         *)
(* A failed assertion, or a call on an object that was deleted, ends the   *)
(* program: fault says which.                                              *)
(***************************************************************************)
EXTENDS Naturals, Sequences, FiniteSets, FiniteSetsExt

CONSTANTS Conns,       \* identities of connections, as many as exist at a time
          NoConn,      \* a null TcpConnectionPtr
          InitDelay,   \* cInitRetryDelayMs
          MaxDelay,    \* cMaxRetryDelayMs
          MaxConnects, \* bound: calls of connect()
          MaxQueue     \* bound: functors the user may leave in the queue

ASSUME ConnsAssumption == NoConn \notin Conns /\ "chnnel" \notin Conns /\ "timers" \notin Conns
ASSUME DelayAssumption == InitDelay \in Nat \ {0} /\ MaxDelay \in Nat /\ InitDelay <= MaxDelay
ASSUME BoundsAssumption == MaxConnects \in Nat /\ MaxQueue \in Nat

VARIABLES k,          \* the Connector
          functors,   \* the loop's functors of the client
          phase,      \* the pass of the loop: "dispatch" of events, then "functors"
          todo,       \* the functors this pass has still to run
          ready,      \* what this pass may dispatch: the channel, connections, the timerfd
          late,       \* this pass has taken a retry that was set in it: it outlasted the delay
          client,     \* the TcpClient: "alive" or "deleted"
          want,       \* TcpClient::_connect
          retry,      \* TcpClient::_retry
          conn,       \* TcpClient::_connection
          live,       \* the connections that have not closed
          held,       \* those user code has a pointer to
          detached,   \* those whose close callback is no longer the client's
          restarting, \* removeConnection() is about to call restart()
          inLoop,     \* the user calls from the loop thread
          call,       \* what the user of another thread is calling: its flags are set
          fault,      \* "none", "assert" or "freed"
          connects,   \* history: calls of connect()
          stopped,    \* history: stop() was called and connect() not since
          careless,   \* history: connect() came after connect() or stop(), the client was deleted
                      \* when it should not be, or stop() of another thread met removeConnection()
          gaveUp      \* history: connect(2) failed with an error that is not retried

loopVars == <<phase, todo, ready, late>>
clientVars == <<client, want, retry, conn, live, held, detached, restarting>>
userVars == <<inLoop, call>>
historyVars == <<connects, stopped, careless, gaveUp>>
vars == <<k, functors, loopVars, clientVars, userVars, fault, historyVars>>

Connectors == [state : {"Disconnected", "Connecting", "Connected"},
               connect : BOOLEAN,                        \* _connect
               chnnel : {"none", "waiting", "removed"},  \* _chnnel: null, enabled, to be reset
               timers : Nat,                             \* pending retries, each holds the Connector
               due : Nat,                                \* those that handleRead() of the timers has taken
               fresh : Nat,                              \* retries set since the poll
               delay : InitDelay..MaxDelay,              \* _retryDelayMs
               failed : BOOLEAN]                         \* an assertion has failed

Functor(op, c) == [op |-> op, conn |-> c]
Raw == {"start", "stop", "reset"}      \* bound to the raw Connector
Functors == [op : Raw, conn : {NoConn}] \union
            [op : {"destroyed", "setCloseCallBack", "forceClose"}, conn : Conns]

TypeOK == /\ k \in Connectors /\ k.due <= k.timers /\ functors \in Seq(Functors)
          /\ phase \in {"dispatch", "functors"} /\ todo \in 0..Len(functors)
          /\ ready \subseteq Conns \union {"chnnel", "timers"} /\ late \in BOOLEAN
          /\ client \in {"alive", "deleted"} /\ want \in BOOLEAN /\ retry \in BOOLEAN
          /\ conn \in Conns \union {NoConn}
          /\ live \subseteq Conns /\ held \subseteq Conns /\ detached \subseteq Conns
          /\ restarting \in BOOLEAN /\ inLoop \in BOOLEAN
          /\ call \in {"nothing", "connect", "stop"}
          /\ fault \in {"none", "assert", "freed"}
          /\ connects \in 0..MaxConnects
          /\ stopped \in BOOLEAN /\ careless \in BOOLEAN /\ gaveUp \in BOOLEAN

Init == /\ k = [state |-> "Disconnected", connect |-> FALSE, chnnel |-> "none",
                timers |-> 0, due |-> 0, fresh |-> 0, delay |-> InitDelay, failed |-> FALSE]
        /\ functors = <<>> /\ phase = "functors" /\ todo = 0 /\ ready = {} /\ late = FALSE
        /\ client = "alive" /\ want = TRUE /\ retry \in BOOLEAN
        /\ conn = NoConn /\ live = {} /\ held = {} /\ detached = {} /\ restarting = FALSE
        /\ inLoop \in BOOLEAN /\ call = "nothing" /\ fault = "none"
        /\ connects = 0 /\ stopped = FALSE /\ careless = FALSE /\ gaveUp = FALSE

-----------------------------------------------------------------------------
(* The Connector: what its methods make of connector c.                     *)

\* Mutant: the retry is not scheduled.
RetryMutantLost(c) == [c EXCEPT !.state = "Disconnected"]

\* retry(): close() and, unless stopped, another startInLoop() after the delay.
Retry(c) == IF c.connect
            THEN [c EXCEPT !.state = "Disconnected", !.timers = @ + 1, !.fresh = @ + 1,
                           !.delay = Min({2 * @, MaxDelay})]
            ELSE [c EXCEPT !.state = "Disconnected"]

\* connecting(): "assert(!_chnnel)", a new channel that waits for writing.
Connecting(c) == [c EXCEPT !.state = "Connecting", !.chnnel = "waiting",
                           !.failed = c.chnnel # "none"]

\* connect(): the ways connect(2) may turn out; an error of the third kind is
\* only logged.
Connect(c) == {Connecting(c), Retry(c), c}

\* startInLoop(), with "assert(_state == cDisconnected)"
StartInLoop(c) == IF c.state # "Disconnected" THEN {[c EXCEPT !.failed = TRUE]}
                  ELSE IF c.connect THEN Connect(c) ELSE {c}

\* removeAndResetChnnel(); its caller queues resetChnnel().
RemoveAndResetChnnel(c) == [c EXCEPT !.chnnel = "removed"]

\* stopInLoop() has something to stop.
StopInLoop(c) == IF c.state = "Connecting" THEN Retry(RemoveAndResetChnnel(c)) ELSE c

ResetChnnel(c) == [c EXCEPT !.chnnel = "none"]

\* Mutant: restart() keeps the state of the last connection.
RestartedMutant(c) == [c EXCEPT !.delay = InitDelay, !.connect = TRUE]

\* restart(): what it sets before startInLoop().
Restarted(c) == [c EXCEPT !.state = "Disconnected", !.delay = InitDelay, !.connect = TRUE]

\* The Connector is shared by the client and the retries.
ConnectorExists == client = "alive" \/ k.timers > 0

\* ~Connector(), when its last owner goes: "assert(!_chnnel)"
DestroyedInUse(c) == client = "deleted" /\ c.timers = 0 /\ c.chnnel # "none"

-----------------------------------------------------------------------------
(* The loop thread.                                                        *)

LoopFree == fault = "none" /\ ~restarting

\* EventLoop::loop(): poll() reports what is ready then, what becomes ready later
\* is for the next pass; after the events the functors queued by then are run.  The
\* timerfd serves all timers of the loop and may be ready at any poll.
Poll == /\ LoopFree /\ phase = "functors" /\ todo = 0
        /\ live # {} \/ k.chnnel = "waiting" \/ k.timers > 0 \/ functors # <<>>
        /\ phase' = "dispatch"
        /\ ready' = live \union {"timers"} \union (IF k.chnnel = "waiting" THEN {"chnnel"} ELSE {})
        /\ k' = [k EXCEPT !.fresh = 0]
        /\ UNCHANGED <<late, functors, todo, clientVars, userVars, fault, historyVars>>

Swap == /\ LoopFree /\ phase = "dispatch" /\ k.due = 0
        /\ phase' = "functors" /\ todo' = Len(functors) /\ ready' = {} /\ late' = FALSE
        /\ UNCHANGED <<k, functors, clientVars, userVars, fault, historyVars>>

Dispatch(e) == /\ LoopFree /\ k.due = 0 /\ e \in ready /\ ready' = ready \ {e}
               /\ UNCHANGED <<phase, todo, late>>

Run(op) == /\ LoopFree /\ todo > 0 /\ Head(functors).op = op
           /\ todo' = todo - 1 /\ UNCHANGED <<phase, ready, late>>
Rest == Tail(functors)

\* A step that leaves the connector as c2.
Becomes(c2) ==
    /\ k' = c2
    /\ fault' = IF c2.failed \/ DestroyedInUse(c2) THEN "assert" ELSE "none"

\* startInLoop() of connector c.
Start(c) == \E c2 \in StartInLoop(c) :
                Becomes(c2) /\ gaveUp' = (gaveUp \/ (c.connect /\ c2 = c))

\* A functor bound to the raw Connector is called.
RunRaw(op, step(_)) ==
    /\ Run(op)
    /\ IF ConnectorExists THEN step(k) ELSE fault' = "freed" /\ UNCHANGED <<k, functors, gaveUp>>
    /\ UNCHANGED <<clientVars, userVars, connects, stopped, careless>>

DoStart(c) == Start(c) /\ functors' = Rest
DoStop(c) == /\ Becomes(StopInLoop(c))
             /\ functors' = IF c.state = "Connecting" THEN Append(Rest, Functor("reset", NoConn))
                            ELSE Rest
             /\ UNCHANGED gaveUp
DoReset(c) == Becomes(ResetChnnel(c)) /\ functors' = Rest /\ UNCHANGED gaveUp

RunStart == RunRaw("start", DoStart)
RunStop == RunRaw("stop", DoStop)
RunReset == RunRaw("reset", DoReset)

\* TimerQueue::handleRead() takes the timers that have expired when it is called, and
\* these may have been set in the same pass if something in it took that long.
TakeExpired ==
    /\ LoopFree /\ "timers" \in ready /\ ready' = ready \ {"timers"}
    /\ \E n \in 0..k.timers : k' = [k EXCEPT !.due = n] /\ late' = (n + k.fresh > k.timers)
    /\ UNCHANGED <<phase, todo, functors, clientVars, userVars, fault, historyVars>>

\* A retry: startInLoop() of a Connector the timer keeps alive till it returns.
RetryTimer ==
    /\ LoopFree /\ k.due > 0
    /\ Start([k EXCEPT !.timers = @ - 1, !.due = @ - 1])
    /\ UNCHANGED <<functors, loopVars, clientVars, userVars, connects, stopped, careless>>

Queued(c) == \E i \in 1..Len(functors) : functors[i].conn = c

\* TcpClient::NewConnection(): the connection is made and established; its
\* callback may keep a pointer.
NewConnection(c) ==
    /\ c \notin live /\ ~Queued(c)
    /\ conn' = c /\ live' = live \union {c} /\ detached' = detached \ {c}
    /\ held' \in {held \ {c}, held \union {c}}

\* handleWrite() of a socket that is connected: the new-connection callback, or
\* close() if the Connector was stopped meanwhile.
HandleWrite ==
    /\ Dispatch("chnnel") /\ k.state = "Connecting"
    /\ functors' = Append(functors, Functor("reset", NoConn))
    /\ k' = [RemoveAndResetChnnel(k) EXCEPT !.state = "Connected"]
    /\ IF k.connect /\ client = "alive"
       THEN (\E c \in Conns : NewConnection(c)) /\ UNCHANGED fault
       ELSE /\ fault' = IF k.connect THEN "freed" ELSE "none"
            /\ UNCHANGED <<conn, live, held, detached>>
    /\ UNCHANGED <<client, want, retry, restarting, userVars, historyVars>>

\* A socket that did not connect: what the handlers make of the Connector and the
\* functors.  Both remove the channel, queue resetChnnel() and retry.
TryAgain(s) == [k |-> Retry(RemoveAndResetChnnel(s.k)),
                functors |-> Append(s.functors, Functor("reset", NoConn))]

HandleError(s) == IF s.k.state = "Connecting" THEN TryAgain(s) ELSE s

\* Mutant: handleWrite() does not look at _state.
HandleWriteFailsMutant(s) == TryAgain(s)

\* handleWrite() with SO_ERROR set or connected to itself, or of an attempt that is over
HandleWriteFails(s) == IF s.k.state = "Connecting" THEN TryAgain(s)
                       ELSE [s EXCEPT !.k.state = "Disconnected"]

\* Chnnel::handleEvent() of the channel: POLLERR, POLLOUT, or the one after the other.
AttemptFails ==
    /\ Dispatch("chnnel")
    /\ LET now == [k |-> k, functors |-> functors] IN
       \E s \in {HandleError(now), HandleWriteFails(now), HandleWriteFails(HandleError(now))} :
           k' = s.k /\ functors' = s.functors
    /\ UNCHANGED <<clientVars, userVars, fault, historyVars>>

\* The close callback of connection c, whose functors are q.  TcpClient's resets
\* _connection, and tests whether to connect again; the free removeConnection()
\* only queues conncetDestoryed().
Close(c, q) ==
    /\ live' = live \ {c}
    /\ functors' = Append(q, Functor("destroyed", c))
    /\ IF c \in detached THEN UNCHANGED <<conn, restarting, fault>>
       ELSE IF client = "deleted" THEN fault' = "freed" /\ UNCHANGED <<conn, restarting>>
       ELSE IF conn # c THEN fault' = "assert" /\ UNCHANGED <<conn, restarting>>
       ELSE conn' = NoConn /\ restarting' = (retry /\ want) /\ UNCHANGED fault
    /\ UNCHANGED <<k, client, want, retry, held, detached, userVars, historyVars>>

\* The peer closes, or shutdown() has done its work: handleClose().
ConnectionCloses(c) == Dispatch(c) /\ Close(c, functors)

\* removeConnection(), after its test
RestartConnector ==
    /\ fault = "none" /\ restarting
    /\ restarting' = FALSE
    /\ Start(Restarted(k))
    /\ UNCHANGED <<functors, loopVars, client, want, retry, conn, live, held, detached, userVars,
                   connects, stopped, careless>>

RunForceClose ==
    /\ Run("forceClose")
    /\ IF Head(functors).conn \in live THEN Close(Head(functors).conn, Rest)
       ELSE functors' = Rest /\ UNCHANGED <<k, clientVars, userVars, fault, historyVars>>

RunSetCloseCallBack ==
    /\ Run("setCloseCallBack")
    /\ detached' = detached \union {Head(functors).conn}
    /\ functors' = Rest
    /\ UNCHANGED <<k, client, want, retry, conn, live, held, restarting, userVars, fault, historyVars>>

\* conncetDestoryed(): module TcpConnection.
RunDestroyed ==
    /\ Run("destroyed")
    /\ functors' = Rest
    /\ UNCHANGED <<k, clientVars, userVars, fault, historyVars>>

-----------------------------------------------------------------------------
(* The user.                                                               *)

UserMayCall == LoopFree /\ client = "alive" /\ call = "nothing" /\ Len(functors) < MaxQueue

Again == connects > 0 \/ stopped

\* connect() and Connector::start() on the loop thread, which runs startInLoop()
\* at once, and stop(), which queues stopInLoop() from every thread.
InLoopConnect ==
    /\ UserMayCall /\ inLoop /\ connects < MaxConnects
    /\ want' = TRUE /\ connects' = connects + 1 /\ stopped' = FALSE
    /\ careless' = (careless \/ Again)
    /\ Start([k EXCEPT !.connect = TRUE])
    /\ UNCHANGED <<functors, loopVars, client, retry, conn, live, held, detached, restarting, userVars>>

\* Mutant: stop() leaves TcpClient::_connect set.
InLoopStopMutant ==
    /\ UserMayCall /\ inLoop
    /\ k' = [k EXCEPT !.connect = FALSE] /\ stopped' = TRUE
    /\ functors' = Append(functors, Functor("stop", NoConn))
    /\ UNCHANGED <<loopVars, clientVars, userVars, fault, connects, careless, gaveUp>>

InLoopStop ==
    /\ UserMayCall /\ inLoop
    /\ want' = FALSE /\ k' = [k EXCEPT !.connect = FALSE] /\ stopped' = TRUE
    /\ functors' = Append(functors, Functor("stop", NoConn))
    /\ UNCHANGED <<loopVars, client, retry, conn, live, held, detached, restarting, userVars, fault,
                   connects, careless, gaveUp>>

\* The same from another thread: the flags first, which the loop thread may read
\* or overwrite before the functor is queued.  The stores to the two _connect are one
\* step: no step of the loop looks at both.
OffLoopCall(op) ==
    /\ fault = "none" /\ ~inLoop /\ client = "alive" /\ call = "nothing"
    /\ Len(functors) < MaxQueue
    /\ op = "connect" => connects < MaxConnects
    /\ call' = op
    /\ want' = (op = "connect") /\ k' = [k EXCEPT !.connect = (op = "connect")]
    /\ connects' = IF op = "connect" THEN connects + 1 ELSE connects
    /\ stopped' = (op = "stop")
    /\ careless' = (careless \/ IF op = "connect" THEN Again ELSE restarting)
    /\ UNCHANGED <<functors, loopVars, client, retry, conn, live, held, detached, restarting, inLoop,
                   fault, gaveUp>>

OffLoopPost ==
    /\ fault = "none" /\ call # "nothing"
    /\ functors' = Append(functors, Functor(IF call = "connect" THEN "start" ELSE "stop", NoConn))
    /\ call' = "nothing"
    /\ UNCHANGED <<loopVars, k, clientVars, inLoop, fault, historyVars>>

\* disconnect(): no more restarts, and shutdown() of the connection.
Disconnect ==
    /\ fault = "none" /\ client = "alive" /\ call = "nothing" /\ (inLoop => ~restarting)
    /\ want /\ want' = FALSE
    /\ UNCHANGED <<loopVars, k, functors, client, retry, conn, live, held, detached, restarting, userVars,
                   fault, historyVars>>

\* User code drops its pointer to connection c.
DropPointer(c) ==
    /\ fault = "none" /\ c \in held
    /\ held' = held \ {c}
    /\ UNCHANGED <<loopVars, k, functors, client, want, retry, conn, live, detached, restarting, userVars,
                   fault, historyVars>>

\* The client is deleted with care: on the loop thread, with a connection, when
\* nothing of the Connector is left to do.
Careful == /\ inLoop /\ conn # NoConn /\ k.chnnel = "none"
           /\ \A i \in 1..Len(functors) : functors[i].op \notin Raw

\* ~TcpClient(), and with it the client's share of the Connector.  With a
\* connection: its close callback is replaced, at once or through the loop, and
\* forceClose() is called if nobody else has it; without: Connector::stop().
Destructor ==
    /\ UserMayCall
    /\ client' = "deleted" /\ conn' = NoConn
    /\ careless' = (careless \/ ~Careful)
    /\ LET close == IF conn \in live /\ conn \notin held THEN <<Functor("forceClose", conn)>> ELSE <<>>
       IN  IF conn = NoConn
           THEN /\ k' = [k EXCEPT !.connect = FALSE]
                /\ functors' = Append(functors, Functor("stop", NoConn))
                /\ UNCHANGED detached
           ELSE /\ IF inLoop
                   THEN detached' = detached \union {conn} /\ functors' = functors \o close
                   ELSE /\ functors' = functors \o <<Functor("setCloseCallBack", conn)>> \o close
                        /\ UNCHANGED detached
                /\ UNCHANGED k
    /\ fault' = IF k.timers = 0 /\ k.chnnel # "none" THEN "assert" ELSE "none"
    /\ UNCHANGED <<loopVars, want, retry, live, held, restarting, userVars, connects, stopped, gaveUp>>

-----------------------------------------------------------------------------
\* Nothing more happens: the program has failed, or the client is gone with all
\* it started, or it rests.
Rests == /\ \/ fault # "none"
            \/ LoopFree /\ functors = <<>> /\ k.timers = 0 /\ k.chnnel # "waiting" /\ live = {}
         /\ UNCHANGED vars

Next == \/ Poll \/ Swap \/ RunStart \/ RunStop \/ RunReset \/ TakeExpired \/ RetryTimer \/ HandleWrite
        \/ AttemptFails
        \/ \E c \in Conns : ConnectionCloses(c) \/ DropPointer(c)
        \/ RestartConnector \/ RunForceClose \/ RunSetCloseCallBack \/ RunDestroyed
        \/ InLoopConnect \/ InLoopStop \/ \E op \in {"connect", "stop"} : OffLoopCall(op)
        \/ OffLoopPost \/ Disconnect \/ Destructor \/ Rests

Spec == Init /\ [][Next]_vars

RunFunctor == RunStart \/ RunStop \/ RunReset \/ RunForceClose \/ RunSetCloseCallBack \/ RunDestroyed

\* The loop runs its functors and timers (module EventLoop), a retry expires in the end, a
\* connection attempt ends one way or the other, and the server does not refuse for ever.
Fairness == /\ WF_vars(Poll \/ Swap \/ RunFunctor \/ RetryTimer)
            /\ WF_vars(RestartConnector) /\ WF_vars(OffLoopPost)
            /\ SF_vars(TakeExpired /\ k'.due > 0)
            /\ SF_vars(RetryTimer /\ k'.chnnel = "waiting") /\ SF_vars(HandleWrite)

FairSpec == Spec /\ Fairness
-----------------------------------------------------------------------------
(* Properties.                                                             *)

(* The assertions of Connector (startInLoop(), connecting(), ~Connector()) and of
   TcpClient::removeConnection() hold, and no functor, timer or callback reaches
   a Connector or a client that was deleted, in a program that calls connect()
   once, not after stop(), deletes the client with care, and whose stop() does not
   come between the test of removeConnection() and its restart(): whatever the order of failures,
   retries, restarts, stop(), closes and functors.  The one exception is "assert(!_chnnel)" of
   connecting(): it fails if a pass of the loop takes longer than the delay of a retry set in it and
   runs that retry too, before resetChnnel().                               *)
CarefulUseIsSafe == ~careless => fault = "none" \/ (fault = "assert" /\ late)

\* The ways to a connection that are under way.
Starts == {i \in 1..Len(functors) : functors[i].op = "start"}
Attempts == Cardinality(Starts) + k.timers + Cardinality(live \ detached)
            + (IF k.chnnel = "waiting" THEN 1 ELSE 0) + (IF restarting THEN 1 ELSE 0)

(* Of one connect(), at most one attempt is ever under way: a start that is
   queued, a connect(2) in progress, a retry that waits, or the connection.
   handleError() and handleWrite() of one event do not retry twice, and stop(),
   retry() and restart() do not start a second chain.                       *)
OneAttempt == ~careless => Attempts <= 1

(* stop() of such a program: once stopInLoop() has run, no connect(2) is in
   progress and none is started, by a pending retry or by the restart of a
   connection that closes.                                                  *)
StoppedStaysStopped ==
    (stopped /\ ~careless /\ call = "nothing" /\ \A i \in 1..Len(functors) : functors[i].op # "stop")
        => k.chnnel # "waiting" /\ ~restarting

\* The client is to have a connection: it has asked for the first one, or lost
\* one and is to connect again.
Wanted == /\ fault = "none" /\ client = "alive" /\ ~careless /\ want /\ k.connect /\ ~gaveUp
          /\ (retry \/ k.state # "Connected")

(* connect() leads to a connection through any number of failures, and with
   enableRetry() a connection that closes is followed by another one, until the
   user stops, disconnects or deletes the client.                           *)
ClientConnects == Wanted ~> (conn # NoConn \/ ~Wanted)
=============================================================================

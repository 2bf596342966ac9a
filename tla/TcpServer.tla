------------------------------ MODULE TcpServer ------------------------------
(***************************************************************************)
(* net/TcpServer.cc, net/Acceptor.cc and net/EventLoopThreadPool.cc: a     *)
(* server that accepts in its own loop and hands the connections to the    *)
(* loops of a pool in turn, while the process has descriptors left.        *)
(*                                                                         *)
(* Actors: the base loop, the loops of the pool, other threads that open   *)
(* and close descriptors, and the clients.  A connection (its details are  *)
(* module TcpConnection) is made in the base loop, lives in the loop it was*)
(* given, and on its way out visits both: the functor queues are FIFO      *)
(* (module EventLoop).  Deleting the server ends the pool's loops, which   *)
(* may leave functors behind.  A failed assertion, or a call on a deleted  *)
(* server, ends the program: fault says which.                             *)
(***************************************************************************)
EXTENDS Naturals, Sequences, FiniteSets

CONSTANTS Clients,    \* the clients, and the connection each may have
          Base,       \* the loop of the server
          PoolLoops,  \* the loops a pool may have, in order
          PoolSizes,  \* the values of setThreadNums()
          MaxFds      \* descriptors the process may have for connections and the reserve

Pool(n) == {PoolLoops[i] : i \in 1..n}
Loops == Pool(Len(PoolLoops)) \union {Base}

ASSUME PoolAssumption == /\ PoolLoops \in Seq(Pool(Len(PoolLoops)))
                         /\ PoolSizes \subseteq 0..Len(PoolLoops) /\ Base \notin Pool(Len(PoolLoops))
ASSUME MaxFdsAssumption == MaxFds \in Nat \ {0}

VARIABLES server,      \* "new", "started" or "deleted"
          num,         \* _numThreads
          next,        \* _next of the pool
          connections, \* _connections
          conn,        \* the connection of a client: "none", "connecting", "connected", "closed"
          loopOf,      \* the loop it was given
          queue,       \* the functors of each loop
          running,     \* the loops that run
          backlog,     \* clients that wait to be accepted
          free,        \* descriptors that are free
          others,      \* other threads open and close descriptors ...
          taken,       \* ... and have this many
          fault,       \* "none", "assert" or "freed"
          careless     \* history: the server was deleted when it should not be

connVars == <<connections, conn, loopOf, queue>>
fdVars == <<free, taken>>
fixed == <<num, others>>
vars == <<server, fixed, next, connVars, running, backlog, fdVars, fault, careless>>

Functors == [op : {"established", "remove", "destroyed"}, client : Clients]
Functor(op, c) == [op |-> op, client |-> c]

TypeOK == /\ server \in {"new", "started", "deleted"}
          /\ num \in PoolSizes /\ next \in 0..num /\ others \in BOOLEAN
          /\ connections \subseteq Clients
          /\ conn \in [Clients -> {"none", "connecting", "connected", "closed"}]
          /\ loopOf \in [Clients -> Loops] /\ queue \in [Loops -> Seq(Functors)]
          /\ running \subseteq Loops /\ backlog \in Seq(Clients)
          /\ free \in 0..MaxFds /\ taken \in 0..MaxFds
          /\ fault \in {"none", "assert", "freed"} /\ careless \in BOOLEAN

\* The Acceptor opens its reserve descriptor _idleFd in the constructor, and closes it in
\* the destructor, with the listening socket: n descriptors were free before.
OpenAcceptor == backlog = <<>> /\ free = MaxFds - 1
CloseAcceptor(n) == backlog' = <<>> /\ free' = n + 1

Init == /\ server = "new" /\ num \in PoolSizes /\ next = 0 /\ others \in BOOLEAN
        /\ connections = {} /\ conn = [c \in Clients |-> "none"]
        /\ loopOf = [c \in Clients |-> Base] /\ queue = [l \in Loops |-> <<>>]
        /\ running = {Base} /\ OpenAcceptor /\ taken = 0
        /\ fault = "none" /\ careless = FALSE

-----------------------------------------------------------------------------
Post(q, l, f) == [q EXCEPT ![l] = Append(@, f)]

\* The base loop is between two handlers; while it deletes the pool it waits.
BaseFree == fault = "none" /\ (server = "deleted" => running = {Base})

\* EventLoopThreadPool::start()
StartPool == running' = Pool(num) \union {Base}

\* start(): the pool's threads are started and the Acceptor listens.
Start ==
    /\ BaseFree /\ server = "new"
    /\ server' = "started"
    /\ StartPool
    /\ UNCHANGED <<fixed, next, connVars, backlog, fdVars, fault, careless>>

\* EventLoopThreadPool::getNextLoop()
GetNextLoop == IF num = 0 THEN Base ELSE PoolLoops[next + 1]
Following == IF num = 0 THEN 0 ELSE (next + 1) % num

\* newConnection(): connectEstablished() runs at once when the base loop has it.
NewConnection(c) ==
    LET l == GetNextLoop IN
    /\ next' = Following
    /\ connections' = connections \union {c}
    /\ loopOf' = [loopOf EXCEPT ![c] = l]
    /\ conn' = [conn EXCEPT ![c] = IF l = Base THEN "connected" ELSE "connecting"]
    /\ queue' = IF l = Base THEN queue ELSE Post(queue, l, Functor("established", c))

Listening == BaseFree /\ server = "started" /\ backlog # <<>>

\* Mutant: accepts only while one more descriptor stays free.
HandleReadMutant ==
    /\ Listening /\ free > 1
    /\ NewConnection(Head(backlog))
    /\ backlog' = Tail(backlog) /\ free' = free - 1
    /\ UNCHANGED <<server, fixed, running, taken, fault, careless>>

\* Acceptor::handleRead(), a descriptor is free
HandleRead ==
    /\ Listening /\ free > 0
    /\ NewConnection(Head(backlog))
    /\ backlog' = Tail(backlog) /\ free' = free - 1
    /\ UNCHANGED <<server, fixed, running, taken, fault, careless>>

\* Acceptor::handleRead(), no descriptor is free: accept() fails.  The reserve is meant
\* for this case, but netlib::accept() calls fcntl(2) on the -1 before it returns, errno
\* is EBADF by then, and the test for EMFILE fails: the error is logged, the client stays
\* in the backlog and the loop polls it again.
HandleReadAtLimit == Listening /\ free = 0 /\ UNCHANGED vars

-----------------------------------------------------------------------------
\* Mutant: the connection leaves the map and is not destroyed.
RemoveConnectionInLoopMutant(c, q) ==
    /\ fault' = "none" /\ connections' = connections \ {c} /\ queue' = q

\* removeConnectionInLoop() on the functors q, with its "assert(n == 1)"; the
\* server it is bound to may be gone.
RemoveConnectionInLoop(c, q) ==
    /\ fault' = IF server = "deleted" THEN "freed"
                ELSE IF c \notin connections THEN "assert" ELSE "none"
    /\ connections' = connections \ {c}
    /\ queue' = Post(q, loopOf[c], Functor("destroyed", c))

LoopFree(l) == fault = "none" /\ l \in running /\ (l = Base => BaseFree)

\* Mutant: POLLIN and POLLHUP of one event both report the close.
ConnectionClosesMutant(c) ==
    /\ conn[c] = "connected" /\ LoopFree(loopOf[c]) /\ loopOf[c] # Base
    /\ conn' = [conn EXCEPT ![c] = "closed"]
    /\ queue' = Post(Post(queue, Base, Functor("remove", c)), Base, Functor("remove", c))
    /\ UNCHANGED <<server, fixed, next, connections, loopOf, running, backlog, fdVars, fault, careless>>

\* TcpConnection::handleClose() and removeConnection(), at once in the base loop.
ConnectionCloses(c) ==
    /\ conn[c] = "connected" /\ LoopFree(loopOf[c])
    /\ conn' = [conn EXCEPT ![c] = "closed"]
    /\ IF loopOf[c] = Base THEN RemoveConnectionInLoop(c, queue)
       ELSE queue' = Post(queue, Base, Functor("remove", c)) /\ UNCHANGED <<connections, fault>>
    /\ UNCHANGED <<server, fixed, next, loopOf, running, backlog, fdVars, careless>>

Run(l, op, c) == LoopFree(l) /\ queue[l] # <<>> /\ Head(queue[l]) = Functor(op, c)
Rest(l) == [queue EXCEPT ![l] = Tail(@)]

\* connectEstablished(), with its assertion
RunEstablished(l, c) ==
    /\ Run(l, "established", c)
    /\ conn' = [conn EXCEPT ![c] = "connected"]
    /\ fault' = IF conn[c] = "connecting" THEN "none" ELSE "assert"
    /\ queue' = Rest(l)
    /\ UNCHANGED <<server, fixed, next, connections, loopOf, running, backlog, fdVars, careless>>

RunRemove(l, c) ==
    /\ Run(l, "remove", c)
    /\ RemoveConnectionInLoop(c, Rest(l))
    /\ UNCHANGED <<server, fixed, next, conn, loopOf, running, backlog, fdVars, careless>>

\* conncetDestoryed(): the functor was the last to hold the connection, which
\* closes its socket.
RunDestroyed(l, c) ==
    /\ Run(l, "destroyed", c)
    /\ conn' = [conn EXCEPT ![c] = "none"] /\ free' = free + 1
    /\ queue' = Rest(l)
    /\ UNCHANGED <<server, fixed, next, connections, loopOf, running, backlog, taken, fault, careless>>

RunFunctor(l) == \E c \in Clients : RunEstablished(l, c) \/ RunRemove(l, c) \/ RunDestroyed(l, c)

-----------------------------------------------------------------------------
\* The server is deleted with care: no connection is left, in the map or in a
\* functor of the pool's loops.
Careful == connections = {} /\ \A l \in Pool(num) : queue[l] = <<>>

\* The orders in which the map may give the connections of S.
Orders(S) == {s \in [1..Cardinality(S) -> S] : \A c \in S : \E i \in DOMAIN s : s[i] = c}

\* ~TcpServer(): conncetDestoryed() for every connection, at once or in its loop;
\* then the members: the pool's threads are told to quit, the Acceptor closes.
Destructor ==
    /\ BaseFree /\ server # "deleted"
    /\ server' = "deleted" /\ careless' = ~Careful
    /\ LET here == {c \in connections : loopOf[c] = Base} IN
       /\ conn' = [c \in Clients |-> IF c \in here THEN "none" ELSE conn[c]]
       /\ CloseAcceptor(free + Cardinality(here))
    /\ \E order \in [Loops -> UNION {Orders(S) : S \in SUBSET connections}] :
         /\ \A l \in Loops : order[l] \in Orders({c \in connections : loopOf[c] = l})
         /\ queue' = [l \in Loops |->
                        IF l = Base THEN queue[l]
                        ELSE queue[l] \o [i \in 1..Len(order[l]) |-> Functor("destroyed", order[l][i])]]
    /\ connections' = {}
    /\ UNCHANGED <<fixed, next, loopOf, running, taken, fault>>

\* A loop of the pool sees quit().  Functors posted after its last swap are never
\* run: the connections in them die with the EventLoop, still registered, which
\* fails the assertions of ~TcpConnection() and ~Chnnel().
LoopQuits(l) ==
    /\ fault = "none" /\ server = "deleted" /\ l \in running \ {Base}
    /\ running' = running \ {l}
    /\ fault' = IF queue[l] = <<>> THEN "none" ELSE "assert"
    /\ UNCHANGED <<server, fixed, next, connVars, backlog, fdVars, careless>>

-----------------------------------------------------------------------------
(* Clients, and other threads of the process.                               *)

Waits(c) == \E i \in 1..Len(backlog) : backlog[i] = c

ClientConnects(c) ==
    /\ fault = "none" /\ server = "started" /\ conn[c] = "none" /\ ~Waits(c)
    /\ backlog' = Append(backlog, c)
    /\ UNCHANGED <<server, fixed, next, connVars, running, fdVars, fault, careless>>

OthersOpen ==
    /\ fault = "none" /\ others /\ free > 0
    /\ free' = free - 1 /\ taken' = taken + 1
    /\ UNCHANGED <<server, fixed, next, connVars, running, backlog, fault, careless>>

OthersClose ==
    /\ fault = "none" /\ taken > 0
    /\ free' = free + 1 /\ taken' = taken - 1
    /\ UNCHANGED <<server, fixed, next, connVars, running, backlog, fault, careless>>

Ended == (fault # "none" \/ (server = "deleted" /\ running = {Base})) /\ UNCHANGED vars

Next == \/ Start \/ HandleRead \/ HandleReadAtLimit
        \/ \E c \in Clients : ConnectionCloses(c) \/ ClientConnects(c)
        \/ \E l \in Loops : RunFunctor(l) \/ LoopQuits(l)
        \/ Destructor \/ OthersOpen \/ OthersClose \/ Ended

Spec == Init /\ [][Next]_vars

\* Every pass of a loop ends with its functors (module EventLoop); epoll reports the
\* listening socket as long as clients wait.
Fairness == /\ WF_vars(HandleRead)
            /\ \A l \in Loops : SF_vars(RunFunctor(l))

FairSpec == Spec /\ Fairness

-----------------------------------------------------------------------------
(* Properties.                                                             *)

(* "assert(n == 1)" of removeConnectionInLoop(), the assertions of
   connectEstablished(), ~TcpConnection() and ~Chnnel() hold, and no close
   callback reaches a deleted server, through every hop of a connection between
   the base loop and its own, as long as the server is deleted only when its
   connections are gone.                                                    *)
ServerIsSafe == ~careless => fault = "none"

(* _connections: a connection that lives is in the map, and one in the map lives
   or its removal is on the way to the base loop.                           *)
MapKnowsConnections ==
    server # "deleted" =>
        /\ \A c \in Clients : conn[c] \in {"connecting", "connected"} => c \in connections
        /\ \A c \in connections : conn[c] = "closed" =>
              Cardinality({i \in 1..Len(queue[Base]) : queue[Base][i] = Functor("remove", c)}) = 1

(* Acceptor::handleRead(): every client that waits is accepted in the end, though the loop
   meets the descriptor limit on the way, if no other thread takes descriptors and those of
   closed connections become free again and again.                          *)
ClientsServed ==
    ~others /\ []<>(free > 0) => \A c \in Clients : Waits(c) ~> (~Waits(c) \/ fault # "none")

(* handleClose(), removeConnectionInLoop(), conncetDestoryed(): a connection that
   closes is destroyed and its descriptor is free again.                    *)
ClosedIsFreed == \A c \in Clients : conn[c] = "closed" ~> (conn[c] = "none" \/ server = "deleted")
=============================================================================

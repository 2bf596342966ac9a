-------------------------- MODULE TcpServerProofs ---------------------------
(***************************************************************************)
(* Proofs about TcpServer for any set of clients, any pool and any number  *)
(* of descriptors.                                                         *)
(***************************************************************************)
EXTENDS TcpServer, FiniteSetTheorems, TLAPS

Queues == [Loops -> Seq(Functors)]
Mine == Pool(num) \union {Base}

(* Functor f waits in loop l; the functors q hold at most one for a client. *)
At(q, l, f) == \E i \in 1..Len(q[l]) : q[l][i] = f
Once(q) == \A l, m \in Loops : \A i \in 1..Len(q[l]) : \A j \in 1..Len(q[m]) :
             q[l][i].client = q[m][j].client => l = m /\ i = j

Types == /\ server \in {"new", "started", "deleted"} /\ fault = "none"
         /\ num \in PoolSizes /\ next \in Nat /\ (num # 0 => next < num)
         /\ connections \subseteq Clients
         /\ conn \in [Clients -> {"none", "connecting", "connected", "closed"}]
         /\ loopOf \in [Clients -> Loops] /\ queue \in Queues
         /\ running \subseteq Mine /\ backlog \in Seq(Clients)

(* What a functor says of its connection: where that is in its life. *)
Means(l, f) ==
  /\ f.op = "established" => conn[f.client] = "connecting" /\ l = loopOf[f.client]
  /\ f.op = "remove" => l = Base /\ conn[f.client] = "closed" /\ f.client \in connections
  /\ f.op = "destroyed" =>
       l = loopOf[f.client] /\ conn[f.client] = "closed" /\ f.client \notin connections

(* While the server lives a connection has at most one functor, anywhere, and
   that one carries it to the next stage of its life. *)
LiveInv == /\ Once(queue)
           /\ \A l \in Loops, f \in Functors : At(queue, l, f) => Means(l, f)
           /\ \A c \in Clients : conn[c] \in {"connecting", "connected"} => c \in connections
           /\ \A c \in connections : conn[c] # "none"
           /\ \A c \in connections : conn[c] = "closed" => At(queue, Base, Functor("remove", c))
           /\ \A i \in 1..Len(backlog) : conn[backlog[i]] = "none"
           /\ \A i, j \in 1..Len(backlog) : backlog[i] = backlog[j] => i = j

(* Of a server deleted with care, only connections that are gone are left, in
   functors of the base loop. *)
GoneInv == /\ \A c \in Clients : conn[c] \in {"none", "closed"}
           /\ \A l \in Pool(num) : queue[l] = <<>>
           /\ \A f \in Functors : At(queue, Base, f) => f.op = "destroyed"

(* Nothing is claimed once the server was deleted under its connections. *)
ServerInv == /\ careless \in BOOLEAN /\ (careless => server = "deleted")
             /\ ~careless => /\ Types
                             /\ server # "deleted" => LiveInv
                             /\ server = "deleted" => GoneInv

-----------------------------------------------------------------------------
(* The functor queues. *)

(* A functor is what Functor() makes. *)
LEMMA FunctorFacts ==
  ASSUME NEW op \in {"established", "remove", "destroyed"}, NEW c \in Clients
  PROVE  Functor(op, c) \in Functors /\ Functor(op, c).op = op /\ Functor(op, c).client = c
BY DEF Functor, Functors

(* queueInLoop() adds one functor, behind the others. *)
LEMMA PostFacts ==
  ASSUME NEW q \in Queues, NEW l \in Loops, NEW f \in Functors
  PROVE  LET p == Post(q, l, f)
         IN  /\ p \in Queues
             /\ \A m \in Loops : m # l => p[m] = q[m]
             /\ \A m \in Loops, g \in Functors : At(p, m, g) <=> At(q, m, g) \/ (m = l /\ g = f)
             /\ Once(q) /\ (\A m \in Loops, g \in Functors : At(q, m, g) => g.client # f.client)
                  => Once(p)
<1> DEFINE p == Post(q, l, f)
<1>1. q[l] \in Seq(Functors)
  BY DEF Queues
<1>2. /\ p \in Queues /\ p[l] = Append(q[l], f) /\ \A m \in Loops : m # l => p[m] = q[m]
  BY <1>1 DEF Queues, Post
<1> HIDE DEF p
<1>3. /\ Len(p[l]) = Len(q[l]) + 1 /\ Len(q[l]) \in Nat /\ p[l][Len(q[l]) + 1] = f
      /\ \A i \in 1..Len(q[l]) : p[l][i] = q[l][i] /\ i \in 1..Len(p[l])
      /\ \A i \in 1..Len(p[l]) : i \in 1..Len(q[l]) \/ i = Len(q[l]) + 1
      /\ Len(q[l]) + 1 \in 1..Len(p[l])
  BY <1>1, <1>2
<1>4. \A m \in Loops, g \in Functors : At(p, m, g) <=> At(q, m, g) \/ (m = l /\ g = f)
  BY <1>2, <1>3 DEF At
<1>5. ASSUME Once(q), \A m \in Loops, g \in Functors : At(q, m, g) => g.client # f.client
      PROVE  Once(p)
  <2>1. \A m \in Loops : \A i \in 1..Len(q[m]) : q[m][i] \in Functors
    BY DEF Queues
  <2>2. \A m \in Loops : \A i \in 1..Len(q[m]) : q[m][i].client # f.client
    BY <1>5, <2>1 DEF At
  <2>3. \A m \in Loops : \A i \in 1..Len(p[m]) :
          (i \in 1..Len(q[m]) /\ p[m][i] = q[m][i]) \/ (m = l /\ i = Len(q[l]) + 1 /\ p[m][i] = f)
    BY <1>2, <1>3
  <2> SUFFICES ASSUME NEW m \in Loops, NEW n \in Loops, NEW i \in 1..Len(p[m]), NEW j \in 1..Len(p[n]),
                      p[m][i].client = p[n][j].client
               PROVE  m = n /\ i = j
    BY DEF Once
  <2>4. CASE i \in 1..Len(q[m]) /\ p[m][i] = q[m][i] /\ j \in 1..Len(q[n]) /\ p[n][j] = q[n][j]
    BY <1>5, <2>4 DEF Once
  <2>5. CASE m = l /\ i = Len(q[l]) + 1 /\ p[m][i] = f
    BY <2>2, <2>3, <2>5, SMTT(30)
  <2>6. CASE n = l /\ j = Len(q[l]) + 1 /\ p[n][j] = f
    BY <2>2, <2>3, <2>6
  <2> QED
    BY <2>3, <2>4, <2>5, <2>6
<1> QED
  BY <1>2, <1>4, <1>5 DEF p

(* doPendingFunctors() takes the first functor of a loop: the only one for its
   connection. *)
LEMMA RestFacts ==
  ASSUME NEW q \in Queues, NEW l \in Loops, q[l] # <<>>
  PROVE  LET r == [q EXCEPT ![l] = Tail(@)]
         IN  /\ r \in Queues /\ Head(q[l]) \in Functors /\ At(q, l, Head(q[l]))
             /\ \A m \in Loops : m # l => r[m] = q[m]
             /\ \A m \in Loops, g \in Functors : At(r, m, g) => At(q, m, g)
             /\ Once(q) => /\ Once(r)
                           /\ \A m \in Loops, g \in Functors :
                                At(r, m, g) <=> At(q, m, g) /\ g.client # Head(q[l]).client
<1> DEFINE r == [q EXCEPT ![l] = Tail(@)]
           h == Head(q[l])
<1>1. q[l] \in Seq(Functors)
  BY DEF Queues
<1>2. /\ r \in Queues /\ r[l] = Tail(q[l]) /\ \A m \in Loops : m # l => r[m] = q[m]
      /\ h \in Functors /\ h = q[l][1] /\ 1 \in 1..Len(q[l])
  BY <1>1 DEF Queues
<1> HIDE DEF r, h
<1>3. /\ \A i \in 1..Len(r[l]) : r[l][i] = q[l][i + 1] /\ i + 1 \in 1..Len(q[l]) /\ i + 1 # 1
      /\ \A i \in 1..Len(q[l]) : i = 1 \/ (i - 1 \in 1..Len(r[l]) /\ (i - 1) + 1 = i)
  BY <1>1, <1>2
<1>4. At(q, l, h)
  BY <1>2 DEF At
<1>5. ASSUME NEW m \in Loops, NEW g \in Functors, At(r, m, g) PROVE At(q, m, g)
  <2>1. PICK i \in 1..Len(r[m]) : r[m][i] = g
    BY <1>5 DEF At
  <2>2. CASE m = l
    <3>1. i + 1 \in 1..Len(q[l]) /\ q[l][i + 1] = g
      BY <1>3, <2>1, <2>2
    <3> QED
      BY <2>2, <3>1 DEF At
  <2>3. CASE m # l
    BY <1>2, <2>1, <2>3 DEF At
  <2> QED
    BY <2>2, <2>3
<1>6. ASSUME Once(q) PROVE Once(r)
  <2> SUFFICES ASSUME NEW m \in Loops, NEW n \in Loops, NEW i \in 1..Len(r[m]), NEW j \in 1..Len(r[n]),
                      r[m][i].client = r[n][j].client
               PROVE  m = n /\ i = j
    BY DEF Once
  <2> DEFINE s == IF m = l THEN i + 1 ELSE i
             t == IF n = l THEN j + 1 ELSE j
  <2>1. s \in 1..Len(q[m]) /\ q[m][s] = r[m][i]
    <3>1. CASE m = l
      BY <1>3, <3>1
    <3>2. CASE m # l
      BY <1>2, <3>2
    <3> QED
      BY <3>1, <3>2
  <2>2. t \in 1..Len(q[n]) /\ q[n][t] = r[n][j]
    <3>1. CASE n = l
      BY <1>3, <3>1
    <3>2. CASE n # l
      BY <1>2, <3>2
    <3> QED
      BY <3>1, <3>2
  <2> HIDE DEF s, t
  <2>3. q[m][s].client = q[n][t].client
    BY <2>1, <2>2
  <2>4. \A a \in 1..Len(q[m]), b \in 1..Len(q[n]) : q[m][a].client = q[n][b].client => m = n /\ a = b
    BY <1>6, Zenon DEF Once
  <2>5. m = n /\ s = t
    BY <2>1, <2>2, <2>3, <2>4, Zenon
  <2>6. i \in Nat /\ j \in Nat
    BY <1>2 DEF Queues
  <2>7. CASE m = l
    BY <2>5, <2>6, <2>7 DEF s, t
  <2>8. CASE m # l
    BY <2>5, <2>8 DEF s, t
  <2> QED
    BY <2>7, <2>8
<1>7. ASSUME Once(q), NEW m \in Loops, NEW g \in Functors, At(r, m, g) PROVE g.client # h.client
  <2>1. PICK i \in 1..Len(r[m]) : r[m][i] = g
    BY <1>7 DEF At
  <2>2. CASE m = l
    <3>1. i + 1 \in 1..Len(q[l]) /\ i + 1 # 1 /\ q[l][i + 1] = g
      BY <1>3, <2>1, <2>2
    <3> QED
      BY <1>2, <1>7, <3>1 DEF Once
  <2>3. CASE m # l
    BY <1>2, <1>7, <2>1, <2>3 DEF Once
  <2> QED
    BY <2>2, <2>3
<1>8. ASSUME NEW m \in Loops, NEW g \in Functors, At(q, m, g), g.client # h.client PROVE At(r, m, g)
  <2>1. PICK i \in 1..Len(q[m]) : q[m][i] = g
    BY <1>8 DEF At
  <2>2. CASE m = l
    <3>1. i # 1
      BY <1>2, <1>8, <2>1, <2>2
    <3>2. i - 1 \in 1..Len(r[l]) /\ r[l][i - 1] = g
      BY <1>3, <2>1, <2>2, <3>1
    <3> QED
      BY <2>2, <3>2 DEF At
  <2>3. CASE m # l
    BY <1>2, <2>1, <2>3 DEF At
  <2> QED
    BY <2>2, <2>3
<1> QED
  BY <1>2, <1>4, <1>5, <1>6, <1>7, <1>8 DEF r, h

-----------------------------------------------------------------------------
(* The steps of a server that lives. *)

(* The loops, and what getNextLoop() gives out. *)
LEMMA LoopFacts ==
  ASSUME Types
  PROVE  /\ Base \in Loops /\ Base \notin Pool(num) /\ Mine \subseteq Loops
         /\ GetNextLoop \in Loops
         /\ Following \in Nat /\ (num # 0 => Following < num)
<1>1. num \in 0..Len(PoolLoops) /\ Len(PoolLoops) \in Nat
  BY PoolAssumption DEF Types
<1>2. Pool(num) \subseteq Pool(Len(PoolLoops))
  <2>1. \A i \in 1..num : i \in 1..Len(PoolLoops)
    BY <1>1
  <2> QED
    BY <2>1 DEF Pool
<1>3. num # 0 => PoolLoops[next + 1] \in Pool(Len(PoolLoops))
  <2>1. num # 0 => next + 1 \in 1..Len(PoolLoops)
    BY <1>1 DEF Types
  <2> QED
    BY <2>1 DEF Pool
<1>4. Following \in Nat /\ (num # 0 => Following < num)
  BY <1>1 DEF Following, Types
<1> QED
  BY <1>2, <1>3, <1>4, PoolAssumption DEF Loops, Mine, GetNextLoop

(* No functor is about a client without a connection or with one that is connected. *)
LEMMA NoFunctor ==
  ASSUME Types, LiveInv, NEW c \in Clients, conn[c] \in {"none", "connected"}
  PROVE  \A l \in Loops, f \in Functors : At(queue, l, f) => f.client # c
<1> SUFFICES ASSUME NEW l \in Loops, NEW f \in Functors, At(queue, l, f), f.client = c
             PROVE  FALSE
  OBVIOUS
<1>1. Means(l, f)
  BY DEF LiveInv
<1>2. f.op \in {"established", "remove", "destroyed"}
  BY DEF Functors
<1> QED
  BY <1>1, <1>2 DEF Means

(* The clients that wait are different, and have no connection yet. *)
LEMMA BacklogFacts ==
  ASSUME Types, LiveInv, backlog # <<>>
  PROVE  LET t == Tail(backlog)
         IN  /\ Head(backlog) \in Clients /\ conn[Head(backlog)] = "none" /\ t \in Seq(Clients)
             /\ \A i \in 1..Len(t) : conn[t[i]] = "none" /\ t[i] # Head(backlog)
             /\ \A i, j \in 1..Len(t) : t[i] = t[j] => i = j
<1> DEFINE t == Tail(backlog)
<1>1. backlog \in Seq(Clients)
  BY DEF Types
<1>2. /\ Head(backlog) = backlog[1] /\ Head(backlog) \in Clients /\ t \in Seq(Clients)
      /\ 1 \in 1..Len(backlog)
      /\ \A i \in 1..Len(t) : t[i] = backlog[i + 1] /\ i + 1 \in 1..Len(backlog) /\ i + 1 # 1 /\ i \in Nat
  BY <1>1
<1> HIDE DEF t
<1>3. conn[Head(backlog)] = "none" /\ \A i \in 1..Len(t) : conn[t[i]] = "none" /\ t[i] # Head(backlog)
  BY <1>2 DEF LiveInv
<1>4. ASSUME NEW i \in 1..Len(t), NEW j \in 1..Len(t), t[i] = t[j] PROVE i = j
  <2>1. i + 1 = j + 1
    BY <1>2, <1>4 DEF LiveInv
  <2> QED
    BY <1>2, <2>1
<1> QED
  BY <1>2, <1>3, <1>4 DEF t

(* Acceptor::handleRead() and newConnection() *)
LEMMA LiveHandleRead ==
  ASSUME Types, LiveInv, HandleRead
  PROVE  Types' /\ LiveInv'
<1> DEFINE c == Head(backlog)
           e == GetNextLoop
           f == Functor("established", c)
<1>1. backlog # <<>> /\ backlog' = Tail(backlog) /\ NewConnection(c)
      /\ UNCHANGED <<server, num, running, fault>>
  BY DEF HandleRead, Listening, BaseFree, fixed
<1>2. /\ c \in Clients /\ conn[c] = "none" /\ backlog' \in Seq(Clients)
      /\ \A i \in 1..Len(backlog') : conn[backlog'[i]] = "none" /\ backlog'[i] # c
      /\ \A i, j \in 1..Len(backlog') : backlog'[i] = backlog'[j] => i = j
  BY <1>1, BacklogFacts, Zenon
<1>3. \A l \in Loops, g \in Functors : At(queue, l, g) => g.client # c
  BY <1>2, NoFunctor
<1>4. e \in Loops /\ f \in Functors /\ f.op = "established" /\ f.client = c
  BY <1>2, LoopFacts, FunctorFacts
<1> HIDE DEF c, e, f
<1>5. /\ next' = Following /\ connections' = connections \union {c}
      /\ loopOf' = [loopOf EXCEPT ![c] = e]
      /\ conn' = [conn EXCEPT ![c] = IF e = Base THEN "connected" ELSE "connecting"]
      /\ queue' = IF e = Base THEN queue ELSE Post(queue, e, f)
  BY <1>1 DEF NewConnection, e, f, c
<1>6. /\ queue' \in Queues /\ Once(queue')
      /\ \A l \in Loops, g \in Functors :
           At(queue', l, g) <=> At(queue, l, g) \/ (e # Base /\ l = e /\ g = f)
  <2>1. queue \in Queues /\ Once(queue)
    BY DEF Types, LiveInv
  <2>2. CASE e = Base
    BY <1>5, <2>1, <2>2
  <2>3. CASE e # Base
    <3>1. queue' = Post(queue, e, f)
      BY <1>5, <2>3
    <3>2. /\ queue' \in Queues
          /\ \A l \in Loops, g \in Functors : At(queue', l, g) <=> At(queue, l, g) \/ (l = e /\ g = f)
          /\ (\A l \in Loops, g \in Functors : At(queue, l, g) => g.client # f.client) => Once(queue')
      BY <1>4, <2>1, <3>1, PostFacts
    <3> QED
      BY <1>3, <1>4, <2>3, <3>2
  <2> QED
    BY <2>2, <2>3
<1>7. /\ conn' \in [Clients -> {"none", "connecting", "connected", "closed"}]
      /\ loopOf' \in [Clients -> Loops] /\ loopOf'[c] = e /\ conn'[c] \in {"connecting", "connected"}
      /\ (e # Base => conn'[c] = "connecting")
      /\ \A d \in Clients : d # c => conn'[d] = conn[d] /\ loopOf'[d] = loopOf[d]
      /\ \A d : d \in connections' <=> d \in connections \/ d = c
  BY <1>2, <1>4, <1>5 DEF Types
<1>8. Types'
  <2>1. next' \in Nat /\ (num' # 0 => next' < num')
    BY <1>1, <1>5, LoopFacts
  <2>2. connections' \subseteq Clients
    BY <1>2, <1>7 DEF Types
  <2> QED
    BY <1>1, <1>2, <1>6, <1>7, <2>1, <2>2 DEF Types, Mine
<1>9. ASSUME NEW l \in Loops, NEW g \in Functors, At(queue', l, g) PROVE Means(l, g)'
  <2>1. CASE At(queue, l, g)
    <3>1. Means(l, g) /\ g.client # c /\ g.client \in Clients
      BY <1>3, <2>1 DEF LiveInv, Functors
    <3> QED
      BY <1>7, <3>1 DEF Means
  <2>2. CASE e # Base /\ l = e /\ g = f
    BY <1>4, <1>7, <2>2 DEF Means
  <2> QED
    BY <1>6, <1>9, <2>1, <2>2
<1>10. ASSUME NEW d \in connections', conn'[d] = "closed" PROVE At(queue', Base, Functor("remove", d))
  <2>1. d # c /\ d \in connections /\ d \in Clients /\ conn[d] = "closed"
    BY <1>7, <1>10 DEF Types
  <2> QED
    BY <1>6, <2>1, LoopFacts, FunctorFacts DEF LiveInv
<1>11. /\ \A d \in Clients : conn'[d] \in {"connecting", "connected"} => d \in connections'
       /\ \A d \in connections' : conn'[d] # "none"
  BY <1>7 DEF LiveInv, Types
<1>12. \A i \in 1..Len(backlog') : conn'[backlog'[i]] = "none"
  <2>1. \A i \in 1..Len(backlog') : backlog'[i] \in Clients
    BY <1>2
  <2> QED
    BY <1>2, <1>7, <2>1
<1> QED
  BY <1>2, <1>6, <1>8, <1>9, <1>10, <1>11, <1>12 DEF LiveInv

(* A step that leaves the connections and their functors alone. *)
LEMMA LiveStill ==
  ASSUME Types, LiveInv, UNCHANGED connVars,
         \A i \in 1..Len(backlog') : conn[backlog'[i]] = "none",
         \A i, j \in 1..Len(backlog') : backlog'[i] = backlog'[j] => i = j
  PROVE  LiveInv'
<1>1. \A l \in Loops, f \in Functors : At(queue', l, f) => Means(l, f)'
  BY DEF LiveInv, connVars, Means
<1> QED
  BY <1>1 DEF LiveInv, connVars

(* A client that connects changes who waits, and no connection. *)
LEMMA LiveClientConnects ==
  ASSUME Types, LiveInv, NEW c \in Clients, ClientConnects(c)
  PROVE  Types' /\ LiveInv'
<1>1. backlog \in Seq(Clients) /\ backlog' = Append(backlog, c) /\ conn[c] = "none"
      /\ \A i \in 1..Len(backlog) : backlog[i] # c
  BY DEF Types, ClientConnects, Waits
<1>2. /\ backlog' \in Seq(Clients) /\ backlog' # <<>>
      /\ \A i \in 1..Len(backlog') : \/ i \in 1..Len(backlog) /\ backlog'[i] = backlog[i]
                                     \/ i = Len(backlog) + 1 /\ backlog'[i] = c
  BY <1>1
<1>3. \A i \in 1..Len(backlog') : conn[backlog'[i]] = "none"
  BY <1>1, <1>2 DEF LiveInv
<1>4. ASSUME NEW i \in 1..Len(backlog'), NEW j \in 1..Len(backlog'), backlog'[i] = backlog'[j]
      PROVE  i = j
  <2>1. CASE i = Len(backlog) + 1 /\ backlog'[i] = c
    BY <1>1, <1>2, <1>4, <2>1
  <2>2. CASE j = Len(backlog) + 1 /\ backlog'[j] = c
    BY <1>1, <1>2, <1>4, <2>2
  <2>3. CASE i \in 1..Len(backlog) /\ backlog'[i] = backlog[i] /\ j \in 1..Len(backlog) /\ backlog'[j] = backlog[j]
    BY <1>4, <2>3 DEF LiveInv
  <2> QED
    BY <1>2, <2>1, <2>2, <2>3
<1>5. LiveInv'
  BY <1>3, <1>4, LiveStill DEF ClientConnects
<1> QED
  BY <1>2, <1>5 DEF Types, ClientConnects, connVars, fdVars, fixed, Mine

(* A step that takes one connection to the next stage of its life. *)
LEMMA LiveMove ==
  ASSUME Types, LiveInv, NEW c \in Clients, conn[c] # "none",
         loopOf' = loopOf, backlog' = backlog, Once(queue'), connections' \subseteq Clients,
         \A l \in Loops, g \in Functors : g.client # c => (At(queue', l, g) <=> At(queue, l, g)),
         \A l \in Loops, g \in Functors : g.client = c /\ At(queue', l, g) => Means(l, g)',
         \A d \in Clients : d # c => conn'[d] = conn[d] /\ (d \in connections' <=> d \in connections),
         conn'[c] \in {"connecting", "connected"} => c \in connections',
         c \in connections' => conn'[c] # "none",
         c \in connections' /\ conn'[c] = "closed" => At(queue', Base, Functor("remove", c))
  PROVE  LiveInv'
<1>1. ASSUME NEW l \in Loops, NEW g \in Functors, At(queue', l, g) PROVE Means(l, g)'
  <2>1. CASE g.client # c
    <3>1. At(queue, l, g) /\ g.client \in Clients
      BY <1>1, <2>1 DEF Functors
    <3>2. Means(l, g)
      BY <3>1 DEF LiveInv
    <3> QED
      BY <2>1, <3>1, <3>2 DEF Means
  <2> QED
    BY <1>1, <2>1
<1>2. \A d \in Clients : conn'[d] \in {"connecting", "connected"} => d \in connections'
  BY DEF LiveInv
<1>3. \A d \in connections' : conn'[d] # "none"
  BY DEF LiveInv
<1>4. ASSUME NEW d \in connections', conn'[d] = "closed" PROVE At(queue', Base, Functor("remove", d))
  <2>1. CASE d # c
    <3>1. d \in Clients /\ d \in connections /\ conn[d] = "closed"
      BY <1>4, <2>1
    <3>2. At(queue, Base, Functor("remove", d))
      BY <3>1 DEF LiveInv
    <3>3. Functor("remove", d) \in Functors /\ Functor("remove", d).client = d
      BY <3>1, FunctorFacts
    <3> QED
      BY <2>1, <3>2, <3>3, LoopFacts
  <2> QED
    BY <1>4, <2>1
<1>5. \A i \in 1..Len(backlog') : conn'[backlog'[i]] = "none"
  <2>1. \A i \in 1..Len(backlog) : backlog[i] \in Clients /\ conn[backlog[i]] = "none"
    BY DEF LiveInv, Types
  <2> QED
    BY <2>1
<1> QED
  BY <1>1, <1>2, <1>3, <1>4, <1>5 DEF LiveInv

(* TcpConnection::handleClose() *)
LEMMA LiveConnectionCloses ==
  ASSUME Types, LiveInv, server # "deleted", NEW c \in Clients, ConnectionCloses(c)
  PROVE  Types' /\ LiveInv'
<1> DEFINE f == Functor(IF loopOf[c] = Base THEN "destroyed" ELSE "remove", c)
<1>1. /\ conn[c] = "connected" /\ c \in connections /\ Base \in Loops
      /\ queue \in Queues /\ Once(queue)
  BY LoopFacts DEF ConnectionCloses, LiveInv, Types
<1>2. /\ conn' = [conn EXCEPT ![c] = "closed"] /\ queue' = Post(queue, Base, f) /\ fault' = "none"
      /\ connections' = IF loopOf[c] = Base THEN connections \ {c} ELSE connections
      /\ UNCHANGED <<server, num, next, loopOf, running, backlog>>
  BY <1>1 DEF ConnectionCloses, RemoveConnectionInLoop, fixed, fdVars, Types
<1>3. f \in Functors /\ f.client = c /\ f.op = IF loopOf[c] = Base THEN "destroyed" ELSE "remove"
  BY FunctorFacts
<1> HIDE DEF f
<1>4. \A l \in Loops, g \in Functors : At(queue, l, g) => g.client # c
  BY <1>1, NoFunctor
<1>5. /\ queue' \in Queues
      /\ \A l \in Loops, g \in Functors : At(queue', l, g) <=> At(queue, l, g) \/ (l = Base /\ g = f)
      /\ (\A l \in Loops, g \in Functors : At(queue, l, g) => g.client # f.client) => Once(queue')
  BY <1>1, <1>2, <1>3, PostFacts
<1>6. Once(queue')
  BY <1>3, <1>4, <1>5
<1>7. /\ conn' \in [Clients -> {"none", "connecting", "connected", "closed"}]
      /\ conn'[c] = "closed" /\ \A d \in Clients : d # c => conn'[d] = conn[d]
      /\ connections' \subseteq Clients
      /\ \A d \in Clients : d # c => (d \in connections' <=> d \in connections)
      /\ (c \in connections' <=> loopOf[c] # Base)
  BY <1>1, <1>2 DEF Types
<1>8. \A l \in Loops, g \in Functors : g.client = c /\ At(queue', l, g) => Means(l, g)'
  <2> SUFFICES ASSUME NEW l \in Loops, NEW g \in Functors, g.client = c, At(queue', l, g)
               PROVE  Means(l, g)'
    OBVIOUS
  <2>1. l = Base /\ g = f
    BY <1>4, <1>5
  <2> QED
    BY <1>2, <1>3, <1>7, <2>1 DEF Means
<1>9. c \in connections' => At(queue', Base, Functor("remove", c))
  BY <1>1, <1>3, <1>5, <1>7 DEF f
<1>10. LiveInv'
  <2>1. \A l \in Loops, g \in Functors : g.client # c => (At(queue', l, g) <=> At(queue, l, g))
    BY <1>3, <1>5
  <2> QED
    BY <1>1, <1>2, <1>6, <1>7, <1>8, <1>9, <2>1, LiveMove
<1> QED
  BY <1>2, <1>5, <1>7, <1>10 DEF Types, Mine

(* The functor a loop takes is the only one for its connection. *)
LEMMA RunFacts ==
  ASSUME Types, LiveInv, NEW l \in Loops, NEW c \in Clients,
         NEW op \in {"established", "remove", "destroyed"}, Run(l, op, c)
  PROVE  /\ Rest(l) \in Queues /\ Once(Rest(l)) /\ Means(l, Functor(op, c))
         /\ \A m \in Loops, g \in Functors : At(Rest(l), m, g) <=> At(queue, m, g) /\ g.client # c
<1>1. queue \in Queues /\ Once(queue) /\ queue[l] # <<>> /\ Head(queue[l]) = Functor(op, c)
  BY DEF Types, LiveInv, Run
<1>2. Functor(op, c) \in Functors /\ Functor(op, c).client = c
  BY FunctorFacts
<1>3. /\ Rest(l) \in Queues /\ At(queue, l, Head(queue[l])) /\ Once(Rest(l))
      /\ \A m \in Loops, g \in Functors :
           At(Rest(l), m, g) <=> At(queue, m, g) /\ g.client # Head(queue[l]).client
  BY <1>1, RestFacts DEF Rest
<1>4. Means(l, Functor(op, c))
  BY <1>1, <1>2, <1>3 DEF LiveInv
<1> QED
  BY <1>1, <1>2, <1>3, <1>4

(* connectEstablished() *)
LEMMA LiveRunEstablished ==
  ASSUME Types, LiveInv, NEW l \in Loops, NEW c \in Clients, RunEstablished(l, c)
  PROVE  Types' /\ LiveInv'
<1>1. /\ Rest(l) \in Queues /\ Once(Rest(l)) /\ Means(l, Functor("established", c))
      /\ \A m \in Loops, g \in Functors : At(Rest(l), m, g) <=> At(queue, m, g) /\ g.client # c
  BY RunFacts DEF RunEstablished
<1>2. conn[c] = "connecting"
  BY <1>1, FunctorFacts DEF Means
<1>3. /\ conn' = [conn EXCEPT ![c] = "connected"] /\ queue' = Rest(l) /\ fault' = "none"
      /\ UNCHANGED <<server, num, next, connections, loopOf, running, backlog>>
  BY <1>2 DEF RunEstablished, fixed, fdVars
<1>4. /\ conn' \in [Clients -> {"none", "connecting", "connected", "closed"}]
      /\ conn'[c] = "connected" /\ \A d \in Clients : d # c => conn'[d] = conn[d]
  BY <1>3 DEF Types
<1>5. c \in connections /\ connections \subseteq Clients
  BY <1>2 DEF LiveInv, Types
<1>6. LiveInv'
  BY <1>1, <1>2, <1>3, <1>4, <1>5, LiveMove
<1> QED
  BY <1>1, <1>3, <1>4, <1>6 DEF Types, Mine

(* conncetDestoryed() *)
LEMMA LiveRunDestroyed ==
  ASSUME Types, LiveInv, NEW l \in Loops, NEW c \in Clients, RunDestroyed(l, c)
  PROVE  Types' /\ LiveInv'
<1>1. /\ Rest(l) \in Queues /\ Once(Rest(l)) /\ Means(l, Functor("destroyed", c))
      /\ \A m \in Loops, g \in Functors : At(Rest(l), m, g) <=> At(queue, m, g) /\ g.client # c
  BY RunFacts DEF RunDestroyed
<1>2. conn[c] = "closed" /\ c \notin connections
  BY <1>1, FunctorFacts DEF Means
<1>3. /\ conn' = [conn EXCEPT ![c] = "none"] /\ queue' = Rest(l)
      /\ UNCHANGED <<server, num, next, connections, loopOf, running, backlog, fault>>
  BY DEF RunDestroyed, fixed
<1>4. /\ conn' \in [Clients -> {"none", "connecting", "connected", "closed"}]
      /\ conn'[c] = "none" /\ \A d \in Clients : d # c => conn'[d] = conn[d]
  BY <1>3 DEF Types
<1>5. connections \subseteq Clients
  BY DEF Types
<1>6. LiveInv'
  BY <1>1, <1>2, <1>3, <1>4, <1>5, LiveMove
<1> QED
  BY <1>1, <1>3, <1>4, <1>6 DEF Types, Mine

(* removeConnectionInLoop(): "assert(n == 1)" holds, for the map has the connection. *)
LEMMA LiveRunRemove ==
  ASSUME Types, LiveInv, server # "deleted", NEW l \in Loops, NEW c \in Clients, RunRemove(l, c)
  PROVE  Types' /\ LiveInv'
<1> DEFINE f == Functor("destroyed", c)
           k == loopOf[c]
           r == Rest(l)
<1>1. /\ r \in Queues /\ Once(r) /\ Means(l, Functor("remove", c))
      /\ \A m \in Loops, g \in Functors : At(r, m, g) <=> At(queue, m, g) /\ g.client # c
  BY RunFacts DEF RunRemove
<1>2. conn[c] = "closed" /\ c \in connections /\ k \in Loops
  BY <1>1, FunctorFacts DEF Means, Types
<1>3. f \in Functors /\ f.client = c /\ f.op = "destroyed"
  BY FunctorFacts
<1>4. /\ connections' = connections \ {c} /\ queue' = Post(r, k, f) /\ fault' = "none"
      /\ UNCHANGED <<server, num, next, conn, loopOf, running, backlog>>
  BY <1>2 DEF RunRemove, RemoveConnectionInLoop, fixed, fdVars
<1> HIDE DEF f, r
<1>5. /\ queue' \in Queues
      /\ \A m \in Loops, g \in Functors : At(queue', m, g) <=> At(r, m, g) \/ (m = k /\ g = f)
      /\ (\A m \in Loops, g \in Functors : At(r, m, g) => g.client # f.client) => Once(queue')
  BY <1>1, <1>2, <1>3, <1>4, PostFacts, ZenonT(40)
<1>6. Once(queue')
  BY <1>1, <1>3, <1>5
<1>7. \A m \in Loops, g \in Functors : g.client # c => (At(queue', m, g) <=> At(queue, m, g))
  BY <1>1, <1>3, <1>5
<1>8. \A m \in Loops, g \in Functors : g.client = c /\ At(queue', m, g) => Means(m, g)'
  <2> SUFFICES ASSUME NEW m \in Loops, NEW g \in Functors, g.client = c, At(queue', m, g)
               PROVE  Means(m, g)'
    OBVIOUS
  <2>1. m = k /\ g = f
    BY <1>1, <1>5
  <2> QED
    BY <1>2, <1>3, <1>4, <2>1 DEF Means
<1>9. connections' \subseteq Clients /\ c \notin connections'
      /\ \A d \in Clients : d # c => (d \in connections' <=> d \in connections)
  BY <1>4 DEF Types
<1>10. LiveInv'
  BY <1>2, <1>4, <1>6, <1>7, <1>8, <1>9, LiveMove
<1> QED
  BY <1>4, <1>5, <1>9, <1>10 DEF Types, Mine

-----------------------------------------------------------------------------
(* The server is deleted with care. *)

(* An empty map gives no connection. *)
LEMMA NoOrder ==
  ASSUME NEW s \in Orders({})
  PROVE  Len(s) = 0
<1>1. Cardinality({}) = 0
  BY FS_EmptySet
<1>2. s \in [1..0 -> {}]
  BY <1>1 DEF Orders
<1>3. DOMAIN s = 1..0 /\ s \in Seq({})
  BY <1>2
<1>4. DOMAIN s = 1..Len(s) /\ Len(s) \in Nat
  BY <1>3
<1> QED
  BY <1>3, <1>4

LEMMA CarefulDestructor ==
  ASSUME Types, LiveInv, Destructor, Careful
  PROVE  Types' /\ GoneInv'
<1>1. /\ server' = "deleted" /\ connections' = {} /\ connections = {} /\ backlog' = <<>>
      /\ UNCHANGED <<num, next, loopOf, running, fault>>
      /\ \A l \in Pool(num) : queue[l] = <<>>
  BY DEF Destructor, BaseFree, Careful, CloseAcceptor, fixed
<1>2. conn' = conn
  <2>1. conn' = [c \in Clients |-> conn[c]]
    BY <1>1 DEF Destructor
  <2> QED
    BY <2>1 DEF Types
<1>3. queue' = queue
  <2>1. PICK order \in [Loops -> UNION {Orders(S) : S \in SUBSET connections}] :
          /\ \A l \in Loops : order[l] \in Orders({c \in connections : loopOf[c] = l})
          /\ queue' = [l \in Loops |->
               IF l = Base THEN queue[l]
               ELSE queue[l] \o [i \in 1..Len(order[l]) |-> Functor("destroyed", order[l][i])]]
    BY DEF Destructor
  <2>2. \A l \in Loops : {c \in connections : loopOf[c] = l} = {}
    BY <1>1
  <2>3. \A l \in Loops : Len(order[l]) = 0
    BY <2>1, <2>2, NoOrder
  <2>4. \A l \in Loops : queue[l] \in Seq(Functors)
    BY DEF Types, Queues
  <2>5. ASSUME NEW l \in Loops PROVE queue'[l] = queue[l]
    <3>1. [i \in 1..Len(order[l]) |-> Functor("destroyed", order[l][i])] = <<>>
      BY <2>3
    <3>2. queue[l] \o <<>> = queue[l]
      BY <2>4
    <3> QED
      BY <2>1, <3>1, <3>2, Zenon
  <2>6. DOMAIN queue' = Loops /\ DOMAIN queue = Loops /\ queue' = [l \in Loops |-> queue'[l]]
    BY <2>1 DEF Types, Queues
  <2> QED
    BY <2>5, <2>6 DEF Types, Queues
<1>4. \A c \in Clients : conn[c] \in {"none", "closed"}
  BY <1>1 DEF LiveInv, Types
<1>5. ASSUME NEW f \in Functors, At(queue, Base, f) PROVE f.op = "destroyed"
  <2>1. Means(Base, f) /\ f.client \in Clients /\ f.op \in {"established", "remove", "destroyed"}
    BY <1>5, LoopFacts DEF LiveInv, Functors
  <2> QED
    BY <1>1, <1>4, <2>1 DEF Means
<1>6. Types'
  <2>1. backlog' \in Seq(Clients)
    BY <1>1
  <2> QED
    BY <1>1, <1>2, <1>3, <2>1 DEF Types, Mine
<1>7. GoneInv'
  BY <1>1, <1>2, <1>3, <1>4, <1>5 DEF GoneInv
<1> QED
  BY <1>6, <1>7

(* The base loop runs what is left; the pool's loops find nothing when they quit. *)
LEMMA GoneRun ==
  ASSUME Types, GoneInv, NEW l \in Loops, NEW c \in Clients,
         NEW op \in {"established", "remove", "destroyed"}, Run(l, op, c)
  PROVE  /\ op = "destroyed" /\ l = Base /\ Rest(l) \in Queues
         /\ \A m \in Pool(num) : Rest(l)[m] = <<>>
         /\ \A f \in Functors : At(Rest(l), Base, f) => At(queue, Base, f)
<1>1. l \in Mine /\ queue \in Queues /\ queue[l] # <<>> /\ Head(queue[l]) = Functor(op, c)
  BY DEF Types, Run, LoopFree
<1>2. l = Base
  BY <1>1 DEF GoneInv, Mine
<1>3. /\ Rest(l) \in Queues /\ At(queue, l, Head(queue[l]))
      /\ \A m \in Loops : m # l => Rest(l)[m] = queue[m]
      /\ \A m \in Loops, f \in Functors : At(Rest(l), m, f) => At(queue, m, f)
  BY <1>1, RestFacts DEF Rest
<1>4. Functor(op, c).op = "destroyed" /\ Functor(op, c).op = op
  BY <1>1, <1>2, <1>3, FunctorFacts DEF GoneInv
<1>5. \A m \in Pool(num) : m \in Loops /\ m # Base
  BY LoopFacts DEF Mine
<1> QED
  BY <1>2, <1>3, <1>4, <1>5 DEF GoneInv

LEMMA GoneNext ==
  ASSUME Types, GoneInv, server = "deleted", [Next]_vars
  PROVE  Types' /\ GoneInv' /\ UNCHANGED server
<1>1. CASE UNCHANGED vars
  BY <1>1 DEF vars, Types, GoneInv, connVars, fixed, fdVars, Mine
<1>2. ASSUME NEW c \in Clients, ConnectionCloses(c) PROVE FALSE
  BY <1>2 DEF ConnectionCloses, GoneInv
<1>3. ASSUME NEW l \in Loops, RunFunctor(l) PROVE Types' /\ GoneInv' /\ UNCHANGED server
  <2>1. PICK c \in Clients : RunEstablished(l, c) \/ RunRemove(l, c) \/ RunDestroyed(l, c)
    BY <1>3 DEF RunFunctor
  <2>2. CASE RunEstablished(l, c)
    BY <2>2, GoneRun DEF RunEstablished
  <2>3. CASE RunRemove(l, c)
    BY <2>3, GoneRun DEF RunRemove
  <2>4. CASE RunDestroyed(l, c)
    <3>1. /\ conn' = [conn EXCEPT ![c] = "none"] /\ queue' = Rest(l)
          /\ UNCHANGED <<server, num, next, connections, loopOf, running, backlog, fault>>
      BY <2>4 DEF RunDestroyed, fixed
    <3>2. /\ Rest(l) \in Queues /\ \A m \in Pool(num) : Rest(l)[m] = <<>>
          /\ \A f \in Functors : At(Rest(l), Base, f) => At(queue, Base, f)
      BY <2>4, GoneRun DEF RunDestroyed
    <3>3. /\ conn' \in [Clients -> {"none", "connecting", "connected", "closed"}]
          /\ \A d \in Clients : conn'[d] \in {"none", "closed"}
      BY <3>1 DEF Types, GoneInv
    <3>4. Types'
      BY <3>1, <3>2, <3>3 DEF Types, Mine
    <3> QED
      BY <3>1, <3>2, <3>3, <3>4 DEF GoneInv
  <2> QED
    BY <2>1, <2>2, <2>3, <2>4
<1>4. ASSUME NEW l \in Loops, LoopQuits(l) PROVE Types' /\ GoneInv' /\ UNCHANGED server
  <2>1. l \in Pool(num)
    BY <1>4 DEF LoopQuits, Types, Mine
  <2> QED
    BY <1>4, <2>1 DEF LoopQuits, Types, GoneInv, connVars, fixed, fdVars, Mine
<1>5. CASE OthersOpen \/ OthersClose
  BY <1>5 DEF OthersOpen, OthersClose, Types, GoneInv, connVars, fixed, Mine
<1>6. CASE Ended
  BY <1>1, <1>6 DEF Ended
<1>7. ~Start /\ ~HandleRead /\ ~HandleReadAtLimit /\ ~Destructor /\ \A c \in Clients : ~ClientConnects(c)
  BY DEF Start, HandleRead, HandleReadAtLimit, Listening, Destructor, ClientConnects
<1> QED
  BY <1>1, <1>2, <1>3, <1>4, <1>5, <1>6, <1>7 DEF Next

-----------------------------------------------------------------------------
(* The theorems. *)

LEMMA LiveNext ==
  ASSUME Types, LiveInv, server # "deleted", careless = FALSE, Next
  PROVE  ServerInv'
<1> DEFINE Lives == Types' /\ LiveInv' /\ server' # "deleted" /\ careless' = FALSE
<1>1. Lives => ServerInv'
  BY DEF ServerInv
<1> HIDE DEF Lives
<1>2. CASE Start
  <2>1. LiveInv'
    BY <1>2, LiveStill DEF Start, LiveInv
  <2>2. Types'
    BY <1>2 DEF Start, StartPool, Types, Mine, connVars, fixed, fdVars
  <2> QED
    BY <1>1, <1>2, <2>1, <2>2 DEF Start, Lives
<1>3. CASE HandleRead
  BY <1>1, <1>3, LiveHandleRead DEF HandleRead, Lives
<1>4. CASE HandleReadAtLimit
  <2>1. UNCHANGED vars
    BY <1>4 DEF HandleReadAtLimit
  <2>2. LiveInv'
    BY <2>1, LiveStill DEF vars, LiveInv
  <2>3. Types'
    BY <2>1 DEF vars, Types, Mine, connVars, fixed
  <2> QED
    BY <1>1, <2>1, <2>2, <2>3 DEF vars, Lives
<1>5. ASSUME NEW c \in Clients, ConnectionCloses(c) PROVE ServerInv'
  BY <1>1, <1>5, LiveConnectionCloses DEF ConnectionCloses, Lives
<1>6. ASSUME NEW c \in Clients, ClientConnects(c) PROVE ServerInv'
  BY <1>1, <1>6, LiveClientConnects DEF ClientConnects, Lives
<1>7. ASSUME NEW l \in Loops, RunFunctor(l) PROVE ServerInv'
  <2>1. PICK c \in Clients : RunEstablished(l, c) \/ RunRemove(l, c) \/ RunDestroyed(l, c)
    BY <1>7 DEF RunFunctor
  <2>2. CASE RunEstablished(l, c)
    BY <1>1, <2>2, LiveRunEstablished DEF RunEstablished, Lives
  <2>3. CASE RunRemove(l, c)
    BY <1>1, <2>3, LiveRunRemove DEF RunRemove, Lives
  <2>4. CASE RunDestroyed(l, c)
    BY <1>1, <2>4, LiveRunDestroyed DEF RunDestroyed, Lives
  <2> QED
    BY <2>1, <2>2, <2>3, <2>4
<1>8. \A l \in Loops : ~LoopQuits(l)
  BY DEF LoopQuits
<1>9. CASE Destructor
  <2>1. server' = "deleted" /\ (Careful => careless' = FALSE) /\ (~Careful => careless' = TRUE)
    BY <1>9 DEF Destructor, Careful
  <2>2. CASE Careful
    BY <1>9, <2>1, <2>2, CarefulDestructor DEF ServerInv
  <2>3. CASE ~Careful
    BY <2>1, <2>3 DEF ServerInv
  <2> QED
    BY <2>2, <2>3
<1>10. CASE OthersOpen \/ OthersClose
  <2>1. UNCHANGED <<connVars, backlog, server, careless>>
    BY <1>10 DEF OthersOpen, OthersClose
  <2>2. LiveInv'
    BY <2>1, LiveStill DEF LiveInv
  <2>3. Types'
    BY <1>10 DEF OthersOpen, OthersClose, Types, Mine, connVars, fixed
  <2> QED
    BY <1>1, <2>1, <2>2, <2>3 DEF Lives
<1>11. ~Ended
  BY DEF Ended, Types
<1> QED
  BY <1>2, <1>3, <1>4, <1>5, <1>6, <1>7, <1>8, <1>9, <1>10, <1>11 DEF Next

LEMMA InitServerInv == Init => ServerInv
<1> SUFFICES ASSUME Init PROVE ServerInv
  OBVIOUS
<1>1. Base \in Loops /\ Base \in Mine
  BY DEF Loops, Mine
<1>2. <<>> \in Seq(Functors) /\ <<>> \in Seq(Clients) /\ Len(<<>>) = 0
  OBVIOUS
<1>3. queue \in Queues /\ \A l \in Loops : queue[l] = <<>>
  BY <1>2 DEF Init, Queues
<1>4. /\ num \in PoolSizes /\ num \in Nat
      /\ conn \in [Clients -> {"none", "connecting", "connected", "closed"}]
      /\ \A c \in Clients : conn[c] = "none"
  BY PoolAssumption DEF Init
<1>5. Types
  BY <1>1, <1>2, <1>3, <1>4 DEF Init, OpenAcceptor, Types
<1>6. \A l \in Loops : 1..Len(queue[l]) = {}
  BY <1>2, <1>3
<1>7. LiveInv
  <2>1. Once(queue) /\ \A l \in Loops, f \in Functors : ~At(queue, l, f)
    BY <1>6 DEF Once, At
  <2>2. backlog = <<>> /\ connections = {} /\ 1..Len(backlog) = {}
    BY <1>2 DEF Init, OpenAcceptor
  <2> QED
    BY <1>4, <2>1, <2>2 DEF LiveInv
<1> QED
  BY <1>5, <1>7 DEF Init, ServerInv

LEMMA ServerInductive == ServerInv /\ [Next]_vars => ServerInv'
<1> SUFFICES ASSUME ServerInv, [Next]_vars PROVE ServerInv'
  OBVIOUS
<1>1. CASE careless
  <2>1. server = "deleted"
    BY <1>1 DEF ServerInv
  <2>2. server' = "deleted" /\ careless' = careless
    <3>1. ~Start /\ ~Destructor
      BY <2>1 DEF Start, Destructor
    <3>2. CASE UNCHANGED vars
      BY <2>1, <3>2 DEF vars
    <3>3. ASSUME NEW c \in Clients, ConnectionCloses(c) \/ ClientConnects(c)
          PROVE  server' = server /\ careless' = careless
      BY <3>3 DEF ConnectionCloses, ClientConnects
    <3>4. ASSUME NEW l \in Loops, RunFunctor(l) \/ LoopQuits(l)
          PROVE  server' = server /\ careless' = careless
      BY <3>4 DEF RunFunctor, RunEstablished, RunRemove, RunDestroyed, LoopQuits
    <3>5. CASE HandleRead \/ HandleReadAtLimit \/ OthersOpen \/ OthersClose \/ Ended
      BY <2>1, <3>5 DEF HandleRead, HandleReadAtLimit, OthersOpen, OthersClose, Ended, vars
    <3> QED
      BY <2>1, <3>1, <3>2, <3>3, <3>4, <3>5 DEF Next
  <2> QED
    BY <1>1, <2>2 DEF ServerInv
<1>2. CASE ~careless /\ server = "deleted"
  <2>1. Types /\ GoneInv
    BY <1>2 DEF ServerInv
  <2>2. Types' /\ GoneInv' /\ server' = "deleted"
    BY <1>2, <2>1, GoneNext
  <2>3. careless' \in BOOLEAN
    <3>1. careless \in BOOLEAN /\ ~Destructor
      BY <1>2 DEF ServerInv, Destructor
    <3>2. careless' = careless
      BY <1>2, <3>1 DEF Next, vars, Start, HandleRead, HandleReadAtLimit, OthersOpen,
         OthersClose, Ended, ConnectionCloses, ClientConnects, RunFunctor, RunEstablished, RunRemove,
         RunDestroyed, LoopQuits
    <3> QED
      BY <3>1, <3>2
  <2> QED
    BY <2>2, <2>3 DEF ServerInv
<1>3. CASE ~careless /\ server # "deleted"
  <2>1. Types /\ LiveInv /\ careless = FALSE
    BY <1>3 DEF ServerInv
  <2>2. CASE Next
    BY <1>3, <2>1, <2>2, LiveNext
  <2>3. CASE UNCHANGED vars
    <3>1. LiveInv'
      BY <2>1, <2>3, LiveStill DEF vars, LiveInv
    <3>2. Types'
      BY <2>1, <2>3 DEF vars, Types, connVars, fixed, fdVars, Mine
    <3> QED
      BY <1>3, <2>1, <2>3, <3>1, <3>2 DEF ServerInv, vars
  <2> QED
    BY <2>2, <2>3
<1> QED
  BY <1>1, <1>2, <1>3

(* Through every hop between the base loop and its own, a connection has at most
   one functor, which carries it to the next stage of its life, as long as the
   server is not deleted under its connections. *)
THEOREM ServerInvariant == Spec => []ServerInv
BY InitServerInv, ServerInductive, PTL DEF Spec

(* No assertion of TcpServer, TcpConnection or Chnnel fails, and no callback
   reaches a deleted server, if the server is deleted with care. *)
THEOREM ServerIsAlwaysSafe == Spec => []ServerIsSafe
<1>1. ServerInv => ServerIsSafe
  BY DEF ServerInv, ServerIsSafe, Types
<1> QED
  BY <1>1, ServerInvariant, PTL

(* _connections has every connection that lives, and one that closed has exactly
   one removeConnectionInLoop() on its way to the base loop. *)
THEOREM MapAlwaysKnowsConnections == Spec => []MapKnowsConnections
<1>1. ServerInv => MapKnowsConnections
  <2> SUFFICES ASSUME ServerInv, server # "deleted" PROVE MapKnowsConnections
    BY DEF MapKnowsConnections
  <2>1. Types /\ LiveInv
    BY DEF ServerInv
  <2>2. ASSUME NEW c \in connections, conn[c] = "closed"
        PROVE  Cardinality({i \in 1..Len(queue[Base]) : queue[Base][i] = Functor("remove", c)}) = 1
    <3> DEFINE f == Functor("remove", c)
               S == {i \in 1..Len(queue[Base]) : queue[Base][i] = f}
    <3>1. c \in Clients /\ Base \in Loops
      BY <2>1, LoopFacts DEF Types
    <3>2. At(queue, Base, f)
      BY <2>1, <2>2 DEF LiveInv
    <3>3. PICK i \in 1..Len(queue[Base]) : queue[Base][i] = f
      BY <3>2 DEF At
    <3> HIDE DEF f
    <3>4. \A a, b \in 1..Len(queue[Base]) : queue[Base][a].client = queue[Base][b].client => a = b
      <4>1. Once(queue)
        BY <2>1 DEF LiveInv
      <4> QED
        BY <3>1, <4>1, Zenon DEF Once
    <3>5. \A j \in 1..Len(queue[Base]) : queue[Base][j] = f => j = i
      BY <3>3, <3>4
    <3>6. S = {i}
      BY <3>3, <3>5
    <3> QED
      BY <3>6, FS_Singleton, Zenon DEF f
  <2> QED
    BY <2>1, <2>2 DEF MapKnowsConnections, LiveInv
<1> QED
  BY <1>1, ServerInvariant, PTL

-----------------------------------------------------------------------------
(* The life of the connections. *)

(* Where a connection of the server is in its life. *)
Place(c) == CASE conn[c] = "none" -> "none" [] conn[c] = "connecting" -> "made"
              [] conn[c] = "connected" -> "open"
              [] conn[c] = "closed" /\ c \in connections -> "closed"
              [] OTHER -> "removed"

LifeOf == [c \in Clients |-> IF careless THEN "lost" ELSE Place(c)]

Life == INSTANCE ConnectionLife WITH Conns <- Clients, life <- LifeOf

(* A deleted server has no connections. *)
EmptyInv == server = "deleted" => connections = {}

LEMMA EmptyInductive == EmptyInv /\ [Next]_vars => EmptyInv'
<1> SUFFICES ASSUME EmptyInv, [Next]_vars PROVE EmptyInv'
  OBVIOUS
<1>1. CASE server # "deleted" /\ ~Destructor
  <2>1. server' # "deleted"
    BY <1>1 DEF Next, vars, Start, HandleRead, HandleReadAtLimit, OthersOpen, OthersClose,
       Ended, ConnectionCloses, ClientConnects, RunFunctor, RunEstablished, RunRemove, RunDestroyed, LoopQuits
  <2> QED
    BY <2>1 DEF EmptyInv
<1>2. CASE Destructor
  BY <1>2 DEF EmptyInv, Destructor
<1>3. CASE server = "deleted"
  <2>1. connections = {} /\ ~Start /\ ~HandleRead /\ ~Destructor
    BY <1>3 DEF EmptyInv, Start, HandleRead, Listening, Destructor
  <2>2. connections' \subseteq connections
    BY <2>1 DEF Next, vars, HandleReadAtLimit, OthersOpen, OthersClose, Ended,
       ConnectionCloses, ClientConnects, RunFunctor, RunEstablished, RunRemove, RunDestroyed, LoopQuits,
       RemoveConnectionInLoop, connVars
  <2> QED
    BY <2>1, <2>2 DEF EmptyInv
<1> QED
  BY <1>1, <1>2, <1>3

(* A step that concerns one connection only. *)
LEMMA OneMoves ==
  ASSUME careless = FALSE, careless' = FALSE, NEW c \in Clients,
         \A d \in Clients : d # c => conn'[d] = conn[d] /\ (d \in connections' <=> d \in connections)
  PROVE  LifeOf[c] = Place(c) /\ LifeOf' = [LifeOf EXCEPT ![c] = Place(c)']
<1>1. \A d \in Clients : d # c => Place(d)' = Place(d)
  BY DEF Place
<1>2. LifeOf = [d \in Clients |-> Place(d)] /\ LifeOf' = [d \in Clients |-> Place(d)']
  BY DEF LifeOf
<1> QED
  BY <1>1, <1>2

(* A step that leaves every connection where it is. *)
LEMMA NoneMoves ==
  ASSUME UNCHANGED <<conn, connections, careless>>
  PROVE  UNCHANGED LifeOf
BY DEF LifeOf, Place

(* The steps of a server that lives. *)
LEMMA LiveMoves ==
  ASSUME Types, LiveInv, careless = FALSE, server # "deleted", Next
  PROVE  [Life!LifeNext]_LifeOf
<1> USE DEF Life!LifeNext
<1>1. CASE Start \/ HandleReadAtLimit \/ OthersOpen \/ OthersClose \/ Ended
  <2>1. UNCHANGED <<conn, connections, careless>>
    BY <1>1 DEF Start, HandleReadAtLimit, OthersOpen, OthersClose, Ended, vars, connVars
  <2> QED
    BY <2>1, NoneMoves
<1>2. CASE HandleRead
  <2>1. PICK c \in Clients : c = Head(backlog) /\ conn[c] = "none"
    <3>1. backlog # <<>> /\ backlog \in Seq(Clients)
      BY <1>2 DEF HandleRead, Listening, Types
    <3>2. 1 \in 1..Len(backlog) /\ Head(backlog) = backlog[1] /\ Head(backlog) \in Clients
      BY <3>1
    <3> QED
      BY <3>1, <3>2 DEF LiveInv
  <2>2. /\ connections' = connections \union {c} /\ careless' = FALSE
        /\ conn' = [conn EXCEPT ![c] = IF GetNextLoop = Base THEN "connected" ELSE "connecting"]
    BY <1>2, <2>1 DEF HandleRead, NewConnection
  <2>3. /\ conn'[c] = IF GetNextLoop = Base THEN "connected" ELSE "connecting"
        /\ \A d \in Clients : d # c => conn'[d] = conn[d]
    BY <2>1, <2>2 DEF Types
  <2>4. Place(c) = "none" /\ Place(c)' \in {"open", "made"}
    BY <2>1, <2>3 DEF Place
  <2>5. LifeOf[c] = Place(c) /\ LifeOf' = [LifeOf EXCEPT ![c] = Place(c)']
    BY <2>2, <2>3, OneMoves
  <2>6. Life!Make(c) \/ Life!Establish(c)
    BY <2>4, <2>5 DEF Life!Make, Life!Establish, Life!Move
  <2> QED
    BY <2>1, <2>6
<1>3. ASSUME NEW c \in Clients, ConnectionCloses(c) PROVE Life!Close(c) \/ Life!Remove(c)
  <2>1. /\ conn[c] = "connected" /\ conn' = [conn EXCEPT ![c] = "closed"] /\ careless' = FALSE
        /\ connections' \in {connections, connections \ {c}}
    BY <1>3 DEF ConnectionCloses, RemoveConnectionInLoop
  <2>2. conn'[c] = "closed" /\ \A d \in Clients : d # c => conn'[d] = conn[d]
    BY <2>1 DEF Types
  <2>3. Place(c) = "open" /\ Place(c)' \in {"closed", "removed"}
    BY <2>1, <2>2 DEF Place
  <2>4. \A d \in Clients : d # c => conn'[d] = conn[d] /\ (d \in connections' <=> d \in connections)
    BY <2>1, <2>2
  <2>5. LifeOf[c] = Place(c) /\ LifeOf' = [LifeOf EXCEPT ![c] = Place(c)']
    BY <2>1, <2>4, OneMoves
  <2> QED
    BY <2>3, <2>5 DEF Life!Close, Life!Remove, Life!Move
<1>4. ASSUME NEW c \in Clients, ClientConnects(c) PROVE UNCHANGED LifeOf
  BY <1>4, NoneMoves DEF ClientConnects, connVars
<1>5. ASSUME NEW l \in Loops, RunFunctor(l) PROVE [Life!LifeNext]_LifeOf
  <2>1. PICK c \in Clients : RunEstablished(l, c) \/ RunRemove(l, c) \/ RunDestroyed(l, c)
    BY <1>5 DEF RunFunctor
  <2>2. CASE RunEstablished(l, c)
    <3>1. conn[c] = "connecting"
      BY <2>2, RunFacts, FunctorFacts DEF RunEstablished, Means
    <3>2. conn' = [conn EXCEPT ![c] = "connected"] /\ UNCHANGED <<connections, careless>>
      BY <2>2 DEF RunEstablished
    <3>3. conn'[c] = "connected" /\ \A d \in Clients : d # c => conn'[d] = conn[d]
      BY <3>2 DEF Types
    <3>4. Place(c) = "made" /\ Place(c)' = "open"
      BY <3>1, <3>3 DEF Place
    <3>5. LifeOf[c] = Place(c) /\ LifeOf' = [LifeOf EXCEPT ![c] = Place(c)']
      BY <3>2, <3>3, OneMoves
    <3> QED
      BY <3>4, <3>5 DEF Life!Establish, Life!Move
  <2>3. CASE RunRemove(l, c)
    <3>1. conn[c] = "closed" /\ c \in connections
      BY <2>3, RunFacts, FunctorFacts DEF RunRemove, Means
    <3>2. connections' = connections \ {c} /\ UNCHANGED <<conn, careless>>
      BY <2>3 DEF RunRemove, RemoveConnectionInLoop
    <3>3. Place(c) = "closed" /\ Place(c)' = "removed"
      BY <3>1, <3>2 DEF Place
    <3>4. LifeOf[c] = Place(c) /\ LifeOf' = [LifeOf EXCEPT ![c] = Place(c)']
      BY <3>2, OneMoves
    <3> QED
      BY <3>3, <3>4 DEF Life!Remove, Life!Move
  <2>4. CASE RunDestroyed(l, c)
    <3>1. conn[c] = "closed" /\ c \notin connections
      BY <2>4, RunFacts, FunctorFacts DEF RunDestroyed, Means
    <3>2. conn' = [conn EXCEPT ![c] = "none"] /\ UNCHANGED <<connections, careless>>
      BY <2>4 DEF RunDestroyed
    <3>3. conn'[c] = "none" /\ \A d \in Clients : d # c => conn'[d] = conn[d]
      BY <3>2 DEF Types
    <3>4. Place(c) = "removed" /\ Place(c)' = "none"
      BY <3>1, <3>3 DEF Place
    <3>5. LifeOf[c] = Place(c) /\ LifeOf' = [LifeOf EXCEPT ![c] = Place(c)']
      BY <3>2, <3>3, OneMoves
    <3> QED
      BY <3>4, <3>5 DEF Life!Destroy, Life!Move
  <2> QED
    BY <2>1, <2>2, <2>3, <2>4
<1>6. \A l \in Loops : ~LoopQuits(l)
  BY DEF LoopQuits
<1>7. CASE Destructor
  <2>1. CASE Careful
    <3>1. connections = {} /\ connections' = {} /\ careless' = FALSE
      BY <1>7, <2>1 DEF Destructor, Careful
    <3>2. conn' = [c \in Clients |-> conn[c]]
      BY <1>7, <3>1 DEF Destructor
    <3>3. conn' = conn
      BY <3>2 DEF Types
    <3> QED
      BY <3>1, <3>3, NoneMoves
  <2>2. CASE ~Careful
    <3>1. careless' = TRUE
      BY <1>7, <2>2 DEF Destructor
    <3>2. LifeOf' = [c \in Clients |-> "lost"]
      BY <3>1 DEF LifeOf
    <3> QED
      BY <3>2 DEF Life!GiveUp
  <2> QED
    BY <2>1, <2>2
<1> QED
  BY <1>1, <1>2, <1>3, <1>4, <1>5, <1>6, <1>7 DEF Next

(* The steps after a careful deletion: conncetDestoryed() in the base loop is left. *)
LEMMA GoneMoves ==
  ASSUME Types, GoneInv, EmptyInv, careless = FALSE, server = "deleted", Next
  PROVE  [Life!LifeNext]_LifeOf
<1>1. connections = {} /\ ~Start /\ ~HandleRead /\ ~Destructor /\ ~HandleReadAtLimit
  BY DEF EmptyInv, Start, HandleRead, HandleReadAtLimit, Listening, Destructor
<1>2. CASE OthersOpen \/ OthersClose \/ Ended
  <2>1. UNCHANGED <<conn, connections, careless>>
    BY <1>2 DEF OthersOpen, OthersClose, Ended, vars, connVars
  <2> QED
    BY <2>1, NoneMoves
<1>3. \A c \in Clients : ~ConnectionCloses(c) /\ ~ClientConnects(c)
  BY DEF ConnectionCloses, ClientConnects, GoneInv
<1>4. ASSUME NEW l \in Loops, RunFunctor(l) PROVE [Life!LifeNext]_LifeOf
  <2>1. PICK c \in Clients : RunEstablished(l, c) \/ RunRemove(l, c) \/ RunDestroyed(l, c)
    BY <1>4 DEF RunFunctor
  <2>2. RunDestroyed(l, c)
    <3>1. ~Run(l, "established", c) /\ ~Run(l, "remove", c)
      BY GoneRun
    <3> QED
      BY <2>1, <3>1 DEF RunEstablished, RunRemove
  <2>3. conn' = [conn EXCEPT ![c] = "none"] /\ UNCHANGED <<connections, careless>>
    BY <2>2 DEF RunDestroyed
  <2>4. conn'[c] = "none" /\ \A d \in Clients : d # c => conn'[d] = conn[d]
    BY <2>3 DEF Types
  <2>5. CASE conn[c] = "closed"
    <3>1. Place(c) = "removed" /\ Place(c)' = "none"
      BY <1>1, <2>4, <2>5 DEF Place
    <3>2. LifeOf[c] = Place(c) /\ LifeOf' = [LifeOf EXCEPT ![c] = Place(c)']
      BY <2>3, <2>4, OneMoves
    <3> QED
      BY <3>1, <3>2 DEF Life!LifeNext, Life!Destroy, Life!Move
  <2>6. CASE conn[c] = "none"
    <3>1. conn' = conn
      BY <2>3, <2>6 DEF Types
    <3> QED
      BY <2>3, <3>1, NoneMoves
  <2> QED
    BY <2>5, <2>6 DEF GoneInv
<1>5. ASSUME NEW l \in Loops, LoopQuits(l) PROVE UNCHANGED LifeOf
  BY <1>5, NoneMoves DEF LoopQuits, connVars
<1> QED
  BY <1>1, <1>2, <1>3, <1>4, <1>5 DEF Next

(* TcpServer implements ConnectionLife: newConnection(), connectEstablished(), handleClose(),
   removeConnectionInLoop() and conncetDestoryed() happen to a connection in this order, each once,
   in whichever loops they run, until the server is deleted under its connections. *)
THEOREM ServerImplementsLife == Spec => Life!LifeSpec
<1>1. Init => Life!LifeInit /\ EmptyInv
  <2> SUFFICES ASSUME Init PROVE Life!LifeInit /\ EmptyInv
    OBVIOUS
  <2>1. \A c \in Clients : Place(c) = "none"
    BY DEF Init, Place
  <2>2. LifeOf \in [Clients -> {"none", "made"}]
    BY <2>1 DEF Init, LifeOf
  <2> QED
    BY <2>2 DEF Life!LifeInit, EmptyInv, Init
<1>2. ServerInv /\ EmptyInv /\ [Next]_vars => [Life!LifeNext]_LifeOf
  <2> SUFFICES ASSUME ServerInv, EmptyInv, [Next]_vars PROVE [Life!LifeNext]_LifeOf
    OBVIOUS
  <2>1. CASE UNCHANGED vars
    BY <2>1, NoneMoves DEF vars, connVars
  <2>2. CASE careless
    <3>1. server = "deleted"
      BY <2>2 DEF ServerInv
    <3>2. careless' = careless
      BY <3>1 DEF Next, vars, Start, HandleRead, HandleReadAtLimit, OthersOpen,
         OthersClose, Ended, ConnectionCloses, ClientConnects, RunFunctor, RunEstablished, RunRemove,
         RunDestroyed, LoopQuits, Destructor
    <3> QED
      BY <2>2, <3>2 DEF LifeOf
  <2>3. CASE Next /\ careless = FALSE /\ server # "deleted"
    BY <2>3, LiveMoves DEF ServerInv
  <2>4. CASE Next /\ careless = FALSE /\ server = "deleted"
    BY <2>4, GoneMoves DEF ServerInv
  <2> QED
    BY <2>1, <2>2, <2>3, <2>4 DEF ServerInv
<1> QED
  BY <1>1, <1>2, EmptyInductive, ServerInvariant, PTL DEF Spec, Life!LifeSpec
=============================================================================

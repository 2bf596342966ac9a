------------------------ MODULE TcpConnectionProofs -------------------------
(***************************************************************************)
(* Proofs about TcpConnection for any threads, sizes and programs of the   *)
(* kinds named here.                                                       *)
(***************************************************************************)
EXTENDS TcpConnection, TLAPS

(* Other threads only send, reading is not switched, and the server outlives its
   connections: what the life of a connection needs of its users. *)
OthersOnlySend == /\ ServerDies = FALSE
                  /\ \A p \in Programs : /\ p.offLoop \subseteq {"send"}
                                         /\ "startRead" \notin p.inLoop /\ "stopRead" \notin p.inLoop

FunctorSet == [op : Shared \union Raw, data : Seq(Bytes)]
Open == {"Connected", "Disconnecting"}

(* The queue q has a functor op; one without calls that switch, and with at most
   one conncetDestoryed(). *)
Has(q, op) == \E i \in 1..Len(q) : q[i].op = op
Calm(q) == /\ q \in Seq(FunctorSet)
           /\ \A i \in 1..Len(q) : q[i].op \notin {"shutdown", "startRead", "stopRead"}
           /\ \A i, j \in 1..Len(q) : q[i].op = "destroyed" /\ q[j].op = "destroyed" => i = j

(* Queue r has what q has of the functors that begin and end a connection. *)
Alike(q, r) == /\ Calm(r) /\ (Has(r, "destroyed") <=> Has(q, "destroyed"))
               /\ Has(r, "established") => Has(q, "established")

UseInv == /\ Calm(functors) /\ (state # "Connecting" => ~Has(functors, "established"))
          /\ marked = {} /\ \A u \in OffThreads : calling[u] \in {"nothing", "send"}

(* The three ages of a connection: only connectEstablished() can happen to it; it is
   in the server's map, known to epoll and not being removed; or it is on the
   way out, at one of three places. *)
FreshInv == state = "Connecting" =>
              /\ functors = <<Functor("established")>> /\ events = {} /\ flag = "new" /\ revents = {}
              /\ inServer /\ removals = 0 /\ output = <<>> /\ wrShut = FALSE /\ delayed = FALSE
              /\ holders = {} /\ \A u \in OffThreads : calling[u] = "nothing"
OpenInv == state \in Open =>
             /\ inServer /\ removals = 0 /\ ~Has(functors, "destroyed") /\ flag = "added"
             /\ "read" \in events /\ ("write" \in events <=> output # <<>>)
ClosedInv == state = "Disconnected" =>
               /\ revents \subseteq {"OUT"} /\ events = {}
               /\ \/ removals = 1 /\ inServer /\ ~Has(functors, "destroyed") /\ flag = "deleted"
                  \/ removals = 0 /\ ~inServer /\ Has(functors, "destroyed") /\ flag = "deleted"
                  \/ removals = 0 /\ ~inServer /\ ~Has(functors, "destroyed") /\ flag = "new"

LifeInv == TypeOK /\ UseInv /\ FreshInv /\ OpenInv /\ ClosedInv /\ ShutdownAfterOutput

-----------------------------------------------------------------------------
(* The functor queue. *)

LEMMA AppendCalm ==
  ASSUME NEW q, Calm(q), NEW f \in FunctorSet, f.op \in {"send", "forceClose", "writeComplete", "highWater"}
  PROVE  Alike(q, Append(q, f))
<1> DEFINE r == Append(q, f)
<1>1. q \in Seq(FunctorSet) /\ r \in Seq(FunctorSet)
  BY DEF Calm
<1>2. /\ \A i \in 1..Len(q) : i \in 1..Len(r) /\ r[i] = q[i]
      /\ \A i \in 1..Len(r) : (i \in 1..Len(q) /\ r[i] = q[i]) \/ r[i] = f
  BY <1>1
<1> HIDE DEF r
<1>3. Calm(r)
  BY <1>1, <1>2 DEF Calm
<1>4. /\ Has(r, "destroyed") <=> Has(q, "destroyed")
      /\ Has(r, "established") => Has(q, "established")
  BY <1>2 DEF Has
<1> QED
  BY <1>3, <1>4 DEF Alike, r

LEMMA AppendDestroyed ==
  ASSUME NEW q, Calm(q), ~Has(q, "destroyed")
  PROVE  LET r == Append(q, Functor("destroyed"))
         IN  Calm(r) /\ Has(r, "destroyed") /\ (Has(r, "established") => Has(q, "established"))
<1> DEFINE f == Functor("destroyed")
           r == Append(q, f)
<1>1. q \in Seq(FunctorSet) /\ f \in FunctorSet /\ f.op = "destroyed"
  BY DEF Calm, Functor, FunctorSet, Shared
<1> HIDE DEF f
<1>2. /\ r \in Seq(FunctorSet) /\ Len(q) + 1 \in 1..Len(r) /\ r[Len(q) + 1] = f
      /\ \A i \in 1..Len(r) : (i \in 1..Len(q) /\ r[i] = q[i]) \/ (i = Len(q) + 1 /\ r[i] = f)
  BY <1>1
<1> HIDE DEF r
<1>3. Calm(r)
  BY <1>1, <1>2 DEF Calm, Has
<1>4. Has(r, "destroyed") /\ (Has(r, "established") => Has(q, "established"))
  BY <1>1, <1>2 DEF Has
<1> QED
  BY <1>3, <1>4 DEF r, f

LEMMA TailCalm ==
  ASSUME NEW q, Calm(q), q # <<>>
  PROVE  /\ Head(q) \in FunctorSet /\ Has(q, Head(q).op)
         /\ Head(q).op \notin {"shutdown", "startRead", "stopRead"}
         /\ Calm(Tail(q)) /\ (Has(Tail(q), "established") => Has(q, "established"))
         /\ Head(q).op # "destroyed" => Alike(q, Tail(q))
         /\ Head(q).op = "destroyed" => ~Has(Tail(q), "destroyed")
<1> DEFINE r == Tail(q)
           h == Head(q)
<1>1. q \in Seq(FunctorSet) /\ r \in Seq(FunctorSet) /\ h \in FunctorSet /\ h = q[1] /\ 1 \in 1..Len(q)
  BY DEF Calm
<1>2. /\ \A i \in 1..Len(r) : i \in Nat /\ i + 1 \in 1..Len(q) /\ r[i] = q[i + 1] /\ i + 1 # 1
      /\ \A i \in 1..Len(q) : i = 1 \/ (i - 1 \in 1..Len(r) /\ r[i - 1] = q[i])
  BY <1>1
<1> HIDE DEF r, h
<1>3. Has(q, h.op) /\ h.op \notin {"shutdown", "startRead", "stopRead"}
  BY <1>1 DEF Has, Calm
<1>4. Calm(r)
  <2>1. \A i \in 1..Len(r) : r[i].op \notin {"shutdown", "startRead", "stopRead"}
    BY <1>2 DEF Calm
  <2>2. ASSUME NEW i \in 1..Len(r), NEW j \in 1..Len(r), r[i].op = "destroyed", r[j].op = "destroyed"
        PROVE  i = j
    <3>1. i + 1 = j + 1
      BY <1>2, <2>2, SMTT(30) DEF Calm
    <3> QED
      BY <1>2, <3>1
  <2> QED
    BY <1>1, <2>1, <2>2 DEF Calm
<1>5. \A op : Has(r, op) => Has(q, op)
  BY <1>2 DEF Has
<1>6. h.op # "destroyed" /\ Has(q, "destroyed") => Has(r, "destroyed")
  BY <1>1, <1>2 DEF Has
<1>7. h.op = "destroyed" => ~Has(r, "destroyed")
  BY <1>1, <1>2 DEF Has, Calm
<1> QED
  BY <1>1, <1>3, <1>4, <1>5, <1>6, <1>7 DEF Alike, r, h

LEMMA NotifyCalm ==
  ASSUME NEW q, Calm(q), NEW op \in {"writeComplete", "highWater"}
  PROVE  Alike(q, Notify(op, q))
<1>1. Functor(op) \in FunctorSet /\ Functor(op).op = op
  BY DEF Functor, FunctorSet, Shared
<1>2. Alike(q, q)
  BY DEF Alike
<1> QED
  BY <1>1, <1>2, AppendCalm DEF Notify

-----------------------------------------------------------------------------
(* The steps keep LifeInv. *)

(* The bytes one write() leaves over. *)
LEMMA Leftover ==
  ASSUME NEW s \in Seq(Bytes), NEW k \in 0..Len(s)
  PROVE  /\ After(s, k) \in Seq(Bytes) /\ SubSeq(s, 1, k) \in Seq(Bytes)
         /\ Len(After(s, k)) = Len(s) - k /\ Len(SubSeq(s, 1, k)) = k
         /\ \A i \in 1..Len(s) - k : After(s, k)[i] = s[k + i]
         /\ \A i \in 1..k : SubSeq(s, 1, k)[i] = s[i]
BY DEF After

(* A sequence of bytes extended by another one. *)
LEMMA Joined ==
  ASSUME NEW s \in Seq(Bytes), NEW t \in Seq(Bytes)
  PROVE  s \o t \in Seq(Bytes) /\ (s \o t = <<>> <=> s = <<>> /\ t = <<>>)
OBVIOUS

(* sendInLoop() *)
LEMMA SendFacts ==
  ASSUME LifeInv, NEW msg \in Seq(Bytes), NEW q, Calm(q), state # "Connecting", SendInLoop(msg, q)
  PROVE  /\ Alike(q, functors') /\ state' = state /\ reading' = reading
         /\ output' \in Seq(Bytes) /\ sent' \in Seq(Bytes) /\ sockErr' \in BOOLEAN
         /\ events' \subseteq {"read", "write"} /\ flag' \in {"new", "added", "deleted"}
         /\ state = "Disconnected" => UNCHANGED <<events, flag>>
         /\ state \in Open => /\ flag' = "added" /\ "read" \in events'
                              /\ "write" \in events' <=> output' # <<>>
         /\ wrShut => output' = <<>>
<1> DEFINE direct == "write" \notin events /\ output = <<>>
<1>1. Alike(q, q)
  BY DEF Alike
<1>2. TypeOK /\ state \in Open \union {"Disconnected"} /\ OpenInv /\ (wrShut => output = <<>>)
  BY DEF LifeInv, TypeOK, States, Open, ShutdownAfterOutput
<1>3. CASE state = "Disconnected" \/ (direct /\ WriteFails)
  <2>1. functors' = q /\ sockErr' \in BOOLEAN /\ UNCHANGED <<connVars, sent>>
    BY <1>2, <1>3 DEF SendInLoop, TypeOK
  <2> QED
    BY <1>1, <1>2, <2>1 DEF connVars, TypeOK, OpenInv
<1>4. CASE ~(state = "Disconnected" \/ (direct /\ WriteFails))
  <2>1. PICK k \in IF direct THEN Takes(Len(msg)) ELSE {0} :
          /\ sent' = sent \o SubSeq(msg, 1, k)
          /\ output' = output \o After(msg, k)
          /\ functors' = IF After(msg, k) = <<>> THEN Notify("writeComplete", q)
                         ELSE IF Len(output) + Len(After(msg, k)) >= HighWater /\ Len(output) < HighWater
                         THEN Notify("highWater", q) ELSE q
          /\ IF After(msg, k) # <<>> /\ "write" \notin events
             THEN SetEvents(events \union {"write"}) ELSE UNCHANGED <<events, flag>>
          /\ UNCHANGED <<state, reading, sockErr>>
    BY <1>4, Zenon DEF SendInLoop
  <2> DEFINE rest == After(msg, k)
  <2>2. k \in 0..Len(msg)
    BY DEF Takes
  <2>3. rest \in Seq(Bytes) /\ SubSeq(msg, 1, k) \in Seq(Bytes)
    BY <2>2, Leftover
  <2> HIDE DEF rest
  <2>4. Alike(q, functors')
    <3>1. functors' \in {q, Notify("writeComplete", q), Notify("highWater", q)}
      BY <2>1
    <3> QED
      BY <1>1, <3>1, NotifyCalm
  <2>5. /\ output' \in Seq(Bytes) /\ (output' = <<>> <=> output = <<>> /\ rest = <<>>)
        /\ sent' \in Seq(Bytes)
    BY <1>2, <2>1, <2>3, Joined DEF TypeOK, rest
  <2>6. state \in Open /\ flag = "added" /\ "read" \in events /\ ("write" \in events <=> output # <<>>)
    BY <1>2, <1>4 DEF OpenInv
  <2>7. CASE rest # <<>> /\ "write" \notin events
    <3>1. events' = events \union {"write"} /\ flag' = "added"
      BY <2>1, <2>7 DEF SetEvents, Updated, rest
    <3>2. ~wrShut
      BY <1>2, <1>4, <2>6, <2>7 DEF WriteFails
    <3> QED
      BY <1>2, <2>1, <2>4, <2>5, <2>6, <2>7, <3>1, <3>2 DEF TypeOK, Open
  <2>8. CASE ~(rest # <<>> /\ "write" \notin events)
    <3>1. UNCHANGED <<events, flag>>
      BY <2>1, <2>8 DEF rest
    <3>2. ~wrShut
      BY <1>2, <1>4, <2>6 DEF WriteFails
    <3> QED
      BY <1>2, <2>1, <2>4, <2>5, <2>6, <2>8, <3>1, <3>2 DEF TypeOK, Open
  <2> QED
    BY <2>7, <2>8
<1> QED
  BY <1>3, <1>4

(* The next message is made of bytes. *)
LEMMA NextMessageFacts ==
  ASSUME TypeOK, NEW n \in SendSizes
  PROVE  NextMessage(n) \in Seq(Bytes) /\ asked + n \in 0..MaxBytes /\ n \in Nat
<1>1. asked \in Nat /\ n \in Nat /\ asked + n <= MaxBytes /\ MaxBytes \in Nat
  BY BoundsAssumption DEF TypeOK, SendSizes
<1>2. \A i \in 1..n : asked + i \in 1..MaxBytes
  BY <1>1
<1> QED
  BY <1>1, <1>2 DEF NextMessage, Bytes

(* A step that leaves the connection where it is in its life, and the queue alike. *)
LEMMA LifeSame ==
  ASSUME LifeInv, TypeOK', Alike(functors, functors'), state # "Connecting",
         UNCHANGED <<inServer, removals, marked>>,
         \A u \in OffThreads : calling'[u] \in {"nothing", "send"},
         state' \in Open <=> state \in Open, state' # "Connecting",
         state = "Disconnected" => UNCHANGED <<events, flag>> /\ revents' \subseteq {"OUT"},
         state \in Open => flag' = "added" /\ "read" \in events' /\ ("write" \in events' <=> output' # <<>>),
         wrShut' => output' = <<>>
  PROVE  LifeInv'
<1>1. state' \in States /\ state \in States
  BY DEF TypeOK, LifeInv
<1>2. UseInv'
  BY DEF UseInv, LifeInv, Alike
<1>3. FreshInv'
  BY DEF FreshInv
<1>4. OpenInv'
  BY DEF OpenInv, LifeInv, Alike
<1>5. ClosedInv'
  <2>1. CASE state = "Disconnected"
    BY <2>1 DEF ClosedInv, LifeInv, Alike
  <2>2. CASE state # "Disconnected"
    BY <1>1, <2>2 DEF ClosedInv, States, Open
  <2> QED
    BY <2>1, <2>2
<1>6. ShutdownAfterOutput'
  BY DEF ShutdownAfterOutput
<1> QED
  BY <1>2, <1>3, <1>4, <1>5, <1>6 DEF LifeInv

(* handleClose() of an open connection, with the dispatch or functor it ends. *)
LEMMA LifeClose ==
  ASSUME LifeInv, TypeOK', state \in Open, HandleClose, Alike(functors, functors'),
         revents' \subseteq {"OUT"}, UNCHANGED <<wrShut>>
  PROVE  LifeInv'
<1>1. /\ state' = "Disconnected" /\ events' = {} /\ flag' = "deleted" /\ removals' = 1 /\ inServer'
      /\ ~Has(functors, "destroyed") /\ UNCHANGED <<output, marked, calling>>
  BY DEF HandleClose, SetEvents, Updated, LifeInv, OpenInv
<1>2. UseInv'
  BY <1>1 DEF UseInv, LifeInv, Alike, Open
<1>3. FreshInv' /\ OpenInv'
  BY <1>1 DEF FreshInv, OpenInv, Open
<1>4. ClosedInv'
  BY <1>1 DEF ClosedInv, Alike
<1>5. ShutdownAfterOutput'
  BY <1>1 DEF ShutdownAfterOutput, LifeInv
<1> QED
  BY <1>2, <1>3, <1>4, <1>5 DEF LifeInv

(* What holds of a connection by its state. *)
LEMMA LifeFacts ==
  ASSUME LifeInv
  PROVE  /\ TypeOK /\ state \in {"Connecting", "Connected", "Disconnecting", "Disconnected"}
         /\ Calm(functors) /\ Alike(functors, functors) /\ (wrShut => output = <<>>)
         /\ \A u \in OffThreads : calling[u] \in {"nothing", "send"}
         /\ state = "Disconnected" => revents \subseteq {"OUT"} /\ flag # "added" /\ events = {}
         /\ state \in Open => flag = "added" /\ "read" \in events /\ ("write" \in events <=> output # <<>>)
<1>1. TypeOK /\ UseInv /\ OpenInv /\ ClosedInv /\ ShutdownAfterOutput
  BY DEF LifeInv
<1>2. state \in States /\ Calm(functors) /\ Alike(functors, functors)
  BY <1>1 DEF TypeOK, UseInv, Alike
<1>3. state = "Disconnected" => revents \subseteq {"OUT"} /\ flag # "added" /\ events = {}
  BY <1>1 DEF ClosedInv
<1>4. state \in Open => flag = "added" /\ "read" \in events /\ ("write" \in events <=> output # <<>>)
  BY <1>1 DEF OpenInv
<1> QED
  BY <1>1, <1>2, <1>3, <1>4 DEF States, UseInv, ShutdownAfterOutput

(* The events of the channel. *)
LEMMA LifeDispatch ==
  ASSUME LifeInv, PollReturns \/ Dispatch, UNCHANGED program
  PROVE  LifeInv'
<1>1. state # "Connecting" /\ state \in Open \union {"Disconnected"}
  BY LifeFacts DEF LifeInv, FreshInv, PollReturns, Dispatch, HandleError, HandleHup, HandleRead, HandleWrite, Open
<1>2. CASE PollReturns
  <2>1. state # "Disconnected"
    BY <1>2, LifeFacts DEF PollReturns
  <2>2. revents' \subseteq {"ERR", "HUP", "IN", "OUT"} /\ UNCHANGED <<connVars, functors, delayed, refVars, sockVars, asked>>
    BY <1>2 DEF PollReturns
  <2>3. TypeOK'
    BY <2>2, LifeFacts DEF TypeOK, connVars, refVars, sockVars
  <2> QED
    BY <1>1, <2>1, <2>2, <2>3, LifeFacts, LifeSame DEF connVars, refVars, sockVars
<1>3. CASE HandleError
  <2>1. TypeOK'
    BY <1>3, LifeFacts DEF TypeOK, HandleError, connVars, refVars
  <2> QED
    BY <1>1, <1>3, <2>1, LifeFacts, LifeSame DEF HandleError, connVars, refVars
<1>4. CASE HandleHup
  <2>1. state \in Open
    BY <1>1, <1>4, LifeFacts DEF HandleHup
  <2>2. CASE "IN" \in revents
    <3>1. TypeOK'
      BY <1>4, <2>2, LifeFacts DEF TypeOK, HandleHup, connVars, refVars, sockVars
    <3> QED
      BY <1>1, <1>4, <2>1, <2>2, <3>1, LifeFacts, LifeSame DEF HandleHup, connVars, refVars, sockVars
  <2>3. CASE "IN" \notin revents
    <3>1. HandleClose /\ revents' \subseteq {"OUT"} /\ UNCHANGED <<functors, delayed, sockVars, asked>>
      BY <1>4, <2>3, LifeFacts DEF HandleHup, TypeOK
    <3>2. TypeOK'
      BY <3>1, LifeFacts DEF TypeOK, HandleClose, SetEvents, Updated, States, sockVars
    <3> QED
      BY <2>1, <3>1, <3>2, LifeFacts, LifeClose DEF sockVars
  <2> QED
    BY <2>2, <2>3
<1>5. CASE HandleRead
  <2>1. state \in Open
    BY <1>1, <1>5, LifeFacts DEF HandleRead
  <2>2. CASE ~dataIn /\ ~sockErr /\ peer # "open"
    <3>1. /\ HandleClose /\ revents' \subseteq {"OUT"} /\ dataIn' \in BOOLEAN /\ sockErr' \in BOOLEAN
          /\ UNCHANGED <<functors, delayed, peer, wrShut, sent, asked>>
      BY <1>5, <2>2, LifeFacts DEF HandleRead, TypeOK
    <3>2. TypeOK'
      BY <3>1, LifeFacts DEF TypeOK, HandleClose, SetEvents, Updated, States
    <3> QED
      BY <2>1, <3>1, <3>2, LifeFacts, LifeClose
  <2>3. CASE ~(~dataIn /\ ~sockErr /\ peer # "open")
    <3>1. /\ UNCHANGED <<connVars, refVars, functors, delayed, peer, wrShut, sent, asked>>
          /\ revents' \subseteq revents /\ dataIn' \in BOOLEAN /\ sockErr' \in BOOLEAN
      BY <1>5, <2>3, LifeFacts DEF HandleRead, TypeOK
    <3>2. TypeOK'
      BY <3>1, LifeFacts DEF TypeOK, connVars, refVars
    <3> QED
      BY <1>1, <2>1, <3>1, <3>2, LifeFacts, LifeSame DEF connVars, refVars
  <2> QED
    BY <2>2, <2>3
<1>6. CASE HandleWrite
  <2>1. PICK k \in IF "write" \in events /\ ~WriteFails THEN Takes(Len(output)) ELSE {0} :
          /\ sent' = sent \o SubSeq(output, 1, k)
          /\ output' = After(output, k)
          /\ IF k > 0 /\ k = Len(output)
             THEN /\ SetEvents(events \ {"write"})
                  /\ functors' = Notify("writeComplete", functors)
                  /\ wrShut' = (wrShut \/ state = "Disconnecting")
             ELSE UNCHANGED <<events, flag, functors, wrShut>>
    BY <1>6, Zenon DEF HandleWrite
  <2>2. /\ revents' = {} /\ sockErr' \in BOOLEAN
        /\ UNCHANGED <<state, reading, delayed, refVars, peer, dataIn, asked>>
    BY <1>6, LifeFacts DEF HandleWrite, TypeOK
  <2>3. output \in Seq(Bytes) /\ Len(output) \in Nat /\ k \in 0..Len(output)
    BY LifeFacts DEF Takes, TypeOK
  <2>4. /\ After(output, k) \in Seq(Bytes) /\ SubSeq(output, 1, k) \in Seq(Bytes)
        /\ Len(After(output, k)) = Len(output) - k
    BY <2>3, Leftover
  <2>5. output' \in Seq(Bytes) /\ sent' \in Seq(Bytes)
    BY <2>1, <2>4, LifeFacts, Joined DEF TypeOK
  <2>6. CASE k > 0 /\ k = Len(output)
    <3>1. "write" \in events /\ ~WriteFails
      BY <2>6
    <3>2. state \in Open
      BY <1>1, <3>1, LifeFacts
    <3>3. output' = <<>>
      BY <2>1, <2>4, <2>5, <2>6
    <3>4. /\ events' = events \ {"write"} /\ events' # {} /\ "read" \in events' /\ flag' = "added"
          /\ wrShut' \in BOOLEAN
      BY <2>1, <2>6, <3>2, LifeFacts DEF SetEvents, Updated, TypeOK
    <3>5. Alike(functors, functors')
      BY <2>1, <2>6, LifeFacts, NotifyCalm
    <3>6. TypeOK'
      BY <2>2, <2>5, <3>4, <3>5, LifeFacts DEF TypeOK, refVars, Alike, Calm, FunctorSet
    <3> QED
      BY <1>1, <2>2, <3>2, <3>3, <3>4, <3>5, <3>6, LifeFacts, LifeSame DEF refVars
  <2>7. CASE ~(k > 0 /\ k = Len(output))
    <3>1. UNCHANGED <<events, flag, functors, wrShut>>
      BY <2>1, <2>7
    <3>2. output' = <<>> <=> output = <<>>
      BY <2>1, <2>3, <2>4, <2>5, <2>7
    <3>3. TypeOK'
      BY <2>2, <2>5, <3>1, LifeFacts DEF TypeOK, refVars
    <3> QED
      BY <1>1, <2>2, <3>1, <3>2, <3>3, LifeFacts, LifeSame DEF refVars
  <2> QED
    BY <2>6, <2>7
<1> QED
  BY <1>2, <1>3, <1>4, <1>5, <1>6 DEF Dispatch

(* The functor the loop takes. *)
LEMMA RunFacts ==
  ASSUME LifeInv, NEW op, Run(op)
  PROVE  /\ revents = {} /\ Head(functors) \in FunctorSet /\ Head(functors).op = op /\ Has(functors, op)
         /\ op \notin {"shutdown", "startRead", "stopRead"}
         /\ Calm(Rest) /\ (Has(Rest, "established") => Has(functors, "established"))
         /\ op # "destroyed" => Alike(functors, Rest)
         /\ op = "destroyed" => ~Has(Rest, "destroyed")
         /\ op # "established" => state # "Connecting"
         /\ op = "established" => state = "Connecting"
<1>1. Calm(functors) /\ functors # <<>> /\ Head(functors).op = op /\ revents = {}
  BY LifeFacts DEF Run
<1>2. /\ Head(functors) \in FunctorSet /\ Has(functors, op)
      /\ op \notin {"shutdown", "startRead", "stopRead"}
      /\ Calm(Rest) /\ (Has(Rest, "established") => Has(functors, "established"))
      /\ op # "destroyed" => Alike(functors, Rest)
      /\ op = "destroyed" => ~Has(Rest, "destroyed")
  BY <1>1, TailCalm DEF Rest
<1>3. state = "Connecting" => op = "established"
  BY <1>1 DEF LifeInv, FreshInv, Functor
<1>4. op = "established" => state = "Connecting"
  BY <1>2 DEF LifeInv, UseInv
<1> QED
  BY <1>1, <1>2, <1>3, <1>4

(* connectEstablished() *)
LEMMA LifeEstablished ==
  ASSUME LifeInv, RunEstablished, UNCHANGED program
  PROVE  LifeInv'
<1>1. state = "Connecting"
  BY RunFacts DEF RunEstablished
<1>2. FreshInv /\ TypeOK /\ UseInv
  BY DEF LifeInv
<1>3. functors' = <<>> /\ events' = {"read"} /\ flag' = "added" /\ state' = "Connected"
      /\ UNCHANGED <<reading, output, revents, delayed, refVars, sockVars, asked>>
  <2>1. functors' = Tail(<<Functor("established")>>) /\ events = {} /\ flag = "new"
    BY <1>1, <1>2 DEF RunEstablished, FreshInv, Rest
  <2>2. events' = {"read"} /\ flag' = "added" /\ state' = "Connected"
    BY <2>1 DEF RunEstablished, SetEvents, Updated
  <2>3. functors' = <<>>
    BY <2>1
  <2> QED
    BY <2>2, <2>3 DEF RunEstablished
<1>4. Calm(functors') /\ \A op : ~Has(functors', op)
  BY <1>3 DEF Calm, Has
<1>5. TypeOK'
  <2>1. functors' \in Seq([op : Shared \union Raw, data : Seq(Bytes)])
    BY <1>3
  <2> QED
    BY <1>2, <1>3, <2>1 DEF TypeOK, States, refVars, sockVars
<1>6. UseInv'
  BY <1>2, <1>3, <1>4 DEF UseInv, refVars
<1>7. FreshInv' /\ ClosedInv'
  BY <1>3 DEF FreshInv, ClosedInv
<1>8. OpenInv'
  BY <1>1, <1>2, <1>3, <1>4 DEF OpenInv, FreshInv, refVars
<1>9. ShutdownAfterOutput'
  BY <1>1, <1>2, <1>3 DEF FreshInv, ShutdownAfterOutput, sockVars
<1> QED
  BY <1>5, <1>6, <1>7, <1>8, <1>9 DEF LifeInv

(* conncetDestoryed(): the connection is closed, and leaves epoll. *)
LEMMA LifeDestroyed ==
  ASSUME LifeInv, RunDestroyed, UNCHANGED program
  PROVE  LifeInv'
<1>1. state = "Disconnected" /\ Has(functors, "destroyed")
  <2>1. Has(functors, "destroyed") /\ state # "Connecting"
    BY RunFacts DEF RunDestroyed
  <2>2. state \notin Open
    BY <2>1 DEF LifeInv, OpenInv
  <2> QED
    BY <2>1, <2>2, LifeFacts DEF Open
<1>2. /\ state' = "Disconnected" /\ events' = {} /\ flag' = "new" /\ functors' = Rest
      /\ UNCHANGED <<reading, output, revents, delayed, refVars, sockVars, asked>>
  BY <1>1 DEF RunDestroyed, LifeInv, ClosedInv
<1>3. Calm(Rest) /\ ~Has(Rest, "destroyed") /\ (Has(Rest, "established") => Has(functors, "established"))
  BY RunFacts DEF RunDestroyed
<1>4. TypeOK'
  BY <1>2, <1>3, LifeFacts DEF TypeOK, States, Calm, FunctorSet, refVars, sockVars
<1>5. UseInv'
  BY <1>1, <1>2, <1>3 DEF UseInv, LifeInv, refVars
<1>6. FreshInv' /\ OpenInv'
  BY <1>2 DEF FreshInv, OpenInv, Open
<1>7. ClosedInv'
  BY <1>1, <1>2, <1>3 DEF ClosedInv, LifeInv, refVars
<1>8. ShutdownAfterOutput'
  BY <1>2 DEF ShutdownAfterOutput, LifeInv, sockVars
<1> QED
  BY <1>4, <1>5, <1>6, <1>7, <1>8 DEF LifeInv

(* The other functors. *)
LEMMA LifeRun ==
  ASSUME LifeInv, RunForceClose \/ RunCallback \/ RunSend \/ RunShutdown \/ RunStartStopRead, UNCHANGED program
  PROVE  LifeInv'
<1>1. ~RunShutdown /\ ~RunStartStopRead
  BY RunFacts DEF RunShutdown, RunStartStopRead
<1>2. CASE RunForceClose
  <2>1. state # "Connecting" /\ Alike(functors, Rest) /\ functors' = Rest /\ revents = {}
        /\ UNCHANGED <<revents, delayed, sockVars, asked>>
    BY <1>2, RunFacts DEF RunForceClose
  <2>2. CASE state \in Open
    <3>1. HandleClose
      BY <1>2, <2>2 DEF RunForceClose, Open
    <3>2. TypeOK'
      BY <2>1, <3>1, LifeFacts DEF TypeOK, HandleClose, SetEvents, Updated, States, Alike, Calm, FunctorSet, sockVars
    <3> QED
      BY <2>1, <2>2, <3>1, <3>2, LifeClose DEF sockVars
  <2>3. CASE state \notin Open
    <3>1. UNCHANGED <<connVars, refVars>>
      BY <1>2, <2>3 DEF RunForceClose, Open
    <3>2. TypeOK'
      BY <2>1, <3>1, LifeFacts DEF TypeOK, connVars, refVars, sockVars, Alike, Calm, FunctorSet
    <3> QED
      BY <2>1, <2>3, <3>1, <3>2, LifeFacts, LifeSame DEF connVars, refVars, sockVars
  <2> QED
    BY <2>2, <2>3
<1>3. CASE RunCallback
  <2>1. state # "Connecting" /\ Alike(functors, Rest)
    BY <1>3, RunFacts DEF RunCallback
  <2>2. functors' = Rest /\ UNCHANGED <<connVars, revents, delayed, refVars, sockVars, asked>>
    BY <1>3 DEF RunCallback
  <2>3. TypeOK'
    BY <2>1, <2>2, LifeFacts DEF TypeOK, connVars, refVars, sockVars, Alike, Calm, FunctorSet
  <2> QED
    BY <2>1, <2>2, <2>3, LifeFacts, LifeSame DEF connVars, refVars, sockVars
<1>4. CASE RunSend
  <2>1. /\ state # "Connecting" /\ Alike(functors, Rest) /\ Head(functors) \in FunctorSet
        /\ revents = {} /\ Calm(Rest)
    BY <1>4, RunFacts DEF RunSend
  <2>2. Head(functors).data \in Seq(Bytes)
    BY <2>1 DEF FunctorSet
  <2>3. SendInLoop(Head(functors).data, Rest) /\ UNCHANGED <<revents, delayed, refVars, peer, dataIn, wrShut, asked>>
    BY <1>4 DEF RunSend
  <2>4. /\ Alike(Rest, functors') /\ state' = state /\ reading' = reading
        /\ output' \in Seq(Bytes) /\ sent' \in Seq(Bytes) /\ sockErr' \in BOOLEAN
        /\ events' \subseteq {"read", "write"} /\ flag' \in {"new", "added", "deleted"}
        /\ state = "Disconnected" => UNCHANGED <<events, flag>>
        /\ state \in Open => /\ flag' = "added" /\ "read" \in events'
                             /\ "write" \in events' <=> output' # <<>>
        /\ wrShut => output' = <<>>
    BY <2>1, <2>2, <2>3, SendFacts
  <2>5. Alike(functors, functors')
    BY <2>1, <2>4 DEF Alike
  <2>6. TypeOK'
    BY <2>3, <2>4, LifeFacts DEF TypeOK, refVars, Alike, Calm, FunctorSet
  <2> QED
    BY <2>1, <2>3, <2>4, <2>5, <2>6, LifeFacts, LifeSame DEF refVars
<1> QED
  BY <1>1, <1>2, <1>3, <1>4

(* Calls of user code on the loop thread, and the timer of forceCloseWithDelay(). *)
LEMMA LifeInLoop ==
  ASSUME OthersOnlySend, LifeInv, UNCHANGED program,
         \/ InLoopSend \/ InLoopShutdown \/ InLoopForceClose
         \/ InLoopForceCloseWithDelay \/ InLoopStartStopRead \/ DelayExpires
  PROVE  LifeInv'
<1>0. Functor("forceClose") \in FunctorSet /\ Functor("forceClose").op = "forceClose"
  BY DEF Functor, FunctorSet, Shared
<1>1. ~InLoopStartStopRead
  BY LifeFacts DEF InLoopStartStopRead, CanCallInLoop, OthersOnlySend, TypeOK
<1>2. CASE InLoopSend
  <2>1. state = "Connected"
    BY <1>2 DEF InLoopSend
  <2>2. PICK n \in SendSizes : asked' = asked + n /\ SendInLoop(NextMessage(n), functors)
    BY <1>2 DEF InLoopSend
  <2>3. NextMessage(n) \in Seq(Bytes) /\ asked' \in 0..MaxBytes
    BY <2>2, NextMessageFacts, LifeFacts
  <2>4. UNCHANGED <<revents, delayed, refVars, peer, dataIn, wrShut>>
    BY <1>2 DEF InLoopSend
  <2>5. /\ Alike(functors, functors') /\ state' = state /\ reading' = reading
        /\ output' \in Seq(Bytes) /\ sent' \in Seq(Bytes) /\ sockErr' \in BOOLEAN
        /\ events' \subseteq {"read", "write"} /\ flag' \in {"new", "added", "deleted"}
        /\ state \in Open => /\ flag' = "added" /\ "read" \in events'
                             /\ "write" \in events' <=> output' # <<>>
        /\ wrShut => output' = <<>>
    BY <2>1, <2>2, <2>3, SendFacts, LifeFacts
  <2>6. TypeOK'
    BY <2>3, <2>4, <2>5, LifeFacts DEF TypeOK, refVars, Alike, Calm, FunctorSet
  <2> QED
    BY <2>1, <2>4, <2>5, <2>6, LifeFacts, LifeSame DEF refVars, Open
<1>3. CASE InLoopShutdown
  <2>1. /\ state = "Connected" /\ state' = "Disconnecting" /\ wrShut' = (wrShut \/ "write" \notin events)
        /\ UNCHANGED <<events, flag, reading, output, loopVars, refVars, peer, dataIn, sockErr, sent, asked>>
    BY <1>3 DEF InLoopShutdown, ShutdownInLoop
  <2>2. wrShut' => output = <<>>
    BY <2>1, LifeFacts DEF Open
  <2>3. TypeOK'
    BY <2>1, LifeFacts DEF TypeOK, States, loopVars, refVars
  <2> QED
    BY <2>1, <2>2, <2>3, LifeFacts, LifeSame DEF loopVars, refVars, Open
<1>4. ASSUME ForceClose, delayed' \in BOOLEAN PROVE LifeInv'
  <2>1. /\ state \in Open /\ state' = "Disconnecting" /\ functors' = Append(functors, Functor("forceClose"))
        /\ UNCHANGED <<events, flag, reading, output, revents, refVars, sockVars, asked>>
    BY <1>4 DEF ForceClose, Open
  <2>2. Alike(functors, functors')
    BY <1>0, <2>1, LifeFacts, AppendCalm
  <2>3. TypeOK'
    BY <1>4, <2>1, <2>2, LifeFacts DEF TypeOK, States, refVars, sockVars, Alike, Calm, FunctorSet
  <2> QED
    BY <2>1, <2>2, <2>3, LifeFacts, LifeSame DEF refVars, sockVars, Open
<1>5. CASE InLoopForceClose
  BY <1>4, <1>5, LifeFacts DEF InLoopForceClose, TypeOK
<1>6. CASE InLoopForceCloseWithDelay
  <2>1. /\ state \in Open /\ state' = "Disconnecting" /\ delayed' = TRUE
        /\ UNCHANGED <<events, flag, reading, output, revents, functors, refVars, sockVars, asked>>
    BY <1>6 DEF InLoopForceCloseWithDelay, Open
  <2>2. TypeOK'
    BY <2>1, LifeFacts DEF TypeOK, States, refVars, sockVars
  <2> QED
    BY <2>1, <2>2, LifeFacts, LifeSame DEF refVars, sockVars, Open
<1>7. CASE DelayExpires
  <2>1. delayed /\ delayed' = FALSE
    BY <1>7 DEF DelayExpires
  <2>2. CASE Alive /\ state \in Open
    BY <1>4, <1>7, <2>1, <2>2 DEF DelayExpires, Open
  <2>3. CASE ~(Alive /\ state \in Open)
    <3>1. UNCHANGED <<connVars, revents, functors, refVars, sockVars, asked>>
      BY <1>7, <2>3 DEF DelayExpires, Open
    <3>2. state # "Connecting"
      BY <2>1 DEF LifeInv, FreshInv
    <3>3. TypeOK'
      BY <2>1, <3>1, LifeFacts DEF TypeOK, connVars, refVars, sockVars
    <3> QED
      BY <3>1, <3>2, <3>3, LifeFacts, LifeSame DEF connVars, refVars, sockVars
  <2> QED
    BY <2>2, <2>3
<1> QED
  BY <1>1, <1>2, <1>3, <1>5, <1>6, <1>7

(* Calls of other threads. *)
LEMMA LifeOffLoop ==
  ASSUME OthersOnlySend, LifeInv, UNCHANGED program, NEW u \in OffThreads,
         \/ TakePointer(u) \/ DropPointer(u) \/ OffLoopMark(u) \/ OffLoopPost(u)
         \/ \E op \in Ops : OffLoopTest(u, op)
  PROVE  LifeInv'
<1>0. calling \in [OffThreads -> OffOps \union {"nothing"}] /\ "send" \in OffOps
  BY LifeFacts DEF TypeOK, Ops, OffOps
<1>1. state # "Connecting"
  BY DEF LifeInv, FreshInv, TakePointer, DropPointer, OffLoopMark, OffLoopPost, OffLoopTest
<1>2. ~OffLoopMark(u)
  BY LifeFacts DEF OffLoopMark
<1>3. CASE TakePointer(u) \/ DropPointer(u)
  <2>1. /\ holders' \subseteq holders \union {u}
        /\ UNCHANGED <<connVars, loopVars, inServer, removals, calling, marked, sockVars, asked>>
    BY <1>3 DEF TakePointer, DropPointer
  <2>2. TypeOK'
    BY <2>1, LifeFacts DEF TypeOK, connVars, loopVars, sockVars
  <2> QED
    BY <1>1, <2>1, <2>2, LifeFacts, LifeSame DEF connVars, loopVars, sockVars
<1>4. ASSUME NEW op \in Ops, OffLoopTest(u, op) PROVE LifeInv'
  <2>1. op = "send"
    BY <1>4, LifeFacts DEF OffLoopTest, OthersOnlySend, TypeOK
  <2>2. /\ calling' = [calling EXCEPT ![u] = "send"]
        /\ UNCHANGED <<connVars, loopVars, inServer, removals, holders, marked, sockVars, asked>>
    BY <1>4, <2>1 DEF OffLoopTest
  <2>3. /\ calling' \in [OffThreads -> OffOps \union {"nothing"}]
        /\ \A v \in OffThreads : calling'[v] \in {"nothing", "send"}
    BY <1>0, <2>2, LifeFacts
  <2>4. TypeOK'
    BY <2>2, <2>3, LifeFacts DEF TypeOK, connVars, loopVars, sockVars
  <2> QED
    BY <1>1, <2>2, <2>3, <2>4, LifeFacts, LifeSame DEF connVars, loopVars, sockVars
<1>5. CASE OffLoopPost(u)
  <2>1. calling[u] = "send"
    BY <1>5, LifeFacts DEF OffLoopPost
  <2>2. PICK n \in SendSizes : /\ functors' = Append(functors, [op |-> "send", data |-> NextMessage(n)])
                               /\ asked' = asked + n
    BY <1>5, <2>1 DEF OffLoopPost
  <2>3. NextMessage(n) \in Seq(Bytes) /\ asked' \in 0..MaxBytes
    BY <2>2, NextMessageFacts, LifeFacts
  <2>4. Alike(functors, functors')
    <3>1. [op |-> "send", data |-> NextMessage(n)] \in FunctorSet
      BY <2>3 DEF FunctorSet, Raw
    <3> QED
      BY <2>2, <3>1, AppendCalm, LifeFacts
  <2>5. /\ calling' = [calling EXCEPT ![u] = "nothing"] /\ marked' = marked \ {u}
        /\ UNCHANGED <<connVars, revents, delayed, inServer, removals, holders, sockVars>>
    BY <1>5 DEF OffLoopPost
  <2>6. /\ calling' \in [OffThreads -> OffOps \union {"nothing"}] /\ marked' = marked
        /\ \A v \in OffThreads : calling'[v] \in {"nothing", "send"}
    BY <1>0, <2>5, LifeFacts DEF LifeInv, UseInv
  <2>7. TypeOK'
    BY <2>3, <2>4, <2>5, <2>6, LifeFacts DEF TypeOK, connVars, sockVars, Alike, Calm, FunctorSet
  <2> QED
    BY <1>1, <2>4, <2>5, <2>6, <2>7, LifeFacts, LifeSame DEF connVars, sockVars
<1> QED
  BY <1>2, <1>3, <1>4, <1>5

(* The server has a connection that is not closed, and is not removing it. *)
LEMMA LifeOwned == ASSUME LifeInv, state # "Disconnected" PROVE inServer /\ removals = 0
<1>1. state \in States /\ FreshInv /\ OpenInv
  BY DEF LifeInv, TypeOK
<1>2. state = "Connecting" => inServer /\ removals = 0
  BY <1>1 DEF FreshInv
<1>3. state \in Open => inServer /\ removals = 0
  BY <1>1 DEF OpenInv
<1> QED
  BY <1>1, <1>2, <1>3 DEF States, Open

(* removeConnectionInLoop() *)
LEMMA LifeRemove ==
  ASSUME LifeInv, RemoveConnectionInLoop, UNCHANGED program
  PROVE  LifeInv'
<1>1. /\ removals > 0 /\ removals' = removals - 1 /\ inServer' = FALSE
      /\ functors' = Append(functors, Functor("destroyed"))
      /\ UNCHANGED <<connVars, revents, delayed, holders, calling, marked, sockVars, asked>>
  BY DEF RemoveConnectionInLoop
<1>2. state = "Disconnected"
  BY <1>1, LifeOwned
<1>3. /\ removals = 1 /\ ~Has(functors, "destroyed") /\ flag = "deleted"
      /\ revents \subseteq {"OUT"} /\ events = {}
  BY <1>1, <1>2 DEF LifeInv, ClosedInv
<1>4. /\ Calm(functors') /\ Has(functors', "destroyed")
      /\ Has(functors', "established") => Has(functors, "established")
  BY <1>1, <1>3, LifeFacts, AppendDestroyed
<1>5. TypeOK'
  <2>1. removals' = 0
    BY <1>1, <1>3
  <2>2. functors' \in Seq([op : Shared \union Raw, data : Seq(Bytes)])
    BY <1>4 DEF Calm, FunctorSet
  <2>3. /\ inServer' = FALSE
        /\ UNCHANGED <<connVars, revents, delayed, holders, calling, marked, sockVars, asked>>
    BY <1>1
  <2>4. TypeOK
    BY LifeFacts
  <2> QED
    BY <2>1, <2>2, <2>3, <2>4 DEF TypeOK, connVars, sockVars
<1>6. UseInv'
  BY <1>1, <1>2, <1>4 DEF UseInv, LifeInv, connVars
<1>7. FreshInv' /\ OpenInv'
  BY <1>1, <1>2 DEF FreshInv, OpenInv, Open, connVars
<1>8. ClosedInv'
  BY <1>1, <1>3, <1>4 DEF ClosedInv, connVars
<1>9. ShutdownAfterOutput'
  BY <1>1 DEF ShutdownAfterOutput, LifeInv, connVars, sockVars
<1> QED
  BY <1>5, <1>6, <1>7, <1>8, <1>9 DEF LifeInv

(* A step that changes nothing of the connection's own state. *)
LEMMA LifeStill ==
  ASSUME LifeInv, UNCHANGED <<program, connVars, loopVars, refVars, wrShut, sent, asked>>,
         peer' \in {"open", "fin", "reset"}, dataIn' \in BOOLEAN, sockErr' \in BOOLEAN
  PROVE  LifeInv'
BY DEF LifeInv, TypeOK, UseInv, FreshInv, OpenInv, ClosedInv, ShutdownAfterOutput, connVars, loopVars, refVars

LEMMA LifePeer ==
  ASSUME LifeInv, PeerSends \/ PeerCloses \/ PeerResets \/ UNCHANGED steps, UNCHANGED program
  PROVE  LifeInv'
<1>1. /\ UNCHANGED <<connVars, loopVars, refVars, wrShut, sent, asked>>
      /\ peer' \in {"open", "fin", "reset"} /\ dataIn' \in BOOLEAN /\ sockErr' \in BOOLEAN
  BY LifeFacts DEF PeerSends, PeerCloses, PeerResets, steps, sockVars, TypeOK
<1> QED
  BY <1>1, LifeStill

LEMMA LifeInductive == ASSUME OthersOnlySend PROVE LifeInv /\ [Next]_vars => LifeInv'
<1> SUFFICES ASSUME LifeInv, [Next]_vars PROVE LifeInv'
  OBVIOUS
<1>1. UNCHANGED program
  BY DEF Next, vars
<1>2. CASE PollReturns \/ Dispatch
  BY <1>1, <1>2, LifeDispatch
<1>3. CASE RunFunctor
  BY <1>1, <1>3, LifeEstablished, LifeDestroyed, LifeRun DEF RunFunctor
<1>4. CASE \/ InLoopSend \/ InLoopShutdown \/ InLoopForceClose
           \/ InLoopForceCloseWithDelay \/ InLoopStartStopRead \/ DelayExpires
  BY <1>1, <1>4, LifeInLoop
<1>5. ASSUME NEW u \in OffThreads,
             \/ TakePointer(u) \/ DropPointer(u) \/ OffLoopMark(u) \/ OffLoopPost(u)
             \/ \E op \in Ops : OffLoopTest(u, op)
      PROVE  LifeInv'
  BY <1>1, <1>5, LifeOffLoop
<1>6. CASE RemoveConnectionInLoop
  BY <1>1, <1>6, LifeRemove
<1>7. ~ServerDestructor
  BY DEF ServerDestructor, OthersOnlySend
<1>8. CASE PeerSends \/ PeerCloses \/ PeerResets \/ Destroyed \/ UNCHANGED vars
  BY <1>1, <1>8, LifePeer DEF Destroyed, vars
<1> QED
  BY <1>2, <1>3, <1>4, <1>5, <1>6, <1>7, <1>8 DEF Next, Step

LEMMA LifeInit == Init => LifeInv
<1> SUFFICES ASSUME Init PROVE LifeInv
  OBVIOUS
<1>1. Functor("established") \in FunctorSet /\ Functor("established").op = "established"
  BY DEF Functor, FunctorSet, Shared
<1>2. <<>> \in Seq(Bytes) /\ 0 \in 0..MaxBytes
  BY BoundsAssumption
<1>3. functors = <<Functor("established")>>
  BY DEF Init
<1>4. /\ functors \in Seq(FunctorSet) /\ Len(functors) = 1
      /\ \A i \in 1..Len(functors) : functors[i] = Functor("established")
  BY <1>1, <1>3
<1>5. Calm(functors)
  BY <1>1, <1>4 DEF Calm
<1>6. calling \in [OffThreads -> OffOps \union {"nothing"}] /\ \A u \in OffThreads : calling[u] = "nothing"
  BY DEF Init
<1>7. TypeOK
  BY <1>2, <1>4, <1>6 DEF Init, TypeOK, States, FunctorSet
<1>8. UseInv /\ FreshInv /\ OpenInv /\ ClosedInv /\ ShutdownAfterOutput
  BY <1>5, <1>6 DEF Init, UseInv, FreshInv, OpenInv, Open, ClosedInv, ShutdownAfterOutput
<1> QED
  BY <1>7, <1>8 DEF LifeInv

(* Through partial writes, closes by both sides, functors and timers, a connection
   is at one place of its life, and the server, epoll, the functor queue and
   _state agree on which. *)
THEOREM LifeInvariant == ASSUME OthersOnlySend PROVE Spec => []LifeInv
BY LifeInit, LifeInductive, PTL DEF Spec

(* While the connection is open the channel waits for POLLOUT exactly when bytes
   wait in the output buffer. *)
THEOREM InterestFollowsOutput == ASSUME OthersOnlySend PROVE Spec => []WritingWhileOutput
<1>1. LifeInv => WritingWhileOutput
  BY DEF LifeInv, OpenInv, Open, WritingWhileOutput
<1> QED
  BY <1>1, LifeInvariant, PTL

(* shutdownInLoop() and handleWrite() send the FIN behind the last byte. *)
THEOREM FinFollowsOutput == ASSUME OthersOnlySend PROVE Spec => []ShutdownAfterOutput
<1>1. LifeInv => ShutdownAfterOutput
  BY DEF LifeInv
<1> QED
  BY <1>1, LifeInvariant, PTL

(* The assertions of ~TcpConnection() and ~Chnnel() hold when the last pointer
   goes. *)
THEOREM ClosedBeforeDestroyed == ASSUME OthersOnlySend PROVE Spec => []DestroyedWhenClosed
<1>1. LifeInv => DestroyedWhenClosed
  <2> SUFFICES ASSUME LifeInv, ~Alive PROVE state = "Disconnected" /\ flag = "new"
    BY DEF DestroyedWhenClosed
  <2>1. ~inServer /\ removals \in Nat /\ ~(removals > 0) /\ ~Has(functors, "destroyed")
    BY LifeFacts DEF Alive, SharedQueued, Has, Shared, TypeOK
  <2>2. state = "Disconnected"
    BY <2>1, LifeOwned
  <2> QED
    BY <2>1, <2>2 DEF LifeInv, ClosedInv
<1> QED
  BY <1>1, LifeInvariant, PTL

(* The close callback reaches the server once: "assert(n == 1)". *)
THEOREM ServerRemovesOnce == ASSUME OthersOnlySend PROVE Spec => []RemovedOnce
<1>1. LifeInv => RemovedOnce
  <2> SUFFICES ASSUME LifeInv PROVE RemovedOnce
    OBVIOUS
  <2>1. CASE state = "Disconnected"
    BY <2>1 DEF LifeInv, ClosedInv, RemovedOnce
  <2>2. CASE state # "Disconnected"
    BY <2>2, LifeOwned DEF RemovedOnce
  <2> QED
    BY <2>1, <2>2
<1> QED
  BY <1>1, LifeInvariant, PTL

-----------------------------------------------------------------------------
(* Types, for every use of a connection. *)

ConnType == /\ state \in States /\ events \subseteq {"read", "write"}
            /\ flag \in {"new", "added", "deleted"} /\ reading \in BOOLEAN /\ output \in Seq(Bytes)
LoopType == /\ revents \subseteq {"ERR", "HUP", "IN", "OUT"} /\ functors \in Seq(FunctorSet)
            /\ delayed \in BOOLEAN
RefType == /\ inServer \in BOOLEAN /\ removals \in Nat /\ holders \subseteq OffThreads
           /\ calling \in [OffThreads -> OffOps \union {"nothing"}] /\ marked \subseteq OffThreads
SockType == /\ peer \in {"open", "fin", "reset"} /\ dataIn \in BOOLEAN /\ sockErr \in BOOLEAN
            /\ wrShut \in BOOLEAN /\ sent \in Seq(Bytes)

LEMMA TypeParts ==
  TypeOK <=> /\ program \in Programs /\ ConnType /\ LoopType /\ RefType /\ SockType
             /\ asked \in 0..MaxBytes
BY DEF TypeOK, ConnType, LoopType, RefType, SockType, FunctorSet

LEMMA TypeKept ==
  /\ ConnType /\ UNCHANGED connVars => ConnType'
  /\ LoopType /\ UNCHANGED loopVars => LoopType'
  /\ RefType /\ UNCHANGED refVars => RefType'
  /\ SockType /\ UNCHANGED sockVars => SockType'
<1>1. ConnType /\ UNCHANGED connVars => ConnType'
  BY DEF ConnType, connVars
<1>2. LoopType /\ UNCHANGED loopVars => LoopType'
  BY DEF LoopType, loopVars
<1>3. RefType /\ UNCHANGED refVars => RefType'
  BY DEF RefType, refVars
<1>4. SockType /\ UNCHANGED sockVars => SockType'
  BY DEF SockType, sockVars
<1> QED
  BY <1>1, <1>2, <1>3, <1>4

(* The queue after the functors that are appended and taken. *)
LEMMA QueueTypes ==
  ASSUME NEW q \in Seq(FunctorSet)
  PROVE  /\ \A op \in Shared \union Raw : Append(q, Functor(op)) \in Seq(FunctorSet)
         /\ \A op \in {"writeComplete", "highWater"} : Notify(op, q) \in Seq(FunctorSet)
         /\ q # <<>> => Tail(q) \in Seq(FunctorSet) /\ Head(q) \in FunctorSet
<1>1. \A op \in Shared \union Raw : Functor(op) \in FunctorSet
  BY DEF Functor, FunctorSet
<1>2. \A op \in Shared \union Raw : Append(q, Functor(op)) \in Seq(FunctorSet)
  BY <1>1
<1>3. \A op \in {"writeComplete", "highWater"} : Notify(op, q) \in Seq(FunctorSet)
  BY <1>2 DEF Notify, Shared
<1> QED
  BY <1>2, <1>3

LEMMA ConnTypes ==
  ASSUME ConnType
  PROVE  /\ \A evts \in SUBSET {"read", "write"} :
              SetEvents(evts) => events' \subseteq {"read", "write"} /\ flag' \in {"new", "added", "deleted"}
         /\ StartReadInLoop \/ StopReadInLoop => ConnType'
         /\ RefType /\ HandleClose => ConnType' /\ RefType'
<1>1. \A evts \in SUBSET {"read", "write"} :
         SetEvents(evts) => events' \subseteq {"read", "write"} /\ flag' \in {"new", "added", "deleted"}
  BY DEF SetEvents, Updated
<1>2. StartReadInLoop => ConnType'
  BY <1>1 DEF StartReadInLoop, ConnType
<1>3. StopReadInLoop => ConnType'
  BY <1>1 DEF StopReadInLoop, ConnType
<1>4. RefType /\ HandleClose => ConnType' /\ RefType'
  BY <1>1 DEF HandleClose, ConnType, RefType, States
<1> QED
  BY <1>1, <1>2, <1>3, <1>4

(* sendInLoop(): the message is dropped, or a part of it, none unless nothing waits,
   is written and the rest buffered. *)
LEMMA SendShape ==
  ASSUME ConnType, SockType, NEW msg \in Seq(Bytes), NEW q, SendInLoop(msg, q)
  PROVE  /\ functors' \in {q, Notify("writeComplete", q), Notify("highWater", q)}
         /\ UNCHANGED <<state, reading>> /\ sockErr' \in BOOLEAN
         /\ events' \subseteq {"read", "write"} /\ flag' \in {"new", "added", "deleted"}
         /\ \/ UNCHANGED <<output, sent>> /\ (state = "Disconnected" \/ WriteFails)
            \/ \E k \in 0..Len(msg) :
                 /\ sent' = sent \o SubSeq(msg, 1, k) /\ output' = output \o After(msg, k)
                 /\ k = 0 \/ (output = <<>> /\ ~WriteFails)
<1> DEFINE direct == "write" \notin events /\ output = <<>>
<1>1. CASE state = "Disconnected" \/ (direct /\ WriteFails)
  <2>1. functors' = q /\ sockErr' \in BOOLEAN /\ UNCHANGED <<connVars, sent>>
    BY <1>1 DEF SendInLoop, SockType
  <2> QED
    BY <1>1, <2>1 DEF connVars, ConnType
<1>2. CASE ~(state = "Disconnected" \/ (direct /\ WriteFails))
  <2>1. PICK k \in IF direct THEN Takes(Len(msg)) ELSE {0} :
          /\ sent' = sent \o SubSeq(msg, 1, k)
          /\ output' = output \o After(msg, k)
          /\ functors' = IF After(msg, k) = <<>> THEN Notify("writeComplete", q)
                         ELSE IF Len(output) + Len(After(msg, k)) >= HighWater /\ Len(output) < HighWater
                         THEN Notify("highWater", q) ELSE q
          /\ IF After(msg, k) # <<>> /\ "write" \notin events
             THEN SetEvents(events \union {"write"}) ELSE UNCHANGED <<events, flag>>
          /\ UNCHANGED <<state, reading, sockErr>>
    BY <1>2, Zenon DEF SendInLoop
  <2>2. k \in 0..Len(msg) /\ (k = 0 \/ (output = <<>> /\ ~WriteFails))
    BY <1>2 DEF Takes
  <2>3. functors' \in {q, Notify("writeComplete", q), Notify("highWater", q)}
    BY <2>1
  <2>4. events' \subseteq {"read", "write"} /\ flag' \in {"new", "added", "deleted"}
    <3>1. CASE SetEvents(events \union {"write"})
      BY <3>1, ConnTypes DEF ConnType
    <3>2. CASE UNCHANGED <<events, flag>>
      BY <3>2 DEF ConnType
    <3> QED
      BY <2>1, <3>1, <3>2
  <2> QED
    BY <2>1, <2>2, <2>3, <2>4 DEF SockType
<1> QED
  BY <1>1, <1>2

(* handleWrite(): some bytes of the front of the buffer go to the kernel. *)
LEMMA WriteShape ==
  ASSUME ConnType, SockType, HandleWrite
  PROVE  /\ functors' \in {functors, Notify("writeComplete", functors)}
         /\ UNCHANGED <<state, reading, delayed, refVars, peer, dataIn, asked>>
         /\ revents' = {} /\ sockErr' \in BOOLEAN /\ wrShut' \in BOOLEAN
         /\ (wrShut => wrShut') /\ (wrShut' => wrShut \/ state = "Disconnecting")
         /\ events' \subseteq {"read", "write"} /\ flag' \in {"new", "added", "deleted"}
         /\ \E k \in 0..Len(output) :
              /\ sent' = sent \o SubSeq(output, 1, k) /\ output' = After(output, k)
              /\ k = 0 \/ ~WriteFails
<1>1. PICK k \in IF "write" \in events /\ ~WriteFails THEN Takes(Len(output)) ELSE {0} :
        /\ sent' = sent \o SubSeq(output, 1, k)
        /\ output' = After(output, k)
        /\ IF k > 0 /\ k = Len(output)
           THEN /\ SetEvents(events \ {"write"})
                /\ functors' = Notify("writeComplete", functors)
                /\ wrShut' = (wrShut \/ state = "Disconnecting")
           ELSE UNCHANGED <<events, flag, functors, wrShut>>
  BY Zenon DEF HandleWrite
<1>2. /\ revents' = {} /\ sockErr' \in BOOLEAN
      /\ UNCHANGED <<state, reading, delayed, refVars, peer, dataIn, asked>>
  BY DEF HandleWrite, SockType
<1>3. k \in 0..Len(output) /\ (k = 0 \/ ~WriteFails)
  BY DEF Takes, ConnType
<1>4. /\ functors' \in {functors, Notify("writeComplete", functors)}
      /\ wrShut' \in BOOLEAN /\ (wrShut => wrShut') /\ (wrShut' => wrShut \/ state = "Disconnecting")
      /\ events' \subseteq {"read", "write"} /\ flag' \in {"new", "added", "deleted"}
  <2>1. CASE k > 0 /\ k = Len(output)
    BY <1>1, <2>1, ConnTypes DEF ConnType
  <2>2. CASE ~(k > 0 /\ k = Len(output))
    BY <1>1, <2>2 DEF ConnType, SockType
  <2> QED
    BY <2>1, <2>2
<1> QED
  BY <1>1, <1>2, <1>3, <1>4

(* What a connection's events, its functors and its users do to its types. *)
LEMMA TypeDispatch ==
  ASSUME TypeOK, PollReturns \/ Dispatch PROVE ConnType' /\ LoopType' /\ RefType' /\ SockType' /\ UNCHANGED asked
<1>0. ConnType /\ LoopType /\ RefType /\ SockType
  BY TypeParts
<1>1. CASE PollReturns
  <2>1. /\ UNCHANGED <<connVars, functors, delayed, refVars, sockVars, asked>>
        /\ revents' \subseteq {"ERR", "HUP", "IN", "OUT"}
    BY <1>1 DEF PollReturns
  <2> QED
    BY <1>0, <2>1, TypeKept DEF LoopType
<1>2. CASE HandleError
  <2>1. LoopType' /\ SockType'
    BY <1>0, <1>2 DEF HandleError, LoopType, SockType
  <2> QED
    BY <1>0, <1>2, <2>1, TypeKept DEF HandleError
<1>3. CASE HandleHup
  <2>1. LoopType'
    BY <1>0, <1>3 DEF HandleHup, LoopType
  <2>2. HandleClose \/ UNCHANGED <<connVars, refVars>>
    BY <1>3 DEF HandleHup
  <2> QED
    BY <1>0, <1>3, <2>1, <2>2, TypeKept, ConnTypes DEF HandleHup
<1>4. CASE HandleRead
  <2>1. LoopType' /\ SockType'
    BY <1>0, <1>4 DEF HandleRead, LoopType, SockType
  <2>2. HandleClose \/ UNCHANGED <<connVars, refVars>>
    BY <1>4 DEF HandleRead
  <2> QED
    BY <1>0, <1>4, <2>1, <2>2, TypeKept, ConnTypes DEF HandleRead
<1>5. CASE HandleWrite
  <2>1. /\ functors' \in {functors, Notify("writeComplete", functors)}
        /\ UNCHANGED <<state, reading, delayed, refVars, peer, dataIn, asked>>
        /\ revents' = {} /\ sockErr' \in BOOLEAN /\ wrShut' \in BOOLEAN
        /\ events' \subseteq {"read", "write"} /\ flag' \in {"new", "added", "deleted"}
    BY <1>0, <1>5, WriteShape
  <2>2. PICK k \in 0..Len(output) : sent' = sent \o SubSeq(output, 1, k) /\ output' = After(output, k)
    BY <1>0, <1>5, WriteShape
  <2>3. output' \in Seq(Bytes) /\ SubSeq(output, 1, k) \in Seq(Bytes)
    BY <1>0, <2>2, Leftover DEF ConnType
  <2>4. sent' \in Seq(Bytes)
    BY <1>0, <2>2, <2>3, Joined DEF SockType
  <2>5. functors' \in Seq(FunctorSet)
    BY <1>0, <2>1, QueueTypes DEF LoopType
  <2>6. ConnType'
    BY <1>0, <2>1, <2>3 DEF ConnType
  <2>7. SockType'
    BY <1>0, <2>1, <2>4 DEF SockType
  <2>8. LoopType'
    BY <1>0, <2>1, <2>5 DEF LoopType
  <2> QED
    BY <1>0, <2>1, <2>6, <2>7, <2>8, TypeKept
<1> QED
  BY <1>1, <1>2, <1>3, <1>4, <1>5 DEF Dispatch

LEMMA SendTypes ==
  ASSUME TypeOK, NEW msg \in Seq(Bytes), NEW q \in Seq(FunctorSet), SendInLoop(msg, q),
         UNCHANGED <<revents, delayed, peer, dataIn, wrShut>>
  PROVE  ConnType' /\ LoopType' /\ SockType'
<1>0. ConnType /\ LoopType /\ SockType
  BY TypeParts
<1>1. /\ functors' \in {q, Notify("writeComplete", q), Notify("highWater", q)}
      /\ UNCHANGED <<state, reading>> /\ sockErr' \in BOOLEAN
      /\ events' \subseteq {"read", "write"} /\ flag' \in {"new", "added", "deleted"}
  BY <1>0, SendShape
<1>2. output' \in Seq(Bytes) /\ sent' \in Seq(Bytes)
  <2>1. CASE UNCHANGED <<output, sent>>
    BY <1>0, <2>1 DEF ConnType, SockType
  <2>2. ASSUME NEW k \in 0..Len(msg), sent' = sent \o SubSeq(msg, 1, k), output' = output \o After(msg, k)
        PROVE  output' \in Seq(Bytes) /\ sent' \in Seq(Bytes)
    <3>1. After(msg, k) \in Seq(Bytes) /\ SubSeq(msg, 1, k) \in Seq(Bytes)
      BY Leftover
    <3> QED
      BY <1>0, <2>2, <3>1, Joined DEF ConnType, SockType
  <2> QED
    BY <1>0, <2>1, <2>2, SendShape
<1>3. functors' \in Seq(FunctorSet)
  BY <1>1, QueueTypes
<1>4. ConnType'
  BY <1>0, <1>1, <1>2 DEF ConnType
<1>5. SockType'
  BY <1>0, <1>1, <1>2 DEF SockType
<1>6. LoopType'
  BY <1>0, <1>3 DEF LoopType
<1> QED
  BY <1>4, <1>5, <1>6

LEMMA TypeRun ==
  ASSUME TypeOK, RunFunctor PROVE ConnType' /\ LoopType' /\ RefType' /\ SockType' /\ UNCHANGED asked
<1>0. ConnType /\ LoopType /\ RefType /\ SockType
  BY TypeParts
<1>1. functors # <<>>
  BY DEF RunFunctor, RunEstablished, RunDestroyed, RunForceClose, RunCallback, RunSend, RunShutdown,
         RunStartStopRead, Run
<1>2. Rest \in Seq(FunctorSet) /\ Head(functors) \in FunctorSet
  BY <1>0, <1>1, QueueTypes DEF LoopType, Rest
<1>3. functors' = Rest /\ UNCHANGED <<revents, delayed>> => LoopType'
  BY <1>0, <1>2 DEF LoopType
<1>4. CASE RunEstablished
  <2>1. ConnType'
    <3>1. events \union {"read"} \in SUBSET {"read", "write"}
      BY <1>0 DEF ConnType
    <3>2. events' \subseteq {"read", "write"} /\ flag' \in {"new", "added", "deleted"}
      BY <1>0, <1>4, <3>1, ConnTypes DEF RunEstablished
    <3> QED
      BY <1>0, <1>4, <3>2 DEF RunEstablished, ConnType, States
  <2> QED
    BY <1>0, <1>3, <1>4, <2>1, TypeKept DEF RunEstablished
<1>5. CASE RunDestroyed
  <2>1. ConnType'
    BY <1>0, <1>5 DEF RunDestroyed, ConnType, States
  <2> QED
    BY <1>0, <1>3, <1>5, <2>1, TypeKept DEF RunDestroyed
<1>6. CASE RunForceClose
  <2>1. HandleClose \/ UNCHANGED <<connVars, refVars>>
    BY <1>6 DEF RunForceClose
  <2> QED
    BY <1>0, <1>3, <1>6, <2>1, TypeKept, ConnTypes DEF RunForceClose
<1>7. CASE RunCallback
  BY <1>0, <1>3, <1>7, TypeKept DEF RunCallback
<1>8. CASE RunSend
  <2>1. Head(functors).data \in Seq(Bytes)
    BY <1>2 DEF FunctorSet
  <2>2. /\ SendInLoop(Head(functors).data, Rest)
        /\ UNCHANGED <<revents, delayed, refVars, peer, dataIn, wrShut, asked>>
    BY <1>8 DEF RunSend
  <2>3. ConnType' /\ LoopType' /\ SockType'
    BY <1>2, <2>1, <2>2, SendTypes
  <2> QED
    BY <1>0, <2>2, <2>3, TypeKept
<1>9. CASE RunShutdown
  <2>1. SockType'
    BY <1>0, <1>9 DEF RunShutdown, ShutdownInLoop, SockType
  <2> QED
    BY <1>0, <1>3, <1>9, <2>1, TypeKept DEF RunShutdown
<1>10. CASE RunStartStopRead
  <2>1. StartReadInLoop \/ StopReadInLoop
    BY <1>10 DEF RunStartStopRead
  <2> QED
    BY <1>0, <1>3, <1>10, <2>1, TypeKept, ConnTypes DEF RunStartStopRead
<1> QED
  BY <1>4, <1>5, <1>6, <1>7, <1>8, <1>9, <1>10 DEF RunFunctor

LEMMA TypeInLoop ==
  ASSUME TypeOK,
         \/ InLoopSend \/ InLoopShutdown \/ InLoopForceClose
         \/ InLoopForceCloseWithDelay \/ InLoopStartStopRead \/ DelayExpires
  PROVE  ConnType' /\ LoopType' /\ RefType' /\ SockType' /\ asked' \in 0..MaxBytes
<1>0. ConnType /\ LoopType /\ RefType /\ SockType /\ asked \in 0..MaxBytes
  BY TypeParts
<1>1. CASE InLoopSend
  <2>1. PICK n \in SendSizes : asked' = asked + n /\ SendInLoop(NextMessage(n), functors)
    BY <1>1 DEF InLoopSend
  <2>2. UNCHANGED <<revents, delayed, refVars, peer, dataIn, wrShut>>
    BY <1>1 DEF InLoopSend
  <2>3. NextMessage(n) \in Seq(Bytes) /\ asked' \in 0..MaxBytes
    BY <2>1, NextMessageFacts
  <2>4. ConnType' /\ LoopType' /\ SockType'
    BY <1>0, <2>1, <2>2, <2>3, SendTypes DEF LoopType
  <2> QED
    BY <1>0, <2>2, <2>3, <2>4, TypeKept
<1>2. CASE InLoopShutdown
  <2>1. ConnType' /\ SockType'
    BY <1>0, <1>2 DEF InLoopShutdown, ShutdownInLoop, ConnType, SockType, States
  <2> QED
    BY <1>0, <1>2, <2>1, TypeKept DEF InLoopShutdown
<1>3. ASSUME ForceClose, delayed' \in BOOLEAN
      PROVE  ConnType' /\ LoopType' /\ RefType' /\ SockType' /\ asked' \in 0..MaxBytes
  <2>1. "forceClose" \in Shared \union Raw
    BY DEF Shared
  <2>2. LoopType'
    BY <1>0, <1>3, <2>1, QueueTypes DEF ForceClose, LoopType
  <2>3. ConnType'
    BY <1>0, <1>3 DEF ForceClose, ConnType, States
  <2> QED
    BY <1>0, <1>3, <2>2, <2>3, TypeKept DEF ForceClose
<1>4. CASE InLoopForceClose
  BY <1>0, <1>3, <1>4 DEF InLoopForceClose, LoopType
<1>5. CASE InLoopForceCloseWithDelay
  <2>1. ConnType' /\ LoopType'
    BY <1>0, <1>5 DEF InLoopForceCloseWithDelay, ConnType, LoopType, States
  <2> QED
    BY <1>0, <1>5, <2>1, TypeKept DEF InLoopForceCloseWithDelay
<1>6. CASE InLoopStartStopRead
  <2>1. StartReadInLoop \/ StopReadInLoop
    BY <1>6 DEF InLoopStartStopRead
  <2> QED
    BY <1>0, <1>6, <2>1, TypeKept, ConnTypes DEF InLoopStartStopRead
<1>7. CASE DelayExpires
  <2>1. delayed' = FALSE
    BY <1>7 DEF DelayExpires
  <2>2. CASE ForceClose
    BY <1>3, <2>1, <2>2
  <2>3. CASE UNCHANGED <<connVars, revents, functors, refVars, sockVars, asked>>
    <3>1. LoopType'
      BY <1>0, <2>1, <2>3 DEF LoopType
    <3> QED
      BY <1>0, <2>3, <3>1, TypeKept
  <2> QED
    BY <1>7, <2>2, <2>3 DEF DelayExpires
<1> QED
  BY <1>1, <1>2, <1>4, <1>5, <1>6, <1>7

LEMMA TypeOffLoop ==
  ASSUME TypeOK, NEW u \in OffThreads,
         \/ TakePointer(u) \/ DropPointer(u) \/ OffLoopMark(u) \/ OffLoopPost(u)
         \/ \E op \in Ops : OffLoopTest(u, op)
  PROVE  ConnType' /\ LoopType' /\ RefType' /\ SockType' /\ asked' \in 0..MaxBytes
<1>0. ConnType /\ LoopType /\ RefType /\ SockType /\ asked \in 0..MaxBytes
  BY TypeParts
<1>1. CASE TakePointer(u) \/ DropPointer(u)
  <2>1. RefType'
    BY <1>0, <1>1 DEF TakePointer, DropPointer, RefType
  <2> QED
    BY <1>0, <1>1, <2>1, TypeKept DEF TakePointer, DropPointer
<1>2. CASE OffLoopMark(u)
  <2>1. ConnType' /\ RefType'
    BY <1>0, <1>2 DEF OffLoopMark, ConnType, RefType, States
  <2> QED
    BY <1>0, <1>2, <2>1, TypeKept DEF OffLoopMark
<1>3. program.offLoop \subseteq OffOps
  BY TypeParts, ProgramsAssumption
<1>4. ASSUME NEW op \in Ops, OffLoopTest(u, op)
      PROVE  ConnType' /\ LoopType' /\ RefType' /\ SockType' /\ asked' \in 0..MaxBytes
  <2>1. RefType'
    BY <1>0, <1>4, <1>3 DEF OffLoopTest, RefType
  <2> QED
    BY <1>0, <1>4, <2>1, TypeKept DEF OffLoopTest
<1>5. CASE OffLoopPost(u)
  <2>1. RefType'
    BY <1>0, <1>5 DEF OffLoopPost, RefType
  <2>2. UNCHANGED <<connVars, sockVars, revents, delayed>>
    BY <1>5 DEF OffLoopPost
  <2>3. functors' \in Seq(FunctorSet) /\ asked' \in 0..MaxBytes
    <3>1. CASE calling[u] = "send"
      <4>1. PICK n \in SendSizes : /\ functors' = Append(functors, [op |-> "send", data |-> NextMessage(n)])
                                   /\ asked' = asked + n
        BY <1>5, <3>1 DEF OffLoopPost
      <4>2. NextMessage(n) \in Seq(Bytes) /\ asked' \in 0..MaxBytes
        BY <4>1, NextMessageFacts
      <4>3. [op |-> "send", data |-> NextMessage(n)] \in FunctorSet
        BY <4>2 DEF FunctorSet, Raw
      <4> QED
        BY <1>0, <4>1, <4>2, <4>3 DEF LoopType
    <3>2. CASE calling[u] # "send"
      <4>1. functors' = Append(functors, Functor(calling[u])) /\ UNCHANGED asked
        BY <1>5, <3>2 DEF OffLoopPost
      <4>2. calling[u] \in Shared \union Raw
        BY <1>0, <1>5 DEF OffLoopPost, RefType, Ops, OffOps, Shared, Raw
      <4> QED
        BY <1>0, <4>1, <4>2, QueueTypes DEF LoopType
    <3> QED
      BY <3>1, <3>2
  <2>4. LoopType'
    BY <1>0, <2>2, <2>3 DEF LoopType
  <2> QED
    BY <1>0, <2>1, <2>2, <2>3, <2>4, TypeKept
<1> QED
  BY <1>1, <1>2, <1>4, <1>5

LEMMA TypeServerPeer ==
  ASSUME TypeOK, RemoveConnectionInLoop \/ ServerDestructor \/ PeerSends \/ PeerCloses \/ PeerResets
  PROVE  ConnType' /\ LoopType' /\ RefType' /\ SockType' /\ UNCHANGED asked
<1>0. ConnType /\ LoopType /\ RefType /\ SockType /\ "destroyed" \in Shared \union Raw
  BY TypeParts DEF Shared
<1>1. CASE RemoveConnectionInLoop \/ ServerDestructor
  <2>1. LoopType'
    BY <1>0, <1>1, QueueTypes DEF RemoveConnectionInLoop, ServerDestructor, LoopType
  <2>2. inServer' = FALSE /\ removals' \in Nat /\ UNCHANGED <<holders, calling, marked>>
    <3>1. removals \in Nat
      BY <1>0 DEF RefType
    <3>2. CASE RemoveConnectionInLoop
      <4>1. removals > 0 /\ removals' = removals - 1
        BY <3>2 DEF RemoveConnectionInLoop
      <4>2. removals' \in Nat
        BY <3>1, <4>1
      <4> QED
        BY <3>2, <4>2 DEF RemoveConnectionInLoop
    <3>3. CASE ServerDestructor
      BY <3>1, <3>3 DEF ServerDestructor
    <3> QED
      BY <1>1, <3>2, <3>3
  <2>3. RefType'
    BY <1>0, <2>2 DEF RefType
  <2> QED
    BY <1>0, <1>1, <2>1, <2>3, TypeKept DEF RemoveConnectionInLoop, ServerDestructor
<1>2. CASE PeerSends \/ PeerCloses \/ PeerResets
  <2>1. SockType'
    BY <1>0, <1>2 DEF PeerSends, PeerCloses, PeerResets, SockType
  <2> QED
    BY <1>0, <1>2, <2>1, TypeKept DEF PeerSends, PeerCloses, PeerResets
<1> QED
  BY <1>1, <1>2

LEMMA TypeInductive == TypeOK /\ [Next]_vars => TypeOK'
<1> SUFFICES ASSUME TypeOK, [Next]_vars PROVE TypeOK'
  OBVIOUS
<1>0. /\ UNCHANGED program /\ program \in Programs /\ asked \in 0..MaxBytes
      /\ ConnType /\ LoopType /\ RefType /\ SockType
  BY TypeParts DEF Next, vars
<1>1. (UNCHANGED steps => ConnType' /\ LoopType' /\ RefType' /\ SockType') /\ (UNCHANGED steps => UNCHANGED asked)
  BY <1>0, TypeKept DEF steps
<1>2. ConnType' /\ LoopType' /\ RefType' /\ SockType' /\ asked' \in 0..MaxBytes
  BY <1>0, <1>1, TypeDispatch, TypeRun, TypeInLoop, TypeOffLoop, TypeServerPeer DEF Next, Step, Destroyed, vars
<1>3. program' \in Programs
  BY <1>0
<1> QED
  BY <1>2, <1>3 DEF TypeOK, ConnType, LoopType, RefType, SockType, FunctorSet

LEMMA TypeInit == Init => TypeOK
BY LifeInit DEF LifeInv

(* Every use of the connection keeps to the types. *)
THEOREM TypeCorrect == Spec => []TypeOK
BY TypeInit, TypeInductive, PTL DEF Spec

-----------------------------------------------------------------------------
(* The order of the bytes, whoever closes the connection and however. *)

(* What is sent is sent on the loop thread: the order of the calls of send() is then
   that of the program. *)
SendsInLoop == \A p \in Programs : "send" \notin p.offLoop

(* No send() waits in the queue, and connectEstablished() is its head or gone. *)
Quiet(q) == /\ q \in Seq(FunctorSet)
            /\ \A i \in 1..Len(q) : q[i].op # "send" /\ (q[i].op = "established" => i = 1)

NewInv == Has(functors, "established") =>
            /\ asked = 0 /\ state \in {"Connecting", "Disconnected"} /\ holders = {}
            /\ \A u \in OffThreads : calling[u] = "nothing"

(* Until writing fails, which it does for good, the buffer continues what the kernel
   took, and a connected connection has lost nothing. *)
BytesInv == /\ asked = 0 => sent = <<>> /\ output = <<>>
            /\ ~WriteFails => /\ \A i \in 1..Len(output) : output[i] = Len(sent) + i
                              /\ state = "Connected" => Len(sent) + Len(output) = asked

OrderInv == /\ TypeOK /\ SentInOrder /\ Quiet(functors) /\ NewInv /\ BytesInv
            /\ \A u \in OffThreads : calling[u] # "send"

LEMMA QuietAppend ==
  ASSUME NEW q, Quiet(q), NEW op \in (Shared \union Raw) \ {"send", "established"}
  PROVE  LET r == Append(q, Functor(op))
         IN  Quiet(r) /\ (Has(r, "established") => Has(q, "established"))
<1> DEFINE f == Functor(op)
           r == Append(q, f)
<1>1. q \in Seq(FunctorSet) /\ f \in FunctorSet /\ f.op = op
  BY DEF Quiet, Functor, FunctorSet
<1> HIDE DEF f
<1>2. /\ r \in Seq(FunctorSet)
      /\ \A i \in 1..Len(r) : (i \in 1..Len(q) /\ r[i] = q[i]) \/ r[i] = f
  BY <1>1
<1> HIDE DEF r
<1>3. Quiet(r)
  BY <1>1, <1>2 DEF Quiet
<1>4. Has(r, "established") => Has(q, "established")
  BY <1>1, <1>2 DEF Has
<1> QED
  BY <1>3, <1>4 DEF r, f

LEMMA QuietNotify ==
  ASSUME NEW q, Quiet(q), NEW op \in {"writeComplete", "highWater"}
  PROVE  Quiet(Notify(op, q)) /\ (Has(Notify(op, q), "established") => Has(q, "established"))
<1>1. op \in (Shared \union Raw) \ {"send", "established"}
  BY DEF Shared
<1> QED
  BY <1>1, QuietAppend DEF Notify

LEMMA QuietTail ==
  ASSUME NEW q, Quiet(q), q # <<>>
  PROVE  Quiet(Tail(q)) /\ ~Has(Tail(q), "established") /\ Head(q).op # "send" /\ Has(q, Head(q).op)
<1> DEFINE r == Tail(q)
<1>1. q \in Seq(FunctorSet) /\ r \in Seq(FunctorSet) /\ Head(q) = q[1] /\ 1 \in 1..Len(q)
  BY DEF Quiet
<1>2. \A i \in 1..Len(r) : i + 1 \in 1..Len(q) /\ r[i] = q[i + 1] /\ i + 1 # 1
  BY <1>1
<1> HIDE DEF r
<1>3. \A i \in 1..Len(r) : r[i].op # "send" /\ r[i].op # "established"
  BY <1>2 DEF Quiet
<1>4. Quiet(r) /\ ~Has(r, "established")
  BY <1>1, <1>3 DEF Quiet, Has
<1>5. Head(q).op # "send" /\ Has(q, Head(q).op)
  BY <1>1 DEF Quiet, Has
<1> QED
  BY <1>4, <1>5 DEF r

(* A step that moves no bytes. *)
LEMMA OrderSame ==
  ASSUME OrderInv, TypeOK', UNCHANGED <<output, sent, asked>>, WriteFails => WriteFails',
         state' = "Connected" => state = "Connected",
         Quiet(functors'), Has(functors', "established") => Has(functors, "established"),
         \A u \in OffThreads : calling'[u] # "send",
         Has(functors, "established") => /\ state' \in {"Connecting", "Disconnected"}
                                         /\ UNCHANGED <<holders, calling>>
  PROVE  OrderInv'
<1>1. SentInOrder'
  BY DEF SentInOrder, OrderInv
<1>2. NewInv'
  BY DEF NewInv, OrderInv
<1>3. BytesInv'
  BY DEF BytesInv, OrderInv
<1> QED
  BY <1>1, <1>2, <1>3 DEF OrderInv

LEMMA JoinedAt ==
  ASSUME NEW s \in Seq(Bytes), NEW t \in Seq(Bytes)
  PROVE  /\ Len(s \o t) = Len(s) + Len(t) /\ Len(s) \in Nat /\ Len(t) \in Nat
         /\ \A i \in 1..Len(s) : (s \o t)[i] = s[i]
         /\ \A i \in Len(s) + 1 .. Len(s) + Len(t) : (s \o t)[i] = t[i - Len(s)]
OBVIOUS

(* handleWrite() moves bytes from the front of the buffer to the end of the stream. *)
LEMMA OrderWrite ==
  ASSUME OrderInv, TypeOK', HandleWrite
  PROVE  OrderInv'
<1>0. /\ ConnType /\ SockType /\ output \in Seq(Bytes) /\ sent \in Seq(Bytes) /\ asked \in Nat
      /\ output' \in Seq(Bytes) /\ sent' \in Seq(Bytes)
  BY TypeParts DEF OrderInv, TypeOK
<1>1. /\ functors' \in {functors, Notify("writeComplete", functors)}
      /\ UNCHANGED <<state, refVars, peer, asked>> /\ (wrShut => wrShut')
  BY <1>0, WriteShape
<1>2. PICK k \in 0..Len(output) : /\ sent' = sent \o SubSeq(output, 1, k) /\ output' = After(output, k)
                                  /\ k = 0 \/ ~WriteFails
  BY <1>0, WriteShape
<1>3. /\ k \in Nat /\ Len(output) \in Nat /\ Len(sent) \in Nat /\ k <= Len(output)
      /\ SubSeq(output, 1, k) \in Seq(Bytes) /\ Len(SubSeq(output, 1, k)) = k
      /\ \A i \in 1..k : SubSeq(output, 1, k)[i] = output[i]
      /\ Len(output') = Len(output) - k /\ \A i \in 1..Len(output) - k : output'[i] = output[k + i]
  <2>1. k \in Nat /\ Len(output) \in Nat /\ Len(sent) \in Nat /\ k <= Len(output)
    BY <1>0
  <2>2. /\ SubSeq(output, 1, k) \in Seq(Bytes) /\ Len(SubSeq(output, 1, k)) = k
        /\ \A i \in 1..k : SubSeq(output, 1, k)[i] = output[i]
    BY <1>0, Leftover
  <2>3. /\ Len(After(output, k)) = Len(output) - k
        /\ \A i \in 1..Len(output) - k : After(output, k)[i] = output[k + i]
    BY <1>0, Leftover
  <2> QED
    BY <1>2, <2>1, <2>2, <2>3
<1>4. /\ Len(sent') = Len(sent) + k
      /\ \A i \in 1..Len(sent) : sent'[i] = sent[i]
      /\ \A i \in Len(sent) + 1 .. Len(sent) + k : sent'[i] = SubSeq(output, 1, k)[i - Len(sent)]
  BY <1>0, <1>2, <1>3, JoinedAt
<1>5. \A i \in Len(sent) + 1 .. Len(sent) + k : i - Len(sent) \in 1..k /\ sent'[i] = output[i - Len(sent)]
  BY <1>3, <1>4
<1>6. SentInOrder'
  <2> SUFFICES ASSUME NEW i \in 1..Len(sent') PROVE sent'[i] = i
    BY DEF SentInOrder
  <2>1. CASE i \in 1..Len(sent)
    BY <1>4, <2>1 DEF OrderInv, SentInOrder
  <2>2. CASE i \in Len(sent) + 1 .. Len(sent) + k
    <3>1. ~WriteFails /\ i - Len(sent) \in 1..Len(output)
      BY <1>2, <1>3, <2>2
    <3>2. output[i - Len(sent)] = Len(sent) + (i - Len(sent))
      BY <3>1 DEF OrderInv, BytesInv
    <3> QED
      BY <1>3, <1>5, <2>2, <3>2
  <2> QED
    BY <1>3, <1>4, <2>1, <2>2
<1>7. BytesInv'
  <2>1. ASSUME asked' = 0 PROVE sent' = <<>> /\ output' = <<>>
    <3>1. Len(sent) = 0 /\ Len(output) = 0
      BY <1>1, <2>1 DEF OrderInv, BytesInv
    <3>2. k \in Nat /\ k <= Len(output) /\ Len(output') = Len(output) - k /\ Len(sent') = Len(sent) + k
      BY <1>3, <1>4
    <3>3. Len(sent') = 0 /\ Len(output') = 0
      <4>1. k <= 0 /\ Len(output') = 0 - k /\ Len(sent') = 0 + k
        BY <3>1, <3>2
      <4>2. k = 0
        BY <3>2, <4>1
      <4> QED
        BY <4>1, <4>2
    <3> QED
      BY <1>0, <3>3
  <2>2. ASSUME ~WriteFails'
        PROVE  /\ \A i \in 1..Len(output') : output'[i] = Len(sent') + i
               /\ state' = "Connected" => Len(sent') + Len(output') = asked'
    <3>1. ~WriteFails
      BY <1>1, <2>2 DEF WriteFails
    <3>2. /\ \A i \in 1..Len(output) : output[i] = Len(sent) + i
          /\ state = "Connected" => Len(sent) + Len(output) = asked
      BY <3>1 DEF OrderInv, BytesInv
    <3>3. \A i \in 1..Len(output') : output'[i] = Len(sent') + i
      BY <1>3, <1>4, <3>2
    <3> QED
      BY <1>1, <1>3, <1>4, <3>2, <3>3
  <2> QED
    BY <2>1, <2>2 DEF BytesInv
<1>8. Quiet(functors') /\ (Has(functors', "established") => Has(functors, "established"))
  BY <1>1, QuietNotify DEF OrderInv
<1>9. NewInv' /\ \A u \in OffThreads : calling'[u] # "send"
  BY <1>1, <1>8 DEF NewInv, OrderInv, refVars
<1> QED
  BY <1>6, <1>7, <1>8, <1>9 DEF OrderInv

(* send() on the loop thread: the message follows what was written and what waits. *)
LEMMA OrderSend ==
  ASSUME OrderInv, TypeOK', InLoopSend
  PROVE  OrderInv'
<1>0. /\ ConnType /\ SockType /\ output \in Seq(Bytes) /\ sent \in Seq(Bytes) /\ asked \in Nat
      /\ output' \in Seq(Bytes) /\ sent' \in Seq(Bytes)
  BY TypeParts DEF OrderInv, TypeOK
<1>1. state = "Connected" /\ UNCHANGED <<refVars, peer, wrShut>>
  BY DEF InLoopSend
<1>2. PICK n \in SendSizes : asked' = asked + n /\ SendInLoop(NextMessage(n), functors)
  BY DEF InLoopSend
<1> DEFINE msg == NextMessage(n)
<1>3. /\ n \in Nat \ {0} /\ msg \in Seq(Bytes) /\ Len(msg) = n
      /\ \A i \in 1..n : msg[i] = asked + i
  <2>1. n \in Nat \ {0} /\ msg \in Seq(Bytes)
    BY NextMessageFacts DEF OrderInv, SendSizes
  <2> QED
    BY <2>1 DEF NextMessage
<1> HIDE DEF msg
<1>4. SendInLoop(msg, functors)
  BY <1>2 DEF msg
<1>5. /\ functors' \in {functors, Notify("writeComplete", functors), Notify("highWater", functors)}
      /\ state' = state
  BY <1>0, <1>3, <1>4, SendShape
<1>6. Quiet(functors') /\ ~Has(functors', "established")
  <2>1. Quiet(functors) /\ ~Has(functors, "established")
    BY <1>1 DEF OrderInv, NewInv
  <2> QED
    BY <1>5, <2>1, QuietNotify
<1>7. CASE UNCHANGED <<output, sent>> /\ WriteFails
  <2>1. WriteFails' /\ asked' # 0
    BY <1>0, <1>1, <1>2, <1>3, <1>7 DEF WriteFails
  <2>2. SentInOrder' /\ BytesInv'
    BY <1>7, <2>1 DEF SentInOrder, BytesInv, OrderInv
  <2> QED
    BY <1>1, <1>6, <2>2 DEF OrderInv, NewInv, refVars
<1>8. ASSUME NEW k \in 0..Len(msg), sent' = sent \o SubSeq(msg, 1, k), output' = output \o After(msg, k),
             k = 0 \/ (output = <<>> /\ ~WriteFails)
      PROVE  OrderInv'
  <2>1. /\ k \in Nat /\ k <= n /\ SubSeq(msg, 1, k) \in Seq(Bytes) /\ Len(SubSeq(msg, 1, k)) = k
        /\ \A i \in 1..k : SubSeq(msg, 1, k)[i] = asked + i
        /\ After(msg, k) \in Seq(Bytes) /\ Len(After(msg, k)) = n - k
        /\ \A i \in 1..n - k : After(msg, k)[i] = asked + (k + i)
    <3>1. k \in Nat /\ k <= n /\ k \in 0..Len(msg)
      BY <1>3
    <3>2. /\ SubSeq(msg, 1, k) \in Seq(Bytes) /\ Len(SubSeq(msg, 1, k)) = k
          /\ \A i \in 1..k : SubSeq(msg, 1, k)[i] = msg[i]
          /\ After(msg, k) \in Seq(Bytes) /\ Len(After(msg, k)) = n - k
          /\ \A i \in 1..n - k : After(msg, k)[i] = msg[k + i]
      BY <1>3, <3>1, Leftover
    <3>3. \A i \in 1..k : SubSeq(msg, 1, k)[i] = asked + i
      BY <1>3, <3>1, <3>2
    <3>4. \A i \in 1..n - k : After(msg, k)[i] = asked + (k + i)
      BY <1>3, <3>1, <3>2
    <3> QED
      BY <3>1, <3>2, <3>3, <3>4
  <2>2. /\ Len(sent') = Len(sent) + k /\ Len(sent) \in Nat
        /\ \A i \in 1..Len(sent) : sent'[i] = sent[i]
        /\ \A i \in Len(sent) + 1 .. Len(sent) + k : sent'[i] = SubSeq(msg, 1, k)[i - Len(sent)]
    BY <1>0, <1>8, <2>1, JoinedAt, SMTT(30)
  <2>3. /\ Len(output') = Len(output) + (n - k) /\ Len(output) \in Nat
        /\ \A i \in 1..Len(output) : output'[i] = output[i]
        /\ \A i \in Len(output) + 1 .. Len(output) + (n - k) : output'[i] = After(msg, k)[i - Len(output)]
    <3>1. After(msg, k) \in Seq(Bytes) /\ Len(After(msg, k)) = n - k
      BY <2>1
    <3> QED
      BY <1>0, <1>8, <3>1, JoinedAt
  <2>4. \A i \in Len(sent) + 1 .. Len(sent) + k : sent'[i] = asked + (i - Len(sent))
    BY <2>1, <2>2
  <2>5. \A i \in Len(output) + 1 .. Len(output) + (n - k) : output'[i] = asked + (k + (i - Len(output)))
    BY <1>3, <2>1, <2>3
  <2>6. k # 0 => asked = Len(sent)
    <3>1. k # 0 => Len(output) = 0 /\ Len(sent) + Len(output) = asked
      BY <1>1, <1>8 DEF OrderInv, BytesInv
    <3> QED
      BY <2>2, <3>1
  <2>7. SentInOrder'
    <3> SUFFICES ASSUME NEW i \in 1..Len(sent') PROVE sent'[i] = i
      BY DEF SentInOrder
    <3>1. CASE i \in 1..Len(sent)
      BY <2>2, <3>1 DEF OrderInv, SentInOrder
    <3>2. CASE i \in Len(sent) + 1 .. Len(sent) + k
      <4>1. sent'[i] = asked + (i - Len(sent))
        BY <2>4, <3>2
      <4>2. k \in Nat /\ Len(sent) \in Nat /\ i \in Nat
        BY <2>1, <2>2, <3>2
      <4>3. k # 0
        BY <3>2, <4>2
      <4> QED
        BY <2>6, <4>1, <4>2, <4>3
    <3> QED
      BY <2>1, <2>2, <3>1, <3>2
  <2>8. ASSUME ~WriteFails'
        PROVE  /\ \A i \in 1..Len(output') : output'[i] = Len(sent') + i
               /\ state' = "Connected" => Len(sent') + Len(output') = asked'
    <3>1. ~WriteFails
      BY <1>1, <2>8 DEF WriteFails
    <3>2. /\ \A i \in 1..Len(output) : output[i] = Len(sent) + i
          /\ Len(sent) + Len(output) = asked
      BY <1>1, <3>1 DEF OrderInv, BytesInv
    <3>3. ASSUME NEW i \in 1..Len(output') PROVE output'[i] = Len(sent') + i
      <4>1. CASE i \in 1..Len(output)
        <5>1. k = 0
          BY <1>8, <2>3, <4>1
        <5>2. Len(sent') = Len(sent) + 0 /\ Len(sent) \in Nat
          BY <2>2, <5>1
        <5>3. output'[i] = Len(sent) + i
          BY <2>3, <3>2, <4>1
        <5> QED
          BY <5>2, <5>3
      <4>2. CASE i \in Len(output) + 1 .. Len(output) + (n - k)
        <5>1. output'[i] = asked + (k + (i - Len(output)))
          BY <2>5, <4>2
        <5>2. /\ k \in Nat /\ Len(sent) \in Nat /\ Len(output) \in Nat /\ i \in Nat
              /\ Len(sent') = Len(sent) + k
          BY <2>1, <2>2, <2>3, <4>2
        <5> QED
          BY <3>2, <5>1, <5>2
      <4> QED
        BY <1>3, <2>1, <2>3, <4>1, <4>2
    <3>4. Len(sent') + Len(output') = asked'
      <4>1. /\ k \in Nat /\ n \in Nat /\ Len(sent) \in Nat /\ Len(output) \in Nat
            /\ Len(sent') = Len(sent) + k /\ Len(output') = Len(output) + (n - k)
        BY <1>3, <2>1, <2>2, <2>3
      <4> QED
        BY <1>2, <3>2, <4>1
    <3> QED
      BY <3>3, <3>4
  <2>9. BytesInv'
    <3>1. asked' # 0
      BY <1>0, <1>2, <1>3
    <3> QED
      BY <2>8, <3>1 DEF BytesInv
  <2> QED
    BY <1>1, <1>6, <2>7, <2>9 DEF OrderInv, NewInv, refVars
<1>9. \/ UNCHANGED <<output, sent>> /\ WriteFails
      \/ \E k \in 0..Len(msg) :
           /\ sent' = sent \o SubSeq(msg, 1, k) /\ output' = output \o After(msg, k)
           /\ k = 0 \/ (output = <<>> /\ ~WriteFails)
  BY <1>0, <1>1, <1>3, <1>4, SendShape
<1> QED
  BY <1>7, <1>8, <1>9

(* The channel's other events. *)
LEMMA OrderDispatch ==
  ASSUME OrderInv, TypeOK', PollReturns \/ HandleError \/ HandleHup \/ HandleRead
  PROVE  OrderInv'
<1>1. /\ UNCHANGED <<output, sent, asked, functors, peer, wrShut, holders, calling>>
      /\ state' \in {state, "Disconnected"}
  <2>1. CASE PollReturns
    BY <2>1 DEF PollReturns, connVars, refVars, sockVars
  <2>2. CASE HandleError
    BY <2>2 DEF HandleError, connVars, refVars
  <2>3. CASE HandleHup
    BY <2>3 DEF HandleHup, HandleClose, connVars, refVars, sockVars
  <2>4. CASE HandleRead
    BY <2>4 DEF HandleRead, HandleClose, connVars, refVars
  <2> QED
    BY <2>1, <2>2, <2>3, <2>4
<1>2. WriteFails => WriteFails'
  BY <1>1 DEF WriteFails
<1>3. Has(functors, "established") => state \in {"Connecting", "Disconnected"}
  BY DEF OrderInv, NewInv
<1>4. Quiet(functors) /\ \A u \in OffThreads : calling[u] # "send"
  BY DEF OrderInv
<1> QED
  BY <1>1, <1>2, <1>3, <1>4, OrderSame

(* connectEstablished(): nothing has been sent. *)
LEMMA OrderEstablished ==
  ASSUME OrderInv, TypeOK', RunEstablished
  PROVE  OrderInv'
<1>1. functors # <<>> /\ Head(functors).op = "established" /\ functors' = Tail(functors)
      /\ UNCHANGED <<output, sent, asked, calling>>
  BY DEF RunEstablished, Run, Rest, refVars, sockVars
<1>2. Quiet(functors') /\ ~Has(functors', "established") /\ Has(functors, "established")
  BY <1>1, QuietTail DEF OrderInv
<1>3. asked = 0 /\ sent = <<>> /\ output = <<>>
  BY <1>2 DEF OrderInv, NewInv, BytesInv
<1>4. BytesInv'
  BY <1>1, <1>3 DEF BytesInv
<1>5. SentInOrder' /\ NewInv' /\ \A u \in OffThreads : calling'[u] # "send"
  BY <1>1, <1>2 DEF SentInOrder, NewInv, OrderInv
<1> QED
  BY <1>2, <1>4, <1>5 DEF OrderInv

(* The other functors. *)
LEMMA OrderRun ==
  ASSUME OrderInv, TypeOK',
         RunDestroyed \/ RunForceClose \/ RunCallback \/ RunSend \/ RunShutdown \/ RunStartStopRead
  PROVE  OrderInv'
<1>1. functors # <<>>
  BY DEF RunDestroyed, RunForceClose, RunCallback, RunSend, RunShutdown, RunStartStopRead, Run
<1>2. Quiet(Rest) /\ ~Has(Rest, "established") /\ Head(functors).op # "send"
  BY <1>1, QuietTail DEF OrderInv, Rest
<1>3. ~RunSend
  BY <1>2 DEF RunSend, Run
<1>4. ~Has(functors, "established") \/ Head(functors).op = "established"
  <2>1. functors \in Seq(FunctorSet)
    BY DEF OrderInv, Quiet
  <2> QED
    BY <1>1, <2>1 DEF OrderInv, Quiet, Has
<1>5. /\ functors' = Rest /\ UNCHANGED <<output, sent, asked, peer, calling>> /\ (wrShut => wrShut')
      /\ state' \in {state, "Disconnected"} /\ Head(functors).op # "established"
  <2>1. CASE RunDestroyed
    BY <2>1 DEF RunDestroyed, Run, refVars, sockVars
  <2>2. CASE RunForceClose
    BY <2>2 DEF RunForceClose, HandleClose, Run, connVars, refVars, sockVars
  <2>3. CASE RunCallback
    BY <2>3 DEF RunCallback, Run, connVars, refVars, sockVars
  <2>4. CASE RunShutdown
    BY <2>4 DEF RunShutdown, ShutdownInLoop, Run, connVars, refVars
  <2>5. CASE RunStartStopRead
    BY <2>5 DEF RunStartStopRead, StartReadInLoop, StopReadInLoop, Run, refVars, sockVars
  <2> QED
    BY <1>3, <2>1, <2>2, <2>3, <2>4, <2>5
<1>6. WriteFails => WriteFails'
  BY <1>5 DEF WriteFails
<1>7. \A u \in OffThreads : calling'[u] # "send"
  BY <1>5 DEF OrderInv
<1> QED
  BY <1>2, <1>4, <1>5, <1>6, <1>7, OrderSame

(* The other calls on the loop thread, and the timer. *)
LEMMA OrderInLoop ==
  ASSUME OrderInv, TypeOK',
         \/ InLoopShutdown \/ InLoopForceClose \/ InLoopForceCloseWithDelay
         \/ InLoopStartStopRead \/ DelayExpires
  PROVE  OrderInv'
<1>0. /\ Quiet(functors) /\ \A u \in OffThreads : calling[u] # "send"
      /\ Has(functors, "established") => state \in {"Connecting", "Disconnected"}
  BY DEF OrderInv, NewInv
<1>1. ASSUME ForceClose PROVE OrderInv'
  <2>1. /\ functors' = Append(functors, Functor("forceClose")) /\ state' = "Disconnecting"
        /\ state \in {"Connected", "Disconnecting"}
        /\ UNCHANGED <<output, sent, asked, peer, wrShut, calling>>
    BY <1>1 DEF ForceClose, refVars, sockVars
  <2>2. "forceClose" \in (Shared \union Raw) \ {"send", "established"}
    BY DEF Shared
  <2>3. Quiet(functors') /\ (Has(functors', "established") => Has(functors, "established"))
    BY <1>0, <2>1, <2>2, QuietAppend
  <2>4. WriteFails => WriteFails'
    BY <2>1 DEF WriteFails
  <2> QED
    BY <1>0, <2>1, <2>3, <2>4, OrderSame
<1>2. ASSUME UNCHANGED <<output, functors, sent, asked, peer, refVars>>, wrShut => wrShut',
             \/ UNCHANGED state
             \/ state \in {"Connected", "Disconnecting"} /\ state' = "Disconnecting"
      PROVE  OrderInv'
  <2>1. WriteFails => WriteFails'
    BY <1>2 DEF WriteFails
  <2> QED
    BY <1>0, <1>2, <2>1, OrderSame DEF refVars
<1>3. CASE InLoopShutdown
  BY <1>2, <1>3 DEF InLoopShutdown, ShutdownInLoop, loopVars
<1>4. CASE InLoopForceClose
  BY <1>1, <1>4 DEF InLoopForceClose
<1>5. CASE InLoopForceCloseWithDelay
  BY <1>2, <1>5 DEF InLoopForceCloseWithDelay, sockVars
<1>6. CASE InLoopStartStopRead
  BY <1>2, <1>6 DEF InLoopStartStopRead, StartReadInLoop, StopReadInLoop, loopVars, sockVars
<1>7. CASE DelayExpires
  BY <1>1, <1>2, <1>7 DEF DelayExpires, connVars, sockVars
<1> QED
  BY <1>3, <1>4, <1>5, <1>6, <1>7

LEMMA OrderOffLoop ==
  ASSUME SendsInLoop, OrderInv, TypeOK', NEW u \in OffThreads,
         \/ TakePointer(u) \/ DropPointer(u) \/ OffLoopMark(u) \/ OffLoopPost(u)
         \/ \E op \in Ops : OffLoopTest(u, op)
  PROVE  OrderInv'
<1>0. /\ Quiet(functors) /\ \A v \in OffThreads : calling[v] # "send"
      /\ calling \in [OffThreads -> OffOps \union {"nothing"}] /\ "send" \notin program.offLoop
      /\ NewInv
  BY DEF OrderInv, TypeOK, SendsInLoop
<1>1. ~Has(functors, "established")
  <2>1. \/ state = "Connected" \/ holders # {} \/ calling[u] # "nothing"
    BY DEF TakePointer, DropPointer, OffLoopMark, OffLoopPost, OffLoopTest
  <2> QED
    BY <1>0, <2>1 DEF NewInv
<1>2. /\ UNCHANGED <<output, sent, peer, wrShut>> /\ state' \in {state, "Disconnecting"}
  BY DEF TakePointer, DropPointer, OffLoopMark, OffLoopPost, OffLoopTest, connVars, sockVars
<1>3. WriteFails => WriteFails'
  BY <1>2 DEF WriteFails
<1>4. CASE OffLoopPost(u)
  <2>1. functors' = Append(functors, Functor(calling[u])) /\ UNCHANGED asked
        /\ calling' = [calling EXCEPT ![u] = "nothing"]
    BY <1>0, <1>4 DEF OffLoopPost
  <2>2. calling[u] \in (Shared \union Raw) \ {"send", "established"}
    BY <1>0, <1>4 DEF OffLoopPost, Ops, OffOps, Shared, Raw
  <2>3. Quiet(functors') /\ ~Has(functors', "established")
    BY <1>0, <1>1, <2>1, <2>2, QuietAppend
  <2>4. \A v \in OffThreads : calling'[v] # "send"
    BY <1>0, <2>1
  <2> QED
    BY <1>1, <1>2, <1>3, <2>1, <2>3, <2>4, OrderSame
<1>5. CASE ~OffLoopPost(u)
  <2>1. UNCHANGED <<functors, asked>>
    BY <1>5 DEF TakePointer, DropPointer, OffLoopMark, OffLoopTest, loopVars
  <2>2. \A v \in OffThreads : calling'[v] # "send"
    <3>1. UNCHANGED calling \/ \E op \in program.offLoop : calling' = [calling EXCEPT ![u] = op]
      BY <1>5 DEF TakePointer, DropPointer, OffLoopMark, OffLoopTest
    <3> QED
      BY <1>0, <3>1
  <2> QED
    BY <1>0, <1>1, <1>2, <1>3, <2>1, <2>2, OrderSame
<1> QED
  BY <1>4, <1>5

LEMMA OrderServerPeer ==
  ASSUME OrderInv, TypeOK', RemoveConnectionInLoop \/ ServerDestructor \/ PeerSends \/ PeerCloses \/ PeerResets
  PROVE  OrderInv'
<1>0. /\ Quiet(functors) /\ \A u \in OffThreads : calling[u] # "send"
      /\ Has(functors, "established") => state \in {"Connecting", "Disconnected"}
  BY DEF OrderInv, NewInv
<1>1. /\ UNCHANGED <<state, output, sent, asked, wrShut, holders, calling>>
      /\ peer = "reset" => peer' = "reset"
  BY DEF RemoveConnectionInLoop, ServerDestructor, PeerSends, PeerCloses, PeerResets, connVars, refVars, sockVars
<1>2. WriteFails => WriteFails'
  BY <1>1 DEF WriteFails
<1>3. functors' \in {functors, Append(functors, Functor("destroyed"))}
  BY DEF RemoveConnectionInLoop, ServerDestructor, PeerSends, PeerCloses, PeerResets, loopVars
<1>4. "destroyed" \in (Shared \union Raw) \ {"send", "established"}
  BY DEF Shared
<1>5. Quiet(functors') /\ (Has(functors', "established") => Has(functors, "established"))
  BY <1>0, <1>3, <1>4, QuietAppend
<1> QED
  BY <1>0, <1>1, <1>2, <1>5, OrderSame

LEMMA OrderInductive == ASSUME SendsInLoop PROVE OrderInv /\ [Next]_vars => OrderInv'
<1> SUFFICES ASSUME OrderInv, [Next]_vars PROVE OrderInv'
  OBVIOUS
<1>1. TypeOK'
  BY TypeInductive DEF OrderInv
<1>2. CASE UNCHANGED steps
  <2>1. UNCHANGED <<state, output, functors, sent, asked, peer, wrShut, holders, calling>>
    BY <1>2 DEF steps, connVars, loopVars, refVars, sockVars
  <2>2. WriteFails => WriteFails'
    BY <2>1 DEF WriteFails
  <2>3. /\ Quiet(functors) /\ \A u \in OffThreads : calling[u] # "send"
        /\ Has(functors, "established") => state \in {"Connecting", "Disconnected"}
    BY DEF OrderInv, NewInv
  <2> QED
    BY <1>1, <2>1, <2>2, <2>3, OrderSame
<1>3. CASE Dispatch \/ PollReturns
  BY <1>1, <1>3, OrderDispatch, OrderWrite DEF Dispatch
<1>4. CASE RunFunctor
  BY <1>1, <1>4, OrderEstablished, OrderRun DEF RunFunctor
<1> QED
  BY <1>1, <1>2, <1>3, <1>4, OrderSend, OrderInLoop, OrderOffLoop, OrderServerPeer DEF Next, Step, Destroyed, vars

LEMMA OrderInit == Init => OrderInv
<1> SUFFICES ASSUME Init PROVE OrderInv
  OBVIOUS
<1>1. TypeOK /\ functors = <<Functor("established")>>
  BY TypeInit DEF Init
<1>2. Functor("established") \in FunctorSet /\ Functor("established").op = "established"
  BY DEF Functor, FunctorSet, Shared
<1>3. Len(functors) = 1 /\ functors[1] = Functor("established") /\ functors \in Seq(FunctorSet)
  BY <1>1, <1>2
<1>4. Quiet(functors)
  BY <1>2, <1>3 DEF Quiet
<1>5. SentInOrder /\ BytesInv /\ NewInv /\ \A u \in OffThreads : calling[u] # "send"
  BY DEF Init, SentInOrder, BytesInv, NewInv
<1> QED
  BY <1>1, <1>4, <1>5 DEF OrderInv

(* Whatever threads, timers, the peer and the server do to the connection, and where
   even its assertions fail, the kernel takes a prefix of what the loop thread
   sent. *)
THEOREM StreamInOrder == ASSUME SendsInLoop PROVE Spec => []SentInOrder
<1>1. OrderInv => SentInOrder
  BY DEF OrderInv
<1> QED
  BY <1>1, OrderInit, OrderInductive, PTL DEF Spec

-----------------------------------------------------------------------------
(* The stream, for programs that use the connection from one side. *)

(* The loop thread sends, shuts down and closes; or other threads only send. *)
OneSided == OthersOnlySend /\ \A p \in Programs : p.offLoop = {} \/ p.inLoop = {}

(* The messages in q are the bytes from n + 1 to a, in order. *)
Spans(q, n, a) == \A i \in 1..Len(q) : \A x \in 1..Len(q[i].data) :
                     q[i].data[x] \in n + 1 .. a /\ q[i].data[x] = q[i].data[1] + (x - 1)
Rising(q) == \A i, j \in 1..Len(q) : \A x \in 1..Len(q[i].data), y \in 1..Len(q[j].data) :
                i < j => q[i].data[x] < q[j].data[y]
Covers(q, n, a) == \A b \in n + 1 .. a : \E i \in 1..Len(q) : \E x \in 1..Len(q[i].data) : q[i].data[x] = b
Chain(q, n, a) == q \in Seq(FunctorSet) /\ Spans(q, n, a) /\ Rising(q) /\ Covers(q, n, a)

LEMMA ChainAppend ==
  ASSUME NEW q, NEW n \in Nat, NEW a \in Nat, NEW m \in Nat, Chain(q, n, a), n <= a,
         NEW f \in FunctorSet, Len(f.data) = m, \A x \in 1..m : f.data[x] = a + x
  PROVE  Chain(Append(q, f), n, a + m)
<1> DEFINE r == Append(q, f)
           k == Len(q) + 1
<1>1. /\ q \in Seq(FunctorSet) /\ r \in Seq(FunctorSet) /\ Len(q) \in Nat /\ k \in 1..Len(r) /\ r[k] = f
      /\ \A i \in 1..Len(q) : i \in 1..Len(r) /\ r[i] = q[i] /\ i < k
      /\ \A i \in 1..Len(r) : (i \in 1..Len(q) /\ r[i] = q[i]) \/ i = k
      /\ k \in Nat /\ \A i \in 1..Len(r) : i \in Nat /\ i <= k
  BY DEF Chain
<1>2. Spans(q, n, a) /\ Rising(q) /\ Covers(q, n, a)
  BY DEF Chain
<1> HIDE DEF r, k
<1>3. Spans(r, n, a + m)
  <2> SUFFICES ASSUME NEW i \in 1..Len(r), NEW x \in 1..Len(r[i].data)
               PROVE  r[i].data[x] \in n + 1 .. a + m /\ r[i].data[x] = r[i].data[1] + (x - 1)
    BY DEF Spans
  <2>1. CASE i \in 1..Len(q) /\ r[i] = q[i]
    <3>1. q[i].data[x] \in n + 1 .. a /\ q[i].data[x] = q[i].data[1] + (x - 1)
      BY <1>2, <2>1 DEF Spans
    <3> QED
      BY <2>1, <3>1
  <2>2. CASE i = k
    <3>1. x \in 1..m /\ 1 \in 1..m /\ r[i] = f
      BY <1>1, <2>2
    <3>2. f.data[x] = a + x /\ f.data[1] = a + 1
      BY <3>1
    <3> QED
      BY <3>1, <3>2
  <2> QED
    BY <1>1, <2>1, <2>2
<1>4. Rising(r)
  <2> SUFFICES ASSUME NEW i \in 1..Len(r), NEW j \in 1..Len(r), i < j,
                      NEW x \in 1..Len(r[i].data), NEW y \in 1..Len(r[j].data)
               PROVE  r[i].data[x] < r[j].data[y]
    BY DEF Rising
  <2>1. i \in 1..Len(q) /\ r[i] = q[i]
    <3>1. i # k
      BY <1>1
    <3> QED
      BY <1>1, <3>1
  <2>2. q[i].data[x] \in n + 1 .. a
    BY <1>2, <2>1 DEF Spans
  <2>3. CASE j \in 1..Len(q) /\ r[j] = q[j]
    BY <1>2, <2>1, <2>3 DEF Rising
  <2>4. CASE j = k
    <3>1. y \in 1..m /\ r[j].data[y] = a + y
      BY <1>1, <2>4
    <3>2. q[i].data[x] < a + y
      <4>1. y \in Nat /\ y >= 1
        BY <3>1
      <4>2. ASSUME NEW v \in n + 1 .. a PROVE v < a + y
        BY <4>1
      <4> QED
        BY <2>2, <4>2
    <3> QED
      BY <2>1, <3>1, <3>2
  <2> QED
    BY <1>1, <2>3, <2>4
<1>5. Covers(r, n, a + m)
  <2> SUFFICES ASSUME NEW b \in n + 1 .. a + m
               PROVE  \E i \in 1..Len(r) : \E x \in 1..Len(r[i].data) : r[i].data[x] = b
    BY DEF Covers
  <2>1. CASE b <= a
    <3>1. b \in n + 1 .. a
      BY <2>1
    <3>2. PICK i \in 1..Len(q) : \E x \in 1..Len(q[i].data) : q[i].data[x] = b
      BY <1>2, <3>1 DEF Covers
    <3> QED
      BY <1>1, <3>2
  <2>2. CASE b > a
    <3>1. b - a \in 1..m /\ a + (b - a) = b
      BY <2>2
    <3>2. f.data[b - a] = b
      BY <3>1
    <3> QED
      BY <1>1, <3>1, <3>2
  <2> QED
    BY <2>1, <2>2
<1> QED
  BY <1>1, <1>3, <1>4, <1>5 DEF Chain, r

(* The head is the message that comes next. *)
LEMMA ChainTail ==
  ASSUME NEW q, NEW n \in Nat, NEW a \in Nat, Chain(q, n, a), n <= a, q # <<>>
  PROVE  /\ Head(q).data \in Seq(Bytes) /\ Len(Head(q).data) \in Nat
         /\ \A x \in 1..Len(Head(q).data) : Head(q).data[x] = n + x
         /\ n + Len(Head(q).data) <= a
         /\ Chain(Tail(q), n + Len(Head(q).data), a)
<1> DEFINE r == Tail(q)
           msg == Head(q).data
           m == Len(msg)
<1>1. /\ q \in Seq(FunctorSet) /\ r \in Seq(FunctorSet) /\ q[1].data = msg /\ 1 \in 1..Len(q)
      /\ \A i \in 1..Len(r) : i \in Nat /\ i + 1 \in 1..Len(q) /\ r[i] = q[i + 1] /\ 1 < i + 1
      /\ \A i \in 1..Len(q) : i \in Nat /\ (i = 1 \/ (1 < i /\ i - 1 \in 1..Len(r) /\ r[i - 1] = q[i]))
  BY DEF Chain
<1>2. Spans(q, n, a) /\ Rising(q) /\ Covers(q, n, a)
  BY DEF Chain
<1>3. Head(q) \in FunctorSet
  BY <1>1
<1>4. msg \in Seq(Bytes) /\ m \in Nat
  BY <1>3 DEF FunctorSet
<1> HIDE DEF r, msg, m
<1>5. m = Len(q[1].data)
  BY <1>1 DEF m
<1>6. m # 0 => msg[1] = n + 1
  <2> SUFFICES ASSUME m # 0 PROVE msg[1] = n + 1
    OBVIOUS
  <2>1. 1 \in 1..m
    BY <1>4
  <2>2. msg[1] \in n + 1 .. a
    BY <1>1, <1>2, <1>5, <2>1 DEF Spans
  <2>3. n + 1 \in n + 1 .. a
    BY <2>2
  <2>4. PICK i \in 1..Len(q) : \E x \in 1..Len(q[i].data) : q[i].data[x] = n + 1
    BY <1>2, <2>3 DEF Covers
  <2>5. PICK x \in 1..Len(q[i].data) : q[i].data[x] = n + 1
    BY <2>4
  <2>6. CASE i = 1
    <3>1. msg[x] = msg[1] + (x - 1) /\ x \in 1..m
      BY <1>1, <1>2, <1>5, <2>5, <2>6 DEF Spans
    <3>2. msg[1] + (x - 1) = n + 1
      BY <1>1, <2>5, <2>6, <3>1
    <3> QED
      BY <1>4, <2>2, <3>1, <3>2
  <2>7. CASE i # 1
    <3>1. 1 < i
      BY <1>1, <2>7
    <3>2. q[1].data[1] < q[i].data[x]
      BY <1>1, <1>2, <1>5, <2>1, <3>1 DEF Rising
    <3>3. msg[1] < n + 1
      BY <1>1, <2>5, <3>2
    <3> QED
      BY <2>2, <3>3
  <2> QED
    BY <2>6, <2>7
<1>7. \A x \in 1..m : msg[x] = n + x /\ msg[x] \in n + 1 .. a
  <2> TAKE x \in 1..m
  <2>1. msg[x] \in n + 1 .. a /\ msg[x] = msg[1] + (x - 1)
    BY <1>1, <1>2, <1>5 DEF Spans
  <2>2. msg[1] = n + 1
    BY <1>4, <1>6
  <2> QED
    BY <1>4, <2>1, <2>2
<1>8. n + m <= a
  <2>1. CASE m = 0
    BY <2>1
  <2>2. CASE m # 0
    <3>1. m \in 1..m
      BY <1>4, <2>2
    <3>2. n + m \in n + 1 .. a
      BY <1>7, <3>1
    <3> QED
      BY <3>2
  <2> QED
    BY <2>1, <2>2
<1>9. Spans(r, n + m, a)
  <2> SUFFICES ASSUME NEW i \in 1..Len(r), NEW x \in 1..Len(r[i].data)
               PROVE  r[i].data[x] \in (n + m) + 1 .. a /\ r[i].data[x] = r[i].data[1] + (x - 1)
    BY DEF Spans
  <2>1. i + 1 \in 1..Len(q) /\ r[i] = q[i + 1] /\ 1 < i + 1
    BY <1>1
  <2>2. r[i].data[x] \in n + 1 .. a /\ r[i].data[x] = r[i].data[1] + (x - 1)
    BY <1>2, <2>1 DEF Spans
  <2>3. CASE m = 0
    BY <2>2, <2>3
  <2>4. CASE m # 0
    <3>1. m \in 1..m
      BY <1>4, <2>4
    <3>2. msg[m] < r[i].data[x]
      BY <1>1, <1>2, <1>5, <2>1, <3>1 DEF Rising
    <3>3. msg[m] = n + m
      BY <1>7, <3>1
    <3> QED
      BY <1>4, <2>2, <3>2, <3>3
  <2> QED
    BY <2>3, <2>4
<1>10. Rising(r)
  <2> SUFFICES ASSUME NEW i \in 1..Len(r), NEW j \in 1..Len(r), i < j,
                      NEW x \in 1..Len(r[i].data), NEW y \in 1..Len(r[j].data)
               PROVE  r[i].data[x] < r[j].data[y]
    BY DEF Rising
  <2>1. i + 1 \in 1..Len(q) /\ j + 1 \in 1..Len(q) /\ i + 1 < j + 1 /\ r[i] = q[i + 1] /\ r[j] = q[j + 1]
    BY <1>1
  <2> QED
    BY <1>2, <2>1 DEF Rising
<1>11. Covers(r, n + m, a)
  <2> SUFFICES ASSUME NEW b \in (n + m) + 1 .. a
               PROVE  \E i \in 1..Len(r) : \E x \in 1..Len(r[i].data) : r[i].data[x] = b
    BY DEF Covers
  <2>1. b \in n + 1 .. a
    BY <1>4
  <2>2. PICK i \in 1..Len(q) : \E x \in 1..Len(q[i].data) : q[i].data[x] = b
    BY <1>2, <2>1 DEF Covers
  <2>3. i # 1
    <3> SUFFICES ASSUME i = 1 PROVE FALSE
      OBVIOUS
    <3>1. PICK x \in 1..m : msg[x] = b
      BY <1>1, <1>5, <2>2
    <3>2. n + x = b
      BY <1>7, <3>1
    <3> QED
      BY <1>4, <3>1, <3>2
  <2>4. i - 1 \in 1..Len(r) /\ r[i - 1] = q[i]
    BY <1>1, <2>3
  <2> QED
    BY <2>2, <2>4
<1> QED
  BY <1>1, <1>4, <1>7, <1>8, <1>9, <1>10, <1>11 DEF Chain, r, msg, m

(* Without messages in the queue nothing is missing. *)
LEMMA ChainEmpty ==
  ASSUME NEW q, NEW n \in Nat, NEW a \in Nat, q \in Seq(FunctorSet),
         \A i \in 1..Len(q) : q[i].data = <<>>
  PROVE  /\ Chain(q, n, a) /\ n <= a => n = a
         /\ Chain(q, a, a)
<1>1. \A i \in 1..Len(q) : \A x \in 1..Len(q[i].data) : FALSE
  OBVIOUS
<1>2. ASSUME Chain(q, n, a), n < a PROVE FALSE
  <2>1. n + 1 \in n + 1 .. a
    BY <1>2
  <2> QED
    BY <1>1, <1>2, <2>1 DEF Chain, Covers
<1>3. Chain(q, a, a)
  BY <1>1 DEF Chain, Spans, Rising, Covers
<1> QED
  BY <1>2, <1>3

(* Only send() carries data. *)
Bare(q) == \A i \in 1..Len(q) : q[i].op # "send" => q[i].data = <<>>

(* Queue r carries the messages of q. *)
Follows(q, r) == \A n \in Nat, a \in Nat : n <= a /\ Chain(q, n, a) => Chain(r, n, a)

Going == peer # "reset" /\ state # "Disconnected"
Done == Len(sent) + Len(output)

StreamInv == Going => /\ Done <= asked /\ SentInOrder /\ \A i \in 1..Len(output) : output[i] = Len(sent) + i
                      /\ Chain(functors, Done, asked)

SideInv == /\ Bare(functors) /\ (wrShut => state # "Connected")
           /\ program.offLoop # {} => ~wrShut /\ state # "Disconnecting" /\ ~delayed
           /\ program.offLoop = {} => ~Has(functors, "send") /\ \A u \in OffThreads : calling[u] # "send"

WholeInv == LifeInv /\ SideInv /\ StreamInv

LEMMA BareAppend ==
  ASSUME NEW q \in Seq(FunctorSet), Bare(q), NEW op \in (Shared \union Raw) \ {"send"}
  PROVE  LET r == Append(q, Functor(op))
         IN  Bare(r) /\ Follows(q, r) /\ (Has(r, "send") => Has(q, "send"))
<1> DEFINE f == Functor(op)
           r == Append(q, f)
<1>1. f \in FunctorSet /\ f.op = op /\ f.data = <<>>
  BY DEF Functor, FunctorSet
<1> HIDE DEF f
<1>2. \A i \in 1..Len(r) : (i \in 1..Len(q) /\ r[i] = q[i]) \/ r[i] = f
  BY <1>1
<1>3. Follows(q, r)
  <2> SUFFICES ASSUME NEW n \in Nat, NEW a \in Nat, n <= a, Chain(q, n, a) PROVE Chain(r, n, a)
    BY DEF Follows
  <2>1. Len(f.data) = 0 /\ \A x \in 1..0 : f.data[x] = a + x
    BY <1>1
  <2>2. Chain(r, n, a + 0)
    BY <1>1, <2>1, ChainAppend
  <2>3. a + 0 = a
    OBVIOUS
  <2> QED
    BY <2>2, <2>3
<1> HIDE DEF r
<1>4. Bare(r) /\ (Has(r, "send") => Has(q, "send"))
  BY <1>1, <1>2 DEF Bare, Has
<1> QED
  BY <1>3, <1>4 DEF r, f

LEMMA BareNotify ==
  ASSUME NEW q \in Seq(FunctorSet), Bare(q), NEW op \in {"writeComplete", "highWater"}
  PROVE  /\ Bare(Notify(op, q)) /\ Follows(q, Notify(op, q))
         /\ Has(Notify(op, q), "send") => Has(q, "send")
<1>1. op \in (Shared \union Raw) \ {"send"} /\ Follows(q, q)
  BY DEF Shared, Follows
<1> QED
  BY <1>1, BareAppend DEF Notify

LEMMA BareTail ==
  ASSUME NEW q \in Seq(FunctorSet), Bare(q), q # <<>>
  PROVE  /\ Bare(Tail(q)) /\ (Has(Tail(q), "send") => Has(q, "send"))
         /\ Head(q).op # "send" => Follows(q, Tail(q))
<1>1. Head(q) = q[1] /\ 1 \in 1..Len(q)
  OBVIOUS
<1>2. ASSUME Head(q).op # "send" PROVE Follows(q, Tail(q))
  <2> SUFFICES ASSUME NEW n \in Nat, NEW a \in Nat, n <= a, Chain(q, n, a) PROVE Chain(Tail(q), n, a)
    BY DEF Follows
  <2>1. Head(q).data = <<>>
    BY <1>1, <1>2 DEF Bare
  <2>2. Len(Head(q).data) = 0 /\ n + 0 = n
    BY <2>1
  <2> QED
    BY <2>2, ChainTail
<1>3. \A i \in 1..Len(Tail(q)) : i + 1 \in 1..Len(q) /\ Tail(q)[i] = q[i + 1]
  OBVIOUS
<1>4. Bare(Tail(q)) /\ (Has(Tail(q), "send") => Has(q, "send"))
  BY <1>3 DEF Bare, Has
<1> QED
  BY <1>2, <1>4

(* A step that moves no bytes and adds no message. *)
LEMMA WholeSame ==
  ASSUME WholeInv, LifeInv', UNCHANGED <<program, output, sent, asked>>, Going' => Going,
         Follows(functors, functors'), Bare(functors'), Has(functors', "send") => Has(functors, "send"),
         wrShut' => state' # "Connected",
         program.offLoop # {} => /\ wrShut' => wrShut
                                 /\ state' = "Disconnecting" => state = "Disconnecting"
                                 /\ delayed' => delayed,
         program.offLoop = {} => \A u \in OffThreads : calling'[u] = "send" => calling[u] = "send"
  PROVE  WholeInv'
<1>1. SideInv'
  BY DEF SideInv, WholeInv
<1>2. StreamInv'
  <2> SUFFICES ASSUME Going'
               PROVE  /\ Done' <= asked' /\ SentInOrder'
                      /\ \A i \in 1..Len(output') : output'[i] = Len(sent') + i
                      /\ Chain(functors', Done', asked')
    BY DEF StreamInv
  <2>1. /\ Done <= asked /\ SentInOrder /\ \A i \in 1..Len(output) : output[i] = Len(sent) + i
        /\ Chain(functors, Done, asked)
    BY DEF WholeInv, StreamInv
  <2>2. Done' = Done /\ Done \in Nat /\ asked \in Nat
    BY LifeFacts DEF Done, WholeInv, TypeOK
  <2>3. Chain(functors', Done, asked)
    BY <2>1, <2>2 DEF Follows
  <2>4. SentInOrder'
    BY <2>1 DEF SentInOrder
  <2> QED
    BY <2>1, <2>2, <2>3, <2>4
<1> QED
  BY <1>1, <1>2 DEF WholeInv

LEMMA Sums ==
  ASSUME NEW a \in Nat, NEW b \in Nat, NEW k \in Nat, NEW m \in Nat, NEW i \in Nat, k <= m
  PROVE  /\ (a + k) + (b + (m - k)) = (a + b) + m /\ (a + k) + (m - k) = a + m
         /\ a + (k + i) = (a + k) + i /\ a + b + (k + (i - b)) = (a + k) + i
OBVIOUS

(* Bytes that continue the stream, a part of them written and the rest buffered. *)
LEMMA StreamPush ==
  ASSUME sent \in Seq(Bytes), output \in Seq(Bytes), SentInOrder,
         \A i \in 1..Len(output) : output[i] = Len(sent) + i,
         NEW msg \in Seq(Bytes), \A x \in 1..Len(msg) : msg[x] = Done + x,
         NEW k \in 0..Len(msg), k = 0 \/ output = <<>>,
         sent' = sent \o SubSeq(msg, 1, k), output' = output \o After(msg, k)
  PROVE  /\ SentInOrder' /\ Done' = Done + Len(msg)
         /\ \A i \in 1..Len(output') : output'[i] = Len(sent') + i
<1> DEFINE m == Len(msg)
           s == SubSeq(msg, 1, k)
           t == After(msg, k)
<1>1. k \in Nat /\ m \in Nat /\ k <= m /\ Len(sent) \in Nat /\ Len(output) \in Nat
  OBVIOUS
<1>2. /\ s \in Seq(Bytes) /\ t \in Seq(Bytes) /\ Len(s) = k /\ Len(t) = m - k
      /\ \A i \in 1..k : s[i] = msg[i]
      /\ \A i \in 1..m - k : t[i] = msg[k + i]
  BY Leftover
<1> HIDE DEF m, s, t
<1>3. \A x \in 1..m : msg[x] = Len(sent) + Len(output) + x
  BY DEF Done, m
<1>4. k # 0 => Len(output) = 0
  OBVIOUS
<1>5. /\ Len(sent') = Len(sent) + k
      /\ \A i \in 1..Len(sent) : sent'[i] = sent[i]
      /\ \A i \in Len(sent) + 1 .. Len(sent) + k : sent'[i] = s[i - Len(sent)]
  <2>1. s \in Seq(Bytes) /\ Len(s) = k /\ sent' = sent \o s
    BY <1>2 DEF s
  <2>2. /\ Len(sent \o s) = Len(sent) + Len(s)
        /\ \A i \in 1..Len(sent) : (sent \o s)[i] = sent[i]
        /\ \A i \in Len(sent) + 1 .. Len(sent) + Len(s) : (sent \o s)[i] = s[i - Len(sent)]
    BY <2>1, JoinedAt, Zenon
  <2> QED
    BY <2>1, <2>2, Zenon
<1>6. /\ Len(output') = Len(output) + (m - k)
      /\ \A i \in 1..Len(output) : output'[i] = output[i]
      /\ \A i \in Len(output) + 1 .. Len(output) + (m - k) : output'[i] = t[i - Len(output)]
  <2>1. t \in Seq(Bytes) /\ Len(t) = m - k /\ output' = output \o t
    BY <1>2 DEF t
  <2>2. /\ Len(output \o t) = Len(output) + Len(t)
        /\ \A i \in 1..Len(output) : (output \o t)[i] = output[i]
        /\ \A i \in Len(output) + 1 .. Len(output) + Len(t) : (output \o t)[i] = t[i - Len(output)]
    BY <2>1, JoinedAt, Zenon
  <2> QED
    BY <2>1, <2>2, Zenon
<1>7. ASSUME NEW i \in 1..Len(sent') PROVE sent'[i] = i
  <2>1. CASE i \in 1..Len(sent)
    BY <1>5, <2>1 DEF SentInOrder
  <2>2. CASE i \in Len(sent) + 1 .. Len(sent) + k
    <3>1. i - Len(sent) \in 1..k /\ i - Len(sent) \in 1..m /\ k # 0 /\ i \in Nat
      BY <1>1, <2>2
    <3>2. sent'[i] = msg[i - Len(sent)]
      BY <1>2, <1>5, <2>2, <3>1
    <3>3. msg[i - Len(sent)] = Len(sent) + 0 + (i - Len(sent))
      BY <1>3, <1>4, <3>1
    <3> QED
      BY <1>1, <3>1, <3>2, <3>3
  <2> QED
    BY <1>1, <1>5, <2>1, <2>2
<1>8. ASSUME NEW i \in 1..Len(output') PROVE output'[i] = Len(sent') + i
  <2>1. CASE i \in 1..Len(output)
    <3>1. k = 0 /\ output'[i] = Len(sent) + i
      BY <1>1, <1>4, <1>6, <2>1
    <3> QED
      BY <1>1, <1>5, <3>1
  <2>2. CASE i \in Len(output) + 1 .. Len(output) + (m - k)
    <3>1. i - Len(output) \in 1..m - k /\ k + (i - Len(output)) \in 1..m /\ i \in Nat
      BY <1>1, <2>2
    <3>2. output'[i] = msg[k + (i - Len(output))]
      BY <1>2, <1>6, <2>2, <3>1
    <3>3. msg[k + (i - Len(output))] = Len(sent) + Len(output) + (k + (i - Len(output)))
      BY <1>3, <3>1
    <3>4. Len(sent') = Len(sent) + k
      BY <1>5
    <3>5. Len(sent) + Len(output) + (k + (i - Len(output))) = (Len(sent) + k) + i
      BY <1>1, <3>1, Sums
    <3> QED
      BY <3>2, <3>3, <3>4, <3>5
  <2> QED
    BY <1>1, <1>6, <2>1, <2>2
<1>9. Done' = Done + m
  <2>1. Len(sent') = Len(sent) + k /\ Len(output') = Len(output) + (m - k)
    BY <1>5, <1>6
  <2>2. (Len(sent) + k) + (Len(output) + (m - k)) = (Len(sent) + Len(output)) + m
    BY <1>1, Sums
  <2> QED
    BY <2>1, <2>2, Zenon DEF Done
<1> QED
  BY <1>7, <1>8, <1>9 DEF SentInOrder, m

(* Bytes from the front of the buffer are written. *)
LEMMA StreamPull ==
  ASSUME sent \in Seq(Bytes), output \in Seq(Bytes), SentInOrder,
         \A i \in 1..Len(output) : output[i] = Len(sent) + i,
         NEW k \in 0..Len(output), sent' = sent \o SubSeq(output, 1, k), output' = After(output, k)
  PROVE  /\ SentInOrder' /\ Done' = Done
         /\ \A i \in 1..Len(output') : output'[i] = Len(sent') + i
<1> DEFINE s == SubSeq(output, 1, k)
           m == Len(output)
<1>1. k \in Nat /\ m \in Nat /\ k <= m /\ Len(sent) \in Nat
  OBVIOUS
<1>2. /\ s \in Seq(Bytes) /\ Len(s) = k /\ \A i \in 1..k : s[i] = output[i]
      /\ Len(output') = m - k /\ \A i \in 1..m - k : output'[i] = output[k + i]
  <2>1. /\ s \in Seq(Bytes) /\ Len(s) = k /\ \A i \in 1..k : s[i] = output[i]
        /\ Len(After(output, k)) = m - k /\ \A i \in 1..m - k : After(output, k)[i] = output[k + i]
    BY Leftover
  <2> QED
    BY <2>1
<1> HIDE DEF s, m
<1>3. \A i \in 1..m : output[i] = Len(sent) + i
  BY DEF m
<1>4. /\ Len(sent') = Len(sent) + k
      /\ \A i \in 1..Len(sent) : sent'[i] = sent[i]
      /\ \A i \in Len(sent) + 1 .. Len(sent) + k : sent'[i] = s[i - Len(sent)]
  <2>1. s \in Seq(Bytes) /\ Len(s) = k /\ sent' = sent \o s
    BY <1>2 DEF s
  <2>2. /\ Len(sent \o s) = Len(sent) + Len(s)
        /\ \A i \in 1..Len(sent) : (sent \o s)[i] = sent[i]
        /\ \A i \in Len(sent) + 1 .. Len(sent) + Len(s) : (sent \o s)[i] = s[i - Len(sent)]
    BY <2>1, JoinedAt, Zenon
  <2> QED
    BY <2>1, <2>2, Zenon
<1>5. ASSUME NEW i \in 1..Len(sent') PROVE sent'[i] = i
  <2>1. CASE i \in 1..Len(sent)
    BY <1>4, <2>1 DEF SentInOrder
  <2>2. CASE i \in Len(sent) + 1 .. Len(sent) + k
    <3>1. i - Len(sent) \in 1..k /\ i - Len(sent) \in 1..m /\ i \in Nat
      BY <1>1, <2>2
    <3>2. sent'[i] = Len(sent) + (i - Len(sent))
      BY <1>2, <1>3, <1>4, <2>2, <3>1
    <3> QED
      BY <1>1, <3>1, <3>2
  <2> QED
    BY <1>1, <1>4, <2>1, <2>2
<1>6. ASSUME NEW i \in 1..Len(output') PROVE output'[i] = Len(sent') + i
  <2>1. i \in 1..m - k /\ k + i \in 1..m /\ i \in Nat
    BY <1>1, <1>2
  <2>2. output'[i] = Len(sent) + (k + i)
    BY <1>2, <1>3, <2>1
  <2>3. Len(sent') = Len(sent) + k
    BY <1>4
  <2>4. Len(sent) + (k + i) = (Len(sent) + k) + i
    BY <1>1, <2>1, Sums
  <2> QED
    BY <2>2, <2>3, <2>4
<1>7. Done' = Done
  <2>1. Len(sent') = Len(sent) + k /\ Len(output') = m - k
    BY <1>2, <1>4
  <2>2. (Len(sent) + k) + (m - k) = Len(sent) + m
    BY <1>1, Sums
  <2> QED
    BY <2>1, <2>2, Zenon DEF Done, m
<1> QED
  BY <1>5, <1>6, <1>7 DEF SentInOrder

LEMMA WholeFacts ==
  ASSUME WholeInv
  PROVE  /\ TypeOK /\ ConnType /\ SockType /\ LifeInv /\ functors \in Seq(FunctorSet) /\ Bare(functors)
         /\ sent \in Seq(Bytes) /\ output \in Seq(Bytes) /\ Done \in Nat /\ asked \in Nat
         /\ Follows(functors, functors) /\ (wrShut => state # "Connected")
<1>1. TypeOK /\ ConnType /\ SockType /\ functors \in Seq(FunctorSet)
  BY LifeFacts, TypeParts DEF WholeInv, LoopType
<1>2. sent \in Seq(Bytes) /\ output \in Seq(Bytes) /\ asked \in Nat
  BY <1>1 DEF TypeOK
<1>3. Done \in Nat
  BY <1>2 DEF Done
<1> QED
  BY <1>1, <1>2, <1>3 DEF WholeInv, SideInv, Follows

(* The channel's events. *)
LEMMA WholeDispatch ==
  ASSUME WholeInv, LifeInv', PollReturns \/ HandleError \/ HandleHup \/ HandleRead, UNCHANGED program
  PROVE  WholeInv'
<1>1. /\ UNCHANGED <<output, sent, asked, functors, peer, wrShut, calling, delayed>>
      /\ state' \in {state, "Disconnected"}
  <2>1. CASE PollReturns
    BY <2>1 DEF PollReturns, connVars, refVars, sockVars
  <2>2. CASE HandleError
    BY <2>2 DEF HandleError, connVars, refVars
  <2>3. CASE HandleHup
    BY <2>3 DEF HandleHup, HandleClose, connVars, refVars, sockVars
  <2>4. CASE HandleRead
    BY <2>4 DEF HandleRead, HandleClose, connVars, refVars
  <2> QED
    BY <2>1, <2>2, <2>3, <2>4
<1>2. Going' => Going
  BY <1>1 DEF Going
<1>3. Bare(functors) /\ Follows(functors, functors) /\ (wrShut => state # "Connected")
  BY WholeFacts
<1> QED
  BY <1>1, <1>2, <1>3, WholeSame

LEMMA WholeWrite ==
  ASSUME WholeInv, LifeInv', HandleWrite, UNCHANGED program
  PROVE  WholeInv'
<1>1. /\ functors' \in {functors, Notify("writeComplete", functors)}
      /\ UNCHANGED <<state, delayed, refVars, peer, asked>>
      /\ wrShut' => wrShut \/ state = "Disconnecting"
  BY WholeFacts, WriteShape
<1>2. PICK k \in 0..Len(output) : sent' = sent \o SubSeq(output, 1, k) /\ output' = After(output, k)
  BY WholeFacts, WriteShape
<1>3. /\ Bare(functors') /\ Follows(functors, functors')
      /\ Has(functors', "send") => Has(functors, "send")
  BY <1>1, WholeFacts, BareNotify
<1>4. SideInv'
  BY <1>1, <1>3 DEF SideInv, WholeInv, refVars
<1>5. StreamInv'
  <2> SUFFICES ASSUME Going'
               PROVE  /\ Done' <= asked' /\ SentInOrder'
                      /\ \A i \in 1..Len(output') : output'[i] = Len(sent') + i
                      /\ Chain(functors', Done', asked')
    BY DEF StreamInv
  <2>1. Going
    BY <1>1 DEF Going
  <2>2. /\ Done <= asked /\ SentInOrder /\ \A i \in 1..Len(output) : output[i] = Len(sent) + i
        /\ Chain(functors, Done, asked)
    BY <2>1 DEF WholeInv, StreamInv
  <2>3. /\ SentInOrder' /\ Done' = Done
        /\ \A i \in 1..Len(output') : output'[i] = Len(sent') + i
    BY <1>2, <2>2, WholeFacts, StreamPull
  <2>4. Chain(functors', Done, asked)
    BY <1>3, <2>2, WholeFacts DEF Follows
  <2> QED
    BY <1>1, <2>2, <2>3, <2>4
<1> QED
  BY <1>4, <1>5 DEF WholeInv

(* The functors that send nothing. *)
LEMMA WholeRun ==
  ASSUME WholeInv, LifeInv', UNCHANGED program,
         RunEstablished \/ RunDestroyed \/ RunForceClose \/ RunCallback \/ RunShutdown \/ RunStartStopRead
  PROVE  WholeInv'
<1>1. LifeInv
  BY DEF WholeInv
<1>2. ~RunShutdown /\ ~RunStartStopRead
  BY <1>1, RunFacts DEF RunShutdown, RunStartStopRead
<1>3. functors # <<>> /\ Head(functors).op # "send" /\ functors' = Tail(functors)
  BY <1>2 DEF RunEstablished, RunDestroyed, RunForceClose, RunCallback, Run, Rest
<1>4. /\ Bare(functors') /\ Follows(functors, functors')
      /\ Has(functors', "send") => Has(functors, "send")
  BY <1>3, WholeFacts, BareTail
<1>5. /\ UNCHANGED <<output, sent, asked, peer, wrShut, calling, delayed>>
      /\ \/ state' \in {state, "Disconnected"}
         \/ state = "Connecting" /\ state' = "Connected" /\ wrShut = FALSE
  <2>1. CASE RunEstablished
    <3>1. state = "Connecting"
      BY <1>1, <2>1, RunFacts DEF RunEstablished
    <3>2. wrShut = FALSE
      BY <1>1, <3>1 DEF LifeInv, FreshInv
    <3> QED
      BY <2>1, <3>1, <3>2 DEF RunEstablished, refVars, sockVars
  <2>2. CASE RunDestroyed
    BY <2>2 DEF RunDestroyed, refVars, sockVars
  <2>3. CASE RunForceClose
    BY <2>3 DEF RunForceClose, HandleClose, connVars, refVars, sockVars
  <2>4. CASE RunCallback
    BY <2>4 DEF RunCallback, connVars, refVars, sockVars
  <2> QED
    BY <1>2, <2>1, <2>2, <2>3, <2>4
<1>6. Going' => Going
  BY <1>5 DEF Going
<1>7. wrShut' => state' # "Connected"
  BY <1>5, WholeFacts
<1> QED
  BY <1>4, <1>5, <1>6, <1>7, WholeSame

(* sendInLoop() of a queued message: it continues the stream. *)
LEMMA WholeRunSend ==
  ASSUME WholeInv, LifeInv', UNCHANGED program, RunSend
  PROVE  WholeInv'
<1> DEFINE msg == Head(functors).data
<1>1. /\ functors # <<>> /\ Head(functors).op = "send" /\ SendInLoop(msg, Rest) /\ Rest = Tail(functors)
      /\ UNCHANGED <<delayed, refVars, peer, wrShut, asked>>
  BY DEF RunSend, Run, Rest
<1>2. Head(functors) \in FunctorSet /\ Rest \in Seq(FunctorSet) /\ Has(functors, "send")
  BY <1>1, WholeFacts DEF Has
<1>3. msg \in Seq(Bytes)
  BY <1>2 DEF FunctorSet
<1> HIDE DEF msg
<1>4. program.offLoop # {} /\ ~wrShut
  BY <1>2 DEF WholeInv, SideInv
<1>5. /\ functors' \in {Rest, Notify("writeComplete", Rest), Notify("highWater", Rest)}
      /\ state' = state
  BY <1>1, <1>3, WholeFacts, SendShape
<1>6. /\ Bare(functors') /\ Follows(Rest, functors')
  <2>1. Bare(Rest) /\ Follows(Rest, Rest)
    BY <1>1, WholeFacts, BareTail DEF Follows
  <2> QED
    BY <1>2, <1>5, <2>1, BareNotify
<1>7. SideInv'
  BY <1>1, <1>4, <1>5, <1>6 DEF SideInv, WholeInv
<1>8. StreamInv'
  <2> SUFFICES ASSUME Going'
               PROVE  /\ Done' <= asked' /\ SentInOrder'
                      /\ \A i \in 1..Len(output') : output'[i] = Len(sent') + i
                      /\ Chain(functors', Done', asked')
    BY DEF StreamInv
  <2>1. Going /\ state # "Disconnected" /\ ~WriteFails
    BY <1>1, <1>4, <1>5 DEF Going, WriteFails
  <2>2. /\ Done <= asked /\ SentInOrder /\ \A i \in 1..Len(output) : output[i] = Len(sent) + i
        /\ Chain(functors, Done, asked)
    BY <2>1 DEF WholeInv, StreamInv
  <2>3. /\ \A x \in 1..Len(msg) : msg[x] = Done + x
        /\ Done + Len(msg) <= asked /\ Chain(Rest, Done + Len(msg), asked) /\ Len(msg) \in Nat
    BY <1>1, <2>2, WholeFacts, ChainTail DEF msg
  <2>4. PICK k \in 0..Len(msg) : /\ sent' = sent \o SubSeq(msg, 1, k) /\ output' = output \o After(msg, k)
                                 /\ k = 0 \/ output = <<>>
    BY <1>1, <1>3, <2>1, WholeFacts, SendShape
  <2>5. /\ SentInOrder' /\ Done' = Done + Len(msg)
        /\ \A i \in 1..Len(output') : output'[i] = Len(sent') + i
    BY <1>3, <2>2, <2>3, <2>4, WholeFacts, StreamPush
  <2>6. Done + Len(msg) \in Nat
    BY <2>3, WholeFacts
  <2>7. Chain(functors', Done + Len(msg), asked)
    BY <1>6, <2>3, <2>6, WholeFacts DEF Follows
  <2> QED
    BY <1>1, <2>3, <2>5, <2>7
<1> QED
  BY <1>7, <1>8 DEF WholeInv

(* send() on the loop thread: nothing waits in the queue. *)
LEMMA WholeInLoopSend ==
  ASSUME OneSided, WholeInv, LifeInv', UNCHANGED program, InLoopSend
  PROVE  WholeInv'
<1>0. program.offLoop = {}
  BY WholeFacts DEF OneSided, TypeOK, InLoopSend, CanCallInLoop
<1>1. state = "Connected" /\ ~wrShut /\ UNCHANGED <<delayed, refVars, peer, wrShut>>
  BY WholeFacts DEF InLoopSend
<1>2. PICK n \in SendSizes : asked' = asked + n /\ SendInLoop(NextMessage(n), functors)
  BY DEF InLoopSend
<1> DEFINE msg == NextMessage(n)
<1>3. n \in Nat /\ msg \in Seq(Bytes) /\ Len(msg) = n /\ \A x \in 1..n : msg[x] = asked + x
  <2>1. n \in Nat /\ msg \in Seq(Bytes)
    BY WholeFacts, NextMessageFacts
  <2> QED
    BY <2>1 DEF NextMessage
<1> HIDE DEF msg
<1>4. SendInLoop(msg, functors)
  BY <1>2 DEF msg
<1>5. /\ functors' \in {functors, Notify("writeComplete", functors), Notify("highWater", functors)}
      /\ state' = state
  BY <1>3, <1>4, WholeFacts, SendShape
<1>6. /\ Bare(functors') /\ ~Has(functors', "send") /\ ~Has(functors, "send")
  <2>1. ~Has(functors, "send")
    BY <1>0 DEF WholeInv, SideInv
  <2> QED
    BY <1>5, <2>1, WholeFacts, BareNotify
<1>7. SideInv'
  BY <1>0, <1>1, <1>5, <1>6 DEF SideInv, WholeInv, refVars
<1>8. StreamInv'
  <2> SUFFICES ASSUME Going'
               PROVE  /\ Done' <= asked' /\ SentInOrder'
                      /\ \A i \in 1..Len(output') : output'[i] = Len(sent') + i
                      /\ Chain(functors', Done', asked')
    BY DEF StreamInv
  <2>1. Going /\ state # "Disconnected" /\ ~WriteFails
    BY <1>1, <1>5 DEF Going, WriteFails
  <2>2. /\ Done <= asked /\ SentInOrder /\ \A i \in 1..Len(output) : output[i] = Len(sent) + i
        /\ Chain(functors, Done, asked)
    BY <2>1 DEF WholeInv, StreamInv
  <2>3. \A i \in 1..Len(functors) : functors[i].data = <<>>
    BY <1>6, WholeFacts DEF Bare, Has
  <2>4. Done = asked
    BY <2>2, <2>3, WholeFacts, ChainEmpty
  <2>5. PICK k \in 0..Len(msg) : /\ sent' = sent \o SubSeq(msg, 1, k) /\ output' = output \o After(msg, k)
                                 /\ k = 0 \/ output = <<>>
    BY <1>3, <1>4, <2>1, WholeFacts, SendShape
  <2>6. \A x \in 1..Len(msg) : msg[x] = Done + x
    BY <1>3, <2>4
  <2>7. /\ SentInOrder' /\ Done' = Done + Len(msg)
        /\ \A i \in 1..Len(output') : output'[i] = Len(sent') + i
    BY <1>3, <2>2, <2>5, <2>6, WholeFacts, StreamPush
  <2>8. Done' = asked' /\ asked' \in Nat
    BY <1>2, <1>3, <2>4, <2>7, WholeFacts
  <2>9. functors' \in Seq(FunctorSet) /\ \A i \in 1..Len(functors') : functors'[i].data = <<>>
    <3>1. functors' \in Seq(FunctorSet)
      BY <1>5, WholeFacts, QueueTypes
    <3> QED
      BY <1>6, <3>1 DEF Bare, Has
  <2>10. Chain(functors', asked', asked')
    BY <2>8, <2>9, ChainEmpty
  <2> QED
    BY <2>7, <2>8, <2>10
<1> QED
  BY <1>7, <1>8 DEF WholeInv

(* The other calls on the loop thread, and the timer they set. *)
LEMMA WholeInLoop ==
  ASSUME OneSided, WholeInv, LifeInv', UNCHANGED program,
         \/ InLoopShutdown \/ InLoopForceClose \/ InLoopForceCloseWithDelay
         \/ InLoopStartStopRead \/ DelayExpires
  PROVE  WholeInv'
<1>0. program.offLoop = {}
  <2>1. CASE DelayExpires
    BY <2>1 DEF DelayExpires, WholeInv, SideInv
  <2>2. CASE ~DelayExpires
    <3>1. program.inLoop # {}
      BY <2>2 DEF InLoopShutdown, InLoopForceClose, InLoopForceCloseWithDelay, InLoopStartStopRead, CanCallInLoop
    <3> QED
      BY <3>1, WholeFacts DEF OneSided, TypeOK
  <2> QED
    BY <2>1, <2>2
<1>1. ~InLoopStartStopRead
  BY WholeFacts DEF OneSided, OthersOnlySend, TypeOK, InLoopStartStopRead, CanCallInLoop
<1>2. ASSUME ForceClose PROVE WholeInv'
  <2>1. /\ functors' = Append(functors, Functor("forceClose")) /\ state' = "Disconnecting"
        /\ state \in {"Connected", "Disconnecting"}
        /\ UNCHANGED <<output, sent, asked, peer, calling>>
    BY <1>2 DEF ForceClose, refVars, sockVars
  <2>2. "forceClose" \in (Shared \union Raw) \ {"send"}
    BY DEF Shared
  <2>3. /\ Bare(functors') /\ Follows(functors, functors')
        /\ Has(functors', "send") => Has(functors, "send")
    BY <2>1, <2>2, WholeFacts, BareAppend
  <2>4. Going' => Going
    BY <2>1 DEF Going
  <2> QED
    BY <1>0, <2>1, <2>3, <2>4, WholeSame
<1>3. ASSUME UNCHANGED <<output, functors, sent, asked, peer, refVars>>,
             \/ UNCHANGED <<state, wrShut>>
             \/ state \in {"Connected", "Disconnecting"} /\ state' = "Disconnecting"
      PROVE  WholeInv'
  <2>1. Going' => Going
    BY <1>3 DEF Going
  <2>2. wrShut' => state' # "Connected"
    BY <1>3, WholeFacts
  <2>3. Bare(functors') /\ Follows(functors, functors')
    BY <1>3, WholeFacts
  <2> QED
    BY <1>0, <1>3, <2>1, <2>2, <2>3, WholeSame DEF refVars
<1>4. CASE InLoopShutdown
  BY <1>3, <1>4 DEF InLoopShutdown, loopVars
<1>5. CASE InLoopForceClose
  BY <1>2, <1>5 DEF InLoopForceClose
<1>6. CASE InLoopForceCloseWithDelay
  BY <1>3, <1>6 DEF InLoopForceCloseWithDelay, sockVars
<1>7. CASE DelayExpires
  BY <1>2, <1>3, <1>7 DEF DelayExpires, connVars, sockVars
<1> QED
  BY <1>1, <1>4, <1>5, <1>6, <1>7

(* The calls of other threads: a message is queued behind the others. *)
LEMMA WholeOffLoop ==
  ASSUME OneSided, WholeInv, LifeInv', UNCHANGED program, NEW u \in OffThreads,
         \/ TakePointer(u) \/ DropPointer(u) \/ OffLoopMark(u) \/ OffLoopPost(u)
         \/ \E op \in Ops : OffLoopTest(u, op)
  PROVE  WholeInv'
<1>0. /\ calling \in [OffThreads -> OffOps \union {"nothing"}]
      /\ \A v \in OffThreads : calling[v] \in {"nothing", "send"}
      /\ Bare(functors) /\ Follows(functors, functors) /\ (wrShut => state # "Connected")
  BY WholeFacts, LifeFacts DEF TypeOK
<1>1. ~OffLoopMark(u)
  BY <1>0 DEF OffLoopMark
<1>2. UNCHANGED <<state, output, sent, peer, wrShut, delayed>>
  BY <1>1 DEF TakePointer, DropPointer, OffLoopPost, OffLoopTest, connVars, loopVars, sockVars
<1>3. Going' => Going
  BY <1>2 DEF Going
<1>4. CASE TakePointer(u) \/ DropPointer(u)
  <2>1. UNCHANGED <<functors, asked, calling>>
    BY <1>4 DEF TakePointer, DropPointer, loopVars
  <2> QED
    BY <1>0, <1>2, <1>3, <2>1, WholeSame
<1>5. ASSUME NEW op \in Ops, OffLoopTest(u, op) PROVE WholeInv'
  <2>1. program.offLoop # {} /\ UNCHANGED <<functors, asked>>
    BY <1>5 DEF OffLoopTest, loopVars
  <2> QED
    BY <1>0, <1>2, <1>3, <2>1, WholeSame
<1>6. CASE OffLoopPost(u)
  <2>1. calling[u] = "send"
    BY <1>0, <1>6 DEF OffLoopPost
  <2>2. program.offLoop # {}
    BY <2>1 DEF WholeInv, SideInv
  <2>3. PICK n \in SendSizes : /\ functors' = Append(functors, [op |-> "send", data |-> NextMessage(n)])
                               /\ asked' = asked + n
    BY <1>6, <2>1 DEF OffLoopPost
  <2> DEFINE f == [op |-> "send", data |-> NextMessage(n)]
  <2>4. n \in Nat /\ NextMessage(n) \in Seq(Bytes)
    BY WholeFacts, NextMessageFacts
  <2>5. Len(NextMessage(n)) = n /\ \A x \in 1..n : NextMessage(n)[x] = asked + x
    BY <2>4 DEF NextMessage
  <2>6. /\ f \in FunctorSet /\ f.op = "send" /\ Len(f.data) = n /\ \A x \in 1..n : f.data[x] = asked + x
    BY <2>4, <2>5 DEF FunctorSet, Raw
  <2>7. functors' = Append(functors, f)
    BY <2>3
  <2> HIDE DEF f
  <2>8. Bare(functors')
    <3>1. \A i \in 1..Len(functors') : (i \in 1..Len(functors) /\ functors'[i] = functors[i]) \/ functors'[i] = f
      BY <2>6, <2>7, WholeFacts
    <3> QED
      BY <1>0, <2>6, <3>1 DEF Bare
  <2>9. SideInv'
    BY <1>2, <2>2, <2>8 DEF SideInv, WholeInv
  <2>10. StreamInv'
    <3> SUFFICES ASSUME Going'
                 PROVE  /\ Done' <= asked' /\ SentInOrder'
                        /\ \A i \in 1..Len(output') : output'[i] = Len(sent') + i
                        /\ Chain(functors', Done', asked')
      BY DEF StreamInv
    <3>1. /\ Done <= asked /\ SentInOrder /\ \A i \in 1..Len(output) : output[i] = Len(sent) + i
          /\ Chain(functors, Done, asked)
      BY <1>3 DEF WholeInv, StreamInv
    <3>2. Done' = Done /\ SentInOrder' /\ \A i \in 1..Len(output') : output'[i] = Len(sent') + i
      BY <1>2, <3>1 DEF Done, SentInOrder
    <3>3. Chain(functors', Done, asked + n)
      BY <2>4, <2>6, <2>7, <3>1, WholeFacts, ChainAppend
    <3>4. Done <= asked + n
      BY <2>4, <3>1, WholeFacts
    <3> QED
      BY <2>3, <3>2, <3>3, <3>4
  <2> QED
    BY <2>9, <2>10 DEF WholeInv
<1> QED
  BY <1>1, <1>4, <1>5, <1>6

LEMMA WholeServerPeer ==
  ASSUME WholeInv, LifeInv', UNCHANGED program,
         RemoveConnectionInLoop \/ PeerSends \/ PeerCloses \/ PeerResets \/ UNCHANGED steps
  PROVE  WholeInv'
<1>1. /\ UNCHANGED <<state, output, sent, asked, wrShut, calling, delayed>>
      /\ peer = "reset" => peer' = "reset"
      /\ functors' \in {functors, Append(functors, Functor("destroyed"))}
  BY DEF RemoveConnectionInLoop, PeerSends, PeerCloses, PeerResets, steps, connVars, loopVars, refVars, sockVars
<1>2. "destroyed" \in (Shared \union Raw) \ {"send"}
  BY DEF Shared
<1>3. /\ Bare(functors') /\ Follows(functors, functors')
      /\ Has(functors', "send") => Has(functors, "send")
  <2>1. CASE functors' = functors
    BY <2>1, WholeFacts
  <2>2. CASE functors' = Append(functors, Functor("destroyed"))
    BY <1>2, <2>2, WholeFacts, BareAppend
  <2> QED
    BY <1>1, <2>1, <2>2
<1>4. (Going' => Going) /\ (wrShut' => state' # "Connected")
  BY <1>1, WholeFacts DEF Going
<1> QED
  BY <1>1, <1>3, <1>4, WholeSame

LEMMA WholeInductive == ASSUME OneSided PROVE WholeInv /\ [Next]_vars => WholeInv'
<1> SUFFICES ASSUME WholeInv, [Next]_vars PROVE WholeInv'
  OBVIOUS
<1>1. LifeInv' /\ OthersOnlySend /\ UNCHANGED program
  BY LifeInductive DEF OneSided, WholeInv, Next, vars
<1>2. CASE PollReturns \/ Dispatch
  BY <1>1, <1>2, WholeDispatch, WholeWrite DEF Dispatch
<1>3. CASE RunFunctor
  BY <1>1, <1>3, WholeRun, WholeRunSend DEF RunFunctor
<1>4. ~ServerDestructor
  BY <1>1 DEF ServerDestructor, OthersOnlySend
<1>5. CASE PeerSends \/ PeerCloses \/ PeerResets \/ RemoveConnectionInLoop \/ Destroyed \/ UNCHANGED vars
  BY <1>1, <1>5, WholeServerPeer DEF Destroyed, vars
<1> QED
  BY <1>1, <1>2, <1>3, <1>4, <1>5, WholeInLoopSend, WholeInLoop, WholeOffLoop DEF Next, Step

LEMMA WholeInit == Init => WholeInv
<1> SUFFICES ASSUME Init PROVE WholeInv
  OBVIOUS
<1>1. LifeInv /\ TypeOK /\ functors = <<Functor("established")>> /\ sent = <<>> /\ output = <<>> /\ asked = 0
  BY LifeInit, TypeInit DEF Init
<1>2. /\ Functor("established") \in FunctorSet /\ Functor("established").op = "established"
      /\ Functor("established").data = <<>>
  BY DEF Functor, FunctorSet, Shared
<1>3. Len(functors) = 1 /\ functors[1] = Functor("established") /\ functors \in Seq(FunctorSet)
  BY <1>1, <1>2
<1>4. \A i \in 1..Len(functors) : functors[i].data = <<>> /\ functors[i].op # "send"
  BY <1>2, <1>3
<1>5. SideInv
  BY <1>4 DEF Init, SideInv, Bare, Has
<1>6. Done = 0 /\ Chain(functors, 0, 0)
  <2>1. Done = 0
    BY <1>1 DEF Done
  <2>2. Chain(functors, 0, 0)
    BY <1>3, <1>4, ChainEmpty
  <2> QED
    BY <2>1, <2>2
<1>7. StreamInv
  BY <1>1, <1>6 DEF StreamInv, SentInOrder
<1> QED
  BY <1>1, <1>5, <1>7 DEF WholeInv

(* With one side sending, until the connection closes or is reset, what the kernel
   took, the output buffer and the queue hold exactly the bytes of send(), in
   order: none is lost, repeated or overtaken. *)
THEOREM NoByteLost == ASSUME OneSided PROVE Spec => []StreamIntact
<1>1. WholeInv => StreamIntact
  <2> SUFFICES ASSUME WholeInv, Going
               PROVE  /\ Len(Written) <= asked /\ \A i \in 1..Len(Written) : Written[i] = i
                      /\ UNION {{Data(i)[x] : x \in 1..Len(Data(i))} : i \in 1..Len(functors)}
                           = Len(Written) + 1 .. asked
                      /\ \A i, j \in 1..Len(functors) : \A x \in 1..Len(Data(i)), y \in 1..Len(Data(j)) :
                            i < j \/ (i = j /\ x < y) => Data(i)[x] < Data(j)[y]
    BY DEF StreamIntact, Going
  <2>1. /\ Done <= asked /\ SentInOrder /\ \A i \in 1..Len(output) : output[i] = Len(sent) + i
        /\ Chain(functors, Done, asked)
    BY DEF WholeInv, StreamInv
  <2>2. sent \in Seq(Bytes) /\ output \in Seq(Bytes) /\ Done \in Nat /\ asked \in Nat
    BY WholeFacts
  <2>3. /\ Len(Written) = Done
        /\ \A i \in 1..Len(sent) : Written[i] = sent[i]
        /\ \A i \in Len(sent) + 1 .. Len(sent) + Len(output) : Written[i] = output[i - Len(sent)]
    BY <2>2, JoinedAt DEF Written, Done
  <2>4. ASSUME NEW i \in 1..Len(Written) PROVE Written[i] = i
    <3>1. Len(sent) \in Nat /\ Len(output) \in Nat
      BY <2>2
    <3>2. CASE i \in 1..Len(sent)
      BY <2>1, <2>3, <3>2 DEF SentInOrder
    <3>3. CASE i \in Len(sent) + 1 .. Len(sent) + Len(output)
      <4>1. i - Len(sent) \in 1..Len(output) /\ i \in Nat
        BY <3>1, <3>3
      <4>2. Written[i] = Len(sent) + (i - Len(sent))
        BY <2>1, <2>3, <3>3, <4>1
      <4> QED
        BY <3>1, <4>1, <4>2
    <3> QED
      BY <2>3, <3>1, <3>2, <3>3 DEF Done
  <2>5. /\ \A i \in 1..Len(functors) : \A x \in 1..Len(Data(i)) :
              Data(i)[x] \in Done + 1 .. asked /\ Data(i)[x] = Data(i)[1] + (x - 1)
        /\ \A i, j \in 1..Len(functors) : \A x \in 1..Len(Data(i)), y \in 1..Len(Data(j)) :
              i < j => Data(i)[x] < Data(j)[y]
        /\ \A b \in Done + 1 .. asked :
              \E i \in 1..Len(functors) : \E x \in 1..Len(Data(i)) : Data(i)[x] = b
    BY <2>1, Zenon DEF Chain, Spans, Rising, Covers, Data
  <2>6. UNION {{Data(i)[x] : x \in 1..Len(Data(i))} : i \in 1..Len(functors)} = Done + 1 .. asked
    <3>1. ASSUME NEW b \in UNION {{Data(i)[x] : x \in 1..Len(Data(i))} : i \in 1..Len(functors)}
          PROVE  b \in Done + 1 .. asked
      BY <2>5
    <3>2. ASSUME NEW b \in Done + 1 .. asked
          PROVE  b \in UNION {{Data(i)[x] : x \in 1..Len(Data(i))} : i \in 1..Len(functors)}
      <4>1. PICK i \in 1..Len(functors) : \E x \in 1..Len(Data(i)) : Data(i)[x] = b
        BY <2>5
      <4>2. b \in {Data(i)[x] : x \in 1..Len(Data(i))}
        BY <4>1
      <4> QED
        BY <4>2
    <3> QED
      BY <3>1, <3>2
  <2>7. ASSUME NEW i \in 1..Len(functors), NEW j \in 1..Len(functors),
               NEW x \in 1..Len(Data(i)), NEW y \in 1..Len(Data(j)), i < j \/ (i = j /\ x < y)
        PROVE  Data(i)[x] < Data(j)[y]
    <3>1. CASE i < j
      BY <2>5, <3>1
    <3>2. CASE i = j /\ x < y
      <4>1. /\ Data(i)[x] = Data(i)[1] + (x - 1) /\ Data(i)[y] = Data(i)[1] + (y - 1)
            /\ Data(i)[x] \in Done + 1 .. asked /\ y \in 1..Len(Data(i)) /\ 1 \in 1..Len(Data(i))
        BY <2>5, <3>2
      <4>2. Data(i)[1] \in Nat
        <5>1. Data(i)[1] \in Done + 1 .. asked
          BY <2>5, <4>1
        <5> QED
          BY <2>2, <5>1
      <4> QED
        BY <3>2, <4>1, <4>2
    <3> QED
      BY <2>7, <3>1, <3>2
  <2> QED
    BY <2>1, <2>3, <2>4, <2>6, <2>7
<1> QED
  BY <1>1, WholeInit, WholeInductive, PTL DEF Spec

-----------------------------------------------------------------------------
(* The life of the connection. *)

(* Where the connection is in its life: the abstract specification's places, read off
   _state, the server's map and the channel's flag. *)
Place == CASE state = "Connecting" -> "made" [] state \in Open -> "open"
           [] state \notin {"Connecting"} \union Open /\ inServer -> "closed"
           [] state \notin {"Connecting"} \union Open /\ ~inServer /\ flag # "new" -> "removed"
           [] OTHER -> "none"

LifeOf == [c \in {"connection"} |-> Place]

Life == INSTANCE ConnectionLife WITH Conns <- {"connection"}, life <- LifeOf

(* A step that leaves the connection where it is. *)
Stays == /\ inServer' = inServer
         /\ (state' = state /\ flag' = flag) \/ (state \in Open /\ state' \in Open)

LEMMA StaysThere == ASSUME Stays PROVE UNCHANGED LifeOf
<1>1. Place' = Place
  <2>1. CASE state' = state /\ flag' = flag
    BY <2>1 DEF Stays, Place
  <2>2. CASE state \in Open /\ state' \in Open
    BY <2>2 DEF Place, Open
  <2> QED
    BY <2>1, <2>2 DEF Stays
<1> QED
  BY <1>1 DEF LifeOf

(* A step that takes it to the next place. *)
LEMMA StepsOn ==
  ASSUME \/ Place = "made" /\ Place' = "open"
         \/ Place = "open" /\ Place' = "closed"
         \/ Place = "closed" /\ Place' = "removed"
         \/ Place = "removed" /\ Place' = "none"
  PROVE  Life!LifeNext
<1>1. LifeOf["connection"] = Place /\ LifeOf' = [LifeOf EXCEPT !["connection"] = Place']
  BY DEF LifeOf
<1> QED
  BY <1>1 DEF Life!LifeNext, Life!Make, Life!Establish, Life!Close, Life!Remove, Life!Destroy, Life!Move

(* handleClose() of an open connection leaves it in the server's map. *)
LEMMA CloseSteps == ASSUME LifeInv, state \in Open, HandleClose PROVE Life!LifeNext
<1>1. inServer /\ inServer' /\ state' = "Disconnected"
  BY DEF HandleClose, LifeInv, OpenInv
<1>2. Place = "open" /\ Place' = "closed"
  BY <1>1 DEF Place, Open
<1> QED
  BY <1>2, StepsOn

(* The events of the channel. *)
LEMMA DispatchSteps == ASSUME LifeInv, PollReturns \/ Dispatch PROVE Life!LifeNext \/ Stays
<1>1. state \in Open \/ state = "Disconnected"
  BY LifeFacts DEF LifeInv, FreshInv, PollReturns, Dispatch, HandleError, HandleHup, HandleRead, HandleWrite, Open
<1>2. CASE PollReturns \/ HandleError
  BY <1>2 DEF PollReturns, HandleError, Stays, connVars, refVars
<1>3. CASE HandleHup \/ HandleRead
  <2>1. state \in Open
    BY <1>1, <1>3, LifeFacts DEF HandleHup, HandleRead
  <2>2. HandleClose \/ UNCHANGED <<connVars, refVars>>
    BY <1>3 DEF HandleHup, HandleRead
  <2> QED
    BY <2>1, <2>2, CloseSteps DEF Stays, connVars, refVars
<1>4. CASE HandleWrite
  <2>1. state' = state /\ inServer' = inServer
    BY <1>4 DEF HandleWrite, refVars
  <2>2. CASE state = "Disconnected"
    <3>1. "write" \notin events
      BY <2>2, LifeFacts
    <3>2. flag' = flag
      BY <1>4, <3>1 DEF HandleWrite
    <3> QED
      BY <2>1, <3>2 DEF Stays
  <2> QED
    BY <1>1, <2>1, <2>2 DEF Stays
<1> QED
  BY <1>2, <1>3, <1>4 DEF Dispatch

(* The functors. *)
LEMMA RunSteps == ASSUME LifeInv, RunFunctor PROVE Life!LifeNext \/ Stays
<1>1. ~RunShutdown /\ ~RunStartStopRead
  BY RunFacts DEF RunShutdown, RunStartStopRead
<1>2. CASE RunEstablished
  <2>1. state = "Connecting" /\ state' = "Connected"
    BY <1>2, RunFacts DEF RunEstablished
  <2>2. Place = "made" /\ Place' = "open"
    BY <2>1 DEF Place, Open
  <2> QED
    BY <2>2, StepsOn
<1>3. CASE RunDestroyed
  <2>1. Has(functors, "destroyed") /\ state # "Connecting"
    BY <1>3, RunFacts DEF RunDestroyed
  <2>2. state = "Disconnected"
    BY <2>1, LifeFacts DEF LifeInv, OpenInv, Open
  <2>3. ~inServer /\ flag = "deleted"
    BY <2>1, <2>2 DEF LifeInv, ClosedInv
  <2>4. state' = "Disconnected" /\ flag' = "new" /\ ~inServer'
    BY <1>3, <2>2, <2>3 DEF RunDestroyed, refVars
  <2>5. Place = "removed" /\ Place' = "none"
    BY <2>2, <2>3, <2>4 DEF Place, Open
  <2> QED
    BY <2>5, StepsOn
<1>4. CASE RunForceClose
  <2>1. (state \in Open /\ HandleClose) \/ UNCHANGED <<connVars, refVars>>
    BY <1>4 DEF RunForceClose, Open
  <2> QED
    BY <2>1, CloseSteps DEF Stays, connVars, refVars
<1>5. CASE RunCallback
  BY <1>5 DEF RunCallback, Stays, connVars, refVars
<1>6. CASE RunSend
  <2>1. state # "Connecting" /\ Head(functors) \in FunctorSet /\ Calm(Rest)
    BY <1>6, RunFacts DEF RunSend
  <2>2. Head(functors).data \in Seq(Bytes) /\ SendInLoop(Head(functors).data, Rest) /\ inServer' = inServer
    BY <1>6, <2>1 DEF RunSend, FunctorSet, refVars
  <2>3. state' = state /\ (state = "Disconnected" => flag' = flag)
    BY <2>1, <2>2, SendFacts
  <2>4. state \in Open \/ state = "Disconnected"
    BY <2>1, LifeFacts DEF Open
  <2> QED
    BY <2>2, <2>3, <2>4 DEF Stays
<1> QED
  BY <1>1, <1>2, <1>3, <1>4, <1>5, <1>6 DEF RunFunctor

(* Calls of user code on the loop thread, and the timer. *)
LEMMA InLoopSteps ==
  ASSUME OthersOnlySend, LifeInv,
         \/ InLoopSend \/ InLoopShutdown \/ InLoopForceClose
         \/ InLoopForceCloseWithDelay \/ InLoopStartStopRead \/ DelayExpires
  PROVE  Stays
<1>1. ~InLoopStartStopRead
  BY LifeFacts DEF InLoopStartStopRead, CanCallInLoop, OthersOnlySend, TypeOK
<1>2. CASE InLoopSend
  <2>1. state = "Connected" /\ inServer' = inServer
    BY <1>2 DEF InLoopSend, refVars
  <2>2. PICK n \in SendSizes : SendInLoop(NextMessage(n), functors)
    BY <1>2 DEF InLoopSend
  <2>3. NextMessage(n) \in Seq(Bytes) /\ Calm(functors)
    BY <2>2, NextMessageFacts, LifeFacts
  <2>4. state' = state
    BY <2>1, <2>2, <2>3, SendFacts
  <2> QED
    BY <2>1, <2>4 DEF Stays, Open
<1>3. CASE InLoopShutdown
  BY <1>3 DEF InLoopShutdown, Stays, Open, refVars
<1>4. ASSUME ForceClose PROVE Stays
  BY <1>4 DEF ForceClose, Stays, Open, refVars
<1>5. CASE InLoopForceClose
  BY <1>4, <1>5 DEF InLoopForceClose
<1>6. CASE InLoopForceCloseWithDelay
  BY <1>6 DEF InLoopForceCloseWithDelay, Stays, Open, refVars
<1>7. CASE DelayExpires
  <2>1. ForceClose \/ UNCHANGED <<connVars, refVars>>
    BY <1>7 DEF DelayExpires
  <2> QED
    BY <1>4, <2>1 DEF Stays, connVars, refVars
<1> QED
  BY <1>1, <1>2, <1>3, <1>5, <1>6, <1>7

(* Calls of other threads, and the peer. *)
LEMMA OtherSteps ==
  ASSUME OthersOnlySend, LifeInv,
         \/ \E u \in OffThreads : \/ TakePointer(u) \/ DropPointer(u)
                                  \/ OffLoopMark(u) \/ OffLoopPost(u)
                                  \/ \E op \in Ops : OffLoopTest(u, op)
         \/ PeerSends \/ PeerCloses \/ PeerResets \/ Destroyed \/ UNCHANGED vars
  PROVE  Stays
<1>1. \A u \in OffThreads : ~OffLoopMark(u)
  BY LifeFacts DEF OffLoopMark
<1>2. UNCHANGED <<state, flag, inServer>>
  BY <1>1 DEF TakePointer, DropPointer, OffLoopPost, OffLoopTest, PeerSends, PeerCloses, PeerResets,
     Destroyed, connVars, refVars, steps, vars
<1> QED
  BY <1>2 DEF Stays

(* removeConnectionInLoop() *)
LEMMA RemoveSteps == ASSUME LifeInv, RemoveConnectionInLoop PROVE Life!LifeNext
<1>1. removals > 0 /\ inServer' = FALSE /\ state' = state /\ flag' = flag
  BY DEF RemoveConnectionInLoop, connVars
<1>2. state = "Disconnected"
  BY <1>1, LifeOwned
<1>3. inServer /\ flag = "deleted"
  BY <1>1, <1>2 DEF LifeInv, ClosedInv
<1>4. Place = "closed" /\ Place' = "removed"
  BY <1>1, <1>2, <1>3 DEF Place, Open
<1> QED
  BY <1>4, StepsOn

(* A connection lives as the abstract specification says: whatever functors, events,
   timers, sends of other threads and closes of the peer come in between, it is
   established once, closed once, removed from the server's map once after that, and
   leaves epoll last. *)
THEOREM ConnectionImplementsLife == ASSUME OthersOnlySend PROVE Spec => Life!LifeSpec
<1>1. Init => Life!LifeInit
  <2> SUFFICES ASSUME Init PROVE Life!LifeInit
    OBVIOUS
  <2>1. Place = "made"
    BY DEF Init, Place, Open
  <2> QED
    BY <2>1 DEF Life!LifeInit, LifeOf
<1>2. LifeInv /\ [Next]_vars => [Life!LifeNext]_LifeOf
  <2> SUFFICES ASSUME LifeInv, [Next]_vars PROVE Life!LifeNext \/ Stays
    BY StaysThere
  <2>1. ~ServerDestructor
    BY DEF ServerDestructor, OthersOnlySend
  <2> QED
    BY <2>1, DispatchSteps, RunSteps, InLoopSteps, OtherSteps, RemoveSteps DEF Next, Step
<1> QED
  BY <1>1, <1>2, LifeInvariant, PTL DEF Spec, Life!LifeSpec
=============================================================================

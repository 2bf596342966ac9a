-------------------------- MODULE TcpClientProofs ---------------------------
(***************************************************************************)
(* Proofs about TcpClient for any set of connections, any delays and any   *)
(* number of calls.                                                        *)
(***************************************************************************)
EXTENDS TcpClient, FiniteSetTheorems, TLAPS

(* A functor op waits in q; at most one does; a reset waits only among the
   first n.                                                                *)
Has(q, op) == \E i \in 1..Len(q) : q[i].op = op
Once(q, op) == \A i, j \in 1..Len(q) : q[i].op = op /\ q[j].op = op => i = j
ResetsWithin(q, n) == \A i \in 1..Len(q) : q[i].op = "reset" => i <= n

(* The connections whose closing the client is told of. *)
Mine == live \ detached

(* The Connector's _connect is what the calls of the user say, and what is
   stopped is only waiting because stopInLoop() is still to come.          *)
FlagsInv == /\ k.connect <=> (connects > 0 /\ ~stopped)
            /\ stopped => ~want /\ ~restarting
            /\ Has(functors, "stop") \/ call = "stop" => stopped
            /\ stopped /\ k.chnnel = "waiting" => Has(functors, "stop") \/ call = "stop"
            /\ fault = "none" /\ k.failed = FALSE

(* Until the start of the one connect() has run, the Connector is as new. *)
FirstInv == /\ connects = 0 => call # "connect" /\ ~Has(functors, "start")
            /\ connects = 0 \/ call = "connect" \/ Has(functors, "start") =>
                 k.state = "Disconnected" /\ k.chnnel = "none" /\ k.timers = 0 /\ live = {} /\ ~restarting

(* The ways to a connection exclude each other. *)
OneInv == /\ call = "connect" => ~Has(functors, "start")
          /\ Once(functors, "start") /\ Once(functors, "reset")
          /\ k.state = "Connecting" <=> k.chnnel = "waiting"
          /\ k.timers <= 1 /\ (k.timers = 1 => k.state = "Disconnected" /\ Mine = {} /\ ~restarting)
          /\ k.chnnel = "waiting" => Mine = {} /\ ~restarting
          /\ restarting => Mine = {} /\ k.chnnel = "none" /\ client = "alive"

(* A channel that was removed is reset in this pass of the loop, before another
   event, or a retry set in an earlier pass, could start a connection:
   "assert(!_chnnel)" holds.                                               *)
PassInv == /\ phase = "dispatch" => todo = 0
           /\ phase = "functors" => ready = {} /\ k.due = 0 /\ ~late
           /\ ready \subseteq live \union {"chnnel", "timers"} /\ ("chnnel" \in ready => k.chnnel = "waiting")
           /\ Has(functors, "reset") <=> k.chnnel = "removed"
           /\ phase = "functors" /\ k.connect => ResetsWithin(functors, todo)
           /\ phase = "dispatch" /\ k.connect /\ k.timers > k.fresh => k.chnnel # "removed"
           /\ k.connect /\ ((k.due > 0 /\ ~late) \/ ready \intersect Mine # {}) => k.chnnel # "removed"

(* The client owns the one connection that reports to it; deleted with care, it
   leaves nothing that would come back to it or to its Connector.          *)
OwnInv == /\ client = "alive" => /\ detached = {} /\ live \subseteq {conn} /\ (conn # NoConn => conn \in live)
                                 /\ ~Has(functors, "forceClose")
          /\ client = "deleted" => /\ Mine = {} /\ k.timers = 0 /\ k.chnnel = "none"
                                   /\ call = "nothing" /\ ~restarting
                                   /\ ~Has(functors, "start") /\ ~Has(functors, "stop")
          /\ ~Has(functors, "setCloseCallBack")

CareInv == FlagsInv /\ FirstInv /\ OneInv /\ PassInv /\ OwnInv

(* The assertion a retry fails that runs in the pass that set it: the program has
   ended in the attempt of that retry.                                     *)
LateFault == /\ fault = "assert" /\ late /\ ~stopped /\ ~restarting
             /\ k.timers = 0 /\ Mine = {} /\ ~Has(functors, "start")

(* Nothing but the types is claimed once the user was careless. *)
ClientInv == TypeOK /\ (~careless => CareInv \/ LateFault)

-----------------------------------------------------------------------------
(* The queue of functors. *)

(* A functor is what Functor() makes. *)
LEMMA FunctorFacts ==
  /\ \A op \in Raw : Functor(op, NoConn) \in Functors /\ Functor(op, NoConn).op = op
  /\ \A op \in {"destroyed", "setCloseCallBack", "forceClose"}, c \in Conns :
       Functor(op, c) \in Functors /\ Functor(op, c).op = op /\ Functor(op, c).conn = c
BY DEF Functor, Functors, Raw

(* The six kinds of functors, and which of them are bound to a connection. *)
LEMMA FunctorKinds ==
  ASSUME NEW f \in Functors
  PROVE  /\ f.op \in {"start", "stop", "reset", "destroyed", "setCloseCallBack", "forceClose"}
         /\ f.op \notin Raw => f.conn \in Conns
BY DEF Functors, Raw

(* Appending adds one kind of functor. *)
LEMMA AppendFacts ==
  ASSUME NEW q \in Seq(Functors), NEW f \in Functors
  PROVE  /\ Append(q, f) \in Seq(Functors) /\ Len(Append(q, f)) = Len(q) + 1
         /\ \A op : Has(Append(q, f), op) <=> Has(q, op) \/ f.op = op
         /\ \A op : Once(q, op) /\ (f.op = op => ~Has(q, op)) => Once(Append(q, f), op)
         /\ \A n \in Nat : ResetsWithin(q, n) /\ f.op # "reset" => ResetsWithin(Append(q, f), n)
<1>1. /\ Append(q, f) \in Seq(Functors) /\ Len(Append(q, f)) = Len(q) + 1 /\ Len(q) \in Nat
      /\ \A i \in 1..Len(q) : Append(q, f)[i] = q[i]
      /\ Append(q, f)[Len(q) + 1] = f
  OBVIOUS
<1>2. \A op : Has(Append(q, f), op) <=> Has(q, op) \/ f.op = op
  BY <1>1 DEF Has
<1>3. \A op : Once(q, op) /\ (f.op = op => ~Has(q, op)) => Once(Append(q, f), op)
  BY <1>1 DEF Has, Once
<1>4. \A n \in Nat : ResetsWithin(q, n) /\ f.op # "reset" => ResetsWithin(Append(q, f), n)
  BY <1>1 DEF ResetsWithin
<1> QED BY <1>1, <1>2, <1>3, <1>4

(* Running the head takes it away, and only it. *)
LEMMA TailFacts ==
  ASSUME NEW q \in Seq(Functors), q # <<>>
  PROVE  /\ Tail(q) \in Seq(Functors) /\ Len(Tail(q)) = Len(q) - 1 /\ Len(q) \in Nat /\ Head(q) \in Functors
         /\ \A op : Has(q, op) <=> Has(Tail(q), op) \/ Head(q).op = op
         /\ \A op : Once(q, op) => Once(Tail(q), op) /\ (Head(q).op = op => ~Has(Tail(q), op))
         /\ \A n \in Nat : ResetsWithin(q, n) => ResetsWithin(Tail(q), n - 1)
<1>1. /\ Tail(q) \in Seq(Functors) /\ Len(Tail(q)) = Len(q) - 1 /\ Len(q) \in Nat /\ Len(q) >= 1
      /\ \A i \in 1..(Len(q) - 1) : Tail(q)[i] = q[i + 1]
      /\ Head(q) = q[1] /\ Head(q) \in Functors
  OBVIOUS
<1>2. \A op : Has(q, op) => Has(Tail(q), op) \/ Head(q).op = op
  <2> SUFFICES ASSUME NEW op, NEW i \in 1..Len(q), q[i].op = op, i # 1
               PROVE  Has(Tail(q), op)
    BY <1>1 DEF Has
  <2> i - 1 \in 1..Len(Tail(q)) /\ Tail(q)[i - 1] = q[i]
    BY <1>1
  <2> QED BY DEF Has
<1>3. \A op : Has(Tail(q), op) \/ Head(q).op = op => Has(q, op)
  BY <1>1 DEF Has
<1>4. \A op : Once(q, op) => Once(Tail(q), op) /\ (Head(q).op = op => ~Has(Tail(q), op))
  <2> SUFFICES ASSUME NEW op, Once(q, op) PROVE Once(Tail(q), op) /\ (Head(q).op = op => ~Has(Tail(q), op))
    OBVIOUS
  <2>1. Once(Tail(q), op)
    <3> SUFFICES ASSUME NEW i \in 1..Len(Tail(q)), NEW j \in 1..Len(Tail(q)),
                        Tail(q)[i].op = op, Tail(q)[j].op = op
                 PROVE  i = j
      BY DEF Once
    <3> i + 1 \in 1..Len(q) /\ j + 1 \in 1..Len(q) /\ q[i + 1].op = op /\ q[j + 1].op = op
      BY <1>1
    <3> i + 1 = j + 1
      BY DEF Once
    <3> QED BY <1>1
  <2>2. ASSUME Head(q).op = op, Has(Tail(q), op) PROVE FALSE
    <3> PICK i \in 1..Len(Tail(q)) : Tail(q)[i].op = op
      BY <2>2 DEF Has
    <3> i + 1 \in 1..Len(q) /\ 1 \in 1..Len(q) /\ q[i + 1].op = op /\ q[1].op = op /\ i + 1 # 1
      BY <1>1, <2>2
    <3> QED BY DEF Once
  <2> QED BY <2>1, <2>2
<1>5. \A n \in Nat : ResetsWithin(q, n) => ResetsWithin(Tail(q), n - 1)
  <2> SUFFICES ASSUME NEW n \in Nat, ResetsWithin(q, n), NEW i \in 1..Len(Tail(q)), Tail(q)[i].op = "reset"
               PROVE  i <= n - 1
    BY DEF ResetsWithin
  <2> i + 1 \in 1..Len(q) /\ q[i + 1].op = "reset"
    BY <1>1
  <2> i + 1 <= n
    BY DEF ResetsWithin
  <2> QED BY <1>1
<1> QED BY <1>1, <1>2, <1>3, <1>4, <1>5

(* The resets of a queue: none, all, or none within nothing. *)
LEMMA ResetFacts ==
  ASSUME NEW q \in Seq(Functors)
  PROVE  /\ \A n \in Nat : ~Has(q, "reset") => ResetsWithin(q, n)
         /\ ResetsWithin(q, Len(q))
         /\ ResetsWithin(q, 0) => ~Has(q, "reset")
BY DEF Has, ResetsWithin

(* What is said of all the functors, in terms of their kinds. *)
LEMMA NoneOfAKind ==
  ASSUME NEW q
  PROVE  /\ (\A i \in 1..Len(q) : q[i].op \notin Raw) <=> ~Has(q, "start") /\ ~Has(q, "stop") /\ ~Has(q, "reset")
         /\ (\A i \in 1..Len(q) : q[i].op # "stop") <=> ~Has(q, "stop")
BY DEF Has, Raw

-----------------------------------------------------------------------------
(* The Connector. *)

Delays == InitDelay..MaxDelay

(* The delays are numbers, and a field of a connector may change alone. *)
LEMMA FieldFacts ==
  ASSUME NEW c \in Connectors
  PROVE  /\ Delays \subseteq Nat /\ InitDelay \in Delays /\ MaxDelay \in Delays
         /\ c.state \in {"Disconnected", "Connecting", "Connected"} /\ c.connect \in BOOLEAN
         /\ c.chnnel \in {"none", "waiting", "removed"} /\ c.timers \in Nat /\ c.due \in Nat
         /\ c.fresh \in Nat /\ c.delay \in Delays /\ c.failed \in BOOLEAN
         /\ \A t, d \in Nat : [c EXCEPT !.timers = t, !.due = d] \in Connectors
         /\ \A s \in {"Disconnected", "Connecting", "Connected"}, b \in BOOLEAN, d \in Delays :
              [c EXCEPT !.state = s, !.delay = d, !.connect = b] \in Connectors
         /\ \A s \in {"Disconnected", "Connecting", "Connected"}, t, n \in Nat, d \in Delays :
              [c EXCEPT !.state = s, !.timers = t, !.fresh = n, !.delay = d] \in Connectors
<1>1. Delays \subseteq Nat /\ InitDelay \in Delays /\ MaxDelay \in Delays
  BY DelayAssumption DEF Delays
<1>2. Connectors = [state : {"Disconnected", "Connecting", "Connected"}, connect : BOOLEAN,
                    chnnel : {"none", "waiting", "removed"}, timers : Nat, due : Nat, fresh : Nat,
                    delay : Delays, failed : BOOLEAN]
  BY DEF Connectors, Delays
<1> QED BY <1>1, <1>2

(* retry() schedules one more retry and keeps the delay within its bounds. *)
LEMMA RetryFacts ==
  ASSUME NEW c \in Connectors
  PROVE  /\ Retry(c) \in Connectors
         /\ Retry(c).state = "Disconnected" /\ Retry(c).connect = c.connect /\ Retry(c).chnnel = c.chnnel
         /\ Retry(c).timers = IF c.connect THEN c.timers + 1 ELSE c.timers
         /\ Retry(c).fresh = IF c.connect THEN c.fresh + 1 ELSE c.fresh
         /\ Retry(c).due = c.due /\ Retry(c).failed = c.failed
<1>1. c.delay \in Nat /\ MaxDelay \in Nat /\ InitDelay \in Nat /\ c.delay >= InitDelay
      /\ c.timers \in Nat /\ c.fresh \in Nat
  <2>1. c.delay \in Delays /\ c.timers \in Nat /\ c.fresh \in Nat
    BY FieldFacts
  <2>2. InitDelay \in Nat /\ MaxDelay \in Nat
    BY DelayAssumption
  <2> QED BY <2>1, <2>2 DEF Delays
<1> DEFINE m == Min({2 * c.delay, MaxDelay})
<1>2. m \in Delays
  <2>1. CASE 2 * c.delay <= MaxDelay
    <3> m = 2 * c.delay
      BY <1>1, <2>1 DEF Min
    <3> QED BY <1>1, <2>1 DEF Delays
  <2>2. CASE ~(2 * c.delay <= MaxDelay)
    <3> m = MaxDelay
      BY <1>1, <2>2 DEF Min
    <3> QED BY FieldFacts
  <2> QED BY <2>1, <2>2
<1>3. CASE c.connect
  <2>1. Retry(c) = [c EXCEPT !.state = "Disconnected", !.timers = c.timers + 1,
                         !.fresh = c.fresh + 1, !.delay = m]
    BY <1>3 DEF Retry
  <2> HIDE DEF m
  <2>2. Retry(c) \in Connectors
    <3>1. c.timers + 1 \in Nat /\ c.fresh + 1 \in Nat
      BY <1>1
    <3>2. \A s \in {"Disconnected", "Connecting", "Connected"}, t, n \in Nat, d \in Delays :
            [c EXCEPT !.state = s, !.timers = t, !.fresh = n, !.delay = d] \in Connectors
      BY FieldFacts
    <3>3. [c EXCEPT !.state = "Disconnected", !.timers = c.timers + 1, !.fresh = c.fresh + 1, !.delay = m] \in Connectors
      BY <1>2, <3>1, <3>2
    <3> QED BY <2>1, <3>3
  <2> QED BY <1>3, <2>1, <2>2 DEF Connectors
<1>4. CASE ~c.connect
  BY <1>1, <1>4 DEF Connectors, Retry
<1> QED BY <1>3, <1>4

(* startInLoop() of a connector that is disconnected leaves an attempt, a retry,
   or what it was; an assertion fails only if there was a channel.         *)
LEMMA StartFacts ==
  ASSUME NEW c \in Connectors, NEW d \in StartInLoop(c)
  PROVE  /\ d \in Connectors /\ d.connect = c.connect /\ d.due = c.due
         /\ d.timers \in {c.timers, c.timers + 1}
         /\ c.state = "Disconnected" =>
              \/ /\ d.state = "Connecting" /\ d.chnnel = "waiting" /\ d.timers = c.timers /\ c.connect
                 /\ d.fresh = c.fresh /\ d.failed = (c.chnnel # "none")
              \/ /\ d.state = "Disconnected" /\ d.chnnel = c.chnnel /\ d.timers = c.timers + 1 /\ c.connect
                 /\ d.fresh = c.fresh + 1 /\ d.failed = c.failed
              \/ d = c
         /\ c.state = "Disconnected" /\ ~c.connect => d = c
<1>1. CASE c.state # "Disconnected"
  BY <1>1 DEF StartInLoop, Connectors
<1>2. CASE c.state = "Disconnected" /\ ~c.connect
  BY <1>2 DEF StartInLoop, Connectors
<1>3. CASE c.state = "Disconnected" /\ c.connect
  <2>1. d \in {Connecting(c), Retry(c), c}
    BY <1>3 DEF StartInLoop, Connect
  <2>2. CASE d = Connecting(c)
    BY <1>3, <2>2 DEF Connecting, Connectors
  <2>3. CASE d = Retry(c)
    BY <1>3, <2>3, RetryFacts
  <2>4. CASE d = c
    BY <2>4 DEF Connectors
  <2> QED BY <2>1, <2>2, <2>3, <2>4
<1> QED BY <1>1, <1>2, <1>3

(* What startInLoop() of connector c does to the state. *)
LEMMA StartStep ==
  ASSUME NEW c \in Connectors, Start(c), gaveUp \in BOOLEAN
  PROVE  /\ k' \in StartInLoop(c) /\ fault' \in {"none", "assert"} /\ gaveUp' \in BOOLEAN
         /\ client = "alive" => fault' = IF k'.failed THEN "assert" ELSE "none"
BY DEF Start, Becomes, DestroyedInUse

(* The functor that runs is the head of the queue. *)
LEMMA RunStep ==
  ASSUME TypeOK, NEW op, Run(op)
  PROVE  /\ functors \in Seq(Functors) /\ functors # <<>> /\ Head(functors).op = op
         /\ Rest \in Seq(Functors) /\ Len(Rest) = Len(functors) - 1 /\ Len(functors) \in Nat
         /\ todo \in 1..Len(functors) /\ todo' = todo - 1 /\ todo' \in 0..Len(Rest)
         /\ phase' = phase /\ ready' = ready /\ late' = late /\ fault = "none" /\ ~restarting
<1>1. functors \in Seq(Functors) /\ todo \in 1..Len(functors) /\ Len(functors) \in Nat
  BY DEF Run, TypeOK
<1>2. functors # <<>>
  BY <1>1
<1>3. Rest \in Seq(Functors) /\ Len(Rest) = Len(functors) - 1
  BY <1>1, <1>2, TailFacts DEF Rest
<1> QED BY <1>1, <1>2, <1>3 DEF Run, LoopFree

-----------------------------------------------------------------------------
(* The types. *)

(* A connector c with no more due than pending retries keeps that through
   startInLoop().                                                          *)
LEMMA StartTypes ==
  ASSUME NEW c \in Connectors, c.due <= c.timers, Start(c), gaveUp \in BOOLEAN
  PROVE  /\ k' \in Connectors /\ k'.due <= k'.timers
         /\ fault' \in {"none", "assert", "freed"} /\ gaveUp' \in BOOLEAN
<1>1. k' \in StartInLoop(c) /\ fault' \in {"none", "assert"} /\ gaveUp' \in BOOLEAN
  BY StartStep
<1>2. k' \in Connectors /\ k'.due = c.due /\ k'.timers \in {c.timers, c.timers + 1}
  BY <1>1, StartFacts
<1>3. c.timers \in Nat /\ c.due \in Nat
  BY DEF Connectors
<1> QED BY <1>1, <1>2, <1>3

(* The attempt ends without a connection: the handlers of its event, one or both,
   leave one retry and one reset.                                          *)
LEMMA FailFacts ==
  ASSUME k \in Connectors, k.due <= k.timers, AttemptFails
  PROVE  /\ k' \in Connectors /\ k'.due <= k'.timers
         /\ functors' \in {functors, Append(functors, Functor("reset", NoConn))}
         /\ k.state = "Connecting" =>
              /\ functors' = Append(functors, Functor("reset", NoConn))
              /\ k'.state = "Disconnected" /\ k'.connect = k.connect /\ k'.chnnel = "removed"
              /\ k'.timers = (IF k.connect THEN k.timers + 1 ELSE k.timers)
              /\ k'.fresh = (IF k.connect THEN k.fresh + 1 ELSE k.fresh)
              /\ k'.due = k.due /\ k'.failed = k.failed
<1> DEFINE now == [k |-> k, functors |-> functors]
           d == Retry(RemoveAndResetChnnel(k))
           q == Append(functors, Functor("reset", NoConn))
<1>1. /\ d \in Connectors /\ d.state = "Disconnected" /\ d.connect = k.connect /\ d.chnnel = "removed"
      /\ d.timers = (IF k.connect THEN k.timers + 1 ELSE k.timers)
      /\ d.fresh = (IF k.connect THEN k.fresh + 1 ELSE k.fresh)
      /\ d.due = k.due /\ d.failed = k.failed
  <2> DEFINE c == RemoveAndResetChnnel(k)
  <2>1. /\ c \in Connectors /\ c.connect = k.connect /\ c.chnnel = "removed" /\ c.timers = k.timers
        /\ c.due = k.due /\ c.fresh = k.fresh /\ c.failed = k.failed
    BY DEF RemoveAndResetChnnel, Connectors
  <2> HIDE DEF c
  <2> QED BY <2>1, RetryFacts DEF c
<1>2. TryAgain(now) = [k |-> d, functors |-> q]
  BY DEF TryAgain
<1>3. k.timers \in Nat /\ k.due \in Nat
  BY FieldFacts
<1>4. PICK s \in {HandleError(now), HandleWriteFails(now), HandleWriteFails(HandleError(now))} :
        k' = s.k /\ functors' = s.functors
  BY DEF AttemptFails
<1> HIDE DEF d, q
<1>5. CASE k.state = "Connecting"
  <2>1. [d EXCEPT !.state = "Disconnected"] = d
    BY <1>1 DEF Connectors
  <2>2. HandleError(now) = TryAgain(now) /\ HandleWriteFails(now) = TryAgain(now)
    BY <1>5 DEF HandleError, HandleWriteFails
  <2>3. HandleWriteFails(HandleError(now)) = [k |-> d, functors |-> q]
    BY <1>1, <1>2, <2>1, <2>2 DEF HandleWriteFails
  <2>4. k' = d /\ functors' = q
    BY <1>2, <1>4, <2>2, <2>3
  <2> QED BY <1>1, <1>3, <2>4 DEF q
<1>6. CASE k.state # "Connecting"
  <2>1. HandleError(now) = now /\ HandleWriteFails(now) = [now EXCEPT !.k.state = "Disconnected"]
    BY <1>6 DEF HandleError, HandleWriteFails
  <2>2. k' \in {k, [k EXCEPT !.state = "Disconnected"]} /\ functors' = functors
    BY <1>4, <2>1
  <2> QED BY <1>6, <2>2 DEF Connectors
<1> QED BY <1>5, <1>6

(* Every step keeps the types. *)
LEMMA TypeStep == TypeOK /\ [Next]_vars => TypeOK'
<1> SUFFICES ASSUME TypeOK, [Next]_vars PROVE TypeOK'
  OBVIOUS
<1> USE DEF loopVars, clientVars, userVars, historyVars
<1>1. CASE Poll
  <2>1. k' \in Connectors /\ k'.due <= k'.timers
    BY <1>1 DEF Poll, TypeOK, Connectors
  <2>2. ready' \subseteq Conns \union {"chnnel", "timers"}
    BY <1>1 DEF Poll, TypeOK
  <2> QED BY <1>1, <2>1, <2>2 DEF Poll, TypeOK
<1>2. CASE Swap \/ TakeExpired
  <2>1. CASE Swap
    <3>1. todo' \in 0..Len(functors)
      BY <2>1 DEF Swap, TypeOK
    <3>2. late' \in BOOLEAN /\ ready' \subseteq Conns \union {"chnnel", "timers"} /\ phase' \in {"dispatch", "functors"}
      BY <2>1 DEF Swap
    <3> QED BY <2>1, <3>1, <3>2 DEF Swap, TypeOK
  <2>2. CASE TakeExpired
    <3>1. PICK n \in 0..k.timers : k' = [k EXCEPT !.due = n] /\ late' = (n + k.fresh > k.timers)
      BY <2>2 DEF TakeExpired
    <3>2. k \in Connectors /\ k.timers \in Nat
      BY FieldFacts DEF TypeOK
    <3>3. k' \in Connectors /\ k'.due <= k'.timers /\ late' \in BOOLEAN
      BY <3>1, <3>2 DEF Connectors
    <3> QED BY <2>2, <3>3 DEF TakeExpired, TypeOK
  <2> QED BY <1>2, <2>1, <2>2
<1>3. CASE RunStart
  <2>1. /\ Run("start")
        /\ IF ConnectorExists THEN DoStart(k) ELSE fault' = "freed" /\ UNCHANGED <<k, functors, gaveUp>>
        /\ UNCHANGED <<clientVars, userVars, connects, stopped, careless>>
    BY <1>3 DEF RunStart, RunRaw
  <2>2. Rest \in Seq(Functors) /\ Len(Rest) = Len(functors) - 1 /\ todo' \in 0..Len(Rest) /\ Len(functors) \in Nat
    BY <2>1, RunStep
  <2>3. CASE ConnectorExists
    <3>1. Start(k) /\ functors' = Rest
      BY <2>1, <2>3 DEF DoStart
    <3>2. k' \in Connectors /\ k'.due <= k'.timers /\ fault' \in {"none", "assert", "freed"} /\ gaveUp' \in BOOLEAN
      BY <3>1, StartTypes DEF TypeOK
    <3> QED BY <2>1, <2>2, <3>1, <3>2 DEF TypeOK, Run
  <2>4. CASE ~ConnectorExists
    <3>1. todo' \in 0..Len(functors)
      BY <2>2
    <3> QED BY <2>1, <2>4, <3>1 DEF TypeOK, Run
  <2> QED BY <2>3, <2>4
<1>4. CASE RunStop
  <2>1. /\ Run("stop")
        /\ IF ConnectorExists THEN DoStop(k) ELSE fault' = "freed" /\ UNCHANGED <<k, functors, gaveUp>>
        /\ UNCHANGED <<clientVars, userVars, connects, stopped, careless>>
    BY <1>4 DEF RunStop, RunRaw
  <2>2. Rest \in Seq(Functors) /\ Len(Rest) = Len(functors) - 1 /\ todo' \in 0..Len(Rest) /\ Len(functors) \in Nat
    BY <2>1, RunStep
  <2>3. CASE ConnectorExists
    <3>1. /\ Becomes(StopInLoop(k)) /\ gaveUp' = gaveUp
          /\ functors' \in {Rest, Append(Rest, Functor("reset", NoConn))}
      BY <2>1, <2>3 DEF DoStop
    <3>2. functors' \in Seq(Functors) /\ todo' \in 0..Len(functors')
      BY <2>2, <3>1, FunctorFacts, AppendFacts DEF Raw
    <3>3. RemoveAndResetChnnel(k) \in Connectors /\ RemoveAndResetChnnel(k).timers = k.timers
          /\ RemoveAndResetChnnel(k).due = k.due
      BY DEF RemoveAndResetChnnel, TypeOK, Connectors
    <3>4. k.due \in Nat /\ k.timers \in Nat /\ k.due <= k.timers /\ k \in Connectors
      BY DEF TypeOK, Connectors
    <3>5. StopInLoop(k) \in Connectors /\ StopInLoop(k).due <= StopInLoop(k).timers
      BY <3>3, <3>4, RetryFacts DEF StopInLoop
    <3> QED BY <2>1, <3>1, <3>2, <3>5 DEF TypeOK, Run, Becomes
  <2>4. CASE ~ConnectorExists
    <3>1. todo' \in 0..Len(functors)
      BY <2>2
    <3> QED BY <2>1, <2>4, <3>1 DEF TypeOK, Run
  <2> QED BY <2>3, <2>4
<1>5. CASE RunReset
  <2>1. /\ Run("reset")
        /\ IF ConnectorExists THEN DoReset(k) ELSE fault' = "freed" /\ UNCHANGED <<k, functors, gaveUp>>
        /\ UNCHANGED <<clientVars, userVars, connects, stopped, careless>>
    BY <1>5 DEF RunReset, RunRaw
  <2>2. Rest \in Seq(Functors) /\ Len(Rest) = Len(functors) - 1 /\ todo' \in 0..Len(Rest) /\ Len(functors) \in Nat
    BY <2>1, RunStep
  <2>3. CASE ConnectorExists
    <3>1. Becomes(ResetChnnel(k)) /\ gaveUp' = gaveUp /\ functors' = Rest
      BY <2>1, <2>3 DEF DoReset
    <3>2. ResetChnnel(k) \in Connectors /\ ResetChnnel(k).due <= ResetChnnel(k).timers
      BY DEF ResetChnnel, TypeOK, Connectors
    <3> QED BY <2>1, <2>2, <3>1, <3>2 DEF TypeOK, Run, Becomes
  <2>4. CASE ~ConnectorExists
    <3>1. todo' \in 0..Len(functors)
      BY <2>2
    <3> QED BY <2>1, <2>4, <3>1 DEF TypeOK, Run
  <2> QED BY <2>3, <2>4
<1>6. CASE RetryTimer
  <2> DEFINE c == [k EXCEPT !.timers = @ - 1, !.due = @ - 1]
  <2>1. c \in Connectors /\ c.due <= c.timers
    <3>1. k \in Connectors /\ k.due <= k.timers /\ k.due > 0 /\ k.timers \in Nat /\ k.due \in Nat
      BY <1>6, FieldFacts DEF RetryTimer, TypeOK
    <3>2. c.timers = k.timers - 1 /\ c.due = k.due - 1
      BY <3>1 DEF Connectors
    <3>3. k.timers - 1 \in Nat /\ k.due - 1 \in Nat
      BY <3>1
    <3>4. c \in Connectors
      BY <3>1, <3>3, FieldFacts
    <3> QED BY <3>1, <3>2, <3>4
  <2>2. Start(c)
    BY <1>6 DEF RetryTimer
  <2> HIDE DEF c
  <2>3. k' \in Connectors /\ k'.due <= k'.timers /\ fault' \in {"none", "assert", "freed"} /\ gaveUp' \in BOOLEAN
    BY <2>1, <2>2, StartTypes DEF TypeOK
  <2> QED BY <1>6, <2>3 DEF RetryTimer, TypeOK
<1>7. ASSUME Dispatch("chnnel"), functors' \in {functors, Append(functors, Functor("reset", NoConn))}
      PROVE  /\ functors' \in Seq(Functors) /\ todo' \in 0..Len(functors') /\ phase' \in {"dispatch", "functors"}
             /\ ready' \subseteq Conns \union {"chnnel", "timers"} /\ late' \in BOOLEAN
  <2>1. functors' \in Seq(Functors) /\ Len(functors') \in {Len(functors), Len(functors) + 1} /\ Len(functors) \in Nat
    BY <1>7, FunctorFacts, AppendFacts DEF Raw, TypeOK
  <2> QED BY <1>7, <2>1 DEF Dispatch, TypeOK
<1>8. CASE HandleWrite
  <2>1. k' \in Connectors /\ k'.due <= k'.timers
    BY <1>8 DEF HandleWrite, RemoveAndResetChnnel, TypeOK, Connectors
  <2>2. /\ functors' \in Seq(Functors) /\ todo' \in 0..Len(functors') /\ phase' \in {"dispatch", "functors"}
        /\ ready' \subseteq Conns \union {"chnnel", "timers"} /\ late' \in BOOLEAN
    BY <1>7, <1>8 DEF HandleWrite
  <2>3. /\ conn' \in Conns \union {NoConn} /\ live' \subseteq Conns /\ held' \subseteq Conns
        /\ detached' \subseteq Conns /\ fault' \in {"none", "assert", "freed"}
    BY <1>8 DEF HandleWrite, NewConnection, TypeOK
  <2> QED BY <1>8, <2>1, <2>2, <2>3 DEF HandleWrite, TypeOK
<1>9. CASE AttemptFails
  <2>1. k' \in Connectors /\ k'.due <= k'.timers /\ functors' \in {functors, Append(functors, Functor("reset", NoConn))}
    BY <1>9, FailFacts DEF TypeOK
  <2>2. /\ functors' \in Seq(Functors) /\ todo' \in 0..Len(functors') /\ phase' \in {"dispatch", "functors"}
        /\ ready' \subseteq Conns \union {"chnnel", "timers"} /\ late' \in BOOLEAN
    BY <1>7, <1>9, <2>1 DEF AttemptFails
  <2> QED BY <1>9, <2>1, <2>2 DEF AttemptFails, TypeOK
<1>10. ASSUME NEW c \in Conns, NEW q \in Seq(Functors), Close(c, q), todo' \in 0..Len(q),
              phase' \in {"dispatch", "functors"}, ready' \subseteq Conns \union {"chnnel", "timers"},
              late' \in BOOLEAN
       PROVE  TypeOK'
  <2>1. functors' \in Seq(Functors) /\ Len(functors') = Len(q) + 1 /\ Len(q) \in Nat
    BY <1>10, FunctorFacts, AppendFacts DEF Close
  <2>2. todo' \in 0..Len(functors')
    BY <1>10, <2>1
  <2>3. /\ conn' \in Conns \union {NoConn} /\ restarting' \in BOOLEAN /\ live' \subseteq Conns
        /\ fault' \in {"none", "assert", "freed"}
    BY <1>10 DEF Close, TypeOK
  <2> QED BY <1>10, <2>1, <2>2, <2>3 DEF Close, TypeOK
<1>11. ASSUME NEW c \in Conns, ConnectionCloses(c) PROVE TypeOK'
  BY <1>10, <1>11 DEF ConnectionCloses, Dispatch, TypeOK
<1>12. ASSUME NEW c \in Conns, DropPointer(c) PROVE TypeOK'
  BY <1>12 DEF DropPointer, TypeOK
<1>13. CASE RestartConnector
  <2>1. Restarted(k) \in Connectors /\ Restarted(k).due <= Restarted(k).timers
    <3>1. Restarted(k) \in Connectors
      BY FieldFacts DEF Restarted, TypeOK
    <3> QED BY <3>1 DEF Restarted, TypeOK, Connectors
  <2>2. k' \in Connectors /\ k'.due <= k'.timers /\ fault' \in {"none", "assert", "freed"} /\ gaveUp' \in BOOLEAN
    BY <1>13, <2>1, StartTypes DEF RestartConnector, TypeOK
  <2> QED BY ZenonT(30), <1>13, <2>2 DEF RestartConnector, TypeOK
<1>14. CASE RunForceClose
  <2>1. /\ Rest \in Seq(Functors) /\ todo' \in 0..Len(Rest) /\ Head(functors) \in Functors
        /\ phase' = phase /\ ready' = ready /\ late' = late
    BY <1>14, RunStep, TailFacts DEF RunForceClose
  <2>2. CASE Head(functors).conn \in live
    <3>1. Head(functors).conn \in Conns /\ Close(Head(functors).conn, Rest)
      BY <1>14, <2>2 DEF RunForceClose, TypeOK
    <3> QED BY <1>10, <2>1, <3>1 DEF TypeOK
  <2>3. CASE Head(functors).conn \notin live
    BY <1>14, <2>1, <2>3 DEF RunForceClose, TypeOK
  <2> QED BY <2>2, <2>3
<1>15. CASE RunSetCloseCallBack
  <2>1. /\ Rest \in Seq(Functors) /\ todo' \in 0..Len(Rest) /\ Head(functors) \in Functors
        /\ phase' = phase /\ ready' = ready /\ late' = late /\ Head(functors).op = "setCloseCallBack"
    BY <1>15, RunStep, TailFacts DEF RunSetCloseCallBack
  <2>2. Head(functors).conn \in Conns
    BY <2>1, FunctorKinds DEF Raw
  <2> QED BY <1>15, <2>1, <2>2 DEF RunSetCloseCallBack, TypeOK
<1>16. CASE RunDestroyed
  <2>1. /\ Rest \in Seq(Functors) /\ todo' \in 0..Len(Rest) /\ phase' = phase /\ ready' = ready /\ late' = late
    BY <1>16, RunStep DEF RunDestroyed
  <2> QED BY <1>16, <2>1 DEF RunDestroyed, TypeOK
<1>17. CASE InLoopConnect
  <2> DEFINE c == [k EXCEPT !.connect = TRUE]
  <2>1. c \in Connectors /\ c.due <= c.timers
    BY DEF TypeOK, Connectors
  <2>2. Start(c)
    BY <1>17 DEF InLoopConnect
  <2> HIDE DEF c
  <2>3. k' \in Connectors /\ k'.due <= k'.timers /\ fault' \in {"none", "assert", "freed"} /\ gaveUp' \in BOOLEAN
    BY <2>1, <2>2, StartTypes DEF TypeOK
  <2>4. connects' \in 0..MaxConnects
    BY <1>17, BoundsAssumption DEF InLoopConnect, TypeOK
  <2> QED BY <1>17, <2>3, <2>4 DEF InLoopConnect, Again, TypeOK
<1>18. ASSUME NEW op \in Raw
       PROVE  LET q == Append(functors, Functor(op, NoConn))
              IN  q \in Seq(Functors) /\ todo \in 0..Len(q)
  BY FunctorFacts, AppendFacts DEF TypeOK
<1>19. CASE InLoopStop
  <2>1. k' \in Connectors /\ k'.due <= k'.timers
    BY ZenonT(30), <1>19 DEF InLoopStop, TypeOK, Connectors
  <2>2. functors' \in Seq(Functors) /\ todo' \in 0..Len(functors')
    BY <1>18, <1>19 DEF InLoopStop, Raw
  <2> QED BY ZenonT(30), <1>19, <2>1, <2>2 DEF InLoopStop, TypeOK
<1>20. ASSUME NEW op \in {"connect", "stop"}, OffLoopCall(op) PROVE TypeOK'
  <2>1. k' \in Connectors /\ k'.due <= k'.timers
    BY <1>20 DEF OffLoopCall, TypeOK, Connectors
  <2>2. connects' \in 0..MaxConnects
    BY <1>20, BoundsAssumption DEF OffLoopCall, TypeOK
  <2>3. careless' \in BOOLEAN
    BY <1>20 DEF OffLoopCall, Again, TypeOK
  <2> QED BY <1>20, <2>1, <2>2, <2>3 DEF OffLoopCall, TypeOK
<1>21. CASE OffLoopPost
  <2>1. functors' \in Seq(Functors) /\ todo' \in 0..Len(functors')
    BY <1>18, <1>21 DEF OffLoopPost, Raw
  <2> QED BY <1>21, <2>1 DEF OffLoopPost, TypeOK
<1>22. CASE Disconnect
  BY <1>22 DEF Disconnect, TypeOK
<1>23. CASE Destructor
  <2>1. k' \in Connectors /\ k'.due <= k'.timers
    BY ZenonT(30), <1>23 DEF Destructor, TypeOK, Connectors
  <2>2. functors' \in Seq(Functors) /\ todo' \in 0..Len(functors')
    <3>1. CASE conn = NoConn
      BY <1>18, <1>23, <3>1 DEF Destructor, Raw
    <3>2. CASE conn # NoConn
      <4>1. /\ functors \in Seq(Functors) /\ todo \in 0..Len(functors)
            /\ Functor("forceClose", conn) \in Functors /\ Functor("setCloseCallBack", conn) \in Functors
        BY <3>2, FunctorFacts DEF TypeOK
      <4> DEFINE close == IF conn \in live /\ conn \notin held THEN <<Functor("forceClose", conn)>> ELSE <<>>
                 q == functors \o <<Functor("setCloseCallBack", conn)>>
      <4>2. close \in Seq(Functors)
        BY <4>1
      <4>3. q \in Seq(Functors) /\ todo \in 0..Len(q)
        BY <4>1
      <4>4. functors' = functors \o close \/ functors' = q \o close
        BY <1>23, <3>2 DEF Destructor
      <4>5. todo' = todo
        BY <1>23 DEF Destructor
      <4> HIDE DEF close, q
      <4>6. functors \o close \in Seq(Functors) /\ todo \in 0..Len(functors \o close)
        BY <4>1, <4>2
      <4>7. q \o close \in Seq(Functors) /\ todo \in 0..Len(q \o close)
        BY <4>2, <4>3
      <4> QED BY <4>4, <4>5, <4>6, <4>7
    <3> QED BY <3>1, <3>2
  <2>3. /\ conn' = NoConn /\ detached' \subseteq Conns /\ careless' \in BOOLEAN
        /\ fault' \in {"none", "assert", "freed"}
    BY <1>23 DEF Destructor, Careful, TypeOK
  <2> QED BY <1>23, <2>1, <2>2, <2>3 DEF Destructor, TypeOK
<1>24. CASE UNCHANGED vars
  BY <1>24 DEF vars, TypeOK
<1>25. CASE Rests
  BY <1>24, <1>25 DEF Rests
<1> QED
  BY <1>1, <1>2, <1>3, <1>4, <1>5, <1>6, <1>8, <1>9, <1>11, <1>12, <1>13, <1>14, <1>15, <1>16, <1>17,
     <1>19, <1>20, <1>21, <1>22, <1>23, <1>24, <1>25 DEF Next

-----------------------------------------------------------------------------
(* What a careful user can rely on, step by step. *)

(* startInLoop() in a careful program: an attempt, a retry, or nothing. *)
LEMMA CareStart ==
  ASSUME NEW c \in Connectors, Start(c), gaveUp \in BOOLEAN, client = "alive",
         c.state = "Disconnected", c.failed = FALSE, c.chnnel = "none" \/ ~c.connect
  PROVE  /\ fault' = "none" /\ k'.failed = FALSE /\ k'.connect = c.connect /\ k'.due = c.due
         /\ \/ /\ c.connect /\ c.chnnel = "none" /\ k'.fresh = c.fresh
               /\ k'.state = "Connecting" /\ k'.chnnel = "waiting" /\ k'.timers = c.timers
            \/ /\ c.connect /\ c.chnnel = "none" /\ k'.fresh = c.fresh + 1
               /\ k'.state = "Disconnected" /\ k'.chnnel = "none" /\ k'.timers = c.timers + 1
            \/ k'.state = "Disconnected" /\ k'.chnnel = c.chnnel /\ k'.timers = c.timers /\ k'.fresh = c.fresh
<1>1. k' \in StartInLoop(c) /\ fault' = IF k'.failed THEN "assert" ELSE "none"
  BY StartStep
<1>2. k' \in Connectors /\ k'.connect = c.connect /\ k'.due = c.due
  BY <1>1, StartFacts
<1>3. k'.failed \in BOOLEAN
  BY <1>2, FieldFacts
<1>4. CASE c.connect
  <2>1. c.chnnel = "none"
    BY <1>4
  <2>2. \/ /\ k'.state = "Connecting" /\ k'.chnnel = "waiting" /\ k'.timers = c.timers
           /\ k'.fresh = c.fresh /\ k'.failed = (c.chnnel # "none")
        \/ /\ k'.state = "Disconnected" /\ k'.chnnel = c.chnnel /\ k'.timers = c.timers + 1
           /\ k'.fresh = c.fresh + 1 /\ k'.failed = c.failed
        \/ k' = c
    BY <1>1, StartFacts
  <2> QED BY <1>1, <1>2, <1>3, <1>4, <2>1, <2>2
<1>5. CASE ~c.connect
  <2>1. k' = c
    BY <1>1, <1>5, StartFacts
  <2> QED BY <1>1, <1>2, <2>1
<1> QED BY <1>4, <1>5

(* startInLoop() while the channel of the last attempt is still to be reset: the
   attempt fails "assert(!_chnnel)", a retry or nothing leaves the channel.  *)
LEMMA LateStart ==
  ASSUME NEW c \in Connectors, Start(c), gaveUp \in BOOLEAN, client = "alive",
         c.state = "Disconnected", c.failed = FALSE, c.chnnel = "removed"
  PROVE  \/ fault' = "assert" /\ k'.timers = c.timers
         \/ /\ fault' = "none" /\ k'.failed = FALSE /\ k'.connect = c.connect /\ k'.due = c.due
            /\ k'.state = "Disconnected" /\ k'.chnnel = "removed"
            /\ \/ k'.timers = c.timers + 1 /\ k'.fresh = c.fresh + 1
               \/ k'.timers = c.timers /\ k'.fresh = c.fresh
<1>1. k' \in StartInLoop(c) /\ fault' = IF k'.failed THEN "assert" ELSE "none"
  BY StartStep
<1>2. /\ k'.connect = c.connect /\ k'.due = c.due
      /\ \/ /\ k'.timers = c.timers /\ k'.failed = (c.chnnel # "none")
         \/ /\ k'.state = "Disconnected" /\ k'.chnnel = c.chnnel /\ k'.timers = c.timers + 1
            /\ k'.fresh = c.fresh + 1 /\ k'.failed = c.failed
         \/ k' = c
  BY <1>1, StartFacts
<1> QED BY <1>1, <1>2

(* poll() finds no channel to be reset: the last pass has done it. *)
LEMMA PollCare == TypeOK /\ CareInv /\ Poll => CareInv'
<1> SUFFICES ASSUME TypeOK, CareInv, Poll PROVE CareInv'
  OBVIOUS
<1> USE DEF clientVars, userVars, historyVars
<1>1. /\ k'.state = k.state /\ k'.connect = k.connect /\ k'.chnnel = k.chnnel /\ k'.timers = k.timers
      /\ k'.due = k.due /\ k'.failed = k.failed
  BY DEF Poll, TypeOK, Connectors
<1>2. k.connect => k.chnnel # "removed"
  <2>1. functors \in Seq(Functors) /\ (k.connect => ResetsWithin(functors, 0))
    BY DEF Poll, TypeOK, CareInv, PassInv
  <2>2. k.connect => ~Has(functors, "reset")
    BY <2>1, ResetFacts
  <2> QED BY <2>2 DEF CareInv, PassInv
<1>3. FlagsInv' /\ FirstInv' /\ OneInv' /\ OwnInv'
  BY <1>1 DEF Poll, CareInv, FlagsInv, FirstInv, OneInv, OwnInv, Mine
<1>4. PassInv'
  <2>1. ready' \subseteq live' \union {"chnnel", "timers"} /\ ("chnnel" \in ready' => k'.chnnel = "waiting")
    BY <1>1, ConnsAssumption DEF Poll, TypeOK
  <2> QED BY <1>1, <1>2, <2>1 DEF Poll, CareInv, PassInv
<1> QED BY <1>3, <1>4 DEF CareInv

(* The functors of the pass include every reset. *)
LEMMA SwapCare == TypeOK /\ CareInv /\ Swap => CareInv'
<1> SUFFICES ASSUME TypeOK, CareInv, Swap PROVE CareInv'
  OBVIOUS
<1> USE DEF clientVars, userVars, historyVars
<1>1. ResetsWithin(functors', todo')
  BY ResetFacts DEF Swap, TypeOK
<1>2. FlagsInv' /\ FirstInv' /\ OneInv' /\ OwnInv'
  BY DEF Swap, CareInv, FlagsInv, FirstInv, OneInv, OwnInv, Mine
<1>3. PassInv'
  BY <1>1 DEF Swap, CareInv, PassInv
<1> QED BY <1>2, <1>3 DEF CareInv

(* The retries that have expired: unless one was set in this pass, a retry of an
   earlier pass is among them, and there is no channel to be reset.        *)
LEMMA TakeExpiredCare == TypeOK /\ CareInv /\ TakeExpired => CareInv'
<1> SUFFICES ASSUME TypeOK, CareInv, TakeExpired PROVE CareInv'
  OBVIOUS
<1> USE DEF clientVars, userVars, historyVars
<1>1. PICK n \in 0..k.timers : k' = [k EXCEPT !.due = n] /\ late' = (n + k.fresh > k.timers)
  BY DEF TakeExpired
<1>2. /\ k'.state = k.state /\ k'.connect = k.connect /\ k'.chnnel = k.chnnel /\ k'.timers = k.timers
      /\ k'.due = n /\ k'.fresh = k.fresh /\ k'.failed = k.failed
  BY <1>1 DEF TypeOK, Connectors
<1>3. phase = "dispatch" /\ ready' \subseteq ready
  BY DEF TakeExpired, TypeOK, CareInv, PassInv
<1>4. k.connect /\ n > 0 /\ ~late' => k.chnnel # "removed"
  <2>1. k.timers \in Nat /\ k.fresh \in Nat
    BY FieldFacts DEF TypeOK
  <2>2. ~late' => ~(n + k.fresh > k.timers)
    BY <1>1
  <2>3. n > 0 /\ ~(n + k.fresh > k.timers) => k.timers > k.fresh
    BY <1>1, <2>1
  <2> QED BY <1>3, <2>2, <2>3 DEF CareInv, PassInv
<1>5. FlagsInv' /\ FirstInv' /\ OneInv' /\ OwnInv'
  BY <1>2 DEF TakeExpired, CareInv, FlagsInv, FirstInv, OneInv, OwnInv, Mine
<1>6. PassInv'
  BY <1>2, <1>3, <1>4 DEF TakeExpired, CareInv, PassInv, Mine
<1> QED BY <1>5, <1>6 DEF CareInv

(* A functor that runs leaves the queue, its pass one shorter. *)
LEMMA RestFacts ==
  ASSUME TypeOK, CareInv, NEW op, Run(op)
  PROVE  /\ Rest \in Seq(Functors) /\ todo' \in Nat
         /\ \A o : Has(functors, o) <=> Has(Rest, o) \/ o = op
         /\ Once(Rest, "start") /\ Once(Rest, "reset")
         /\ op \in {"start", "reset"} => ~Has(Rest, op)
         /\ k.connect => ResetsWithin(Rest, todo')
         /\ phase = "functors" /\ phase' = "functors" /\ ready = {} /\ ready' = {} /\ k.due = 0
         /\ ~late /\ late' = late /\ fault = "none" /\ ~restarting
<1>1. /\ functors \in Seq(Functors) /\ functors # <<>> /\ Head(functors).op = op
      /\ todo \in 1..Len(functors) /\ todo' = todo - 1 /\ Len(functors) \in Nat
      /\ phase' = phase /\ ready' = ready /\ late' = late /\ fault = "none" /\ ~restarting
  BY RunStep
<1>2. todo \in Nat /\ todo' \in Nat /\ todo # 0
  BY <1>1
<1>3. phase = "functors" /\ ready = {} /\ k.due = 0 /\ ~late
  BY <1>2 DEF TypeOK, CareInv, PassInv
<1>4. k.connect => ResetsWithin(functors, todo)
  BY <1>3 DEF CareInv, PassInv
<1>5. Once(functors, "start") /\ Once(functors, "reset")
  BY DEF CareInv, OneInv
<1>6. /\ Rest \in Seq(Functors)
      /\ \A o : Has(functors, o) <=> Has(Rest, o) \/ Head(functors).op = o
      /\ \A o : Once(functors, o) => Once(Rest, o) /\ (Head(functors).op = o => ~Has(Rest, o))
      /\ \A n \in Nat : ResetsWithin(functors, n) => ResetsWithin(Rest, n - 1)
  BY <1>1, TailFacts DEF Rest
<1> QED BY <1>1, <1>2, <1>3, <1>4, <1>5, <1>6

(* While a functor of the Connector waits, the client lives, and so does the
   Connector.                                                              *)
LEMMA ClientLives ==
  ASSUME TypeOK, CareInv, NEW op \in Raw, Has(functors, op)
  PROVE  client = "alive" /\ ConnectorExists
<1>1. CASE client = "deleted"
  BY <1>1 DEF Raw, CareInv, OwnInv, PassInv
<1> QED BY <1>1 DEF TypeOK, ConnectorExists

(* The first startInLoop(): the Connector is as new. *)
LEMMA RunStartCare == TypeOK /\ CareInv /\ RunStart => CareInv'
<1> SUFFICES ASSUME TypeOK, CareInv, RunStart PROVE CareInv'
  OBVIOUS
<1> USE DEF clientVars, userVars
<1>1. /\ Run("start") /\ UNCHANGED <<clientVars, userVars, connects, stopped, careless>>
      /\ ConnectorExists => DoStart(k)
  BY DEF RunStart, RunRaw
<1>2. /\ Rest \in Seq(Functors) /\ todo' \in Nat
      /\ \A o : Has(functors, o) <=> Has(Rest, o) \/ o = "start"
      /\ Once(Rest, "start") /\ Once(Rest, "reset") /\ ~Has(Rest, "start")
      /\ k.connect => ResetsWithin(Rest, todo')
      /\ phase' = "functors" /\ ready = {} /\ ready' = {} /\ k.due = 0
      /\ ~late /\ late' = late /\ fault = "none" /\ ~restarting
  BY <1>1, RestFacts
<1>3. client = "alive" /\ ConnectorExists
  BY <1>2, ClientLives DEF Raw
<1>4. functors' = Rest /\ Start(k)
  BY <1>1, <1>3 DEF DoStart
<1>5. k.state = "Disconnected" /\ k.chnnel = "none" /\ k.timers = 0 /\ live = {} /\ connects # 0 /\ call # "connect"
  BY <1>2 DEF CareInv, FirstInv, OneInv
<1>6. k.failed = FALSE /\ k \in Connectors /\ gaveUp \in BOOLEAN
  BY DEF TypeOK, CareInv, FlagsInv
<1>7. /\ fault' = "none" /\ k'.failed = FALSE /\ k'.connect = k.connect /\ k'.due = k.due
      /\ \/ k.connect /\ k'.state = "Connecting" /\ k'.chnnel = "waiting" /\ k'.timers = 0
         \/ k.connect /\ k'.state = "Disconnected" /\ k'.chnnel = "none" /\ k'.timers = 1
         \/ k'.state = "Disconnected" /\ k'.chnnel = "none" /\ k'.timers = 0
  <2>1. /\ fault' = "none" /\ k'.failed = FALSE /\ k'.connect = k.connect /\ k'.due = k.due
        /\ \/ /\ k.connect /\ k.chnnel = "none" /\ k'.fresh = k.fresh
              /\ k'.state = "Connecting" /\ k'.chnnel = "waiting" /\ k'.timers = k.timers
           \/ /\ k.connect /\ k.chnnel = "none" /\ k'.fresh = k.fresh + 1
              /\ k'.state = "Disconnected" /\ k'.chnnel = "none" /\ k'.timers = k.timers + 1
           \/ k'.state = "Disconnected" /\ k'.chnnel = k.chnnel /\ k'.timers = k.timers /\ k'.fresh = k.fresh
    BY <1>3, <1>4, <1>5, <1>6, CareStart
  <2> QED BY <1>5, <2>1
<1>8. FlagsInv'
  BY <1>1, <1>2, <1>4, <1>7 DEF CareInv, FlagsInv
<1>9. FirstInv'
  BY <1>1, <1>2, <1>4, <1>5 DEF FirstInv
<1>10. OneInv'
  BY <1>1, <1>2, <1>4, <1>5, <1>7 DEF OneInv, Mine
<1>11. PassInv'
  BY <1>1, <1>2, <1>4, <1>5, <1>7 DEF CareInv, PassInv, Mine
<1>12. OwnInv'
  BY <1>1, <1>2, <1>3, <1>4 DEF CareInv, OwnInv, Mine
<1> QED BY <1>8, <1>9, <1>10, <1>11, <1>12 DEF CareInv

(* stopInLoop() ends the attempt; what is stopped is not retried. *)
LEMMA RunStopCare == TypeOK /\ CareInv /\ RunStop => CareInv'
<1> SUFFICES ASSUME TypeOK, CareInv, RunStop PROVE CareInv'
  OBVIOUS
<1> USE DEF clientVars, userVars
<1>1. /\ Run("stop") /\ UNCHANGED <<clientVars, userVars, connects, stopped, careless>>
      /\ ConnectorExists => DoStop(k)
  BY DEF RunStop, RunRaw
<1>2. /\ Rest \in Seq(Functors) /\ todo' \in Nat
      /\ \A o : Has(functors, o) <=> Has(Rest, o) \/ o = "stop"
      /\ Once(Rest, "start") /\ Once(Rest, "reset")
      /\ phase' = "functors" /\ ready = {} /\ ready' = {} /\ k.due = 0
      /\ ~late /\ late' = late /\ fault = "none" /\ ~restarting
  BY <1>1, RestFacts
<1>3. client = "alive" /\ ConnectorExists
  BY <1>2, ClientLives DEF Raw
<1>4. stopped /\ ~k.connect /\ k.failed = FALSE /\ k \in Connectors
  BY <1>2 DEF TypeOK, CareInv, FlagsInv
<1>5. Becomes(StopInLoop(k)) /\ functors' = IF k.state = "Connecting" THEN Append(Rest, Functor("reset", NoConn)) ELSE Rest
  BY <1>1, <1>3 DEF DoStop
<1>6. CASE k.state = "Connecting"
  <2>1. k.chnnel = "waiting" /\ k.timers = 0 /\ Mine = {} /\ ~Has(Rest, "reset") /\ ~Has(functors, "start")
        /\ call # "connect" /\ connects # 0
    <3>1. k.chnnel = "waiting"
      BY <1>6 DEF CareInv, OneInv
    <3>2. k.timers \in Nat
      BY <1>4, FieldFacts
    <3> QED BY <1>2, <1>6, <3>1, <3>2 DEF CareInv, OneInv, PassInv, FirstInv
  <2> DEFINE c == RemoveAndResetChnnel(k)
  <2>2. /\ c \in Connectors /\ c.connect = k.connect /\ c.chnnel = "removed" /\ c.timers = 0 /\ c.due = 0
        /\ c.failed = FALSE
    BY <1>2, <1>4, <2>1 DEF RemoveAndResetChnnel, Connectors
  <2>3. Becomes(Retry(c))
    BY <1>5, <1>6 DEF StopInLoop
  <2> HIDE DEF c
  <2>4. /\ k'.state = "Disconnected" /\ k'.connect = k.connect /\ k'.chnnel = "removed" /\ k'.timers = 0
        /\ k'.due = 0 /\ k'.failed = FALSE /\ fault' = "none"
    <3>1. k' = Retry(c) /\ fault' = IF k'.failed \/ DestroyedInUse(k') THEN "assert" ELSE "none"
      BY <2>3 DEF Becomes
    <3>2. /\ k'.state = "Disconnected" /\ k'.connect = k.connect /\ k'.chnnel = "removed" /\ k'.timers = 0
          /\ k'.due = 0 /\ k'.failed = FALSE
      BY <1>4, <2>2, <3>1, RetryFacts
    <3> QED BY <1>3, <3>1, <3>2 DEF DestroyedInUse
  <2>5. /\ functors' \in Seq(Functors)
        /\ \A o : Has(functors', o) <=> Has(Rest, o) \/ o = "reset"
        /\ Once(functors', "start") /\ Once(functors', "reset")
    <3>1. functors' = Append(Rest, Functor("reset", NoConn))
      BY <1>5, <1>6
    <3>2. Functor("reset", NoConn) \in Functors /\ Functor("reset", NoConn).op = "reset"
      BY FunctorFacts DEF Raw
    <3> QED BY <1>2, <2>1, <3>1, <3>2, AppendFacts
  <2>6. FlagsInv'
    BY <1>1, <1>2, <1>4, <2>4, <2>5 DEF CareInv, FlagsInv
  <2>7. FirstInv'
    BY <1>1, <1>2, <2>1, <2>5 DEF FirstInv
  <2>8. OneInv'
    BY <1>1, <1>2, <2>1, <2>4, <2>5 DEF OneInv, Mine
  <2>9. PassInv'
    BY <1>1, <1>2, <1>4, <2>4, <2>5 DEF PassInv, Mine
  <2>10. OwnInv'
    BY <1>1, <1>2, <1>3, <2>5 DEF CareInv, OwnInv, Mine
  <2> QED BY <2>6, <2>7, <2>8, <2>9, <2>10 DEF CareInv
<1>7. CASE k.state # "Connecting"
  <2>1. k' = k /\ functors' = Rest /\ fault' = "none"
    BY <1>3, <1>4, <1>5, <1>7 DEF StopInLoop, Becomes, DestroyedInUse
  <2>2. k.chnnel # "waiting"
    BY <1>7 DEF CareInv, OneInv
  <2>3. FlagsInv'
    BY <1>1, <1>2, <1>4, <2>1, <2>2 DEF CareInv, FlagsInv
  <2>4. FirstInv'
    BY <1>1, <1>2, <2>1 DEF CareInv, FirstInv
  <2>5. OneInv'
    BY <1>1, <1>2, <2>1 DEF CareInv, OneInv, Mine
  <2>6. PassInv'
    BY <1>1, <1>2, <1>4, <2>1 DEF CareInv, PassInv, Mine
  <2>7. OwnInv'
    BY <1>1, <1>2, <1>3, <2>1 DEF CareInv, OwnInv, Mine
  <2> QED BY <2>3, <2>4, <2>5, <2>6, <2>7 DEF CareInv
<1> QED BY <1>6, <1>7

(* resetChnnel() of a channel that was removed. *)
LEMMA RunResetCare == TypeOK /\ CareInv /\ RunReset => CareInv'
<1> SUFFICES ASSUME TypeOK, CareInv, RunReset PROVE CareInv'
  OBVIOUS
<1> USE DEF clientVars, userVars
<1>1. /\ Run("reset") /\ UNCHANGED <<clientVars, userVars, connects, stopped, careless>>
      /\ ConnectorExists => DoReset(k)
  BY DEF RunReset, RunRaw
<1>2. /\ Rest \in Seq(Functors) /\ todo' \in Nat
      /\ \A o : Has(functors, o) <=> Has(Rest, o) \/ o = "reset"
      /\ Once(Rest, "start") /\ Once(Rest, "reset") /\ ~Has(Rest, "reset")
      /\ k.connect => ResetsWithin(Rest, todo')
      /\ phase' = "functors" /\ ready = {} /\ ready' = {} /\ k.due = 0
      /\ ~late /\ late' = late /\ fault = "none" /\ ~restarting
  BY <1>1, RestFacts
<1>3. client = "alive" /\ ConnectorExists
  BY <1>2, ClientLives DEF Raw
<1>4. k.chnnel = "removed" /\ k \in Connectors /\ k.failed = FALSE
  BY <1>2 DEF TypeOK, CareInv, PassInv, FlagsInv
<1>5. Becomes(ResetChnnel(k)) /\ functors' = Rest
  BY <1>1, <1>3 DEF DoReset
<1>6. /\ k'.state = k.state /\ k'.connect = k.connect /\ k'.chnnel = "none" /\ k'.timers = k.timers
      /\ k'.due = 0 /\ k'.failed = FALSE
  BY <1>2, <1>4, <1>5 DEF Becomes, ResetChnnel, Connectors
<1>7. fault' = "none"
  BY <1>3, <1>5, <1>6 DEF Becomes, DestroyedInUse
<1>8. FlagsInv'
  BY <1>1, <1>2, <1>5, <1>6, <1>7 DEF CareInv, FlagsInv
<1>9. FirstInv'
  BY <1>1, <1>2, <1>4, <1>5, <1>6 DEF CareInv, FirstInv
<1>10. OneInv'
  BY <1>1, <1>2, <1>4, <1>5, <1>6 DEF CareInv, OneInv, Mine
<1>11. PassInv'
  BY <1>1, <1>2, <1>5, <1>6 DEF PassInv, Mine
<1>12. OwnInv'
  BY <1>1, <1>2, <1>3, <1>5 DEF CareInv, OwnInv, Mine
<1> QED BY <1>8, <1>9, <1>10, <1>11, <1>12 DEF CareInv

(* A retry finds the Connector disconnected and without a channel, or stopped, or
   was set in this pass of the loop.                                       *)
LEMMA RetryTimerCare == TypeOK /\ CareInv /\ RetryTimer => CareInv' \/ LateFault'
<1> SUFFICES ASSUME TypeOK, CareInv, RetryTimer PROVE CareInv' \/ LateFault'
  OBVIOUS
<1> USE DEF loopVars, clientVars, userVars
<1>1. k \in Connectors /\ k.due \in Nat /\ k.timers \in Nat /\ k.due <= k.timers /\ k.due > 0 /\ k.timers <= 1
      /\ k.fresh \in Nat
  BY FieldFacts DEF RetryTimer, TypeOK, CareInv, OneInv
<1>2. k.timers = 1 /\ k.due = 1
  BY <1>1
<1>3. k.state = "Disconnected" /\ Mine = {} /\ ~restarting /\ client = "alive" /\ k.failed = FALSE
  BY <1>2 DEF TypeOK, CareInv, OneInv, OwnInv, FlagsInv
<1>4. k.chnnel = "none" \/ ~k.connect \/ (late /\ k.chnnel = "removed")
  <2>1. k.chnnel \in {"none", "waiting", "removed"}
    BY <1>1, FieldFacts
  <2> QED BY <1>1, <1>3, <2>1 DEF CareInv, PassInv, OneInv
<1> DEFINE c == [k EXCEPT !.timers = @ - 1, !.due = @ - 1]
<1>5. /\ c \in Connectors /\ c.state = k.state /\ c.connect = k.connect /\ c.chnnel = k.chnnel
      /\ c.timers = 0 /\ c.due = 0 /\ c.fresh = k.fresh /\ c.failed = FALSE
  <2>1. c = [k EXCEPT !.timers = 0, !.due = 0]
    BY <1>1, <1>2
  <2>2. c \in Connectors
    <3>1. \A t, d \in Nat : [k EXCEPT !.timers = t, !.due = d] \in Connectors
      BY <1>1, FieldFacts
    <3> QED BY <2>1, <3>1
  <2> QED BY <1>1, <1>3, <2>1, <2>2 DEF Connectors
<1>6. Start(c) /\ UNCHANGED <<functors, loopVars, clientVars, userVars, connects, stopped, careless>>
  BY DEF RetryTimer
<1> HIDE DEF c
<1>7. gaveUp \in BOOLEAN /\ c.state = "Disconnected" /\ phase = "dispatch" /\ "chnnel" \notin ready
  BY <1>1, <1>3, <1>5 DEF TypeOK, CareInv, PassInv, OneInv
<1>8. ASSUME /\ fault' = "none" /\ k'.failed = FALSE /\ k'.connect = k.connect /\ k'.due = 0
             /\ \/ k'.state = "Connecting" /\ k'.chnnel = "waiting" /\ k.chnnel = "none" /\ k.connect /\ k'.timers = 0
                \/ k'.state = "Disconnected" /\ k'.chnnel = k.chnnel /\ k'.timers = 0
                \/ k'.state = "Disconnected" /\ k'.chnnel = k.chnnel /\ k'.timers = 1 /\ k'.fresh = k.fresh + 1
      PROVE  CareInv'
  <2>1. FlagsInv'
    BY <1>6, <1>8 DEF CareInv, FlagsInv
  <2>2. FirstInv'
    BY <1>2, <1>6 DEF CareInv, FirstInv
  <2>3. k.chnnel # "waiting"
    BY <1>3 DEF CareInv, OneInv
  <2>4. OneInv'
    BY <1>3, <1>6, <1>8, <2>3 DEF CareInv, OneInv, Mine
  <2>5. PassInv'
    <3>1. k'.timers > k'.fresh => k'.chnnel # "removed"
      <4>1. k'.timers = 1 /\ k'.fresh = k.fresh + 1 => ~(k'.timers > k'.fresh)
        BY <1>1
      <4>2. k'.timers = 0 => ~(k'.timers > k'.fresh)
        <5>1. k' \in Connectors
          BY <1>5, <1>6, <1>7, StartStep, StartFacts
        <5>2. k'.fresh \in Nat
          BY <5>1, FieldFacts
        <5> QED BY <5>2
      <4> QED BY <1>8, <4>1, <4>2
    <3>2. ready \intersect Mine = {} /\ ~(k'.due > 0)
      BY <1>3, <1>8
    <3>3. Has(functors', "reset") <=> k'.chnnel = "removed"
      BY <1>6, <1>8 DEF CareInv, PassInv
    <3> QED BY <1>6, <1>7, <3>1, <3>2, <3>3 DEF CareInv, PassInv, Mine
  <2>6. OwnInv'
    BY <1>3, <1>6 DEF CareInv, OwnInv, Mine
  <2> QED BY <2>1, <2>2, <2>4, <2>5, <2>6 DEF CareInv
<1>9. CASE k.chnnel = "none" \/ ~k.connect
  <2>1. /\ fault' = "none" /\ k'.failed = FALSE /\ k'.connect = c.connect /\ k'.due = c.due
        /\ \/ /\ c.connect /\ c.chnnel = "none" /\ k'.fresh = c.fresh
              /\ k'.state = "Connecting" /\ k'.chnnel = "waiting" /\ k'.timers = c.timers
           \/ /\ c.connect /\ c.chnnel = "none" /\ k'.fresh = c.fresh + 1
              /\ k'.state = "Disconnected" /\ k'.chnnel = "none" /\ k'.timers = c.timers + 1
           \/ k'.state = "Disconnected" /\ k'.chnnel = c.chnnel /\ k'.timers = c.timers /\ k'.fresh = c.fresh
    BY <1>3, <1>5, <1>6, <1>7, <1>9, CareStart
  <2>2. /\ k'.connect = k.connect /\ k'.due = 0
        /\ \/ k'.state = "Connecting" /\ k'.chnnel = "waiting" /\ k.chnnel = "none" /\ k.connect /\ k'.timers = 0
           \/ k'.state = "Disconnected" /\ k'.chnnel = k.chnnel /\ k'.timers = 0
           \/ k'.state = "Disconnected" /\ k'.chnnel = k.chnnel /\ k'.timers = 1 /\ k'.fresh = k.fresh + 1
    BY <1>5, <2>1
  <2> QED BY <1>8, <2>1, <2>2
<1>10. CASE k.connect /\ late /\ k.chnnel = "removed"
  <2>1. \/ fault' = "assert" /\ k'.timers = c.timers
        \/ /\ fault' = "none" /\ k'.failed = FALSE /\ k'.connect = c.connect /\ k'.due = c.due
           /\ k'.state = "Disconnected" /\ k'.chnnel = "removed"
           /\ \/ k'.timers = c.timers + 1 /\ k'.fresh = c.fresh + 1
              \/ k'.timers = c.timers /\ k'.fresh = c.fresh
    BY <1>3, <1>5, <1>6, <1>7, <1>10, LateStart
  <2>2. CASE fault' = "assert" /\ k'.timers = c.timers
    <3>1. ~stopped /\ ~Has(functors, "start")
      BY <1>2, <1>10, BoundsAssumption DEF TypeOK, CareInv, FlagsInv, FirstInv
    <3> QED BY <1>3, <1>5, <1>6, <1>10, <2>2, <3>1 DEF LateFault, Mine
  <2>3. CASE /\ fault' = "none" /\ k'.failed = FALSE /\ k'.connect = c.connect /\ k'.due = c.due
             /\ k'.state = "Disconnected" /\ k'.chnnel = "removed"
             /\ \/ k'.timers = c.timers + 1 /\ k'.fresh = c.fresh + 1
                \/ k'.timers = c.timers /\ k'.fresh = c.fresh
    <3>1. k'.connect = k.connect /\ k'.due = 0 /\ k'.chnnel = k.chnnel
      BY <1>5, <1>10, <2>3
    <3>2. k'.timers = 0 \/ (k'.timers = 1 /\ k'.fresh = k.fresh + 1)
      BY <1>5, <2>3
    <3> QED BY <1>8, <2>3, <3>1, <3>2
  <2> QED BY <2>1, <2>2, <2>3
<1> QED BY <1>4, <1>9, <1>10 DEF TypeOK, Connectors

(* The channel's event: what a careful user's program is then in. *)
LEMMA ChnnelWaits ==
  ASSUME TypeOK, CareInv, Dispatch("chnnel")
  PROVE  /\ k \in Connectors /\ k.state = "Connecting" /\ k.chnnel = "waiting" /\ k.timers = 0 /\ k.due = 0
         /\ k.failed = FALSE /\ Mine = {} /\ client = "alive" /\ live = {} /\ detached = {}
         /\ connects # 0 /\ call # "connect" /\ ~Has(functors, "start")
         /\ fault = "none" /\ ~restarting
         /\ phase = "dispatch" /\ phase' = "dispatch" /\ todo = 0 /\ todo' = 0 /\ ready' \subseteq {"timers"}
         /\ functors' = Append(functors, Functor("reset", NoConn)) =>
              /\ \A o : Has(functors', o) <=> Has(functors, o) \/ o = "reset"
              /\ Once(functors', "start") /\ Once(functors', "reset")
<1>1. "chnnel" \in ready /\ fault = "none" /\ ~restarting /\ phase' = phase /\ todo' = todo /\ ready' = ready \ {"chnnel"}
  BY DEF Dispatch, LoopFree
<1>2. k.chnnel = "waiting" /\ phase = "dispatch" /\ todo = 0 /\ ~Has(functors, "reset")
  BY <1>1 DEF TypeOK, CareInv, PassInv
<1>3. k.state = "Connecting" /\ Mine = {} /\ k.timers <= 1 /\ k.timers # 1
  BY <1>2 DEF CareInv, OneInv
<1>4. k \in Connectors /\ k.timers \in Nat /\ k.due \in Nat /\ k.due <= k.timers
  BY FieldFacts DEF TypeOK
<1>5. k.timers = 0 /\ k.due = 0
  BY <1>3, <1>4
<1>6. client = "alive" /\ detached = {} /\ k.failed = FALSE
  BY <1>2 DEF TypeOK, CareInv, OwnInv, FlagsInv
<1>7. live = {}
  BY <1>3, <1>6 DEF Mine
<1>8. connects # 0 /\ call # "connect" /\ ~Has(functors, "start")
  BY <1>2 DEF CareInv, FirstInv
<1>9. ready' \subseteq {"timers"}
  BY <1>1, <1>7 DEF CareInv, PassInv
<1>10. ASSUME functors' = Append(functors, Functor("reset", NoConn))
       PROVE  /\ \A o : Has(functors', o) <=> Has(functors, o) \/ o = "reset"
              /\ Once(functors', "start") /\ Once(functors', "reset")
  <2>1. Functor("reset", NoConn) \in Functors /\ Functor("reset", NoConn).op = "reset"
    BY FunctorFacts DEF Raw
  <2>2. functors \in Seq(Functors) /\ Once(functors, "start") /\ Once(functors, "reset")
    BY DEF TypeOK, CareInv, OneInv
  <2> QED BY <1>2, <1>10, <2>1, <2>2, AppendFacts
<1> QED BY <1>1, <1>2, <1>3, <1>4, <1>5, <1>6, <1>7, <1>8, <1>9, <1>10

(* The connection is made: it is the only way to one that is left. *)
LEMMA HandleWriteCare == TypeOK /\ CareInv /\ HandleWrite => CareInv'
<1> SUFFICES ASSUME TypeOK, CareInv, HandleWrite PROVE CareInv'
  OBVIOUS
<1> USE DEF userVars, historyVars
<1>1. /\ Dispatch("chnnel") /\ functors' = Append(functors, Functor("reset", NoConn))
      /\ k' = [RemoveAndResetChnnel(k) EXCEPT !.state = "Connected"]
      /\ UNCHANGED <<client, want, retry, restarting, userVars, historyVars>>
  BY DEF HandleWrite
<1>2. /\ k \in Connectors /\ k.state = "Connecting" /\ k.chnnel = "waiting" /\ k.timers = 0 /\ k.due = 0
      /\ k.failed = FALSE /\ Mine = {} /\ client = "alive" /\ live = {} /\ detached = {}
      /\ connects # 0 /\ call # "connect" /\ ~Has(functors, "start")
      /\ fault = "none" /\ ~restarting
      /\ phase = "dispatch" /\ phase' = "dispatch" /\ todo = 0 /\ todo' = 0 /\ ready' \subseteq {"timers"}
      /\ \A o : Has(functors', o) <=> Has(functors, o) \/ o = "reset"
      /\ Once(functors', "start") /\ Once(functors', "reset")
  BY <1>1, ChnnelWaits
<1>3. /\ k'.state = "Connected" /\ k'.connect = k.connect /\ k'.chnnel = "removed" /\ k'.timers = 0
      /\ k'.due = 0 /\ k'.fresh = k.fresh /\ k.fresh \in Nat /\ k'.failed = FALSE
  BY <1>1, <1>2 DEF RemoveAndResetChnnel, Connectors
<1>4. fault' = "none" /\ detached' = {}
  BY <1>2 DEF HandleWrite, NewConnection
<1>5. live' \subseteq {conn'} /\ (conn' # NoConn => conn' \in live')
  BY <1>2 DEF HandleWrite, NewConnection, CareInv, OwnInv
<1>6. FlagsInv'
  BY <1>1, <1>2, <1>3, <1>4 DEF CareInv, FlagsInv
<1>7. FirstInv'
  BY <1>1, <1>2 DEF FirstInv
<1>8. OneInv'
  BY <1>1, <1>2, <1>3 DEF OneInv
<1>9. PassInv'
  <2>1. live' \subseteq Conns
    BY DEF HandleWrite, NewConnection, TypeOK
  <2>2. ready' \intersect Mine' = {} /\ "chnnel" \notin ready'
    BY <1>2, <2>1, ConnsAssumption DEF Mine
  <2>3. ~(k'.timers > k'.fresh) /\ ~(k'.due > 0)
    BY <1>3
  <2> QED BY <1>2, <1>3, <2>2, <2>3 DEF PassInv
<1>10. OwnInv'
  BY <1>1, <1>2, <1>4, <1>5 DEF CareInv, OwnInv
<1> QED BY <1>6, <1>7, <1>8, <1>9, <1>10 DEF CareInv

(* The attempt failed: one retry, and nothing else, takes its place. *)
LEMMA AttemptFailsCare == TypeOK /\ CareInv /\ AttemptFails => CareInv'
<1> SUFFICES ASSUME TypeOK, CareInv, AttemptFails PROVE CareInv'
  OBVIOUS
<1> USE DEF clientVars, userVars, historyVars
<1>1. /\ Dispatch("chnnel") /\ functors' = Append(functors, Functor("reset", NoConn))
      /\ UNCHANGED <<clientVars, userVars, fault, historyVars>>
      /\ k'.state = "Disconnected" /\ k'.connect = k.connect /\ k'.chnnel = "removed"
      /\ k'.timers = (IF k.connect THEN k.timers + 1 ELSE k.timers)
      /\ k'.fresh = (IF k.connect THEN k.fresh + 1 ELSE k.fresh)
      /\ k'.due = k.due /\ k'.failed = k.failed
  <2>1. Dispatch("chnnel") /\ UNCHANGED <<clientVars, userVars, fault, historyVars>>
    BY DEF AttemptFails
  <2>2. k \in Connectors /\ k.due <= k.timers /\ k.state = "Connecting"
    BY <2>1, ChnnelWaits DEF TypeOK
  <2> QED BY <2>1, <2>2, FailFacts
<1>2. /\ k \in Connectors /\ k.state = "Connecting" /\ k.chnnel = "waiting" /\ k.timers = 0 /\ k.due = 0
      /\ k.failed = FALSE /\ Mine = {} /\ client = "alive" /\ live = {} /\ detached = {}
      /\ connects # 0 /\ call # "connect" /\ ~Has(functors, "start")
      /\ fault = "none" /\ ~restarting
      /\ phase = "dispatch" /\ phase' = "dispatch" /\ todo = 0 /\ todo' = 0 /\ ready' \subseteq {"timers"}
      /\ \A o : Has(functors', o) <=> Has(functors, o) \/ o = "reset"
      /\ Once(functors', "start") /\ Once(functors', "reset")
  BY <1>1, ChnnelWaits
<1>3. /\ k'.state = "Disconnected" /\ k'.connect = k.connect /\ k'.chnnel = "removed" /\ k'.timers \in {0, 1}
      /\ k'.due = 0 /\ k'.failed = FALSE /\ ~(k'.timers > k'.fresh)
  <2>1. k.fresh \in Nat
    BY <1>2, FieldFacts
  <2> QED BY <1>1, <1>2, <2>1
<1>4. FlagsInv'
  BY <1>1, <1>2, <1>3 DEF CareInv, FlagsInv
<1>5. FirstInv'
  BY <1>1, <1>2 DEF FirstInv
<1>6. OneInv'
  BY <1>1, <1>2, <1>3 DEF OneInv, Mine
<1>7. PassInv'
  <2>1. Mine' = {} /\ "chnnel" \notin ready' /\ live' = {}
    BY <1>1, <1>2 DEF Mine
  <2> QED BY <1>2, <1>3, <2>1 DEF PassInv
<1>8. OwnInv'
  BY <1>1, <1>2 DEF CareInv, OwnInv
<1> QED BY <1>4, <1>5, <1>6, <1>7, <1>8 DEF CareInv

(* A connection closes: the client is told while it exists, and has it then;
   when it is to connect again, no other way to a connection is under way.  *)
LEMMA CloseCare ==
  ASSUME TypeOK, CareInv, NEW c \in live, NEW q \in Seq(Functors), Close(c, q), phase' = phase, late' = late, todo' \in Nat,
         phase = "dispatch" => c \in ready /\ ready' = ready \ {c} /\ todo' = todo,
         phase = "functors" => client = "deleted" /\ ready' = ready,
         \A o : Has(q, o) => Has(functors, o),
         \A o : Has(functors, o) /\ o # "forceClose" => Has(q, o),
         Once(q, "start"), Once(q, "reset"), phase = "functors" /\ k.connect => ResetsWithin(q, todo'),
         fault = "none", ~restarting
  PROVE  CareInv'
<1> USE DEF userVars, historyVars
<1>1. c \in Conns /\ c # NoConn /\ connects # 0 /\ call # "connect" /\ ~Has(functors, "start")
  BY ConnsAssumption DEF TypeOK, CareInv, FirstInv
<1>2. /\ functors' \in Seq(Functors)
      /\ \A o : Has(functors', o) <=> Has(q, o) \/ o = "destroyed"
      /\ Once(functors', "start") /\ Once(functors', "reset")
      /\ phase = "functors" /\ k.connect => ResetsWithin(functors', todo')
  <2>1. functors' = Append(q, Functor("destroyed", c))
    BY DEF Close
  <2>2. Functor("destroyed", c) \in Functors /\ Functor("destroyed", c).op = "destroyed"
    BY <1>1, FunctorFacts
  <2> QED BY <2>1, <2>2, AppendFacts
<1>3. live' = live \ {c} /\ UNCHANGED <<k, client, want, retry, held, detached, userVars, historyVars>>
  BY DEF Close
<1>4. /\ fault' = "none"
      /\ c \in detached => conn' = conn /\ restarting' = restarting
      /\ c \notin detached =>
           client = "alive" /\ conn = c /\ conn' = NoConn /\ restarting' = (retry /\ want)
  <2>1. c \notin detached => client = "alive" /\ conn = c
    BY DEF TypeOK, CareInv, OwnInv, Mine
  <2> QED BY <2>1 DEF Close
<1>5. Mine' \subseteq Mine /\ (c \notin detached => Mine' = {})
  BY <1>3, <1>4 DEF CareInv, OwnInv, Mine
<1>6. restarting' => /\ client = "alive" /\ Mine' = {} /\ k.chnnel = "none" /\ k.timers # 1 /\ ~stopped
  <2> SUFFICES ASSUME restarting' PROVE client = "alive" /\ Mine' = {} /\ k.chnnel = "none" /\ k.timers # 1 /\ ~stopped
    OBVIOUS
  <2>1. c \notin detached /\ want /\ client = "alive" /\ c \in Mine
    BY <1>4 DEF Mine
  <2>2. ~stopped /\ k.connect
    BY <1>1, <2>1, BoundsAssumption DEF TypeOK, CareInv, FlagsInv
  <2>3. phase = "dispatch" /\ c \in ready
    BY <2>1 DEF TypeOK
  <2>4. k.chnnel # "removed"
    BY <2>1, <2>2, <2>3 DEF CareInv, PassInv
  <2>5. k.chnnel # "waiting" /\ k.timers # 1
    BY <2>1 DEF CareInv, OneInv
  <2>6. k.chnnel \in {"none", "waiting", "removed"}
    BY FieldFacts DEF TypeOK
  <2> QED BY <1>5, <2>1, <2>2, <2>4, <2>5, <2>6
<1>7. FlagsInv'
  BY <1>2, <1>3, <1>4, <1>6 DEF CareInv, FlagsInv
<1>8. FirstInv'
  BY <1>1, <1>2, <1>3 DEF FirstInv
<1>9. OneInv'
  BY <1>1, <1>2, <1>3, <1>5, <1>6 DEF CareInv, OneInv
<1>10. PassInv'
  <2>1. ready' \subseteq live' \union {"chnnel", "timers"} /\ ready' \subseteq ready
    BY <1>3 DEF TypeOK, CareInv, PassInv
  <2>2. Has(functors', "reset") <=> Has(functors, "reset")
    BY <1>2
  <2> QED BY <1>2, <1>3, <1>5, <2>1, <2>2 DEF TypeOK, CareInv, PassInv
<1>11. OwnInv'
  <2>1. CASE client = "alive"
    <3>1. c \notin detached
      BY <2>1 DEF CareInv, OwnInv
    <3> QED BY <1>2, <1>3, <1>4, <2>1, <3>1 DEF CareInv, OwnInv
  <2>2. CASE client = "deleted"
    <3>1. c \in detached
      BY <1>4, <2>2
    <3> QED BY <1>2, <1>3, <1>4, <1>5, <2>2, <3>1 DEF CareInv, OwnInv
  <2> QED BY <2>1, <2>2 DEF TypeOK
<1> QED BY <1>7, <1>8, <1>9, <1>10, <1>11 DEF CareInv

(* The event of a connection is that of one that lives. *)
LEMMA ConnectionClosesCare ==
  ASSUME TypeOK, CareInv, NEW c \in Conns, ConnectionCloses(c)
  PROVE  CareInv'
<1>1. /\ c \in ready /\ fault = "none" /\ ~restarting /\ phase' = phase /\ todo' = todo /\ ready' = ready \ {c}
      /\ late' = late /\ Close(c, functors)
  BY DEF ConnectionCloses, Dispatch, LoopFree
<1>2. c \in live
  BY <1>1, ConnsAssumption DEF CareInv, PassInv
<1>3. phase = "dispatch"
  BY <1>1 DEF TypeOK, CareInv, PassInv
<1>4. functors \in Seq(Functors) /\ todo' \in Nat /\ Once(functors, "start") /\ Once(functors, "reset")
  BY <1>1 DEF TypeOK, CareInv, OneInv
<1> QED BY <1>1, <1>2, <1>3, <1>4, CloseCare

(* forceClose() is only queued by ~TcpClient(). *)
LEMMA RunForceCloseCare == TypeOK /\ CareInv /\ RunForceClose => CareInv'
<1> SUFFICES ASSUME TypeOK, CareInv, RunForceClose PROVE CareInv'
  OBVIOUS
<1> USE DEF clientVars, userVars, historyVars
<1>1. Run("forceClose")
  BY DEF RunForceClose
<1>2. /\ Rest \in Seq(Functors) /\ todo' \in Nat
      /\ \A o : Has(functors, o) <=> Has(Rest, o) \/ o = "forceClose"
      /\ Once(Rest, "start") /\ Once(Rest, "reset")
      /\ k.connect => ResetsWithin(Rest, todo')
      /\ phase = "functors" /\ phase' = "functors" /\ ready = {} /\ ready' = {} /\ k.due = 0
      /\ ~late /\ late' = late /\ fault = "none" /\ ~restarting
  BY <1>1, RestFacts
<1>3. client = "deleted"
  BY <1>2 DEF TypeOK, CareInv, OwnInv
<1>4. CASE Head(functors).conn \in live
  <2>1. Close(Head(functors).conn, Rest)
    BY <1>4 DEF RunForceClose
  <2> QED BY <1>2, <1>3, <1>4, <2>1, CloseCare
<1>5. CASE Head(functors).conn \notin live
  <2>1. functors' = Rest /\ UNCHANGED <<k, clientVars, userVars, fault, historyVars>>
    BY <1>5 DEF RunForceClose
  <2>2. FlagsInv' /\ FirstInv' /\ OneInv'
    BY <1>2, <2>1 DEF CareInv, FlagsInv, FirstInv, OneInv, Mine
  <2>3. PassInv'
    BY <1>2, <2>1 DEF CareInv, PassInv, Mine
  <2>4. OwnInv'
    BY <1>2, <1>3, <2>1 DEF CareInv, OwnInv, Mine
  <2> QED BY <2>2, <2>3, <2>4 DEF CareInv
<1> QED BY <1>4, <1>5

(* A client that is deleted on the loop thread queues no setCloseCallBack(). *)
LEMMA RunSetCloseCallBackCare == TypeOK /\ CareInv /\ RunSetCloseCallBack => CareInv'
<1> SUFFICES ASSUME TypeOK, CareInv, RunSetCloseCallBack PROVE FALSE
  OBVIOUS
<1>1. Run("setCloseCallBack")
  BY DEF RunSetCloseCallBack
<1>2. Has(functors, "setCloseCallBack")
  BY <1>1, RestFacts
<1> QED BY <1>2 DEF CareInv, OwnInv

(* conncetDestoryed() is no concern of the client. *)
LEMMA RunDestroyedCare == TypeOK /\ CareInv /\ RunDestroyed => CareInv'
<1> SUFFICES ASSUME TypeOK, CareInv, RunDestroyed PROVE CareInv'
  OBVIOUS
<1> USE DEF clientVars, userVars, historyVars
<1>1. Run("destroyed") /\ functors' = Rest /\ UNCHANGED <<k, clientVars, userVars, fault, historyVars>>
  BY DEF RunDestroyed
<1>2. /\ Rest \in Seq(Functors) /\ todo' \in Nat
      /\ \A o : Has(functors, o) <=> Has(Rest, o) \/ o = "destroyed"
      /\ Once(Rest, "start") /\ Once(Rest, "reset")
      /\ k.connect => ResetsWithin(Rest, todo')
      /\ phase = "functors" /\ phase' = "functors" /\ ready = {} /\ ready' = {} /\ k.due = 0
      /\ ~late /\ late' = late /\ fault = "none" /\ ~restarting
  BY <1>1, RestFacts
<1>3. FlagsInv' /\ FirstInv' /\ OneInv'
  BY <1>1, <1>2 DEF CareInv, FlagsInv, FirstInv, OneInv, Mine
<1>4. PassInv'
  BY <1>1, <1>2 DEF CareInv, PassInv, Mine
<1>5. OwnInv'
  BY <1>1, <1>2 DEF CareInv, OwnInv, Mine
<1> QED BY <1>3, <1>4, <1>5 DEF CareInv

(* restart() in removeConnection(): the connection is gone, nothing has taken
   its place and the channel of its attempt was reset.                     *)
LEMMA RestartConnectorCare == TypeOK /\ CareInv /\ RestartConnector => CareInv'
<1> SUFFICES ASSUME TypeOK, CareInv, RestartConnector PROVE CareInv'
  OBVIOUS
<1> USE DEF loopVars, userVars
<1>1. /\ fault = "none" /\ restarting /\ restarting' = FALSE /\ Start(Restarted(k))
      /\ UNCHANGED <<functors, loopVars, client, want, retry, conn, live, held, detached, userVars,
                     connects, stopped, careless>>
  BY DEF RestartConnector
<1>2. Mine = {} /\ k.chnnel = "none" /\ client = "alive" /\ k.timers = 0 /\ k.due = 0 /\ k \in Connectors
  <2>1. k \in Connectors /\ k.timers \in Nat /\ k.due \in Nat /\ k.due <= k.timers
    BY FieldFacts DEF TypeOK
  <2>2. Mine = {} /\ k.chnnel = "none" /\ client = "alive" /\ k.timers <= 1 /\ k.timers # 1
    BY <1>1 DEF CareInv, OneInv
  <2> QED BY <2>1, <2>2
<1>3. connects # 0 /\ call # "connect" /\ ~Has(functors, "start") /\ ~stopped /\ k.connect /\ k.failed = FALSE
  BY <1>1, BoundsAssumption DEF TypeOK, CareInv, FirstInv, FlagsInv
<1> DEFINE c == Restarted(k)
<1>4. /\ c \in Connectors /\ c.state = "Disconnected" /\ c.connect = TRUE /\ c.chnnel = "none"
      /\ c.timers = 0 /\ c.due = 0 /\ c.failed = FALSE
  <2>1. c \in Connectors
    BY <1>2, FieldFacts DEF Restarted
  <2> QED BY <1>2, <1>3, <2>1 DEF Restarted, Connectors
<1>5. Start(c)
  BY <1>1
<1> HIDE DEF c
<1>6. /\ fault' = "none" /\ k'.failed = FALSE /\ k'.connect = c.connect /\ k'.due = c.due
      /\ \/ /\ c.connect /\ c.chnnel = "none" /\ k'.fresh = c.fresh
            /\ k'.state = "Connecting" /\ k'.chnnel = "waiting" /\ k'.timers = c.timers
         \/ /\ c.connect /\ c.chnnel = "none" /\ k'.fresh = c.fresh + 1
            /\ k'.state = "Disconnected" /\ k'.chnnel = "none" /\ k'.timers = c.timers + 1
         \/ k'.state = "Disconnected" /\ k'.chnnel = c.chnnel /\ k'.timers = c.timers /\ k'.fresh = c.fresh
  BY <1>2, <1>4, <1>5, CareStart DEF TypeOK
<1>7. k'.connect = TRUE /\ k'.due = 0 /\ k'.timers \in {0, 1} /\ k'.chnnel \in {"none", "waiting"}
      /\ (k'.state = "Connecting" <=> k'.chnnel = "waiting")
      /\ (k'.timers = 1 => k'.state = "Disconnected")
  BY <1>4, <1>6
<1>8. FlagsInv'
  BY <1>1, <1>3, <1>6, <1>7 DEF CareInv, FlagsInv
<1>9. FirstInv'
  BY <1>1, <1>3 DEF FirstInv
<1>10. OneInv'
  BY <1>1, <1>2, <1>7 DEF CareInv, OneInv, Mine
<1>11. PassInv'
  <2>1. "chnnel" \notin ready /\ ~Has(functors, "reset") /\ functors \in Seq(Functors) /\ todo \in Nat
    BY <1>2 DEF TypeOK, CareInv, PassInv
  <2>2. ResetsWithin(functors, todo)
    BY <2>1, ResetFacts
  <2> QED BY <1>1, <1>7, <2>1, <2>2 DEF CareInv, PassInv
<1>12. OwnInv'
  BY <1>1, <1>2 DEF CareInv, OwnInv, Mine
<1> QED BY <1>8, <1>9, <1>10, <1>11, <1>12 DEF CareInv

(* The one connect(), on the loop thread. *)
LEMMA InLoopConnectCare == TypeOK /\ CareInv /\ InLoopConnect /\ ~careless' => CareInv'
<1> SUFFICES ASSUME TypeOK, CareInv, InLoopConnect, ~careless' PROVE CareInv'
  OBVIOUS
<1> USE DEF loopVars, userVars
<1>1. connects = 0 /\ stopped = FALSE
  <2>1. ~Again
    BY DEF InLoopConnect
  <2>2. connects \in Nat /\ stopped \in BOOLEAN
    BY BoundsAssumption DEF TypeOK
  <2> QED BY <2>1, <2>2 DEF Again
<1>2. /\ client = "alive" /\ call = "nothing" /\ want' = TRUE /\ connects' = 1 /\ stopped' = FALSE
      /\ Start([k EXCEPT !.connect = TRUE]) /\ fault = "none" /\ ~restarting
      /\ UNCHANGED <<functors, loopVars, client, retry, conn, live, held, detached, restarting, userVars>>
  BY <1>1 DEF InLoopConnect, UserMayCall, LoopFree
<1>3. /\ k.state = "Disconnected" /\ k.chnnel = "none" /\ k.timers = 0 /\ live = {} /\ k \in Connectors
      /\ ~Has(functors, "start") /\ k.failed = FALSE /\ ~Has(functors, "stop")
  BY <1>1 DEF TypeOK, CareInv, FirstInv, FlagsInv
<1>4. k.due = 0
  <2>1. k.due \in Nat /\ k.due <= k.timers
    BY FieldFacts DEF TypeOK
  <2> QED BY <1>3, <2>1
<1> DEFINE c == [k EXCEPT !.connect = TRUE]
<1>5. /\ c \in Connectors /\ c.state = "Disconnected" /\ c.connect = TRUE /\ c.chnnel = "none"
      /\ c.timers = 0 /\ c.due = 0 /\ c.failed = FALSE
  BY <1>3, <1>4 DEF Connectors
<1>6. Start(c)
  BY <1>2
<1> HIDE DEF c
<1>7. /\ fault' = "none" /\ k'.failed = FALSE /\ k'.connect = c.connect /\ k'.due = c.due
      /\ \/ /\ c.connect /\ c.chnnel = "none" /\ k'.fresh = c.fresh
            /\ k'.state = "Connecting" /\ k'.chnnel = "waiting" /\ k'.timers = c.timers
         \/ /\ c.connect /\ c.chnnel = "none" /\ k'.fresh = c.fresh + 1
            /\ k'.state = "Disconnected" /\ k'.chnnel = "none" /\ k'.timers = c.timers + 1
         \/ k'.state = "Disconnected" /\ k'.chnnel = c.chnnel /\ k'.timers = c.timers /\ k'.fresh = c.fresh
  BY <1>2, <1>5, <1>6, CareStart DEF TypeOK
<1>8. k'.connect = TRUE /\ k'.due = 0 /\ k'.timers \in {0, 1} /\ k'.chnnel \in {"none", "waiting"}
      /\ (k'.state = "Connecting" <=> k'.chnnel = "waiting")
      /\ (k'.timers = 1 => k'.state = "Disconnected")
  BY <1>5, <1>7
<1>9. FlagsInv'
  BY <1>2, <1>3, <1>7, <1>8 DEF FlagsInv
<1>10. FirstInv'
  BY <1>2, <1>3 DEF FirstInv
<1>11. OneInv'
  BY <1>2, <1>3, <1>8 DEF CareInv, OneInv, Mine
<1>12. PassInv'
  <2>1. "chnnel" \notin ready /\ ~Has(functors, "reset") /\ functors \in Seq(Functors) /\ todo \in Nat
    BY <1>3 DEF TypeOK, CareInv, PassInv
  <2>2. ResetsWithin(functors, todo)
    BY <2>1, ResetFacts
  <2> QED BY <1>2, <1>8, <2>1, <2>2 DEF CareInv, PassInv
<1>13. OwnInv'
  BY <1>2 DEF CareInv, OwnInv, Mine
<1> QED BY <1>9, <1>10, <1>11, <1>12, <1>13 DEF CareInv

(* A functor of the Connector is queued at the end. *)
LEMMA PostFacts ==
  ASSUME TypeOK, CareInv, NEW op \in {"start", "stop"}, functors' = Append(functors, Functor(op, NoConn)),
         op = "start" => ~Has(functors, "start")
  PROVE  /\ \A o : Has(functors', o) <=> Has(functors, o) \/ o = op
         /\ Once(functors', "start") /\ Once(functors', "reset")
         /\ ResetsWithin(functors, todo) => ResetsWithin(functors', todo)
<1>1. Functor(op, NoConn) \in Functors /\ Functor(op, NoConn).op = op
  BY FunctorFacts DEF Raw
<1>2. functors \in Seq(Functors) /\ todo \in Nat /\ Once(functors, "start") /\ Once(functors, "reset")
  BY DEF TypeOK, CareInv, OneInv
<1> QED BY <1>1, <1>2, AppendFacts

(* stop() on the loop thread. *)
LEMMA InLoopStopCare == TypeOK /\ CareInv /\ InLoopStop => CareInv'
<1> SUFFICES ASSUME TypeOK, CareInv, InLoopStop PROVE CareInv'
  OBVIOUS
<1> USE DEF loopVars, userVars
<1>1. /\ client = "alive" /\ call = "nothing" /\ fault = "none" /\ ~restarting
      /\ want' = FALSE /\ stopped' = TRUE /\ functors' = Append(functors, Functor("stop", NoConn))
      /\ UNCHANGED <<loopVars, client, retry, conn, live, held, detached, restarting, userVars, fault,
                     connects, careless, gaveUp>>
  BY DEF InLoopStop, UserMayCall, LoopFree
<1>2. /\ k'.connect = FALSE /\ k'.state = k.state /\ k'.chnnel = k.chnnel /\ k'.timers = k.timers
      /\ k'.due = k.due /\ k'.fresh = k.fresh /\ k'.failed = k.failed
  BY DEF InLoopStop, TypeOK, Connectors
<1>3. /\ \A o : Has(functors', o) <=> Has(functors, o) \/ o = "stop"
      /\ Once(functors', "start") /\ Once(functors', "reset")
  BY <1>1, PostFacts
<1>4. FlagsInv'
  BY <1>1, <1>2, <1>3 DEF CareInv, FlagsInv
<1>5. FirstInv'
  BY <1>1, <1>2, <1>3 DEF CareInv, FirstInv
<1>6. OneInv'
  BY <1>1, <1>2, <1>3 DEF CareInv, OneInv, Mine
<1>7. PassInv'
  BY <1>1, <1>2, <1>3 DEF CareInv, PassInv, Mine
<1>8. OwnInv'
  BY <1>1, <1>2, <1>3 DEF CareInv, OwnInv, Mine
<1> QED BY <1>4, <1>5, <1>6, <1>7, <1>8 DEF CareInv

(* connect() or stop() of another thread sets the flags. *)
LEMMA OffLoopCallCare ==
  ASSUME TypeOK, CareInv, NEW op \in {"connect", "stop"}, OffLoopCall(op), ~careless'
  PROVE  CareInv'
<1> USE DEF loopVars
<1>1. /\ client = "alive" /\ call = "nothing" /\ fault = "none" /\ call' = op
      /\ want' = (op = "connect") /\ stopped' = (op = "stop")
      /\ UNCHANGED <<functors, loopVars, client, retry, conn, live, held, detached, restarting, inLoop,
                     fault, gaveUp>>
  BY DEF OffLoopCall
<1>2. /\ k'.connect = (op = "connect") /\ k'.state = k.state /\ k'.chnnel = k.chnnel /\ k'.timers = k.timers
      /\ k'.due = k.due /\ k'.fresh = k.fresh /\ k'.failed = k.failed
  BY DEF OffLoopCall, TypeOK, Connectors
<1>3. CASE op = "connect"
  <2>1. connects = 0 /\ stopped = FALSE /\ connects' = 1
    <3>1. ~Again /\ connects' = connects + 1
      BY <1>3 DEF OffLoopCall
    <3>2. connects \in Nat /\ stopped \in BOOLEAN
      BY BoundsAssumption DEF TypeOK
    <3> QED BY <3>1, <3>2 DEF Again
  <2>2. /\ k.state = "Disconnected" /\ k.chnnel = "none" /\ k.timers = 0 /\ live = {} /\ ~restarting
        /\ ~Has(functors, "start") /\ ~Has(functors, "stop")
    BY <2>1 DEF CareInv, FirstInv, FlagsInv
  <2>3. FlagsInv'
    <3>1. k'.connect = TRUE /\ stopped' = FALSE /\ call' = "connect"
      BY <1>1, <1>2, <1>3
    <3>2. connects' > 0
      BY <2>1
    <3> QED BY <1>1, <1>2, <2>2, <3>1, <3>2 DEF CareInv, FlagsInv
  <2>4. FirstInv'
    BY <1>1, <1>2, <2>1, <2>2 DEF FirstInv
  <2>5. OneInv'
    BY <1>1, <1>2, <2>2 DEF CareInv, OneInv, Mine
  <2>6. PassInv'
    <3>1. ~Has(functors, "reset") /\ functors \in Seq(Functors) /\ todo \in Nat
      BY <2>2 DEF TypeOK, CareInv, PassInv
    <3>2. ResetsWithin(functors, todo)
      BY <3>1, ResetFacts
    <3> QED BY <1>1, <1>2, <2>2, <3>2 DEF CareInv, PassInv, Mine
  <2>7. OwnInv'
    BY <1>1, <1>2 DEF CareInv, OwnInv, Mine
  <2> QED BY <2>3, <2>4, <2>5, <2>6, <2>7 DEF CareInv
<1>4. CASE op = "stop"
  <2>1. ~restarting /\ connects' = connects
    BY <1>4 DEF OffLoopCall, TypeOK
  <2>2. FlagsInv'
    BY <1>1, <1>2, <1>4, <2>1 DEF CareInv, FlagsInv
  <2>3. FirstInv'
    BY <1>1, <1>2, <1>4, <2>1 DEF CareInv, FirstInv
  <2>4. OneInv'
    BY <1>1, <1>2, <1>4 DEF CareInv, OneInv, Mine
  <2>5. PassInv'
    BY <1>1, <1>2, <1>4 DEF CareInv, PassInv, Mine
  <2>6. OwnInv'
    BY <1>1, <1>2 DEF CareInv, OwnInv, Mine
  <2> QED BY <2>2, <2>3, <2>4, <2>5, <2>6 DEF CareInv
<1> QED BY <1>3, <1>4

(* ... and queues its functor. *)
LEMMA OffLoopPostCare == TypeOK /\ CareInv /\ OffLoopPost => CareInv'
<1> SUFFICES ASSUME TypeOK, CareInv, OffLoopPost PROVE CareInv'
  OBVIOUS
<1> USE DEF loopVars, clientVars, historyVars
<1> DEFINE op == IF call = "connect" THEN "start" ELSE "stop"
<1>1. /\ call \in {"connect", "stop"} /\ call' = "nothing" /\ functors' = Append(functors, Functor(op, NoConn))
      /\ UNCHANGED <<loopVars, k, clientVars, inLoop, fault, historyVars>>
  BY DEF OffLoopPost, TypeOK
<1>2. client = "alive"
  BY <1>1 DEF TypeOK, CareInv, OwnInv
<1>3. op \in {"start", "stop"} /\ (op = "start" <=> call = "connect") /\ (op = "stop" <=> call = "stop")
  BY <1>1
<1>4. op = "start" => ~Has(functors, "start")
  BY <1>3 DEF CareInv, OneInv
<1> HIDE DEF op
<1>5. /\ \A o : Has(functors', o) <=> Has(functors, o) \/ o = op
      /\ Once(functors', "start") /\ Once(functors', "reset")
      /\ ResetsWithin(functors, todo) => ResetsWithin(functors', todo)
  BY <1>1, <1>3, <1>4, PostFacts
<1>6. FlagsInv'
  BY <1>1, <1>3, <1>5 DEF CareInv, FlagsInv
<1>7. FirstInv'
  BY <1>1, <1>3, <1>5 DEF CareInv, FirstInv
<1>8. OneInv'
  BY <1>1, <1>5 DEF CareInv, OneInv, Mine
<1>9. PassInv'
  BY <1>1, <1>3, <1>5 DEF CareInv, PassInv, Mine
<1>10. OwnInv'
  BY <1>1, <1>2, <1>3, <1>5 DEF CareInv, OwnInv, Mine
<1> QED BY <1>6, <1>7, <1>8, <1>9, <1>10 DEF CareInv

(* ~TcpClient() with care: nothing of the Connector is left, and the connection
   no longer reports to the client.                                        *)
LEMMA DestructorCare == TypeOK /\ CareInv /\ Destructor /\ ~careless' => CareInv'
<1> SUFFICES ASSUME TypeOK, CareInv, Destructor, ~careless' PROVE CareInv'
  OBVIOUS
<1> USE DEF loopVars, userVars
<1>1. Careful
  BY DEF Destructor, TypeOK
<1>2. /\ inLoop /\ conn # NoConn /\ k.chnnel = "none"
      /\ ~Has(functors, "start") /\ ~Has(functors, "stop") /\ ~Has(functors, "reset")
  BY <1>1, NoneOfAKind DEF Careful
<1> DEFINE close == IF conn \in live /\ conn \notin held THEN <<Functor("forceClose", conn)>> ELSE <<>>
<1>3. /\ client = "alive" /\ client' = "deleted" /\ call = "nothing" /\ ~restarting
      /\ functors' = functors \o close /\ detached' = detached \union {conn} /\ k' = k
      /\ UNCHANGED <<loopVars, want, retry, live, held, restarting, userVars, connects, stopped, gaveUp>>
      /\ fault' = "none"
  BY <1>2 DEF Destructor, UserMayCall, LoopFree
<1>4. conn \in live /\ live \subseteq {conn} /\ detached = {} /\ conn \in Conns /\ Mine # {}
  BY <1>2, <1>3 DEF TypeOK, CareInv, OwnInv, Mine
<1>5. k.timers = 0 /\ connects # 0
  <2>1. k.timers <= 1 /\ k.timers # 1 /\ connects # 0
    BY <1>4 DEF CareInv, OneInv, FirstInv
  <2>2. k.timers \in Nat
    BY FieldFacts DEF TypeOK
  <2> QED BY <2>1, <2>2
<1>6. /\ functors' \in Seq(Functors)
      /\ \A o : Has(functors', o) => Has(functors, o) \/ o = "forceClose"
      /\ \A o : Has(functors, o) => Has(functors', o)
      /\ Once(functors', "start") /\ Once(functors', "reset")
  <2>1. functors \in Seq(Functors) /\ Once(functors, "start") /\ Once(functors, "reset")
    BY DEF TypeOK, CareInv, OneInv
  <2>2. Functor("forceClose", conn) \in Functors /\ Functor("forceClose", conn).op = "forceClose"
    BY <1>4, FunctorFacts
  <2>3. functors' = functors \/ functors' = Append(functors, Functor("forceClose", conn))
    <3>1. functors \o <<>> = functors /\ functors \o <<Functor("forceClose", conn)>> = Append(functors, Functor("forceClose", conn))
      BY <2>1, <2>2
    <3> QED BY <1>3, <3>1
  <2> QED BY <2>1, <2>2, <2>3, AppendFacts
<1>7. Mine' = {}
  BY <1>3, <1>4 DEF Mine
<1> HIDE DEF close
<1>8. FlagsInv'
  BY <1>2, <1>3, <1>6 DEF CareInv, FlagsInv
<1>9. FirstInv'
  BY <1>2, <1>3, <1>5, <1>6 DEF FirstInv
<1>10. OneInv'
  BY <1>2, <1>3, <1>5, <1>6, <1>7 DEF CareInv, OneInv
<1>11. PassInv'
  <2>1. ~Has(functors', "reset") /\ functors' \in Seq(Functors) /\ todo \in Nat
    BY <1>2, <1>6 DEF TypeOK
  <2>2. ResetsWithin(functors', todo)
    BY <2>1, ResetFacts
  <2> QED BY <1>2, <1>3, <2>1, <2>2 DEF CareInv, PassInv
<1>12. OwnInv'
  BY <1>2, <1>3, <1>5, <1>6, <1>7 DEF CareInv, OwnInv
<1> QED BY <1>8, <1>9, <1>10, <1>11, <1>12 DEF CareInv

-----------------------------------------------------------------------------
(* The inductive invariant. *)

(* It holds at first. *)
LEMMA ClientInit == Init => ClientInv
<1> SUFFICES ASSUME Init PROVE ClientInv
  OBVIOUS
<1>1. k \in Connectors
  BY DelayAssumption DEF Init, Connectors
<1>2. functors \in Seq(Functors) /\ todo \in 0..Len(functors)
  BY DEF Init
<1>3. TypeOK
  <2>1. k.due <= k.timers /\ connects \in 0..MaxConnects
    BY BoundsAssumption DEF Init
  <2> QED BY <1>1, <1>2, <2>1 DEF Init, TypeOK
<1>4. /\ \A op : ~Has(functors, op) /\ Once(functors, op)
      /\ ResetsWithin(functors, todo)
  BY DEF Init, Has, Once, ResetsWithin
<1>5. CareInv
  BY <1>4 DEF Init, CareInv, FlagsInv, FirstInv, OneInv, PassInv, OwnInv, Mine
<1> QED BY <1>3, <1>5 DEF ClientInv

(* A program that has failed takes no step. *)
LEMMA OnlyRests == fault # "none" /\ [Next]_vars => Rests \/ UNCHANGED vars
BY DEF Next, Poll, Swap, RunStart, RunStop, RunReset, RunRaw, TakeExpired, RetryTimer, HandleWrite, AttemptFails,
       ConnectionCloses, DropPointer, RestartConnector, RunForceClose, RunSetCloseCallBack, RunDestroyed,
       InLoopConnect, InLoopStop, OffLoopCall, OffLoopPost, Disconnect, Destructor,
       UserMayCall, Run, Dispatch, LoopFree

(* Every step keeps it; no step undoes carelessness. *)
LEMMA ClientStep == ClientInv /\ [Next]_vars => ClientInv'
<1> SUFFICES ASSUME ClientInv, [Next]_vars PROVE ClientInv'
  OBVIOUS
<1>1. TypeOK /\ TypeOK'
  BY TypeStep DEF ClientInv
<1> SUFFICES ASSUME ~careless' PROVE CareInv' \/ LateFault'
  BY <1>1 DEF ClientInv
<1> USE DEF loopVars, clientVars, userVars, historyVars
<1>2. ~careless
  <2>1. careless \in BOOLEAN
    BY <1>1 DEF TypeOK
  <2>2. CASE Poll \/ Swap \/ TakeExpired \/ RetryTimer \/ HandleWrite \/ AttemptFails \/ RestartConnector
    BY <2>2 DEF Poll, Swap, TakeExpired, RetryTimer, HandleWrite, AttemptFails, RestartConnector
  <2>3. CASE RunStart \/ RunStop \/ RunReset
    BY <2>3 DEF RunStart, RunStop, RunReset, RunRaw
  <2>4. CASE \E c \in Conns : ConnectionCloses(c) \/ DropPointer(c)
    BY <2>4 DEF ConnectionCloses, Close, DropPointer
  <2>5. CASE RunForceClose \/ RunSetCloseCallBack \/ RunDestroyed
    BY <2>5 DEF RunForceClose, Close, RunSetCloseCallBack, RunDestroyed
  <2>6. CASE InLoopConnect \/ InLoopStop \/ OffLoopPost \/ Disconnect \/ Destructor
    BY <2>6 DEF InLoopConnect, InLoopStop, OffLoopPost, Disconnect, Destructor
  <2>7. CASE \E op \in {"connect", "stop"} : OffLoopCall(op)
    BY <2>7 DEF OffLoopCall
  <2>8. CASE Rests \/ UNCHANGED vars
    BY <2>8 DEF Rests, vars
  <2> QED BY <2>2, <2>3, <2>4, <2>5, <2>6, <2>7, <2>8 DEF Next
<1>3. CASE LateFault
  <2>1. UNCHANGED vars
    <3>1. fault # "none"
      BY <1>3 DEF LateFault
    <3>2. [Next]_vars => Rests \/ UNCHANGED vars
      BY <3>1, OnlyRests
    <3> QED BY <3>2 DEF Rests
  <2> QED BY <1>3, <2>1 DEF vars, LateFault, Mine
<1>4. CASE CareInv
  <2>1. CASE Poll \/ Swap \/ RunStart \/ RunStop \/ RunReset \/ TakeExpired \/ RetryTimer \/ HandleWrite \/ AttemptFails
    BY <1>1, <1>4, <2>1, PollCare, SwapCare, RunStartCare, RunStopCare, RunResetCare, TakeExpiredCare,
       RetryTimerCare, HandleWriteCare, AttemptFailsCare
  <2>2. ASSUME NEW c \in Conns, ConnectionCloses(c) PROVE CareInv'
    BY <1>1, <1>4, <2>2, ConnectionClosesCare
  <2>3. ASSUME NEW c \in Conns, DropPointer(c) PROVE CareInv'
    BY <1>4, <2>3 DEF DropPointer, CareInv, FlagsInv, FirstInv, OneInv, PassInv, OwnInv, Mine
  <2>4. CASE RestartConnector \/ RunForceClose \/ RunSetCloseCallBack \/ RunDestroyed
    BY <1>1, <1>4, <2>4, RestartConnectorCare, RunForceCloseCare, RunSetCloseCallBackCare, RunDestroyedCare
  <2>5. CASE InLoopConnect \/ InLoopStop \/ OffLoopPost \/ Destructor
    BY <1>1, <1>4, <2>5, InLoopConnectCare, InLoopStopCare, OffLoopPostCare, DestructorCare
  <2>6. ASSUME NEW op \in {"connect", "stop"}, OffLoopCall(op) PROVE CareInv'
    BY <1>1, <1>4, <2>6, OffLoopCallCare
  <2>7. CASE Disconnect
    BY <1>4, <2>7 DEF Disconnect, CareInv, FlagsInv, FirstInv, OneInv, PassInv, OwnInv, Mine
  <2>8. CASE UNCHANGED vars
    BY <1>4, <2>8 DEF vars, CareInv, FlagsInv, FirstInv, OneInv, PassInv, OwnInv, Mine
  <2>9. CASE Rests
    BY <2>8, <2>9 DEF Rests
  <2> QED BY <2>1, <2>2, <2>3, <2>4, <2>5, <2>6, <2>7, <2>8, <2>9 DEF Next
<1> QED BY <1>2, <1>3, <1>4 DEF ClientInv

(* TcpClient.cc and Connector.cc: the invariant the theorems below rest on. *)
THEOREM ClientInvariant == Spec => []ClientInv
BY ClientInit, ClientStep, PTL DEF Spec

-----------------------------------------------------------------------------
(* The theorems. *)

(* The fields of the client, of its Connector and of the loop keep their types
   in every program, careful or not; the retry delay stays between its first
   value and cMaxRetryDelayMs.                                             *)
THEOREM TypeCorrect == Spec => []TypeOK
<1>1. ClientInv => TypeOK
  BY DEF ClientInv
<1> QED BY <1>1, ClientInvariant, PTL

(* No assertion of Connector or TcpClient fails and no deleted object is
   reached in a careful program, for any delays and any length of the queue, but
   for "assert(!_chnnel)" of a retry that runs in the pass that set it.    *)
THEOREM CarefulSafe == Spec => []CarefulUseIsSafe
<1>1. ClientInv => CarefulUseIsSafe
  BY DEF ClientInv, CareInv, FlagsInv, LateFault, CarefulUseIsSafe
<1> QED BY <1>1, ClientInvariant, PTL

(* Of one connect() at most one attempt is under way: a queued start, a
   connect(2), a retry, a restart or the connection.                       *)
THEOREM AtMostOneAttempt == Spec => []OneAttempt
<1>1. ASSUME ClientInv PROVE OneAttempt
  <2> SUFFICES ASSUME ~careless PROVE Attempts <= 1
    BY DEF OneAttempt
  <2> DEFINE waits == IF k.chnnel = "waiting" THEN 1 ELSE 0
             restarts == IF restarting THEN 1 ELSE 0
  <2>1. Attempts = Cardinality(Starts) + k.timers + Cardinality(Mine) + waits + restarts
    BY DEF Attempts, Mine
  <2>2. TypeOK /\ k.timers \in Nat /\ Cardinality({}) = 0 /\ waits \in {0, 1}
    BY <1>1, FieldFacts, FS_EmptySet DEF ClientInv, TypeOK
  <2>3. CASE LateFault
    <3>1. Starts = {}
      BY <2>3 DEF LateFault, Starts, Has
    <3> QED BY <2>1, <2>2, <2>3, <3>1 DEF LateFault
  <2>4. CASE CareInv
    <3>1. k.timers \in {0, 1}
      BY <2>2, <2>4 DEF CareInv, OneInv
    <3>2. Cardinality(Starts) \in {0, 1} /\ (Cardinality(Starts) = 1 => Has(functors, "start"))
      <4>1. CASE Starts = {}
        BY <4>1, FS_EmptySet
      <4>2. CASE Starts # {}
        <5>1. PICK i \in Starts : TRUE
          BY <4>2
        <5>2. Starts = {i} /\ Has(functors, "start")
          BY <2>4, <5>1 DEF Starts, CareInv, OneInv, Once, Has
        <5> QED BY <5>2, FS_Singleton
      <4> QED BY <4>1, <4>2
    <3>3. Cardinality(Mine) \in {0, 1} /\ (Cardinality(Mine) = 1 => Mine # {})
      <4>1. Mine = {} \/ Mine = {conn}
        BY <2>2, <2>4 DEF TypeOK, CareInv, OwnInv, Mine
      <4>2. Cardinality({}) = 0 /\ Cardinality({conn}) = 1
        BY FS_EmptySet, FS_Singleton
      <4> QED BY <4>1, <4>2
    <3>4. Cardinality(Starts) = 1 => k.timers = 0 /\ Cardinality(Mine) = 0 /\ waits = 0 /\ restarts = 0
      BY <2>4, <3>2, <3>3 DEF CareInv, FirstInv, Mine
    <3>5. k.timers = 1 => Cardinality(Mine) = 0 /\ waits = 0 /\ restarts = 0
      BY <2>4, <3>3 DEF CareInv, OneInv
    <3>6. Cardinality(Mine) = 1 => waits = 0 /\ restarts = 0
      BY <2>4, <3>3 DEF CareInv, OneInv
    <3>7. waits = 1 => restarts = 0
      BY <2>4 DEF CareInv, OneInv
    <3>8. restarts \in {0, 1}
      OBVIOUS
    <3> HIDE DEF waits, restarts
    <3> QED BY <2>1, <2>2, <3>1, <3>2, <3>3, <3>4, <3>5, <3>6, <3>7, <3>8
  <2> QED BY <1>1, <2>3, <2>4 DEF ClientInv
<1> QED BY <1>1, ClientInvariant, PTL

(* After stopInLoop() no connect(2) is in progress and no restart is coming. *)
THEOREM StopIsFinal == Spec => []StoppedStaysStopped
<1>1. ClientInv => StoppedStaysStopped
  <2> SUFFICES ASSUME ClientInv, stopped, ~careless, call = "nothing",
                      \A i \in 1..Len(functors) : functors[i].op # "stop"
               PROVE  k.chnnel # "waiting" /\ ~restarting
    BY DEF StoppedStaysStopped
  <2>1. ~Has(functors, "stop")
    BY NoneOfAKind
  <2> QED BY <2>1 DEF ClientInv, CareInv, FlagsInv, LateFault
<1> QED BY <1>1, ClientInvariant, PTL
=============================================================================

-------------------------- MODULE TimerQueueProofs --------------------------
(***************************************************************************)
(* Proofs about TimerQueue for any number of addresses, threads and timers, *)
(* any intervals and any length of the functor queue.                      *)
(***************************************************************************)
EXTENDS TimerQueue, WellFoundedInduction, TLAPS

Functor == [op : {"add", "cancel"}, id : Ids, of : 0..MaxSeq]

(* The entries and the TimerIds of the timers at addresses S of memory m. *)
Entries(S, m) == {EntryOf(a, m) : a \in S}
IdSet(S, m) == {IdOf(a, m) : a \in S}

Waiting == {e[2] : e \in timers}

(* The timers to be added by the functors fs; each functor brings another one. *)
AddsOf(fs) == {fs[i].id : i \in {j \in 1..Len(fs) : fs[j].op = "add"}}
Distinct(fs) == \A i, j \in 1..Len(fs) :
                  i # j /\ fs[i].op = "add" /\ fs[j].op = "add" => fs[i].id[1] # fs[j].id[1]
Queued == {id[1] : id \in ToBeAdded}

(* Who owns a timer: as SetsAgree and TimersOwnedOnce say, and a timer in the
   functor queue is there once, under the sequence it has.  The phases of the
   loop thread: a batch exists only inside handleRead().                    *)
OwnInv == /\ timers = Entries(Waiting, mem) /\ active = IdSet(Waiting, mem)
          /\ alloc = Waiting \union batch \union Queued
          /\ Waiting \intersect batch = {}
          /\ (Waiting \union batch) \intersect Queued = {}
          /\ ToBeAdded = IdSet(Queued, mem) /\ Distinct(functors)
          /\ calling = (pc # "idle") /\ (pc = "idle" => batch = {} /\ torun = {})

(* Sequences only grow: no TimerId was returned for a timer that is still to be made. *)
SeqInv == /\ \A a \in Addrs : mem[a].seq <= lastSeq
          /\ \A h \in ids : h.of <= lastSeq
          /\ \A s \in cancelled : s <= lastSeq
          /\ \A u \in OffAdders : adding[u][2] <= lastSeq

(* The TimerId id names the timer with sequence s, if that timer still exists. *)
Names(id, s) == \A a \in alloc : mem[a].seq = s => id = IdOf(a, mem)

(* addTimer() may read the sequence of another timer, but only once its own is
   gone: the TimerIds of timers that exist name them.  A cancel on its way to the
   loop was asked for with a TimerId some user has.                         *)
NameInv == /\ \A h \in ids : Names(h.id, h.of)
           /\ \A i \in 1..Len(functors) :
                functors[i].op = "cancel" => [id |-> functors[i].id, of |-> functors[i].of] \in ids
           /\ \A u \in OffAdders : adding[u][1] # NoAddr =>
                \A a \in alloc : mem[a].seq = adding[u][2] => a = adding[u][1]

(* A timer that was cancelled neither waits nor is on its way; if it is one of the
   batch it is remembered for reset().  What is remembered there was cancelled by
   its user, or is the timer of a TimerId that was misread.                 *)
CancelInv == /\ \A a \in alloc \ batch : mem[a].seq \notin cancelled
             /\ \A a \in batch : mem[a].seq \in cancelled => IdOf(a, mem) \in canceling
             /\ \A a \in batch : IdOf(a, mem) \in canceling => mem[a].seq \in cancelled \union Mistaken
             /\ CancelHitsItsTimer

TimerInv == TypeOK /\ OwnInv /\ SeqInv /\ NameInv /\ CancelInv /\ TimerFdArmed

-----------------------------------------------------------------------------
(* Entries and TimerIds. *)

(* The addresses of entries. *)
LEMMA EntryAddrs ==
  ASSUME NEW S, NEW m
  PROVE  {e[2] : e \in Entries(S, m)} = S
<1>1. \A a \in S : EntryOf(a, m) \in Entries(S, m) /\ EntryOf(a, m)[2] = a
  BY DEF Entries, EntryOf
<1>2. \A e \in Entries(S, m) : \E a \in S : e = EntryOf(a, m)
  BY DEF Entries
<1>3. \A e \in Entries(S, m) : e[2] \in S
  BY <1>1, <1>2
<1> QED
  BY <1>1, <1>3

(* An entry and a TimerId name one address. *)
LEMMA EntryIn ==
  ASSUME NEW S, NEW m, NEW x
  PROVE  /\ x \in Entries(S, m) <=> \E a \in S : x = <<m[a].when, a>>
         /\ x \in IdSet(S, m) <=> \E a \in S : x = <<a, m[a].seq>>
BY DEF Entries, IdSet, EntryOf, IdOf

(* A change of memory elsewhere. *)
LEMMA EntrySame ==
  ASSUME NEW S, NEW m, NEW n, \A b \in S : n[b] = m[b]
  PROVE  IdSet(S, n) = IdSet(S, m) /\ Entries(S, n) = Entries(S, m)
BY DEF Entries, IdSet, EntryOf, IdOf

(* One of each. *)
LEMMA EntryOne ==
  ASSUME NEW a, NEW m
  PROVE  Entries({a}, m) = {EntryOf(a, m)} /\ IdSet({a}, m) = {IdOf(a, m)}
BY DEF Entries, IdSet

(* What is known of a timer's entry and id. *)
LEMMA EntryFacts ==
  ASSUME NEW a, NEW m
  PROVE  /\ EntryOf(a, m)[1] = m[a].when /\ EntryOf(a, m)[2] = a
         /\ IdOf(a, m)[1] = a /\ IdOf(a, m)[2] = m[a].seq
BY DEF EntryOf, IdOf

(* SetsAgree says that both sets are those of the waiting timers. *)
LEMMA SetsAgreeMeans ==
  SetsAgree <=> timers = Entries(Waiting, mem) /\ active = IdSet(Waiting, mem)
<1>1. {EntryOf(e[2], mem) : e \in timers} = Entries(Waiting, mem)
  BY DEF Entries, Waiting
<1>2. {IdOf(e[2], mem) : e \in timers} = IdSet(Waiting, mem)
  BY DEF IdSet, Waiting
<1> QED
  BY <1>1, <1>2 DEF SetsAgree

-----------------------------------------------------------------------------
(* The functor queue. *)

(* A functor is posted. *)
LEMMA AddsAppend ==
  ASSUME NEW fs \in Seq(Functor), NEW f \in Functor
  PROVE  /\ f.op = "add" => AddsOf(Append(fs, f)) = AddsOf(fs) \union {f.id}
         /\ f.op # "add" => AddsOf(Append(fs, f)) = AddsOf(fs)
         /\ Distinct(fs) /\ (f.op = "add" => \A id \in AddsOf(fs) : id[1] # f.id[1])
              => Distinct(Append(fs, f))
<1> DEFINE gs == Append(fs, f)
<1>1. /\ Len(gs) = Len(fs) + 1 /\ Len(fs) \in Nat /\ gs[Len(fs) + 1] = f
      /\ \A i \in 1..Len(fs) : gs[i] = fs[i] /\ i \in 1..Len(gs)
      /\ \A i \in 1..Len(gs) : i \in 1..Len(fs) \/ i = Len(fs) + 1
      /\ Len(fs) + 1 \in 1..Len(gs)
  OBVIOUS
<1> HIDE DEF gs
<1>2. \A x : x \in AddsOf(fs) <=> \E i \in 1..Len(fs) : fs[i].op = "add" /\ x = fs[i].id
  BY DEF AddsOf
<1>3. \A x : x \in AddsOf(gs) <=> \E i \in 1..Len(gs) : gs[i].op = "add" /\ x = gs[i].id
  BY DEF AddsOf
<1>4. \A x : x \in AddsOf(gs) <=> x \in AddsOf(fs) \/ (f.op = "add" /\ x = f.id)
  BY <1>1, <1>2, <1>3
<1>5. ASSUME Distinct(fs), f.op = "add" => \A id \in AddsOf(fs) : id[1] # f.id[1]
      PROVE  Distinct(gs)
  <2> SUFFICES ASSUME NEW i \in 1..Len(gs), NEW j \in 1..Len(gs), i # j,
                      gs[i].op = "add", gs[j].op = "add"
               PROVE  gs[i].id[1] # gs[j].id[1]
    BY DEF Distinct
  <2>1. CASE i \in 1..Len(fs) /\ j \in 1..Len(fs)
    BY <1>1, <1>5, <2>1 DEF Distinct
  <2>2. CASE i = Len(fs) + 1 /\ j \in 1..Len(fs)
    BY <1>1, <1>2, <1>5, <2>2
  <2>3. CASE j = Len(fs) + 1 /\ i \in 1..Len(fs)
    BY <1>1, <1>2, <1>5, <2>3
  <2> QED
    BY <1>1, <2>1, <2>2, <2>3
<1> QED
  BY <1>4, <1>5 DEF gs

(* The first functor is taken. *)
LEMMA AddsTail ==
  ASSUME NEW fs \in Seq(Functor), fs # <<>>, Distinct(fs)
  PROVE  /\ Head(fs) \in Functor /\ Tail(fs) \in Seq(Functor) /\ Distinct(Tail(fs))
         /\ Head(fs).op = "add" => /\ Head(fs).id \in AddsOf(fs)
                                   /\ AddsOf(Tail(fs)) = {x \in AddsOf(fs) : x[1] # Head(fs).id[1]}
         /\ Head(fs).op # "add" => AddsOf(Tail(fs)) = AddsOf(fs)
         /\ Len(Tail(fs)) = Len(fs) - 1 /\ Len(fs) \in Nat \ {0} /\ Head(fs) = fs[1]
         /\ \A i \in 1..Len(Tail(fs)) : Tail(fs)[i] = fs[i + 1] /\ i + 1 \in 1..Len(fs)
<1> DEFINE gs == Tail(fs)
           h == Head(fs)
<1>1. /\ gs \in Seq(Functor) /\ h \in Functor /\ Len(fs) \in Nat \ {0} /\ Len(gs) = Len(fs) - 1
      /\ h = fs[1] /\ 1 \in 1..Len(fs)
      /\ \A i \in 1..Len(gs) : gs[i] = fs[i + 1] /\ i + 1 \in 1..Len(fs) /\ i + 1 # 1
      /\ \A i \in 1..Len(fs) : i = 1 \/ (i - 1 \in 1..Len(gs) /\ (i - 1) + 1 = i)
  OBVIOUS
<1> HIDE DEF gs, h
<1>2. \A x : x \in AddsOf(fs) <=> \E i \in 1..Len(fs) : fs[i].op = "add" /\ x = fs[i].id
  BY DEF AddsOf
<1>3. \A x : x \in AddsOf(gs) <=> \E i \in 1..Len(gs) : gs[i].op = "add" /\ x = gs[i].id
  BY DEF AddsOf
<1>4. ASSUME NEW x \in AddsOf(gs) PROVE x \in AddsOf(fs) /\ (h.op = "add" => x[1] # h.id[1])
  <2>1. PICK i \in 1..Len(gs) : gs[i].op = "add" /\ x = gs[i].id
    BY <1>3
  <2>2. fs[i + 1].op = "add" /\ x = fs[i + 1].id /\ i + 1 \in 1..Len(fs) /\ i + 1 # 1
    BY <1>1, <2>1
  <2> QED
    BY <1>1, <1>2, <2>2 DEF Distinct
<1>5. ASSUME NEW x \in AddsOf(fs), h.op = "add" => x[1] # h.id[1] PROVE x \in AddsOf(gs)
  <2>1. PICK i \in 1..Len(fs) : fs[i].op = "add" /\ x = fs[i].id
    BY <1>2
  <2>2. i # 1
    BY <1>1, <1>5, <2>1
  <2>3. i - 1 \in 1..Len(gs) /\ gs[i - 1] = fs[i]
    BY <1>1, <2>2
  <2> QED
    BY <1>3, <2>1, <2>3
<1>6. h.op = "add" => h.id \in AddsOf(fs)
  BY <1>1, <1>2
<1>7. Distinct(gs)
  <2> SUFFICES ASSUME NEW i \in 1..Len(gs), NEW j \in 1..Len(gs), i # j,
                      gs[i].op = "add", gs[j].op = "add"
               PROVE  gs[i].id[1] # gs[j].id[1]
    BY DEF Distinct
  <2>1. i + 1 # j + 1
    OBVIOUS
  <2>2. /\ gs[i] = fs[i + 1] /\ i + 1 \in 1..Len(fs)
        /\ gs[j] = fs[j + 1] /\ j + 1 \in 1..Len(fs)
    BY <1>1
  <2> QED
    BY <2>1, <2>2, Zenon DEF Distinct
<1> QED
  BY <1>1, <1>4, <1>5, <1>6, <1>7 DEF gs, h

-----------------------------------------------------------------------------
(* The operations on timers. *)

(* new Timer(...) writes one address that was free. *)
LEMMA NewTimerFacts ==
  ASSUME TypeOK, NEW a \in Addrs, NEW d \in 0..MaxDelay, NEW i \in Intervals, NewTimer(a, d, i)
  PROVE  /\ a \notin alloc /\ alloc' = alloc \union {a} /\ lastSeq' = lastSeq + 1
         /\ mem' \in [Addrs -> TimerObjects] /\ lastSeq' \in 0..MaxSeq
         /\ mem'[a].seq = lastSeq + 1 /\ mem'[a].when \in Nat
         /\ \A b \in Addrs : b # a => mem'[b] = mem[b]
         /\ IdOf(a, mem') = <<a, lastSeq + 1>> /\ IdOf(a, mem') \in Ids
         /\ EntryOf(a, mem') \in Nat \X Addrs
<1> DEFINE t == [seq |-> lastSeq + 1, when |-> now + d, every |-> i]
<1>1. lastSeq + 1 \in 0..MaxSeq
  BY TimerBoundsAssumption DEF TypeOK, NewTimer
<1>2. now + d \in Nat /\ i \in Nat
  BY TimerBoundsAssumption, IntervalsAssumption DEF TypeOK
<1>3. t \in TimerObjects /\ t.seq = lastSeq + 1 /\ t.when = now + d
  BY <1>1, <1>2 DEF TimerObjects
<1>4. mem' = [mem EXCEPT ![a] = t] /\ mem \in [Addrs -> TimerObjects]
  BY DEF TypeOK, NewTimer
<1> HIDE DEF t
<1>5. /\ mem' \in [Addrs -> TimerObjects] /\ mem'[a] = t
      /\ \A b \in Addrs : b # a => mem'[b] = mem[b]
  BY <1>3, <1>4
<1>6. IdOf(a, mem') = <<a, lastSeq + 1>> /\ EntryOf(a, mem') = <<now + d, a>>
  BY <1>3, <1>5 DEF IdOf, EntryOf
<1> QED
  BY <1>1, <1>2, <1>3, <1>5, <1>6 DEF NewTimer, Ids

(* A timer in memory has an entry and an id. *)
LEMMA MemFacts ==
  ASSUME NEW m \in [Addrs -> TimerObjects], NEW a \in Addrs
  PROVE  /\ EntryOf(a, m) \in Nat \X Addrs /\ IdOf(a, m) \in Ids
         /\ m[a].when \in Nat /\ m[a].seq \in 0..MaxSeq /\ m[a].every \in Nat
BY DEF TimerObjects, EntryOf, IdOf, Ids

(* reset() writes the new expirations of the timers that run again. *)
LEMMA ResetFacts ==
  ASSUME TypeOK, HandleReadEnds
  PROVE  /\ mem' \in [Addrs -> TimerObjects] /\ Again \subseteq batch
         /\ \A a \in Addrs \ batch : mem'[a] = mem[a]
         /\ \A a \in Addrs : mem'[a].seq = mem[a].seq
<1>1. /\ mem \in [Addrs -> TimerObjects] /\ hnow \in Nat
      /\ mem' = [a \in Addrs |-> IF a \in Again THEN [mem[a] EXCEPT !.when = hnow + mem[a].every]
                                 ELSE mem[a]]
  BY DEF TypeOK, HandleReadEnds
<1>2. Again \subseteq batch
  BY DEF Again
<1>3. ASSUME NEW a \in Addrs
      PROVE  mem'[a] \in TimerObjects /\ mem'[a].seq = mem[a].seq /\ (a \notin Again => mem'[a] = mem[a])
  <2>1. mem[a] \in TimerObjects /\ hnow + mem[a].every \in Nat
    BY <1>1, MemFacts
  <2> DEFINE t == [mem[a] EXCEPT !.when = hnow + mem[a].every]
  <2>2. t \in TimerObjects /\ t.seq = mem[a].seq
    BY <2>1 DEF TimerObjects
  <2>3. mem'[a] = IF a \in Again THEN t ELSE mem[a]
    BY <1>1
  <2> QED
    BY <2>1, <2>2, <2>3
<1>4. mem' \in [Addrs -> TimerObjects]
  <2>1. DOMAIN mem' = Addrs /\ mem' = [a \in Addrs |-> mem'[a]]
    BY <1>1
  <2> QED
    BY <1>3, <2>1
<1> QED
  BY <1>2, <1>3, <1>4

(* _timers.begin() of a queue that is not empty: an expiration that no other
   precedes. *)
LEMMA EarliestType ==
  ASSUME NEW T \in SUBSET (Nat \X Addrs), T # {}
  PROVE  /\ Earliest(T) \in Nat /\ (\E e \in T : e[1] = Earliest(T))
         /\ \A e \in T : Earliest(T) <= e[1]
<1> DEFINE W == {e[1] : e \in T}
           R == {p \in Nat \X Nat : p[1] < p[2]}
<1>1. W \subseteq Nat /\ W # {}
  OBVIOUS
<1>2. IsWellFoundedOn(R, Nat)
  BY NatLessThanWellFounded, Zenon DEF OpToRel
<1>3. PICK w \in W : \A y \in W : ~(<<y, w>> \in R)
  <2> HIDE DEF W, R
  <2> QED
    BY <1>1, <1>2, WFMin
<1>4. \A y \in W : w <= y
  <2> SUFFICES ASSUME NEW y \in W PROVE w <= y
    OBVIOUS
  <2> HIDE DEF W
  <2>1. y \in Nat /\ w \in Nat
    BY <1>1
  <2>2. y < w => <<y, w>> \in R
    BY <2>1
  <2> QED
    BY <1>3, <2>1, <2>2
<1>5. w \in {e[1] : e \in T} /\ \A e \in T : w <= e[1]
  BY <1>4
<1>6. /\ Earliest(T) \in {e[1] : e \in T}
      /\ \A e \in T : Earliest(T) <= e[1]
  BY <1>5, Zenon DEF Earliest
<1> QED
  BY <1>1, <1>6

(* What a functor asks for. *)
LEMMA FunctorFacts ==
  ASSUME NEW f \in Functor
  PROVE  f.op \in {"add", "cancel"} /\ f.id \in Ids /\ f.id[1] \in Addrs /\ f.of \in 0..MaxSeq
BY DEF Functor, Ids

(* cancleInLoop() keeps the types. *)
LEMMA CancleType ==
  ASSUME TypeOK, NEW h, h.id \in Ids, h.of \in 0..MaxSeq, CancleInLoop(h)
  PROVE  /\ timers' \subseteq Nat \X Addrs /\ active' \subseteq Ids /\ canceling' \subseteq Ids
         /\ alloc' \subseteq Addrs /\ cancelled' \subseteq 0..MaxSeq /\ dropped' \subseteq 0..MaxSeq
<1>1. mem[h.id[1]].seq \in 0..MaxSeq
  <2>1. h.id[1] \in Addrs /\ mem \in [Addrs -> TimerObjects]
    BY DEF TypeOK, Ids
  <2> QED
    BY <2>1, MemFacts
<1>2. cancelled' \subseteq 0..MaxSeq
  BY DEF TypeOK, CancleInLoop, Cancelled
<1> QED
  BY <1>1, <1>2 DEF TypeOK, CancleInLoop

(* Every operation keeps the types. *)
LEMMA TypeInductive == TypeOK /\ [Next]_vars => TypeOK'
<1> SUFFICES ASSUME TypeOK, [Next]_vars PROVE TypeOK'
  OBVIOUS
<1>0. functors \in Seq(Functor) /\ mem \in [Addrs -> TimerObjects]
  BY DEF TypeOK, Functor
<1>1. ASSUME NEW a \in Addrs, NEW m \in [Addrs -> TimerObjects], AddTimerInLoop(a, m)
      PROVE  /\ timers' \subseteq Nat \X Addrs /\ active' \subseteq Ids
             /\ fdAt' \in Nat \union {Never} /\ fdReady' \in BOOLEAN
  <2>1. EntryOf(a, m) \in Nat \X Addrs /\ IdOf(a, m) \in Ids /\ m[a].when \in Nat
    BY MemFacts
  <2>2. timers' \subseteq Nat \X Addrs /\ active' \subseteq Ids
    BY <1>1, <2>1 DEF TypeOK, AddTimerInLoop
  <2>3. fdAt' \in Nat \union {Never} /\ fdReady' \in BOOLEAN
    BY <1>1, <2>1 DEF TypeOK, AddTimerInLoop, ResetTimerFd, fdVars
  <2> QED
    BY <2>2, <2>3
<1>2. CASE UNCHANGED vars
  BY <1>2 DEF TypeOK, vars, setVars, batchVars, fdVars, historyVars
<1>3. CASE InLoopAdd
  <2>1. PICK a \in Addrs, d \in 0..MaxDelay, i \in Intervals :
          /\ NewTimer(a, d, i) /\ AddTimerInLoop(a, mem')
          /\ ids' = ids \union {[id |-> IdOf(a, mem'), of |-> mem'[a].seq]}
    BY <1>3 DEF InLoopAdd
  <2>2. /\ alloc' = alloc \union {a} /\ mem' \in [Addrs -> TimerObjects] /\ lastSeq' \in 0..MaxSeq
        /\ IdOf(a, mem') \in Ids
    BY <2>1, NewTimerFacts
  <2>3. /\ timers' \subseteq Nat \X Addrs /\ active' \subseteq Ids
        /\ fdAt' \in Nat \union {Never} /\ fdReady' \in BOOLEAN
    BY <1>1, <2>1, <2>2
  <2>4. ids' \subseteq Handles
    <3>1. mem'[a].seq \in 0..MaxSeq
      BY <2>2, MemFacts
    <3> QED
      BY <2>1, <2>2, <3>1 DEF TypeOK, Handles
  <2> QED
    BY <1>3, <2>2, <2>3, <2>4 DEF TypeOK, InLoopAdd, batchVars
<1>4. CASE InLoopCancel
  <2>1. PICK h \in ids : CancleInLoop(h)
    BY <1>4 DEF InLoopCancel
  <2>2. /\ timers' \subseteq Nat \X Addrs /\ active' \subseteq Ids /\ canceling' \subseteq Ids
        /\ alloc' \subseteq Addrs /\ cancelled' \subseteq 0..MaxSeq /\ dropped' \subseteq 0..MaxSeq
    BY <2>1, CancleType DEF TypeOK, Handles
  <2> QED
    BY <1>4, <2>2 DEF TypeOK, InLoopCancel, fdVars
<1>5. CASE OffLoopCancel
  <2>1. PICK h \in ids : functors' = Append(functors, [op |-> "cancel", id |-> h.id, of |-> h.of])
    BY <1>5 DEF OffLoopCancel
  <2>2. functors' \in Seq(Functor)
    BY <1>0, <2>1 DEF TypeOK, Functor, Handles
  <2> QED
    BY <1>5, <2>2 DEF TypeOK, OffLoopCancel, Functor, setVars, batchVars, fdVars, historyVars
<1>6. ASSUME NEW u \in OffAdders, OffLoopAdd(u) PROVE TypeOK'
  <2>1. PICK a \in Addrs, d \in 0..MaxDelay, i \in Intervals :
          /\ NewTimer(a, d, i)
          /\ functors' = Append(functors, [op |-> "add", id |-> IdOf(a, mem'), of |-> mem'[a].seq])
          /\ adding' = [adding EXCEPT ![u] = IdOf(a, mem')]
    BY <1>6 DEF OffLoopAdd
  <2>2. /\ alloc' = alloc \union {a} /\ mem' \in [Addrs -> TimerObjects] /\ lastSeq' \in 0..MaxSeq
        /\ IdOf(a, mem') \in Ids
    BY <2>1, NewTimerFacts
  <2>3. functors' \in Seq(Functor)
    <3>1. mem'[a].seq \in 0..MaxSeq
      BY <2>2, MemFacts
    <3> QED
      BY <1>0, <2>1, <2>2, <3>1 DEF Functor
  <2>4. adding' \in [OffAdders -> (Addrs \union {NoAddr}) \X (0..MaxSeq)]
    <3>1. IdOf(a, mem') \in (Addrs \union {NoAddr}) \X (0..MaxSeq)
      BY <2>2 DEF Ids
    <3> QED
      BY <2>1, <3>1 DEF TypeOK
  <2> QED
    BY <1>6, <2>2, <2>3, <2>4 DEF TypeOK, OffLoopAdd, Functor, batchVars, fdVars, historyVars
<1>7. ASSUME NEW u \in OffAdders, OffLoopAddReturns(u) PROVE TypeOK'
  <2>1. adding[u] \in (Addrs \union {NoAddr}) \X (0..MaxSeq) /\ adding[u][1] # NoAddr
    BY <1>7 DEF TypeOK, OffLoopAddReturns
  <2>2. IdOf(adding[u][1], mem) \in Ids /\ adding[u][2] \in 0..MaxSeq
    BY <1>0, <2>1, MemFacts
  <2>3. adding' \in [OffAdders -> (Addrs \union {NoAddr}) \X (0..MaxSeq)]
    <3>1. <<NoAddr, 0>> \in (Addrs \union {NoAddr}) \X (0..MaxSeq)
      BY TimerBoundsAssumption
    <3> QED
      BY <1>7, <3>1 DEF TypeOK, OffLoopAddReturns
  <2>4. ids' \subseteq Handles
    BY <1>7, <2>2 DEF TypeOK, OffLoopAddReturns, Handles
  <2> QED
    BY <1>7, <2>3, <2>4 DEF TypeOK, OffLoopAddReturns, setVars, batchVars, fdVars
<1>8. CASE RunAdd
  <2>1. /\ functors # <<>> /\ functors' = Tail(functors) /\ AddTimerInLoop(Head(functors).id[1], mem)
    BY <1>8 DEF RunAdd, Run
  <2>2. functors' \in Seq(Functor) /\ Head(functors) \in Functor
    BY <1>0, <2>1
  <2>3. Head(functors).id[1] \in Addrs
    BY <2>2, FunctorFacts
  <2>4. /\ timers' \subseteq Nat \X Addrs /\ active' \subseteq Ids
        /\ fdAt' \in Nat \union {Never} /\ fdReady' \in BOOLEAN
    BY <1>0, <1>1, <2>1, <2>3
  <2> QED
    BY <1>8, <2>2, <2>4 DEF TypeOK, RunAdd, Functor, batchVars, historyVars
<1>9. CASE RunCancel
  <2>1. /\ functors # <<>> /\ functors' = Tail(functors) /\ CancleInLoop(Head(functors))
    BY <1>9 DEF RunCancel, Run
  <2>2. functors' \in Seq(Functor) /\ Head(functors) \in Functor
    BY <1>0, <2>1
  <2>3. Head(functors).id \in Ids /\ Head(functors).of \in 0..MaxSeq
    BY <2>2, FunctorFacts
  <2>4. /\ timers' \subseteq Nat \X Addrs /\ active' \subseteq Ids /\ canceling' \subseteq Ids
        /\ alloc' \subseteq Addrs /\ cancelled' \subseteq 0..MaxSeq /\ dropped' \subseteq 0..MaxSeq
    BY <2>1, <2>3, CancleType
  <2> QED
    BY <1>9, <2>2, <2>4 DEF TypeOK, RunCancel, Functor, fdVars
<1>10. CASE HandleReadStarts
  <2>1. {e[2] : e \in Expired} \subseteq Addrs
    BY DEF TypeOK, Expired
  <2>2. now \in Nat
    BY TimerBoundsAssumption DEF TypeOK
  <2> QED
    BY <1>10, <2>1, <2>2 DEF TypeOK, HandleReadStarts, historyVars
<1>11. CASE TimerStarts
  BY <1>11 DEF TypeOK, TimerStarts, setVars, fdVars, historyVars
<1>12. CASE TimerReturns
  BY <1>12 DEF TypeOK, TimerReturns, setVars, fdVars, historyVars
<1>13. CASE HandleReadEnds
  <2>1. mem' \in [Addrs -> TimerObjects] /\ Again \subseteq batch /\ batch \subseteq Addrs
    BY <1>13, ResetFacts DEF TypeOK
  <2>2. timers' \subseteq Nat \X Addrs
    <3>1. \A a \in Again : EntryOf(a, mem') \in Nat \X Addrs
      BY <2>1, MemFacts
    <3>2. timers' = timers \union {EntryOf(a, mem') : a \in Again}
      BY <1>13 DEF HandleReadEnds
    <3> QED
      BY <3>1, <3>2 DEF TypeOK
  <2>3. active' \subseteq Ids
    <3>1. \A a \in Again : IdOf(a, mem) \in Ids
      BY <1>0, <2>1, MemFacts
    <3>2. active' = active \union {IdOf(a, mem) : a \in Again}
      BY <1>13 DEF HandleReadEnds
    <3> QED
      BY <3>1, <3>2 DEF TypeOK
  <2>4. dropped' \subseteq 0..MaxSeq
    <3>1. \A a \in batch : mem[a].seq \in 0..MaxSeq
      BY <1>0, <2>1, MemFacts
    <3>2. dropped' = dropped \union {mem[a].seq : a \in {b \in batch \ Again : mem[b].every > 0}}
      BY <1>13 DEF HandleReadEnds
    <3> QED
      BY <3>1, <3>2 DEF TypeOK
  <2>5. fdAt' \in Nat \union {Never} /\ fdReady' \in BOOLEAN
    <3>1. ASSUME timers' # {} PROVE Earliest(timers') \in Nat
      BY <2>2, <3>1, EarliestType
    <3> QED
      BY <1>13, <3>1 DEF TypeOK, HandleReadEnds, ResetTimerFd, fdVars
  <2> QED
    BY <1>13, <2>1, <2>2, <2>3, <2>4, <2>5 DEF TypeOK, HandleReadEnds
<1>14. CASE Tick
  BY <1>14, TimerBoundsAssumption DEF TypeOK, Tick, setVars, batchVars, fdVars, historyVars
<1>15. CASE TimerFdFires
  BY <1>15 DEF TypeOK, TimerFdFires, setVars, batchVars, historyVars
<1> QED
  BY <1>2, <1>3, <1>4, <1>5, <1>6, <1>7, <1>8, <1>9, <1>10, <1>11, <1>12, <1>13, <1>14, <1>15
     DEF Next, LoopStep

-----------------------------------------------------------------------------
(* Ownership. *)

(* The addresses of TimerIds. *)
LEMMA IdAddrs ==
  ASSUME NEW S, NEW m
  PROVE  {id[1] : id \in IdSet(S, m)} = S
<1>1. \A a \in S : IdOf(a, m) \in IdSet(S, m) /\ IdOf(a, m)[1] = a
  BY DEF IdSet, IdOf
<1>2. \A id \in IdSet(S, m) : \E a \in S : id = IdOf(a, m)
  BY DEF IdSet
<1>3. \A id \in IdSet(S, m) : id[1] \in S
  BY <1>1, <1>2
<1> QED
  BY <1>1, <1>3

(* Waiting timers and those on their way are at addresses of the allocator. *)
LEMMA OwnTypes ==
  ASSUME TypeOK, OwnInv
  PROVE  /\ Waiting \subseteq Addrs /\ Queued \subseteq Addrs /\ batch \subseteq Addrs
         /\ functors \in Seq(Functor) /\ mem \in [Addrs -> TimerObjects]
         /\ ToBeAdded = AddsOf(functors)
         /\ Waiting \subseteq alloc /\ Queued \subseteq alloc /\ batch \subseteq alloc
<1>1. Waiting \subseteq Addrs
  BY DEF TypeOK, Waiting
<1>2. functors \in Seq(Functor) /\ mem \in [Addrs -> TimerObjects] /\ alloc \subseteq Addrs
  BY DEF TypeOK, Functor
<1>3. ToBeAdded = AddsOf(functors)
  BY DEF ToBeAdded, AddsOf
<1> QED
  BY <1>1, <1>2, <1>3 DEF OwnInv, TypeOK

(* What is to be shown of a step: S wait after it and Q are on their way. *)
LEMMA OwnAfter ==
  ASSUME NEW S, NEW Q,
         timers' = Entries(S, mem'), active' = IdSet(S, mem'), AddsOf(functors') = IdSet(Q, mem'),
         alloc' = S \union batch' \union Q,
         S \intersect batch' = {}, (S \union batch') \intersect Q = {},
         Distinct(functors'),
         calling' = (pc' # "idle"), pc' = "idle" => batch' = {} /\ torun' = {}
  PROVE  OwnInv' /\ Waiting' = S /\ Queued' = Q /\ ToBeAdded' = IdSet(Q, mem')
<1>1. Waiting' = S
  BY EntryAddrs DEF Waiting
<1>2. ToBeAdded' = IdSet(Q, mem')
  BY DEF ToBeAdded, AddsOf
<1>3. Queued' = Q
  BY <1>2, IdAddrs DEF Queued
<1> QED
  BY <1>1, <1>2, <1>3 DEF OwnInv

(* cancleInLoop() deletes the timer its TimerId names if that one waits. *)
LEMMA CancleFacts ==
  ASSUME TypeOK, OwnInv, NEW h, h.id \in Ids, CancleInLoop(h)
  PROVE  LET id == h.id
             S == IF id \in active THEN Waiting \ {id[1]} ELSE Waiting
         IN  /\ timers' = Entries(S, mem) /\ active' = IdSet(S, mem)
             /\ alloc' = S \union batch \union Queued
             /\ S \subseteq Waiting
             /\ id \in active => id[1] \in Waiting /\ id = IdOf(id[1], mem)
<1> DEFINE id == h.id
<1>1. CASE id \in active
  <2>1. id[1] \in Waiting /\ id = IdOf(id[1], mem)
    <3>1. id \in IdSet(Waiting, mem)
      BY <1>1 DEF OwnInv
    <3>2. PICK a \in Waiting : id = IdOf(a, mem)
      BY <3>1 DEF IdSet
    <3> QED
      BY <3>2, EntryFacts
  <2> DEFINE a == id[1]
  <2>2. /\ timers' = timers \ {EntryOf(a, mem)} /\ active' = active \ {IdOf(a, mem)}
        /\ alloc' = alloc \ {a}
    BY <1>1, <2>1 DEF CancleInLoop
  <2> HIDE DEF a
  <2>3. timers' = Entries(Waiting \ {a}, mem) /\ active' = IdSet(Waiting \ {a}, mem)
    <3>1. timers' = Entries(Waiting, mem) \ Entries({a}, mem)
      BY <2>2, EntryOne DEF OwnInv
    <3>2. active' = IdSet(Waiting, mem) \ IdSet({a}, mem)
      BY <2>2, EntryOne DEF OwnInv
    <3>3. /\ Entries(Waiting \ {a}, mem) = Entries(Waiting, mem) \ Entries({a}, mem)
          /\ IdSet(Waiting \ {a}, mem) = IdSet(Waiting, mem) \ IdSet({a}, mem)
      BY DEF Entries, IdSet, EntryOf, IdOf
    <3> QED
      BY <3>1, <3>2, <3>3
  <2>4. alloc' = (Waiting \ {a}) \union batch \union Queued
    BY <2>1, <2>2 DEF OwnInv, a
  <2> QED
    BY <1>1, <2>1, <2>3, <2>4 DEF a
<1>2. CASE id \notin active
  BY <1>2 DEF CancleInLoop, OwnInv
<1> QED
  BY <1>1, <1>2

(* getExpired() splits the waiting timers. *)
LEMMA ExpiredFacts ==
  ASSUME TypeOK, OwnInv
  PROVE  LET B == {a \in Waiting : mem[a].when <= now}
         IN  {e[2] : e \in Expired} = B /\ Expired = Entries(B, mem)
<1> DEFINE B == {a \in Waiting : mem[a].when <= now}
<1>1. \A e \in timers : \E a \in Waiting : e = EntryOf(a, mem)
  BY EntryIn DEF OwnInv, Entries
<1>2. \A a \in Waiting : EntryOf(a, mem) \in timers
  BY DEF OwnInv, Entries
<1>3. \A x : x \in Expired <=> x \in timers /\ x[1] <= now
  BY DEF Expired
<1>4. \A x : x \in Entries(B, mem) <=> \E a \in B : x = EntryOf(a, mem)
  BY DEF Entries
<1>5. \A x : x \in Expired <=> x \in Entries(B, mem)
  BY <1>1, <1>2, <1>3, <1>4, EntryFacts
<1>6. Expired = Entries(B, mem)
  BY <1>5
<1> QED
  BY <1>6, EntryAddrs

(* Every step keeps the ownership of timers. *)
LEMMA OwnInductive == TypeOK /\ OwnInv /\ [Next]_vars => OwnInv'
<1> SUFFICES ASSUME TypeOK, OwnInv, [Next]_vars PROVE OwnInv'
  OBVIOUS
<1> DEFINE S == Waiting
           Q == Queued
<1>1. /\ S \subseteq Addrs /\ Q \subseteq Addrs /\ batch \subseteq Addrs
      /\ functors \in Seq(Functor) /\ mem \in [Addrs -> TimerObjects]
      /\ ToBeAdded = AddsOf(functors)
      /\ S \subseteq alloc /\ Q \subseteq alloc /\ batch \subseteq alloc
  BY OwnTypes
<1>2. /\ timers = Entries(S, mem) /\ active = IdSet(S, mem)
      /\ alloc = S \union batch \union Q
      /\ S \intersect batch = {}
      /\ (S \union batch) \intersect Q = {}
      /\ AddsOf(functors) = IdSet(Q, mem) /\ Distinct(functors)
      /\ calling = (pc # "idle") /\ (pc = "idle" => batch = {} /\ torun = {})
  BY <1>1 DEF OwnInv
<1> HIDE DEF S, Q
<1>3. ASSUME UNCHANGED <<alloc, mem, timers, active, calling, pc, batch, torun, functors>>
      PROVE  OwnInv'
  BY <1>2, <1>3, OwnAfter
<1>4. CASE UNCHANGED vars
  BY <1>3, <1>4 DEF vars, setVars, batchVars
<1>5. CASE Tick \/ TimerFdFires
  BY <1>3, <1>5 DEF Tick, TimerFdFires, setVars, batchVars
<1>6. ASSUME NEW u \in OffAdders, OffLoopAddReturns(u) PROVE OwnInv'
  BY <1>3, <1>6 DEF OffLoopAddReturns, setVars, batchVars
<1>7. CASE TimerStarts
  <2>1. /\ UNCHANGED <<alloc, mem, timers, active, calling, batch, functors>>
        /\ pc = "batch" /\ pc' = "callback"
    BY <1>7 DEF TimerStarts, setVars
  <2> QED
    BY <1>2, <2>1, OwnAfter
<1>8. CASE TimerReturns
  <2>1. /\ UNCHANGED <<alloc, mem, timers, active, calling, batch, functors>>
        /\ pc = "callback" /\ pc' = "batch"
    BY <1>8 DEF TimerReturns, setVars
  <2> QED
    BY <1>2, <2>1, OwnAfter
<1>9. ASSUME NEW a \in Addrs, NEW d \in 0..MaxDelay, NEW i \in Intervals, NewTimer(a, d, i)
      PROVE  /\ a \notin S \union batch \union Q /\ alloc' = alloc \union {a}
             /\ \A b \in S \union Q : mem'[b] = mem[b]
             /\ IdSet(Q, mem') = IdSet(Q, mem) /\ IdSet(S, mem') = IdSet(S, mem)
             /\ Entries(S, mem') = Entries(S, mem)
             /\ IdOf(a, mem') \in Ids
  <2>1. /\ a \notin alloc /\ alloc' = alloc \union {a} /\ IdOf(a, mem') \in Ids
        /\ \A b \in Addrs : b # a => mem'[b] = mem[b]
    BY <1>9, NewTimerFacts
  <2>2. a \notin S \union batch \union Q
    BY <1>2, <2>1
  <2>3. \A b \in S \union Q : mem'[b] = mem[b]
    BY <1>1, <2>1, <2>2
  <2>4. IdSet(Q, mem') = IdSet(Q, mem)
    BY <2>3, EntrySame
  <2>5. IdSet(S, mem') = IdSet(S, mem) /\ Entries(S, mem') = Entries(S, mem)
    BY <2>3, EntrySame
  <2> QED
    BY <2>1, <2>2, <2>3, <2>4, <2>5
<1>10. CASE InLoopAdd
  <2>1. PICK a \in Addrs, d \in 0..MaxDelay, i \in Intervals :
          NewTimer(a, d, i) /\ AddTimerInLoop(a, mem')
    BY <1>10 DEF InLoopAdd
  <2>2. /\ a \notin S \union batch \union Q /\ alloc' = alloc \union {a}
        /\ IdSet(Q, mem') = IdSet(Q, mem) /\ IdSet(S, mem') = IdSet(S, mem)
        /\ Entries(S, mem') = Entries(S, mem)
    BY <1>9, <2>1
  <2>3. timers' = timers \union Entries({a}, mem') /\ active' = active \union IdSet({a}, mem')
    BY <2>1, EntryOne DEF AddTimerInLoop
  <2>4. /\ timers' = Entries(S \union {a}, mem') /\ active' = IdSet(S \union {a}, mem')
    <3>1. /\ Entries(S \union {a}, mem') = Entries(S, mem') \union Entries({a}, mem')
          /\ IdSet(S \union {a}, mem') = IdSet(S, mem') \union IdSet({a}, mem')
      BY DEF Entries, IdSet, EntryOf, IdOf
    <3> QED
      BY <1>2, <2>2, <2>3, <3>1
  <2>5. UNCHANGED <<calling, pc, batch, torun, functors>>
    BY <1>10 DEF InLoopAdd, batchVars
  <2>6. /\ alloc' = (S \union {a}) \union batch' \union Q
        /\ (S \union {a}) \intersect batch' = {} /\ (S \union {a} \union batch') \intersect Q = {}
    BY <1>2, <2>2, <2>5
  <2>7. AddsOf(functors') = IdSet(Q, mem')
    BY <1>2, <2>2, <2>5
  <2> QED
    BY <1>2, <2>4, <2>5, <2>6, <2>7, OwnAfter
<1>11. ASSUME NEW u \in OffAdders, OffLoopAdd(u) PROVE OwnInv'
  <2>1. PICK a \in Addrs, d \in 0..MaxDelay, i \in Intervals :
          /\ NewTimer(a, d, i)
          /\ functors' = Append(functors, [op |-> "add", id |-> IdOf(a, mem'), of |-> mem'[a].seq])
    BY <1>11 DEF OffLoopAdd
  <2>2. /\ a \notin S \union batch \union Q /\ alloc' = alloc \union {a}
        /\ IdSet(Q, mem') = IdSet(Q, mem) /\ IdSet(S, mem') = IdSet(S, mem)
        /\ Entries(S, mem') = Entries(S, mem) /\ IdOf(a, mem') \in Ids
        /\ mem' \in [Addrs -> TimerObjects]
    BY <1>9, <2>1, NewTimerFacts
  <2> DEFINE f == [op |-> "add", id |-> IdOf(a, mem'), of |-> mem'[a].seq]
  <2>3. f \in Functor /\ f.op = "add" /\ f.id = IdOf(a, mem') /\ f.id[1] = a
    BY <2>2, MemFacts, EntryFacts DEF Functor
  <2>4. functors' = Append(functors, f)
    BY <2>1
  <2> HIDE DEF f
  <2>5. \A id \in AddsOf(functors) : id[1] # a
    <3>1. {id[1] : id \in AddsOf(functors)} = Q
      BY <1>2, IdAddrs
    <3> QED
      BY <2>2, <3>1
  <2>6. AddsOf(functors') = AddsOf(functors) \union {IdOf(a, mem')} /\ Distinct(functors')
    <3>1. \A id \in AddsOf(functors) : id[1] # f.id[1]
      BY <2>3, <2>5
    <3> QED
      BY <1>1, <1>2, <2>3, <2>4, <3>1, AddsAppend
  <2>7. AddsOf(functors') = IdSet(Q \union {a}, mem')
    <3>1. IdSet(Q \union {a}, mem') = IdSet(Q, mem') \union IdSet({a}, mem')
      BY DEF Entries, IdSet, EntryOf, IdOf
    <3> QED
      BY <1>2, <2>2, <2>6, <3>1, EntryOne
  <2>8. UNCHANGED <<timers, active, calling, pc, batch, torun>>
    BY <1>11 DEF OffLoopAdd, batchVars
  <2>9. /\ alloc' = S \union batch' \union (Q \union {a})
        /\ (S \union batch') \intersect (Q \union {a}) = {}
    BY <1>2, <2>2, <2>8
  <2> QED
    BY <1>2, <2>2, <2>6, <2>7, <2>8, <2>9, OwnAfter
<1>12. CASE OffLoopCancel
  <2>1. PICK h \in ids : functors' = Append(functors, [op |-> "cancel", id |-> h.id, of |-> h.of])
    BY <1>12 DEF OffLoopCancel
  <2> DEFINE f == [op |-> "cancel", id |-> h.id, of |-> h.of]
  <2>2. f \in Functor /\ f.op # "add" /\ functors' = Append(functors, f)
    BY <2>1 DEF Functor, TypeOK, Handles
  <2> HIDE DEF f
  <2>3. AddsOf(functors') = AddsOf(functors) /\ Distinct(functors')
    BY <1>1, <1>2, <2>2, AddsAppend
  <2>4. UNCHANGED <<alloc, mem, timers, active, calling, pc, batch, torun>>
    BY <1>12 DEF OffLoopCancel, setVars, batchVars
  <2> QED
    BY <1>2, <2>3, <2>4, OwnAfter
<1>13. CASE InLoopCancel
  <2>1. PICK h \in ids : CancleInLoop(h)
    BY <1>13 DEF InLoopCancel
  <2>2. PICK T \in SUBSET S : /\ timers' = Entries(T, mem) /\ active' = IdSet(T, mem)
                              /\ alloc' = T \union batch \union Q
    BY <2>1, CancleFacts DEF TypeOK, Handles, S, Q
  <2>3. UNCHANGED <<mem, calling, pc, batch, torun, functors>>
    BY <1>13 DEF InLoopCancel
  <2>4. T \intersect batch = {} /\ (T \union batch) \intersect Q = {}
    BY <1>2, <2>2
  <2> QED
    BY <1>2, <2>2, <2>3, <2>4, OwnAfter
<1>14. CASE RunCancel
  <2>1. /\ functors # <<>> /\ functors' = Tail(functors) /\ CancleInLoop(Head(functors))
        /\ Head(functors).op = "cancel"
        /\ UNCHANGED <<mem, calling, pc, batch, torun>>
    BY <1>14 DEF RunCancel, Run
  <2>2. Head(functors) \in Functor /\ AddsOf(functors') = AddsOf(functors) /\ Distinct(functors')
    BY <1>1, <1>2, <2>1, AddsTail
  <2>3. Head(functors).id \in Ids
    BY <2>2, FunctorFacts
  <2>4. PICK T \in SUBSET S : /\ timers' = Entries(T, mem) /\ active' = IdSet(T, mem)
                              /\ alloc' = T \union batch \union Q
    BY <2>1, <2>3, CancleFacts DEF S, Q
  <2>5. T \intersect batch = {} /\ (T \union batch) \intersect Q = {}
    BY <1>2, <2>4
  <2> QED
    BY <1>2, <2>1, <2>2, <2>4, <2>5, OwnAfter
<1>15. CASE RunAdd
  <2> DEFINE h == Head(functors)
             a == h.id[1]
  <2>1. /\ functors # <<>> /\ functors' = Tail(functors) /\ AddTimerInLoop(a, mem) /\ h.op = "add"
        /\ UNCHANGED <<alloc, mem, calling, pc, batch, torun>>
    BY <1>15 DEF RunAdd, Run, batchVars
  <2>2. /\ h.id \in AddsOf(functors) /\ Distinct(functors')
        /\ AddsOf(functors') = {x \in AddsOf(functors) : x[1] # a}
    BY <1>1, <1>2, <2>1, AddsTail
  <2> HIDE DEF h, a
  <2>3. a \in Q
    <3>1. {id[1] : id \in AddsOf(functors)} = Q
      BY <1>2, IdAddrs
    <3> QED
      BY <2>2, <3>1 DEF a
  <2>4. AddsOf(functors') = IdSet(Q \ {a}, mem)
    <3>1. \A x \in IdSet(Q, mem) : \E b \in Q : x = IdOf(b, mem) /\ x[1] = b
      BY EntryFacts DEF IdSet
    <3>2. \A x \in IdSet(Q, mem) : x[1] # a => x \in IdSet(Q \ {a}, mem)
      BY <3>1 DEF IdSet
    <3>3. \A x \in IdSet(Q \ {a}, mem) : x \in IdSet(Q, mem) /\ x[1] # a
      BY EntryFacts DEF IdSet
    <3> QED
      BY <1>2, <2>2, <3>2, <3>3
  <2>5. timers' = timers \union Entries({a}, mem) /\ active' = active \union IdSet({a}, mem)
    BY <2>1, EntryOne DEF AddTimerInLoop
  <2>6. /\ timers' = Entries(S \union {a}, mem) /\ active' = IdSet(S \union {a}, mem)
    <3>1. /\ Entries(S \union {a}, mem) = Entries(S, mem) \union Entries({a}, mem)
          /\ IdSet(S \union {a}, mem) = IdSet(S, mem) \union IdSet({a}, mem)
      BY DEF Entries, IdSet, EntryOf, IdOf
    <3> QED
      BY <1>2, <2>5, <3>1
  <2>7. /\ alloc' = (S \union {a}) \union batch' \union (Q \ {a})
        /\ (S \union {a}) \intersect batch' = {}
        /\ (S \union {a} \union batch') \intersect (Q \ {a}) = {}
    BY <1>2, <2>1, <2>3
  <2> QED
    BY <1>2, <2>1, <2>2, <2>4, <2>6, <2>7, OwnAfter
<1>16. CASE HandleReadStarts
  <2> DEFINE B == {a \in S : mem[a].when <= now}
  <2>1. {e[2] : e \in Expired} = B /\ Expired = Entries(B, mem)
    BY ExpiredFacts DEF S
  <2>2. B \subseteq S
    OBVIOUS
  <2> HIDE DEF B
  <2>3. /\ batch' = B /\ timers' = timers \ Entries(B, mem) /\ active' = active \ IdSet(B, mem)
        /\ calling' = TRUE /\ pc' = "batch" /\ pc = "idle" /\ UNCHANGED <<alloc, mem, functors>>
    BY <1>16, <2>1 DEF HandleReadStarts, IdSet
  <2>4. timers' = Entries(S \ B, mem) /\ active' = IdSet(S \ B, mem)
    <3>1. /\ Entries(S \ B, mem) = Entries(S, mem) \ Entries(B, mem)
          /\ IdSet(S \ B, mem) = IdSet(S, mem) \ IdSet(B, mem)
      BY DEF Entries, IdSet, EntryOf, IdOf
    <3> QED
      BY <1>2, <2>3, <3>1
  <2>5. /\ alloc' = (S \ B) \union batch' \union Q
        /\ (S \ B) \intersect batch' = {} /\ ((S \ B) \union batch') \intersect Q = {}
    BY <1>2, <2>2, <2>3
  <2> QED
    BY <1>2, <2>3, <2>4, <2>5, OwnAfter
<1>17. CASE HandleReadEnds
  <2> DEFINE R == Again
  <2>1. /\ R \subseteq batch /\ \A a \in Addrs \ batch : mem'[a] = mem[a]
        /\ \A a \in Addrs : mem'[a].seq = mem[a].seq
    BY <1>17, ResetFacts
  <2>2. /\ timers' = timers \union Entries(R, mem') /\ active' = active \union IdSet(R, mem)
        /\ alloc' = alloc \ (batch \ R) /\ batch' = {} /\ pc' = "idle" /\ calling' = FALSE
        /\ torun' = {} /\ functors' = functors
    BY <1>17 DEF HandleReadEnds, Entries, IdSet
  <2> HIDE DEF R
  <2>3. \A b \in S \union Q : mem'[b] = mem[b]
    BY <1>1, <1>2, <2>1
  <2>4. IdSet(R, mem) = IdSet(R, mem')
    BY <1>1, <2>1 DEF IdSet, IdOf
  <2>5. timers' = Entries(S \union R, mem') /\ active' = IdSet(S \union R, mem')
    <3>1. /\ Entries(S \union R, mem') = Entries(S, mem') \union Entries(R, mem')
          /\ IdSet(S \union R, mem') = IdSet(S, mem') \union IdSet(R, mem')
      BY DEF Entries, IdSet, EntryOf, IdOf
    <3>2. IdSet(S, mem') = IdSet(S, mem) /\ Entries(S, mem') = Entries(S, mem)
      BY <2>3, EntrySame
    <3> QED
      BY <1>2, <2>2, <2>4, <3>1, <3>2
  <2>6. AddsOf(functors') = IdSet(Q, mem')
    <3>1. IdSet(Q, mem') = IdSet(Q, mem)
      BY <2>3, EntrySame
    <3> QED
      BY <1>2, <2>2, <3>1
  <2>7. /\ alloc' = (S \union R) \union batch' \union Q
        /\ (S \union R) \intersect batch' = {} /\ (S \union R \union batch') \intersect Q = {}
    BY <1>2, <2>1, <2>2
  <2> QED
    BY <1>2, <2>2, <2>5, <2>6, <2>7, OwnAfter
<1> QED
  BY <1>4, <1>5, <1>6, <1>7, <1>8, <1>10, <1>11, <1>12, <1>13, <1>14, <1>15, <1>16, <1>17
     DEF Next, LoopStep

-----------------------------------------------------------------------------
(* Sequences. *)

(* cancleInLoop() remembers only the timer its TimerId was returned for. *)
LEMMA CancleSeq ==
  ASSUME NEW h, CancleInLoop(h)
  PROVE  cancelled' \subseteq cancelled \union {h.of}
BY DEF CancleInLoop, Cancelled

(* The first functor is a cancel: some user has its TimerId. *)
LEMMA CancelFunctor ==
  ASSUME TypeOK, NameInv, RunCancel
  PROVE  /\ Head(functors).id \in Ids /\ Head(functors).of \in 0..MaxSeq
         /\ \E g \in ids : g.id = Head(functors).id /\ g.of = Head(functors).of
<1>1. functors \in Seq(Functor) /\ functors # <<>> /\ Head(functors).op = "cancel"
  BY DEF TypeOK, Functor, RunCancel, Run
<1>2. Head(functors) \in Functor /\ Head(functors) = functors[1] /\ 1 \in 1..Len(functors)
  BY <1>1
<1>3. [id |-> Head(functors).id, of |-> Head(functors).of] \in ids
  BY <1>1, <1>2 DEF NameInv
<1> QED
  BY <1>2, <1>3, FunctorFacts

(* No step makes a TimerId of a timer to come. *)
LEMMA SeqInductive == TypeOK /\ NameInv /\ SeqInv /\ [Next]_vars => SeqInv'
<1> SUFFICES ASSUME TypeOK, NameInv, SeqInv, [Next]_vars PROVE SeqInv'
  OBVIOUS
<1>1. /\ mem \in [Addrs -> TimerObjects] /\ lastSeq \in Nat
      /\ \A h \in ids : h.id \in Ids /\ h.of \in Nat
      /\ \A s \in cancelled : s \in Nat
      /\ \A u \in OffAdders : adding[u][2] \in Nat
      /\ \A a \in Addrs : mem[a].seq \in Nat
  <2>1. \A h \in Handles : h.id \in Ids /\ h.of \in Nat
    BY TimerBoundsAssumption DEF Handles
  <2>2. \A a \in Addrs : mem[a].seq \in Nat
    BY TimerBoundsAssumption, MemFacts DEF TypeOK
  <2>3. \A u \in OffAdders : adding[u][2] \in Nat
    BY TimerBoundsAssumption DEF TypeOK
  <2>4. /\ mem \in [Addrs -> TimerObjects] /\ lastSeq \in Nat /\ ids \subseteq Handles
        /\ \A s \in cancelled : s \in Nat
    BY TimerBoundsAssumption DEF TypeOK
  <2> QED
    BY <2>1, <2>2, <2>3, <2>4
<1>2. /\ \A a \in Addrs : mem[a].seq <= lastSeq
      /\ \A h \in ids : h.of <= lastSeq
      /\ \A s \in cancelled : s <= lastSeq
      /\ \A u \in OffAdders : adding[u][2] <= lastSeq
  BY DEF SeqInv
<1>3. ASSUME lastSeq' = lastSeq, UNCHANGED <<ids, adding>>,
             \A a \in Addrs : mem'[a].seq = mem[a].seq,
             \A s \in cancelled' : s \in cancelled \/ s <= lastSeq
      PROVE  SeqInv'
  BY <1>2, <1>3 DEF SeqInv
<1>4. CASE UNCHANGED vars
  BY <1>3, <1>4 DEF vars, setVars, historyVars
<1>5. CASE Tick \/ TimerFdFires \/ TimerStarts \/ TimerReturns \/ HandleReadStarts
  BY <1>3, <1>5 DEF Tick, TimerFdFires, TimerStarts, TimerReturns, HandleReadStarts, setVars,
                    historyVars
<1>6. CASE OffLoopCancel \/ RunAdd
  BY <1>3, <1>6 DEF OffLoopCancel, RunAdd, setVars, historyVars
<1>7. ASSUME NEW a \in Addrs, NEW d \in 0..MaxDelay, NEW i \in Intervals, NewTimer(a, d, i)
      PROVE  /\ lastSeq' = lastSeq + 1 /\ mem'[a].seq = lastSeq' /\ IdOf(a, mem')[2] = lastSeq'
             /\ lastSeq' \in Nat
             /\ \A b \in Addrs : mem'[b].seq <= lastSeq'
             /\ \A h \in ids : h.of <= lastSeq'
             /\ \A s \in cancelled : s <= lastSeq'
             /\ \A u \in OffAdders : adding[u][2] <= lastSeq'
  <2>1. /\ lastSeq' = lastSeq + 1 /\ mem'[a].seq = lastSeq + 1
        /\ \A b \in Addrs : b # a => mem'[b] = mem[b]
        /\ IdOf(a, mem')[2] = lastSeq + 1
    BY <1>7, NewTimerFacts
  <2>2. \A b \in Addrs : mem'[b].seq <= lastSeq'
    BY <1>1, <1>2, <2>1
  <2>3. /\ \A h \in ids : h.of <= lastSeq'
        /\ \A s \in cancelled : s <= lastSeq'
        /\ \A u \in OffAdders : adding[u][2] <= lastSeq'
    BY <1>1, <1>2, <2>1
  <2> QED
    BY <1>1, <2>1, <2>2, <2>3
<1>8. CASE InLoopAdd
  <2>1. PICK a \in Addrs, d \in 0..MaxDelay, i \in Intervals :
          NewTimer(a, d, i) /\ ids' = ids \union {[id |-> IdOf(a, mem'), of |-> mem'[a].seq]}
    BY <1>8 DEF InLoopAdd
  <2>2. UNCHANGED <<adding, cancelled>>
    BY <1>8 DEF InLoopAdd
  <2>3. \A h \in ids' : h.of <= lastSeq'
    BY <1>7, <2>1
  <2> QED
    BY <1>7, <2>1, <2>2, <2>3 DEF SeqInv
<1>9. ASSUME NEW u \in OffAdders, OffLoopAdd(u) PROVE SeqInv'
  <2>1. PICK a \in Addrs, d \in 0..MaxDelay, i \in Intervals :
          NewTimer(a, d, i) /\ adding' = [adding EXCEPT ![u] = IdOf(a, mem')]
    BY <1>9 DEF OffLoopAdd
  <2>2. UNCHANGED <<ids, cancelled>>
    BY <1>9 DEF OffLoopAdd, historyVars
  <2>3. \A v \in OffAdders : adding'[v] = adding[v] \/ adding'[v] = IdOf(a, mem')
    BY <2>1 DEF TypeOK
  <2>4. \A v \in OffAdders : adding'[v][2] <= lastSeq'
    BY <1>7, <2>1, <2>3
  <2> QED
    BY <1>7, <2>1, <2>2, <2>4 DEF SeqInv
<1>10. ASSUME NEW u \in OffAdders, OffLoopAddReturns(u) PROVE SeqInv'
  <2>1. /\ ids' = ids \union {[id |-> IdOf(adding[u][1], mem), of |-> adding[u][2]]}
        /\ adding' = [adding EXCEPT ![u] = <<NoAddr, 0>>]
        /\ UNCHANGED <<mem, lastSeq, cancelled>>
    BY <1>10 DEF OffLoopAddReturns, setVars
  <2>2. \A h \in ids' : h.of <= lastSeq'
    BY <1>2, <2>1
  <2>3. \A v \in OffAdders : adding'[v] = adding[v] \/ adding'[v] = <<NoAddr, 0>>
    BY <2>1 DEF TypeOK
  <2>4. \A v \in OffAdders : adding'[v][2] <= lastSeq'
    BY <1>1, <1>2, <2>1, <2>3
  <2> QED
    BY <1>2, <2>1, <2>2, <2>4 DEF SeqInv
<1>11. CASE InLoopCancel
  <2>1. PICK h \in ids : CancleInLoop(h)
    BY <1>11 DEF InLoopCancel
  <2>2. cancelled' \subseteq cancelled \union {h.of}
    BY <2>1, CancleSeq
  <2> QED
    BY <1>2, <1>3, <1>11, <2>1, <2>2 DEF InLoopCancel
<1>12. CASE RunCancel
  <2>1. CancleInLoop(Head(functors)) /\ UNCHANGED <<mem, lastSeq, ids, adding>>
    BY <1>12 DEF RunCancel
  <2>2. Head(functors).of <= lastSeq
    BY <1>2, <1>12, CancelFunctor
  <2>3. cancelled' \subseteq cancelled \union {Head(functors).of}
    BY <2>1, CancleSeq
  <2> QED
    BY <1>3, <2>1, <2>2, <2>3
<1>13. CASE HandleReadEnds
  <2>1. \A a \in Addrs : mem'[a].seq = mem[a].seq
    BY <1>13, ResetFacts
  <2> QED
    BY <1>3, <1>13, <2>1 DEF HandleReadEnds
<1> QED
  BY <1>4, <1>5, <1>6, <1>8, <1>9, <1>10, <1>11, <1>12, <1>13 DEF Next, LoopStep

(* A new timer has a sequence that nothing in the system has had. *)
LEMMA NewSeq ==
  ASSUME TypeOK, SeqInv, NEW a \in Addrs, NEW d \in 0..MaxDelay, NEW i \in Intervals, NewTimer(a, d, i)
  PROVE  /\ a \notin alloc /\ alloc' = alloc \union {a}
         /\ IdOf(a, mem')[1] = a /\ IdOf(a, mem')[2] = mem'[a].seq
         /\ \A b \in alloc : mem'[b] = mem[b] /\ mem[b].seq # mem'[a].seq
         /\ \A h \in ids : h.of # mem'[a].seq
         /\ mem'[a].seq \notin cancelled
         /\ \A u \in OffAdders : adding[u][2] # mem'[a].seq
<1>1. /\ a \notin alloc /\ alloc' = alloc \union {a} /\ mem'[a].seq = lastSeq + 1
      /\ \A b \in Addrs : b # a => mem'[b] = mem[b]
  BY NewTimerFacts
<1>2. lastSeq \in Nat /\ alloc \subseteq Addrs /\ ~(lastSeq + 1 <= lastSeq)
  BY TimerBoundsAssumption DEF TypeOK
<1>3. \A b \in alloc : mem'[b] = mem[b] /\ mem[b].seq # lastSeq + 1
  BY <1>1, <1>2 DEF SeqInv
<1> QED
  BY <1>1, <1>2, <1>3, EntryFacts DEF SeqInv

(* A TimerId names its timer for as long as that exists. *)
LEMMA NameInductive == TypeOK /\ SeqInv /\ NameInv /\ [Next]_vars => NameInv'
<1> SUFFICES ASSUME TypeOK, SeqInv, NameInv, [Next]_vars PROVE NameInv'
  OBVIOUS
<1>1. /\ functors \in Seq(Functor) /\ alloc \subseteq Addrs
      /\ \A h \in ids : \A a \in alloc : mem[a].seq = h.of => h.id = IdOf(a, mem)
      /\ \A u \in OffAdders : adding[u][1] # NoAddr =>
           \A a \in alloc : mem[a].seq = adding[u][2] => a = adding[u][1]
      /\ \A u \in OffAdders : adding[u] \in (Addrs \union {NoAddr}) \X (0..MaxSeq)
      /\ \A h \in ids : h = [id |-> h.id, of |-> h.of]
  BY DEF TypeOK, Functor, NameInv, Names, Handles
<1> DEFINE Asked(f) == f.op = "cancel" => [id |-> f.id, of |-> f.of] \in ids
<1>2. \A i \in 1..Len(functors) : Asked(functors[i])
  BY DEF NameInv
<1> HIDE DEF Asked
<1>3. ASSUME NEW f \in Functor, functors' = Append(functors, f), Asked(f)
      PROVE  \A i \in 1..Len(functors') : Asked(functors'[i])
  <2>1. \A j \in 1..Len(functors') : functors'[j] = f \/ (j \in 1..Len(functors) /\ functors'[j] = functors[j])
    BY <1>1, <1>3
  <2> QED
    BY <1>2, <1>3, <2>1
<1>4. ASSUME functors # <<>>, functors' = Tail(functors)
      PROVE  \A i \in 1..Len(functors') : Asked(functors'[i])
  <2>1. \A i \in 1..Len(functors') : functors'[i] = functors[i + 1] /\ i + 1 \in 1..Len(functors)
    BY <1>1, <1>4
  <2> QED
    BY <1>2, <2>1
<1>5. ASSUME alloc' \subseteq alloc, \A a \in Addrs : mem'[a].seq = mem[a].seq,
             UNCHANGED <<ids, adding>>, \A i \in 1..Len(functors') : Asked(functors'[i])
      PROVE  NameInv'
  <2>1. \A a \in alloc' : a \in alloc /\ mem'[a].seq = mem[a].seq /\ IdOf(a, mem') = IdOf(a, mem)
    BY <1>1, <1>5 DEF IdOf
  <2>2. \A h \in ids' : \A a \in alloc' : mem'[a].seq = h.of => h.id = IdOf(a, mem')
    BY <1>1, <1>5, <2>1
  <2>3. \A u \in OffAdders : adding'[u][1] # NoAddr =>
           \A a \in alloc' : mem'[a].seq = adding'[u][2] => a = adding'[u][1]
    BY <1>1, <1>5, <2>1
  <2> QED
    BY <1>5, <2>2, <2>3 DEF NameInv, Names, Asked
<1>6. CASE UNCHANGED vars
  BY <1>2, <1>5, <1>6 DEF vars, setVars, historyVars
<1>7. CASE Tick \/ TimerFdFires \/ TimerStarts \/ TimerReturns \/ HandleReadStarts
  BY <1>2, <1>5, <1>7 DEF Tick, TimerFdFires, TimerStarts, TimerReturns, HandleReadStarts, setVars,
                          historyVars
<1>8. CASE OffLoopCancel
  <2>1. PICK h \in ids : functors' = Append(functors, [op |-> "cancel", id |-> h.id, of |-> h.of])
    BY <1>8 DEF OffLoopCancel
  <2> DEFINE f == [op |-> "cancel", id |-> h.id, of |-> h.of]
  <2>2. f \in Functor /\ [id |-> f.id, of |-> f.of] = h /\ functors' = Append(functors, f)
    BY <1>1, <2>1 DEF Functor, TypeOK, Handles
  <2> HIDE DEF f
  <2>3. \A i \in 1..Len(functors') : Asked(functors'[i])
    BY <1>3, <2>2 DEF Asked
  <2> QED
    BY <1>5, <1>8, <2>3 DEF OffLoopCancel, setVars, historyVars
<1>9. CASE RunAdd
  <2>1. \A i \in 1..Len(functors') : Asked(functors'[i])
    BY <1>4, <1>9 DEF RunAdd, Run
  <2> QED
    BY <1>5, <1>9, <2>1 DEF RunAdd, historyVars
<1>10. CASE RunCancel
  <2>1. \A i \in 1..Len(functors') : Asked(functors'[i])
    BY <1>4, <1>10 DEF RunCancel, Run
  <2>2. alloc' \subseteq alloc
    BY <1>10 DEF RunCancel, CancleInLoop
  <2> QED
    BY <1>5, <1>10, <2>1, <2>2 DEF RunCancel
<1>11. CASE InLoopCancel
  <2>1. alloc' \subseteq alloc /\ functors' = functors
    BY <1>11 DEF InLoopCancel, CancleInLoop
  <2> QED
    BY <1>2, <1>5, <1>11, <2>1 DEF InLoopCancel
<1>12. CASE HandleReadEnds
  <2>1. \A a \in Addrs : mem'[a].seq = mem[a].seq
    BY <1>12, ResetFacts
  <2> QED
    BY <1>2, <1>5, <1>12, <2>1 DEF HandleReadEnds
<1>13. CASE InLoopAdd
  <2>1. PICK a \in Addrs, d \in 0..MaxDelay, e \in Intervals :
          NewTimer(a, d, e) /\ ids' = ids \union {[id |-> IdOf(a, mem'), of |-> mem'[a].seq]}
    BY <1>13 DEF InLoopAdd
  <2>2. UNCHANGED <<functors, adding>>
    BY <1>13 DEF InLoopAdd
  <2>3. /\ alloc' = alloc \union {a}
        /\ \A b \in alloc : mem'[b] = mem[b] /\ mem[b].seq # mem'[a].seq
        /\ \A h \in ids : h.of # mem'[a].seq
        /\ \A u \in OffAdders : adding[u][2] # mem'[a].seq
    BY <2>1, NewSeq
  <2>4. \A h \in ids' : \A b \in alloc' : mem'[b].seq = h.of => h.id = IdOf(b, mem')
    <3> SUFFICES ASSUME NEW h \in ids', NEW b \in alloc', mem'[b].seq = h.of PROVE h.id = IdOf(b, mem')
      OBVIOUS
    <3>1. CASE h \in ids
      BY <1>1, <2>3, <3>1 DEF IdOf
    <3>2. CASE h = [id |-> IdOf(a, mem'), of |-> mem'[a].seq]
      BY <2>3, <3>2
    <3> QED
      BY <2>1, <3>1, <3>2
  <2>5. \A u \in OffAdders : adding'[u][1] # NoAddr =>
           \A b \in alloc' : mem'[b].seq = adding'[u][2] => b = adding'[u][1]
    BY <1>1, <2>2, <2>3
  <2>6. \A i \in 1..Len(functors') : functors'[i].op = "cancel" =>
           [id |-> functors'[i].id, of |-> functors'[i].of] \in ids'
    BY <1>2, <2>1, <2>2 DEF Asked
  <2> QED
    BY <2>4, <2>5, <2>6 DEF NameInv, Names
<1>14. ASSUME NEW u \in OffAdders, OffLoopAdd(u) PROVE NameInv'
  <2>1. PICK a \in Addrs, d \in 0..MaxDelay, e \in Intervals :
          /\ NewTimer(a, d, e)
          /\ functors' = Append(functors, [op |-> "add", id |-> IdOf(a, mem'), of |-> mem'[a].seq])
          /\ adding' = [adding EXCEPT ![u] = IdOf(a, mem')]
    BY <1>14 DEF OffLoopAdd
  <2>2. ids' = ids
    BY <1>14 DEF OffLoopAdd, historyVars
  <2>3. /\ alloc' = alloc \union {a} /\ IdOf(a, mem')[1] = a /\ IdOf(a, mem')[2] = mem'[a].seq
        /\ \A b \in alloc : mem'[b] = mem[b] /\ mem[b].seq # mem'[a].seq
        /\ \A h \in ids : h.of # mem'[a].seq
        /\ \A v \in OffAdders : adding[v][2] # mem'[a].seq
    BY <2>1, NewSeq
  <2>4. \A h \in ids' : \A b \in alloc' : mem'[b].seq = h.of => h.id = IdOf(b, mem')
    BY <1>1, <2>2, <2>3 DEF IdOf
  <2>5. ASSUME NEW v \in OffAdders, adding'[v][1] # NoAddr, NEW b \in alloc', mem'[b].seq = adding'[v][2]
        PROVE  b = adding'[v][1]
    <3>1. CASE v = u
      <4>1. adding'[v] = IdOf(a, mem')
        BY <2>1, <3>1 DEF TypeOK
      <4> QED
        BY <2>3, <2>5, <4>1
    <3>2. CASE v # u
      <4>1. adding'[v] = adding[v]
        BY <2>1, <3>2 DEF TypeOK
      <4> QED
        BY <1>1, <2>3, <2>5, <4>1
    <3> QED
      BY <3>1, <3>2
  <2>6. \A j \in 1..Len(functors') : functors'[j].op = "cancel" =>
           [id |-> functors'[j].id, of |-> functors'[j].of] \in ids'
    <3> DEFINE f == [op |-> "add", id |-> IdOf(a, mem'), of |-> mem'[a].seq]
    <3>1. IdOf(a, mem') \in Ids /\ mem'[a].seq \in 0..MaxSeq
      BY <2>1, NewTimerFacts, MemFacts
    <3>2. f \in Functor /\ f.op = "add" /\ functors' = Append(functors, f)
      BY <2>1, <3>1 DEF Functor
    <3> HIDE DEF f
    <3>3. \A j \in 1..Len(functors') : Asked(functors'[j])
      BY <1>3, <3>2 DEF Asked
    <3> QED
      BY <2>2, <3>3 DEF Asked
  <2> QED
    BY <2>4, <2>5, <2>6 DEF NameInv, Names
<1>15. ASSUME NEW u \in OffAdders, OffLoopAddReturns(u) PROVE NameInv'
  <2>1. /\ ids' = ids \union {[id |-> IdOf(adding[u][1], mem), of |-> adding[u][2]]}
        /\ adding' = [adding EXCEPT ![u] = <<NoAddr, 0>>] /\ adding[u][1] # NoAddr
        /\ UNCHANGED <<mem, alloc, functors>>
    BY <1>15 DEF OffLoopAddReturns, setVars
  <2>2. \A h \in ids' : \A b \in alloc' : mem'[b].seq = h.of => h.id = IdOf(b, mem')
    BY <1>1, <2>1
  <2>3. \A v \in OffAdders : adding'[v] = adding[v] \/ adding'[v] = <<NoAddr, 0>>
    BY <2>1 DEF TypeOK
  <2>4. \A v \in OffAdders : adding'[v][1] # NoAddr =>
           \A b \in alloc' : mem'[b].seq = adding'[v][2] => b = adding'[v][1]
    BY <1>1, <2>1, <2>3
  <2>5. \A i \in 1..Len(functors') : functors'[i].op = "cancel" =>
           [id |-> functors'[i].id, of |-> functors'[i].of] \in ids'
    BY <1>2, <2>1 DEF Asked
  <2> QED
    BY <2>2, <2>4, <2>5 DEF NameInv, Names
<1> QED
  BY <1>6, <1>7, <1>8, <1>9, <1>10, <1>11, <1>12, <1>13, <1>14, <1>15 DEF Next, LoopStep

-----------------------------------------------------------------------------
(* The timerfd. *)

(* A timer that waits later than another, or is gone, changes nothing. *)
LEMMA EarliestFewer ==
  ASSUME NEW T \in SUBSET (Nat \X Addrs), NEW U \in SUBSET T, U # {}
  PROVE  Earliest(T) <= Earliest(U)
<1>1. U \in SUBSET (Nat \X Addrs) /\ T # {}
  OBVIOUS
<1>2. PICK e \in U : e[1] = Earliest(U)
  BY <1>1, EarliestType
<1> QED
  BY <1>1, <1>2, EarliestType

(* addTimerInLoop() and reset() set the timerfd for the earliest timer, and a
   cancel only makes it fire too early. *)
LEMMA FdInductive == TypeOK /\ TypeOK' /\ TimerFdArmed /\ [Next]_vars => TimerFdArmed'
<1> SUFFICES ASSUME TypeOK, TypeOK', TimerFdArmed, [Next]_vars PROVE TimerFdArmed'
  OBVIOUS
<1> DEFINE All == SUBSET (Nat \X Addrs)
<1>0. timers \in All /\ timers' \in All /\ fdAt \in Nat \union {Never} /\ fdAt' \in Nat \union {Never}
      /\ Never \notin Nat /\ fdReady \in BOOLEAN /\ fdReady' \in BOOLEAN
  BY DEF TypeOK, Never
<1>1. \A n \in Nat : n # Never
  BY <1>0
<1>2. ASSUME UNCHANGED <<pc, timers, fdAt, fdReady>> PROVE TimerFdArmed'
  BY <1>2 DEF TimerFdArmed
<1>3. ASSUME pc' = pc, UNCHANGED <<fdAt, fdReady>>, timers' \subseteq timers PROVE TimerFdArmed'
  <2> SUFFICES ASSUME pc' = "idle", timers' # {}, ~fdReady'
               PROVE  fdAt' # Never /\ fdAt' <= Earliest(timers')
    BY DEF TimerFdArmed
  <2>1. timers # {} /\ fdAt # Never /\ fdAt <= Earliest(timers)
    BY <1>3 DEF TimerFdArmed
  <2>2. Earliest(timers) <= Earliest(timers') /\ Earliest(timers) \in Nat /\ Earliest(timers') \in Nat
    BY <1>0, <1>3, <2>1, EarliestFewer, EarliestType
  <2> QED
    BY <1>0, <1>3, <2>1, <2>2
<1>4. ASSUME NEW a \in Addrs, NEW m \in [Addrs -> TimerObjects], AddTimerInLoop(a, m), pc' = pc
      PROVE  TimerFdArmed'
  <2> DEFINE w == m[a].when
             e == EntryOf(a, m)
  <2>1. w \in Nat /\ e \in Nat \X Addrs /\ e[1] = w /\ timers' = timers \union {e}
    BY <1>4, MemFacts, EntryFacts DEF AddTimerInLoop
  <2>2. /\ (timers = {} \/ w < Earliest(timers)) => fdAt' = w /\ ~fdReady'
        /\ ~(timers = {} \/ w < Earliest(timers)) => UNCHANGED <<fdAt, fdReady>>
    BY <1>4 DEF AddTimerInLoop, ResetTimerFd, fdVars
  <2> HIDE DEF w, e
  <2>3. PICK f \in timers' : f[1] = Earliest(timers')
    BY <1>0, <2>1, EarliestType
  <2>4. Earliest(timers') \in Nat
    BY <1>0, <2>1, EarliestType
  <2>5. CASE timers = {}
    BY <1>1, <2>1, <2>2, <2>3, <2>4, <2>5 DEF TimerFdArmed
  <2>6. CASE timers # {}
    <3>1. Earliest(timers) \in Nat /\ \A g \in timers : Earliest(timers) <= g[1]
      BY <1>0, <2>6, EarliestType
    <3>2. f = e \/ f \in timers
      BY <2>1, <2>3
    <3>3. CASE w < Earliest(timers)
      <4>1. w <= Earliest(timers')
        BY <2>1, <2>3, <2>4, <3>1, <3>2, <3>3
      <4> QED
        BY <1>1, <2>1, <2>2, <3>3, <4>1 DEF TimerFdArmed
    <3>4. CASE ~(w < Earliest(timers))
      <4>1. Earliest(timers) <= Earliest(timers')
        BY <2>1, <2>3, <2>4, <3>1, <3>2, <3>4
      <4>2. UNCHANGED <<fdAt, fdReady>>
        BY <2>2, <2>6, <3>4
      <4>3. pc = "idle" => fdReady \/ (fdAt \in Nat /\ fdAt <= Earliest(timers))
        BY <1>0, <2>6 DEF TimerFdArmed
      <4>4. pc' = "idle" => fdReady' \/ (fdAt' \in Nat /\ fdAt' <= Earliest(timers'))
        BY <1>4, <2>4, <3>1, <4>1, <4>2, <4>3
      <4> QED
        BY <1>1, <4>4 DEF TimerFdArmed
    <3> QED
      BY <3>3, <3>4
  <2> QED
    BY <2>5, <2>6
<1>5. ASSUME NEW h, CancleInLoop(h) PROVE timers' \subseteq timers
  BY <1>5 DEF CancleInLoop
<1>6. CASE UNCHANGED vars
  BY <1>2, <1>6 DEF vars, setVars, batchVars, fdVars
<1>7. CASE Tick \/ OffLoopCancel
  BY <1>2, <1>7 DEF Tick, OffLoopCancel, setVars, batchVars, fdVars
<1>8. ASSUME NEW u \in OffAdders, OffLoopAdd(u) \/ OffLoopAddReturns(u) PROVE TimerFdArmed'
  BY <1>2, <1>8 DEF OffLoopAdd, OffLoopAddReturns, setVars, batchVars, fdVars
<1>9. CASE TimerStarts \/ TimerReturns \/ HandleReadStarts
  BY <1>9 DEF TimerFdArmed, TimerStarts, TimerReturns, HandleReadStarts
<1>10. CASE TimerFdFires
  BY <1>10 DEF TimerFdArmed, TimerFdFires
<1>11. CASE InLoopAdd
  <2>1. PICK a \in Addrs, d \in 0..MaxDelay, i \in Intervals : AddTimerInLoop(a, mem')
    BY <1>11 DEF InLoopAdd
  <2>2. mem' \in [Addrs -> TimerObjects] /\ pc' = pc
    BY <1>11 DEF TypeOK, InLoopAdd, batchVars
  <2> QED
    BY <1>4, <2>1, <2>2
<1>12. CASE RunAdd
  <2>1. /\ AddTimerInLoop(Head(functors).id[1], mem) /\ pc' = pc /\ functors # <<>>
        /\ mem \in [Addrs -> TimerObjects] /\ functors \in Seq(Functor)
    BY <1>12 DEF RunAdd, Run, batchVars, TypeOK, Functor
  <2>2. Head(functors).id[1] \in Addrs
    BY <2>1, FunctorFacts
  <2> QED
    BY <1>4, <2>1, <2>2
<1>13. CASE InLoopCancel
  <2>1. timers' \subseteq timers
    BY <1>5, <1>13 DEF InLoopCancel
  <2> QED
    BY <1>3, <1>13, <2>1 DEF InLoopCancel, fdVars
<1>14. CASE RunCancel
  <2>1. timers' \subseteq timers
    BY <1>5, <1>14 DEF RunCancel
  <2> QED
    BY <1>3, <1>14, <2>1 DEF RunCancel, fdVars
<1>15. CASE HandleReadEnds
  <2> SUFFICES ASSUME timers' # {} PROVE fdAt' # Never /\ fdAt' <= Earliest(timers')
    BY DEF TimerFdArmed
  <2>1. fdAt' = Earliest(timers')
    BY <1>15 DEF HandleReadEnds, ResetTimerFd
  <2>2. Earliest(timers') \in Nat
    BY <1>0, EarliestType
  <2> QED
    BY <1>1, <2>1, <2>2
<1> QED
  BY <1>6, <1>7, <1>8, <1>9, <1>10, <1>11, <1>12, <1>13, <1>14, <1>15 DEF Next, LoopStep

-----------------------------------------------------------------------------
(* Cancelled timers. *)

(* A timer is where its address is. *)
LEMMA WhereIds ==
  ASSUME TypeOK, OwnInv
  PROVE  /\ \A a \in Waiting : IdOf(a, mem) \in active /\ IdOf(a, mem) \notin ToBeAdded
         /\ \A a \in batch : IdOf(a, mem) \notin active /\ IdOf(a, mem) \notin ToBeAdded
         /\ \A a \in Queued : IdOf(a, mem) \in ToBeAdded
         /\ \A id \in active : id[1] \in Waiting /\ id = IdOf(id[1], mem)
         /\ \A id \in ToBeAdded : id[1] \in Queued /\ id = IdOf(id[1], mem)
<1>1. \A id \in active : id[1] \in Waiting /\ id = IdOf(id[1], mem)
  <2>1. \A id \in IdSet(Waiting, mem) : \E a \in Waiting : id = IdOf(a, mem) /\ id[1] = a
    BY EntryFacts DEF IdSet
  <2> QED
    BY <2>1 DEF OwnInv
<1>2. \A id \in ToBeAdded : id[1] \in Queued /\ id = IdOf(id[1], mem)
  <2>1. \A id \in IdSet(Queued, mem) : \E a \in Queued : id = IdOf(a, mem) /\ id[1] = a
    BY EntryFacts DEF IdSet
  <2> QED
    BY <2>1 DEF OwnInv
<1>3. \A a \in Waiting : IdOf(a, mem) \in active
  BY DEF OwnInv, IdSet
<1>4. \A a \in Queued : IdOf(a, mem) \in ToBeAdded
  BY DEF OwnInv, IdSet
<1>5. \A a : IdOf(a, mem)[1] = a
  BY EntryFacts
<1>6. \A a \in Waiting : IdOf(a, mem) \notin ToBeAdded
  BY <1>2, <1>5 DEF OwnInv
<1>7. \A a \in batch : IdOf(a, mem) \notin active /\ IdOf(a, mem) \notin ToBeAdded
  BY <1>1, <1>2, <1>5 DEF OwnInv
<1> QED
  BY <1>1, <1>2, <1>3, <1>4, <1>6, <1>7

(* cancleInLoop() of a TimerId that some user has: the timer it was returned for, if
   there is one, is deleted, or remembered, or not yet there. *)
LEMMA CancleKeeps ==
  ASSUME TypeOK, OwnInv, NameInv, CancelInv, NEW h, CancleInLoop(h),
         NEW g \in ids, g.id = h.id, g.of = h.of, UNCHANGED <<mem, batch, ids>>
  PROVE  CancelInv'
<1> DEFINE id == h.id
           s == h.of
           Late == {x[2] : x \in ToBeAdded}
<1>1. /\ \A a \in alloc \ batch : mem[a].seq \notin cancelled
      /\ \A a \in batch : mem[a].seq \in cancelled => IdOf(a, mem) \in canceling
      /\ \A a \in batch : IdOf(a, mem) \in canceling => mem[a].seq \in cancelled \union Mistaken
      /\ dropped \subseteq cancelled \union Mistaken
      /\ Mistaken' = Mistaken
  BY DEF CancelInv, CancelHitsItsTimer, Mistaken
<1>2. cancelled' = cancelled \union ({s} \ Late)
  BY DEF CancleInLoop, Cancelled
<1>3. \A a \in alloc : mem[a].seq = s => id = IdOf(a, mem)
  BY DEF NameInv, Names
<1>4. /\ \A a \in Waiting : IdOf(a, mem) \in active /\ IdOf(a, mem) \notin ToBeAdded
      /\ \A a \in batch : IdOf(a, mem) \notin active /\ IdOf(a, mem) \notin ToBeAdded
      /\ \A a \in Queued : IdOf(a, mem) \in ToBeAdded
      /\ \A x \in active : x[1] \in Waiting /\ x = IdOf(x[1], mem)
      /\ \A x \in ToBeAdded : x[1] \in Queued /\ x = IdOf(x[1], mem)
  BY WhereIds
<1>5. /\ alloc = Waiting \union batch \union Queued /\ Waiting \intersect batch = {}
      /\ batch # {} => calling
  BY DEF OwnInv
<1>6. \A a : IdOf(a, mem)[1] = a /\ IdOf(a, mem)[2] = mem[a].seq
  BY EntryFacts
<1>7. \A a \in Queued : mem[a].seq \in Late
  BY <1>4, <1>6
<1>8. ASSUME NEW a \in Waiting \union batch, IdOf(a, mem) = id
      PROVE  mem[a].seq \in cancelled' \union Mistaken
  <2>1. CASE id[2] = s
    <3>1. s \notin Late
      <4> SUFFICES ASSUME NEW x \in ToBeAdded, x[2] = s PROVE FALSE
        OBVIOUS
      <4>1. x[1] \in Queued /\ x = IdOf(x[1], mem) /\ mem[x[1]].seq = s
        BY <1>4, <1>6
      <4>2. id = x
        BY <1>3, <1>5, <4>1
      <4> QED
        BY <1>4, <1>8, <4>2
    <3> QED
      BY <1>2, <1>6, <1>8, <2>1, <3>1
  <2>2. CASE id[2] # s
    BY <1>6, <1>8, <2>2 DEF Mistaken
  <2> QED
    BY <2>1, <2>2
<1>9. CASE id \in active
  <2>1. /\ alloc' = alloc \ {id[1]} /\ dropped' = dropped \union {mem[id[1]].seq}
        /\ canceling' = canceling
    BY <1>9 DEF CancleInLoop
  <2>2. \A a \in alloc' \ batch : mem[a].seq \notin cancelled'
    <3> SUFFICES ASSUME NEW a \in alloc' \ batch, mem[a].seq \in cancelled' PROVE FALSE
      OBVIOUS
    <3>1. mem[a].seq = s /\ s \notin Late
      BY <1>1, <1>2, <2>1
    <3> QED
      BY <1>3, <1>6, <2>1, <3>1
  <2>3. \A a \in batch : mem[a].seq \in cancelled' => IdOf(a, mem) \in canceling'
    BY <1>1, <1>2, <1>3, <1>4, <1>5, <1>9, <2>1
  <2>4. \A a \in batch : IdOf(a, mem) \in canceling' => mem[a].seq \in cancelled' \union Mistaken
    BY <1>1, <1>2, <2>1
  <2>5. dropped' \subseteq cancelled' \union Mistaken
    BY <1>1, <1>2, <1>4, <1>8, <1>9, <2>1
  <2> QED
    BY <1>1, <2>2, <2>3, <2>4, <2>5 DEF CancelInv, CancelHitsItsTimer
<1>10. CASE id \notin active
  <2>1. /\ alloc' = alloc /\ dropped' = dropped
        /\ canceling' = IF calling THEN canceling \union {id} ELSE canceling
    BY <1>10 DEF CancleInLoop
  <2>2. \A a \in alloc' \ batch : mem[a].seq \notin cancelled'
    <3> SUFFICES ASSUME NEW a \in alloc \ batch, mem[a].seq \in cancelled' PROVE FALSE
      BY <2>1
    <3>1. mem[a].seq = s /\ s \notin Late
      BY <1>1, <1>2
    <3>2. a \in Waiting
      BY <1>5, <1>7, <3>1
    <3> QED
      BY <1>3, <1>4, <1>5, <1>10, <3>1, <3>2
  <2>3. \A a \in batch : mem[a].seq \in cancelled' => IdOf(a, mem) \in canceling'
    <3> SUFFICES ASSUME NEW a \in batch, mem[a].seq \in cancelled' PROVE IdOf(a, mem) \in canceling'
      OBVIOUS
    <3>1. calling
      BY <1>5
    <3>2. CASE mem[a].seq \in cancelled
      BY <1>1, <2>1, <3>2
    <3>3. CASE mem[a].seq = s
      BY <1>3, <1>5, <2>1, <3>1, <3>3
    <3> QED
      BY <1>2, <3>2, <3>3
  <2>4. \A a \in batch : IdOf(a, mem) \in canceling' => mem[a].seq \in cancelled' \union Mistaken
    BY <1>1, <1>2, <1>8, <2>1
  <2>5. dropped' \subseteq cancelled' \union Mistaken
    BY <1>1, <1>2, <2>1
  <2> QED
    BY <1>1, <2>2, <2>3, <2>4, <2>5 DEF CancelInv, CancelHitsItsTimer
<1> QED
  BY <1>9, <1>10

(* Every step keeps cancelled timers from waiting, and the timers nobody cancelled. *)
LEMMA CancelInductive ==
  TypeOK /\ OwnInv /\ SeqInv /\ NameInv /\ CancelInv /\ [Next]_vars => CancelInv'
<1> SUFFICES ASSUME TypeOK, OwnInv, SeqInv, NameInv, CancelInv, [Next]_vars PROVE CancelInv'
  OBVIOUS
<1>1. /\ \A a \in alloc \ batch : mem[a].seq \notin cancelled
      /\ \A a \in batch : mem[a].seq \in cancelled => IdOf(a, mem) \in canceling
      /\ \A a \in batch : IdOf(a, mem) \in canceling => mem[a].seq \in cancelled \union Mistaken
      /\ dropped \subseteq cancelled \union Mistaken
  BY DEF CancelInv, CancelHitsItsTimer
<1>2. ids \subseteq ids' => Mistaken \subseteq Mistaken'
  BY DEF Mistaken
<1>3. batch \subseteq alloc /\ batch \subseteq Addrs /\ alloc \subseteq Addrs
  BY OwnTypes DEF TypeOK
<1>4. ASSUME UNCHANGED <<mem, alloc, batch, canceling, cancelled, dropped>>, ids \subseteq ids'
      PROVE  CancelInv'
  BY <1>1, <1>2, <1>4 DEF CancelInv, CancelHitsItsTimer
<1>5. CASE UNCHANGED vars
  BY <1>4, <1>5 DEF vars, setVars, batchVars, historyVars
<1>6. CASE Tick \/ TimerFdFires \/ TimerStarts \/ TimerReturns
  BY <1>4, <1>6 DEF Tick, TimerFdFires, TimerStarts, TimerReturns, setVars, batchVars, historyVars
<1>7. CASE OffLoopCancel \/ RunAdd
  BY <1>4, <1>7 DEF OffLoopCancel, RunAdd, setVars, batchVars, historyVars
<1>8. ASSUME NEW u \in OffAdders, OffLoopAddReturns(u) PROVE CancelInv'
  BY <1>4, <1>8 DEF OffLoopAddReturns, setVars, batchVars
<1>9. ASSUME NEW a \in Addrs, NEW d \in 0..MaxDelay, NEW i \in Intervals, NewTimer(a, d, i),
             UNCHANGED <<batch, canceling, cancelled, dropped>>, ids \subseteq ids'
      PROVE  CancelInv'
  <2>1. /\ alloc' = alloc \union {a} /\ mem'[a].seq \notin cancelled
        /\ \A b \in alloc : mem'[b] = mem[b]
    BY <1>9, NewSeq
  <2>2. \A b \in batch : mem'[b].seq = mem[b].seq /\ IdOf(b, mem') = IdOf(b, mem)
    BY <1>3, <2>1 DEF IdOf
  <2>3. \A b \in alloc' \ batch' : mem'[b].seq \notin cancelled'
    BY <1>1, <1>9, <2>1
  <2> QED
    BY <1>1, <1>2, <1>9, <2>2, <2>3 DEF CancelInv, CancelHitsItsTimer
<1>10. CASE InLoopAdd
  <2>1. UNCHANGED <<batch, canceling, cancelled, dropped>> /\ ids \subseteq ids'
    BY <1>10 DEF InLoopAdd, batchVars
  <2> QED
    BY <1>9, <1>10, <2>1 DEF InLoopAdd
<1>11. ASSUME NEW u \in OffAdders, OffLoopAdd(u) PROVE CancelInv'
  <2>1. UNCHANGED <<batch, canceling, cancelled, dropped>> /\ ids \subseteq ids'
    BY <1>11 DEF OffLoopAdd, batchVars, historyVars
  <2> QED
    BY <1>9, <1>11, <2>1 DEF OffLoopAdd
<1>12. CASE InLoopCancel
  <2>1. PICK h \in ids : CancleInLoop(h)
    BY <1>12 DEF InLoopCancel
  <2> QED
    BY <1>12, <2>1, CancleKeeps DEF InLoopCancel
<1>13. CASE RunCancel
  <2>1. CancleInLoop(Head(functors)) /\ UNCHANGED <<mem, batch, ids>>
    BY <1>13 DEF RunCancel
  <2>2. PICK g \in ids : g.id = Head(functors).id /\ g.of = Head(functors).of
    BY <1>13, CancelFunctor
  <2> QED
    BY <2>1, <2>2, CancleKeeps
<1>14. CASE HandleReadStarts
  <2>1. /\ canceling' = {} /\ batch' = {e[2] : e \in Expired} /\ pc = "idle"
        /\ UNCHANGED <<mem, alloc, cancelled, dropped, ids>>
    BY <1>14 DEF HandleReadStarts, historyVars
  <2>2. batch' \subseteq alloc /\ batch = {}
    BY <2>1, ExpiredFacts, OwnTypes DEF OwnInv
  <2> QED
    BY <1>1, <1>2, <2>1, <2>2 DEF CancelInv, CancelHitsItsTimer
<1>15. CASE HandleReadEnds
  <2>1. /\ alloc' = alloc \ (batch \ Again) /\ batch' = {}
        /\ dropped' = dropped \union {mem[a].seq : a \in {b \in batch \ Again : mem[b].every > 0}}
        /\ UNCHANGED <<cancelled, ids>>
    BY <1>15 DEF HandleReadEnds
  <2>2. \A a \in Addrs : mem'[a].seq = mem[a].seq
    BY <1>15, ResetFacts
  <2>3. \A a \in Again : mem[a].seq \notin cancelled
    BY <1>1 DEF Again
  <2>4. \A a \in alloc' \ batch' : mem'[a].seq \notin cancelled'
    BY <1>1, <1>3, <2>1, <2>2, <2>3
  <2>5. \A a \in batch \ Again : mem[a].every > 0 => mem[a].seq \in cancelled \union Mistaken
    BY <1>1 DEF Again
  <2>6. dropped' \subseteq cancelled' \union Mistaken'
    BY <1>1, <1>2, <2>1, <2>5
  <2> QED
    BY <2>1, <2>4, <2>6 DEF CancelInv, CancelHitsItsTimer
<1> QED
  BY <1>5, <1>6, <1>7, <1>8, <1>10, <1>11, <1>12, <1>13, <1>14, <1>15 DEF Next, LoopStep

-----------------------------------------------------------------------------
(* The invariant holds in every reachable state. *)
THEOREM TimerInvariant == Spec => []TimerInv
<1>1. Init => TimerInv
  <2> SUFFICES ASSUME Init PROVE TimerInv
    OBVIOUS
  <2>1. TypeOK
    <3>1. [seq |-> 0, when |-> 0, every |-> 0] \in TimerObjects
      BY TimerBoundsAssumption DEF TimerObjects
    <3>2. mem \in [Addrs -> TimerObjects] /\ 0 \in 0..MaxTime /\ 0 \in 0..MaxSeq
      BY <3>1, TimerBoundsAssumption DEF Init
    <3>3. functors \in Seq([op : {"add", "cancel"}, id : Ids, of : 0..MaxSeq])
      BY DEF Init
    <3>4. adding \in [OffAdders -> (Addrs \union {NoAddr}) \X (0..MaxSeq)]
      BY <3>2 DEF Init
    <3>5. /\ alloc \subseteq Addrs /\ timers \subseteq Nat \X Addrs
          /\ active \subseteq Ids /\ canceling \subseteq Ids
          /\ batch \subseteq Addrs /\ torun \subseteq batch
          /\ ids \subseteq Handles /\ cancelled \subseteq 0..MaxSeq /\ dropped \subseteq 0..MaxSeq
      BY DEF Init
    <3>6. /\ now \in 0..MaxTime /\ lastSeq \in 0..MaxSeq
          /\ calling \in BOOLEAN /\ pc \in {"idle", "batch", "callback"}
          /\ hnow \in Nat /\ fdAt \in Nat \union {Never} /\ fdReady \in BOOLEAN
      BY <3>2 DEF Init
    <3> QED
      BY <3>2, <3>3, <3>4, <3>5, <3>6 DEF TypeOK
  <2>2. Waiting = {} /\ ToBeAdded = {} /\ Queued = {}
    BY DEF Init, Waiting, ToBeAdded, Queued
  <2>3. OwnInv
    <3>1. Entries(Waiting, mem) = {} /\ IdSet(Waiting, mem) = {} /\ IdSet(Queued, mem) = {}
      BY <2>2 DEF Entries, IdSet
    <3>2. Distinct(functors)
      BY DEF Init, Distinct
    <3>3. calling = (pc # "idle")
      BY DEF Init
    <3> QED
      BY <2>2, <3>1, <3>2, <3>3 DEF Init, OwnInv
  <2>4. CancelInv /\ TimerFdArmed
    BY DEF Init, CancelInv, CancelHitsItsTimer, TimerFdArmed
  <2>5. \A u \in OffAdders : adding[u][1] = NoAddr /\ adding[u][2] = 0
    BY DEF Init
  <2>6. SeqInv /\ NameInv
    BY <2>5 DEF Init, SeqInv, NameInv
  <2> QED
    BY <2>1, <2>3, <2>4, <2>6 DEF TimerInv
<1>2. TimerInv /\ [Next]_vars => TimerInv'
  BY TypeInductive, OwnInductive, SeqInductive, NameInductive, CancelInductive,
     FdInductive DEF TimerInv
<1> QED
  BY <1>1, <1>2, PTL DEF Spec

(* insert(), cancleInLoop(), getExpired() and reset() change _timers and
   _activeTimers alike: their size assertions hold, for any mix of calls. *)
THEOREM SetsAlwaysAgree == Spec => []SetsAgree
<1>1. TimerInv => SetsAgree
  BY SetsAgreeMeans DEF TimerInv, OwnInv
<1> QED
  BY <1>1, TimerInvariant, PTL

(* Every timer has one owner until it is deleted: no leak, no double delete, no
   use of a deleted timer, however addresses are reused. *)
THEOREM TimersAlwaysOwnedOnce == Spec => []TimersOwnedOnce
<1>1. TimerInv => TimersOwnedOnce
  BY DEF TimerInv, OwnInv, TimersOwnedOnce, Waiting, Queued
<1> QED
  BY <1>1, TimerInvariant, PTL

(* The loop sleeps with its timerfd set no later than its earliest timer. *)
THEOREM TimerFdAlwaysArmed == Spec => []TimerFdArmed
<1>1. TimerInv => TimerFdArmed
  BY DEF TimerInv
<1> QED
  BY <1>1, TimerInvariant, PTL

(* A timer its user cancelled never waits again, from whatever callback or batch it
   was cancelled, unless cancleInLoop() met the id before the timer was added. *)
THEOREM CancelledNeverReturns == Spec => []CancelledStaysCancelled
<1>1. TimerInv => CancelledStaysCancelled
  <2> SUFFICES ASSUME TimerInv, pc = "idle", NEW id \in active PROVE id[2] \notin cancelled
    BY DEF CancelledStaysCancelled
  <2>1. id[1] \in Waiting /\ id = IdOf(id[1], mem)
    BY WhereIds DEF TimerInv
  <2>2. id[1] \in alloc \ batch
    BY <2>1 DEF TimerInv, OwnInv
  <2>3. id[2] = mem[id[1]].seq
    BY <2>1, EntryFacts
  <2> QED
    BY <2>2, <2>3 DEF TimerInv, CancelInv
<1> QED
  BY <1>1, TimerInvariant, PTL

(* Only timers that their own users cancelled are dropped, even when their addresses
   are those of older TimerIds; addTimer() of another thread, which reads the sequence
   after it has posted the timer, is the one way to a TimerId that hits another. *)
THEOREM CancelIsExact == Spec => []CancelHitsItsTimer
<1>1. TimerInv => CancelHitsItsTimer
  BY DEF TimerInv, CancelInv
<1> QED
  BY <1>1, TimerInvariant, PTL
=============================================================================

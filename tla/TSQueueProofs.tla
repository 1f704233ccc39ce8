--------------------------- MODULE TSQueueProofs ---------------------------
(* Proofs about TSQueue (ts_queue.hpp) for every capacity and every set   *)
(* of calling threads.                                                    *)
EXTENDS TSQueue, Sequences, TLAPS

(* A ring index advanced by one and reduced modulo the capacity, as in    *)
(* tail = (tail + 1) % buffer_size and head = (head + 1) % buffer_size.   *)
LEMMA ModWrap ==
    ASSUME NEW x \in 0 .. Cap
    PROVE  x % Cap = IF x = Cap THEN 0 ELSE x
BY CapAssumption, SMT

(* An index between one and two capacities reduces to itself less one    *)
(* capacity.                                                              *)
LEMMA ModOnce ==
    ASSUME NEW x \in Cap .. 2 * Cap - 1
    PROVE  x % Cap = x - Cap
BY CapAssumption, SMT
-----------------------------------------------------------------------------
(* RingInv stated without the modulus: tail + 1 and head + size differ by *)
(* -Cap, 0 or Cap.  Together with the ranges of TypeOK this is inductive, *)
(* and it implies RingInv.                                                *)
RingLinear == (tail + 1) - (head + size) \in {-Cap, 0, Cap}

IInv ==
    /\ TypeOK
    /\ size \in 0 .. Cap
    /\ RingLinear

(* pthread_cond_signal and the return keep every thread's pc a pc.        *)
LEMMA SignalType ==
    ASSUME TypeOK, NEW S \in SUBSET Threads, NEW self \in Threads,
           SignalAndReturn(S, self)
    PROVE  pc' \in [Threads -> {"call", "wait", "relock"}]
<1>1. CASE S = {}
  BY <1>1 DEF SignalAndReturn, TypeOK
<1>2. CASE S # {}
  <2>1. PICK w \in S : pc' = [pc EXCEPT ![self] = "call", ![w] = "relock"]
    BY <1>2 DEF SignalAndReturn
  <2>2. QED
    BY <2>1 DEF TypeOK
<1>3. QED
  BY <1>1, <1>2

LEMMA InitIInv == Init => IInv
BY CapAssumption DEF Init, IInv, TypeOK, RingLinear, Slots

LEMMA NextIInv == IInv /\ [Next]_vars => IInv'
<1> SUFFICES ASSUME IInv, [Next]_vars PROVE IInv'
  OBVIOUS
<1> USE CapAssumption
<1>1. ASSUME NEW p \in Putters, EnqueueWait(p) PROVE IInv'
  BY <1>1 DEF EnqueueWait, IInv, TypeOK, RingLinear, Threads
<1>2. ASSUME NEW p \in Putters, EnqueueDo(p) PROVE IInv'
  <2>1. pc' \in [Threads -> {"call", "wait", "relock"}]
    BY <1>2, SignalType DEF EnqueueDo, IInv, WaitingDeq, Threads
  <2>2. tail' = IF tail + 1 = Cap THEN 0 ELSE tail + 1
    BY <1>2, ModWrap DEF EnqueueDo, IInv, TypeOK
  <2>3. buffer' \in [Slots -> Putters \cup {Uninit}]
    BY <1>2, ModWrap DEF EnqueueDo, IInv, TypeOK, Slots
  <2>4. size' = size + 1 /\ size + 1 \in 0 .. Cap
    BY <1>2 DEF EnqueueDo, IInv, TypeOK
  <2>5. RingLinear'
    BY <1>2, <2>2, <2>4 DEF EnqueueDo, IInv, TypeOK, RingLinear, Slots
  <2>6. QED
    BY <1>2, <2>1, <2>2, <2>3, <2>4, <2>5 DEF EnqueueDo, IInv, TypeOK, Slots
<1>3. ASSUME NEW t \in Takers, DequeueWait(t) PROVE IInv'
  BY <1>3 DEF DequeueWait, IInv, TypeOK, RingLinear, Threads
<1>4. ASSUME NEW t \in Takers, DequeueDo(t) PROVE IInv'
  <2>1. pc' \in [Threads -> {"call", "wait", "relock"}]
    BY <1>4, SignalType DEF DequeueDo, IInv, WaitingEnq, Threads
  <2>2. head' = IF head + 1 = Cap THEN 0 ELSE head + 1
    <3>1. head + 1 \in 0 .. Cap
      BY DEF IInv, TypeOK, Slots
    <3>2. (head + 1) % Cap = IF head + 1 = Cap THEN 0 ELSE head + 1
      BY <3>1, ModWrap
    <3>3. QED
      BY <3>2, <1>4 DEF DequeueDo
  <2>3. got' \in [Takers -> Putters \cup {NoItem, Uninit}]
    BY <1>4 DEF DequeueDo, IInv, TypeOK, Slots
  <2>4. size' = size - 1 /\ size - 1 \in 0 .. Cap
    BY <1>4 DEF DequeueDo, IInv, TypeOK
  <2>5. RingLinear'
    BY <1>4, <2>2, <2>4 DEF DequeueDo, IInv, TypeOK, RingLinear, Slots
  <2>6. QED
    BY <1>4, <2>1, <2>2, <2>3, <2>4, <2>5 DEF DequeueDo, IInv, TypeOK, Slots
<1>5. ASSUME NEW t \in Threads, SpuriousWakeup(t) PROVE IInv'
  BY <1>5 DEF SpuriousWakeup, IInv, TypeOK, RingLinear
<1>6. CASE UNCHANGED vars
  BY <1>6 DEF vars, IInv, TypeOK, RingLinear
<1>7. QED
  BY <1>1, <1>2, <1>3, <1>4, <1>5, <1>6 DEF Next

(* RingLinear and the ranges give the modular form that RingInv states.   *)
LEMMA IInvRing == IInv => RingInv
<1> SUFFICES ASSUME IInv PROVE RingInv
  OBVIOUS
<1> USE CapAssumption
<1>1. tail + 1 \in 0 .. Cap /\ head + size \in 0 .. 2 * Cap - 1
  BY DEF IInv, TypeOK, Slots
<1>2. CASE (tail + 1) - (head + size) = 0
  BY <1>1, <1>2 DEF IInv, TypeOK, RingInv
<1>3. CASE (tail + 1) - (head + size) = Cap
  <2>1. tail + 1 = Cap /\ head + size = 0
    BY <1>1, <1>3
  <2>2. QED
    BY <2>1, ModWrap DEF IInv, RingInv
<1>4. CASE (tail + 1) - (head + size) = -Cap
  <2>1. head + size \in Cap .. 2 * Cap - 1 /\ tail + 1 \in 0 .. Cap - 1
    BY <1>1, <1>4
  <2>2. (head + size) % Cap = tail + 1 /\ (tail + 1) % Cap = tail + 1
    BY <2>1, <1>4, ModOnce, ModWrap
  <2>3. QED
    BY <2>2 DEF IInv, RingInv
<1>5. QED
  BY <1>2, <1>3, <1>4 DEF IInv, RingLinear

(* The ring buffer of ts_queue.hpp stays consistent in every execution,   *)
(* for every capacity and any number of enqueuing and dequeuing threads:  *)
(* occupancy within [0, buffer_size] and tail just behind head + size.    *)
THEOREM RingInvariant == Spec => []RingInv
<1>1. Init => IInv
  BY InitIInv
<1>2. IInv /\ [Next]_vars => IInv'
  BY NextIInv
<1>3. IInv => RingInv
  BY IInvRing
<1>4. QED
  BY <1>1, <1>2, <1>3, PTL DEF Spec

(* Every variable of TSQueue keeps its type in every execution.           *)
THEOREM TypeCorrect == Spec => []TypeOK
<1>1. IInv => TypeOK
  BY DEF IInv
<1>2. QED
  BY <1>1, InitIInv, NextIInv, PTL DEF Spec
-----------------------------------------------------------------------------
(* A thread that signals and returns is no longer waiting, and neither is *)
(* the waiter it picks; every other thread keeps its pc.                  *)
LEMMA SignalEffect ==
    ASSUME TypeOK, NEW S \in SUBSET Threads, NEW self \in Threads,
           SignalAndReturn(S, self)
    PROVE  /\ pc'[self] # "wait"
           /\ \A x \in Threads \ ({self} \cup S) : pc'[x] = pc[x]
           /\ S # {} => \E w \in S : pc'[w] # "wait"
<1>1. CASE S = {}
  BY <1>1 DEF SignalAndReturn, TypeOK
<1>2. CASE S # {}
  <2>1. PICK w \in S : pc' = [pc EXCEPT ![self] = "call", ![w] = "relock"]
    BY <1>2 DEF SignalAndReturn
  <2>2. QED
    BY <2>1 DEF TypeOK
<1>3. QED
  BY <1>1, <1>2

(* NoLostWakeup together with IInv is inductive.                          *)
LEMMA NextNoLostWakeup ==
    IInv /\ NoLostWakeup /\ [Next]_vars => NoLostWakeup'
<1> SUFFICES ASSUME IInv, NoLostWakeup, [Next]_vars PROVE NoLostWakeup'
  OBVIOUS
<1> USE ThreadsAssumption DEF Threads
<1>1. ASSUME NEW p \in Putters, EnqueueWait(p) PROVE NoLostWakeup'
  BY <1>1 DEF EnqueueWait, NoLostWakeup, IInv, TypeOK
<1>2. ASSUME NEW p \in Putters, EnqueueDo(p) PROVE NoLostWakeup'
  <2>1. /\ pc'[p] # "wait"
        /\ \A x \in Threads \ ({p} \cup WaitingDeq) : pc'[x] = pc[x]
        /\ WaitingDeq # {} => \E w \in WaitingDeq : pc'[w] # "wait"
    BY <1>2, SignalEffect DEF EnqueueDo, WaitingDeq, IInv
  <2>2. \E x \in Putters : pc'[x] # "wait"
    BY <2>1
  <2>3. \E x \in Takers : pc'[x] # "wait"
    <3>1. CASE WaitingDeq # {}
      BY <2>1, <3>1 DEF WaitingDeq
    <3>2. CASE WaitingDeq = {}
      <4>1. PICK t \in Takers : TRUE
        OBVIOUS
      <4>2. pc'[t] = pc[t] /\ pc[t] # "wait"
        BY <2>1, <3>2 DEF WaitingDeq
      <4>3. QED
        BY <4>2
    <3>3. QED
      BY <3>1, <3>2
  <2>4. QED
    BY <2>2, <2>3 DEF NoLostWakeup
<1>3. ASSUME NEW t \in Takers, DequeueWait(t) PROVE NoLostWakeup'
  BY <1>3 DEF DequeueWait, NoLostWakeup, IInv, TypeOK
<1>4. ASSUME NEW t \in Takers, DequeueDo(t) PROVE NoLostWakeup'
  <2>1. /\ pc'[t] # "wait"
        /\ \A x \in Threads \ ({t} \cup WaitingEnq) : pc'[x] = pc[x]
        /\ WaitingEnq # {} => \E w \in WaitingEnq : pc'[w] # "wait"
    BY <1>4, SignalEffect DEF DequeueDo, WaitingEnq, IInv
  <2>2. \E x \in Takers : pc'[x] # "wait"
    BY <2>1
  <2>3. \E x \in Putters : pc'[x] # "wait"
    <3>1. CASE WaitingEnq # {}
      BY <2>1, <3>1 DEF WaitingEnq
    <3>2. CASE WaitingEnq = {}
      <4>1. PICK p \in Putters : TRUE
        OBVIOUS
      <4>2. pc'[p] = pc[p] /\ pc[p] # "wait"
        BY <2>1, <3>2 DEF WaitingEnq
      <4>3. QED
        BY <4>2
    <3>3. QED
      BY <3>1, <3>2
  <2>4. QED
    BY <2>2, <2>3 DEF NoLostWakeup
<1>5. ASSUME NEW t \in Threads, SpuriousWakeup(t) PROVE NoLostWakeup'
  BY <1>5 DEF SpuriousWakeup, NoLostWakeup, IInv, TypeOK
<1>6. CASE UNCHANGED vars
  BY <1>6 DEF vars, NoLostWakeup
<1>7. QED
  BY <1>1, <1>2, <1>3, <1>4, <1>5, <1>6 DEF Next

(* No wakeup is lost in TSQueue, for every capacity and every non-empty   *)
(* sets of enqueuing and dequeuing threads: while the ring holds an item  *)
(* some dequeuer is not asleep on cond_dequeue, and while it has room     *)
(* some enqueuer is not asleep on cond_enqueue, because enqueue and       *)
(* dequeue each signal the other condition variable (ts_queue.hpp:88,103). *)
THEOREM NoLostWakeupInvariant == Spec => []NoLostWakeup
<1>1. Init => NoLostWakeup
  BY ThreadsAssumption, CapAssumption DEF Init, NoLostWakeup, Threads
<1>2. IInv /\ NoLostWakeup /\ [Next]_vars => IInv' /\ NoLostWakeup'
  BY NextIInv, NextNoLostWakeup
<1>3. QED
  BY <1>1, <1>2, InitIInv, PTL DEF Spec

-----------------------------------------------------------------------------
(* An index below two capacities reduces by at most one capacity.         *)
LEMMA ModIdx ==
    ASSUME NEW x \in 0 .. 2 * Cap - 1
    PROVE  x % Cap = IF x < Cap THEN x ELSE x - Cap
<1> USE CapAssumption
<1>1. CASE x < Cap
  BY <1>1, ModWrap
<1>2. CASE x >= Cap
  BY <1>2, ModOnce
<1>3. QED
  BY <1>1, <1>2

(* The slot enqueue writes, (tail + 1) % buffer_size, is none of the size *)
(* slots that hold the queue's contents.                                  *)
LEMMA FreeSlot ==
    ASSUME NEW h \in Slots, NEW n \in 0 .. Cap - 1, NEW i \in 1 .. n
    PROVE  (h + i - 1) % Cap # (h + n) % Cap
<1> USE CapAssumption DEF Slots
<1>1. h + i - 1 \in 0 .. 2 * Cap - 1 /\ h + n \in 0 .. 2 * Cap - 1
  OBVIOUS
<1>2. QED
  BY <1>1, ModIdx

(* Advancing head by one modulo buffer_size shifts the contents by one.  *)
LEMMA HeadShift ==
    ASSUME NEW h \in Slots, NEW i \in 1 .. Cap - 1
    PROVE  (((h + 1) % Cap) + i - 1) % Cap = (h + i) % Cap
<1> USE CapAssumption DEF Slots
<1>1. CASE h + 1 < Cap
  <2>1. (h + 1) % Cap = h + 1
    BY <1>1, ModWrap
  <2>2. QED
    BY <2>1
<1>2. CASE h + 1 = Cap
  <2>1. (h + 1) % Cap = 0
    BY <1>2, ModWrap
  <2>2. (i - 1) % Cap = i - 1
    BY ModWrap
  <2>3. (h + i) % Cap = i - 1
    BY <1>2, ModOnce
  <2>4. QED
    BY <2>1, <2>2, <2>3
<1>3. QED
  BY <1>1, <1>2

(* A completed enqueue is QueueSpec's Put of the enqueuing thread.        *)
LEMMA EnqueueRefines ==
    ASSUME IInv, RingInv, NEW p \in Putters, EnqueueDo(p)
    PROVE  QS!Put(p)
<1> USE CapAssumption
<1>1. size \in 0 .. Cap - 1 /\ head \in Slots /\ size' = size + 1
  BY DEF EnqueueDo, IInv, TypeOK
<1>2. (tail + 1) % Cap = (head + size) % Cap
  BY DEF RingInv
<1>3. \A i \in 1 .. size :
        buffer'[(head + i - 1) % Cap] = buffer[(head + i - 1) % Cap]
  <2> SUFFICES ASSUME NEW i \in 1 .. size
               PROVE  buffer'[(head + i - 1) % Cap] = buffer[(head + i - 1) % Cap]
    OBVIOUS
  <2>1. (head + i - 1) % Cap # (tail + 1) % Cap
    BY <1>1, <1>2, FreeSlot
  <2>2. (head + i - 1) % Cap \in Slots
    BY <1>1, ModIdx DEF Slots
  <2>3. QED
    BY <2>1, <2>2 DEF EnqueueDo, IInv, TypeOK
<1>4. buffer'[(head + size) % Cap] = p
  <2>1. (tail + 1) % Cap \in Slots
    BY <1>1, <1>2, ModIdx DEF Slots
  <2>2. QED
    BY <1>2, <2>1 DEF EnqueueDo, IInv, TypeOK
<1>5. Contents' = Append(Contents, p)
  BY <1>1, <1>3, <1>4 DEF Contents, EnqueueDo
<1>6. Len(Contents) < Cap
  BY <1>1 DEF Contents
<1>7. got' = got
  BY DEF EnqueueDo
<1>8. QED
  BY <1>5, <1>6, <1>7 DEF QS!Put

(* A completed dequeue is QueueSpec's Take by the dequeuing thread.       *)
LEMMA DequeueRefines ==
    ASSUME IInv, NEW t \in Takers, DequeueDo(t)
    PROVE  QS!Take(t)
<1> USE CapAssumption
<1>1. size \in 1 .. Cap /\ head \in Slots /\ size' = size - 1
  BY DEF DequeueDo, IInv, TypeOK
<1>2. Contents # << >> /\ Head(Contents) = buffer[head]
  <2>1. (head + 1 - 1) % Cap = head
    BY <1>1, ModWrap DEF Slots
  <2>2. QED
    BY <1>1, <2>1 DEF Contents
<1>3. \A i \in 1 .. size - 1 :
        buffer[(((head + 1) % Cap) + i - 1) % Cap] = buffer[(head + i) % Cap]
  BY <1>1, HeadShift
<1>4. Contents' = [i \in 1 .. size - 1 |->
                     buffer[(((head + 1) % Cap) + i - 1) % Cap]]
  BY <1>1 DEF Contents, DequeueDo
<1>5. Tail(Contents) = [i \in 1 .. size - 1 |-> buffer[(head + i) % Cap]]
  BY <1>1 DEF Contents
<1>6. Contents' = Tail(Contents)
  BY <1>3, <1>4, <1>5
<1>7. got' = [got EXCEPT ![t] = Head(Contents)]
  BY <1>2 DEF DequeueDo
<1>8. QED
  BY <1>2, <1>6, <1>7 DEF QS!Take

(* Steps that only change pc leave QueueSpec's variables alone.           *)
LEMMA WaitStutters ==
    ASSUME UNCHANGED <<buffer, head, size, got>>
    PROVE  UNCHANGED QS!absvars
BY DEF QS!absvars, Contents

(* TSQueue implements QueueSpec, for every capacity and all thread sets:   *)
(* under the mutex of ts_queue.hpp every completed enqueue appends to and *)
(* every completed dequeue removes the oldest item of one atomic bounded  *)
(* FIFO, whatever the waits, barging and spurious wakeups in between.     *)
THEOREM Implementation == Spec => QueueRefinement
<1>1. Init => QS!Init
  BY DEF Init, QS!Init, Contents
<1>2. IInv /\ [Next]_vars => [QS!Next]_QS!absvars
  <2> SUFFICES ASSUME IInv, [Next]_vars PROVE [QS!Next]_QS!absvars
    OBVIOUS
  <2>0. RingInv
    BY IInvRing
  <2>1. ASSUME NEW p \in Putters, EnqueueWait(p) PROVE UNCHANGED QS!absvars
    BY <2>1, WaitStutters DEF EnqueueWait
  <2>2. ASSUME NEW p \in Putters, EnqueueDo(p) PROVE QS!Next
    BY <2>0, <2>2, EnqueueRefines DEF QS!Next
  <2>3. ASSUME NEW t \in Takers, DequeueWait(t) PROVE UNCHANGED QS!absvars
    BY <2>3, WaitStutters DEF DequeueWait
  <2>4. ASSUME NEW t \in Takers, DequeueDo(t) PROVE QS!Next
    BY <2>4, DequeueRefines DEF QS!Next
  <2>5. ASSUME NEW t \in Threads, SpuriousWakeup(t) PROVE UNCHANGED QS!absvars
    BY <2>5, WaitStutters DEF SpuriousWakeup
  <2>6. CASE UNCHANGED vars
    BY <2>6, WaitStutters DEF vars
  <2>7. QED
    BY <2>1, <2>2, <2>3, <2>4, <2>5, <2>6 DEF Next
<1>3. QED
  BY <1>1, <1>2, InitIInv, NextIInv, PTL DEF Spec, QueueRefinement, QS!Spec

=============================================================================

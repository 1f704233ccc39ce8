--------------------------- MODULE PipelineProofs ---------------------------
(***************************************************************************)
(* TLAPS proofs about module Pipeline: the consumer pool (the vector of   *)
(* ConsumerController, consumer_controller.hpp, and the is_cancel flags   *)
(* and threads of the Consumers, ts_queue.hpp:121-196), and ExactlyOnce,  *)
(* the conservation of records across the hand-offs of Producer::process *)
(* and Consumer::process.                                                 *)
(***************************************************************************)
EXTENDS Pipeline, WellFoundedInduction, FiniteSetTheorems, SequenceTheorems,
        TLAPS

(* The part of TypeOK that the pool's variables need.                    *)
PoolType ==
    /\ consPc \in [ConsumerIds ->
                     {"unborn", "nothread", "loop", "size", "deq", "enq",
                      "exited"}]
    /\ isCancel \in [ConsumerIds -> BOOLEAN]
    /\ consumers \in Seq(ConsumerIds)
    /\ ctrlPc \in {"up", "down", "cancel"}

(* PoolMatchesThreads strengthened to an inductive invariant when         *)
(* pthread_create never fails: no object is left without a thread, every *)
(* entry of the vector has been constructed, a consumer not yet           *)
(* constructed has a clear flag (new Consumer sets is_cancel = false),    *)
(* and between cancel() setting the flag and pop_back the victim is the   *)
(* last entry of a vector of at least two.                                *)
IPool ==
    /\ PoolType
    /\ \A c \in ConsumerIds : consPc[c] # "nothread"
    /\ \A i \in DOMAIN consumers : consPc[consumers[i]] # "unborn"
    /\ \A c \in ConsumerIds : consPc[c] = "unborn" => ~isCancel[c]
    /\ ctrlPc = "cancel" =>
          /\ Len(consumers) >= 2
          /\ isCancel[consumers[Len(consumers)]]
    /\ PoolMatchesThreads
-----------------------------------------------------------------------------
(* ConsumerIds is a set of naturals, so a non-empty set of unconstructed  *)
(* ids has a least element: the CHOOSE of CtrlScaleUp picks a member.     *)
LEMMA LeastExists ==
    ASSUME NEW S \in SUBSET ConsumerIds, S # {}
    PROVE  \E c \in S : \A d \in S : c <= d
<1>1. S \subseteq Nat
  BY PipelineAssumption DEF ConsumerIds
<1>2. PICK x \in S : \A y \in S : ~(<<y, x>> \in OpToRel(<, Nat))
  BY <1>1, NatLessThanWellFounded, WFMin
<1>3. ASSUME NEW y \in S PROVE x <= y
  <2>1. y < x => <<y, x>> \in OpToRel(<, Nat)
    BY <1>1 DEF OpToRel
  <2>2. ~(y < x)
    BY <2>1, <1>2
  <2>. QED
    BY <1>1, <2>2
<1>. QED
  BY <1>3

(* Steps that leave the controller's vector, the flags, the consumers'   *)
(* program counters and the controller's pc alone preserve IPool.         *)
LEMMA PoolFrame ==
    ASSUME IPool,
           UNCHANGED <<consPc, isCancel, consumers, ctrlPc>>
    PROVE  IPool'
BY DEF IPool, PoolType, PoolMatchesThreads, Running, Live, Unborn

(* The steps of Consumer::process inside the loop (flag test, size test,  *)
(* dequeue, enqueue) keep the consumer running and touch no flag.         *)
LEMMA ConsStep ==
    ASSUME IPool, NEW c \in ConsumerIds, NEW v,
           consPc[c] \in {"loop", "size", "deq", "enq"},
           v \in {"loop", "size", "deq", "enq"},
           consPc' = [consPc EXCEPT ![c] = v],
           UNCHANGED <<isCancel, consumers, ctrlPc>>
    PROVE  IPool'
<1>1. /\ Running' = Running
      /\ Unborn' = Unborn
  BY DEF IPool, PoolType, Running, Live, Unborn
<1>2. PoolType'
  BY DEF IPool, PoolType
<1>3. PoolMatchesThreads'
  BY <1>1 DEF IPool, PoolMatchesThreads
<1>. QED
  BY <1>1, <1>2, <1>3 DEF IPool, PoolType

(* A consumer whose flag is set leaves its loop and deletes itself; by    *)
(* IPool it is not among the entries the vector keeps.                   *)
LEMMA ConsExitStep ==
    ASSUME IPool, NEW c \in ConsumerIds, ConsExit(c)
    PROVE  IPool'
<1>1. /\ Running' = Running \ {c}
      /\ Unborn' = Unborn
  BY DEF IPool, PoolType, ConsExit, Running, Live, Unborn
<1>2. PoolType'
  BY DEF IPool, PoolType, ConsExit
<1>. DEFINE kept == Len(consumers) - (IF ctrlPc = "cancel" THEN 1 ELSE 0)
<1>3. \A i \in 1 .. kept : consumers[i] # c
  BY DEF IPool, PoolType, PoolMatchesThreads, ConsExit
<1>4. PoolMatchesThreads'
  BY <1>1, <1>3 DEF IPool, PoolType, PoolMatchesThreads, ConsExit
<1>. QED
  BY <1>1, <1>2, <1>4 DEF IPool, PoolType, ConsExit

(* cancel() sets the flag of back(): the vector keeps every entry but the *)
(* last, which is distinct from them.                                    *)
LEMMA ScaleDownStep ==
    ASSUME IPool, CtrlScaleDown
    PROVE  IPool'
<1>. DEFINE n == Len(consumers)
            v == consumers[n]
<1>1. /\ n >= 2
      /\ v \in ConsumerIds
      /\ \A i \in 1 .. n - 1 : consumers[i] # v
  BY DEF IPool, PoolType, PoolMatchesThreads, CtrlScaleDown
<1>2. /\ isCancel' = [isCancel EXCEPT ![v] = TRUE]
      /\ Running' = Running
      /\ Unborn' = Unborn
  BY DEF IPool, PoolType, CtrlScaleDown, Running, Live, Unborn
<1>3. PoolMatchesThreads'
  BY <1>1, <1>2 DEF IPool, PoolType, PoolMatchesThreads, CtrlScaleDown
<1>. QED
  BY <1>1, <1>2, <1>3 DEF IPool, PoolType, CtrlScaleDown

(* pop_back removes the victim, the vector's last entry.                 *)
LEMMA CancelThreadStep ==
    ASSUME IPool, CtrlCancelThread
    PROVE  IPool'
<1>. DEFINE n == Len(consumers)
<1>1. /\ n >= 2
      /\ consumers' = [i \in 1 .. n - 1 |-> consumers[i]]
      /\ consumers' \in Seq(ConsumerIds)
      /\ Len(consumers') = n - 1
  BY DEF IPool, PoolType, CtrlCancelThread
<1>2. /\ Running' = Running
      /\ Unborn' = Unborn
  BY DEF CtrlCancelThread, Running, Live, Unborn
<1>3. /\ ctrlPc = "cancel" /\ ctrlPc' = "up"
      /\ UNCHANGED isCancel
      /\ \A i \in 1 .. n - 1 : consumers'[i] = consumers[i]
  BY <1>1 DEF CtrlCancelThread
<1>4. \A i \in 1 .. n - 1 :
         consumers'[i] \in Running' /\ ~isCancel'[consumers'[i]]
  BY <1>1, <1>2, <1>3 DEF IPool, PoolMatchesThreads
<1>5. \A c \in Running' :
         ~isCancel'[c] => \E i \in 1 .. n - 1 : consumers'[i] = c
  BY <1>1, <1>2, <1>3 DEF IPool, PoolMatchesThreads
<1>6. \A i, j \in DOMAIN consumers' :
         i # j => consumers'[i] # consumers'[j]
  BY <1>1, <1>3 DEF IPool, PoolType, PoolMatchesThreads
<1>7. consumers' # << >>
  <2>1. Len(consumers') > 0
    BY <1>1
  <2>. QED
    BY <2>1
<1>8. PoolMatchesThreads'
  BY <1>1, <1>3, <1>4, <1>5, <1>6, <1>7 DEF PoolMatchesThreads
<1>9. \A i \in DOMAIN consumers' : consPc'[consumers'[i]] # "unborn"
  BY <1>1, <1>3 DEF IPool, CtrlCancelThread
<1>. QED
  BY <1>1, <1>3, <1>8, <1>9 DEF IPool, PoolType, CtrlCancelThread

(* The tests that fail move the controller between the two halves of its *)
(* tick without touching the vector.                                     *)
LEMMA TickStep ==
    ASSUME IPool, CtrlNotAbove \/ CtrlNoScale
    PROVE  IPool'
<1>1. /\ ctrlPc # "cancel" /\ ctrlPc' # "cancel"
      /\ ctrlPc' \in {"up", "down", "cancel"}
      /\ UNCHANGED <<consPc, isCancel, consumers>>
  BY DEF CtrlNotAbove, CtrlNoScale
<1>. QED
  BY <1>1 DEF IPool, PoolType, PoolMatchesThreads, Running, Live, Unborn

(* new Consumer, start(), push_back: the least unconstructed id gets a    *)
(* running thread with a clear flag and is appended once.                *)
LEMMA ScaleUpStep ==
    ASSUME IPool, CtrlScaleUp
    PROVE  IPool'
<1>. DEFINE c == CHOOSE x \in Unborn : \A d \in Unborn : x <= d
            n == Len(consumers)
<1>1. c \in Unborn
  BY LeastExists DEF CtrlScaleUp, Unborn
<1>2. /\ c \in ConsumerIds
      /\ consPc[c] = "unborn"
      /\ ~isCancel[c]
      /\ \A i \in DOMAIN consumers : consumers[i] # c
  BY <1>1 DEF IPool, Unborn
<1>3. /\ consPc' = [consPc EXCEPT ![c] = "loop"]
      /\ consumers' = Append(consumers, c)
      /\ ctrlPc = "up" /\ ctrlPc' = "up"
      /\ UNCHANGED isCancel
  BY DEF CtrlScaleUp
<1>4. /\ consumers' \in Seq(ConsumerIds)
      /\ Len(consumers') = n + 1
      /\ consumers'[n + 1] = c
      /\ \A i \in 1 .. n : consumers'[i] = consumers[i]
  BY <1>2, <1>3 DEF IPool, PoolType
<1>5. /\ Running' = Running \cup {c}
      /\ Unborn' = Unborn \ {c}
  BY <1>2, <1>3 DEF IPool, PoolType, Running, Live, Unborn
<1>6. PoolType'
  BY <1>2, <1>3, <1>4 DEF IPool, PoolType
<1>7. \A i \in 1 .. n + 1 :
         consumers'[i] \in Running' /\ ~isCancel'[consumers'[i]]
  BY <1>2, <1>3, <1>4, <1>5 DEF IPool, PoolType, PoolMatchesThreads
<1>8. \A d \in Running' :
         ~isCancel'[d] => \E i \in 1 .. n + 1 : consumers'[i] = d
  BY <1>3, <1>4, <1>5 DEF IPool, PoolType, PoolMatchesThreads
<1>9. \A i, j \in DOMAIN consumers' :
         i # j => consumers'[i] # consumers'[j]
  BY <1>2, <1>4 DEF IPool, PoolType, PoolMatchesThreads
<1>10. consumers' # << >>
  BY <1>4
<1>11. PoolMatchesThreads'
  <2>1. Len(consumers') - (IF ctrlPc' = "cancel" THEN 1 ELSE 0) = n + 1
    BY <1>3, <1>4
  <2>. QED
    BY <2>1, <1>7, <1>8, <1>9, <1>10 DEF PoolMatchesThreads
<1>12. \A i \in DOMAIN consumers' : consPc'[consumers'[i]] # "unborn"
  BY <1>2, <1>3, <1>4 DEF IPool, PoolType
<1>13. /\ \A d \in ConsumerIds : consPc'[d] # "nothread"
       /\ \A d \in ConsumerIds : consPc'[d] = "unborn" => ~isCancel'[d]
  BY <1>2, <1>3 DEF IPool, PoolType
<1>. QED
  BY <1>3, <1>6, <1>11, <1>12, <1>13 DEF IPool

(* main.cpp:26-55: the vector starts empty and no Consumer exists.       *)
LEMMA InitPool == Init => IPool
BY DEF Init, IPool, PoolType, PoolMatchesThreads, Running, Live, Unborn

(* Every step of the pipeline preserves IPool when pthread_create never  *)
(* fails: one case per action that changes the pool's variables.        *)
LEMMA NextPool ==
    ASSUME ~CreateMayFail, IPool, [Next]_vars
    PROVE  IPool'
<1>1. CASE Reader \/ Writer \/ (\E p \in Producers : Producer(p))
             \/ Main \/ Exited \/ UNCHANGED vars
  <2>. UNCHANGED <<consPc, isCancel, consumers, ctrlPc>>
    BY <1>1 DEF Reader, Writer, Producer, ReaderEnqueue, WriterDequeue,
                ProdSeesItem, ProdDequeue, ProdEnqueue, Main, MainDelete,
                MainReturn, Exited, vars
  <2>. QED
    BY PoolFrame
<1>2. CASE \E c \in ConsumerIds : Consumer(c)
  <2>. PICK c \in ConsumerIds : Consumer(c)
    BY <1>2
  <2>1. CASE ConsExit(c)
    BY <2>1, ConsExitStep
  <2>2. CASE ConsContinue(c)
    BY <2>2, ConsStep DEF ConsContinue
  <2>3. CASE ConsSeesItem(c)
    BY <2>3, ConsStep DEF ConsSeesItem
  <2>4. CASE ConsSeesEmpty(c)
    BY <2>4, ConsStep DEF ConsSeesEmpty
  <2>5. CASE ConsDequeue(c)
    BY <2>5, ConsStep DEF ConsDequeue
  <2>6. CASE ConsEnqueue(c)
    BY <2>6, ConsStep DEF ConsEnqueue
  <2>. QED
    BY <2>1, <2>2, <2>3, <2>4, <2>5, <2>6 DEF Consumer
<1>3. CASE Controller
  <2>1. CASE CtrlScaleUp
    BY <2>1, ScaleUpStep
  <2>2. CASE CtrlScaleUpStartFails
    BY <2>2 DEF CtrlScaleUpStartFails
  <2>3. CASE CtrlScaleUpAtBound
    BY <2>3, PoolFrame DEF CtrlScaleUpAtBound, vars
  <2>4. CASE CtrlNotAbove \/ CtrlNoScale
    BY <2>4, TickStep
  <2>5. CASE CtrlScaleDown
    BY <2>5, ScaleDownStep
  <2>6. CASE CtrlCancelThread
    BY <2>6, CancelThreadStep
  <2>. QED
    BY <1>3, <2>1, <2>2, <2>3, <2>4, <2>5, <2>6 DEF Controller
<1>. QED
  BY <1>1, <1>2, <1>3 DEF Next

(* The controller's vector is exactly the running, uncancelled consumers *)
(* in every execution, for every number of records, producers, consumers *)
(* and queue capacities and all thresholds, provided pthread_create in    *)
(* Consumer::start never fails (findings show it otherwise can).         *)
THEOREM PoolInvariant ==
    ASSUME ~CreateMayFail
    PROVE  Spec => []PoolMatchesThreads
<1>1. Init => IPool
  BY InitPool
<1>2. IPool /\ [Next]_vars => IPool'
  BY NextPool
<1>3. IPool => PoolMatchesThreads
  BY DEF IPool
<1>. QED
  BY <1>1, <1>2, <1>3, PTL DEF Spec
-----------------------------------------------------------------------------
(* ExactlyOnce strengthened to an inductive invariant: a producer or a    *)
(* consumer holds an item exactly between its dequeue and its enqueue     *)
(* (Producer::process and Consumer::process delete their input only after *)
(* the enqueue), with TypeOK for the shapes of the queues and items.      *)
HeldInv ==
    /\ \A p \in Producers : prodItem[p] # NoItem <=> prodPc[p] = "enq"
    /\ \A c \in ConsumerIds : consItem[c] # NoItem <=> consPc[c] = "enq"

IOnce == TypeOK /\ HeldInv /\ ExactlyOnce

(* The positions of a queue holding a record of key k form a finite set. *)
LEMMA CountFinite ==
    ASSUME NEW s \in Seq(Item), NEW k
    PROVE  /\ IsFiniteSet({i \in DOMAIN s : s[i].key = k})
           /\ CopiesIn(s, k) \in Nat
<1>1. IsFiniteSet(1 .. Len(s))
  BY FS_Interval
<1>2. IsFiniteSet({i \in DOMAIN s : s[i].key = k})
  BY <1>1, FS_Subset
<1>. QED
  BY <1>2, FS_CardinalityType DEF CopiesIn

(* TSQueue::enqueue appends: the count of key k grows by one if the new   *)
(* item has key k.                                                        *)
LEMMA CountAppend ==
    ASSUME NEW s \in Seq(Item), NEW x \in Item, NEW k
    PROVE  CopiesIn(Append(s, x), k) =
             CopiesIn(s, k) + (IF x.key = k THEN 1 ELSE 0)
<1>. DEFINE A == {i \in DOMAIN s : s[i].key = k}
            t == Append(s, x)
            B == {i \in DOMAIN t : t[i].key = k}
<1>. HIDE DEF A, B, t
<1>1. IsFiniteSet(A)
  BY CountFinite DEF A
<1>2. B = IF x.key = k THEN A \cup {Len(s) + 1} ELSE A
  BY DEF A, B, t
<1>3. Len(s) + 1 \notin A
  BY DEF A
<1>4. Cardinality(B) = Cardinality(A) + (IF x.key = k THEN 1 ELSE 0)
  <2>1. CASE x.key = k
    <3>1. B = A \cup {Len(s) + 1}
      BY <1>2, <2>1
    <3>. QED
      BY <1>1, <1>3, <2>1, <3>1, FS_AddElement
  <2>2. CASE x.key # k
    <3>1. B = A
      BY <1>2, <2>2
    <3>2. Cardinality(A) \in Nat
      BY <1>1, FS_CardinalityType
    <3>3. Cardinality(B) = Cardinality(A)
      BY <3>1
    <3>4. (IF x.key = k THEN 1 ELSE 0) = 0
      BY <2>2
    <3>. QED
      BY <3>2, <3>3, <3>4
  <2>. QED
    BY <2>1, <2>2
<1>. QED
  BY <1>4 DEF CopiesIn, A, B, t

(* TSQueue::dequeue takes the head: the count of key k falls by one if   *)
(* the head has key k.                                                    *)
LEMMA CountTail ==
    ASSUME NEW s \in Seq(Item), s # << >>, NEW k
    PROVE  CopiesIn(s, k) =
             CopiesIn(Tail(s), k) + (IF Head(s).key = k THEN 1 ELSE 0)
<1>. DEFINE A == {i \in DOMAIN s : s[i].key = k}
            A2 == {i \in 2 .. Len(s) : s[i].key = k}
            t == Tail(s)
            T == {i \in DOMAIN t : t[i].key = k}
            f == [i \in T |-> i + 1]
<1>. HIDE DEF A, A2, t, T, f
<1>1. /\ t \in Seq(Item)
      /\ Len(t) = Len(s) - 1
      /\ \A i \in 1 .. Len(t) : t[i] = s[i + 1]
  BY DEF t
<1>2. f \in Bijection(T, A2)
  <2>1. f \in [T -> A2]
    BY <1>1 DEF f, T, A2
  <2>2. IsInjective(f)
    BY <1>1 DEF f, T, t, IsInjective
  <2>3. \A j \in A2 : j - 1 \in T /\ f[j - 1] = j
    BY <1>1 DEF f, T, A2
  <2>. QED
    BY <2>1, <2>2, <2>3 DEF Bijection, Injection, Surjection
<1>3. IsFiniteSet(T) /\ IsFiniteSet(A)
  BY <1>1, CountFinite DEF T, A
<1>4. Cardinality(A2) = Cardinality(T)
  <2>1. ExistsBijection(T, A2)
    BY <1>2 DEF ExistsBijection
  <2>. QED
    BY <1>3, <2>1, FS_Bijection
<1>5. /\ A = IF Head(s).key = k THEN A2 \cup {1} ELSE A2
      /\ 1 \notin A2
      /\ IsFiniteSet(A2)
  BY <1>3, FS_Subset DEF A, A2
<1>6. Cardinality(A) = Cardinality(A2) + (IF Head(s).key = k THEN 1 ELSE 0)
  <2>1. CASE Head(s).key = k
    <3>1. A = A2 \cup {1}
      BY <1>5, <2>1
    <3>. QED
      BY <1>5, <2>1, <3>1, FS_AddElement
  <2>2. CASE Head(s).key # k
    <3>1. A = A2
      BY <1>5, <2>2
    <3>2. Cardinality(A2) \in Nat
      BY <1>5, FS_CardinalityType
    <3>3. Cardinality(A) = Cardinality(A2)
      BY <3>1
    <3>4. (IF Head(s).key = k THEN 1 ELSE 0) = 0
      BY <2>2
    <3>. QED
      BY <3>2, <3>3, <3>4
  <2>. QED
    BY <2>1, <2>2
<1>. QED
  BY <1>4, <1>6 DEF CopiesIn, A, T, t

(* Slot x of the held-item function f set to v: what a dequeue or an    *)
(* enqueue of Producer::process or Consumer::process does to its hands.   *)
SetSlot(f, x, v) == [f EXCEPT ![x] = v]

(* A thread's slot takes an item (after dequeue): the count of key k in   *)
(* the threads' hands grows by one if the item has key k.                 *)
LEMMA HeldSet ==
    ASSUME NEW S, IsFiniteSet(S), NEW f, DOMAIN f = S,
           NEW x \in S, f[x] = NoItem, NEW v \in Item, NEW k
    PROVE  CopiesHeld(SetSlot(f, x, v), S, k) =
             CopiesHeld(f, S, k) + (IF v.key = k THEN 1 ELSE 0)
<1>. DEFINE g == SetSlot(f, x, v)
            H == {y \in S : f[y] # NoItem /\ f[y].key = k}
            G == {y \in S : g[y] # NoItem /\ g[y].key = k}
<1>. HIDE DEF g, H, G
<1>1. v # NoItem
  BY NoItemAssumption
<1>2. /\ IsFiniteSet(H)
      /\ Cardinality(H) \in Nat
      /\ x \notin H
  BY FS_Subset, FS_CardinalityType DEF H
<1>3. G = IF v.key = k THEN H \cup {x} ELSE H
  BY <1>1 DEF G, H, g, SetSlot
<1>4. Cardinality(G) = Cardinality(H) + (IF v.key = k THEN 1 ELSE 0)
  <2>1. CASE v.key = k
    <3>1. G = H \cup {x}
      BY <1>3, <2>1
    <3>. QED
      BY <1>2, <2>1, <3>1, FS_AddElement
  <2>2. CASE v.key # k
    <3>1. Cardinality(G) = Cardinality(H)
      BY <1>3, <2>2
    <3>2. (IF v.key = k THEN 1 ELSE 0) = 0
      BY <2>2
    <3>. QED
      BY <1>2, <3>1, <3>2
  <2>. QED
    BY <2>1, <2>2
<1>. QED
  BY <1>2, <1>4 DEF CopiesHeld, G, H, g, SetSlot

(* A thread's slot is emptied (after enqueue): the count of the key of   *)
(* the item it held falls by one.                                         *)
LEMMA HeldClear ==
    ASSUME NEW S, IsFiniteSet(S), NEW f, DOMAIN f = S,
           NEW x \in S, f[x] \in Item, NEW k
    PROVE  CopiesHeld(SetSlot(f, x, NoItem), S, k) =
             CopiesHeld(f, S, k) - (IF f[x].key = k THEN 1 ELSE 0)
<1>. DEFINE g == SetSlot(f, x, NoItem)
            H == {y \in S : f[y] # NoItem /\ f[y].key = k}
            G == {y \in S : g[y] # NoItem /\ g[y].key = k}
<1>. HIDE DEF g, H, G
<1>1. f[x] # NoItem
  BY NoItemAssumption
<1>2. /\ IsFiniteSet(H)
      /\ Cardinality(H) \in Nat
  BY FS_Subset, FS_CardinalityType DEF H
<1>3. G = H \ {x}
  BY DEF G, H, g, SetSlot
<1>4. Cardinality(G) = Cardinality(H) - (IF f[x].key = k THEN 1 ELSE 0)
  <2>1. CASE f[x].key = k
    <3>1. x \in H
      BY <1>1, <2>1 DEF H
    <3>. QED
      BY <1>2, <1>3, <2>1, <3>1, FS_RemoveElement
  <2>2. CASE f[x].key # k
    <3>1. x \notin H
      BY <2>2 DEF H
    <3>2. Cardinality(G) = Cardinality(H)
      BY <1>3, <3>1
    <3>3. (IF f[x].key = k THEN 1 ELSE 0) = 0
      BY <2>2
    <3>. QED
      BY <1>2, <3>2, <3>3
  <2>. QED
    BY <2>1, <2>2
<1>. QED
  BY <1>4 DEF CopiesHeld, G, H, g, SetSlot

(* The producers main starts and the consumer ids are finite sets.       *)
LEMMA ThreadsFinite ==
    IsFiniteSet(Producers) /\ IsFiniteSet(ConsumerIds)
BY PipelineAssumption, FS_Interval DEF ConsumerIds

(* The threads' hands hold finitely many records of each key.            *)
LEMMA HeldNat ==
    ASSUME NEW S, IsFiniteSet(S), NEW f, NEW k
    PROVE  CopiesHeld(f, S, k) \in Nat
BY FS_Subset, FS_CardinalityType DEF CopiesHeld

(* Every step keeps the types and the held-item slots: an item is held   *)
(* exactly at "enq", so what ProdEnqueue and ConsEnqueue append is an item.*)
LEMMA TypeHeldStep ==
    ASSUME TypeOK, HeldInv, [Next]_vars
    PROVE  TypeOK' /\ HeldInv'
<1>. USE PipelineAssumption DEF TypeOK, HeldInv
<1>1. CASE ReaderEnqueue
  <2>1. TypeOK'
    <3>1. /\ readerNext \in Keys /\ readerNext' = readerNext + 1
          /\ inQ' = Append(inQ, [key |-> readerNext, val |-> << >>])
          /\ Len(inQ) < InCap
      BY <1>1 DEF ReaderEnqueue, Keys
    <3>2. [key |-> readerNext, val |-> << >>] \in Item
      BY <3>1 DEF Item
    <3>3. inQ' \in Seq(Item) /\ Len(inQ') <= InCap
      BY <3>1, <3>2, AppendProperties
    <3>4. readerNext' \in 1 .. NItems + 1
      BY <3>1 DEF Keys
    <3>5. UNCHANGED <<workQ, outQ, written, prodPc, prodItem, consPc,
                      consItem, isCancel, consumers, ctrlPc, mainPc>>
      BY <1>1 DEF ReaderEnqueue
    <3>. QED
      BY <3>3, <3>4, <3>5
  <2>2. HeldInv'
    BY <1>1 DEF ReaderEnqueue, Item, Keys
  <2>. QED
    BY <2>1, <2>2
<1>2. CASE WriterDequeue
  <2>1. TypeOK'
    <3>1. outQ # << >> /\ written' = Append(written, Head(outQ))
          /\ outQ' = Tail(outQ)
      BY <1>2 DEF WriterDequeue
    <3>2. Head(outQ) \in Item
      BY <3>1
    <3>3. outQ' \in Seq(Item) /\ Len(outQ') <= OutCap
      BY <3>1
    <3>4. written' \in Seq(Item)
      BY <3>1, <3>2
    <3>5. UNCHANGED <<inQ, workQ, readerNext, prodPc, prodItem,
                      consPc, consItem, isCancel, consumers, ctrlPc, mainPc>>
      BY <1>2 DEF WriterDequeue
    <3>. QED
      BY <3>3, <3>4, <3>5
  <2>2. HeldInv'
    BY <1>2 DEF WriterDequeue
  <2>. QED
    BY <2>1, <2>2
<1>3. CASE \E p \in Producers : ProdSeesItem(p)
  <2>. PICK p \in Producers : ProdSeesItem(p)
    BY <1>3
  <2>1. TypeOK'
    BY DEF ProdSeesItem, Item
  <2>2. HeldInv'
    BY DEF ProdSeesItem, Item
  <2>. QED
    BY <2>1, <2>2
<1>4. CASE \E p \in Producers : ProdDequeue(p)
  <2>. PICK p \in Producers : ProdDequeue(p)
    BY <1>4
  <2>1. /\ inQ # << >>
        /\ StageA(Head(inQ)) \in Item
        /\ StageA(Head(inQ)) # NoItem
    <3>1. inQ # << >> /\ Head(inQ) \in Item
      BY DEF ProdDequeue
    <3>2. StageA(Head(inQ)) \in Item
      <4>. DEFINE h == Head(inQ)
      <4>1. h.key \in Keys /\ h.val \in Seq({"A", "B"})
        BY <3>1 DEF Item
      <4>3. Append(h.val, "A") \in Seq({"A", "B"})
        BY <4>1
      <4>. QED
        BY <4>1, <4>3 DEF StageA, Item
    <3>. QED
      BY <3>1, <3>2, NoItemAssumption
  <2>2. TypeOK'
    BY <2>1 DEF ProdDequeue
  <2>3. HeldInv'
    BY <2>1 DEF ProdDequeue
  <2>. QED
    BY <2>2, <2>3
<1>5. CASE \E p \in Producers : ProdEnqueue(p)
  <2>. PICK p \in Producers : ProdEnqueue(p)
    BY <1>5
  <2>1. TypeOK'
    BY DEF ProdEnqueue, Item
  <2>2. HeldInv'
    BY DEF ProdEnqueue, Item
  <2>. QED
    BY <2>1, <2>2
<1>6. CASE \E c \in ConsumerIds : ConsContinue(c)
  <2>. PICK c \in ConsumerIds : ConsContinue(c)
    BY <1>6
  <2>1. TypeOK'
    BY DEF ConsContinue, Item
  <2>2. HeldInv'
    BY DEF ConsContinue, Item
  <2>. QED
    BY <2>1, <2>2
<1>7. CASE \E c \in ConsumerIds : ConsSeesItem(c)
  <2>. PICK c \in ConsumerIds : ConsSeesItem(c)
    BY <1>7
  <2>1. TypeOK'
    BY DEF ConsSeesItem, Item
  <2>2. HeldInv'
    BY DEF ConsSeesItem, Item
  <2>. QED
    BY <2>1, <2>2
<1>8. CASE \E c \in ConsumerIds : ConsSeesEmpty(c)
  <2>. PICK c \in ConsumerIds : ConsSeesEmpty(c)
    BY <1>8
  <2>1. TypeOK'
    BY DEF ConsSeesEmpty, Item
  <2>2. HeldInv'
    BY DEF ConsSeesEmpty, Item
  <2>. QED
    BY <2>1, <2>2
<1>9. CASE \E c \in ConsumerIds : ConsExit(c)
  <2>. PICK c \in ConsumerIds : ConsExit(c)
    BY <1>9
  <2>1. TypeOK'
    BY DEF ConsExit, Item
  <2>2. HeldInv'
    BY DEF ConsExit, Item
  <2>. QED
    BY <2>1, <2>2
<1>10. CASE \E c \in ConsumerIds : ConsDequeue(c)
  <2>. PICK c \in ConsumerIds : ConsDequeue(c)
    BY <1>10
  <2>1. /\ workQ # << >>
        /\ StageB(Head(workQ)) \in Item
        /\ StageB(Head(workQ)) # NoItem
    <3>1. workQ # << >> /\ Head(workQ) \in Item
      BY DEF ConsDequeue
    <3>2. StageB(Head(workQ)) \in Item
      <4>. DEFINE h == Head(workQ)
      <4>1. h.key \in Keys /\ h.val \in Seq({"A", "B"})
        BY <3>1 DEF Item
      <4>3. Append(h.val, "B") \in Seq({"A", "B"})
        BY <4>1
      <4>. QED
        BY <4>1, <4>3 DEF StageB, Item
    <3>. QED
      BY <3>1, <3>2, NoItemAssumption
  <2>2. TypeOK'
    BY <2>1 DEF ConsDequeue
  <2>3. HeldInv'
    BY <2>1 DEF ConsDequeue
  <2>. QED
    BY <2>2, <2>3
<1>11. CASE \E c \in ConsumerIds : ConsEnqueue(c)
  <2>. PICK c \in ConsumerIds : ConsEnqueue(c)
    BY <1>11
  <2>1. TypeOK'
    BY DEF ConsEnqueue, Item
  <2>2. HeldInv'
    BY DEF ConsEnqueue, Item
  <2>. QED
    BY <2>1, <2>2
<1>12. CASE CtrlScaleUp \/ CtrlScaleUpStartFails
  <2>. DEFINE c == CHOOSE x \in Unborn : \A d \in Unborn : x <= d
  <2>1. c \in ConsumerIds /\ consPc[c] = "unborn"
    BY <1>12, LeastExists DEF CtrlScaleUp, CtrlScaleUpStartFails, Unborn
  <2>2. TypeOK'
    <3>1. CASE CtrlScaleUp
      BY <3>1, <2>1 DEF CtrlScaleUp
    <3>2. CASE CtrlScaleUpStartFails
      BY <3>2, <2>1 DEF CtrlScaleUpStartFails
    <3>. QED
      BY <1>12, <3>1, <3>2
  <2>3. HeldInv'
    BY <1>12, <2>1 DEF CtrlScaleUp, CtrlScaleUpStartFails
  <2>. QED
    BY <2>2, <2>3
<1>13. CASE CtrlScaleUpAtBound \/ CtrlNotAbove \/ CtrlNoScale
  <2>1. TypeOK'
    BY <1>13 DEF CtrlScaleUpAtBound, CtrlNotAbove, CtrlNoScale, vars
  <2>2. HeldInv'
    BY <1>13 DEF CtrlScaleUpAtBound, CtrlNotAbove, CtrlNoScale, vars
  <2>. QED
    BY <2>1, <2>2
<1>14. CASE CtrlScaleDown
  <2>1. TypeOK'
    BY <1>14 DEF CtrlScaleDown
  <2>2. HeldInv'
    BY <1>14 DEF CtrlScaleDown
  <2>. QED
    BY <2>1, <2>2
<1>15. CASE CtrlCancelThread
  <2>1. TypeOK'
    BY <1>15 DEF CtrlCancelThread
  <2>2. HeldInv'
    BY <1>15 DEF CtrlCancelThread
  <2>. QED
    BY <2>1, <2>2
<1>16. CASE Main \/ Exited \/ UNCHANGED vars
  <2>1. TypeOK'
    BY <1>16 DEF Main, MainDelete, MainReturn, Exited, vars
  <2>2. HeldInv'
    BY <1>16 DEF Main, MainDelete, MainReturn, Exited, vars
  <2>. QED
    BY <2>1, <2>2
<1>. QED
  BY <1>1, <1>2, <1>3, <1>4, <1>5, <1>6, <1>7, <1>8, <1>9, <1>10, <1>11,
     <1>12, <1>13, <1>14, <1>15, <1>16
  DEF Next, Reader, Writer, Producer, Consumer, Controller

(* The new Item a transform builds keeps the key and adds its stage.     *)
LEMMA StageItem ==
    ASSUME NEW it \in Item
    PROVE  /\ StageA(it) \in Item /\ StageB(it) \in Item
           /\ StageA(it).key = it.key /\ StageB(it).key = it.key
           /\ StageA(it).val = Append(it.val, "A")
           /\ StageB(it).val = Append(it.val, "B")
<1>1. it.key \in Keys /\ it.val \in Seq({"A", "B"})
  BY DEF Item
<1>2. Append(it.val, "A") \in Seq({"A", "B"})
      /\ Append(it.val, "B") \in Seq({"A", "B"})
  BY <1>1
<1>. QED
  BY <1>1, <1>2 DEF StageA, StageB, Item

(* Producer::process's dequeue moves a record from input_queue into the  *)
(* producer's hands: no count changes.                                    *)
LEMMA ProdDequeueCopies ==
    ASSUME NEW p \in Producers, NEW k, TypeOK, HeldInv, ProdDequeue(p)
    PROVE  Copies(k)' = Copies(k)
<1>1. /\ inQ # << >>
      /\ prodItem[p] = NoItem
      /\ inQ' = Tail(inQ)
      /\ prodItem' = [prodItem EXCEPT ![p] = StageA(Head(inQ))]
  BY DEF ProdDequeue, HeldInv
<1>2. /\ Head(inQ) \in Item
      /\ inQ' \in Seq(Item)
      /\ prodItem \in [Producers -> Item \cup {NoItem}]
  BY <1>1 DEF TypeOK
<1>3. StageA(Head(inQ)) \in Item /\ StageA(Head(inQ)).key = Head(inQ).key
  BY <1>2, StageItem
<1>4. CopiesIn(inQ, k) = CopiesIn(inQ', k) + (IF Head(inQ).key = k THEN 1 ELSE 0)
  BY <1>1, CountTail DEF TypeOK
<1>5. CopiesHeld(prodItem', Producers, k) =
        CopiesHeld(prodItem, Producers, k) + (IF Head(inQ).key = k THEN 1 ELSE 0)
  <2>1. CopiesHeld(SetSlot(prodItem, p, StageA(Head(inQ))), Producers, k) =
          CopiesHeld(prodItem, Producers, k) + (IF StageA(Head(inQ)).key = k THEN 1 ELSE 0)
    BY <1>1, <1>2, <1>3, HeldSet, ThreadsFinite
  <2>. QED
    BY <1>1, <1>3, <2>1 DEF SetSlot
<1>6. /\ CopiesIn(inQ', k) \in Nat
      /\ CopiesIn(workQ, k) \in Nat
      /\ CopiesIn(outQ, k) \in Nat
      /\ CopiesIn(written, k) \in Nat
  BY <1>2, CountFinite DEF TypeOK
<1>7. /\ CopiesHeld(prodItem, Producers, k) \in Nat
      /\ CopiesHeld(consItem, ConsumerIds, k) \in Nat
  BY HeldNat, ThreadsFinite
<1>8. UNCHANGED <<workQ, consItem, outQ, written>>
  BY DEF ProdDequeue
<1>. QED
  BY <1>4, <1>5, <1>6, <1>7, <1>8 DEF Copies

(* Producer::process's enqueue moves the record from the producer's      *)
(* hands into worker_queue.                                               *)
LEMMA ProdEnqueueCopies ==
    ASSUME NEW p \in Producers, NEW k, TypeOK, HeldInv, ProdEnqueue(p)
    PROVE  Copies(k)' = Copies(k)
<1>1. /\ prodItem[p] \in Item
      /\ workQ' = Append(workQ, prodItem[p])
      /\ prodItem' = [prodItem EXCEPT ![p] = NoItem]
      /\ inQ' = inQ /\ outQ' = outQ /\ consItem' = consItem /\ written' = written
  BY DEF ProdEnqueue, HeldInv, TypeOK
<1>2. /\ workQ \in Seq(Item)
      /\ prodItem \in [Producers -> Item \cup {NoItem}]
  BY DEF TypeOK
<1>3. CopiesIn(workQ', k) =
        CopiesIn(workQ, k) + (IF prodItem[p].key = k THEN 1 ELSE 0)
  BY <1>1, <1>2, CountAppend
<1>4. CopiesHeld(prodItem', Producers, k) =
        CopiesHeld(prodItem, Producers, k) - (IF prodItem[p].key = k THEN 1 ELSE 0)
  <2>1. prodItem' = SetSlot(prodItem, p, NoItem)
    BY <1>1 DEF SetSlot
  <2>2. CopiesHeld(SetSlot(prodItem, p, NoItem), Producers, k) =
          CopiesHeld(prodItem, Producers, k) - (IF prodItem[p].key = k THEN 1 ELSE 0)
    BY <1>1, <1>2, HeldClear, ThreadsFinite
  <2>. QED
    BY <2>1, <2>2
<1>5. /\ CopiesIn(inQ, k) \in Nat
      /\ CopiesIn(workQ, k) \in Nat
      /\ CopiesIn(outQ, k) \in Nat
      /\ CopiesIn(written, k) \in Nat
  BY CountFinite DEF TypeOK
<1>6. /\ CopiesHeld(prodItem, Producers, k) \in Nat
      /\ CopiesHeld(consItem, ConsumerIds, k) \in Nat
  BY HeldNat, ThreadsFinite
<1>. QED
  BY <1>1, <1>3, <1>4, <1>5, <1>6 DEF Copies

(* Consumer::process's dequeue moves a record from worker_queue into the *)
(* consumer's hands.                                                      *)
LEMMA ConsDequeueCopies ==
    ASSUME NEW c \in ConsumerIds, NEW k, TypeOK, HeldInv, ConsDequeue(c)
    PROVE  Copies(k)' = Copies(k)
<1>1. /\ workQ # << >>
      /\ consItem[c] = NoItem
      /\ workQ' = Tail(workQ)
      /\ consItem' = [consItem EXCEPT ![c] = StageB(Head(workQ))]
      /\ inQ' = inQ /\ outQ' = outQ /\ prodItem' = prodItem /\ written' = written
  BY DEF ConsDequeue, HeldInv
<1>2. /\ Head(workQ) \in Item
      /\ workQ' \in Seq(Item)
      /\ consItem \in [ConsumerIds -> Item \cup {NoItem}]
  BY <1>1 DEF TypeOK
<1>3. StageB(Head(workQ)) \in Item /\ StageB(Head(workQ)).key = Head(workQ).key
  BY <1>2, StageItem
<1>4. CopiesIn(workQ, k) =
        CopiesIn(workQ', k) + (IF Head(workQ).key = k THEN 1 ELSE 0)
  BY <1>1, CountTail DEF TypeOK
<1>5. CopiesHeld(consItem', ConsumerIds, k) =
        CopiesHeld(consItem, ConsumerIds, k) + (IF Head(workQ).key = k THEN 1 ELSE 0)
  <2>1. consItem' = SetSlot(consItem, c, StageB(Head(workQ)))
    BY <1>1 DEF SetSlot
  <2>2. CopiesHeld(SetSlot(consItem, c, StageB(Head(workQ))), ConsumerIds, k) =
          CopiesHeld(consItem, ConsumerIds, k) + (IF StageB(Head(workQ)).key = k THEN 1 ELSE 0)
    BY <1>1, <1>2, <1>3, HeldSet, ThreadsFinite
  <2>. QED
    BY <1>3, <2>1, <2>2
<1>6. /\ CopiesIn(inQ, k) \in Nat
      /\ CopiesIn(workQ', k) \in Nat
      /\ CopiesIn(outQ, k) \in Nat
      /\ CopiesIn(written, k) \in Nat
  BY <1>2, CountFinite DEF TypeOK
<1>7. /\ CopiesHeld(prodItem, Producers, k) \in Nat
      /\ CopiesHeld(consItem, ConsumerIds, k) \in Nat
  BY HeldNat, ThreadsFinite
<1>. QED
  BY <1>1, <1>4, <1>5, <1>6, <1>7 DEF Copies

(* Consumer::process's enqueue moves the record from the consumer's      *)
(* hands into output_queue.                                               *)
LEMMA ConsEnqueueCopies ==
    ASSUME NEW c \in ConsumerIds, NEW k, TypeOK, HeldInv, ConsEnqueue(c)
    PROVE  Copies(k)' = Copies(k)
<1>1. /\ consItem[c] \in Item
      /\ outQ' = Append(outQ, consItem[c])
      /\ consItem' = [consItem EXCEPT ![c] = NoItem]
      /\ inQ' = inQ /\ workQ' = workQ /\ prodItem' = prodItem /\ written' = written
  BY DEF ConsEnqueue, HeldInv, TypeOK
<1>2. /\ outQ \in Seq(Item)
      /\ consItem \in [ConsumerIds -> Item \cup {NoItem}]
  BY DEF TypeOK
<1>3. CopiesIn(outQ', k) =
        CopiesIn(outQ, k) + (IF consItem[c].key = k THEN 1 ELSE 0)
  BY <1>1, <1>2, CountAppend
<1>4. CopiesHeld(consItem', ConsumerIds, k) =
        CopiesHeld(consItem, ConsumerIds, k) - (IF consItem[c].key = k THEN 1 ELSE 0)
  <2>1. consItem' = SetSlot(consItem, c, NoItem)
    BY <1>1 DEF SetSlot
  <2>2. CopiesHeld(SetSlot(consItem, c, NoItem), ConsumerIds, k) =
          CopiesHeld(consItem, ConsumerIds, k) - (IF consItem[c].key = k THEN 1 ELSE 0)
    BY <1>1, <1>2, HeldClear, ThreadsFinite
  <2>. QED
    BY <2>1, <2>2
<1>5. /\ CopiesIn(inQ, k) \in Nat
      /\ CopiesIn(workQ, k) \in Nat
      /\ CopiesIn(outQ, k) \in Nat
      /\ CopiesIn(written, k) \in Nat
  BY CountFinite DEF TypeOK
<1>6. /\ CopiesHeld(prodItem, Producers, k) \in Nat
      /\ CopiesHeld(consItem, ConsumerIds, k) \in Nat
  BY HeldNat, ThreadsFinite
<1>. QED
  BY <1>1, <1>3, <1>4, <1>5, <1>6 DEF Copies

(* The writer's dequeue moves a record from output_queue to the output.  *)
LEMMA WriterCopies ==
    ASSUME NEW k, TypeOK, WriterDequeue
    PROVE  Copies(k)' = Copies(k)
<1>1. /\ outQ # << >>
      /\ outQ' = Tail(outQ)
      /\ written' = Append(written, Head(outQ))
      /\ inQ' = inQ /\ workQ' = workQ /\ prodItem' = prodItem
      /\ consItem' = consItem
  BY DEF WriterDequeue
<1>2. /\ Head(outQ) \in Item
      /\ outQ' \in Seq(Item)
      /\ written \in Seq(Item)
  BY <1>1 DEF TypeOK
<1>3. CopiesIn(outQ, k) =
        CopiesIn(outQ', k) + (IF Head(outQ).key = k THEN 1 ELSE 0)
  BY <1>1, CountTail DEF TypeOK
<1>4. CopiesIn(written', k) =
        CopiesIn(written, k) + (IF Head(outQ).key = k THEN 1 ELSE 0)
  BY <1>1, <1>2, CountAppend
<1>5. /\ CopiesIn(inQ, k) \in Nat
      /\ CopiesIn(workQ, k) \in Nat
      /\ CopiesIn(outQ', k) \in Nat
      /\ CopiesIn(written, k) \in Nat
  BY <1>2, CountFinite DEF TypeOK
<1>6. /\ CopiesHeld(prodItem, Producers, k) \in Nat
      /\ CopiesHeld(consItem, ConsumerIds, k) \in Nat
  BY HeldNat, ThreadsFinite
<1>. QED
  BY <1>1, <1>3, <1>4, <1>5, <1>6 DEF Copies

(* The reader's enqueue brings record readerNext into input_queue.       *)
LEMMA ReaderCopies ==
    ASSUME NEW k, TypeOK, ReaderEnqueue
    PROVE  Copies(k)' = Copies(k) + (IF readerNext = k THEN 1 ELSE 0)
<1>. DEFINE r == [key |-> readerNext, val |-> << >>]
<1>1. /\ inQ' = Append(inQ, r)
      /\ workQ' = workQ /\ outQ' = outQ /\ prodItem' = prodItem
      /\ consItem' = consItem /\ written' = written
  BY DEF ReaderEnqueue
<1>2. r \in Item /\ r.key = readerNext
  BY DEF ReaderEnqueue, TypeOK, Item, Keys
<1>. HIDE DEF r
<1>3. CopiesIn(inQ', k) =
        CopiesIn(inQ, k) + (IF readerNext = k THEN 1 ELSE 0)
  <2>1. CopiesIn(Append(inQ, r), k) =
          CopiesIn(inQ, k) + (IF r.key = k THEN 1 ELSE 0)
    BY <1>2, CountAppend DEF TypeOK
  <2>. QED
    BY <1>1, <1>2, <2>1
<1>4. /\ CopiesIn(inQ, k) \in Nat
      /\ CopiesIn(workQ, k) \in Nat
      /\ CopiesIn(outQ, k) \in Nat
      /\ CopiesIn(written, k) \in Nat
  BY CountFinite DEF TypeOK
<1>5. /\ CopiesHeld(prodItem, Producers, k) \in Nat
      /\ CopiesHeld(consItem, ConsumerIds, k) \in Nat
  BY HeldNat, ThreadsFinite
<1>. QED
  BY <1>1, <1>3, <1>4, <1>5 DEF Copies

(* A step that moves no record keeps every count.                        *)
LEMMA FrameCopies ==
    ASSUME NEW k,
           UNCHANGED <<inQ, workQ, outQ, written, prodItem, consItem>>
    PROVE  Copies(k)' = Copies(k)
BY DEF Copies, CopiesIn, CopiesHeld

(* Every step keeps each record read exactly once in the pipeline: only  *)
(* the reader's enqueue changes a count, that of the record it reads.    *)
LEMMA CountsStep ==
    ASSUME TypeOK, HeldInv, ExactlyOnce, [Next]_vars
    PROVE  \A k \in Keys : Copies(k)' = IF k < readerNext' THEN 1 ELSE 0
<1>. SUFFICES ASSUME NEW k \in Keys
              PROVE  Copies(k)' = IF k < readerNext' THEN 1 ELSE 0
  OBVIOUS
<1>0. /\ Copies(k) = IF k < readerNext THEN 1 ELSE 0
      /\ k \in Nat /\ readerNext \in Nat
  BY DEF ExactlyOnce, TypeOK, Keys
<1>1. CASE ReaderEnqueue
  <2>1. Copies(k)' = Copies(k) + (IF readerNext = k THEN 1 ELSE 0)
    BY <1>1, ReaderCopies
  <2>2. readerNext' = readerNext + 1
    BY <1>1 DEF ReaderEnqueue
  <2>. QED
    BY <1>0, <2>1, <2>2
<1>2. CASE \/ WriterDequeue
           \/ \E p \in Producers : Producer(p)
           \/ \E c \in ConsumerIds : Consumer(c)
           \/ Controller \/ Main \/ Exited \/ UNCHANGED vars
  <2>1. readerNext' = readerNext
    BY <1>2 DEF WriterDequeue, Producer, ProdSeesItem, ProdDequeue,
              ProdEnqueue, Consumer, ConsContinue, ConsExit, ConsSeesItem,
              ConsSeesEmpty, ConsDequeue, ConsEnqueue, Controller,
              CtrlScaleUp, CtrlScaleUpStartFails, CtrlScaleUpAtBound,
              CtrlNotAbove, CtrlScaleDown, CtrlNoScale, CtrlCancelThread,
              Main, MainDelete, MainReturn, Exited, vars
  <2>2. Copies(k)' = Copies(k)
    <3>1. CASE WriterDequeue
      BY <3>1, WriterCopies
    <3>2. CASE \E p \in Producers : Producer(p)
      <4>. PICK p \in Producers : Producer(p)
        BY <3>2
      <4>1. CASE ProdSeesItem(p)
        BY <4>1, FrameCopies DEF ProdSeesItem
      <4>2. CASE ProdDequeue(p)
        BY <4>2, ProdDequeueCopies
      <4>3. CASE ProdEnqueue(p)
        BY <4>3, ProdEnqueueCopies
      <4>. QED
        BY <4>1, <4>2, <4>3 DEF Producer
    <3>3. CASE \E c \in ConsumerIds : Consumer(c)
      <4>. PICK c \in ConsumerIds : Consumer(c)
        BY <3>3
      <4>1. CASE ConsContinue(c) \/ ConsExit(c) \/ ConsSeesItem(c)
                 \/ ConsSeesEmpty(c)
        BY <4>1, FrameCopies
        DEF ConsContinue, ConsExit, ConsSeesItem, ConsSeesEmpty
      <4>2. CASE ConsDequeue(c)
        BY <4>2, ConsDequeueCopies
      <4>3. CASE ConsEnqueue(c)
        BY <4>3, ConsEnqueueCopies
      <4>. QED
        BY <4>1, <4>2, <4>3 DEF Consumer
    <3>4. CASE Controller \/ Main \/ Exited \/ UNCHANGED vars
      BY <3>4, FrameCopies
      DEF Controller, CtrlScaleUp, CtrlScaleUpStartFails,
          CtrlScaleUpAtBound, CtrlNotAbove, CtrlScaleDown, CtrlNoScale,
          CtrlCancelThread, Main, MainDelete, MainReturn, Exited, vars
    <3>. QED
      BY <1>2, <3>1, <3>2, <3>3, <3>4
  <2>. QED
    BY <1>0, <2>1, <2>2
<1>. QED
  BY <1>1, <1>2 DEF Next, Reader, Writer

(* The stage histories of ExactlyOnce: what each queue and each thread's *)
(* hands hold has been through exactly the transforms upstream of it.    *)
ValsOK ==
    /\ \A i \in DOMAIN inQ : inQ[i].val = << >>
    /\ \A i \in DOMAIN workQ : workQ[i].val = <<"A">>
    /\ \A p \in Producers : prodItem[p] # NoItem => prodItem[p].val = <<"A">>
    /\ \A c \in ConsumerIds :
          consItem[c] # NoItem => consItem[c].val = <<"A", "B">>
    /\ \A i \in DOMAIN outQ : outQ[i].val = <<"A", "B">>
    /\ \A i \in DOMAIN written : written[i].val = <<"A", "B">>

(* A dequeue keeps a queue whose records all carry history w so, and      *)
(* hands out a record with history w.                                     *)
LEMMA TailVals ==
    ASSUME NEW s \in Seq(Item), s # << >>, NEW w,
           \A i \in DOMAIN s : s[i].val = w
    PROVE  /\ \A i \in DOMAIN Tail(s) : Tail(s)[i].val = w
           /\ Head(s) \in Item /\ Head(s).val = w
<1>1. /\ Head(s) \in Item
      /\ Len(Tail(s)) = Len(s) - 1
      /\ \A i \in 1 .. Len(Tail(s)) : Tail(s)[i] = s[i + 1]
  BY HeadTailProperties
<1>2. Head(s) = s[1] /\ 1 \in DOMAIN s
  OBVIOUS
<1>. QED
  BY <1>1, <1>2

(* An enqueue of a record with history w keeps that of the queue.        *)
LEMMA AppendVals ==
    ASSUME NEW s \in Seq(Item), NEW e \in Item, NEW w,
           \A i \in DOMAIN s : s[i].val = w, e.val = w
    PROVE  \A i \in DOMAIN Append(s, e) : Append(s, e)[i].val = w
<1>1. /\ Len(Append(s, e)) = Len(s) + 1
      /\ \A i \in 1 .. Len(s) : Append(s, e)[i] = s[i]
      /\ Append(s, e)[Len(s) + 1] = e
  BY AppendProperties
<1>. QED
  BY <1>1

(* consumer_transform appended to producer_transform's history.         *)
LEMMA HistoryAB == Append(<<"A">>, "B") = <<"A", "B">>
<1>1. <<"A">> \in Seq({"A", "B"}) /\ <<"A", "B">> \in Seq({"A", "B"})
      /\ "B" \in {"A", "B"}
  OBVIOUS
<1>2. /\ Append(<<"A">>, "B") \in Seq({"A", "B"})
      /\ Len(Append(<<"A">>, "B")) = 2
      /\ Append(<<"A">>, "B")[1] = "A"
      /\ Append(<<"A">>, "B")[2] = "B"
  BY <1>1, AppendProperties
<1>3. /\ Len(<<"A", "B">>) = 2
      /\ \A i \in 1 .. 2 : Append(<<"A">>, "B")[i] = <<"A", "B">>[i]
  BY <1>2
<1>. QED
  BY <1>1, <1>2, <1>3, SeqEqual

(* Every step keeps the stage histories: producer_transform is applied   *)
(* once between input_queue and worker_queue, consumer_transform once    *)
(* between worker_queue and output_queue.                                 *)
LEMMA ValsStep ==
    ASSUME TypeOK, HeldInv, ValsOK, [Next]_vars
    PROVE  ValsOK'
<1>. USE DEF TypeOK
<1>1. CASE ReaderEnqueue
  <2>0. readerNext \in Keys
    BY <1>1 DEF ReaderEnqueue, Keys
  <2>1. /\ inQ' = Append(inQ, [key |-> readerNext, val |-> << >>])
        /\ [key |-> readerNext, val |-> << >>] \in Item
        /\ UNCHANGED <<workQ, prodItem, consItem, outQ, written>>
    BY <1>1, <2>0 DEF ReaderEnqueue, Item
  <2>2. \A i \in DOMAIN inQ' : inQ'[i].val = << >>
    BY <2>1, AppendVals DEF ValsOK
  <2>. QED
    BY <2>1, <2>2 DEF ValsOK
<1>2. CASE WriterDequeue
  <2>1. /\ outQ # << >>
        /\ outQ' = Tail(outQ)
        /\ written' = Append(written, Head(outQ))
        /\ UNCHANGED <<inQ, workQ, prodItem, consItem>>
    BY <1>2 DEF WriterDequeue
  <2>2. /\ \A i \in DOMAIN outQ' : outQ'[i].val = <<"A", "B">>
        /\ Head(outQ) \in Item /\ Head(outQ).val = <<"A", "B">>
    <3>1. /\ outQ \in Seq(Item)
          /\ \A i \in DOMAIN outQ : outQ[i].val = <<"A", "B">>
      BY DEF ValsOK
    <3>2. /\ \A i \in DOMAIN Tail(outQ) : Tail(outQ)[i].val = <<"A", "B">>
          /\ Head(outQ) \in Item /\ Head(outQ).val = <<"A", "B">>
      BY <2>1, <3>1, TailVals
    <3>. QED
      BY <2>1, <3>2
  <2>3. \A i \in DOMAIN written' : written'[i].val = <<"A", "B">>
    BY <2>1, <2>2, AppendVals DEF ValsOK
  <2>. QED
    BY <2>1, <2>2, <2>3 DEF ValsOK
<1>3. CASE \E p \in Producers : Producer(p)
  <2>. PICK p \in Producers : Producer(p)
    BY <1>3
  <2>1. CASE ProdSeesItem(p)
    BY <2>1 DEF ProdSeesItem, ValsOK
  <2>2. CASE ProdDequeue(p)
    <3>1. /\ inQ # << >>
          /\ inQ' = Tail(inQ)
          /\ prodItem' = [prodItem EXCEPT ![p] = StageA(Head(inQ))]
          /\ UNCHANGED <<workQ, consItem, outQ, written>>
      BY <2>2 DEF ProdDequeue
    <3>2. /\ \A i \in DOMAIN inQ' : inQ'[i].val = << >>
          /\ Head(inQ) \in Item /\ Head(inQ).val = << >>
      BY <3>1, TailVals DEF ValsOK
    <3>3. StageA(Head(inQ)).val = <<"A">>
      BY <3>2, StageItem
    <3>4. \A q \in Producers :
            prodItem'[q] # NoItem => prodItem'[q].val = <<"A">>
      BY <3>1, <3>3 DEF ValsOK
    <3>. QED
      BY <3>1, <3>2, <3>4 DEF ValsOK
  <2>3. CASE ProdEnqueue(p)
    <3>1. /\ prodItem[p] \in Item
          /\ workQ' = Append(workQ, prodItem[p])
          /\ prodItem' = [prodItem EXCEPT ![p] = NoItem]
          /\ UNCHANGED <<inQ, consItem, outQ, written>>
      BY <2>3 DEF ProdEnqueue, HeldInv
    <3>2. \A i \in DOMAIN workQ' : workQ'[i].val = <<"A">>
      <4>1. /\ prodItem[p].val = <<"A">>
            /\ \A i \in DOMAIN workQ : workQ[i].val = <<"A">>
        BY <3>1, NoItemAssumption DEF ValsOK
      <4>. QED
        BY <3>1, <4>1, AppendVals
    <3>3. \A q \in Producers :
            prodItem'[q] # NoItem => prodItem'[q].val = <<"A">>
      BY <3>1 DEF ValsOK
    <3>. QED
      BY <3>1, <3>2, <3>3 DEF ValsOK
  <2>. QED
    BY <2>1, <2>2, <2>3 DEF Producer
<1>4. CASE \E c \in ConsumerIds : Consumer(c)
  <2>. PICK c \in ConsumerIds : Consumer(c)
    BY <1>4
  <2>1. CASE ConsContinue(c) \/ ConsExit(c) \/ ConsSeesItem(c)
             \/ ConsSeesEmpty(c)
    BY <2>1 DEF ConsContinue, ConsExit, ConsSeesItem, ConsSeesEmpty, ValsOK
  <2>2. CASE ConsDequeue(c)
    <3>1. /\ workQ # << >>
          /\ workQ' = Tail(workQ)
          /\ consItem' = [consItem EXCEPT ![c] = StageB(Head(workQ))]
          /\ UNCHANGED <<inQ, prodItem, outQ, written>>
      BY <2>2 DEF ConsDequeue
    <3>2. /\ \A i \in DOMAIN workQ' : workQ'[i].val = <<"A">>
          /\ Head(workQ) \in Item /\ Head(workQ).val = <<"A">>
      BY <3>1, TailVals DEF ValsOK
    <3>3. StageB(Head(workQ)).val = <<"A", "B">>
      BY <3>2, StageItem, HistoryAB
    <3>4. \A d \in ConsumerIds :
            consItem'[d] # NoItem => consItem'[d].val = <<"A", "B">>
      BY <3>1, <3>3 DEF ValsOK
    <3>. QED
      BY <3>1, <3>2, <3>4 DEF ValsOK
  <2>3. CASE ConsEnqueue(c)
    <3>1. /\ consItem[c] \in Item
          /\ outQ' = Append(outQ, consItem[c])
          /\ consItem' = [consItem EXCEPT ![c] = NoItem]
          /\ UNCHANGED <<inQ, prodItem, workQ, written>>
      BY <2>3 DEF ConsEnqueue, HeldInv
    <3>2. \A i \in DOMAIN outQ' : outQ'[i].val = <<"A", "B">>
      <4>1. /\ consItem[c].val = <<"A", "B">>
            /\ \A i \in DOMAIN outQ : outQ[i].val = <<"A", "B">>
        BY <3>1, NoItemAssumption DEF ValsOK
      <4>. QED
        BY <3>1, <4>1, AppendVals
    <3>3. \A d \in ConsumerIds :
            consItem'[d] # NoItem => consItem'[d].val = <<"A", "B">>
      BY <3>1 DEF ValsOK
    <3>. QED
      BY <3>1, <3>2, <3>3 DEF ValsOK
  <2>. QED
    BY <2>1, <2>2, <2>3 DEF Consumer
<1>5. CASE Controller \/ Main \/ Exited \/ UNCHANGED vars
  BY <1>5
  DEF Controller, CtrlScaleUp, CtrlScaleUpStartFails,
      CtrlScaleUpAtBound, CtrlNotAbove, CtrlScaleDown, CtrlNoScale,
      CtrlCancelThread, Main, MainDelete, MainReturn, Exited, vars, ValsOK
<1>. QED
  BY <1>1, <1>2, <1>3, <1>4, <1>5 DEF Next, Reader, Writer

(* main starts with empty queues and empty hands.                        *)
LEMMA InitOnce == Init => IOnce
<1>. SUFFICES ASSUME Init PROVE IOnce
  OBVIOUS
<1>1. TypeOK
  <2>1. /\ readerNext \in 1 .. NItems + 1
        /\ << >> \in Seq(Item)
    BY PipelineAssumption DEF Init
  <2>2. /\ prodPc \in [Producers -> {"check", "deq", "enq"}]
        /\ prodItem \in [Producers -> Item \cup {NoItem}]
        /\ consItem \in [ConsumerIds -> Item \cup {NoItem}]
        /\ isCancel \in [ConsumerIds -> BOOLEAN]
    BY DEF Init
  <2>3. consPc \in [ConsumerIds ->
                     {"unborn", "nothread", "loop", "size", "deq", "enq",
                      "exited"}]
    BY DEF Init
  <2>4. /\ << >> \in Seq(ConsumerIds)
        /\ Len(<< >>) = 0
    OBVIOUS
  <2>5. /\ inQ \in Seq(Item) /\ workQ \in Seq(Item) /\ outQ \in Seq(Item)
        /\ written \in Seq(Item) /\ consumers \in Seq(ConsumerIds)
    BY <2>1, <2>4 DEF Init
  <2>6. Len(inQ) <= InCap /\ Len(workQ) <= WorkCap /\ Len(outQ) <= OutCap
    BY <2>4, PipelineAssumption DEF Init
  <2>7. ctrlPc \in {"up", "down", "cancel"}
        /\ mainPc \in {"join", "deleted", "exited"}
    BY DEF Init
  <2>. QED
    BY <2>1, <2>2, <2>3, <2>5, <2>6, <2>7 DEF TypeOK
<1>2. HeldInv
  BY DEF Init, HeldInv
<1>3. ASSUME NEW k \in Keys PROVE Copies(k) = IF k < readerNext THEN 1 ELSE 0
  <2>1. /\ {i \in DOMAIN inQ : inQ[i].key = k} = {}
        /\ {i \in DOMAIN workQ : workQ[i].key = k} = {}
        /\ {i \in DOMAIN outQ : outQ[i].key = k} = {}
        /\ {i \in DOMAIN written : written[i].key = k} = {}
        /\ {x \in Producers : prodItem[x] # NoItem /\ prodItem[x].key = k} = {}
        /\ {x \in ConsumerIds : consItem[x] # NoItem /\ consItem[x].key = k} = {}
    BY DEF Init
  <2>2. /\ CopiesIn(inQ, k) = 0 /\ CopiesIn(workQ, k) = 0
        /\ CopiesIn(outQ, k) = 0 /\ CopiesIn(written, k) = 0
        /\ CopiesHeld(prodItem, Producers, k) = 0
        /\ CopiesHeld(consItem, ConsumerIds, k) = 0
    BY <2>1, FS_EmptySet DEF CopiesIn, CopiesHeld
  <2>3. Copies(k) = 0
    BY <2>2 DEF Copies
  <2>4. ~(k < readerNext)
    BY DEF Init, Keys
  <2>. QED
    BY <2>3, <2>4
<1>4. ValsOK
  BY DEF Init, ValsOK
<1>. QED
  BY <1>1, <1>2, <1>3, <1>4 DEF IOnce, ExactlyOnce, ValsOK

(* Every step keeps the strengthened invariant.                          *)
LEMMA NextOnce == IOnce /\ [Next]_vars => IOnce'
<1>. SUFFICES ASSUME IOnce, [Next]_vars PROVE IOnce'
  OBVIOUS
<1>1. TypeOK /\ HeldInv /\ ExactlyOnce
  BY DEF IOnce
<1>2. TypeOK' /\ HeldInv'
  BY <1>1, TypeHeldStep
<1>3. \A k \in Keys : Copies(k)' = IF k < readerNext' THEN 1 ELSE 0
  BY <1>1, CountsStep
<1>4. ValsOK'
  <2>1. ValsOK
    BY <1>1 DEF ExactlyOnce, ValsOK
  <2>. QED
    BY <1>1, <2>1, ValsStep
<1>. QED
  BY <1>2, <1>3, <1>4 DEF IOnce, ExactlyOnce, ValsOK

(* Every record the reader reads is, at every moment of every run, in    *)
(* exactly one place of the pipeline with exactly the transforms of the  *)
(* stages it has passed: the hand-offs of Producer::process and          *)
(* Consumer::process neither lose nor duplicate a record, whatever the    *)
(* controller's scaling and cancelling and pthread_create's failures.    *)
THEOREM ExactlyOnceInvariant == Spec => []ExactlyOnce
<1>1. Init => IOnce
  BY InitOnce
<1>2. IOnce /\ [Next]_vars => IOnce'
  BY NextOnce
<1>3. IOnce => ExactlyOnce
  BY DEF IOnce
<1>. QED
  BY <1>1, <1>2, <1>3, PTL DEF Spec

(* Every variable of the pipeline keeps its type: the queues hold items  *)
(* within their capacities, and what ProdEnqueue and ConsEnqueue append  *)
(* is the item the thread dequeued, never the empty slot.               *)
THEOREM TypeInvariant == Spec => []TypeOK
<1>1. Init => TypeOK /\ HeldInv
  BY InitOnce DEF IOnce
<1>2. TypeOK /\ HeldInv /\ [Next]_vars => (TypeOK /\ HeldInv)'
  BY TypeHeldStep
<1>. QED
  BY <1>1, <1>2, PTL DEF Spec

(* The strengthened invariant holds in every reachable state.           *)
LEMMA OnceInvariant == Spec => []IOnce
BY InitOnce, NextOnce, PTL DEF Spec

=============================================================================

---------------------- MODULE PipelineRefinementProofs ----------------------
(***************************************************************************)
(* TLAPS proof that the pipeline of main.cpp implements PipelineSpec under *)
(* the mapping of Pipeline's PS: the reader's count, the records read and  *)
(* not yet taken by the writer, and the writer's keys in order.  It rests  *)
(* on IOnce, the inductive invariant of ExactlyOnce proved in              *)
(* PipelineProofs: a record is in one place at a time, so the writer never *)
(* takes a key twice and never one the reader has not read.               *)
(***************************************************************************)
EXTENDS PipelineProofs

(* The keys the writer has received, as a set.                           *)
WrittenSet == {written[i].key : i \in DOMAIN written}

(* The records read and not yet delivered: PS's inflight.                *)
Inflight == {k \in Keys : k < readerNext} \ WrittenSet

-----------------------------------------------------------------------------
(* A queue that holds a record of key k counts at least one copy of it.  *)
LEMMA CountPos ==
    ASSUME NEW s \in Seq(Item), NEW i \in DOMAIN s
    PROVE  CopiesIn(s, s[i].key) >= 1
<1>. DEFINE A == {j \in DOMAIN s : s[j].key = s[i].key}
<1>1. IsFiniteSet(A) /\ CopiesIn(s, s[i].key) \in Nat
  BY CountFinite
<1>2. A # {}
  OBVIOUS
<1>3. Cardinality(A) # 0
  BY <1>1, <1>2, FS_EmptySet
<1>. QED
  BY <1>1, <1>3 DEF CopiesIn

(* Each of the six places counts a natural number of copies of k, and    *)
(* under IOnce they add up to at most one.                               *)
LEMMA CopiesParts ==
    ASSUME IOnce, NEW k \in Keys
    PROVE  /\ CopiesIn(inQ, k) \in Nat /\ CopiesIn(workQ, k) \in Nat
           /\ CopiesIn(outQ, k) \in Nat /\ CopiesIn(written, k) \in Nat
           /\ CopiesHeld(prodItem, Producers, k) \in Nat
           /\ CopiesHeld(consItem, ConsumerIds, k) \in Nat
           /\ Copies(k) = IF k < readerNext THEN 1 ELSE 0
<1>1. TypeOK /\ ExactlyOnce
  BY DEF IOnce
<1>2. /\ CopiesIn(inQ, k) \in Nat /\ CopiesIn(workQ, k) \in Nat
      /\ CopiesIn(outQ, k) \in Nat /\ CopiesIn(written, k) \in Nat
  BY <1>1, CountFinite DEF TypeOK
<1>3. /\ CopiesHeld(prodItem, Producers, k) \in Nat
      /\ CopiesHeld(consItem, ConsumerIds, k) \in Nat
  BY HeldNat, ThreadsFinite
<1>. QED
  BY <1>1, <1>2, <1>3 DEF ExactlyOnce

(* Every key the writer has received was read before: Writer::process    *)
(* only dequeues what the reader enqueued.                               *)
LEMMA WrittenRead ==
    ASSUME IOnce
    PROVE  \A i \in DOMAIN written :
              written[i].key \in Keys /\ written[i].key < readerNext
<1>. SUFFICES ASSUME NEW i \in DOMAIN written
              PROVE  written[i].key \in Keys /\ written[i].key < readerNext
  OBVIOUS
<1>1. written \in Seq(Item) /\ written[i] \in Item
  BY DEF IOnce, TypeOK
<1>2. written[i].key \in Keys
  BY <1>1 DEF Item
<1>3. CopiesIn(written, written[i].key) >= 1
  BY <1>1, CountPos
<1>. QED
  BY <1>2, <1>3, CopiesParts DEF Copies

(* The record at the head of output_queue is one the reader has read and *)
(* the writer has not yet received.                                      *)
LEMMA HeadUnwritten ==
    ASSUME IOnce, outQ # << >>
    PROVE  /\ Head(outQ).key \in Keys
           /\ Head(outQ).key < readerNext
           /\ Head(outQ).key \notin WrittenSet
<1>. DEFINE k == Head(outQ).key
<1>1. outQ \in Seq(Item) /\ written \in Seq(Item) /\ Head(outQ) = outQ[1]
      /\ 1 \in DOMAIN outQ /\ Head(outQ) \in Item
  BY DEF IOnce, TypeOK
<1>2. k \in Keys
  BY <1>1 DEF Item
<1>3. CopiesIn(outQ, k) >= 1
  <2>1. CopiesIn(outQ, outQ[1].key) >= 1
    BY <1>1, CountPos
  <2>. QED
    BY <1>1, <2>1
<1>4. k < readerNext
  BY <1>2, <1>3, CopiesParts DEF Copies
<1>5. k \notin WrittenSet
  <2>. SUFFICES ASSUME NEW i \in DOMAIN written, written[i].key = k
                PROVE  FALSE
    BY DEF WrittenSet
  <2>1. CopiesIn(written, written[i].key) >= 1
    BY <1>1, CountPos
  <2>2. CopiesIn(written, k) >= 1
    BY <2>1
  <2>3. /\ CopiesIn(inQ, k) \in Nat /\ CopiesIn(workQ, k) \in Nat
        /\ CopiesIn(outQ, k) \in Nat /\ CopiesIn(written, k) \in Nat
        /\ CopiesHeld(prodItem, Producers, k) \in Nat
        /\ CopiesHeld(consItem, ConsumerIds, k) \in Nat
        /\ Copies(k) = IF k < readerNext THEN 1 ELSE 0
    BY <1>2, CopiesParts
  <2>. QED
    BY <1>3, <2>2, <2>3 DEF Copies
<1>. QED
  BY <1>2, <1>4, <1>5

-----------------------------------------------------------------------------
(* The keys of a sequence of records form a sequence of keys as long.   *)
LEMMA KeySeq ==
    ASSUME NEW s \in Seq(Item)
    PROVE  /\ [i \in DOMAIN s |-> s[i].key] \in Seq(Keys)
           /\ Len([i \in DOMAIN s |-> s[i].key]) = Len(s)
<1>1. Len(s) \in Nat /\ DOMAIN s = 1 .. Len(s)
  OBVIOUS
<1>2. \A i \in 1 .. Len(s) : s[i].key \in Keys
  <2>. SUFFICES ASSUME NEW i \in 1 .. Len(s) PROVE s[i].key \in Keys
    OBVIOUS
  <2>1. s[i] \in Item
    BY <1>1
  <2>. QED
    BY <2>1 DEF Item
<1>3. [i \in 1 .. Len(s) |-> s[i].key] \in [1 .. Len(s) -> Keys]
  BY <1>2
<1>4. [i \in DOMAIN s |-> s[i].key] \in Seq(Keys)
  BY <1>1, <1>3, SeqDef
<1>5. DOMAIN [i \in DOMAIN s |-> s[i].key] = 1 .. Len(s)
  BY <1>1
<1>. QED
  BY <1>1, <1>4, <1>5, LenProperties

(* The pipeline starts where PipelineSpec starts: nothing read, nothing  *)
(* in flight, nothing delivered.                                         *)
LEMMA RefInit == Init => PS!Init
<1>. SUFFICES ASSUME Init PROVE PS!Init
  OBVIOUS
<1>1. readerNext - 1 = 0
  BY DEF Init
<1>2. {k \in Keys : k < readerNext} = {}
  BY DEF Init, Keys
<1>3. WrittenKeys = << >>
  BY DEF Init, WrittenKeys
<1>. QED
  BY <1>1, <1>2, <1>3 DEF PS!Init

(* Reader::process enqueuing record readerNext is PipelineSpec's Read:   *)
(* the record read is new, since every key written is below readerNext. *)
LEMMA RefReader ==
    ASSUME IOnce, ReaderEnqueue
    PROVE  PS!Read
<1>1. readerNext \in Keys /\ readerNext' = readerNext + 1
      /\ written' = written
  BY DEF IOnce, TypeOK, ReaderEnqueue, Keys
<1>2. readerNext \notin WrittenSet
  <2>1. \A i \in DOMAIN written : written[i].key < readerNext
    BY WrittenRead
  <2>. QED
    BY <1>1, <2>1 DEF WrittenSet, Keys
<1>3. WrittenSet' = WrittenSet /\ WrittenKeys' = WrittenKeys
  BY <1>1 DEF WrittenSet, WrittenKeys
<1>4. Inflight' = Inflight \cup {readerNext}
  BY <1>1, <1>2, <1>3 DEF Inflight, Keys
<1>5. /\ readerNext - 1 < NItems
      /\ readerNext' - 1 = (readerNext - 1) + 1
      /\ (readerNext - 1) + 1 = readerNext
  BY <1>1, PipelineAssumption DEF Keys
<1>. QED
  BY <1>3, <1>4, <1>5 DEF PS!Read, Inflight, WrittenSet, WrittenKeys

(* Writer::process dequeuing the head of output_queue is PipelineSpec's  *)
(* Deliver of its key: that key is in flight, and leaves it.             *)
LEMMA RefWriter ==
    ASSUME IOnce, WriterDequeue
    PROVE  /\ Head(outQ).key \in 1 .. NItems
           /\ PS!Deliver(Head(outQ).key)
<1>. DEFINE k == Head(outQ).key
<1>1. k \in Keys /\ k < readerNext /\ k \notin WrittenSet
  BY HeadUnwritten DEF WriterDequeue
<1>2. /\ written \in Seq(Item) /\ Head(outQ) \in Item
      /\ written' = Append(written, Head(outQ))
      /\ readerNext' = readerNext
  BY DEF IOnce, TypeOK, WriterDequeue
<1>3. WrittenSet' = WrittenSet \cup {k}
  BY <1>2 DEF WrittenSet
<1>4. Inflight' = Inflight \ {k}
  BY <1>1, <1>2, <1>3 DEF Inflight
<1>5. WrittenKeys' = Append(WrittenKeys, k)
  <2>1. WrittenKeys \in Seq(Keys) /\ Len(WrittenKeys) = Len(written)
    BY <1>2, KeySeq DEF WrittenKeys
  <2>2. WrittenKeys' \in Seq(Keys) /\ Len(WrittenKeys') = Len(written) + 1
    <3>1. written' \in Seq(Item) /\ Len(written') = Len(written) + 1
      BY <1>2, AppendProperties
    <3>. QED
      BY <3>1, KeySeq DEF WrittenKeys
  <2>3. \A i \in 1 .. Len(written) + 1 :
           WrittenKeys'[i] = IF i <= Len(written) THEN WrittenKeys[i] ELSE k
    BY <1>2 DEF WrittenKeys
  <2>. QED
    BY <1>1, <2>1, <2>2, <2>3, AppendProperties, SeqEqual
<1>. QED
  BY <1>1, <1>2, <1>4, <1>5 DEF PS!Deliver, Inflight, WrittenSet, Keys


(* Every other step of the pipeline, a producer's, a consumer's, the      *)
(* controller's or main's, leaves the read count and the writer's keys    *)
(* alone, and so is a stuttering step of PipelineSpec.                   *)
LEMMA RefStep ==
    ASSUME IOnce, [Next]_vars
    PROVE  [PS!Next]_PS!absvars
<1>1. CASE ReaderEnqueue
  BY <1>1, RefReader DEF PS!Next
<1>2. CASE WriterDequeue
  <2>1. Head(outQ).key \in 1 .. NItems /\ PS!Deliver(Head(outQ).key)
    BY <1>2, RefWriter
  <2>2. \E k \in 1 .. NItems : PS!Deliver(k)
    BY <2>1 DEF PS!Deliver
  <2>. QED
    BY <2>2 DEF PS!Next
<1>3. CASE \/ \E p \in Producers : Producer(p)
           \/ \E c \in ConsumerIds : Consumer(c)
           \/ Controller \/ Main \/ Exited \/ UNCHANGED vars
  <2>1. readerNext' = readerNext /\ written' = written
    BY <1>3 DEF Producer, ProdSeesItem, ProdDequeue,
              ProdEnqueue, Consumer, ConsContinue, ConsExit, ConsSeesItem,
              ConsSeesEmpty, ConsDequeue, ConsEnqueue, Controller,
              CtrlScaleUp, CtrlScaleUpStartFails, CtrlScaleUpAtBound,
              CtrlNotAbove, CtrlScaleDown, CtrlNoScale, CtrlCancelThread,
              Main, MainDelete, MainReturn, Exited, vars
  <2>. QED
    BY <2>1 DEF PS!absvars, WrittenKeys
<1>. QED
  BY <1>1, <1>2, <1>3 DEF Next, Reader, Writer

(* The pipeline of main.cpp implements PipelineSpec: the reader reads    *)
(* records 1..n in order, and the writer receives each record read at    *)
(* most once and only after the reader read it, whatever the interleaving *)
(* of the threads, the controller's scaling and cancelling, and the       *)
(* failures of pthread_create.                                           *)
THEOREM Refinement == Spec => PipelineRefinement
<1>1. Init => PS!Init
  BY RefInit
<1>2. IOnce /\ [Next]_vars => [PS!Next]_PS!absvars
  BY RefStep
<1>. QED
  BY <1>1, <1>2, OnceInvariant, PTL DEF Spec, PipelineRefinement, PS!Spec

=============================================================================

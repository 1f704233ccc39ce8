------------------------------ MODULE Pipeline ------------------------------
(***************************************************************************)
(* The reader -> producers -> consumers -> writer pipeline that main()    *)
(* (src/NTHU-OS-Pthreads/main.cpp) builds, with the consumer pool grown    *)
(* and shrunk by ConsumerController (consumer_controller.hpp).  Each of    *)
(* the three TSQueues is a bounded FIFO whose enqueue and dequeue are      *)
(* atomic and blocking, as module TSQueue shows the ring buffer to be.     *)
(* get_size() is read without the mutex, and every such read is a step    *)
(* of its own, so what a thread does with it may be stale.                *)
(*                                                                         *)
(* Items are records [key, val]: key is the record's identity, val the    *)
(* list of transforms applied to it so far (stage "A" by a producer's     *)
(* producer_transform, stage "B" by a consumer's consumer_transform); the *)
(* arithmetic of the transforms lives in transformer.hpp, outside src/.   *)
(***************************************************************************)
EXTENDS Integers, Sequences, FiniteSets

CONSTANTS
    NItems,         \* n, the number of records the reader and writer handle
    Producers,      \* the producer threads (main starts four)
    MaxConsumers,   \* bound: the number of Consumer objects ever created
    InCap,          \* READER_QUEUE_SIZE
    WorkCap,        \* WORKER_QUEUE_SIZE
    OutCap,         \* WRITER_QUEUE_SIZE
    LowThreshold,   \* CONSUMER_CONTROLLER_LOW_THRESHOLD_PERCENTAGE
    HighThreshold,  \* CONSUMER_CONTROLLER_HIGH_THRESHOLD_PERCENTAGE
    CreateMayFail,  \* whether pthread_create in Consumer::start may fail
    NoItem

ASSUME PipelineAssumption ==
    /\ NItems \in Nat
    /\ Producers # {}
    /\ MaxConsumers \in Nat \ {0}
    /\ {InCap, WorkCap, OutCap} \subseteq Nat \ {0}
    /\ LowThreshold \in 0 .. 100
    /\ HighThreshold \in 0 .. 100
    /\ LowThreshold < HighThreshold
    /\ CreateMayFail \in BOOLEAN
    /\ IsFiniteSet(Producers)

Keys == 1 .. NItems
ConsumerIds == 1 .. MaxConsumers
Item == [key : Keys, val : Seq({"A", "B"})]

(* The value of a Producer's or Consumer's held-item slot when it holds   *)
(* none is not an item.                                                   *)
ASSUME NoItemAssumption == NoItem \notin Item

VARIABLES
    inQ, workQ, outQ,      \* input_queue, worker_queue, output_queue
    readerNext,            \* the key of the next record the reader reads
    written,               \* the items the writer has dequeued, in order
    prodPc, prodItem,      \* producer program counters and held items
    consPc, consItem,      \* consumer program counters and held items
    isCancel,              \* Consumer::is_cancel
    consumers,             \* ConsumerController::consumers, the vector
    ctrlPc,                \* the controller's place in its loop
    mainPc                 \* main(): joining, objects deleted, returned

vars == <<inQ, workQ, outQ, readerNext, written, prodPc, prodItem,
          consPc, consItem, isCancel, consumers, ctrlPc, mainPc>>

(* producer_transform and consumer_transform, abstracted to the stage     *)
(* they add to the item's history, and the new Item(key, val, opcode)     *)
(* built from the result.                                                  *)
StageA(it) == [key |-> it.key, val |-> Append(it.val, "A")]
StageB(it) == [key |-> it.key, val |-> Append(it.val, "B")]

(* The scaling tests of consumer_controller.hpp:84-85 and 96-97,          *)
(* (double)size / capacity compared with (double)threshold / 100.  The    *)
(* operands are small integers, so the doubles compare as the rationals   *)
(* do and the tests are exact once cross-multiplied.                      *)
AboveHigh(sz) == sz * 100 > HighThreshold * WorkCap
BelowLow(sz) == sz * 100 < LowThreshold * WorkCap

(* Threads step only while the process lives: return 0 ends them all.   *)
Alive == mainPc # "exited"

(* TSQueue::get_size() returns size without taking the mutex; in this    *)
(* model each read of it is one step of the reading thread.               *)
GetSize(q) == Len(q)

(* A Consumer object exists from its construction until it deletes        *)
(* itself at the end of Consumer::process.                                *)
Unborn == {c \in ConsumerIds : consPc[c] = "unborn"}
Live == {c \in ConsumerIds : consPc[c] \notin {"unborn", "exited"}}
(* ... and has a thread running Consumer::process unless pthread_create   *)
(* failed in start(), leaving the object with no thread ("nothread").     *)
Running == {c \in Live : consPc[c] # "nothread"}

(* main.cpp:26-55: the three queues created empty, four producers, the    *)
(* reader, the writer and the controller started; the controller's       *)
(* vector of consumers starts empty.                                      *)
Init ==
    /\ inQ = << >> /\ workQ = << >> /\ outQ = << >>
    /\ readerNext = 1
    /\ written = << >>
    /\ prodPc = [p \in Producers |-> "check"]
    /\ prodItem = [p \in Producers |-> NoItem]
    /\ consPc = [c \in ConsumerIds |-> "unborn"]
    /\ consItem = [c \in ConsumerIds |-> NoItem]
    /\ isCancel = [c \in ConsumerIds |-> FALSE]
    /\ consumers = << >>
    /\ ctrlPc = "up"
    /\ mainPc = "join"
-----------------------------------------------------------------------------
(* Reader and Writer: reader.hpp and writer.hpp are not under src/; the   *)
(* spec describes them as sequential loops over n records.                *)
(* Mutant: the reader's loop runs once too often (<= n + 1).             *)
ReaderEnqueueOffByOne ==
    /\ Alive
    /\ readerNext <= NItems + 1
    /\ Len(inQ) < InCap
    /\ inQ' = Append(inQ, [key |-> readerNext, val |-> << >>])
    /\ readerNext' = readerNext + 1
    /\ UNCHANGED <<workQ, outQ, written, prodPc, prodItem, consPc, consItem,
                   isCancel, consumers, ctrlPc, mainPc>>

ReaderEnqueue ==
    /\ Alive
    /\ readerNext <= NItems
    /\ Len(inQ) < InCap
    /\ inQ' = Append(inQ, [key |-> readerNext, val |-> << >>])
    /\ readerNext' = readerNext + 1
    /\ UNCHANGED <<workQ, outQ, written, prodPc, prodItem, consPc, consItem,
                   isCancel, consumers, ctrlPc, mainPc>>

WriterDequeue ==
    /\ Alive
    /\ Len(written) < NItems
    /\ outQ # << >>
    /\ written' = Append(written, Head(outQ))
    /\ outQ' = Tail(outQ)
    /\ UNCHANGED <<inQ, workQ, readerNext, prodPc, prodItem, consPc,
                   consItem, isCancel, consumers, ctrlPc, mainPc>>
-----------------------------------------------------------------------------
(* Producer::process (producer.hpp).  When get_size() reads 0 the loop    *)
(* spins without changing anything, a stuttering step.                    *)
ProdSeesItem(p) ==
    /\ Alive
    /\ prodPc[p] = "check"
    /\ GetSize(inQ) > 0
    /\ prodPc' = [prodPc EXCEPT ![p] = "deq"]
    /\ UNCHANGED <<inQ, workQ, outQ, readerNext, written, prodItem, consPc,
                   consItem, isCancel, consumers, ctrlPc, mainPc>>

(* Mutant: dequeue returns buffer[head] without advancing head.          *)
ProdDequeuePeek(p) ==
    /\ Alive
    /\ prodPc[p] = "deq"
    /\ inQ # << >>
    /\ prodItem' = [prodItem EXCEPT ![p] = StageA(Head(inQ))]
    /\ prodPc' = [prodPc EXCEPT ![p] = "enq"]
    /\ UNCHANGED <<inQ, workQ, outQ, readerNext, written, consPc, consItem,
                   isCancel, consumers, ctrlPc, mainPc>>

(* dequeue (blocking while input_queue is empty), transform, new Item.    *)
ProdDequeue(p) ==
    /\ Alive
    /\ prodPc[p] = "deq"
    /\ inQ # << >>
    /\ prodItem' = [prodItem EXCEPT ![p] = StageA(Head(inQ))]
    /\ inQ' = Tail(inQ)
    /\ prodPc' = [prodPc EXCEPT ![p] = "enq"]
    /\ UNCHANGED <<workQ, outQ, readerNext, written, consPc, consItem,
                   isCancel, consumers, ctrlPc, mainPc>>

(* Mutant: the full test off by one, size <= buffer_size.                *)
ProdEnqueueOffByOne(p) ==
    /\ Alive
    /\ prodPc[p] = "enq"
    /\ Len(workQ) <= WorkCap
    /\ workQ' = Append(workQ, prodItem[p])
    /\ prodItem' = [prodItem EXCEPT ![p] = NoItem]
    /\ prodPc' = [prodPc EXCEPT ![p] = "check"]
    /\ UNCHANGED <<inQ, outQ, readerNext, written, consPc, consItem,
                   isCancel, consumers, ctrlPc, mainPc>>

(* enqueue into worker_queue (blocking while full), delete the input.     *)
ProdEnqueue(p) ==
    /\ Alive
    /\ prodPc[p] = "enq"
    /\ Len(workQ) < WorkCap
    /\ workQ' = Append(workQ, prodItem[p])
    /\ prodItem' = [prodItem EXCEPT ![p] = NoItem]
    /\ prodPc' = [prodPc EXCEPT ![p] = "check"]
    /\ UNCHANGED <<inQ, outQ, readerNext, written, consPc, consItem,
                   isCancel, consumers, ctrlPc, mainPc>>
-----------------------------------------------------------------------------
(* Consumer::process (ts_queue.hpp:172-194).  The loop test reads         *)
(* is_cancel; a clear flag enters the window with cancellation disabled.  *)
ConsContinue(c) ==
    /\ Alive
    /\ consPc[c] = "loop"
    /\ ~isCancel[c]
    /\ consPc' = [consPc EXCEPT ![c] = "size"]
    /\ UNCHANGED <<inQ, workQ, outQ, readerNext, written, prodPc, prodItem,
                   consItem, isCancel, consumers, ctrlPc, mainPc>>

(* A set flag ends the loop and the thread deletes its own object.        *)
ConsExit(c) ==
    /\ Alive
    /\ consPc[c] = "loop"
    /\ isCancel[c]
    /\ consPc' = [consPc EXCEPT ![c] = "exited"]
    /\ UNCHANGED <<inQ, workQ, outQ, readerNext, written, prodPc, prodItem,
                   consItem, isCancel, consumers, ctrlPc, mainPc>>

(* get_size() > 0 leads to the dequeue; otherwise cancellation is         *)
(* enabled again and the loop goes round.                                 *)
(* Mutant: off-by-one size test, get_size() > 1.                          *)
ConsSeesItemOffByOne(c) ==
    /\ Alive
    /\ consPc[c] = "size"
    /\ GetSize(workQ) > 1
    /\ consPc' = [consPc EXCEPT ![c] = "deq"]
    /\ UNCHANGED <<inQ, workQ, outQ, readerNext, written, prodPc, prodItem,
                   consItem, isCancel, consumers, ctrlPc, mainPc>>

ConsSeesItem(c) ==
    /\ Alive
    /\ consPc[c] = "size"
    /\ GetSize(workQ) > 0
    /\ consPc' = [consPc EXCEPT ![c] = "deq"]
    /\ UNCHANGED <<inQ, workQ, outQ, readerNext, written, prodPc, prodItem,
                   consItem, isCancel, consumers, ctrlPc, mainPc>>

ConsSeesEmpty(c) ==
    /\ Alive
    /\ consPc[c] = "size"
    /\ GetSize(workQ) = 0
    /\ consPc' = [consPc EXCEPT ![c] = "loop"]
    /\ UNCHANGED <<inQ, workQ, outQ, readerNext, written, prodPc, prodItem,
                   consItem, isCancel, consumers, ctrlPc, mainPc>>

(* dequeue from worker_queue (blocking while empty), transform, new Item. *)
ConsDequeue(c) ==
    /\ Alive
    /\ consPc[c] = "deq"
    /\ workQ # << >>
    /\ consItem' = [consItem EXCEPT ![c] = StageB(Head(workQ))]
    /\ workQ' = Tail(workQ)
    /\ consPc' = [consPc EXCEPT ![c] = "enq"]
    /\ UNCHANGED <<inQ, outQ, readerNext, written, prodPc, prodItem,
                   isCancel, consumers, ctrlPc, mainPc>>

(* Mutant: no PTHREAD_CANCEL_DISABLE window -- the cancel request acts   *)
(* at the cancellation point in output_queue's pthread_cond_wait and the *)
(* thread dies with the item it dequeued.                                 *)
ConsEnqueueCancellable(c) ==
    \/ /\ Alive
       /\ consPc[c] = "enq"
       /\ Len(outQ) < OutCap
       /\ outQ' = Append(outQ, consItem[c])
       /\ consItem' = [consItem EXCEPT ![c] = NoItem]
       /\ consPc' = [consPc EXCEPT ![c] = "loop"]
       /\ UNCHANGED <<inQ, workQ, readerNext, written, prodPc, prodItem,
                      isCancel, consumers, ctrlPc, mainPc>>
    \/ /\ Alive
       /\ consPc[c] = "enq"
       /\ Len(outQ) = OutCap
       /\ isCancel[c]
       /\ consItem' = [consItem EXCEPT ![c] = NoItem]
       /\ consPc' = [consPc EXCEPT ![c] = "exited"]
       /\ UNCHANGED <<inQ, workQ, outQ, readerNext, written, prodPc,
                      prodItem, isCancel, consumers, ctrlPc, mainPc>>

(* enqueue into output_queue (blocking while full), delete the input,     *)
(* enable cancellation and go round.                                      *)
ConsEnqueue(c) ==
    /\ Alive
    /\ consPc[c] = "enq"
    /\ Len(outQ) < OutCap
    /\ outQ' = Append(outQ, consItem[c])
    /\ consItem' = [consItem EXCEPT ![c] = NoItem]
    /\ consPc' = [consPc EXCEPT ![c] = "loop"]
    /\ UNCHANGED <<inQ, workQ, readerNext, written, prodPc, prodItem,
                   isCancel, consumers, ctrlPc, mainPc>>
-----------------------------------------------------------------------------
(* ConsumerController::process (consumer_controller.hpp:76-111).  One     *)
(* tick: sleep, read get_size() for the scale-up test; if it fails, read  *)
(* get_size() again for the scale-down test.                              *)

(* Scale up: new Consumer (is_cancel = false), start(), push_back.  Once  *)
(* all MaxConsumers objects exist the model takes no further scale-up.    *)
CtrlScaleUp ==
    /\ Alive
    /\ ctrlPc = "up"
    /\ AboveHigh(GetSize(workQ))
    /\ Unborn # {}
    /\ LET c == CHOOSE c \in Unborn : \A d \in Unborn : c <= d
       IN  /\ consPc' = [consPc EXCEPT ![c] = "loop"]
           /\ consumers' = Append(consumers, c)
    /\ UNCHANGED <<inQ, workQ, outQ, readerNext, written, prodPc, prodItem,
                   consItem, isCancel, ctrlPc, mainPc>>

(* The same tick when pthread_create fails: start() ignores the return    *)
(* value (ts_queue.hpp:163), so the object is pushed with no thread and   *)
(* the pool counts a consumer that never dequeues.                        *)
CtrlScaleUpStartFails ==
    /\ Alive
    /\ CreateMayFail
    /\ ctrlPc = "up"
    /\ AboveHigh(GetSize(workQ))
    /\ Unborn # {}
    /\ LET c == CHOOSE c \in Unborn : \A d \in Unborn : c <= d
       IN  /\ consPc' = [consPc EXCEPT ![c] = "nothread"]
           /\ consumers' = Append(consumers, c)
    /\ UNCHANGED <<inQ, workQ, outQ, readerNext, written, prodPc, prodItem,
                   consItem, isCancel, ctrlPc, mainPc>>

(* The code makes a new Consumer on every tick the test passes; once all *)
(* MaxConsumers objects of the model exist, such a tick changes nothing.   *)
CtrlScaleUpAtBound ==
    /\ Alive
    /\ ctrlPc = "up"
    /\ AboveHigh(GetSize(workQ))
    /\ Unborn = {}
    /\ UNCHANGED vars

CtrlNotAbove ==
    /\ Alive
    /\ ctrlPc = "up"
    /\ ~AboveHigh(GetSize(workQ))
    /\ ctrlPc' = "down"
    /\ UNCHANGED <<inQ, workQ, outQ, readerNext, written, prodPc, prodItem,
                   consPc, consItem, isCancel, consumers, mainPc>>

(* Scale down, first half: temp = consumers.back(); temp->cancel() sets   *)
(* is_cancel (ts_queue.hpp:168).                                          *)
(* Mutant: cancels consumers.front() instead of back().                   *)
CtrlScaleDownFront ==
    /\ Alive
    /\ ctrlPc = "down"
    /\ BelowLow(GetSize(workQ))
    /\ Len(consumers) > 1
    /\ isCancel' = [isCancel EXCEPT ![consumers[1]] = TRUE]
    /\ ctrlPc' = "cancel"
    /\ UNCHANGED <<inQ, workQ, outQ, readerNext, written, prodPc, prodItem,
                   consPc, consItem, consumers, mainPc>>

CtrlScaleDown ==
    /\ Alive
    /\ ctrlPc = "down"
    /\ BelowLow(GetSize(workQ))
    /\ Len(consumers) > 1
    /\ isCancel' = [isCancel EXCEPT ![consumers[Len(consumers)]] = TRUE]
    /\ ctrlPc' = "cancel"
    /\ UNCHANGED <<inQ, workQ, outQ, readerNext, written, prodPc, prodItem,
                   consPc, consItem, consumers, mainPc>>

CtrlNoScale ==
    /\ Alive
    /\ ctrlPc = "down"
    /\ ~(BelowLow(GetSize(workQ)) /\ Len(consumers) > 1)
    /\ ctrlPc' = "up"
    /\ UNCHANGED <<inQ, workQ, outQ, readerNext, written, prodPc, prodItem,
                   consPc, consItem, isCancel, consumers, mainPc>>

(* Scale down, second half: cancel() returns pthread_cancel(this->t),     *)
(* which reads the victim's thread handle (ts_queue.hpp:169), then        *)
(* pop_back.  The victim's cancellation is disabled around every          *)
(* cancellation point it reaches, so the request never interrupts it.     *)
CtrlCancelThread ==
    /\ Alive
    /\ ctrlPc = "cancel"
    /\ consumers' = SubSeq(consumers, 1, Len(consumers) - 1)
    /\ ctrlPc' = "up"
    /\ UNCHANGED <<inQ, workQ, outQ, readerNext, written, prodPc, prodItem,
                   consPc, consItem, isCancel, mainPc>>
-----------------------------------------------------------------------------
(* main.cpp:57-66: once reader->join() and writer->join() return (the    *)
(* reader has enqueued all n records, the writer dequeued them), main     *)
(* deletes the producers, the controller, the reader, the writer, the     *)
(* transformer and the three queues.  ~TSQueue (ts_queue.hpp:66-75)      *)
(* destroys each queue's condition variables and mutex.  No thread but    *)
(* these two is joined: the producers, the consumers and the controller  *)
(* keep running.                                                          *)
MainDelete ==
    /\ mainPc = "join"
    /\ readerNext > NItems
    /\ Len(written) = NItems
    /\ mainPc' = "deleted"
    /\ UNCHANGED <<inQ, workQ, outQ, readerNext, written, prodPc, prodItem,
                   consPc, consItem, isCancel, consumers, ctrlPc>>

(* return 0 (main.cpp:67): the process exits and every thread with it.   *)
MainReturn ==
    /\ mainPc = "deleted"
    /\ mainPc' = "exited"
    /\ UNCHANGED <<inQ, workQ, outQ, readerNext, written, prodPc, prodItem,
                   consPc, consItem, isCancel, consumers, ctrlPc>>

Main == MainDelete \/ MainReturn

(* After the process has exited nothing changes any more.                 *)
Exited == mainPc = "exited" /\ UNCHANGED vars

Reader == ReaderEnqueue
Writer == WriterDequeue
Producer(p) == ProdSeesItem(p) \/ ProdDequeue(p) \/ ProdEnqueue(p)
Consumer(c) ==
    \/ ConsContinue(c) \/ ConsExit(c) \/ ConsSeesItem(c) \/ ConsSeesEmpty(c)
    \/ ConsDequeue(c) \/ ConsEnqueue(c)
Controller ==
    \/ CtrlScaleUp \/ CtrlScaleUpStartFails \/ CtrlScaleUpAtBound
    \/ CtrlNotAbove \/ CtrlScaleDown \/ CtrlNoScale
    \/ CtrlCancelThread

Next ==
    \/ Reader
    \/ Writer
    \/ \E p \in Producers : Producer(p)
    \/ \E c \in ConsumerIds : Consumer(c)
    \/ Controller
    \/ Main
    \/ Exited

(* Every thread is a pthread the OS keeps scheduling: none of them stops  *)
(* for ever while it can take a step.                                     *)
Fairness ==
    /\ WF_vars(Reader)
    /\ WF_vars(Writer)
    /\ \A p \in Producers : WF_vars(Producer(p))
    /\ \A c \in ConsumerIds : WF_vars(Consumer(c))
    /\ WF_vars(Controller)
    /\ WF_vars(Main)

Spec == Init /\ [][Next]_vars
FairSpec == Spec /\ Fairness
-----------------------------------------------------------------------------
TypeOK ==
    /\ inQ \in Seq(Item) /\ workQ \in Seq(Item) /\ outQ \in Seq(Item)
    /\ Len(inQ) <= InCap /\ Len(workQ) <= WorkCap /\ Len(outQ) <= OutCap
    /\ readerNext \in 1 .. NItems + 1
    /\ written \in Seq(Item)
    /\ prodPc \in [Producers -> {"check", "deq", "enq"}]
    /\ prodItem \in [Producers -> Item \cup {NoItem}]
    /\ consPc \in [ConsumerIds ->
                     {"unborn", "nothread", "loop", "size", "deq", "enq",
                      "exited"}]
    /\ consItem \in [ConsumerIds -> Item \cup {NoItem}]
    /\ isCancel \in [ConsumerIds -> BOOLEAN]
    /\ consumers \in Seq(ConsumerIds)
    /\ ctrlPc \in {"up", "down", "cancel"}
    /\ mainPc \in {"join", "deleted", "exited"}

(* How many copies of record k the queues, the threads' hands and the     *)
(* writer hold.                                                           *)
CopiesIn(s, k) == Cardinality({i \in DOMAIN s : s[i].key = k})
CopiesHeld(f, S, k) == Cardinality({x \in S : f[x] # NoItem /\ f[x].key = k})
Copies(k) ==
    CopiesIn(inQ, k) + CopiesHeld(prodItem, Producers, k) + CopiesIn(workQ, k)
    + CopiesHeld(consItem, ConsumerIds, k) + CopiesIn(outQ, k)
    + CopiesIn(written, k)

(* Every record the reader has read is in exactly one place (a queue, one *)
(* thread's hands, or the writer's output) and none is invented; each has *)
(* been through exactly the transforms of the stages it has passed.  It   *)
(* is about the hand-offs between threads in Producer::process and        *)
(* Consumer::process and about a consumer being cancelled while it holds  *)
(* an item.                                                               *)
ExactlyOnce ==
    /\ \A k \in Keys : Copies(k) = IF k < readerNext THEN 1 ELSE 0
    /\ \A i \in DOMAIN inQ : inQ[i].val = << >>
    /\ \A i \in DOMAIN workQ : workQ[i].val = <<"A">>
    /\ \A p \in Producers : prodItem[p] # NoItem => prodItem[p].val = <<"A">>
    /\ \A c \in ConsumerIds :
          consItem[c] # NoItem => consItem[c].val = <<"A", "B">>
    /\ \A i \in DOMAIN outQ : outQ[i].val = <<"A", "B">>
    /\ \A i \in DOMAIN written : written[i].val = <<"A", "B">>

(* The controller's vector is the set of consumer threads that run        *)
(* uncancelled: every entry but a victim being removed is a live thread   *)
(* whose flag is clear, every live thread with a clear flag is in the     *)
(* vector, no id is in it twice, and once a consumer has been created    *)
(* the vector never becomes empty.  It is about the LIFO scale-down of    *)
(* ConsumerController::process: back() is cancelled and pop_back()ed.     *)
PoolMatchesThreads ==
    LET kept == Len(consumers) - (IF ctrlPc = "cancel" THEN 1 ELSE 0)
    IN  /\ \A i \in 1 .. kept :
              consumers[i] \in Running /\ ~isCancel[consumers[i]]
        /\ \A c \in Running :
              ~isCancel[c] => \E i \in 1 .. kept : consumers[i] = c
        /\ \A i, j \in DOMAIN consumers : i # j => consumers[i] # consumers[j]
        /\ Unborn # ConsumerIds => consumers # << >>

(* When cancel() calls pthread_cancel(this->t) the Consumer object it     *)
(* reads is still allocated.  The victim may already have seen is_cancel, *)
(* left its loop and run "delete consumer".                               *)
ControllerNeverTouchesFreedConsumer ==
    ctrlPc = "cancel" => consumers[Len(consumers)] \in Live

(* ~TSQueue has run on the three queues and the process still runs.      *)
QueuesDestroyed == mainPc = "deleted"

(* A thread is blocked inside a queue call when it has entered dequeue on *)
(* an empty queue or enqueue on a full one: it sits in pthread_cond_wait. *)
BlockedInQueue ==
    \/ \E p \in Producers :
          \/ prodPc[p] = "deq" /\ inQ = << >>
          \/ prodPc[p] = "enq" /\ Len(workQ) = WorkCap
    \/ \E c \in Running :
          \/ consPc[c] = "deq" /\ workQ = << >>
          \/ consPc[c] = "enq" /\ Len(outQ) = OutCap

(* When main deletes the queues, no thread is waiting on one of their     *)
(* condition variables: ~TSQueue calls pthread_cond_destroy               *)
(* (ts_queue.hpp:71-72), which POSIX leaves undefined while a thread is    *)
(* blocked on the variable.  main joins only the reader and the writer    *)
(* (main.cpp:57-58) before the deletes of main.cpp:66.                     *)
NoWaiterOnDestroyedQueue ==
    QueuesDestroyed => ~BlockedInQueue

(* The pipeline implements PipelineSpec: the reader's count, the records *)
(* read and not yet dequeued by the writer, and the writer's keys.  Every *)
(* hand-off of Producer::process and Consumer::process is a stutter of    *)
(* the abstract pipeline, so no record is duplicated, invented or         *)
(* delivered before it was read, whatever the races and cancellations.    *)
WrittenKeys == [i \in DOMAIN written |-> written[i].key]
PS == INSTANCE PipelineSpec WITH
        nread <- readerNext - 1,
        inflight <- {k \in Keys : k < readerNext} \
                      {written[i].key : i \in DOMAIN written},
        delivered <- WrittenKeys
PipelineRefinement == PS!Spec

(* Every record the reader reads eventually reaches the writer, as spec   *)
(* section 8 promises for the pipeline main() builds.                     *)
AllWritten == <>(Len(written) = NItems)

=============================================================================

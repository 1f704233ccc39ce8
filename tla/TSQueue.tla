------------------------------ MODULE TSQueue ------------------------------
(***************************************************************************)
(* TSQueue<T> of src/NTHU-OS-Pthreads/ts_queue.hpp: a ring buffer of      *)
(* buffer_size (here Cap) slots with head, tail and size, guarded by one  *)
(* pthread mutex and two condition variables, cond_enqueue (waited on by  *)
(* enqueue while the buffer is full) and cond_dequeue (waited on by       *)
(* dequeue while it is empty).                                            *)
(*                                                                         *)
(* Every access to buffer, head, tail and size in enqueue and dequeue is  *)
(* made with the mutex held, so the code between pthread_mutex_lock and   *)
(* pthread_cond_wait or pthread_mutex_unlock is one atomic step here; the *)
(* interleavings that remain are the ones the mutex allows: which caller  *)
(* gets the mutex next, a woken waiter against a newly arriving caller    *)
(* (barging), and spurious wakeups, which POSIX permits.                  *)
(*                                                                         *)
(* A thread's pc is "call" (about to lock and test the while condition),  *)
(* "wait" (blocked in pthread_cond_wait) or "relock" (woken, reacquiring  *)
(* the mutex to test the condition again).  Putters only call enqueue,    *)
(* with their own identity as the item; Takers only call dequeue.         *)
(***************************************************************************)
EXTENDS Integers

CONSTANTS Putters, Takers, Cap, NoItem, Uninit

ASSUME CapAssumption == Cap \in Nat \ {0}
ASSUME ThreadsAssumption ==
    /\ Putters \cap Takers = {}
    /\ NoItem \notin Putters
    /\ Uninit \notin Putters
    /\ Putters # {} /\ Takers # {}

Threads == Putters \cup Takers

VARIABLES buffer, head, tail, size, pc, got

vars == <<buffer, head, tail, size, pc, got>>

Slots == 0 .. Cap - 1

(* The callers blocked in pthread_cond_wait on each condition variable.   *)
WaitingEnq == {p \in Putters : pc[p] = "wait"}
WaitingDeq == {t \in Takers : pc[t] = "wait"}

(* Constructor, ts_queue.hpp:54-64: buffer = new T[buffer_size] (slots    *)
(* left unwritten), size = head = 0, tail = -1.                           *)
Init ==
    /\ buffer = [i \in Slots |-> Uninit]
    /\ head = 0
    /\ tail = -1
    /\ size = 0
    /\ pc = [t \in Threads |-> "call"]
    /\ got = [t \in Takers |-> NoItem]

(* The caller self returns from the operation (pc back to "call") and     *)
(* pthread_cond_signal wakes one waiter of the set S, if there is one.    *)
SignalAndReturn(S, self) ==
    IF S = {}
    THEN pc' = [pc EXCEPT ![self] = "call"]
    ELSE \E w \in S : pc' = [pc EXCEPT ![self] = "call", ![w] = "relock"]

(* The while condition holds: the caller releases the mutex and blocks.   *)
EnqueueWait(p) ==
    /\ pc[p] \in {"call", "relock"}
    /\ size = Cap
    /\ pc' = [pc EXCEPT ![p] = "wait"]
    /\ UNCHANGED <<buffer, head, tail, size, got>>

(* Mutant: tail advanced without the wrap-around % buffer_size.           *)
EnqueueDoNoWrap(p) ==
    /\ pc[p] \in {"call", "relock"}
    /\ size # Cap
    /\ tail' = tail + 1
    /\ buffer' = [buffer EXCEPT ![(tail + 1) % Cap] = p]
    /\ size' = size + 1
    /\ SignalAndReturn(WaitingDeq, p)
    /\ UNCHANGED <<head, got>>

(* enqueue, ts_queue.hpp:85-89, once the buffer has room.                 *)
EnqueueDo(p) ==
    /\ pc[p] \in {"call", "relock"}
    /\ size # Cap
    /\ tail' = (tail + 1) % Cap
    /\ buffer' = [buffer EXCEPT ![(tail + 1) % Cap] = p]
    /\ size' = size + 1
    /\ SignalAndReturn(WaitingDeq, p)
    /\ UNCHANGED <<head, got>>

DequeueWait(t) ==
    /\ pc[t] \in {"call", "relock"}
    /\ size = 0
    /\ pc' = [pc EXCEPT ![t] = "wait"]
    /\ UNCHANGED <<buffer, head, tail, size, got>>

(* Mutant: "if" instead of "while" -- a woken waiter does not re-test     *)
(* size == 0 before it dequeues.                                          *)
DequeueDoIfNotWhile(t) ==
    /\ \/ pc[t] = "relock"
       \/ pc[t] = "call" /\ size # 0
    /\ got' = [got EXCEPT ![t] = buffer[head]]
    /\ head' = (head + 1) % Cap
    /\ size' = size - 1
    /\ SignalAndReturn(WaitingEnq, t)
    /\ UNCHANGED <<buffer, tail>>

(* Mutant: dequeue signals cond_dequeue instead of cond_enqueue.          *)
DequeueDoWrongCond(t) ==
    /\ pc[t] \in {"call", "relock"}
    /\ size # 0
    /\ got' = [got EXCEPT ![t] = buffer[head]]
    /\ head' = (head + 1) % Cap
    /\ size' = size - 1
    /\ SignalAndReturn(WaitingDeq, t)
    /\ UNCHANGED <<buffer, tail>>

(* Mutant: dequeue returns buffer[tail], the newest item.                 *)
DequeueDoNewest(t) ==
    /\ pc[t] \in {"call", "relock"}
    /\ size # 0
    /\ got' = [got EXCEPT ![t] = buffer[tail]]
    /\ head' = (head + 1) % Cap
    /\ size' = size - 1
    /\ SignalAndReturn(WaitingEnq, t)
    /\ UNCHANGED <<buffer, tail>>

(* dequeue, ts_queue.hpp:100-105, once the buffer is non-empty.           *)
DequeueDo(t) ==
    /\ pc[t] \in {"call", "relock"}
    /\ size # 0
    /\ got' = [got EXCEPT ![t] = buffer[head]]
    /\ head' = (head + 1) % Cap
    /\ size' = size - 1
    /\ SignalAndReturn(WaitingEnq, t)
    /\ UNCHANGED <<buffer, tail>>

(* pthread_cond_wait may return without a signal.                         *)
SpuriousWakeup(t) ==
    /\ pc[t] = "wait"
    /\ pc' = [pc EXCEPT ![t] = "relock"]
    /\ UNCHANGED <<buffer, head, tail, size, got>>

Next ==
    \/ \E p \in Putters : EnqueueWait(p) \/ EnqueueDo(p)
    \/ \E t \in Takers : DequeueWait(t) \/ DequeueDo(t)
    \/ \E t \in Threads : SpuriousWakeup(t)

Spec == Init /\ [][Next]_vars
-----------------------------------------------------------------------------
(* The queue's contents as the code's ring buffer holds them, oldest      *)
(* first: the size slots from head onwards, modulo Cap.                   *)
Contents == [i \in 1 .. size |-> buffer[(head + i - 1) % Cap]]

TypeOK ==
    /\ buffer \in [Slots -> Putters \cup {Uninit}]
    /\ head \in Slots
    /\ tail \in -1 .. Cap - 1
    /\ size \in Int
    /\ pc \in [Threads -> {"call", "wait", "relock"}]
    /\ got \in [Takers -> Putters \cup {NoItem, Uninit}]

(* The ring buffer is consistent: the occupancy stays within [0, Cap] and *)
(* tail is the slot just before head + size, so enqueue writes the slot   *)
(* after the newest item and dequeue reads the oldest.  A woken waiter    *)
(* that did not re-test the condition (if instead of while) breaks it.    *)
RingInv ==
    /\ size \in 0 .. Cap
    /\ (tail + 1) % Cap = (head + size) % Cap

(* No lost wakeup: while the buffer holds an item, not every dequeuer is  *)
(* asleep on cond_dequeue, and while it has room, not every enqueuer is   *)
(* asleep on cond_enqueue.  It fails if a signal goes to the wrong        *)
(* condition variable or is dropped.                                      *)
NoLostWakeup ==
    /\ size > 0 => \E t \in Takers : pc[t] # "wait"
    /\ size < Cap => \E p \in Putters : pc[p] # "wait"

(* TSQueue implements the atomic bounded FIFO of QueueSpec: every         *)
(* dequeue returns the oldest item enqueued and not yet dequeued, in the  *)
(* order the mutex serialised the enqueues, whoever made them.            *)
QS == INSTANCE QueueSpec WITH q <- Contents
QueueRefinement == QS!Spec
=============================================================================

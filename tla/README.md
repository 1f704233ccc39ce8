# Formal models of the NTHU_OS Pthreads pipeline

TLA+ models, TLC runs and TLAPS proofs for the concurrent pipeline in
`src/NTHU-OS-Pthreads/` (with `src/unnamed/part_001`, the producer) and for
the chained file header of `src/unnamed/part_000` (`filehdr.cc`). The
pipeline is: Reader → input queue → four Producers → worker queue → a pool of
Consumers that the ConsumerController resizes → output queue → Writer; main
starts it, joins the reader and the writer, and deletes everything.

## 1. Inventory

| Component | Source | State | Operations |
|---|---|---|---|
| TSQueue<T> | `ts_queue.hpp:1-120` | `buffer[buffer_size]`, `head`, `tail` (starts at -1), `size`, one mutex, condition variables `cond_enqueue` / `cond_dequeue` | constructor, `enqueue` (waits while full, signals `cond_dequeue`), `dequeue` (waits while empty, signals `cond_enqueue`), `get_size` (reads `size` **without** the lock) |
| Producer | `part_001` | input/worker queue pointers | busy loop: `if (get_size() > 0)`, then dequeue, `producer_transform`, new Item, enqueue |
| Consumer | `ts_queue.hpp:121-196` (appended to the queue header) | `is_cancel` (plain bool), thread handle `t` | `start`; `cancel` = set `is_cancel`, then `pthread_cancel(this->t)`; loop: test flag, disable cancellation, `if (get_size() > 0)` dequeue/transform/enqueue, enable cancellation; after the loop `delete consumer` (it frees itself) |
| ConsumerController | `consumer_controller.hpp` | `std::vector<Consumer*> consumers` (starts **empty**), thresholds | tick: `usleep`, if size/cap > high% create+start+`push_back`; else if size/cap < low% and more than one consumer, `back()->cancel()` and `pop_back()` |
| main | `main.cpp` | the three queues (200/200/4000), thresholds 20/80 | build and start everything; join reader and writer; delete everything (the queues' destructors included) while the other threads still run; `return 0` ends the process |
| Reader, Writer, Transformer, Item | not under `src/` | — | described by the spec: the reader enqueues n records, the writer dequeues n |
| FileHeader | `part_000` (`filehdr.cc`) | `numBytes`, `numSectors`, `dataSectors[NumDirect]`, `next_fileheader_sector`, the in-memory `next_fileheader` | `Allocate` (takes data sectors from the free map, chains a next header when the file is too long), `Deallocate`, `ByteToSector`, `FileLength`, `find_size`; `FetchFrom`/`WriteBack`/`Print` not modelled (§6) |
| syscalls | `part_000` | — | one-line forwards to the kernel, not modelled (§6) |

**Interactions.** The threads share only the three queues (mutex-protected
apart from `get_size`), the controller's vector (touched only by the
controller) and each consumer's `is_cancel` (written by the controller, read by
the consumer) and the consumer object itself, which the consumer frees.

**What is hard.** Unlocked size tests followed by blocking calls (a stale
check), condition-variable wakeups with barging and spurious wakeups,
cancellation racing with the window in which a consumer holds an item, a
consumer deleting itself while the controller is still calling into it, and
a pool that starts at zero and grows only on high occupancy.

**Properties that make it correct.** TSQueue: occupancy in [0, cap], the ring
indices consistent, no lost wakeup, FIFO order (the queue implements an
atomic bounded FIFO). Pipeline: every record read is in exactly one place
and has been transformed once per stage it passed; the controller's vector is
exactly the running uncancelled consumers; the controller never touches a
freed consumer; every record eventually reaches the writer.

PROJECT.json's `hazards` lists each hard-to-test spot at its line, with the
properties that cover it.

## 2. Modules

* **QueueSpec** — abstract promise of TSQueue: `q` a sequence, atomic `Put`
  (when `Len(q) < Cap`) and `Take` (returns `Head(q)`).
* **TSQueue** — the ring buffer and monitor. A critical section (from
  `pthread_mutex_lock` to `pthread_cond_wait` or to the unlock) is one atomic
  step, which is sound because every access to the queue's fields in
  `enqueue`/`dequeue` is under the mutex. A thread's `pc` is `call`, `wait`
  (inside `pthread_cond_wait`) or `relock` (woken, re-testing the `while`).
  Actions: `EnqueueWait`, `EnqueueDo`, `DequeueWait`, `DequeueDo` (each with
  `SignalAndReturn`, the `pthread_cond_signal` + unlock), `SpuriousWakeup`.
  Putters enqueue their own id, so the contents show whose call was serialised
  first. `Contents` maps the ring to a sequence; `QS == INSTANCE QueueSpec WITH
  q <- Contents` and `QueueRefinement == QS!Spec`.
* **PipelineSpec** — abstract promise of the pipeline: records are read in
  order 1..NItems into an in-flight set and each is delivered to the output
  exactly once (`Read`, `Deliver(k)`), in any order.
* **Pipeline** — the whole pipeline over atomic blocking queues (justified by
  TSQueue refining QueueSpec). Each unlocked `get_size()` (`GetSize`) is a
  step of its own (`ProdSeesItem`, `ConsSeesItem`/`ConsSeesEmpty`,
  `CtrlScaleUp`/`CtrlNotAbove`, `CtrlScaleDown`/`CtrlNoScale`), so the value
  may be stale when used. `Consumer::cancel` is split into its two
  statements: `CtrlScaleDown` sets the flag, `CtrlCancelThread` is the
  `pthread_cancel(this->t)` read plus `pop_back`. The `pthread_cancel`
  request itself never acts: the consumer disables cancellation around every
  cancellation point it reaches (`pthread_cond_wait` inside
  dequeue/enqueue), and the enabled stretch contains none.
  `Consumer::start` ignores the result of `pthread_create`: with
  `CreateMayFail` the controller may take `CtrlScaleUpStartFails`, which
  pushes the consumer although no thread runs it (`consPc = "nothread"`;
  `Running` excludes it). `CtrlScaleUpAtBound` is the scale-up decision when
  the model's `MaxConsumers` ids are used up (a stutter; the code's vector is
  unbounded). main is `mainPc`: `MainDelete` (after both joins: the reader has
  read all and the writer written all) runs the destructors of the queues,
  `MainReturn` ends the process, after which only the stutter `Exited` is
  possible; every thread action is guarded by `Alive`. Items are
  `[key, val]`, `val` the list of stages applied. The threshold tests
  `(double)size/cap > (double)high/100` are cross-multiplied
  (`size*100 > high*cap`): the operands are small integers, so the doubles
  compare exactly as the rationals do. `PS == INSTANCE PipelineSpec WITH
  nread <- readerNext - 1, inflight <- keys read and not yet written,
  delivered <- the keys of written` gives `PipelineRefinement == PS!Spec`.
* **FileHeader** — `filehdr.cc`. The free map is the set `used`; a file is
  the chain of headers `hdr[f]` linked from its first header. `Allocate` is
  a recursive operator that follows the code's recursion: `numBytes` capped
  at `MaxFileSize`, the `NumClear` test, `numSectors` `FindAndSet` calls
  (`DataSectors`: the lowest clear sectors, in order), then, if bytes remain,
  `FindAndSet` for the next header and the recursive call; it returns the
  result, the free map and the chain, and keeps every bit it has set when it
  returns FALSE. `Deallocate` clears the data sectors of every header of the
  chain. `ByteToSector` and `find_size` recurse along the chain as the code
  does. The caller (FileSystem) is not in the repository: `AllocateCall` and
  `DeallocateCall` are a client that allocates a fresh header with any size
  up to `MaxSize` and deallocates an allocated one (spec_modelled). The
  module declares RECURSIVE operators, so it is for TLC only.
* **MCTSQueue**, **MCPipeline**, **MCFileHeader** — model values and
  constants for TLC.
* **TSQueueProofs** — TLAPS proofs about TSQueue.
* **PipelineProofs** — TLAPS proofs of Pipeline's type, pool and
  exactly-once invariants.
* **PipelineRefinementProofs** — TLAPS proof that Pipeline implements
  PipelineSpec. It extends PipelineProofs.

## 3. Runs

| Run | Config | Bounds | Shows |
|---|---|---|---|
| tsqueue_safety | MCTSQueue.cfg | 2 putters, 2 takers, Cap 2 (4 777 states) | TypeOK, RingInv, NoLostWakeup, QueueRefinement hold |
| pipeline_safety | MCPipeline.cfg | n=3, 2 producers, ≤3 consumers, all caps 2, thread creation may fail (≈205 000 states) | TypeOK, ExactlyOnce hold, with failed thread creation and teardown |
| pipeline_pool | MCPipeline_pool.cfg | as above, creation never fails (≈119 000 states) | PoolMatchesThreads holds |
| pipeline_liveness | MCPipeline_live.cfg | n=2, creation never fails (≈14 900 states) | AllWritten holds under fairness; Pipeline refines PipelineSpec |
| pipeline_stall | MCPipeline_stall.cfg | n=1 | AllWritten **violated** (finding 1) |
| pipeline_cancel_uaf | MCPipeline_uaf.cfg | n=2 | ControllerNeverTouchesFreedConsumer **violated** (finding 2) |
| pipeline_start_fails | MCPipeline_startfail.cfg | n=2, creation may fail | PoolMatchesThreads **violated** (finding 3) |
| pipeline_teardown | MCPipeline_teardown.cfg | n=2 | NoWaiterOnDestroyedQueue **violated** (finding 4) |
| fileheader_safety | MCFileHeader.cfg | 8 sectors of 2 bytes, 2 direct entries, 2 files, sizes 0..9 (≈23 800 states) | TypeOK, ByteToSectorMatchesLayout, NoSectorShared hold, chains of up to 3 headers and failed Allocates included |
| fileheader_dealloc_leak | MCFileHeader_dealloc.cfg | 8 sectors, sizes 0..5 | SectorsAccounted **violated** (finding 5) |
| fileheader_alloc_fail | MCFileHeader_allocfail.cfg | 4 sectors | SectorsAccounted **violated** (finding 6) |

**Why the bounds suffice.** Cap 2 with two threads per side lets a woken
waiter be barged, lets both waiters of one condition variable be woken by
successive signals, and wraps the ring indices. In the pipeline a two-slot
worker queue with the real 20 %/80 % thresholds makes both scale events
reachable (full: 200 > 160; empty: 0 < 40); three consumers allow two
scale-ups and a scale-down while the victim holds an item or is blocked;
three records let producers and consumers race for items, and a producer can
still be blocked on the empty input queue when main deletes it. In
FileHeader, 2 direct entries of 2 bytes make a header hold 4 bytes, so sizes
up to 9 need three chained headers, and 8 sectors let one file take most of
the disk so that the second file's Allocate fails part-way.

**Fairness.** Weak fairness per thread (reader, writer, each producer, each
consumer, controller, main): they are pthreads the OS keeps scheduling, and
each busy loop re-tests its condition. Every thread action carries the
`Alive` guard, so after `return 0` no action is enabled and the fairness
conditions are met. No fairness is assumed for spurious wakeups.

**Findings.**
1. *pipeline_stall*: the controller's vector starts empty and consumers are
   created only above the high threshold. With n=1 the worker queue never
   exceeds 80 %, so no consumer exists and the writer waits for ever. With
   main.cpp's 200-slot worker queue this happens for any n ≤ 160. The spec
   requires a pool of at least one and delivery of all N items.
2. *pipeline_cancel_uaf*: `cancel()` sets `is_cancel`, and then calls
   `pthread_cancel(this->t)`. In between, the victim can test the flag, leave
   its loop and `delete consumer`, so `this->t` is read from freed memory.
3. *pipeline_start_fails*: `Consumer::start` ignores the result of
   `pthread_create`, and the controller pushes the consumer anyway: the
   vector then holds a consumer that no thread runs. The spec says a failed
   creation is absorbed and retried on the next tick and that the pool holds
   live workers.
4. *pipeline_teardown*: main deletes the queues after joining only the reader
   and the writer. A producer still blocked in `dequeue` on the empty input
   queue (its `get_size` test was stale) waits on a condition variable that
   `~TSQueue` destroys.
5. *fileheader_dealloc_leak*: `Deallocate` clears the data sectors of every
   header of the chain but never the sectors that hold the chained headers
   (`next_fileheader_sector`): they stay marked for ever.
6. *fileheader_alloc_fail*: an `Allocate` that returns FALSE part-way keeps
   the data and header sectors it already set in the free map; the caller
   has no header to deallocate them with. The comment promises FALSE when
   there is not enough room, but only the current header's sectors are
   tested before the recursion.

Every property of a passing run has a mutant in PROJECT.json: a plausible
bug in the mapped definition that TLC catches (missing index wrap,
`if` instead of `while`, signalling the wrong condition variable, reading
the newest slot, an off-by-one full test in the producer's enqueue,
cancellation acting while a consumer holds an item, cancelling `front()`
instead of `back()`, a `> 1` size test, a dequeue that leaves the item in
the queue, sectors taken without testing their bits, `numBytes` not capped,
the wrong offset for a chained header).

## 4. Proofs (TSQueueProofs, PipelineProofs, PipelineRefinementProofs)

### TSQueueProofs

All theorems hold for every `Cap ∈ Nat \ {0}` and all disjoint sets of
enqueuing and dequeuing threads (assumptions `CapAssumption`,
`ThreadsAssumption` in TSQueue; NoLostWakeup also needs both sets non-empty,
which the assumption states).

* `TypeCorrect`: `Spec => []TypeOK`.
* `RingInvariant`: `Spec => []RingInv`. RingInv, `(tail+1) % Cap =
  (head+size) % Cap`, is not directly usable by the provers (Z3 cannot
  reason about congruences modulo a symbolic Cap). The inductive invariant
  `IInv` is TypeOK plus `size ∈ 0..Cap` plus the linear `RingLinear`:
  `(tail+1) - (head+size) ∈ {-Cap, 0, Cap}`. Its preservation splits on
  whether the advanced index wraps (`ModWrap`); `IInvRing` recovers the
  modular form with `ModWrap` and `ModOnce`.
* `NoLostWakeupInvariant`: `Spec => []NoLostWakeup` — whenever the ring
  holds an item some dequeuer is not waiting, and whenever it has room some
  enqueuer is not waiting. It is inductive together with TypeOK. The lemma
  `SignalEffect` states what `SignalAndReturn` does: the caller leaves
  `wait`, threads outside the signalled condition keep their pc, and if any
  thread waits on it one of them is woken. `NextNoLostWakeup` has one step
  per action; a completed enqueue or dequeue is split on whether anyone
  waits on the condition it signals.
* `Implementation`: `Spec => QueueRefinement`, i.e. TSQueue implements
  QueueSpec under `q <- Contents`. `ModIdx`, `FreeSlot` and `HeadShift`
  relate the ring's indices modulo Cap; `EnqueueRefines` shows that
  `EnqueueDo` appends the caller's id to `Contents` (a `QS!Put`),
  `DequeueRefines` that `DequeueDo` takes its head (a `QS!Take`), and
  `WaitStutters` that waits and wakeups leave `Contents` unchanged.

### PipelineProofs

* `PoolInvariant`: `ASSUME ~CreateMayFail PROVE Spec => []PoolMatchesThreads`,
  for every value of the constants that `PipelineAssumption` admits (any
  number of records, producers and consumer ids, any capacities, any
  thresholds with low < high). The hypothesis is needed: finding 3 shows the
  property fails when `pthread_create` may fail.
  PoolMatchesThreads is not inductive: a scale-up could append an id that is
  already in the vector, and `pop_back` could remove an entry that is not
  the victim. The inductive `IPool` adds that no Consumer object is left
  without a thread, that every entry of the vector has been constructed, that
  an unconstructed consumer has a clear flag, and that while the controller
  is between `cancel()` and `pop_back` the vector has at least two entries
  and its last one is flagged. TLC checked IPool as an invariant on the
  pool instance (119 012 states) before the proof. `LeastExists` (from
  `WFMin` and `NatLessThanWellFounded`) shows that the CHOOSE of
  `CtrlScaleUp` picks an unconstructed id. `PoolFrame` covers every step that
  leaves the pool's variables alone. `ConsStep` and `ConsExitStep` cover the
  consumer. `ScaleUpStep`, `ScaleDownStep`, `CancelThreadStep` and `TickStep`
  cover the controller. `NextPool` has one case per action.
* `ExactlyOnceInvariant`: `Spec => []ExactlyOnce`, for every value of the
  constants, with `CreateMayFail` TRUE or FALSE. It rests on two more
  assumptions of Pipeline: `NoItemAssumption` (the empty-slot value
  `NoItem` is not an item) and `IsFiniteSet(Producers)` (in
  `PipelineAssumption`). ExactlyOnce is not inductive on its own: a
  producer or consumer at `"enq"` must hold an item, or its enqueue would
  append `NoItem`. The inductive invariant `IOnce` is TypeOK, `HeldInv`
  (a slot holds an item exactly at `"enq"`) and ExactlyOnce.
  `TypeHeldStep` shows that every step keeps TypeOK and HeldInv. The
  counting lemmas cover the hand-offs:
  * `CountAppend` and `CountTail` give the count of a key in a queue after
    an enqueue or a dequeue. CountTail uses a bijection between the
    positions before and after the dequeue (`FS_Bijection`).
  * `HeldSet` and `HeldClear` give the count after a thread's slot is
    filled or emptied. They are stated over `SetSlot(f, x, v)`, a name for
    `[f EXCEPT ![x] = v]`. The provers could not match an EXCEPT
    expression inside a quantified lemma against the step's own.
  * The per-action lemmas combine them into `Copies(k)' = Copies(k)`:
    `ProdDequeueCopies`, `ProdEnqueueCopies`, `ConsDequeueCopies`,
    `ConsEnqueueCopies` and `WriterCopies`. `ReaderCopies` adds one copy
    of record `readerNext`. `FrameCopies` covers every step that moves no
    record.

  `CountsStep` gathers the per-action lemmas over Next. `ValsStep` shows
  that the stage histories (`ValsOK`) are kept. It uses `TailVals` and
  `AppendVals`, which say what a dequeue and an enqueue do to the
  histories of a queue, and `HistoryAB`. `InitOnce` and `NextOnce`
  close the induction. TLC checked IOnce as an invariant of MCPipeline
  with `CreateMayFail` TRUE (205 570 states) before the proof.
* `TypeInvariant`: `Spec => []TypeOK`, for every value of the constants.
  TypeOK is not inductive on its own, for the same reason: an enqueue at
  `"enq"` must not append `NoItem`. The proof uses `TypeOK /\ HeldInv`
  and `TypeHeldStep`. `OnceInvariant` (`Spec => []IOnce`) is the form
  the refinement proof uses.

### PipelineRefinementProofs

* `Refinement`: `Spec => PipelineRefinement`, for every value of the
  constants, with `CreateMayFail` TRUE or FALSE. `PipelineRefinement` is
  `PS!Spec`, the safety part of PipelineSpec under Pipeline's mapping.
  The proof rests on `IOnce`.
  * `RefInit`: the initial state maps to PipelineSpec's.
  * `RefReader`: `ReaderEnqueue` is `PS!Read`. Record `readerNext` is new
    to the in-flight set because every written key is below `readerNext`
    (`WrittenRead`).
  * `RefWriter`: `WriterDequeue` is `PS!Deliver` of the head's key.
    `HeadUnwritten` shows that this key has been read and not yet
    written. A key held in both `output_queue` and `written` would count
    two copies, which ExactlyOnce forbids (`CountPos`, `CopiesParts`).
    `KeySeq` says the keys of `written` form a sequence of the same
    length, so appending a record appends its key.
  * `RefStep`: every other action leaves `readerNext` and `written`
    unchanged, so it is a stutter.

Only model-checked: AllWritten, the properties of the violation runs,
and every FileHeader property. FileHeader
declares RECURSIVE operators (Allocate, ByteToSector, FindSize), which
take tlapm's SMT backend away, and what a recursive definition computes for
every input would need induction over data, which the installed provers
cannot instantiate. Liveness (AllWritten under `Fairness`) needs
reasoning about ENABLED and weak fairness, which is out of TLAPS's reach
in this setting, so it stays with TLC. PipelineSpec has no fairness, so
its refinement is a safety property and is proved.

## 5. Plan for the next sittings

1. Further action properties of the pipeline from `IOnce`, for example
   that the writer only ever receives fully transformed records.
2. A property for the consumer that passes `get_size() > 0`
   (`ts_queue.hpp:180`) and then blocks in dequeue because another consumer
   took the item. The model reaches this state, but no run checks it yet.
   A cancelled consumer in this state never reaches its flag test, and the
   process can end while it is still blocked.
3. FileHeader with the header sector of each file allocated by the client,
   to check that `FetchFrom`/`WriteBack` would round-trip once the layout of
   `filehdr.h` is known.

## 6. Not modelled

* Transformer and Item: not in `src/`; abstracted to stage tags.
* Reader and Writer: not in `src/`; modelled from the spec (spec_modelled).
* The system-call stubs in `part_000`: one-line forwards to kernel objects
  outside `src/`.
* `FileHeader::FetchFrom`/`WriteBack`: they copy the object's raw bytes to
  and from a sector; the layout lives in `filehdr.h`, which is not in the
  repository, and the disk is outside it, so there is nothing to check
  beyond the identity. `Print` and `find_length` only print.
* The FileSystem that calls FileHeader: not in the repository; a client
  stands in for it.
* `delete buffer` on an array made with `new[]` (`ts_queue.hpp:70`):
  undefined behaviour a sanitizer reports; it changes no state the model
  has.
* Torn or arbitrarily old reads of `size` by `get_size()`
  (`ts_queue.hpp:111`), which reads it without the mutex: each read returns
  the size at the step that reads it, so no property can catch a torn
  value.
* The unbounded consumer vector: bounded by `MaxConsumers` (see
  `CtrlScaleUpAtBound`).
* Timing (`usleep(check_period/1000)` sleeps 1 ms, not the documented period)
  and logging are left out; no property depends on them.

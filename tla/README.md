# Verification of the KV cache path of vLLM with TurboQuant on Ascend

The repository is vLLM 0.20.2 and its Ascend plugin 0.20.2rc1, extended by a
4-bit TurboQuant KV cache. This project models the path a token takes from the
scheduler to the bytes of the cache and back: which request is scheduled, which
blocks it gets, what the worker computes from its copy of the requests, which
slot the key and the value go to, how they are packed, and what attention reads.
It also models what carries the calls: the executor that drives the worker
processes, and the shared-memory queue between them. TLC checks the models on
small instances. TLAPS proves, for all constants, safety properties of the
KV-cache manager, the scheduler inside the engine, the free-block list, the
executor, the message queue, the codec, the paged cache and the TurboQuant set-up.

## 1. The system

| part | state | operations | interacts with |
|---|---|---|---|
| free-block list (`kv_cache_utils.py`) | links of the blocks, counter | popleft, popleft_n, remove, append, append_n | block pool |
| block pool (`v1/core/block_pool.py`) | reference counts, free queue, block hashes, hash map | get_new_blocks, touch, free_blocks, cache_full_blocks, evict_blocks, reset_prefix_cache | KV-cache manager |
| KV-cache manager (`kv_cache_manager.py`, `kv_cache_coordinator.py`, `single_type_kv_cache_manager.py`) | block tables, number of hashed blocks per request | get_computed_blocks, allocate_slots, cache_blocks, free, evict_blocks, reset_prefix_cache | block pool, scheduler |
| scheduler (`sched/scheduler.py`, `async_scheduler.py`) | waiting and running queue, status, placeholders, discard flags, finished ids | schedule, _preempt_request, _update_after_schedule, update_from_output, add_request, finish_requests, reset_prefix_cache | KV-cache manager, engine core |
| engine core (`v1/engine/core.py`) | batch queue, input and abort queues | step, step_with_batch_queue, reset_prefix_cache, busy loop | scheduler, executor, clients |
| model runner (`gpu_model_runner.py`, Ascend `model_runner_v1.py`) | cached request states, persistent batch, device-side sampled tokens, KV cache | _update_states, _prepare_inputs, execute_model, _bookkeeping_sync | engine core, attention |
| persistent batch (`gpu_input_batch.py`, `attention/backends/utils.py`) | rows of the batch | add_request, remove_request, condense, swap_states, reorder_batch_to_split_decodes_and_prefills | model runner |
| multiprocess executor (`multiproc_executor.py`) | futures, reply queues, worker and output loops, failure and shutdown flags | collective_rpc, FutureWrapper.result, worker_busy_loop, monitor_workers, shutdown | engine core, message queue |
| message queue (`shm_broadcast.py`) | ring of chunks with flags, sockets, position of each process | wait_until_ready, enqueue, dequeue, shutdown | executor, workers |
| TurboQuant set-up (`arg_utils.py`, `attention.py`, `modelslim_config.py`, `turboquant.py`, `kv_c8.py`, `kv_cache_utils.py`, slot-size patch and class surgery in `model_runner_v1.py`) | skip list, slot-size patch, attributes of a layer, implementation class, specs and shapes of the caches | create_engine_config, import of the model runner, Attention.\_\_init\_\_, get_kv_cache_spec, get_kv_cache_groups, _reshape_kv_cache_tensors | all parts, by attributes of the layer |
| TurboQuant codec and paged cache (`turboquant_ops.py`, `attention_turboquant_v1.py`) | bytes of every slot | store_turboquant_kv, dequant_paged_kv | block tables, slot mapping |

What makes it hard: with async scheduling a batch is planned before the tokens
of the previous one are known; blocks are hashed before they are computed, and
shared in the same pass; a request may be preempted, aborted, stopped or reset
while its tokens are in flight; the worker keeps a copy of each request that it
is sent only differences for, in rows that move; replies of workers carry no
call id; the message queue has no lock; and the TurboQuant set-up is a chain of
steps in several files that find each other through attributes. `PROJECT.json` lists
these hazards line by line, with the properties that cover them and, in a note,
what those leave out.

## 2. Modules

    BlockPool <- KVCacheManager <- Scheduler <- EngineCore      (EXTENDS)
                      InputBatch <- ModelRunner <- EngineCore   (EXTENDS, INSTANCE)
    BlockQueue <- FreeBlockQueue                                (INSTANCE)
    BroadcastQueue <- MessageQueue                              (INSTANCE)
    MultiprocExecutor
    TurboQuantOps <- TurboQuantLayer, TurboQuantCache           (EXTENDS)

* **BlockPool**: the pool as a record; each method is an operator from pool to
  pool, so that the manager's methods compose them into one step, as the
  single-threaded Python does. The free queue is a sequence.
* **FreeBlockQueue**: the linked list that the sequence stands for, with its fake
  head and tail. **BlockQueue** is the sequence with the operations that
  BlockPool uses. `ImplementsQueue` is the refinement; the abstract queue is what
  a walk along the links finds. A call that raises changes nothing.
* **KVCacheManager**: one full-attention group, the configuration TurboQuant
  runs in. Its environment is any scheduler that admits, grows, commits, appends
  and frees. A block hash is the token prefix it is computed from, that is, a
  hash without collisions. `get_cached_block` may return any block cached under
  a hash. `Spec` includes `evict_blocks`; `LocalSpec`, without it, is the
  manager in an engine without a KV connector.
* **Scheduler**: each iteration of the loops in `schedule()` and
  `update_from_output()` is an action; `pc` says where the engine is.
  `pass` holds the locals of `schedule()`, `todo` the outputs not handled yet.
  The removal of stopped requests from the queues, which the code collects and
  makes after its loop, is made with the request's own iteration; the loop
  does not look at the queues in between.
* **ModelRunner**: an entry of the KV cache stands for the text it was computed
  from, and the sampled token is a function of the text that attention finds.
  A wrong block table, input token or slot gives a text that is not the
  request's, and the output shows it. `Junk` matches no text. The tokens that
  the host does not know yet are taken from the device by row, as one slice if no
  row has moved.
* **InputBatch**: the rows as a function on indices; removal, refilling,
  condensing and the cycles of swaps that put decodes first.
* **EngineCore**: composes scheduler and worker. A worker step is taken only
  where the engine thread looks at the queue: the worker shares nothing else
  with the engine, so its steps commute with all others.
* **MessageQueue**: every access to shared memory or to a socket is a step, as
  the writer and the readers run in processes of their own. A chunk has a header
  and a body, so that a read that overlaps a write shows. **BroadcastQueue** is
  the log that callers rely on: every reader gets each message once and in order.
* **MultiprocExecutor**: the main thread, the monitor thread, and a busy loop and
  an output thread per worker. It uses its queues as BroadcastQueue specifies
  them. The test and setting of `shutting_down` is one step here; that both
  threads pass the test before either sets the flag is not represented.
* **TurboQuantOps**: slot size, packing, fp16 bytes and midpoint quantisation.
  Coordinates are integers in a fixed-point scale; the norm is the int16 with the
  bits of the fp16. `int16` keeps the width of the shift in `bytes_to_fp16`.
* **TurboQuantCache**: the paged cache of one layer and head. Its block-table
  actions are what the KV-cache manager guarantees: a new block is in nobody's
  table (FreeQueueIsExact), a hit consists of full blocks of the same tokens
  (SharedBlocksAgree). `HasSlots` assumes more than OneWriterPerBlock: a request
  writes only to blocks that no other request has. A sharer of a block that the
  same batch still fills is therefore not represented here, but in EngineCore.
  Rows of the block-table tensor may have anything behind the request's blocks.
* **TurboQuantLayer**: the set-up from engine arguments to the first forward
  pass, one action per stage. What is chosen at the start is the record `given`:
  number of layers, head size, which layers have a sliding window, the preset,
  hybrid model or not, hybrid cache manager on or off, what the checkpoint's
  quantisation config has for attention (nothing, ModelSlim weights only, fa or
  indexer scales, C8 as producer or not), and whether `turboquant_ops` can be
  imported. `_patch_tq_slot_size` and the class surgery both give up silently if
  it cannot. `specs` is first what each layer reports and then what the grouping
  makes of it. The exceptions of the code are the variable `error`. The `fp8`
  override of `attention.py:232-238` is left out: it needs a quantisation config
  with a `kv_cache_scheme`, and neither of the two that the Ascend platform
  supports (`platform.py:106`) has one.

`MC*` modules and the `.cfg` files give constants; `*Proofs` modules hold the
theorems. Definitions introduced by "Variant:" are faulty forms of the definition
after them. They take part in no specification; they show that a property would
notice the fault.

## 3. What the runs check

| run | instance | properties | result |
|---|---|---|---|
| kv_manager | 2 requests, 3 usable blocks of 2 tokens, lengths up to 4, 1 lookahead slot | FreeQueueIsExact, HashMapAgrees, SharedBlocksAgree, CachedBlocksAreFull, OneWriterPerBlock, AllocationNeverRaises, BlockTablesAppendOnly | hold; 271,080 states |
| block_queue | 4 blocks, all calls and all lists of blocks | ImplementsQueue | holds; 326 states |
| engine_async | 3 requests, 3 usable blocks, budget 3, prefill threshold 2, 2 batches under way | EngineTypeOK, QueuesAgreeWithStatus, ArrivalOrderIsKept, ScheduleAssertionsHold, PlaceholdersMatchInFlight, OutputIsModelText, CachedEntriesAreRight, WorkerKnowsRequests, WorkerForgetsFinished, RowsAgreeWithStates, DecodesComeFirst, CachedChainsStayReachable | hold; 1,368,995 states up to symmetry |
| engine_live | 2 requests, with and without batch queue, whole-prompt admission, one request that skips reading the cache, one reset, forced or not | ForcedResetSucceeds, QueuesAgreeWithStatus, WorkerKnowsRequests, OutputSurvivesResets, RefinesKVCacheManager, EveryRequestFinishes | hold; 564,893 states |
| engine_reset_output | 2 requests, 2 batches under way, one reset | OutputIsModelText | **violated** |
| message_queue | 3 messages; 2 local readers on 1 chunk, or 1 local on 2 chunks and 1 remote; one reader has a timeout | NoReaderIsOverrun, ImplementsBroadcast, EveryMessageArrives, ShutdownEndsReaders | hold; 539,596 states |
| executor | 2 workers, 2 calls, with and without output threads | TypeOK, RepliesMatchCalls, FuturesSettleInOrder, NoCallHangs, FailureReachesEngine | hold; 911,951 states |
| tq_setup | 1, 3, 4 and 6 layers, 4 presets, 2 head sizes, all skip lists, sliding windows on no, one or all layers, 5 kinds of checkpoint, hybrid manager on and off, import failing or not | SlotsFit, ImplMatchesCache, SkippedLayersUncompressed | hold; 342,354 states |
| tq_forward, tq_centroids, tq_skip | the same; tq_centroids with ModelSlim checkpoints only | ForwardSucceeds, FourBitCentroids, SkipPatternsAccepted | **violated**, one each |
| tq_cache | 2 requests, 3 usable blocks of 2 tokens, 16 centroids, 2 tokens | ReadsBackWhatWasStored, ReadsBackNearestCentroid | hold; 34,303 states |

**Bounds.** Block 0 is the null block, so four blocks are three usable ones: two
requests of the greatest length need more, which forces preemption, and one of
them fits, which the code demands at start-up (`CapacityAssumption`). Two tokens
per block is the smallest size with partly filled blocks. The prompts share
their first block, and one of them is exactly that block (the case in which the
last token has to be recomputed). The budget of three tokens cuts prompts into
chunks. Two batches under way is what async scheduling uses. Three requests are
needed for a preempted request to meet another one that waits. `MaxResets`
bounds the resets, `MaxTokens` and `MaxModelLen` the outputs; `MaxSeqLen` and
`MaxBatch` bound what TurboQuantCache stores. `MCNextToken` makes the next token
depend on length and content, so that a lost, repeated or foreign token shows.
Head size 16 is one for which a preset has as many centroids as coordinates, 64
an ordinary one. With one layer nothing is skipped, with three and four the
ranges of boundary layers are cut or meet, with six two layers remain. Symmetry is used only for safety properties. One chunk makes every
message overwrite the last one, two chunks let the writer run ahead, and three
messages go round either ring (`MaxMessages`). Two workers are needed for one to
fail while the other answers, two calls for a reply to reach the wrong one
(`MaxCalls`).

**Exceptions.** Some properties except states in which the code does not keep
the promise. What they say is only as strong as the exception is narrow:

* OutputSurvivesResets and EveryRequestFinishes say nothing about async
  scheduling after a forced reset (`TokenMayBeDropped`), because of finding 1.
* ImplementsBroadcast and EveryMessageArrives let a local reader drop out whose
  timeout strikes in `recv`: its chunk is already marked as read, so the payload
  stays in the socket and would be taken for that of a later message.
* ShutdownEndsReaders excepts a reader that is in `recv` with an empty socket
  (`StuckInRecv`): `shutdown` wakes the poll of SpinCondition, not this one. It
  says nothing of a reader that is still in `wait_until_ready`, either.
* RepliesMatchCalls excepts workers of which a caller gave up a reply
  (`abandoned`). `get_response` stops at the first failure or timeout and leaves
  the other replies in their queues, where the next call reads them; the engine
  goes on after a failed utility call (`core.py:1323-1339`). It also says nothing
  once a shutdown has taken the queues away.
* NoCallHangs excepts a call that waits for a worker whose output thread was
  ended by an exception of `get_output` (`WaitsForEver`).
* FailureReachesEngine excepts an engine that is shutting down, and a monitor
  whose run falls between the two steps of `register_failure_callback`.
* ImplMatchesCache excepts three cases. A layer with a sliding window gets a
  `SlidingWindowSpec` (`attention.py:592-604`), hence an ordinary cache, and the
  TurboQuant class. A C8 checkpoint on a node that is no producer gives all layers
  dtype int8; then `FullAttentionSpec.merge` takes the TurboQuant specs into that
  of layer 0, and the surgery still changes the class. If `turboquant_ops` cannot
  be imported, the layers have TurboQuant specs and keep their class.
* SlotsFit is about layers with the TurboQuant class and a TurboQuant cache. The
  slot is the same for all presets, since the patch asks only for the head size;
  `openspec/.../turboquant-kv-cache/spec.md:151-153` wants the slots of `4bit_nc` and
  `3bit_nc` to differ, which they do not.

**Fairness.** `FairEngineSpec` assumes weak fairness of the engine's own steps,
because `run_busy_loop` calls them in an endless loop on one thread, and of the
execution of the oldest batch, because the executor works through its queue.
Nothing is assumed of clients. Deadlock is checked for the engine: `Quiescent`
stands for the engine that blocks on its input queue when every request has
finished. `FairSpec` of MessageQueue assumes weak fairness of each process, as
the operating system schedules it, including its timeouts; nothing forces an
enqueue, the end of a busy period or a crash. That of MultiprocExecutor assumes
it of each thread and worker loop; nothing forces a call, a failure or a death.
Deadlock is not checked for these two, which stop when all messages or calls are
done, nor for TurboQuantLayer, whose set-up stops after an exception.

**Findings.**

1. `Scheduler.reset_prefix_cache(reset_running_requests=True)` with async
   scheduling marks every running request so that its token in flight is
   discarded, also a request with none in flight. The mark then hits the first
   token sampled after the request is resumed, and the output lacks that token
   (engine_reset_output). The placeholder of that token stays, and near
   `max_tokens` the request is passed over for ever.
2. `compute_pi_centroids` multiplies a vector with a matrix; its docstring
   expects a table of `(n_centroids, D)`. The forward pass of a TurboQuant layer
   raises, at the latest where it reads the cache (tq_forward).
3. The quantisation method is looked up before `_tq_config` is set, so with a
   ModelSlim checkpoint `create_weights`, which is there to "ensure 4-bit
   centroids" (`turboquant.py:57`), never runs and the presets with 3-bit keys
   keep 8 centroids (tq_centroids). Without a quantisation config no method is
   asked for, with the same result; the run leaves that out. The documents
   disagree on what is wanted: `spec.md:83-85` and `turboquant.py:28` give 3-bit
   keys 8 centroids.
4. A skip list with `sliding_window` is sorted as integers and raises (tq_skip).

Because of the second finding TurboQuantOps and TurboQuantCache describe the
codec and the cache as the functions of `turboquant_ops.py` define them and as
their unit tests use them, with the rotated centroids given.

## 4. What is proved

Assumptions are the named `ASSUME`s of the modules: positive sizes, finitely many
requests and readers, a ring of at least one chunk, prompts that fit, `NoHash` not
a token sequence, an even head size and a sorted table of at most 16 centroids,
as `solve_lloyd_max` yields it. The theorems on the engine assume besides that the
model yields tokens (`NextToken(s) \in Tokens`), stated in each of them, since
TLC cannot evaluate it for all `s`.

* **KVCacheManagerProofs**: lemmas on subsequences (order, range, injectivity,
  length) and on what each pool operation does to the free queue, the counts and
  the map come first. The inductive invariant `IInv` is the conjunction of
  the state invariants of the module but AllocationNeverRaises. None of them is
  inductive alone: that a new block is in no table needs exact reference counts;
  that a hit block holds the right tokens needs the map to agree with the blocks
  and the blocks with their holders; that a block past `num_cached_block` is not
  shared needs the cached blocks to be full; and that a shared block has one
  writer needs admission to leave the hit blocks computed. There is one lemma
  per action. `InductiveInvariant` is the result; the theorem of
  each state property follows from it, `NoAllocationRaises` from it by
  counting the idle hit blocks, `TablesAppendOnly` from the step.
* **SchedulerProofs, EngineCoreProofs**: the invariant adds to `IInv` that every
  request not being stopped is in the queue of its status and only running ones
  hold blocks, that running and then waiting requests are in the order of
  arrival, that no request computes or schedules more tokens than it has or waits
  for, and that a pass schedules a request at most once and none that it
  preempts. The bound on tokens is what the manager's guards ask for; the place
  in the queues is what makes a stop or abort free blocks exactly once.
  SchedulerProofs has one lemma per action; EngineCoreProofs adds the batch
  queue and concludes `EngineImplementsKVCacheManager`, by which the theorems on
  the manager hold in the engine, `QueuesAlwaysAgree`,
  `ArrivalOrderIsAlwaysKept`, `PassesAreConsistent` and `ForcedResetsSucceed`.
* **MultiprocExecutorProofs**: the invariant says that the futures not settled are
  those in `futures_queue` and the one being read, in the order of the calls, and
  that the replies on their way from a worker (being computed, in its output
  queue, in its reply queue) are those of the calls after the last one read from
  it, in order, unless a caller gave one up. `FuturesAlwaysSettleInOrder` and
  `RepliesAlwaysMatchCalls` follow.
* **FreeBlockQueueProofs**: the invariant says that there is a sequence of distinct
  blocks along which the links lead from the fake head to the fake tail and back,
  that the counter is its length, and that all other blocks have no links. The
  lemmas show that the walk finds just this sequence; the least place at which a
  claim fails stands in for induction. Each call maps the sequence to the one
  BlockQueue asks for, which gives `Refinement`.
* **MessageQueueRing, MessageQueueProofs**: the invariant
  has four parts. `TypeInv` gives types and the hand-shake. `RingOK` says that a
  reader between its look at the flags and its own mark has an unread chunk that
  the writer does not touch; this needs the reader to have seen its read flag
  before the written flag, and the writer to clear the read flags before it marks
  the chunk. `LocalOK` says that for some number of messages written the flags,
  contents and positions are those of a window of at most `max_chunks` messages
  up to that number, and the overflow socket holds the payloads not received.
  `RemoteOK` says the same of remote sockets. `MutualExclusion`, `FlagsAreExact`
  and `Refinement` follow. That `read_count` equals `n_local_reader` only when
  all have read is a fact on finite sets, a premise of the lemmas that is
  discharged in MessageQueueProofs.
* **TurboQuantProofs**, codec: packing and fp16 bytes round-trip, midpoint
  quantisation picks a nearest centroid, and a slot has the computed size and
  reads back as what was stored, for every even head size.
  Cache: the invariant says that every slot has its size, that
  no table has a block twice and that every position of every request holds the
  slot bytes of its token. A store preserves it because the positions of a batch
  have distinct slots in blocks that nobody else has. The read-back theorems
  combine it with `SlotReadBack` and `QuantizeIsNearest`. Set-up: the invariant
  follows the attributes of each layer through the stages and says what grouping
  leaves of the specs. With more than one layer the first is a boundary layer, so
  a TurboQuant spec merges into another only if the dtypes were made equal.
  `SlotsAlwaysFit`, `ImplAlwaysMatchesCache` and `SkippedLayersStayUncompressed`
  follow for every number of layers, skip list and even head size.

Proved and not repeated in a run: TypeOK of KVCacheManager, FreeBlockQueue and
MessageQueue, CacheTypeOK, RefCountsAreHolders, HeldBlocksHaveOwnHash,
SlotsCoverTokens, ListIsWhole and FlagsTellWhatIsUnread.

Only model-checked: CachedChainsStayReachable; of ScheduleAssertionsHold, what
PassIsConsistent leaves out (the token budget, a sum over a set, and the
placeholders of resumed requests); PlaceholdersMatchInFlight and EngineTypeOK; and
what concerns the worker: OutputIsModelText, OutputSurvivesResets,
CachedEntriesAreRight, WorkerKnowsRequests, WorkerForgetsFinished,
RowsAgreeWithStates, DecodesComeFirst. Liveness is out of the prover's reach:
EveryRequestFinishes, EveryMessageArrives, ShutdownEndsReaders, NoCallHangs and
FailureReachesEngine.

## 5. What is not modelled

Speculative decoding, LoRA, encoder inputs, KV connectors and offloading, the
priority policy (under which a pass can take blocks from a request that it has
already scheduled, `scheduler.py:479-502`), pipeline and context parallelism and data-parallel coordination:
`run_turboquant_qwen3.sh` turns none of them on. Streaming input, pause states,
structured output and pooling, which depend on the client's requests. Tensor
parallelism inside a batch (every worker executes the same batches; the executor
model has the calls and not what they compute), dummy runs and graphs. KV-cache
managers other than full attention and the hybrid coordinator. Start-up of worker
processes, follower nodes, the uniprocess and Ray executors. Attention and model
kernels, the rotation, normalisation and the Lloyd-Max solver, which are
numerical. `enable_chunked_prefill=False`
(`scheduler.py:684-690`) and the timeout of `acquire_write`, which no caller in the
executor sets. KV events, metrics and logging. These are most of the repository:
model definitions, kernels, entry points and the features above.

MessageQueue takes the subscription to the notify socket to be in effect when the
hand-shake is over, which `wait_until_ready` confirms for the data sockets only:
EveryMessageArrives rests on this. A negative timeout, with which `recv` would
poll without end, is left out.

The dense buffers and the decode branch of the TurboQuant attention are not
modelled: no forward pass gets there (finding 2). Once that is mended two things
there deserve properties: the buffers are kept between passes and sliced, so that
they hold another batch's values beyond the current lengths
(`turboquant_ops.py:289`), and the decode branch passes no window
(`attention_turboquant_v1.py:303`).

## 6. Open ends

1. Sliding-window and hybrid KV-cache groups; KV events as a log of the map.
2. Pause states and deferred sampling in EngineCore.
3. Proofs about the worker: WorkerKnowsRequests and RowsAgreeWithStates for any
   number of requests.
4. Composition of MultiprocExecutor with EngineCore, which calls workers through
   two queues of its own.
